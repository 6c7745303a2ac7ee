------------------------------ MODULE AuditLog ------------------------------
(***************************************************************************)
(* The audit log (audit_log.py): a live file and its rotated predecessors  *)
(* hold numbered records, each chained to the one before by an HMAC.  A    *)
(* writer is a process with an emitter on the file; its lock makes the     *)
(* process write one record at a time, nothing keeps two processes apart.  *)
(* A write may fail before, within or after its bytes reach the disk, a    *)
(* file may be unreadable while the chain is loaded, and a process may die *)
(* at any point.  The HMAC is ideal: its value is the sequence of the      *)
(* events it covers.                                                       *)
(***************************************************************************)
EXTENDS Integers, Sequences, FiniteSets

CONSTANTS
    Writers,    \* processes that emit into the file
    MaxEvents,  \* bound: events emitted
    MaxFiles    \* bound: files, the live one included

ASSUME BoundAssumption  == MaxEvents \in Nat /\ MaxFiles \in Nat \ {0}

VARIABLES
    files,      \* the rotated files, oldest first, and the live one
    writer,     \* [Writers -> position in _write and cached chain state]
    events,     \* history: number of events emitted, which are 1 .. events
    acked,      \* history: the events each writer committed, in order
    disturbed   \* history: what happened that the chain may not survive

vars == <<files, writer, events, acked, disturbed>>

-----------------------------------------------------------------------------
(* Files *)

Record(seq, event, chain) == [seq |-> seq, event |-> event, chain |-> chain]

\* "tail" is what follows the last newline: nothing, a cut record, or the whole
\* record of an event (which is in "records" too).  A garbled file has a line
\* that is no JSON, an undecodable one bytes that are no UTF-8.
Clean == -1
Cut   == -2

EmptyFile == [records |-> {}, tail |-> Clean, garbled |-> FALSE, decodable |-> TRUE]

Indices == 1 .. Len(files)
Live    == Len(files)
OnDisk(indices) == UNION {files[i].records : i \in indices}

\* How a write ends: all of it, or an OSError before ("nothing"), within
\* (inside a character, inside the record, before the newline) or after it.
Torn     == {"in character", "in record", "before newline"}
Failures == Torn \cup {"nothing", "after newline"}

\* The live file f after a write of r that ended so: text that follows an
\* unfinished line becomes part of that line.
Written(f, r, how) ==
    LET joined == f.tail # Clean
        kept   == {s \in f.records : s.event # f.tail}
        Rest(records, tail, garbled) ==
            [records |-> records, tail |-> tail, garbled |-> garbled,
             decodable |-> f.decodable /\ how # "in character"]
    IN  CASE how = "nothing" -> f
          [] how \in {"in character", "in record"} -> Rest(kept, Cut, f.garbled)
          [] how = "before newline" ->
                IF joined THEN Rest(kept, Cut, f.garbled)
                ELSE Rest(kept \cup {r}, r.event, f.garbled)
          [] OTHER ->
                IF joined THEN Rest(kept, Clean, TRUE) ELSE Rest(kept \cup {r}, Clean, f.garbled)

-----------------------------------------------------------------------------
(* Writers *)

WriterPcs == {"idle", "loading", "rotating", "appending", "committing"}

\* "known" is _chain_loaded, "seq" and "chain" are the cached head.
At(pc, event, known, seq, chain) ==
    [pc |-> pc, event |-> event, known |-> known, seq |-> seq, chain |-> chain]
Fresh == At("idle", 0, FALSE, 0, << >>)

NextRecord(w) == Record(writer[w].seq + 1, writer[w].event,
                        Append(writer[w].chain, writer[w].event))

Keeps(w, pc, event) == At(pc, event, writer[w].known, writer[w].seq, writer[w].chain)
GoesTo(w, pc) == writer' = [writer EXCEPT ![w] = Keeps(w, pc, writer[w].event)]
GivesUp(w)    == writer' = [writer EXCEPT ![w] = Keeps(w, "idle", 0)]

Init ==
    /\ files = <<EmptyFile>>
    /\ writer = [w \in Writers |-> Fresh]
    /\ events = 0
    /\ acked = [w \in Writers |-> << >>]
    /\ disturbed = {}

\* emit(): the process enters _write and takes the lock.
Emit(w) ==
    /\ writer[w].pc = "idle" /\ events < MaxEvents
    /\ events' = events + 1
    /\ writer' = [writer EXCEPT ![w] =
                     Keeps(w, IF writer[w].known THEN "rotating" ELSE "loading", events + 1)]
    /\ disturbed' = disturbed \cup
          (IF \E v \in Writers \ {w} : writer[v] # Fresh THEN {"two writers"} ELSE {})
    /\ UNCHANGED <<files, acked>>

\* mutant of Readable: only the live file is read
LiveOnly(indices) == OnDisk(indices \cap {Live})

Readable(indices) == OnDisk(indices)

Newest(records) == {r \in records : \A s \in records : s.seq <= r.seq}

\* _load_chain_state: an OSError on a file skips that file.
Load(w) ==
    /\ writer[w].pc = "loading"
    /\ \E indices \in SUBSET Indices :
          /\ \A i \in indices : files[i].decodable
          /\ LET found == Newest(Readable(indices)) IN
             \E r \in IF found = {} THEN {Record(0, 0, << >>)} ELSE found :
                writer' = [writer EXCEPT ![w] =
                              At("rotating", writer[w].event, TRUE, r.seq, r.chain)]
          /\ disturbed' = disturbed \cup (IF indices = Indices THEN {} ELSE {"unread file"})
    /\ UNCHANGED <<files, events, acked>>

\* The UnicodeDecodeError of a file that is read is no OSError: it leaves
\* _write, and the chain is loaded again by the next event.
LoadRaises(w) ==
    /\ writer[w].pc = "loading"
    /\ \E i \in Indices : ~ files[i].decodable
    /\ GivesUp(w)
    /\ UNCHANGED <<files, events, acked, disturbed>>

\* _rotate_if_needed: any file with text in it may have reached rotate_bytes.
Rotate(w) ==
    /\ writer[w].pc = "rotating"
    /\ GoesTo(w, "appending")
    /\ files[Live] # EmptyFile /\ Len(files) < MaxFiles
    /\ files' = Append(files, EmptyFile)
    /\ UNCHANGED <<events, acked, disturbed>>

\* The live file is small or absent, or its rename raised.
KeepFile(w) ==
    /\ writer[w].pc = "rotating"
    /\ GoesTo(w, "appending")
    /\ UNCHANGED <<files, events, acked, disturbed>>

PutsOnDisk(w, how) ==
    files' = [files EXCEPT ![Live] = Written(@, NextRecord(w), how)]

Write(w) ==
    /\ writer[w].pc = "appending"
    /\ PutsOnDisk(w, "all")
    /\ GoesTo(w, "committing")
    /\ UNCHANGED <<events, acked, disturbed>>

\* The open, the write or the close raised: the counters stay.
WriteFails(w) ==
    /\ writer[w].pc = "appending"
    /\ \E how \in Failures :
          /\ PutsOnDisk(w, how)
          /\ disturbed' = disturbed \cup (IF how = "nothing" THEN {} ELSE {"failed write"})
    /\ GivesUp(w)
    /\ UNCHANGED <<events, acked>>

\* mutant of Advance: the number moves on, the chain does not
AdvanceNumber(w) == At("idle", 0, TRUE, writer[w].seq + 1, writer[w].chain)

Advance(w) == At("idle", 0, TRUE, writer[w].seq + 1, NextRecord(w).chain)

Commit(w) ==
    /\ writer[w].pc = "committing"
    /\ writer' = [writer EXCEPT ![w] = Advance(w)]
    /\ acked' = [acked EXCEPT ![w] = Append(@, writer[w].event)]
    /\ UNCHANGED <<files, events, disturbed>>

\* The process ends, inside a write perhaps; a later one starts with no cache.
Exit(w) ==
    /\ writer[w] # Fresh
    /\ writer' = [writer EXCEPT ![w] = Fresh]
    /\ \/ UNCHANGED <<files, disturbed>>
       \/ /\ writer[w].pc = "appending"
          /\ \E how \in Torn : PutsOnDisk(w, how)
          /\ disturbed' = disturbed \cup {"death in a write"}
    /\ UNCHANGED <<events, acked>>

Next == \E w \in Writers :
            \/ Emit(w) \/ Load(w) \/ LoadRaises(w) \/ Rotate(w) \/ KeepFile(w)
            \/ Write(w) \/ WriteFails(w) \/ Commit(w) \/ Exit(w)

Spec == Init /\ [][Next]_vars

-----------------------------------------------------------------------------
(* The auditor *)

Records == OnDisk(Indices)

WellFormed == \A i \in Indices :
                 files[i].tail # Cut /\ ~ files[i].garbled /\ files[i].decodable

\* mutant of Parses: a line that is no JSON is skipped, as the loader does
ParsesLeniently == \A i \in Indices : files[i].decodable

Parses == WellFormed

\* The numbers are 1 .. n, each used once.
Dense == /\ \A r, s \in Records : r.seq = s.seq => r = s
         /\ \A r \in Records : r.seq > 1 => \E s \in Records : s.seq = r.seq - 1

\* Each stored HMAC is the one computed from the stored HMAC before it.
Chained == \A r \in Records :
              /\ r.seq = 1 => r.chain = <<r.event>>
              /\ \A s \in Records : r.seq = s.seq + 1 => r.chain = Append(s.chain, r.event)

\* verify_chain(all files, salt).ok
VerifyOk == Parses /\ Dense /\ Chained

\* The events the newest record vouches for, in order.
Vouched == IF Records = {} THEN << >> ELSE (CHOOSE r \in Newest(Records) : TRUE).chain

-----------------------------------------------------------------------------
(* Properties *)

RecordType == {r \in [seq : Nat \ {0}, event : Nat, chain : Seq(Nat)] : r.seq = Len(r.chain)}
FileType   == [records : SUBSET RecordType, tail : Int, garbled : BOOLEAN, decodable : BOOLEAN]
WriterType == [pc : WriterPcs, event : Nat, known : BOOLEAN, seq : Nat, chain : Seq(Nat)]
Disturbances == {"two writers", "unread file", "failed write", "death in a write"}

\* Types; the number of a record or of a cached head is the length of the
\* chain that its HMAC stands for, also after failures.
TypeOK ==
    /\ files \in Seq(FileType) /\ Len(files) \in 1 .. MaxFiles
    /\ writer \in [Writers -> WriterType]
    /\ \A w \in Writers : writer[w].seq = Len(writer[w].chain)
    /\ events \in 0 .. MaxEvents
    /\ acked \in [Writers -> Seq(Nat)]
    /\ disturbed \subseteq Disturbances

Precedes(a, b, s) == \E i, j \in 1 .. Len(s) : i < j /\ s[i] = a /\ s[j] = b

\* Whatever the disk, the process and a second process do to the log: as long
\* as verify_chain accepts it, the newest record vouches for every event an
\* emitter believed written, and for the events of one process in their order
\* (the single-writer contract of _write: "fail-loud, not silent").
FailLoud ==
    VerifyOk =>
        \A w \in Writers : \A i \in 1 .. Len(acked[w]) :
            /\ \E k \in 1 .. Len(Vouched) : Vouched[k] = acked[w][i]
            /\ \A j \in 1 .. i - 1 : Precedes(acked[w][j], acked[w][i], Vouched)

\* With one process at a time on the file, no torn bytes and no skipped file,
\* verify_chain accepts the log at every moment: failed opens and renames,
\* rotations, and processes that die and start again in any step do not break
\* the chain (the load of _write on the first event, the commit after the write).
IntactUnlessDisturbed == disturbed = {} => VerifyOk

\* The head a writer caches is the newest record.
IsHead(seq, chain) ==
    \/ Records = {} /\ seq = 0 /\ chain = << >>
    \/ \E r \in Newest(Records) : r.seq = seq /\ r.chain = chain

\* Why the log stays intact: at most one process is past its start, and its
\* cache is the head of the log, or one behind the record it has just written.
IntactInv ==
    disturbed = {} =>
        /\ \A i \in Indices : files[i].tail = Clean
        /\ VerifyOk
        /\ Records = {} \/ Newest(Records) # {}
        /\ \A v, w \in Writers : writer[v] # Fresh /\ writer[w] # Fresh => v = w
        /\ \A w \in Writers :
              /\ writer[w].pc \in {"rotating", "appending"} => writer[w].known
              /\ writer[w].pc = "loading" => ~ writer[w].known
              /\ writer[w].pc = "committing" => NextRecord(w) \in Newest(Records)
              /\ writer[w].pc # "committing" /\ writer[w].known =>
                    IsHead(writer[w].seq, writer[w].chain)
=============================================================================
