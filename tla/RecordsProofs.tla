---------------------------- MODULE RecordsProofs ---------------------------
(***************************************************************************)
(* Proofs about the audit log and the AI calls that write to it, about the *)
(* accounts and about the budgets.                                         *)
(*                                                                         *)
(* AuditLog, for any number of processes, events and files: types; that    *)
(* the chain verifies as long as no write is torn, no file is skipped and  *)
(* no second process runs; and that whenever it verifies, with any         *)
(* disturbance, every acknowledged event is in it, in order.               *)
(* AiDispatch, for any number of threads, caps and prices: receipts point  *)
(* at records of the log that exist and are not older than their call's,   *)
(* and a month costs no more than its cap and one call per thread.         *)
(* Accounts, for any users and any number of request threads: types, the   *)
(* sessions an account keeps, what an erasure leaves behind, the time of   *)
(* grace, and that an administrator remains.                               *)
(* Budgets, for any attempts, requests and limits: nobody is refused what  *)
(* is left, and nobody gets more.                                          *)
(***************************************************************************)
EXTENDS MCRecords, FiniteSetTheorems, SequenceTheorems, TLAPS

-----------------------------------------------------------------------------
(* Types *)

LEMMA NextRecordType ==
    ASSUME TypeOK, NEW w \in Writers PROVE NextRecord(w) \in RecordType
<1>1. writer[w] \in WriterType
    BY DEF TypeOK
<1>2. /\ writer[w].seq \in Nat /\ writer[w].event \in Nat /\ writer[w].chain \in Seq(Nat)
      /\ writer[w].seq = Len(writer[w].chain)
    BY <1>1 DEF WriterType, TypeOK
<1>3. /\ Append(writer[w].chain, writer[w].event) \in Seq(Nat)
      /\ Len(Append(writer[w].chain, writer[w].event)) = writer[w].seq + 1
    BY <1>2
<1>4. writer[w].seq + 1 \in Nat \ {0}
    BY <1>2
<1> QED
    BY <1>2, <1>3, <1>4 DEF NextRecord, Record, RecordType

LEMMA WrittenType ==
    ASSUME NEW f \in FileType, NEW r \in RecordType, NEW how \in Failures \cup {"all"}
    PROVE  Written(f, r, how) \in FileType
<1>1. /\ f.records \subseteq RecordType /\ f.tail \in Int
      /\ f.garbled \in BOOLEAN /\ f.decodable \in BOOLEAN
    BY DEF FileType
<1>2. r.event \in Int
    BY DEF RecordType
<1> DEFINE kept == {s \in f.records : s.event # f.tail}
<1> DEFINE Rest(records, tail, garbled) ==
            [records |-> records, tail |-> tail, garbled |-> garbled,
             decodable |-> f.decodable /\ how # "in character"]
<1>3. ASSUME NEW records \in SUBSET RecordType, NEW tail \in Int, NEW g \in BOOLEAN
      PROVE  Rest(records, tail, g) \in FileType
    BY <1>1, <1>3 DEF FileType
<1>4. kept \in SUBSET RecordType /\ kept \cup {r} \in SUBSET RecordType
    BY <1>1
<1>5. Clean \in Int /\ Cut \in Int
    BY DEF Clean, Cut
<1>6. /\ Rest(kept, Cut, f.garbled) \in FileType
      /\ Rest(kept \cup {r}, r.event, f.garbled) \in FileType
      /\ Rest(kept, Clean, TRUE) \in FileType
      /\ Rest(kept \cup {r}, Clean, f.garbled) \in FileType
    BY <1>1, <1>2, <1>3, <1>4, <1>5
<1> QED
    BY <1>6 DEF Written

\* What a write leaves behind is a sequence of files again.
LEMMA OnDiskType ==
    ASSUME TypeOK, NEW w \in Writers, NEW how \in Failures \cup {"all"}, PutsOnDisk(w, how)
    PROVE  files' \in Seq(FileType) /\ Len(files') = Len(files)
<1>1. files \in Seq(FileType) /\ Live \in 1 .. Len(files)
    BY DEF TypeOK, Live
<1>2. files[Live] \in FileType /\ NextRecord(w) \in RecordType
    BY <1>1, NextRecordType
<1> DEFINE new == Written(files[Live], NextRecord(w), how)
<1>3. new \in FileType
    BY <1>2, WrittenType
<1>4. files' = [files EXCEPT ![Live] = new]
    BY DEF PutsOnDisk
<1> HIDE DEF new
<1> QED
    BY <1>1, <1>3, <1>4, ExceptSeq

LEMMA AtType ==
    ASSUME NEW pc \in WriterPcs, NEW event \in Nat, NEW known \in BOOLEAN,
           NEW seq \in Nat, NEW chain \in Seq(Nat)
    PROVE  At(pc, event, known, seq, chain) \in WriterType
    BY DEF At, WriterType

\* A writer that only moves on keeps what it knows.
LEMMA KeepsType ==
    ASSUME TypeOK, NEW w \in Writers, NEW pc \in WriterPcs, NEW event \in Nat
    PROVE  /\ Keeps(w, pc, event) \in WriterType
           /\ Keeps(w, pc, event).seq = Len(Keeps(w, pc, event).chain)
<1>1. writer[w] \in WriterType /\ writer[w].seq = Len(writer[w].chain)
    BY DEF TypeOK
<1> QED
    BY <1>1 DEF Keeps, At, WriterType

\* Replacing the state of one writer.
LEMMA OneWriterType ==
    ASSUME TypeOK, NEW w \in Writers, NEW new \in WriterType, new.seq = Len(new.chain),
           writer' = [writer EXCEPT ![w] = new]
    PROVE  /\ writer' \in [Writers -> WriterType]
           /\ \A v \in Writers : writer'[v].seq = Len(writer'[v].chain)
    BY DEF TypeOK

LEMMA InitType == Init => TypeOK
<1> SUFFICES ASSUME Init PROVE TypeOK
    OBVIOUS
<1>1. EmptyFile \in FileType
    BY DEF EmptyFile, FileType, Clean
<1>2. << >> \in Seq(Nat) /\ Len(<< >>) = 0
    OBVIOUS
<1>3. Fresh \in WriterType /\ Fresh.seq = Len(Fresh.chain)
    BY <1>2 DEF Fresh, At, WriterType, WriterPcs
<1>4. files \in Seq(FileType) /\ Len(files) = 1
    BY <1>1 DEF Init
<1>5. writer \in [Writers -> WriterType] /\ \A w \in Writers : writer[w].seq = Len(writer[w].chain)
    BY <1>3 DEF Init
<1> QED
    BY <1>2, <1>4, <1>5, BoundAssumption DEF Init, TypeOK

LEMMA NextType == TypeOK /\ [Next]_vars => TypeOK'
<1> SUFFICES ASSUME TypeOK, [Next]_vars PROVE TypeOK'
    OBVIOUS
<1> USE BoundAssumption
<1>0. CASE UNCHANGED vars
    BY <1>0 DEF vars, TypeOK
<1>1. ASSUME NEW w \in Writers, Emit(w) PROVE TypeOK'
  <2>0. events \in 0 .. MaxEvents /\ events < MaxEvents /\ events' = events + 1
      BY <1>1 DEF Emit, TypeOK
  <2>1. events + 1 \in Nat /\ events' \in 0 .. MaxEvents
      BY <2>0
  <2> DEFINE pc == IF writer[w].known THEN "rotating" ELSE "loading"
  <2>2. pc \in WriterPcs
      BY DEF WriterPcs
  <2>3. writer' = [writer EXCEPT ![w] = Keeps(w, pc, events + 1)]
      BY <1>1 DEF Emit
  <2> HIDE DEF pc
  <2> QED
      BY <1>1, <2>1, <2>2, <2>3, KeepsType, OneWriterType, ZenonT(60)
         DEF Emit, TypeOK, Disturbances
<1>2. ASSUME NEW w \in Writers, Load(w) PROVE TypeOK'
  <2>1. PICK indices \in SUBSET Indices :
          /\ LET found == Newest(Readable(indices)) IN
             \E r \in IF found = {} THEN {Record(0, 0, << >>)} ELSE found :
                writer' = [writer EXCEPT ![w] =
                              At("rotating", writer[w].event, TRUE, r.seq, r.chain)]
          /\ disturbed' = disturbed \cup (IF indices = Indices THEN {} ELSE {"unread file"})
      BY <1>2 DEF Load
  <2>2. PICK r \in IF Newest(Readable(indices)) = {} THEN {Record(0, 0, << >>)}
                   ELSE Newest(Readable(indices)) :
          writer' = [writer EXCEPT ![w] = At("rotating", writer[w].event, TRUE, r.seq, r.chain)]
      BY <2>1
  <2>3. r.seq \in Nat /\ r.chain \in Seq(Nat) /\ r.seq = Len(r.chain)
    <3>1. CASE r = Record(0, 0, << >>)
        BY <3>1 DEF Record
    <3>2. CASE r \in Newest(Readable(indices))
      <4>1. PICK i \in Indices : r \in files[i].records
          BY <3>2 DEF Newest, Readable, OnDisk
      <4>2. files[i] \in FileType
          BY DEF TypeOK, Indices
      <4>3. r \in RecordType
          BY <4>1, <4>2 DEF FileType
      <4> QED
          BY <4>3 DEF RecordType
    <3> QED
        BY <2>2, <3>1, <3>2
  <2>4. writer[w].event \in Nat
      BY DEF TypeOK, WriterType
  <2> DEFINE new == At("rotating", writer[w].event, TRUE, r.seq, r.chain)
  <2>5. new \in WriterType /\ new.seq = Len(new.chain)
      BY <2>3, <2>4, AtType DEF WriterPcs, At
  <2>6. writer' = [writer EXCEPT ![w] = new]
      BY <2>2
  <2> HIDE DEF new
  <2>7. /\ writer' \in [Writers -> WriterType]
        /\ \A v \in Writers : writer'[v].seq = Len(writer'[v].chain)
      BY <2>5, <2>6, OneWriterType
  <2> QED
      BY <1>2, <2>1, <2>7 DEF Load, TypeOK, Disturbances
<1>3. ASSUME NEW w \in Writers, GivesUp(w) \/ GoesTo(w, "appending") \/ GoesTo(w, "committing")
      PROVE  /\ writer' \in [Writers -> WriterType]
             /\ \A v \in Writers : writer'[v].seq = Len(writer'[v].chain)
  <2>1. 0 \in Nat /\ writer[w].event \in Nat
      BY DEF TypeOK, WriterType
  <2> QED
      BY <1>3, <2>1, KeepsType, OneWriterType DEF GivesUp, GoesTo, WriterPcs
<1>4. ASSUME NEW w \in Writers, LoadRaises(w) PROVE TypeOK'
    BY <1>3, <1>4 DEF LoadRaises, TypeOK
<1>5. ASSUME NEW w \in Writers, Rotate(w) PROVE TypeOK'
  <2>1. EmptyFile \in FileType
      BY DEF EmptyFile, FileType, Clean
  <2>2. files' \in Seq(FileType) /\ Len(files') \in 1 .. MaxFiles
      BY <1>5, <2>1 DEF Rotate, TypeOK
  <2> QED
      BY <1>3, <1>5, <2>2 DEF Rotate, TypeOK
<1>6. ASSUME NEW w \in Writers, KeepFile(w) PROVE TypeOK'
    BY <1>3, <1>6 DEF KeepFile, TypeOK
<1>7. ASSUME NEW w \in Writers, Write(w) PROVE TypeOK'
  <2>1. files' \in Seq(FileType) /\ Len(files') = Len(files)
      BY <1>7, OnDiskType DEF Write
  <2> QED
      BY <1>3, <1>7, <2>1 DEF Write, TypeOK
<1>8. ASSUME NEW w \in Writers, WriteFails(w) PROVE TypeOK'
  <2>1. PICK how \in Failures :
          /\ PutsOnDisk(w, how)
          /\ disturbed' = disturbed \cup (IF how = "nothing" THEN {} ELSE {"failed write"})
      BY <1>8 DEF WriteFails
  <2>2. files' \in Seq(FileType) /\ Len(files') = Len(files)
      BY <2>1, OnDiskType
  <2> QED
      BY <1>3, <1>8, <2>1, <2>2 DEF WriteFails, TypeOK, Disturbances
<1>9. ASSUME NEW w \in Writers, Commit(w) PROVE TypeOK'
  <2>1. NextRecord(w) \in RecordType
      BY NextRecordType
  <2>2. NextRecord(w).chain \in Seq(Nat) /\ writer[w].seq + 1 = Len(NextRecord(w).chain)
      BY <2>1 DEF RecordType, NextRecord, Record
  <2>3. writer[w].seq + 1 \in Nat /\ writer[w].event \in Nat
      BY DEF TypeOK, WriterType
  <2>4. Advance(w) \in WriterType /\ Advance(w).seq = Len(Advance(w).chain)
      BY <2>2, <2>3, AtType DEF Advance, At, WriterPcs
  <2>5. acked' \in [Writers -> Seq(Nat)]
      BY <1>9, <2>3 DEF Commit, TypeOK
  <2>6. writer' = [writer EXCEPT ![w] = Advance(w)]
      BY <1>9 DEF Commit
  <2>7. /\ writer' \in [Writers -> WriterType]
        /\ \A v \in Writers : writer'[v].seq = Len(writer'[v].chain)
      BY <2>4, <2>6, OneWriterType
  <2> QED
      BY <1>9, <2>5, <2>7 DEF Commit, TypeOK
<1>10. ASSUME NEW w \in Writers, Exit(w) PROVE TypeOK'
  <2>1. Fresh \in WriterType /\ Fresh.seq = Len(Fresh.chain)
      BY DEF Fresh, At, WriterType, WriterPcs
  <2>2. /\ writer' \in [Writers -> WriterType]
        /\ \A v \in Writers : writer'[v].seq = Len(writer'[v].chain)
      BY <1>10, <2>1, OneWriterType DEF Exit
  <2>3. CASE UNCHANGED <<files, disturbed>>
      BY <1>10, <2>2, <2>3 DEF Exit, TypeOK
  <2>4. CASE /\ \E how \in Torn : PutsOnDisk(w, how)
             /\ disturbed' = disturbed \cup {"death in a write"}
    <3>1. files' \in Seq(FileType) /\ Len(files') = Len(files)
        BY <2>4, OnDiskType DEF Failures
    <3> QED
        BY <1>10, <2>2, <2>4, <3>1 DEF Exit, TypeOK, Disturbances
  <2> QED
      BY <1>10, <2>3, <2>4 DEF Exit
<1> QED
    BY <1>0, <1>1, <1>2, <1>4, <1>5, <1>6, <1>7, <1>8, <1>9, <1>10 DEF Next

\* The types of the log and its writers, for every value of the constants.
THEOREM TypeCorrect == Spec => []TypeOK
    BY InitType, NextType, PTL DEF Spec

-----------------------------------------------------------------------------
(* The chain *)

\* Newest and the facts of IntactInv that are about the files only.
FilesIntact ==
    /\ \A i \in Indices : files[i].tail = Clean
    /\ VerifyOk
    /\ Records = {} \/ Newest(Records) # {}

LEMMA RecordsType == ASSUME TypeOK PROVE Records \subseteq RecordType
<1> SUFFICES ASSUME NEW s \in Records PROVE s \in RecordType
    OBVIOUS
<1>1. PICK i \in Indices : s \in files[i].records
    BY DEF Records, OnDisk
<1>2. files[i] \in FileType
    BY DEF TypeOK, Indices
<1> QED
    BY <1>1, <1>2 DEF FileType

\* A record that is written after the head becomes the newest of a log that
\* verifies, and nothing else changes.
LEMMA HeadGrows ==
    ASSUME TypeOK, FilesIntact, NEW w \in Writers, PutsOnDisk(w, "all"),
           IsHead(writer[w].seq, writer[w].chain)
    PROVE  FilesIntact' /\ NextRecord(w) \in Newest(Records')
<1> DEFINE r == NextRecord(w)
           f == files[Live]
<1>1. /\ files \in Seq(FileType) /\ Live \in 1 .. Len(files)
      /\ f \in FileType /\ f.tail = Clean /\ ~ f.garbled /\ f.decodable
    BY DEF TypeOK, Live, FilesIntact, Indices, VerifyOk, Parses, WellFormed
<1>2. r \in RecordType
    BY NextRecordType
<1>3. \A s \in f.records : s.event # f.tail
    BY <1>1 DEF FileType, RecordType, Clean
<1>4. /\ Written(f, r, "all").records = f.records \cup {r}
      /\ Written(f, r, "all").tail = Clean
      /\ ~ Written(f, r, "all").garbled /\ Written(f, r, "all").decodable
  <2>1. {s \in f.records : s.event # f.tail} = f.records
      BY <1>3
  <2>2. Written(f, r, "all") = [records |-> f.records \cup {r}, tail |-> Clean,
                                garbled |-> f.garbled,
                                decodable |-> f.decodable /\ "all" # "in character"]
      BY <1>1, <2>1 DEF Written
  <2>3. /\ Written(f, r, "all").records = f.records \cup {r}
        /\ Written(f, r, "all").tail = Clean
        /\ Written(f, r, "all").garbled = f.garbled
        /\ Written(f, r, "all").decodable = (f.decodable /\ "all" # "in character")
      BY <2>2
  <2> QED
      BY <1>1, <2>3, Zenon
<1>5. /\ Indices' = Indices /\ Live \in Indices
      /\ files'[Live] = Written(f, r, "all")
      /\ \A i \in Indices \ {Live} : files'[i] = files[i]
    BY <1>1 DEF PutsOnDisk, Indices, Live
<1>6. Records' = Records \cup {r}
    BY <1>1, <1>4, <1>5 DEF Records, OnDisk
<1>7. (\A i \in Indices : files[i].tail = Clean)' /\ Parses'
    BY <1>4, <1>5 DEF FilesIntact, VerifyOk, Parses, WellFormed, Clean, Cut
<1> HIDE DEF f
<1>8. Records \subseteq RecordType
    BY RecordsType
<1>9. /\ r.seq = writer[w].seq + 1 /\ r.event = writer[w].event
      /\ r.chain = Append(writer[w].chain, writer[w].event)
    BY DEF NextRecord, Record
<1>10. writer[w].seq \in Nat
    BY DEF TypeOK, WriterType
<1>11. \A s \in Records : s.seq \in Nat \ {0} /\ s.seq < r.seq
    BY <1>8, <1>9, <1>10 DEF IsHead, Newest, RecordType
<1> HIDE DEF r
<1>12. r \in Newest(Records')
    BY <1>2, <1>6, <1>11 DEF Newest, RecordType
<1>13. Dense'
  <2>1. \A s, t \in Records' : s.seq = t.seq => s = t
      BY <1>2, <1>6, <1>11 DEF FilesIntact, VerifyOk, Dense, RecordType
  <2>2. r.seq > 1 => \E s \in Records : s.seq = r.seq - 1
      BY <1>9, <1>10 DEF IsHead, Newest
  <2>3. \A s \in Records' : s.seq > 1 => \E t \in Records' : t.seq = s.seq - 1
      BY <1>6, <2>2 DEF FilesIntact, VerifyOk, Dense
  <2> QED
      BY <2>1, <2>3 DEF Dense
<1>14. Chained'
  <2>1. r.seq = 1 => r.chain = <<r.event>>
    <3>1. r.seq = 1 => writer[w].chain = << >>
        BY <1>9, <1>10, <1>11 DEF IsHead, Newest
    <3>2. Append(<< >>, writer[w].event) = <<writer[w].event>>
        OBVIOUS
    <3> QED
        BY <1>9, <3>1, <3>2
  <2>2. \A s \in Records : r.seq = s.seq + 1 => r.chain = Append(s.chain, r.event)
    <3> SUFFICES ASSUME NEW s \in Records, r.seq = s.seq + 1
                 PROVE  r.chain = Append(s.chain, r.event)
        OBVIOUS
    <3>1. s.seq = writer[w].seq
        BY <1>9, <1>10, <1>11
    <3>2. PICK t \in Records : t.seq = writer[w].seq /\ t.chain = writer[w].chain
        BY DEF IsHead, Newest
    <3>3. t = s
        BY <3>1, <3>2 DEF FilesIntact, VerifyOk, Dense
    <3> QED
        BY <1>9, <3>2, <3>3
  <2>3. \A s \in Records : s.seq # r.seq + 1
      BY <1>2, <1>11 DEF RecordType
  <2>4. r.seq # r.seq + 1
      BY <1>2 DEF RecordType
  <2> QED
      BY <1>6, <2>1, <2>2, <2>3, <2>4 DEF FilesIntact, VerifyOk, Chained
<1> QED
    BY <1>7, <1>12, <1>13, <1>14 DEF FilesIntact, VerifyOk, r

\* Rotation moves no record.
LEMMA RotationKeeps ==
    ASSUME TypeOK, FilesIntact, files' = Append(files, EmptyFile)
    PROVE  FilesIntact' /\ Records' = Records
<1>1. files \in Seq(FileType)
    BY DEF TypeOK
<1>2. /\ Indices' = Indices \cup {Len(files) + 1}
      /\ files'[Len(files) + 1] = EmptyFile
      /\ \A i \in Indices : files'[i] = files[i]
    BY <1>1 DEF Indices
<1>3. /\ EmptyFile.records = {} /\ EmptyFile.tail = Clean
      /\ EmptyFile.garbled = FALSE /\ EmptyFile.decodable = TRUE
    BY DEF EmptyFile
<1>4. Records' = Records
    BY <1>2, <1>3, ZenonT(60) DEF Records, OnDisk
<1>5. (\A i \in Indices : files[i].tail = Clean)'
    BY <1>2, <1>3 DEF FilesIntact
<1>6. Parses'
  <2> SUFFICES ASSUME NEW i \in Indices'
               PROVE  files'[i].tail # Cut /\ ~ files'[i].garbled /\ files'[i].decodable
      BY DEF Parses, WellFormed
  <2>1. CASE i \in Indices
      BY <1>2, <2>1 DEF FilesIntact, VerifyOk, Parses, WellFormed
  <2>2. CASE i = Len(files) + 1
      BY <1>2, <1>3, <2>2 DEF Clean, Cut
  <2> QED
      BY <1>2, <2>1, <2>2
<1> QED
    BY <1>4, <1>5, <1>6 DEF FilesIntact, VerifyOk, Dense, Chained

LEMMA SameFiles ==
    ASSUME UNCHANGED files PROVE FilesIntact' = FilesIntact /\ Records' = Records
    BY DEF FilesIntact, VerifyOk, Parses, WellFormed, Dense, Chained, Records, OnDisk, Indices

\* The facts of IntactInv about the writers.
OneAtATime == \A v, w \in Writers : writer[v] # Fresh /\ writer[w] # Fresh => v = w

CacheIntact(w) ==
    /\ writer[w].pc \in {"rotating", "appending"} => writer[w].known
    /\ writer[w].pc = "loading" => ~ writer[w].known
    /\ writer[w].pc = "committing" => NextRecord(w) \in Newest(Records)
    /\ writer[w].pc # "committing" /\ writer[w].known => IsHead(writer[w].seq, writer[w].chain)

LEMMA IntactParts ==
    IntactInv <=> (disturbed = {} => /\ FilesIntact /\ OneAtATime
                                     /\ \A w \in Writers : CacheIntact(w))
    BY DEF IntactInv, FilesIntact, OneAtATime, CacheIntact

\* A fresh process knows nothing that could be wrong.
LEMMA FreshIntact == ASSUME NEW w \in Writers, writer[w] = Fresh PROVE CacheIntact(w)
    BY DEF Fresh, At, CacheIntact

\* If only w moves, the others are fresh and w's own facts hold after the step,
\* then all of IntactInv does.
LEMMA OnlyOneMoves ==
    ASSUME TypeOK, NEW w \in Writers, NEW new, writer' = [writer EXCEPT ![w] = new],
           \A v \in Writers \ {w} : writer[v] = Fresh,
           FilesIntact', CacheIntact(w)'
    PROVE  IntactInv'
<1>1. writer \in [Writers -> WriterType]
    BY DEF TypeOK
<1>2. \A v \in Writers \ {w} : writer'[v] = Fresh
    BY <1>1
<1>3. OneAtATime'
    BY <1>2 DEF OneAtATime
<1>4. \A v \in Writers : CacheIntact(v)'
  <2> SUFFICES ASSUME NEW v \in Writers PROVE CacheIntact(v)'
      OBVIOUS
  <2>1. CASE v = w
      BY <2>1
  <2>2. CASE v # w
      BY <1>2, <2>2 DEF CacheIntact, Fresh, At
  <2> QED
      BY <2>1, <2>2
<1> QED
    BY <1>3, <1>4 DEF IntactInv, FilesIntact, OneAtATime, CacheIntact

LEMMA InitIntact == Init => IntactInv
<1> SUFFICES ASSUME Init PROVE IntactInv
    OBVIOUS
<1>1. Indices = {1} /\ files[1] = EmptyFile
    BY DEF Init, Indices
<1>2. EmptyFile.records = {} /\ EmptyFile.tail = Clean
      /\ EmptyFile.garbled = FALSE /\ EmptyFile.decodable = TRUE
    BY DEF EmptyFile
<1>3. Records = {}
    BY <1>1, <1>2 DEF Records, OnDisk
<1>4. FilesIntact
    BY <1>1, <1>2, <1>3
    DEF FilesIntact, VerifyOk, Parses, WellFormed, Dense, Chained, Clean, Cut
<1>5. \A w \in Writers : writer[w] = Fresh
    BY DEF Init
<1>6. (\A w \in Writers : CacheIntact(w)) /\ OneAtATime
    BY <1>5, FreshIntact DEF OneAtATime
<1> QED
    BY <1>4, <1>6 DEF IntactInv, FilesIntact, OneAtATime, CacheIntact

LEMMA NextIntact == TypeOK /\ IntactInv /\ [Next]_vars => IntactInv'
<1> SUFFICES ASSUME TypeOK, IntactInv, [Next]_vars, disturbed' = {} PROVE IntactInv'
    BY DEF IntactInv
<1>1. disturbed = {}
    BY DEF Next, vars, Emit, Load, LoadRaises, Rotate, KeepFile, Write, WriteFails, Commit, Exit
<1>2. FilesIntact /\ OneAtATime /\ \A w \in Writers : CacheIntact(w)
    BY <1>1 DEF IntactInv, FilesIntact, OneAtATime, CacheIntact
<1>3. ASSUME NEW w \in Writers, writer[w] # Fresh
      PROVE  \A v \in Writers \ {w} : writer[v] = Fresh
    BY <1>2, <1>3 DEF OneAtATime
<1>4. \A w \in Writers : writer[w].pc # "idle" => writer[w] # Fresh
    BY DEF Fresh, At
<1>5. CASE UNCHANGED vars
  <2>1. FilesIntact' /\ Records' = Records
      BY <1>2, <1>5, SameFiles DEF vars
  <2>2. OneAtATime' /\ \A w \in Writers : CacheIntact(w)'
      BY <1>2, <1>5, <2>1 DEF vars, OneAtATime, CacheIntact, IsHead, NextRecord
  <2> QED
      BY <2>1, <2>2 DEF IntactInv, FilesIntact, OneAtATime, CacheIntact
<1>6. UNCHANGED files => FilesIntact' /\ Records' = Records
    BY <1>2, SameFiles
<1>7. ASSUME NEW w \in Writers, Emit(w) PROVE IntactInv'
  <2> DEFINE pc == IF writer[w].known THEN "rotating" ELSE "loading"
  <2>1. /\ writer' = [writer EXCEPT ![w] = Keeps(w, pc, events + 1)]
        /\ UNCHANGED files /\ writer[w].pc = "idle"
        /\ \A v \in Writers \ {w} : writer[v] = Fresh
      BY <1>7 DEF Emit
  <2>2. pc \in {"rotating", "loading"} /\ (pc = "rotating" <=> writer[w].known = TRUE)
      BY DEF TypeOK, WriterType
  <2> HIDE DEF pc
  <2>3. writer'[w] = Keeps(w, pc, events + 1)
      BY <2>1 DEF TypeOK
  <2>4. CacheIntact(w)'
      BY <1>2, <1>6, <2>1, <2>2, <2>3 DEF CacheIntact, Keeps, At, IsHead
  <2> QED
      BY <1>6, <2>1, <2>4, OnlyOneMoves
<1>8. ASSUME NEW w \in Writers, Load(w) PROVE IntactInv'
  <2>1. /\ writer[w].pc = "loading" /\ UNCHANGED files
        /\ LET found == Newest(Readable(Indices)) IN
           \E r \in IF found = {} THEN {Record(0, 0, << >>)} ELSE found :
              writer' = [writer EXCEPT ![w] =
                            At("rotating", writer[w].event, TRUE, r.seq, r.chain)]
      BY <1>8 DEF Load
  <2>2. Readable(Indices) = Records
      BY DEF Readable, Records
  <2>3. PICK r \in IF Newest(Records) = {} THEN {Record(0, 0, << >>)} ELSE Newest(Records) :
              writer' = [writer EXCEPT ![w] =
                            At("rotating", writer[w].event, TRUE, r.seq, r.chain)]
      BY <2>1, <2>2
  <2>4. IsHead(r.seq, r.chain)
      BY <1>2, <2>3 DEF IsHead, FilesIntact, Record
  <2>5. FilesIntact' /\ Records' = Records
      BY <1>2, <2>1, SameFiles
  <2>6. writer'[w] = At("rotating", writer[w].event, TRUE, r.seq, r.chain)
      BY <2>3 DEF TypeOK
  <2>7. CacheIntact(w)'
      BY <2>4, <2>5, <2>6 DEF CacheIntact, At, IsHead
  <2> QED
      BY <1>3, <1>4, <2>1, <2>3, <2>5, <2>7, OnlyOneMoves
<1>9. ASSUME NEW w \in Writers, LoadRaises(w) PROVE IntactInv'
    BY <1>2, <1>9 DEF LoadRaises, FilesIntact, VerifyOk, Parses, WellFormed
<1>10. ASSUME NEW w \in Writers, Rotate(w) PROVE IntactInv'
  <2>1. /\ writer' = [writer EXCEPT ![w] = Keeps(w, "appending", writer[w].event)]
        /\ files' = Append(files, EmptyFile) /\ writer[w].pc = "rotating"
      BY <1>10 DEF Rotate, GoesTo
  <2>2. FilesIntact' /\ Records' = Records
      BY <1>2, <2>1, RotationKeeps
  <2>3. writer'[w] = Keeps(w, "appending", writer[w].event)
      BY <2>1 DEF TypeOK
  <2>4. CacheIntact(w)'
      BY <1>2, <2>1, <2>2, <2>3 DEF CacheIntact, Keeps, At, IsHead
  <2> QED
      BY <1>3, <1>4, <2>1, <2>2, <2>4, OnlyOneMoves
<1>11. ASSUME NEW w \in Writers, KeepFile(w) PROVE IntactInv'
  <2>1. /\ writer' = [writer EXCEPT ![w] = Keeps(w, "appending", writer[w].event)]
        /\ UNCHANGED files /\ writer[w].pc = "rotating"
      BY <1>11 DEF KeepFile, GoesTo
  <2>2. writer'[w] = Keeps(w, "appending", writer[w].event)
      BY <2>1 DEF TypeOK
  <2>3. CacheIntact(w)'
      BY <1>2, <1>6, <2>1, <2>2 DEF CacheIntact, Keeps, At, IsHead
  <2> QED
      BY <1>3, <1>4, <1>6, <2>1, <2>3, OnlyOneMoves
<1>12. ASSUME NEW w \in Writers, Write(w) PROVE IntactInv'
  <2>1. /\ writer' = [writer EXCEPT ![w] = Keeps(w, "committing", writer[w].event)]
        /\ PutsOnDisk(w, "all") /\ writer[w].pc = "appending"
      BY <1>12 DEF Write, GoesTo
  <2>2. IsHead(writer[w].seq, writer[w].chain)
      BY <1>2, <2>1 DEF CacheIntact
  <2>3. FilesIntact' /\ NextRecord(w) \in Newest(Records')
      BY <1>2, <2>1, <2>2, HeadGrows
  <2>4. writer'[w] = Keeps(w, "committing", writer[w].event)
      BY <2>1 DEF TypeOK
  <2>5. CacheIntact(w)'
      BY <2>3, <2>4 DEF CacheIntact, Keeps, At, NextRecord, Newest
  <2> QED
      BY <1>3, <1>4, <2>1, <2>3, <2>5, OnlyOneMoves
<1>13. ASSUME NEW w \in Writers, WriteFails(w) PROVE IntactInv'
  <2>1. /\ writer' = [writer EXCEPT ![w] = Keeps(w, "idle", 0)]
        /\ PutsOnDisk(w, "nothing") /\ writer[w].pc = "appending"
      BY <1>13 DEF WriteFails, GivesUp
  <2>2. Written(files[Live], NextRecord(w), "nothing") = files[Live]
      BY DEF Written
  <2>3. UNCHANGED files
    <3>1. files \in Seq(FileType)
        BY DEF TypeOK
    <3>2. files' = [files EXCEPT ![Live] = files[Live]]
        BY <2>1, <2>2 DEF PutsOnDisk
    <3> QED
        BY <3>1, <3>2
  <2>4. writer'[w] = Keeps(w, "idle", 0)
      BY <2>1 DEF TypeOK
  <2>5. writer[w].known
      BY <1>2, <2>1 DEF CacheIntact
  <2>6. CacheIntact(w)'
      BY <1>2, <1>6, <2>1, <2>3, <2>4, <2>5 DEF CacheIntact, Keeps, At, IsHead
  <2> QED
      BY <1>3, <1>4, <1>6, <2>1, <2>3, <2>6, OnlyOneMoves
<1>14. ASSUME NEW w \in Writers, Commit(w) PROVE IntactInv'
  <2>1. /\ writer' = [writer EXCEPT ![w] = Advance(w)]
        /\ UNCHANGED files /\ writer[w].pc = "committing"
      BY <1>14 DEF Commit
  <2>2. NextRecord(w) \in Newest(Records)
      BY <1>2, <2>1 DEF CacheIntact
  <2>3. FilesIntact' /\ Records' = Records
      BY <1>2, <2>1, SameFiles
  <2>4. writer'[w] = Advance(w)
      BY <2>1 DEF TypeOK
  <2>5. NextRecord(w).seq = writer[w].seq + 1
      BY DEF NextRecord, Record
  <2>6. CacheIntact(w)'
      BY <2>2, <2>3, <2>4, <2>5 DEF CacheIntact, Advance, At, IsHead
  <2> QED
      BY <1>3, <1>4, <2>1, <2>3, <2>6, OnlyOneMoves
<1>15. ASSUME NEW w \in Writers, Exit(w) PROVE IntactInv'
  <2>1. /\ writer' = [writer EXCEPT ![w] = Fresh]
        /\ UNCHANGED files /\ writer[w] # Fresh
      BY <1>15 DEF Exit
  <2>2. FilesIntact' /\ writer'[w] = Fresh
      BY <1>2, <2>1, SameFiles DEF TypeOK
  <2>3. CacheIntact(w)'
      BY <2>2 DEF CacheIntact, Fresh, At
  <2> QED
      BY <1>3, <2>1, <2>2, <2>3, OnlyOneMoves
<1> QED
    BY <1>5, <1>7, <1>8, <1>9, <1>10, <1>11, <1>12, <1>13, <1>14, <1>15 DEF Next

\* One process at a time, whole writes and no skipped file: verify_chain accepts
\* the log at every moment, through failed opens, rotations, deaths and restarts.
THEOREM ChainIntact == Spec => []IntactUnlessDisturbed
<1>1. IntactInv => IntactUnlessDisturbed
    BY DEF IntactInv, IntactUnlessDisturbed
<1> QED
    BY <1>1, TypeCorrect, InitIntact, NextIntact, PTL DEF Spec

-----------------------------------------------------------------------------
(* What the newest record vouches for, whatever disturbs the log.           *)
(* A log that once had two records of one number, or lost one, never again  *)
(* verifies; in one that verifies a record is added at its end only.        *)

Unique == \A r, s \in Records : r.seq = s.seq => r = s
Good   == WellFormed /\ Unique

\* An event that is in no record yet.
InWrite(w) == writer[w].pc \in {"loading", "rotating", "appending"}
Flight ==
    /\ \A w \in Writers : writer[w].pc # "idle" => writer[w].event \in 1 .. events
    /\ \A v, w \in Writers :
          v # w /\ writer[v].pc # "idle" /\ writer[w].pc # "idle" =>
              writer[v].event # writer[w].event
    /\ \A r \in Records : r.event <= events
    /\ \A w \in Writers, r \in Records : InWrite(w) => r.event # writer[w].event

\* Each record covers all that have lower numbers, none is missing, and there
\* is a newest.
Covers  == \A r, s \in Records : s.seq <= r.seq => r.chain[s.seq] = s.event
Gapless == \A r \in Records : \A k \in 1 .. r.seq : \E s \in Records : s.seq = k
Topped  == Records = {} \/ \E r \in Records : \A s \in Records : s.seq <= r.seq

\* What was committed is there, in the order of each process.
AckedThere == \A w \in Writers : \A i \in 1 .. Len(acked[w]) :
                 \E r \in Records : r.event = acked[w][i]
InOrder    == \A w \in Writers : \A i \in 1 .. Len(acked[w]) : \A j \in 1 .. i - 1 :
                 \A r, s \in Records :
                    r.event = acked[w][j] /\ s.event = acked[w][i] => r.seq < s.seq

OnRecord(seq, chain) == seq = 0 \/ \E r \in Records : r.seq = seq /\ r.chain = chain
HeadsOnRecord == \A w \in Writers : OnRecord(writer[w].seq, writer[w].chain)
Committing    == \A w \in Writers : writer[w].pc = "committing" =>
                    /\ NextRecord(w) \in Records
                    /\ \A i \in 1 .. Len(acked[w]) : \A r, s \in Records :
                          r.event = acked[w][i] /\ s.event = writer[w].event => r.seq < s.seq

RecordsHold == Covers /\ Gapless /\ Topped /\ AckedThere /\ InOrder
LoudInv     == Flight /\ (Good => RecordsHold /\ HeadsOnRecord /\ Committing)

\* A write that leaves a well formed file has added its record or nothing.
LEMMA DiskStep ==
    ASSUME TypeOK, NEW w \in Writers, NEW how \in Failures \cup {"all"}, PutsOnDisk(w, how)
    PROVE  /\ Records' \subseteq Records \cup {NextRecord(w)}
           /\ WellFormed' => /\ WellFormed
                             /\ Records' \in {Records, Records \cup {NextRecord(w)}}
                             /\ how = "all" => Records' = Records \cup {NextRecord(w)}
<1> DEFINE n == NextRecord(w)
           f == files[Live]
           g == Written(f, n, how)
           kept == {s \in f.records : s.event # f.tail}
<1>1. /\ files \in Seq(FileType) /\ Live \in 1 .. Len(files) /\ f \in FileType
      /\ n \in RecordType
    BY NextRecordType DEF TypeOK, Live
<1>2. /\ Indices' = Indices /\ Live \in Indices /\ files'[Live] = g
      /\ \A i \in Indices \ {Live} : files'[i] = files[i]
    BY <1>1 DEF PutsOnDisk, Indices, Live
<1>3. f.garbled \in BOOLEAN /\ f.decodable \in BOOLEAN
    BY <1>1 DEF FileType
<1>4. f.tail = Clean => kept = f.records
    BY <1>1 DEF FileType, RecordType, Clean
<1> HIDE DEF n, f, kept
<1>5. CASE how = "nothing"
  <2>1. g = f
      BY <1>5 DEF Written
  <2>2. files' = files
      BY <1>1, <2>1 DEF PutsOnDisk, f, g, n
  <2> QED
      BY <1>5, <2>2 DEF Records, OnDisk, Indices, WellFormed
<1>6. CASE how \in {"in character", "in record"}
  <2>1. g.records = kept /\ g.tail = Cut
      BY <1>6 DEF Written, kept
  <2>2. ~ WellFormed'
      BY <1>2, <2>1 DEF WellFormed
  <2>3. Records' \subseteq Records
      BY <1>2, <2>1 DEF Records, OnDisk, kept, f
  <2> QED
      BY <2>2, <2>3
<1>7. CASE how \notin {"nothing", "in character", "in record"} /\ f.tail # Clean
  <2>1. g.records = kept /\ (g.tail = Cut \/ g.garbled)
      BY <1>7 DEF Written, kept
  <2>2. ~ WellFormed'
      BY <1>2, <2>1 DEF WellFormed
  <2>3. Records' \subseteq Records
      BY <1>2, <2>1 DEF Records, OnDisk, kept, f
  <2> QED
      BY <2>2, <2>3
<1>8. CASE how \notin {"nothing", "in character", "in record"} /\ f.tail = Clean
  <2> DEFINE d == f.decodable /\ how # "in character"
  <2>1. g.records = f.records \cup {n} /\ g.garbled = f.garbled /\ g.decodable = d
    <3>1. \/ g = [records |-> kept \cup {n}, tail |-> n.event,
                    garbled |-> f.garbled, decodable |-> d]
          \/ g = [records |-> kept \cup {n}, tail |-> Clean, garbled |-> f.garbled, decodable |-> d]
        BY <1>8 DEF Written, kept
    <3>2. kept = f.records
        BY <1>4, <1>8
    <3> HIDE DEF d, g
    <3> QED
        BY <3>1, <3>2
  <2>2. Records' = Records \cup {n}
      BY <1>2, <2>1, ZenonT(60) DEF Records, OnDisk, f
  <2>3. WellFormed' => WellFormed
    <3> SUFFICES ASSUME WellFormed', NEW i \in Indices
                 PROVE  files[i].tail # Cut /\ ~ files[i].garbled /\ files[i].decodable
        BY DEF WellFormed
    <3>1. CASE i # Live
        BY <1>2, <3>1 DEF WellFormed
    <3>2. CASE i = Live
      <4>1. ~ g.garbled /\ g.decodable
          BY <1>2 DEF WellFormed
      <4>2. Clean # Cut
          BY DEF Clean, Cut
      <4>3. ~ f.garbled /\ f.decodable
          BY <2>1, <4>1, <1>3
      <4> QED
          BY <1>8, <3>2, <4>2, <4>3 DEF f
    <3> QED
        BY <3>1, <3>2
  <2> QED
      BY <2>2, <2>3 DEF n
<1> QED
    BY <1>5, <1>6, <1>7, <1>8

\* In a log that may yet verify the record of an event in flight is the last.
LEMMA RecordAdded ==
    ASSUME TypeOK, LoudInv, NEW w \in Writers, InWrite(w), Good', WellFormed,
           Records' = Records \cup {NextRecord(w)}, acked' = acked
    PROVE  /\ Good /\ RecordsHold'
           /\ \A r \in Records : r.seq < NextRecord(w).seq
<1> DEFINE n == NextRecord(w)
<1>1. Good
    BY DEF Good, Unique
<1>2. RecordsHold /\ HeadsOnRecord /\ Flight
    BY <1>1 DEF LoudInv
<1>3. n \in RecordType /\ Records \subseteq RecordType
    BY NextRecordType, RecordsType
<1>4. /\ n.seq = writer[w].seq + 1 /\ n.event = writer[w].event
      /\ n.chain = Append(writer[w].chain, writer[w].event)
    BY DEF NextRecord, Record
<1>5. /\ writer[w].seq \in Nat /\ writer[w].chain \in Seq(Nat)
      /\ writer[w].seq = Len(writer[w].chain) /\ writer[w].event \in Nat
    BY DEF TypeOK, WriterType
<1>6. \A r \in Records : r.event # n.event
    BY <1>2, <1>4 DEF Flight
<1>7. Unique'
    BY DEF Good
<1> HIDE DEF n
<1>8. ASSUME NEW r \in Records PROVE r.seq < n.seq
  <2> SUFFICES ASSUME ~(r.seq < n.seq) PROVE FALSE
      OBVIOUS
  <2>1. r.seq \in Nat /\ n.seq \in 1 .. r.seq
      BY <1>3, <1>4, <1>5 DEF RecordType
  <2>2. PICK s \in Records : s.seq = n.seq
      BY <1>2, <2>1 DEF RecordsHold, Gapless
  <2>3. s = n
      BY <1>7, <2>2 DEF Unique, n
  <2> QED
      BY <1>6, <2>3
<1>9. n.chain[n.seq] = n.event
    BY <1>4, <1>5
<1>10. ASSUME NEW s \in Records PROVE n.chain[s.seq] = s.event
  <2>1. s.seq \in Nat \ {0} /\ s.seq < n.seq
      BY <1>3, <1>8 DEF RecordType
  <2>2. writer[w].seq # 0
      BY <1>4, <2>1
  <2>3. PICK p \in Records : p.seq = writer[w].seq /\ p.chain = writer[w].chain
      BY <1>2, <2>2 DEF HeadsOnRecord, OnRecord
  <2>4. p.chain[s.seq] = s.event
      BY <1>2, <1>4, <1>5, <2>1, <2>3 DEF RecordsHold, Covers
  <2>5. s.seq \in 1 .. Len(writer[w].chain)
      BY <1>4, <1>5, <2>1
  <2> QED
      BY <1>4, <1>5, <2>3, <2>4, <2>5
<1>11. Covers'
  <2> SUFFICES ASSUME NEW r \in Records \cup {n}, NEW s \in Records \cup {n}, s.seq <= r.seq
               PROVE  r.chain[s.seq] = s.event
      BY DEF Covers, n
  <2>1. CASE r \in Records /\ s \in Records
      BY <1>2, <2>1 DEF RecordsHold, Covers
  <2>2. CASE r = n
      BY <1>9, <1>10, <2>2
  <2>3. CASE s = n /\ r \in Records
      BY <1>3, <1>8, <2>3 DEF RecordType
  <2> QED
      BY <2>1, <2>2, <2>3
<1>12. Gapless'
  <2> SUFFICES ASSUME NEW r \in Records \cup {n}, NEW k \in 1 .. r.seq
               PROVE  \E s \in Records \cup {n} : s.seq = k
      BY DEF Gapless, n
  <2>1. CASE r \in Records
      BY <1>2, <2>1 DEF RecordsHold, Gapless
  <2>2. CASE r = n /\ k # n.seq
    <3>1. k \in 1 .. writer[w].seq
        BY <1>4, <1>5, <2>2
    <3>2. PICK p \in Records : p.seq = writer[w].seq
        BY <1>2, <3>1 DEF HeadsOnRecord, OnRecord
    <3> QED
        BY <1>2, <3>1, <3>2 DEF RecordsHold, Gapless
  <2> QED
      BY <2>1, <2>2
<1>13. Topped'
  <2>1. \A s \in Records \cup {n} : s.seq <= n.seq
      BY <1>3, <1>8 DEF RecordType
  <2> QED
      BY <2>1 DEF Topped, n
<1>14. AckedThere' /\ InOrder'
  <2>1. \A v \in Writers : \A i \in 1 .. Len(acked[v]) : acked[v][i] # n.event
      BY <1>2, <1>6 DEF RecordsHold, AckedThere
  <2>2. AckedThere'
      BY <1>2 DEF RecordsHold, AckedThere
  <2>3. ASSUME NEW v \in Writers, NEW i \in 1 .. Len(acked[v]), NEW j \in 1 .. i - 1,
               NEW r \in Records \cup {n}, NEW s \in Records \cup {n},
               r.event = acked[v][j], s.event = acked[v][i]
        PROVE  r.seq < s.seq
    <3>1. j \in 1 .. Len(acked[v])
        BY DEF TypeOK
    <3>2. r \in Records /\ s \in Records
        BY <2>1, <2>3, <3>1
    <3> QED
        BY <1>2, <2>3, <3>2 DEF RecordsHold, InOrder
  <2> QED
      BY <2>2, <2>3 DEF InOrder, n
<1> QED
    BY <1>1, <1>8, <1>11, <1>12, <1>13, <1>14 DEF RecordsHold, n

\* So it is for any way in which a write may end.
LEMMA LogGrows ==
    ASSUME TypeOK, LoudInv, NEW w \in Writers, InWrite(w), NEW how \in Failures \cup {"all"},
           PutsOnDisk(w, how), acked' = acked, Good'
    PROVE  /\ Good /\ RecordsHold' /\ Records \subseteq Records'
           /\ \A r \in Records' \ Records : r = NextRecord(w)
           /\ how = "all" => /\ NextRecord(w) \in Records'
                              /\ \A r \in Records : r.seq < NextRecord(w).seq
<1>1. /\ WellFormed
      /\ Records' \in {Records, Records \cup {NextRecord(w)}}
      /\ how = "all" => Records' = Records \cup {NextRecord(w)}
    BY DiskStep DEF Good
<1>2. CASE Records' = Records \cup {NextRecord(w)}
    BY <1>1, <1>2, RecordAdded
<1>3. CASE Records' = Records
  <2>1. Good
      BY <1>1, <1>3 DEF Good, Unique
  <2>2. RecordsHold'
      BY <1>3, <2>1 DEF LoudInv, RecordsHold, Covers, Gapless, Topped, AckedThere, InOrder
  <2>3. how = "all" => NextRecord(w) \in Records
      BY <1>1, <1>3
  <2>4. InWrite(w) => NextRecord(w) \notin Records
      BY DEF LoudInv, Flight, NextRecord, Record
  <2> QED
      BY <1>3, <2>1, <2>2, <2>3, <2>4
<1> QED
    BY <1>1, <1>2, <1>3

LEMMA LogSame ==
    ASSUME UNCHANGED <<files, acked>>
    PROVE  Records' = Records /\ Good' = Good /\ RecordsHold' = RecordsHold
<1>1. Records' = Records /\ WellFormed' = WellFormed
    BY DEF Records, OnDisk, Indices, WellFormed
<1> QED
    BY <1>1 DEF Good, Unique, RecordsHold, Covers, Gapless, Topped, AckedThere, InOrder

LEMMA LogRotated ==
    ASSUME TypeOK, files' = Append(files, EmptyFile), UNCHANGED acked
    PROVE  Records' = Records /\ (Good' => Good) /\ RecordsHold' = RecordsHold
<1>1. files \in Seq(FileType)
    BY DEF TypeOK
<1>2. /\ Indices' = Indices \cup {Len(files) + 1}
      /\ files'[Len(files) + 1] = EmptyFile
      /\ \A i \in Indices : files'[i] = files[i]
    BY <1>1 DEF Indices
<1>3. EmptyFile.records = {}
    BY DEF EmptyFile
<1>4. Records' = Records
    BY <1>2, <1>3 DEF Records, OnDisk
<1>5. WellFormed' => WellFormed
    BY <1>2 DEF WellFormed
<1> QED
    BY <1>4, <1>5 DEF Good, Unique, RecordsHold, Covers, Gapless, Topped, AckedThere, InOrder

\* One writer moves on, without committing, in a log that has at most its
\* record more.
LEMMA WriterStep ==
    ASSUME TypeOK, LoudInv, NEW w \in Writers, NEW new, writer' = [writer EXCEPT ![w] = new],
           Records' \subseteq Records \cup {NextRecord(w)},
           Good' => /\ Good /\ RecordsHold' /\ Records \subseteq Records'
                    /\ \A r \in Records' \ Records : r = NextRecord(w),
           Records' # Records => InWrite(w),
           \/ new.pc \in {"idle", "committing"} /\ events' = events
           \/ InWrite(w) /\ new.event = writer[w].event /\ Records' = Records /\ events' = events
           \/ new.event = events + 1 /\ events' = events + 1 /\ Records' = Records
              /\ new.pc # "committing",
           new.pc = "committing" =>
              /\ InWrite(w) /\ Keeps(w, "committing", writer[w].event) = new
              /\ Good' => /\ NextRecord(w) \in Records'
                          /\ \A r \in Records : r.seq < NextRecord(w).seq,
           Good' => OnRecord(new.seq, new.chain)',
           UNCHANGED acked, events \in Nat, events' <= MaxEvents
    PROVE  LoudInv'
<1> DEFINE n == NextRecord(w)
<1>1. writer'[w] = new /\ \A v \in Writers \ {w} : writer'[v] = writer[v]
    BY DEF TypeOK
<1>2. n.event = writer[w].event
    BY DEF NextRecord, Record
<1>3. Flight
    BY DEF LoudInv
<1>4. new.pc = "committing" => new.event = writer[w].event /\ new.seq = writer[w].seq
                               /\ new.chain = writer[w].chain
    BY DEF Keeps, At
<1>5. InWrite(w) => writer[w].pc # "idle"
    BY DEF InWrite
<1>6. Flight'
  <2>1. ASSUME NEW v \in Writers, writer'[v].pc # "idle" PROVE writer'[v].event \in 1 .. events'
    <3>1. \A x \in 1 .. events : x \in 1 .. events'
        OBVIOUS
    <3>2. CASE v = w
        BY <1>1, <1>3, <1>4, <1>5, <2>1, <3>1, <3>2 DEF Flight
    <3>3. CASE v # w
        BY <1>1, <1>3, <2>1, <3>1, <3>3 DEF Flight
    <3> QED
        BY <3>2, <3>3
  <2>2. ASSUME NEW v \in Writers, v # w, writer[v].pc # "idle", new.pc # "idle"
        PROVE  writer[v].event # new.event
    <3>1. writer[v].event \in 1 .. events
        BY <1>3, <2>2 DEF Flight
    <3> QED
        BY <1>3, <1>4, <1>5, <2>2, <3>1 DEF Flight
  <2>3. \A r \in Records' : r.event <= events'
    <3>1. InWrite(w) => n.event \in 1 .. events
        BY <1>2, <1>3, <1>5 DEF Flight
    <3>2. \A r \in Records : r.event <= events /\ r.event \in Nat
        BY <1>3, RecordsType DEF Flight, RecordType
    <3> QED
        BY <3>1, <3>2
  <2>4. ASSUME NEW v \in Writers, NEW r \in Records', InWrite(v)' PROVE r.event # writer'[v].event
    <3>1. CASE v = w
      <4>1. Records' = Records /\ new.pc \notin {"idle", "committing"}
          BY <1>1, <2>4, <3>1 DEF InWrite
      <4>2. r.event <= events /\ r.event \in Nat
          BY <1>3, <4>1, RecordsType DEF Flight, RecordType
      <4> QED
          BY <1>1, <1>3, <2>4, <3>1, <4>1, <4>2 DEF Flight
    <3>2. CASE v # w
      <4>1. InWrite(v) /\ writer'[v] = writer[v]
          BY <1>1, <2>4, <3>2 DEF InWrite
      <4>2. CASE r \in Records
          BY <1>3, <4>1, <4>2 DEF Flight
      <4>3. CASE r \notin Records
        <5>1. r = n /\ InWrite(w)
            BY <4>3
        <5> QED
            BY <1>2, <1>3, <1>5, <3>2, <4>1, <5>1 DEF Flight, InWrite
      <4> QED
          BY <4>2, <4>3
    <3> QED
        BY <3>1, <3>2
  <2>5. ASSUME NEW v \in Writers, NEW x \in Writers, v # x, writer'[v].pc # "idle",
               writer'[x].pc # "idle"
        PROVE  writer'[v].event # writer'[x].event
    <3>1. CASE v = w
        BY <1>1, <2>2, <2>5, <3>1
    <3>2. CASE x = w
        BY <1>1, <2>2, <2>5, <3>2
    <3>3. CASE v # w /\ x # w
        BY <1>1, <1>3, <2>5, <3>3 DEF Flight
    <3> QED
        BY <3>1, <3>2, <3>3
  <2> QED
      BY <2>1, <2>3, <2>4, <2>5 DEF Flight
<1>7. SUFFICES ASSUME Good' PROVE RecordsHold' /\ HeadsOnRecord' /\ Committing'
    BY <1>6 DEF LoudInv
<1>8. RecordsHold /\ HeadsOnRecord /\ Committing
    BY <1>7 DEF LoudInv
<1>9. HeadsOnRecord'
  <2> SUFFICES ASSUME NEW v \in Writers PROVE OnRecord(writer[v].seq, writer[v].chain)'
      BY DEF HeadsOnRecord
  <2>1. CASE v = w
      BY <1>1, <1>7, <2>1 DEF OnRecord
  <2>2. CASE v # w
      BY <1>1, <1>7, <1>8, <2>2 DEF HeadsOnRecord, OnRecord
  <2> QED
      BY <2>1, <2>2
<1>10. ASSUME NEW v \in Writers, NEW i \in 1 .. Len(acked[v]), NEW r \in Records',
              r.event = acked[v][i]
       PROVE  r \in Records
  <2>1. PICK s \in Records : s.event = acked[v][i]
      BY <1>8 DEF RecordsHold, AckedThere
  <2>2. InWrite(w) => n.event # s.event
      BY <1>2, <1>3 DEF Flight
  <2> QED
      BY <1>7, <1>10, <2>1, <2>2
<1>11. Committing'
  <2>1. ASSUME NEW v \in Writers, writer'[v].pc = "committing"
        PROVE  /\ NextRecord(v)' \in Records'
               /\ \A i \in 1 .. Len(acked[v]) : \A r, s \in Records' :
                     r.event = acked[v][i] /\ s.event = writer'[v].event => r.seq < s.seq
    <3>1. CASE v = w
      <4>1. NextRecord(w)' = n
          BY <1>1, <1>4, <2>1, <3>1 DEF NextRecord
      <4>2. \A s \in Records' : s.event = n.event => s = n
          BY <1>1, <1>2, <1>3, <1>7, <2>1, <3>1 DEF Flight
      <4> QED
          BY <1>1, <1>2, <1>4, <1>7, <1>10, <2>1, <3>1, <4>1, <4>2
    <3>2. CASE v # w
      <4>1. writer'[v] = writer[v] /\ NextRecord(v)' = NextRecord(v)
          BY <1>1, <3>2 DEF NextRecord
      <4>2. NextRecord(v) \in Records'
          BY <1>7, <1>8, <2>1, <4>1 DEF Committing
      <4>3. ASSUME NEW s \in Records', s.event = writer[v].event PROVE s \in Records
        <5>1. InWrite(w) => n.event # s.event
            BY <1>2, <1>3, <1>5, <2>1, <3>2, <4>1, <4>3 DEF Flight
        <5> QED
            BY <1>7, <5>1
      <4> QED
          BY <1>8, <1>10, <2>1, <4>1, <4>2, <4>3 DEF Committing
    <3> QED
        BY <3>1, <3>2
  <2> QED
      BY <2>1 DEF Committing
<1> QED
    BY <1>7, <1>9, <1>11

\* The same where the files stay what they are.
LEMMA WriterOnly ==
    ASSUME TypeOK, LoudInv, NEW w \in Writers, NEW new, writer' = [writer EXCEPT ![w] = new],
           UNCHANGED <<files, acked, events>>,
           new.pc = "idle" \/ (InWrite(w) /\ new.event = writer[w].event), new.pc # "committing",
           OnRecord(writer[w].seq, writer[w].chain) => OnRecord(new.seq, new.chain)
    PROVE  LoudInv'
<1>1. Records' = Records /\ Good' = Good /\ RecordsHold' = RecordsHold
    BY LogSame
<1>2. events \in Nat /\ events <= MaxEvents
    BY BoundAssumption DEF TypeOK
<1>3. Good => OnRecord(new.seq, new.chain)'
    BY <1>1 DEF LoudInv, HeadsOnRecord, OnRecord
<1>4. Good => RecordsHold
    BY DEF LoudInv
<1> QED
    BY <1>1, <1>2, <1>3, <1>4, WriterStep

LEMMA InitLoud == Init => LoudInv
<1> SUFFICES ASSUME Init PROVE LoudInv
    OBVIOUS
<1>1. Indices = {1} /\ files[1] = EmptyFile
    BY DEF Init, Indices
<1>2. Records = {}
    BY <1>1 DEF Records, OnDisk, EmptyFile
<1>3. \A w \in Writers : writer[w].pc = "idle" /\ writer[w].seq = 0 /\ acked[w] = << >>
    BY DEF Init, Fresh, At
<1>4. RecordsHold
    BY <1>2, <1>3 DEF RecordsHold, Covers, Gapless, Topped, AckedThere, InOrder
<1> QED
    BY <1>2, <1>3, <1>4 DEF LoudInv, Flight, HeadsOnRecord, OnRecord, Committing

LEMMA EmitLoud == ASSUME TypeOK, LoudInv, NEW w \in Writers, Emit(w) PROVE LoudInv'
<1> DEFINE pc == IF writer[w].known THEN "rotating" ELSE "loading"
           kept == Keeps(w, pc, events + 1)
<1>1. /\ writer' = [writer EXCEPT ![w] = kept] /\ events < MaxEvents /\ events' = events + 1
      /\ UNCHANGED <<files, acked>>
    BY DEF Emit
<1>2. PICK new : /\ writer' = [writer EXCEPT ![w] = new] /\ new.event = events + 1
                 /\ new.pc \notin {"idle", "committing"}
                 /\ new.seq = writer[w].seq /\ new.chain = writer[w].chain
  <2>1. /\ kept.event = events + 1 /\ kept.pc \notin {"idle", "committing"}
        /\ kept.seq = writer[w].seq /\ kept.chain = writer[w].chain
      BY DEF Keeps, At
  <2> HIDE DEF kept
  <2> QED
      BY <1>1, <2>1
<1> HIDE DEF kept
<1>3. Records' = Records /\ Good' = Good /\ RecordsHold' = RecordsHold
    BY <1>1, LogSame
<1>4. events \in Nat /\ events' <= MaxEvents
    BY <1>1, BoundAssumption DEF TypeOK
<1>5. Good => RecordsHold /\ OnRecord(new.seq, new.chain)'
    BY <1>2, <1>3 DEF LoudInv, HeadsOnRecord, OnRecord
<1> QED
    BY <1>1, <1>2, <1>3, <1>4, <1>5, WriterStep

LEMMA LoadLoud == ASSUME TypeOK, LoudInv, NEW w \in Writers, Load(w) PROVE LoudInv'
<1>1. PICK indices \in SUBSET Indices :
          LET found == Newest(Readable(indices)) IN
             \E r \in IF found = {} THEN {Record(0, 0, << >>)} ELSE found :
                writer' = [writer EXCEPT ![w] =
                              At("rotating", writer[w].event, TRUE, r.seq, r.chain)]
    BY DEF Load
<1>2. PICK r \in IF Newest(Readable(indices)) = {} THEN {Record(0, 0, << >>)}
                 ELSE Newest(Readable(indices)) :
          writer' = [writer EXCEPT ![w] = At("rotating", writer[w].event, TRUE, r.seq, r.chain)]
    BY <1>1
<1>3. r.seq = 0 \/ r \in Records
    BY <1>2 DEF Newest, Readable, OnDisk, Records, Record
<1> DEFINE new == At("rotating", writer[w].event, TRUE, r.seq, r.chain)
<1>4. new.pc = "rotating" /\ new.event = writer[w].event /\ OnRecord(new.seq, new.chain)
    BY <1>3 DEF At, OnRecord
<1>5. writer' = [writer EXCEPT ![w] = new]
    BY <1>2
<1> HIDE DEF new
<1>6. UNCHANGED <<files, acked, events>> /\ InWrite(w)
    BY DEF Load, InWrite
<1> QED
    BY <1>4, <1>5, <1>6, WriterOnly

\* Steps that keep the cached head.
LEMMA MoveLoud ==
    ASSUME TypeOK, LoudInv, NEW w \in Writers,
           GivesUp(w) \/ (InWrite(w) /\ GoesTo(w, "appending")),
           UNCHANGED <<acked, events>>, files' = files \/ files' = Append(files, EmptyFile)
    PROVE  LoudInv'
<1>1. PICK new : /\ writer' = [writer EXCEPT ![w] = new] /\ new.pc # "committing"
                 /\ new.seq = writer[w].seq /\ new.chain = writer[w].chain
                 /\ new.pc = "idle" \/ (InWrite(w) /\ new.event = writer[w].event)
  <2>1. CASE GivesUp(w)
    <3> DEFINE left == Keeps(w, "idle", 0)
    <3>1. writer' = [writer EXCEPT ![w] = left]
        BY <2>1 DEF GivesUp
    <3>2. left.pc = "idle" /\ left.seq = writer[w].seq /\ left.chain = writer[w].chain
        BY DEF Keeps, At
    <3> HIDE DEF left
    <3> QED
        BY <3>1, <3>2
  <2>2. CASE InWrite(w) /\ GoesTo(w, "appending")
    <3> DEFINE moved == Keeps(w, "appending", writer[w].event)
    <3>1. writer' = [writer EXCEPT ![w] = moved]
        BY <2>2 DEF GoesTo
    <3>2. /\ moved.pc = "appending" /\ moved.seq = writer[w].seq
          /\ moved.chain = writer[w].chain /\ moved.event = writer[w].event
        BY DEF Keeps, At
    <3> HIDE DEF moved
    <3> QED
        BY <2>2, <3>1, <3>2
  <2> QED
      BY <2>1, <2>2
<1>2. Records' = Records /\ (Good' => Good) /\ RecordsHold' = RecordsHold
    BY LogSame, LogRotated
<1>3. events \in Nat /\ events <= MaxEvents
    BY BoundAssumption DEF TypeOK
<1>4. Good => RecordsHold /\ OnRecord(new.seq, new.chain)'
    BY <1>1, <1>2 DEF LoudInv, HeadsOnRecord, OnRecord
<1> QED
    BY <1>1, <1>2, <1>3, <1>4, WriterStep

\* A write, whole or torn, after which the writer commits, gives up or dies.
LEMMA WriteLoud ==
    ASSUME TypeOK, LoudInv, NEW w \in Writers, InWrite(w), NEW how \in Failures \cup {"all"},
           PutsOnDisk(w, how), UNCHANGED <<acked, events>>, NEW new,
           writer' = [writer EXCEPT ![w] = new],
           \/ how = "all" /\ new = Keeps(w, "committing", writer[w].event)
           \/ /\ new.pc = "idle"
              /\ new.seq = 0 \/ (new.seq = writer[w].seq /\ new.chain = writer[w].chain)
    PROVE  LoudInv'
<1>1. Records' \subseteq Records \cup {NextRecord(w)}
    BY DiskStep
<1>2. Good' =>
          /\ Good /\ RecordsHold' /\ Records \subseteq Records'
          /\ \A r \in Records' \ Records : r = NextRecord(w)
          /\ how = "all" => /\ NextRecord(w) \in Records'
                             /\ \A r \in Records : r.seq < NextRecord(w).seq
    BY LogGrows
<1>3. new.pc \in {"idle", "committing"}
      /\ (new.seq = 0 \/ (new.seq = writer[w].seq /\ new.chain = writer[w].chain))
      /\ (new.pc = "committing" => how = "all" /\ new = Keeps(w, "committing", writer[w].event))
    BY DEF Keeps, At
<1>4. Good' => OnRecord(new.seq, new.chain)'
    BY <1>2, <1>3 DEF LoudInv, HeadsOnRecord, OnRecord
<1>5. events \in Nat /\ events <= MaxEvents
    BY BoundAssumption DEF TypeOK
<1> QED
    BY <1>1, <1>2, <1>3, <1>4, <1>5, WriterStep

LEMMA CommitLoud == ASSUME TypeOK, LoudInv, NEW w \in Writers, Commit(w) PROVE LoudInv'
<1> DEFINE n == NextRecord(w)
<1>1. /\ writer[w].pc = "committing" /\ writer' = [writer EXCEPT ![w] = Advance(w)]
      /\ acked' = [acked EXCEPT ![w] = Append(acked[w], writer[w].event)]
      /\ UNCHANGED <<files, events>>
    BY DEF Commit
<1>2. Records' = Records /\ Good' = Good
    BY <1>1 DEF Records, OnDisk, Indices, Good, WellFormed, Unique
<1>3. writer'[w].pc = "idle" /\ writer'[w].seq = n.seq /\ writer'[w].chain = n.chain
      /\ n.event = writer[w].event
    BY <1>1 DEF TypeOK, Advance, At, NextRecord, Record
<1>4. \A v \in Writers \ {w} : writer'[v] = writer[v] /\ acked'[v] = acked[v]
                               /\ NextRecord(v)' = NextRecord(v)
    BY <1>1 DEF TypeOK, NextRecord
<1> HIDE DEF n
<1>5. Flight'
    BY <1>1, <1>2, <1>3, <1>4 DEF LoudInv, Flight, InWrite
<1>6. SUFFICES ASSUME Good PROVE RecordsHold' /\ HeadsOnRecord' /\ Committing'
    BY <1>2, <1>5 DEF LoudInv
<1>7. RecordsHold /\ HeadsOnRecord /\ Committing
    BY <1>6 DEF LoudInv
<1>8. n \in Records /\ \A i \in 1 .. Len(acked[w]) : \A r, s \in Records :
                          r.event = acked[w][i] /\ s.event = writer[w].event => r.seq < s.seq
    BY <1>1, <1>7 DEF Committing, n
<1>9. HeadsOnRecord' /\ Committing'
    BY <1>2, <1>3, <1>4, <1>7, <1>8 DEF HeadsOnRecord, OnRecord, Committing
<1>10. /\ acked[w] \in Seq(Nat) /\ acked'[w] = Append(acked[w], writer[w].event)
       /\ Len(acked'[w]) = Len(acked[w]) + 1
       /\ acked'[w][Len(acked[w]) + 1] = writer[w].event
       /\ \A i \in 1 .. Len(acked[w]) : acked'[w][i] = acked[w][i]
  <2>1. /\ writer[w].event \in Nat /\ acked[w] \in Seq(Nat)
        /\ acked'[w] = Append(acked[w], writer[w].event)
      BY <1>1 DEF TypeOK, WriterType
  <2> QED
      BY <2>1
<1>11. AckedThere'
  <2> SUFFICES ASSUME NEW v \in Writers, NEW i \in 1 .. Len(acked'[v])
               PROVE  \E r \in Records : r.event = acked'[v][i]
      BY <1>2 DEF AckedThere
  <2>1. CASE v # w
      BY <1>4, <1>7, <2>1 DEF RecordsHold, AckedThere
  <2>2. CASE v = w /\ i = Len(acked[w]) + 1
      BY <1>3, <1>8, <1>10, <2>2
  <2>3. CASE v = w /\ i \in 1 .. Len(acked[w])
      BY <1>7, <1>10, <2>3 DEF RecordsHold, AckedThere
  <2> QED
      BY <1>10, <2>1, <2>2, <2>3
<1>12. InOrder'
  <2> SUFFICES ASSUME NEW v \in Writers, NEW i \in 1 .. Len(acked'[v]), NEW j \in 1 .. i - 1,
                      NEW r \in Records, NEW s \in Records,
                      r.event = acked'[v][j], s.event = acked'[v][i]
               PROVE  r.seq < s.seq
      BY <1>2 DEF InOrder
  <2>1. CASE v # w
      BY <1>4, <1>7, <2>1 DEF RecordsHold, InOrder
  <2>2. CASE v = w /\ i = Len(acked[w]) + 1
    <3>1. j \in 1 .. Len(acked[w])
        BY <1>10, <2>2
    <3> QED
        BY <1>8, <1>10, <2>2, <3>1
  <2>3. CASE v = w /\ i \in 1 .. Len(acked[w])
    <3>1. j \in 1 .. Len(acked[w])
        BY <1>10, <2>3
    <3> QED
        BY <1>7, <1>10, <2>3, <3>1, SMTT(60) DEF RecordsHold, InOrder
  <2> QED
      BY <1>10, <2>1, <2>2, <2>3
<1> QED
    BY <1>2, <1>7, <1>9, <1>11, <1>12 DEF RecordsHold, Covers, Gapless, Topped

LEMMA NextLoud == TypeOK /\ LoudInv /\ [Next]_vars => LoudInv'
<1> SUFFICES ASSUME TypeOK, LoudInv, [Next]_vars PROVE LoudInv'
    OBVIOUS
<1>1. CASE UNCHANGED vars
  <2>1. Records' = Records /\ Good' = Good /\ RecordsHold' = RecordsHold
      BY <1>1, LogSame DEF vars
  <2> QED
      BY <1>1, <2>1
      DEF vars, LoudInv, Flight, InWrite, HeadsOnRecord, OnRecord, Committing, NextRecord
<1>2. ASSUME NEW w \in Writers, LoadRaises(w) \/ Rotate(w) \/ KeepFile(w) PROVE LoudInv'
    BY <1>2, MoveLoud DEF LoadRaises, Rotate, KeepFile, InWrite
<1>3. ASSUME NEW w \in Writers, Write(w) PROVE LoudInv'
  <2>1. writer' = [writer EXCEPT ![w] = Keeps(w, "committing", writer[w].event)]
      BY <1>3 DEF Write, GoesTo
  <2> QED
      BY <1>3, <2>1, WriteLoud DEF Write, InWrite
<1>4. ASSUME NEW w \in Writers, WriteFails(w) PROVE LoudInv'
  <2>1. PICK how \in Failures : PutsOnDisk(w, how)
      BY <1>4 DEF WriteFails
  <2> DEFINE new == Keeps(w, "idle", 0)
  <2>2. writer' = [writer EXCEPT ![w] = new]
      BY <1>4 DEF WriteFails, GivesUp
  <2>3. new.pc = "idle" /\ new.seq = writer[w].seq /\ new.chain = writer[w].chain
      BY DEF Keeps, At
  <2>4. InWrite(w) /\ UNCHANGED <<acked, events>>
      BY <1>4 DEF WriteFails, InWrite
  <2> HIDE DEF new
  <2> QED
      BY <2>1, <2>2, <2>3, <2>4, WriteLoud
<1>5. ASSUME NEW w \in Writers, Exit(w) PROVE LoudInv'
  <2>1. Fresh.pc = "idle" /\ Fresh.seq = 0
      BY DEF Fresh, At
  <2>2. CASE UNCHANGED files
    <3>1. PICK new : new = Fresh
        OBVIOUS
    <3>2. writer' = [writer EXCEPT ![w] = new]
        BY <1>5, <3>1 DEF Exit
    <3>3. UNCHANGED <<files, acked, events>>
        BY <1>5, <2>2 DEF Exit
    <3>4. new.pc = "idle" /\ new.pc # "committing" /\ OnRecord(new.seq, new.chain)
        BY <2>1, <3>1 DEF OnRecord
    <3> QED
        BY <3>2, <3>3, <3>4, WriterOnly
  <2>3. CASE writer[w].pc = "appending" /\ \E how \in Torn : PutsOnDisk(w, how)
    <3>1. PICK how \in Torn : PutsOnDisk(w, how)
        BY <2>3
    <3> QED
        BY <1>5, <2>1, <2>3, <3>1, WriteLoud DEF Exit, InWrite, Failures
  <2> QED
      BY <1>5, <2>2, <2>3 DEF Exit
<1> QED
    BY <1>1, <1>2, <1>3, <1>4, <1>5, EmitLoud, LoadLoud, CommitLoud DEF Next

\* Whatever the disk, the process and other processes do to the log: as long as
\* it verifies, its newest record vouches for every event that an emitter was
\* told is written, in the order of each process.
THEOREM LoudFailures == Spec => []FailLoud
<1>1. TypeOK /\ LoudInv => FailLoud
  <2> SUFFICES ASSUME TypeOK, LoudInv, VerifyOk, NEW w \in Writers, NEW i \in 1 .. Len(acked[w])
               PROVE  /\ \E k \in 1 .. Len(Vouched) : Vouched[k] = acked[w][i]
                      /\ \A j \in 1 .. i - 1 : Precedes(acked[w][j], acked[w][i], Vouched)
      BY DEF FailLoud
  <2>1. Good
      BY DEF VerifyOk, Parses, Dense, Good, Unique
  <2>2. RecordsHold /\ Records \subseteq RecordType
      BY <2>1, RecordsType DEF LoudInv
  <2>3. PICK s \in Records : s.event = acked[w][i]
      BY <2>2 DEF RecordsHold, AckedThere
  <2>4. PICK top \in Newest(Records) : Vouched = top.chain
    <3>1. Newest(Records) # {}
        BY <2>2, <2>3 DEF RecordsHold, Topped, Newest
    <3> QED
        BY <2>3, <3>1 DEF Vouched
  <2>5. /\ top \in Records /\ top \in RecordType
        /\ \A r \in Records : r.seq \in 1 .. Len(Vouched) /\ Vouched[r.seq] = r.event
    <3>1. top \in Records /\ \A r \in Records : r.seq <= top.seq
        BY <2>4 DEF Newest
    <3>2. \A r \in Records : r.seq \in Nat \ {0}
        BY <2>2 DEF RecordType
    <3>3. top.seq = Len(top.chain)
        BY <2>2, <3>1 DEF RecordType
    <3> QED
        BY <2>2, <2>4, <3>1, <3>2, <3>3 DEF RecordsHold, Covers
  <2>6. ASSUME NEW j \in 1 .. i - 1 PROVE Precedes(acked[w][j], acked[w][i], Vouched)
    <3>1. j \in 1 .. Len(acked[w])
        BY DEF TypeOK
    <3>2. PICK r \in Records : r.event = acked[w][j]
        BY <2>2, <3>1 DEF RecordsHold, AckedThere
    <3>3. r.seq < s.seq
        BY <2>2, <2>3, <3>2 DEF RecordsHold, InOrder
    <3> QED
        BY <2>3, <2>5, <3>2, <3>3 DEF Precedes
  <2> QED
      BY <2>3, <2>5, <2>6
<1> QED
    BY <1>1, TypeCorrect, InitLoud, NextLoud, PTL DEF Spec

-----------------------------------------------------------------------------
(* Receipts *)

HeadTyped ==
    /\ cap \in Caps
    /\ call \in [Threads -> [pc : Pcs, cap : Caps, prompt : 0 .. MaxPrompt,
                             reply : 0 .. MaxReply, own : Nat, seq : Nat]]
    /\ written \in Nat /\ headSeq \in Nat /\ headChain \in Nat
    /\ receipts \subseteq [own : Nat, seq : Nat, chain : Nat]

\* The emitter: one thread at a time is between the two halves of the head, with
\* its record the newest; otherwise the head is the newest record.
HeadKept ==
    /\ headSeq = written
    /\ headChain <= written
    /\ \A t \in Threads : call[t].pc = "chaining" => call[t].own = written
    /\ \A t, u \in Threads : call[t].pc = "chaining" /\ call[u].pc = "chaining" => t = u
    /\ LockFree => headChain = written

\* The calls: until its record is committed a call knows no number, from then on
\* the committed head has passed its record.
CallsBehindHead ==
    /\ \A t \in Threads : call[t].pc \in {"idle", "checking", "calling", "auditing"} =>
          call[t].own = 0
    /\ \A t \in Threads : call[t].pc \in {"recording", "receipt", "chained"} =>
          call[t].own <= headChain
    /\ \A t \in Threads : call[t].pc = "chained" =>
          call[t].own <= call[t].seq /\ call[t].seq <= written

ReceiptInv == HeadTyped /\ HeadKept /\ CallsBehindHead /\ ReceiptsPointIntoLog

LEMMA InitReceipts == DispatchInit => ReceiptInv
BY CostAssumption DEF DispatchInit, ReceiptInv, HeadTyped, HeadKept, CallsBehindHead,
   ReceiptsPointIntoLog, LockFree, CallAt, Pcs

\* A step that leaves the log, its head and the receipts alone, and moves one
\* call on without moving it past the emitter.
LEMMA CallMoves ==
    ASSUME ReceiptInv, NEW t \in Threads, NEW new, call' = [call EXCEPT ![t] = new],
           UNCHANGED <<audit, receipts>>, cap' \in Caps,
           new \in [pc : Pcs, cap : Caps, prompt : 0 .. MaxPrompt, reply : 0 .. MaxReply,
                    own : Nat, seq : Nat],
           call[t].pc # "chaining", new.pc # "chaining",
           new.pc \in {"idle", "checking", "calling", "auditing"} => new.own = 0,
           new.pc \in {"recording", "receipt", "chained"} => new.own <= headChain,
           new.pc = "chained" => new.own <= new.seq /\ new.seq <= written
    PROVE  ReceiptInv'
<1>1. call'[t] = new /\ \A u \in Threads \ {t} : call'[u] = call[u]
    BY DEF ReceiptInv, HeadTyped
<1>2. UNCHANGED <<written, headSeq, headChain, receipts>>
    BY DEF audit
<1>3. LockFree' = LockFree
    BY <1>1 DEF LockFree
<1>4. HeadTyped'
    BY <1>2 DEF ReceiptInv, HeadTyped
<1>5. HeadKept'
    BY <1>1, <1>2, <1>3 DEF ReceiptInv, HeadKept
<1>6. CallsBehindHead'
    BY <1>1, <1>2 DEF ReceiptInv, CallsBehindHead
<1>7. ReceiptsPointIntoLog'
    BY <1>2 DEF ReceiptInv, ReceiptsPointIntoLog
<1> QED
    BY <1>4, <1>5, <1>6, <1>7 DEF ReceiptInv

LEMMA NextReceipts == ReceiptInv /\ [DispatchNext]_dispatchVars => ReceiptInv'
<1> SUFFICES ASSUME ReceiptInv, [DispatchNext]_dispatchVars PROVE ReceiptInv'
    OBVIOUS
<1> DEFINE Calls == [pc : Pcs, cap : Caps, prompt : 0 .. MaxPrompt, reply : 0 .. MaxReply,
                     own : Nat, seq : Nat]
<1>0. /\ call \in [Threads -> Calls] /\ cap \in Caps
      /\ written \in Nat /\ headSeq \in Nat /\ headChain \in Nat
      /\ 0 \in 0 .. MaxPrompt /\ 0 \in 0 .. MaxReply
    BY CostAssumption DEF ReceiptInv, HeadTyped
<1>1. ASSUME NEW t \in Threads, NEW pc \in Pcs \ {"chaining"}, CallGoesTo(t, pc),
             call[t].pc # "chaining", UNCHANGED <<audit, receipts, cap>>,
             \/ pc \in {"calling", "auditing"} /\ call[t].own = 0
             \/ pc = "recording" /\ call[t].own <= headChain
      PROVE  ReceiptInv'
  <2>1. PICK new : new = [call[t] EXCEPT !.pc = pc]
      OBVIOUS
  <2>2. call' = [call EXCEPT ![t] = new]
      BY <1>1, <1>0, <2>1 DEF CallGoesTo
  <2>3. new \in Calls /\ new.pc = pc /\ new.own = call[t].own
      BY <1>0, <2>1
  <2> QED
      BY <1>0, <1>1, <2>2, <2>3, CallMoves
<1>2. ASSUME NEW t \in Threads, Ends(t), call[t].pc # "chaining",
             UNCHANGED <<audit, receipts, cap>>
      PROVE  ReceiptInv'
  <2>1. PICK new : new = CallAt("idle", call[t].cap, 0, 0, 0, 0)
      OBVIOUS
  <2>2. call' = [call EXCEPT ![t] = new]
      BY <1>2, <2>1 DEF Ends
  <2>3. new \in Calls /\ new.pc = "idle" /\ new.own = 0
      BY <1>0, <2>1 DEF CallAt, Pcs
  <2> QED
      BY <1>0, <1>2, <2>2, <2>3, CallMoves
<1>3. ASSUME NEW t \in Threads, NewContext(t) PROVE ReceiptInv'
  <2>1. PICK new : new = [call[t] EXCEPT !.cap = cap]
      OBVIOUS
  <2>2. call' = [call EXCEPT ![t] = new] /\ UNCHANGED <<audit, receipts, cap>>
      BY <1>3, <1>0, <2>1 DEF NewContext
  <2>3. new \in Calls /\ new.pc = "idle" /\ new.own = 0 /\ call[t].pc = "idle"
      BY <1>3, <1>0, <2>1 DEF NewContext, ReceiptInv, CallsBehindHead
  <2> QED
      BY <1>0, <2>2, <2>3, CallMoves
<1>4. ASSUME NEW t \in Threads, Begin(t) PROVE ReceiptInv'
  <2>1. PICK prompt \in 0 .. MaxPrompt :
            call' = [call EXCEPT ![t] = CallAt("checking", call[t].cap, prompt, 0, 0, 0)]
      BY <1>4 DEF Begin
  <2>2. PICK new : new = CallAt("checking", call[t].cap, prompt, 0, 0, 0)
      OBVIOUS
  <2>3. call' = [call EXCEPT ![t] = new] /\ UNCHANGED <<audit, receipts, cap>>
        /\ call[t].pc = "idle"
      BY <1>4, <2>1, <2>2 DEF Begin
  <2>4. new \in Calls /\ new.pc = "checking" /\ new.own = 0
      BY <1>0, <2>2 DEF CallAt, Pcs
  <2> QED
      BY <1>0, <2>3, <2>4, CallMoves
<1>5. ASSUME NEW t \in Threads, Admit(t) PROVE ReceiptInv'
    BY <1>5, <1>1 DEF Admit, Pcs, ReceiptInv, CallsBehindHead
<1>6. ASSUME NEW t \in Threads, Refuse(t) PROVE ReceiptInv'
    BY <1>6, <1>2 DEF Refuse
<1>7. ASSUME NEW t \in Threads, Answer(t) PROVE ReceiptInv'
  <2>1. PICK reply \in 0 .. MaxReply :
            call' = [call EXCEPT ![t].pc = "auditing", ![t].reply = reply]
      BY <1>7, <1>0 DEF Answer
  <2>2. PICK new : new = [call[t] EXCEPT !.pc = "auditing", !.reply = reply]
      OBVIOUS
  <2>3. call' = [call EXCEPT ![t] = new] /\ UNCHANGED <<audit, receipts, cap>>
        /\ call[t].pc = "calling"
      BY <1>0, <1>7, <2>1, <2>2 DEF Answer
  <2>4. new \in Calls /\ new.pc = "auditing" /\ new.own = 0
      BY <1>0, <2>2, <2>3 DEF Pcs, ReceiptInv, CallsBehindHead
  <2> QED
      BY <1>0, <2>3, <2>4, CallMoves
<1>8. ASSUME NEW t \in Threads, Break(t) PROVE ReceiptInv'
    BY <1>8, <1>1 DEF Break, Pcs, ReceiptInv, CallsBehindHead
<1>9. ASSUME NEW t \in Threads, EmitRecord(t) PROVE ReceiptInv'
  <2>1. /\ call[t].pc = "auditing" /\ LockFree /\ written' = written + 1 /\ headSeq' = written + 1
        /\ call' = [call EXCEPT ![t].pc = "chaining", ![t].own = written + 1]
        /\ headChain' = headChain /\ receipts' = receipts /\ cap' = cap
      BY <1>9 DEF EmitRecord
  <2>2. /\ call' \in [Threads -> Calls] /\ call'[t].pc = "chaining" /\ call'[t].own = written'
        /\ \A u \in Threads \ {t} : call'[u] = call[u] /\ call[u].pc # "chaining"
    <3>1. PICK new : new = [call[t] EXCEPT !.pc = "chaining", !.own = written + 1]
        OBVIOUS
    <3>2. new \in Calls /\ new.pc = "chaining" /\ new.own = written + 1
      <4>1. written + 1 \in Nat /\ call[t] \in Calls /\ "chaining" \in Pcs
          BY <1>0 DEF Pcs
      <4> QED
          BY <3>1, <4>1
    <3>3. call' = [call EXCEPT ![t] = new]
        BY <1>0, <2>1, <3>1
    <3> QED
        BY <1>0, <2>1, <3>2, <3>3, ZenonT(60) DEF LockFree
  <2>3. HeadTyped'
      BY <1>0, <2>1, <2>2 DEF ReceiptInv, HeadTyped
  <2>4. HeadKept' /\ CallsBehindHead'
      BY <1>0, <2>1, <2>2 DEF ReceiptInv, HeadKept, CallsBehindHead, LockFree
  <2>5. ReceiptsPointIntoLog'
    <3>1. \A r \in receipts : r.own <= r.seq /\ r.own <= r.chain /\ r.seq <= written
                              /\ r.chain <= written /\ r.seq \in Nat /\ r.chain \in Nat
        BY DEF ReceiptInv, ReceiptsPointIntoLog, HeadTyped
    <3> QED
        BY <1>0, <2>1, <3>1 DEF ReceiptsPointIntoLog
  <2> QED
      BY <2>3, <2>4, <2>5 DEF ReceiptInv
<1>10. ASSUME NEW t \in Threads, EmitChain(t) PROVE ReceiptInv'
  <2>1. /\ call[t].pc = "chaining" /\ headChain' = headSeq
        /\ call' = [call EXCEPT ![t].pc = "recording"]
        /\ UNCHANGED <<written, headSeq, receipts, cap>>
      BY <1>10 DEF EmitChain, CallGoesTo
  <2>2. /\ call' \in [Threads -> Calls] /\ call'[t].pc = "recording" /\ call'[t].own = call[t].own
        /\ \A u \in Threads \ {t} : call'[u] = call[u]
      BY <1>0, <2>1 DEF Pcs
  <2>3. HeadTyped' /\ HeadKept' /\ CallsBehindHead' /\ ReceiptsPointIntoLog'
      BY <1>0, <2>1, <2>2
      DEF ReceiptInv, HeadTyped, HeadKept, CallsBehindHead, LockFree, ReceiptsPointIntoLog
  <2> QED
      BY <2>3 DEF ReceiptInv
<1>11. ASSUME NEW t \in Threads, EmitFails(t) PROVE ReceiptInv'
    BY <1>0, <1>11, <1>1 DEF EmitFails, FailedHead, audit, Pcs, ReceiptInv, CallsBehindHead
<1>12. ASSUME NEW t \in Threads, RecordCost(t) PROVE ReceiptInv'
  <2>1. CASE Ends(t)
      BY <1>12, <2>1, <1>2 DEF RecordCost
  <2>2. CASE call' = [call EXCEPT ![t] = CallAt("receipt", call[t].cap, 0, 0, call[t].own, 0)]
    <3>1. PICK new : new = CallAt("receipt", call[t].cap, 0, 0, call[t].own, 0)
        OBVIOUS
    <3>2. call' = [call EXCEPT ![t] = new] /\ UNCHANGED <<audit, receipts, cap>>
          /\ call[t].pc = "recording"
        BY <1>12, <2>2, <3>1 DEF RecordCost
    <3>3. new \in Calls /\ new.pc = "receipt" /\ new.own = call[t].own
        BY <1>0, <3>1 DEF CallAt, Pcs
    <3>4. call[t].own <= headChain
        BY <3>2 DEF ReceiptInv, CallsBehindHead
    <3> QED
        BY <1>0, <3>2, <3>3, <3>4, CallMoves
  <2> QED
      BY <1>12, <2>1, <2>2 DEF RecordCost
<1>13. ASSUME NEW t \in Threads, ReadSeq(t) PROVE ReceiptInv'
  <2>1. PICK new : new = [call[t] EXCEPT !.pc = "chained", !.seq = headSeq]
      OBVIOUS
  <2>2. call' = [call EXCEPT ![t] = new] /\ UNCHANGED <<audit, receipts, cap>>
        /\ call[t].pc = "receipt"
      BY <1>0, <1>13, <2>1 DEF ReadSeq
  <2>3. new \in Calls /\ new.pc = "chained" /\ new.own = call[t].own /\ new.seq = headSeq
      BY <1>0, <2>1 DEF Pcs
  <2>4. /\ call[t].own <= headChain /\ headSeq = written /\ headChain <= written
        /\ call[t].own \in Nat
      BY <1>0, <2>2 DEF ReceiptInv, CallsBehindHead, HeadKept
  <2>5. new.own <= new.seq /\ new.seq <= written
      BY <1>0, <2>3, <2>4
  <2> QED
      BY <1>0, <2>2, <2>3, <2>4, <2>5, CallMoves
<1>14. ASSUME NEW t \in Threads, SaveReceipt(t) PROVE ReceiptInv'
  <2>1. PICK new : new = CallAt("idle", call[t].cap, 0, 0, 0, 0)
      OBVIOUS
  <2>2. /\ call' = [call EXCEPT ![t] = new] /\ UNCHANGED <<audit, cap>> /\ call[t].pc = "chained"
        /\ receipts' \subseteq receipts \cup {Receipt(call[t].own, call[t].seq, headChain)}
      BY <1>14, <2>1 DEF SaveReceipt, Ends
  <2>3. new \in Calls /\ new.pc = "idle" /\ new.own = 0
      BY <1>0, <2>1 DEF CallAt, Pcs
  <2>4. /\ call[t].own <= call[t].seq /\ call[t].seq <= written
        /\ call[t].own <= headChain /\ headChain <= written
      BY <2>2 DEF ReceiptInv, CallsBehindHead, HeadKept
  <2>5. ReceiptsPointIntoLog'
      BY <2>2, <2>4 DEF ReceiptInv, ReceiptsPointIntoLog, Receipt, audit
  <2>6. call'[t] = new /\ \A u \in Threads \ {t} : call'[u] = call[u]
      BY <1>0, <2>2
  <2>7. UNCHANGED <<written, headSeq, headChain>>
      BY <2>2 DEF audit
  <2>8. Receipt(call[t].own, call[t].seq, headChain) \in [own : Nat, seq : Nat, chain : Nat]
      BY <1>0 DEF Receipt
  <2>9. HeadTyped'
      BY <1>0, <2>2, <2>3, <2>7, <2>8 DEF ReceiptInv, HeadTyped
  <2>10. HeadKept' /\ CallsBehindHead'
      BY <1>0, <2>2, <2>3, <2>6, <2>7 DEF ReceiptInv, HeadKept, CallsBehindHead, LockFree
  <2> QED
      BY <2>5, <2>9, <2>10 DEF ReceiptInv
<1>15. CASE Restart
  <2>1. /\ call' = [t \in Threads |-> CallAt("idle", cap, 0, 0, 0, 0)]
        /\ headSeq' = written /\ headChain' = written /\ UNCHANGED <<cap, written, receipts>>
      BY <1>15 DEF Restart
  <2>2. /\ call' \in [Threads -> Calls]
        /\ \A t \in Threads : call'[t].pc = "idle" /\ call'[t].own = 0
      BY <1>0, <2>1 DEF CallAt, Pcs
  <2> QED
      BY <1>0, <2>1, <2>2
      DEF ReceiptInv, HeadTyped, HeadKept, CallsBehindHead, LockFree, ReceiptsPointIntoLog
<1>16. CASE OtherEvent \/ SetCap \/ NewMonth \/ UNCHANGED dispatchVars
  <2>1. UNCHANGED <<call, written, headSeq, headChain, receipts>> /\ cap' \in Caps
      BY <1>0, <1>16 DEF OtherEvent, SetCap, NewMonth, dispatchVars, audit
  <2> QED
      BY <2>1
      DEF ReceiptInv, HeadTyped, HeadKept, CallsBehindHead, LockFree, ReceiptsPointIntoLog
<1> QED
    BY <1>3, <1>4, <1>5, <1>6, <1>7, <1>8, <1>9, <1>10, <1>11, <1>12, <1>13, <1>14, <1>15, <1>16
    DEF DispatchNext

\* Receipts read the emitter's head in two steps and without its lock, and still
\* point at records that exist and never at one older than their own call's.
THEOREM ReceiptsAnchored == DispatchSpec => []ReceiptsPointIntoLog
<1>1. ReceiptInv => ReceiptsPointIntoLog
    BY DEF ReceiptInv
<1> QED
    BY <1>1, InitReceipts, NextReceipts, PTL DEF DispatchSpec

-----------------------------------------------------------------------------
(* The accounts. *)

\* A request works on one user; a purge has a list of more to come.
Holds(d, u) == d.at \notin {"resting", "purge"} /\ d.user = u
Lists(d, u) == d.at \in {"purge"} \cup ErasingAt /\ u \in d.todo

LEMMA WorksOnIs == \A d, x : WorksOn(d, x) <=> Holds(d, x) \/ Lists(d, x)
    BY DEF WorksOn, Holds, Lists

-----------------------------------------------------------------------------
(* The inductive invariant. *)

\* Nobody works on a user who has not been created.
Known == \A w \in Workers, u \in Users : WorksOn(duty[w], u) => u \in live \cup gone

\* Two requests that hold the same user are known to overlap.
Exclusive ==
    \A v, w \in Workers, u \in Users :
        v # w /\ Holds(duty[v], u) /\ Holds(duty[w], u) => u \in overlap

\* A login under way has the era of the row it has read.
LoginFresh ==
    \A w \in Workers : duty[w].at = "login" =>
        \/ duty[w].user \in overlap \cup gone
        \/ duty[w].era = row[duty[w].user].era

\* A session of an earlier era is about to be ended.
SessionsCurrent ==
    \A s \in sessions : \/ s[1] \in overlap \/ s[2] = row[s[1]].era
                        \/ \E w \in Workers : duty[w].at = "revoke" /\ duty[w].user = s[1]

\* Whoever still holds an erased user is the erasure, at its last store.
HeldIsLive ==
    \A w \in Workers, u \in Users :
        Holds(duty[w], u) /\ u \in gone => u \in overlap \/ duty[w].at = "erase rest"

\* A store that was erased stays empty.
DataErased ==
    /\ gone \cap data \subseteq overlap
    /\ \A w \in Workers : duty[w].at \in {"erase sessions", "erase row"} =>
          duty[w].user \notin data \/ duty[w].user \in overlap
RestErased ==
    \A u \in gone \cap rest :
        u \in overlap \/ \E w \in Workers : duty[w].at = "erase rest" /\ duty[w].user = u

\* A deletion that is scheduled, or on the list of a purge, is wanted.
ScheduledWanted == \A u \in live : row[u].deletion = "scheduled" => u \in leaving \cup overlap
ListedWanted ==
    \A w \in Workers, u \in live : Lists(duty[w], u) => u \in leaving \cup overlap

\* Who is alone in changing accounts may still do what it set out to do.
AloneIsAlone ==
    \A v, w \in Workers : v # w /\ Changing(duty[v]) /\ Changing(duty[w]) => ~duty[v].alone
MayStill(d) ==
    /\ d.at = "update" /\ d.alone => d.user \in live /\ MayBecome(d.user, d.new)
    /\ d.at \in ErasingAt \ {"erase rest"} /\ d.alone =>
          d.user \in live /\ MayBecome(d.user, NoRow)
AloneMay == \A w \in Workers : MayStill(duty[w])

AccInv ==
    /\ AccTypeOK /\ Known /\ Exclusive /\ LoginFresh /\ SessionsCurrent /\ HeldIsLive
    /\ DataErased /\ RestErased /\ ScheduledWanted /\ ListedWanted /\ AloneIsAlone /\ AloneMay

-----------------------------------------------------------------------------
(* Duties, records of six shapes. *)

LEMMA DutyShape ==
    ASSUME NEW d \in Duties
    PROVE  /\ \/ d.at \in {"resting", "login", "work", "confirm", "revoke", "update", "purge"}
              \/ d.at \in ErasingAt
           /\ d.at \notin {"resting", "purge"} => d.user \in Users
           /\ d.at = "resting" => d = Resting
           /\ d.at = "login" => d.era \in Eras
           /\ d.at = "update" =>
                 d \in [at : {"update"}, user : Users, new : Standing, ends : BOOLEAN, alone : BOOLEAN]
           /\ d.at = "purge" => d \in [at : {"purge"}, todo : SUBSET Users]
           /\ d.at \in ErasingAt =>
                 d \in [at : ErasingAt, user : Users, todo : SUBSET Users, alone : BOOLEAN]
<1>1. CASE d = Resting
    BY <1>1 DEF Resting, ErasingAt
<1>2. CASE d \in [at : {"login"}, user : Users, era : Eras]
    BY <1>2 DEF ErasingAt
<1>3. CASE d \in [at : {"work", "confirm", "revoke"}, user : Users]
    BY <1>3 DEF ErasingAt
<1>4. CASE d \in [at : {"update"}, user : Users, new : Standing, ends : BOOLEAN, alone : BOOLEAN]
    BY <1>4 DEF ErasingAt
<1>5. CASE d \in [at : {"purge"}, todo : SUBSET Users]
    BY <1>5 DEF ErasingAt
<1>6. CASE d \in [at : ErasingAt, user : Users, todo : SUBSET Users, alone : BOOLEAN]
    BY <1>6 DEF ErasingAt
<1> QED
    BY <1>1, <1>2, <1>3, <1>4, <1>5, <1>6 DEF Duties

\* The duties the actions give out.
LEMMA DutyTypes ==
    /\ Resting \in Duties
    /\ \A u \in Users, e \in Eras : [at |-> "login", user |-> u, era |-> e] \in Duties
    /\ \A u \in Users : /\ [at |-> "work", user |-> u] \in Duties
                        /\ [at |-> "confirm", user |-> u] \in Duties
                        /\ [at |-> "revoke", user |-> u] \in Duties
    /\ \A todo \in SUBSET Users : /\ [at |-> "purge", todo |-> todo] \in Duties
                                  /\ Onward(todo) \in Duties
    /\ \A at \in ErasingAt, u \in Users, todo \in SUBSET Users, a \in BOOLEAN :
          [at |-> at, user |-> u, todo |-> todo, alone |-> a] \in Duties
    /\ \A u \in Users, r \in Standing, e \in BOOLEAN, a \in BOOLEAN :
          [at |-> "update", user |-> u, new |-> r, ends |-> e, alone |-> a] \in Duties
    BY DEF Duties, Onward

\* Losing the certainty of being alone leaves the work what it was.
SameWork(d, e) ==
    /\ e \in Duties /\ e.at = d.at
    /\ \A u \in Users : (Holds(e, u) <=> Holds(d, u)) /\ (Lists(e, u) <=> Lists(d, u))
    /\ ~Changing(d) => e = d

LEMMA LosesAlone ==
    ASSUME NEW d \in Duties, Changing(d)
    PROVE  LET e == [d EXCEPT !.alone = FALSE] IN SameWork(d, e) /\ ~e.alone
<1> DEFINE e == [d EXCEPT !.alone = FALSE]
<1>1. CASE d.at = "update"
  <2>1. d \in [at : {"update"}, user : Users, new : Standing, ends : BOOLEAN, alone : BOOLEAN]
      BY <1>1, DutyShape
  <2>2. e \in [at : {"update"}, user : Users, new : Standing, ends : BOOLEAN, alone : BOOLEAN]
        /\ e.user = d.user /\ ~e.alone
      BY <2>1
  <2> QED
      BY <2>1, <2>2 DEF SameWork, Holds, Lists, Changing, ErasingAt, Duties
<1>2. CASE d.at \in ErasingAt
  <2>1. d \in [at : ErasingAt, user : Users, todo : SUBSET Users, alone : BOOLEAN]
      BY <1>2, DutyShape
  <2>2. e \in [at : ErasingAt, user : Users, todo : SUBSET Users, alone : BOOLEAN]
        /\ e.user = d.user /\ e.todo = d.todo /\ e.at = d.at /\ ~e.alone
      BY <2>1
  <2> QED
      BY <2>1, <2>2, <1>2 DEF SameWork, Holds, Lists, Changing, Duties
<1> QED
    BY <1>1, <1>2 DEF Changing

LEMMA StartsWork ==
    ASSUME duty \in [Workers -> Duties], NEW w \in Workers, NEW d \in Duties, Starts(w, d)
    PROVE  /\ duty' \in [Workers -> Duties] /\ duty'[w] = d
           /\ \A v \in Workers \ {w} : /\ SameWork(duty[v], duty'[v])
                                       /\ Changing(duty[v]) => ~duty'[v].alone
<1>1. ASSUME NEW v \in Workers \ {w}
      PROVE  SameWork(duty[v], duty'[v]) /\ (Changing(duty[v]) => ~duty'[v].alone)
  <2>1. CASE Changing(duty[v])
    <3>1. duty'[v] = [duty[v] EXCEPT !.alone = FALSE]
        BY <2>1 DEF Starts
    <3> QED
        BY <3>1, <2>1, LosesAlone
  <2>2. CASE ~Changing(duty[v])
    <3>1. duty'[v] = duty[v]
        BY <2>2 DEF Starts
    <3> QED
        BY <3>1, <2>2 DEF SameWork
  <2> QED
      BY <2>1, <2>2
<1>2. duty'[w] = d
    BY DEF Starts
<1> QED
    BY <1>1, <1>2 DEF Starts, SameWork

LEMMA RowTypes ==
    /\ Member \in Rows /\ FirstRow \in Rows /\ NoRow \in Rows
    /\ \A r \in Rows, what \in Changes : Change(r, what) \in Rows
    /\ \A r \in Rows, st \in {"none", "asked", "scheduled"} :
          /\ [r EXCEPT !.deletion = st] \in Rows
          /\ [r EXCEPT !.deletion = st].admin = r.admin
          /\ [r EXCEPT !.deletion = st].active = r.active
          /\ [r EXCEPT !.deletion = st].era = r.era
          /\ [r EXCEPT !.deletion = st].deletion = st
<1>1. Member \in Rows /\ FirstRow \in Rows /\ NoRow \in Rows
  <2>1. Member \in Rows
      BY AccountsAssumption DEF Member, Rows, Eras
  <2> QED
      BY <2>1 DEF FirstRow, NoRow, Rows
<1>2. \A r \in Rows, what \in Changes : Change(r, what) \in Rows
    BY DEF Change, Changes, Rows
<1> QED
    BY <1>1, <1>2 DEF Rows

-----------------------------------------------------------------------------
LEMMA InitAccounts == AccInit => AccInv
<1> SUFFICES ASSUME AccInit PROVE AccInv
    OBVIOUS
<1>1. \A w \in Workers : duty[w] = Resting
    BY DEF AccInit
<1>2. Resting.at = "resting"
    BY DEF Resting
<1>3. AccTypeOK
    BY RowTypes, DutyTypes DEF AccInit, AccTypeOK
<1> QED
    BY <1>1, <1>2, <1>3
    DEF AccInit, AccInv, Known, Exclusive, LoginFresh, SessionsCurrent, HeldIsLive, DataErased,
        RestErased, ScheduledWanted, ListedWanted, AloneIsAlone, AloneMay, MayStill, WorksOn,
        Holds,
        Changing, ErasingAt

LEMMA CreateStep == ASSUME AccInv, NEW u \in Users, CreateUser(u) PROVE AccInv'
<1> USE DEF AccInv
<1>1. u \notin live /\ u \notin gone
    BY DEF CreateUser
<1>2. row' \in [Users -> Rows] /\ row'[u] \in {Member, FirstRow}
      /\ \A x \in Users \ {u} : row'[x] = row[x]
    BY RowTypes DEF CreateUser, AccTypeOK
<1>3. live' = live \cup {u} /\ data' = data \cup {u} /\ rest' = rest \cup {u}
      /\ UNCHANGED <<gone, sessions, duty, leaving, overlap>>
    BY DEF CreateUser
<1>4. AccTypeOK'
    BY <1>1, <1>2, <1>3 DEF AccTypeOK
<1>5. \A w \in Workers : ~WorksOn(duty[w], u)
    BY <1>1 DEF Known
<1>6. Known' /\ Exclusive' /\ HeldIsLive' /\ AloneIsAlone'
    BY <1>3 DEF Known, Exclusive, HeldIsLive, AloneIsAlone, WorksOn, Holds, Changing
<1>7. LoginFresh'
    BY <1>2, <1>3, <1>5, DutyShape DEF LoginFresh, WorksOn, AccTypeOK
<1>8. SessionsCurrent'
    BY <1>1, <1>2, <1>3 DEF SessionsCurrent, AccTypeOK
<1>9. DataErased'
    BY <1>1, <1>3, <1>5 DEF DataErased, WorksOn, ErasingAt
<1>10. RestErased'
    BY <1>1, <1>3 DEF RestErased
<1>11. ScheduledWanted'
    BY <1>2, <1>3 DEF ScheduledWanted, Member, FirstRow, AccTypeOK
<1>12. ListedWanted'
    BY <1>3, <1>5 DEF ListedWanted, Lists, WorksOn, ErasingAt
<1>13. AloneMay'
  <2>1. ASSUME live # {} PROVE ActiveAdmins' = ActiveAdmins
      BY <1>1, <1>2, <1>3, <2>1 DEF ActiveAdmins, CreateUser, Member, AccTypeOK
  <2> QED
      BY <1>3, <2>1 DEF AloneMay, MayStill, MayBecome
<1> QED
    BY <1>4, <1>6, <1>7, <1>8, <1>9, <1>10, <1>11, <1>12, <1>13

\* What one may do changes with the accounts and the administrators only.
LEMMA StillMay ==
    ASSUME NEW v \in Workers, MayStill(duty[v]), duty'[v] = duty[v],
           live' = live, ActiveAdmins' = ActiveAdmins
    PROVE  MayStill(duty[v])'
    BY Zenon DEF MayStill, MayBecome

\* A request that reads a row, up to its second half.
LEMMA BeginStep ==
    ASSUME AccInv, NEW w \in Workers, NEW u \in Users, NEW d \in Duties, Enters(w, u, d),
           d.at \in {"login", "work", "confirm"}, d.user = u,
           d.at = "login" => d.era = row[u].era
    PROVE  AccInv'
<1> USE DEF AccInv
<1>1. duty' = [duty EXCEPT ![w] = d] /\ duty[w] = Resting /\ u \in live
      /\ overlap' = Overlapping(u) /\ UNCHANGED <<live, row, gone, sessions, data, rest, leaving>>
    BY DEF Enters
<1>2. overlap \subseteq overlap' /\ (Busy(u) => u \in overlap') /\ overlap' \subseteq Users
    BY <1>1 DEF Overlapping, AccTypeOK
<1>3. duty'[w] = d /\ \A v \in Workers \ {w} : duty'[v] = duty[v]
    BY <1>1 DEF AccTypeOK
<1>4. AccTypeOK'
    BY <1>1, <1>2 DEF AccTypeOK
<1>5. d.at \notin {"resting", "purge", "revoke", "update"} \cup ErasingAt
    BY DEF ErasingAt
<1>6. Known'
    BY <1>1, <1>3, <1>5 DEF Known, WorksOn
<1>7. Exclusive'
  <2>1. ASSUME NEW v \in Workers \ {w}, NEW x \in Users, Holds(duty[v], x), Holds(d, x)
        PROVE  x \in overlap'
      BY <1>2, <2>1 DEF Busy, WorksOn, Holds
  <2> QED
      BY <1>2, <1>3, <2>1 DEF Exclusive
<1>8. LoginFresh'
    BY <1>1, <1>2, <1>3 DEF LoginFresh
<1>9. SessionsCurrent'
  <2>1. duty[w].at # "revoke"
      BY <1>1 DEF Resting
  <2> QED
      BY <1>1, <1>2, <1>3, <2>1 DEF SessionsCurrent
<1>10. HeldIsLive'
    BY <1>1, <1>2, <1>3 DEF HeldIsLive, Holds, AccTypeOK
<1>11. DataErased'
  <2>1. gone' \cap data' \subseteq overlap'
      BY <1>1, <1>2 DEF DataErased
  <2>2. ASSUME NEW v \in Workers, duty'[v].at \in {"erase sessions", "erase row"}
        PROVE  duty'[v].user \notin data \/ duty'[v].user \in overlap'
    <3>1. v # w
        BY <1>3, <1>5, <2>2 DEF ErasingAt
    <3> QED
        BY <1>2, <1>3, <2>2, <3>1 DEF DataErased
  <2> QED
      BY <1>1, <2>1, <2>2 DEF DataErased
<1>12. RestErased'
  <2>1. duty[w].at # "erase rest"
      BY <1>1 DEF Resting
  <2>2. ASSUME NEW x \in gone \cap rest, x \notin overlap
        PROVE  \E v \in Workers : duty'[v].at = "erase rest" /\ duty'[v].user = x
      BY <1>3, <2>1, <2>2, ZenonT(60) DEF RestErased
  <2> QED
      BY <1>1, <1>2, <2>2 DEF RestErased
<1>13. ScheduledWanted' /\ ListedWanted'
    BY <1>1, <1>2, <1>3, <1>5 DEF ScheduledWanted, ListedWanted, Lists
<1>14. AloneIsAlone'
    BY <1>3, <1>5 DEF AloneIsAlone, Changing
<1>15. AloneMay'
  <2>1. ActiveAdmins' = ActiveAdmins
      BY <1>1 DEF ActiveAdmins
  <2>2. d.at \notin {"update"} \cup ErasingAt
      BY <1>5
  <2>3. MayStill(duty[w])'
      BY <1>3, <2>2 DEF MayStill
  <2>4. ASSUME NEW v \in Workers, v # w PROVE MayStill(duty[v])'
    <3>1. MayStill(duty[v]) /\ duty'[v] = duty[v]
        BY <1>3, <2>4 DEF AloneMay
    <3> QED
        BY <1>1, <2>1, <3>1, StillMay
  <2> QED
      BY <2>3, <2>4 DEF AloneMay
<1> QED
    BY <1>4, <1>6, <1>7, <1>8, <1>9, <1>10, <1>11, <1>12, <1>13, <1>14, <1>15

\* A request that may cost an administrator, up to its second half.
LEMMA StartsStep ==
    ASSUME AccInv, NEW w \in Workers, NEW u \in Users, NEW d \in Duties,
           duty[w].at \in {"resting", "purge"}, u \in live, Starts(w, d), Holds(d, u),
           d.at \in {"update", "erase data"}, d.alone = Alone,
           \A x \in Users : Lists(d, x) => Lists(duty[w], x),
           d.at = "update" => MayBecome(u, d.new), d.at = "erase data" => MayBecome(u, NoRow),
           overlap \subseteq overlap', OthersOn(w, u) => u \in overlap', overlap' \subseteq Users,
           UNCHANGED <<live, row, gone, sessions, data, rest, leaving>>
    PROVE  AccInv'
<1> USE DEF AccInv
<1>1. /\ duty' \in [Workers -> Duties] /\ duty'[w] = d
      /\ \A v \in Workers \ {w} : SameWork(duty[v], duty'[v])
                                  /\ (Changing(duty[v]) => ~duty'[v].alone)
    BY StartsWork DEF AccTypeOK
<1>2. \A v \in Workers \ {w} : duty'[v].at = duty[v].at
    BY <1>1 DEF SameWork
<1>3. AccTypeOK'
    BY <1>1 DEF AccTypeOK
<1>4. Known'
  <2>1. \A x \in Users : Holds(d, x) => x = u
      BY DEF Holds
  <2> QED
      BY <1>1, <2>1, WorksOnIs DEF Known, SameWork
<1>5. Exclusive'
  <2>1. ASSUME NEW v \in Workers \ {w}, NEW x \in Users, Holds(duty[v], x), Holds(d, x)
        PROVE  x \in overlap'
      BY <2>1 DEF OthersOn, WorksOn, Holds
  <2> QED
      BY <1>1, <2>1 DEF Exclusive, SameWork
<1>6. LoginFresh'
    BY <1>1, <1>2 DEF LoginFresh, SameWork, Changing, ErasingAt
<1>7. SessionsCurrent'
  <2>1. \A v \in Workers : duty[v].at = "revoke" => v # w /\ duty'[v] = duty[v]
      BY <1>1 DEF SameWork, Changing, ErasingAt
  <2> QED
      BY <2>1, ZenonT(60) DEF SessionsCurrent
<1>8. HeldIsLive'
  <2>1. \A x \in Users : Holds(d, x) => x = u
      BY DEF Holds
  <2> QED
      BY <1>1, <1>2, <2>1 DEF HeldIsLive, SameWork, AccTypeOK
<1>9. DataErased'
  <2>1. ASSUME NEW v \in Workers, duty'[v].at \in {"erase sessions", "erase row"}
        PROVE  duty'[v].user \notin data \/ duty'[v].user \in overlap'
    <3>1. v # w /\ duty[v].at = duty'[v].at
        BY <1>1, <1>2, <2>1
    <3>2. duty'[v].user \in Users
        BY <1>1, <2>1, DutyShape DEF ErasingAt
    <3>3. Holds(duty'[v], duty'[v].user)
        BY <2>1, <3>2 DEF Holds
    <3>4. duty[v].user = duty'[v].user
        BY <1>1, <3>1, <3>2, <3>3 DEF SameWork, Holds
    <3> QED
        BY <2>1, <3>1, <3>4 DEF DataErased
  <2> QED
      BY <2>1 DEF DataErased
<1>10. RestErased'
  <2>1. ASSUME NEW v \in Workers, duty[v].at = "erase rest"
        PROVE  duty'[v].at = "erase rest" /\ duty'[v].user = duty[v].user
    <3>1. v # w /\ duty'[v].at = duty[v].at
        BY <1>2, <2>1
    <3>2. duty[v].user \in Users
        BY <2>1, DutyShape DEF ErasingAt, AccTypeOK
    <3>3. Holds(duty[v], duty[v].user)
        BY <2>1, <3>2 DEF Holds
    <3> QED
        BY <1>1, <2>1, <3>1, <3>2, <3>3 DEF SameWork, Holds
  <2>2. ASSUME NEW x \in gone \cap rest, x \notin overlap
        PROVE  \E v \in Workers : duty'[v].at = "erase rest" /\ duty'[v].user = x
    <3>1. PICK v \in Workers : duty[v].at = "erase rest" /\ duty[v].user = x
        BY <2>2 DEF RestErased
    <3> QED
        BY <2>1, <3>1
  <2> QED
      BY <2>2 DEF RestErased
<1>11. ScheduledWanted' /\ ListedWanted'
    BY <1>1 DEF ScheduledWanted, ListedWanted, SameWork, AccTypeOK
<1>12. AloneIsAlone'
  <2>1. ASSUME NEW v \in Workers \ {w}, Changing(duty'[v]) PROVE ~duty'[v].alone /\ ~d.alone
    <3>1. Changing(duty[v])
        BY <1>2, <2>1 DEF Changing
    <3> QED
        BY <1>1, <3>1 DEF Alone
  <2> QED
      BY <1>1, <2>1 DEF AloneIsAlone
<1>13. AloneMay'
  <2>1. \A v \in Workers \ {w} : Changing(duty'[v]) => ~duty'[v].alone
      BY <1>1, <1>2 DEF Changing
  <2>2. ActiveAdmins' = ActiveAdmins /\ d.user = u
      BY DEF ActiveAdmins, Holds
  <2>3. MayStill(duty[w])'
      BY <1>1, <2>2 DEF MayStill, MayBecome, Alone, ErasingAt
  <2>4. ASSUME NEW v \in Workers \ {w} PROVE MayStill(duty[v])'
      BY <2>1, <2>4 DEF MayStill, Changing
  <2> QED
      BY <2>3, <2>4 DEF AloneMay
<1> QED
    BY <1>3, <1>4, <1>5, <1>6, <1>7, <1>8, <1>9, <1>10, <1>11, <1>12, <1>13

LEMMA BeginUpdateStep ==
    ASSUME AccInv, NEW w \in Workers, NEW u \in Users, NEW what \in Changes,
           BeginUpdate(w, u, what)
    PROVE  AccInv'
<1> DEFINE new == Change(row[u], what)
           ends == what = "password" \/ ~new.active \/ new.admin # row[u].admin
           kept == [admin |-> new.admin, active |-> new.active]
           d == [at |-> "update", user |-> u, new |-> kept, ends |-> ends, alone |-> Alone]
<1>0. new \in Rows /\ ends \in BOOLEAN /\ Alone \in BOOLEAN
    BY RowTypes DEF AccInv, AccTypeOK, Alone
<1>1. kept \in Standing /\ kept.admin = new.admin /\ kept.active = new.active
    BY <1>0 DEF Rows, Standing
<1>2. d \in Duties /\ d.at = "update" /\ d.user = u /\ d.new = kept /\ d.alone = Alone
  <2> HIDE DEF new, kept, ends
  <2> QED
      BY <1>0, <1>1, DutyTypes
<1>3. Starts(w, d) /\ duty[w] = Resting /\ u \in live /\ MayBecome(u, new)
      /\ overlap' = Overlapping(u) /\ UNCHANGED <<live, row, gone, sessions, data, rest, leaving>>
    BY DEF BeginUpdate
<1>4. overlap \subseteq overlap' /\ (OthersOn(w, u) => u \in overlap') /\ overlap' \subseteq Users
    BY <1>3 DEF Overlapping, OthersOn, Busy, AccInv, AccTypeOK
<1> HIDE DEF new, kept, ends, d
<1>5. Holds(d, u) /\ \A x \in Users : ~Lists(d, x)
    BY <1>2 DEF Holds, Lists, ErasingAt
<1>6. duty[w].at = "resting" /\ (d.at = "update" => MayBecome(u, d.new))
    BY <1>1, <1>2, <1>3 DEF Resting, MayBecome
<1> QED
    BY <1>2, <1>3, <1>4, <1>5, <1>6, StartsStep

LEMMA ErasingType ==
    ASSUME NEW u \in Users, NEW todo \in SUBSET Users
    PROVE  LET d == Erasing(u, todo)
           IN  /\ d \in Duties /\ d.at = "erase data" /\ d.alone = Alone /\ Holds(d, u)
               /\ \A x \in Users : Lists(d, x) <=> x \in todo
<1>1. Alone \in BOOLEAN /\ "erase data" \in ErasingAt
    BY DEF Alone, ErasingAt
<1> QED
    BY <1>1, DutyTypes DEF Erasing, Holds, Lists

LEMMA BeginEraseStep ==
    ASSUME AccInv, NEW w \in Workers, NEW u \in Users, BeginErase(w, u)
    PROVE  AccInv'
<1> DEFINE d == Erasing(u, {})
<1>1. d \in Duties /\ d.at = "erase data" /\ d.alone = Alone /\ Holds(d, u)
      /\ \A x \in Users : ~Lists(d, x)
  <2>1. {} \in SUBSET Users /\ \A x \in Users : x \notin {}
      OBVIOUS
  <2> QED
      BY <2>1, ErasingType
<1>2. Starts(w, d) /\ duty[w] = Resting /\ u \in live /\ MayBecome(u, NoRow)
      /\ overlap' = Overlapping(u) /\ UNCHANGED <<live, row, gone, sessions, data, rest, leaving>>
    BY DEF BeginErase
<1>3. overlap \subseteq overlap' /\ (OthersOn(w, u) => u \in overlap') /\ overlap' \subseteq Users
    BY <1>2 DEF Overlapping, OthersOn, Busy, AccInv, AccTypeOK
<1> HIDE DEF d
<1>4. duty[w].at = "resting"
    BY <1>2 DEF Resting
<1> QED
    BY <1>1, <1>2, <1>3, <1>4, StartsStep

-----------------------------------------------------------------------------
\* A worker goes on to a duty that holds and lists nobody new and changes no
\* account it did not change before, and nothing else is touched.
LEMMA GoesStep ==
    ASSUME AccInv, NEW w \in Workers, NEW d \in Duties, Goes(w, d),
           d.at \in {"resting", "purge"}, duty[w].at # "revoke",
           duty[w].at = "erase rest" => duty[w].user \in overlap',
           \A x \in Users : Lists(d, x) => Lists(duty[w], x) \/ x \in Scheduled,
           overlap \subseteq overlap', overlap' \subseteq Users,
           UNCHANGED <<live, row, gone, sessions, data, rest, leaving>>
    PROVE  AccInv'
<1> USE DEF AccInv
<1>1. duty' = [duty EXCEPT ![w] = d] /\ duty' \in [Workers -> Duties] /\ duty'[w] = d
      /\ \A v \in Workers \ {w} : duty'[v] = duty[v]
    BY DEF Goes, AccTypeOK
<1>2. AccTypeOK'
    BY <1>1 DEF AccTypeOK
<1>3. \A x \in Users : ~Holds(d, x)
    BY DEF Holds
<1>4. Known'
  <2>1. \A x \in Users : WorksOn(d, x) => Lists(d, x)
      BY DEF WorksOn, Lists, ErasingAt
  <2>2. \A x \in Users : Lists(duty[w], x) => WorksOn(duty[w], x)
      BY DEF WorksOn, Lists, ErasingAt
  <2> QED
      BY <1>1, <2>1, <2>2 DEF Known, Scheduled
<1>5. Exclusive' /\ HeldIsLive'
    BY <1>1, <1>3 DEF Exclusive, HeldIsLive, AccTypeOK
<1>6. LoginFresh'
    BY <1>1 DEF LoginFresh
<1>7. SessionsCurrent'
    BY <1>1 DEF SessionsCurrent
<1>8. DataErased'
    BY <1>1 DEF DataErased
<1>9. RestErased'
  <2>1. ASSUME NEW x \in gone \cap rest, x \notin overlap'
        PROVE  \E v \in Workers : duty'[v].at = "erase rest" /\ duty'[v].user = x
    <3>1. PICK v \in Workers : duty[v].at = "erase rest" /\ duty[v].user = x
        BY <2>1 DEF RestErased
    <3>2. v # w
        BY <2>1, <3>1
    <3> QED
        BY <1>1, <3>1, <3>2
  <2> QED
      BY <2>1 DEF RestErased
<1>10. ScheduledWanted'
    BY DEF ScheduledWanted
<1>11. ListedWanted'
    BY <1>1 DEF ListedWanted, ScheduledWanted, Scheduled, AccTypeOK
<1>12. AloneIsAlone'
    BY <1>1 DEF AloneIsAlone, Changing, ErasingAt
<1>13. AloneMay'
  <2>1. ActiveAdmins' = ActiveAdmins
      BY DEF ActiveAdmins
  <2>2. MayStill(duty[w])'
      BY <1>1 DEF MayStill, ErasingAt
  <2>3. ASSUME NEW v \in Workers \ {w} PROVE MayStill(duty[v])'
      BY <1>1, <2>1, StillMay DEF AloneMay
  <2> QED
      BY <2>2, <2>3 DEF AloneMay
<1> QED
    BY <1>2, <1>4, <1>5, <1>6, <1>7, <1>8, <1>9, <1>10, <1>11, <1>12, <1>13

LEMMA PurgeNextStep ==
    ASSUME AccInv, NEW w \in Workers, NEW u \in Users, PurgeNext(w, u)
    PROVE  AccInv'
<1> DEFINE todo == duty[w].todo \ {u}
<1>1. duty[w].at = "purge" /\ duty[w].todo \subseteq Users
    BY DutyShape DEF PurgeNext, AccInv, AccTypeOK
<1>2. overlap \subseteq overlap' /\ (OthersOn(w, u) => u \in overlap') /\ overlap' \subseteq Users
      /\ UNCHANGED <<live, row, gone, sessions, data, rest, leaving>>
    BY DEF PurgeNext, AccInv, AccTypeOK
<1>3. CASE u \in live /\ MayBecome(u, NoRow)
  <2> DEFINE d == Erasing(u, todo)
  <2>1. d \in Duties /\ d.at = "erase data" /\ d.alone = Alone /\ Holds(d, u)
        /\ \A x \in Users : Lists(d, x) => Lists(duty[w], x)
    <3>1. todo \in SUBSET Users
        BY <1>1
    <3>2. \A x \in todo : Lists(duty[w], x)
        BY <1>1 DEF Lists
    <3> HIDE DEF todo
    <3>3. /\ d \in Duties /\ d.at = "erase data" /\ d.alone = Alone /\ Holds(d, u)
          /\ \A x \in Users : Lists(d, x) => x \in todo
        BY <3>1, ErasingType
    <3> QED
        BY <3>2, <3>3
  <2>2. Starts(w, d)
      BY <1>3 DEF PurgeNext
  <2> HIDE DEF d
  <2> QED
      BY <1>1, <1>2, <1>3, <2>1, <2>2, StartsStep
<1>4. CASE ~(u \in live /\ MayBecome(u, NoRow))
  <2> DEFINE d == Onward(todo)
  <2>1. d \in Duties /\ d.at \in {"resting", "purge"}
        /\ \A x \in Users : Lists(d, x) => Lists(duty[w], x)
      BY <1>1, DutyTypes DEF Onward, Lists, Resting, ErasingAt
  <2>2. Goes(w, d)
      BY <1>4 DEF PurgeNext
  <2> HIDE DEF d
  <2> QED
      BY <1>1, <1>2, <2>1, <2>2, GoesStep
<1> QED
    BY <1>3, <1>4

LEMMA PurgeStartsStep == ASSUME AccInv, NEW w \in Workers, PurgeStarts(w) PROVE AccInv'
<1>1. PICK due \in SUBSET Scheduled : Goes(w, [at |-> "purge", todo |-> due])
    BY DEF PurgeStarts
<1>2. due \subseteq Users
    BY DEF Scheduled, AccInv, AccTypeOK
<1> DEFINE d == [at |-> "purge", todo |-> due]
<1>3. d \in Duties /\ d.at = "purge" /\ \A x \in Users : Lists(d, x) => x \in Scheduled
    BY <1>2, DutyTypes DEF Lists
<1>4. duty[w].at = "resting" /\ overlap' = overlap /\ overlap \subseteq Users
      /\ UNCHANGED <<live, row, gone, sessions, data, rest, leaving>>
    BY DEF PurgeStarts, Resting, AccInv, AccTypeOK
<1> HIDE DEF d
<1> QED
    BY <1>1, <1>3, <1>4, GoesStep DEF d

LEMMA EraseFailsStep == ASSUME AccInv, NEW w \in Workers, EraseFails(w) PROVE AccInv'
<1> DEFINE d == Onward(duty[w].todo)
<1>1. duty[w].at \in ErasingAt /\ duty[w].todo \subseteq Users /\ duty[w].user \in Users
  <2>1. duty[w] \in Duties /\ duty[w].at \in ErasingAt
      BY DEF EraseFails, AccInv, AccTypeOK
  <2>2. duty[w] \in [at : ErasingAt, user : Users, todo : SUBSET Users, alone : BOOLEAN]
      BY <2>1, DutyShape
  <2> QED
      BY <2>1, <2>2
<1>2. d \in Duties /\ d.at \in {"resting", "purge"}
      /\ \A x \in Users : Lists(d, x) => Lists(duty[w], x)
    BY <1>1, DutyTypes DEF Onward, Lists, Resting, ErasingAt
<1>3. overlap' = overlap \cup {duty[w].user} /\ Goes(w, d)
      /\ UNCHANGED <<live, row, gone, sessions, data, rest, leaving>>
    BY DEF EraseFails
<1>4. overlap \subseteq Users /\ duty[w].at # "revoke"
    BY <1>1 DEF AccInv, AccTypeOK, ErasingAt
<1> HIDE DEF d
<1> QED
    BY <1>1, <1>2, <1>3, <1>4, GoesStep
-----------------------------------------------------------------------------
(* Second halves that change the accounts. *)

LEMMA UpdatedType ==
    ASSUME NEW r \in Rows,
           NEW d \in [at : {"update"}, user : Users, new : Standing, ends : BOOLEAN, alone : BOOLEAN]
    PROVE  LET q == Updated(r, d)
           IN  /\ q \in Rows /\ q.deletion = r.deletion
               /\ q.admin = d.new.admin /\ q.active = d.new.active
               /\ ~d.ends => q.era = r.era
<1> DEFINE e == IF d.ends /\ r.era < MaxEra THEN r.era + 1 ELSE r.era
           q == [r EXCEPT !.admin = d.new.admin, !.active = d.new.active, !.era = e]
<1>1. e \in Eras /\ (~d.ends => e = r.era)
    BY AccountsAssumption DEF Rows, Eras
<1>2. Updated(r, d) = q
    BY DEF Updated
<1>3. d.new.admin \in BOOLEAN /\ d.new.active \in BOOLEAN
    BY DEF Standing
<1> HIDE DEF e
<1>4. q \in Rows /\ q.deletion = r.deletion /\ q.era = e
    BY <1>1, <1>3 DEF Rows
<1>5. q.admin = d.new.admin /\ q.active = d.new.active
    BY <1>1, <1>3 DEF Rows
<1> QED
    BY <1>1, <1>2, <1>4, <1>5

LEMMA WriteUserStep == ASSUME AccInv, NEW w \in Workers, WriteUser(w) PROVE AccInv'
<1> USE DEF AccInv
<1> DEFINE u == duty[w].user
           d == IF Revokes(duty[w]) THEN [at |-> "revoke", user |-> u] ELSE Resting
<1>1. duty[w] \in [at : {"update"}, user : Users, new : Standing, ends : BOOLEAN, alone : BOOLEAN]
    BY DutyShape DEF WriteUser, AccTypeOK
<1>2. u \in Users /\ duty[w].at = "update" /\ Holds(duty[w], u)
    BY <1>1 DEF Holds
<1>3. duty' = [duty EXCEPT ![w] = d]
      /\ UNCHANGED <<live, gone, sessions, data, rest, leaving, overlap>>
    BY DEF WriteUser, Goes
<1>4. d \in Duties /\ d.at \in {"revoke", "resting"} /\ (d.at = "revoke" <=> duty[w].ends)
      /\ (d.at = "revoke" => d.user = u)
    BY <1>1, <1>2, DutyTypes DEF Revokes, Resting
<1>5. /\ row' \in [Users -> Rows] /\ \A x \in Users \ {u} : row'[x] = row[x]
      /\ row'[u].deletion = row[u].deletion
      /\ ~duty[w].ends => row'[u].era = row[u].era
  <2>1. row[u] \in Rows
      BY <1>2 DEF AccTypeOK
  <2>2. CASE u \in live
    <3>1. row' = [row EXCEPT ![u] = Updated(row[u], duty[w])]
        BY <2>2 DEF WriteUser
    <3> QED
        BY <1>1, <1>2, <2>1, <3>1, UpdatedType DEF AccTypeOK
  <2>3. CASE u \notin live
      BY <1>2, <2>3 DEF WriteUser, AccTypeOK
  <2> QED
      BY <2>2, <2>3
<1> HIDE DEF d
<1>6. duty' \in [Workers -> Duties] /\ duty'[w] = d /\ \A v \in Workers \ {w} : duty'[v] = duty[v]
    BY <1>3, <1>4 DEF AccTypeOK
<1>7. AccTypeOK'
    BY <1>3, <1>5, <1>6 DEF AccTypeOK
<1>8. \A x \in Users : /\ Holds(d, x) => Holds(duty[w], x)
                       /\ ~Lists(d, x) /\ (WorksOn(d, x) => WorksOn(duty[w], x))
    BY <1>2, <1>4 DEF Holds, Lists, WorksOn, ErasingAt
<1>9. Known'
    BY <1>3, <1>6, <1>8 DEF Known
<1>10. Exclusive'
    BY <1>3, <1>6, <1>8 DEF Exclusive
<1>11. HeldIsLive'
    BY <1>2, <1>3, <1>6, <1>8 DEF HeldIsLive, AccTypeOK
<1>12. LoginFresh'
  <2>1. ASSUME NEW v \in Workers, duty'[v].at = "login"
        PROVE  duty'[v].user \in overlap \cup gone \/ duty'[v].era = row'[duty'[v].user].era
    <3>1. v # w /\ duty'[v] = duty[v] /\ duty[v].user \in Users
        BY <1>4, <1>6, <2>1, DutyShape DEF AccTypeOK
    <3>2. CASE duty[v].user = u
        BY <1>2, <2>1, <3>1, <3>2 DEF Exclusive, Holds
    <3>3. CASE duty[v].user # u
        BY <1>5, <2>1, <3>1, <3>3 DEF LoginFresh
    <3> QED
        BY <3>2, <3>3
  <2> QED
      BY <1>3, <2>1 DEF LoginFresh
<1>13. SessionsCurrent'
  <2>1. ASSUME NEW s \in sessions
        PROVE  s[1] \in overlap \/ s[2] = row'[s[1]].era
               \/ \E v \in Workers : duty'[v].at = "revoke" /\ duty'[v].user = s[1]
    <3>1. s[1] \in Users
        BY DEF AccTypeOK
    <3>2. CASE s[1] = u /\ duty[w].ends
        BY <1>4, <1>6, <3>2
    <3>3. CASE ~(s[1] = u /\ duty[w].ends)
      <4>1. row'[s[1]].era = row[s[1]].era
          BY <1>5, <3>1, <3>3
      <4>2. \A v \in Workers : duty[v].at = "revoke" => v # w
          BY <1>2
      <4> QED
          BY <1>6, <4>1, <4>2 DEF SessionsCurrent
    <3> QED
        BY <3>2, <3>3
  <2> QED
      BY <1>3, <2>1 DEF SessionsCurrent
<1>14. DataErased'
  <2>1. ASSUME NEW v \in Workers, duty'[v].at \in {"erase sessions", "erase row"}
        PROVE  duty'[v].user \notin data \/ duty'[v].user \in overlap
      BY <1>4, <1>6, <2>1 DEF DataErased
  <2> QED
      BY <1>3, <2>1 DEF DataErased
<1>15. RestErased'
  <2>1. ASSUME NEW x \in gone \cap rest, x \notin overlap
        PROVE  \E v \in Workers : duty'[v].at = "erase rest" /\ duty'[v].user = x
    <3>1. PICK v \in Workers : duty[v].at = "erase rest" /\ duty[v].user = x
        BY <2>1 DEF RestErased
    <3> QED
        BY <1>2, <1>6, <3>1
  <2> QED
      BY <1>3, <2>1 DEF RestErased
<1>16. ScheduledWanted'
    BY <1>3, <1>5 DEF ScheduledWanted, AccTypeOK
<1>17. ListedWanted'
    BY <1>3, <1>6, <1>8 DEF ListedWanted, AccTypeOK
<1>18. AloneIsAlone'
    BY <1>4, <1>6 DEF AloneIsAlone, Changing, ErasingAt
<1>19. AloneMay'
  <2>1. ASSUME NEW v \in Workers \ {w} PROVE Changing(duty'[v]) => ~duty'[v].alone
      BY <1>2, <1>6 DEF AloneIsAlone, Changing
  <2>2. MayStill(duty[w])'
      BY <1>4, <1>6 DEF MayStill, ErasingAt
  <2>3. ASSUME NEW v \in Workers \ {w} PROVE MayStill(duty[v])'
      BY <2>1 DEF MayStill, Changing
  <2> QED
      BY <2>2, <2>3 DEF AloneMay
<1> QED
    BY <1>7, <1>9, <1>10, <1>11, <1>12, <1>13, <1>14, <1>15, <1>16, <1>17, <1>18, <1>19

-----------------------------------------------------------------------------
(* Second halves that change a store. *)

\* What a worker goes on to is a part of what it did.
PartOf(d, d0) ==
    /\ d.at # "login"
    /\ \A x \in Users : /\ Holds(d, x) => Holds(d0, x) /\ d.at \in ErasingAt
                        /\ Lists(d, x) => Lists(d0, x)
    /\ d.at # "update"
    /\ d.at \in ErasingAt => /\ d0.at \in ErasingAt \ {"erase rest"}
                             /\ d.user = d0.user /\ d.alone = d0.alone

\* The parts of the invariant that such a step cannot disturb.
LEMMA GoesOnStep ==
    ASSUME AccInv, NEW w \in Workers, NEW d \in Duties, Goes(w, d), PartOf(d, duty[w]),
           UNCHANGED <<live, row, gone, leaving, overlap>>
    PROVE  /\ duty' \in [Workers -> Duties] /\ duty'[w] = d
           /\ \A v \in Workers \ {w} : duty'[v] = duty[v]
           /\ Known' /\ Exclusive' /\ LoginFresh' /\ HeldIsLive'
           /\ ScheduledWanted' /\ ListedWanted' /\ AloneIsAlone' /\ AloneMay'
<1> USE DEF AccInv
<1>1. duty' = [duty EXCEPT ![w] = d] /\ duty' \in [Workers -> Duties] /\ duty'[w] = d
      /\ \A v \in Workers \ {w} : duty'[v] = duty[v]
    BY DEF Goes, AccTypeOK
<1>2. d.at # "login" /\ \A x \in Users : /\ Holds(d, x) => Holds(duty[w], x) /\ d.at \in ErasingAt
                                         /\ Lists(d, x) => Lists(duty[w], x)
    BY DEF PartOf
<1>3. d.at # "update"
      /\ (d.at \in ErasingAt => /\ duty[w].at \in ErasingAt \ {"erase rest"}
                                /\ d.user = duty[w].user /\ d.alone = duty[w].alone)
    BY DEF PartOf
<1>4. Known'
    BY <1>1, <1>2, WorksOnIs DEF Known
<1>5. Exclusive'
    BY <1>1, <1>2 DEF Exclusive
<1>6. LoginFresh'
    BY <1>1, <1>2 DEF LoginFresh
<1>7. HeldIsLive'
    BY <1>1, <1>2, <1>3 DEF HeldIsLive, AccTypeOK
<1>8. ScheduledWanted' /\ ListedWanted'
    BY <1>1, <1>2 DEF ScheduledWanted, ListedWanted, AccTypeOK
<1>9. AloneIsAlone'
    BY <1>1, <1>3 DEF AloneIsAlone, Changing
<1>10. AloneMay'
  <2>1. ActiveAdmins' = ActiveAdmins
      BY DEF ActiveAdmins
  <2>2. MayStill(duty[w]) /\ duty'[w] = d
      BY <1>1 DEF AloneMay
  <2>3. MayStill(duty[w])'
      BY <1>3, <2>1, <2>2, Zenon DEF MayStill, MayBecome
  <2>4. ASSUME NEW v \in Workers \ {w} PROVE MayStill(duty[v])'
      BY <1>1, <2>1, StillMay DEF AloneMay
  <2> QED
      BY <2>3, <2>4 DEF AloneMay
<1> QED
    BY <1>1, <1>4, <1>5, <1>6, <1>7, <1>8, <1>9, <1>10

LEMMA RestingIsPart == \A d0 \in Duties : Resting \in Duties /\ PartOf(Resting, d0)
    BY DutyTypes DEF PartOf, Resting, Holds, Lists, ErasingAt

\* The next store of an erasure.
LEMMA NextStore ==
    ASSUME NEW d0 \in Duties, d0.at \in ErasingAt \ {"erase rest"}, NEW at \in ErasingAt
    PROVE  LET d == [d0 EXCEPT !.at = at]
           IN  d \in Duties /\ PartOf(d, d0) /\ d.at = at /\ d.user = d0.user
<1> DEFINE d == [d0 EXCEPT !.at = at]
<1>1. d0 \in [at : ErasingAt, user : Users, todo : SUBSET Users, alone : BOOLEAN]
    BY DutyShape
<1>2. d \in [at : ErasingAt, user : Users, todo : SUBSET Users, alone : BOOLEAN]
      /\ d.at = at /\ d.user = d0.user /\ d.todo = d0.todo /\ d.alone = d0.alone
    BY <1>1
<1>3. d.at \notin {"resting", "purge", "login", "update"} /\ d0.at \notin {"resting", "purge"}
    BY <1>2 DEF ErasingAt
<1> HIDE DEF d
<1>4. \A x \in Users : Holds(d, x) <=> Holds(d0, x)
    BY <1>2, <1>3 DEF Holds
<1>5. \A x \in Users : Lists(d, x) <=> Lists(d0, x)
    BY <1>2 DEF Lists
<1>6. PartOf(d, d0)
    BY <1>2, <1>3, <1>4, <1>5 DEF PartOf
<1> QED
    BY <1>2, <1>6 DEF Duties, d

\* A request that is under way holds its user.
LEMMA HeldUser ==
    ASSUME AccTypeOK, NEW w \in Workers, duty[w].at \notin {"resting", "purge"}
    PROVE  duty[w].user \in Users /\ Holds(duty[w], duty[w].user)
<1>1. duty[w].user \in Users
    BY DutyShape DEF AccTypeOK
<1> QED
    BY <1>1 DEF Holds

\* A step of one worker, not at the last store, keeps what was erased erased
\* if it fills the stores of a user of its own only.
LEMMA StoresKept ==
    ASSUME AccInv, NEW w \in Workers, NEW d \in Duties, Goes(w, d), gone' = gone,
           duty[w].at \notin {"resting", "purge", "erase rest"}, overlap' = overlap,
           data' \subseteq data \cup {duty[w].user}, rest' \subseteq rest \cup {duty[w].user},
           d.at \in {"erase sessions", "erase row"} =>
               d.user \notin data' \/ d.user \in overlap
    PROVE  DataErased' /\ RestErased'
<1> USE DEF AccInv
<1> DEFINE u == duty[w].user
<1>1. duty'[w] = d /\ \A v \in Workers \ {w} : duty'[v] = duty[v]
    BY DEF Goes, AccTypeOK
<1>2. u \in Users /\ Holds(duty[w], u)
    BY HeldUser
<1>3. u \in gone => u \in overlap
    BY <1>2 DEF HeldIsLive
<1>4. ASSUME NEW v \in Workers, duty'[v].at \in {"erase sessions", "erase row"}
      PROVE  duty'[v].user \notin data' \/ duty'[v].user \in overlap
  <2>1. CASE v = w
      BY <1>1, <1>4, <2>1
  <2>2. CASE v # w
    <3>1. duty'[v] = duty[v] /\ duty[v].at \notin {"resting", "purge"}
        BY <1>1, <1>4, <2>2
    <3>2. duty[v].user \in Users /\ Holds(duty[v], duty[v].user)
        BY <3>1, HeldUser
    <3>3. duty[v].user = u => u \in overlap
        BY <1>2, <2>2, <3>2 DEF Exclusive
    <3> QED
        BY <1>4, <3>1, <3>3 DEF DataErased
  <2> QED
      BY <2>1, <2>2
<1>5. ASSUME NEW x \in gone \cap rest', x \notin overlap
      PROVE  \E v \in Workers : duty'[v].at = "erase rest" /\ duty'[v].user = x
  <2>1. x \in gone \cap rest
      BY <1>3, <1>5
  <2>2. PICK v \in Workers : duty[v].at = "erase rest" /\ duty[v].user = x
      BY <1>5, <2>1 DEF RestErased
  <2> QED
      BY <1>1, <2>2
<1>6. gone' \cap data' \subseteq overlap'
    BY <1>3 DEF DataErased
<1> QED
    BY <1>4, <1>5, <1>6 DEF DataErased, RestErased

\* A step of a worker that is not ending sessions, and opens none.
LEMMA SessionsKept ==
    ASSUME AccInv, NEW w \in Workers, NEW d \in Duties, Goes(w, d), duty[w].at # "revoke",
           sessions' \subseteq sessions, overlap' = overlap,
           \A s \in sessions' : row'[s[1]].era = row[s[1]].era
    PROVE  SessionsCurrent'
<1>1. duty'[w] = d /\ \A v \in Workers \ {w} : duty'[v] = duty[v]
    BY DEF Goes, AccInv, AccTypeOK
<1>2. ASSUME NEW s \in sessions', s[1] \notin overlap, s[2] # row[s[1]].era
      PROVE  \E v \in Workers : duty'[v].at = "revoke" /\ duty'[v].user = s[1]
  <2>1. PICK v \in Workers : duty[v].at = "revoke" /\ duty[v].user = s[1]
      BY <1>2 DEF AccInv, SessionsCurrent
  <2> QED
      BY <1>1, <2>1
<1> QED
    BY <1>2 DEF SessionsCurrent

LEMMA RevokeStep == ASSUME AccInv, NEW w \in Workers, Revoke(w) PROVE AccInv'
<1> USE DEF AccInv
<1>1. duty[w].at = "revoke" /\ Goes(w, Resting) /\ sessions' = sessions \ SessionsOf(duty[w].user)
      /\ UNCHANGED <<live, row, gone, data, rest, leaving, overlap>>
    BY DEF Revoke, Rests
<1>2. duty[w] \in Duties
    BY DEF AccTypeOK
<1>3. /\ duty' \in [Workers -> Duties] /\ duty'[w] = Resting
      /\ \A v \in Workers \ {w} : duty'[v] = duty[v]
      /\ Known' /\ Exclusive' /\ LoginFresh' /\ HeldIsLive' /\ ScheduledWanted' /\ ListedWanted'
      /\ AloneIsAlone' /\ AloneMay'
    BY <1>1, <1>2, RestingIsPart, GoesOnStep
<1>4. AccTypeOK'
    BY <1>1, <1>3 DEF AccTypeOK
<1>5. SessionsCurrent'
  <2>1. ASSUME NEW s \in sessions', s[1] \notin overlap, s[2] # row[s[1]].era
        PROVE  \E v \in Workers : duty'[v].at = "revoke" /\ duty'[v].user = s[1]
    <3>1. s \in sessions /\ s[1] # duty[w].user
        BY <1>1 DEF SessionsOf, AccTypeOK
    <3>2. PICK v \in Workers : duty[v].at = "revoke" /\ duty[v].user = s[1]
        BY <2>1, <3>1 DEF SessionsCurrent
    <3> QED
        BY <1>3, <3>1, <3>2
  <2> QED
      BY <1>1, <2>1 DEF SessionsCurrent
<1>6. DataErased' /\ RestErased'
  <2>1. Resting.at = "resting"
      BY DEF Resting
  <2> QED
      BY <1>1, <1>2, <2>1, RestingIsPart, StoresKept
<1> QED
    BY <1>3, <1>4, <1>5, <1>6

LEMMA OpenSessionStep == ASSUME AccInv, NEW w \in Workers, OpenSession(w) PROVE AccInv'
<1> USE DEF AccInv
<1>1. duty[w].at = "login" /\ Goes(w, Resting)
      /\ sessions' = sessions \cup SessionFor(duty[w])
      /\ UNCHANGED <<live, row, gone, data, rest, leaving, overlap>>
    BY DEF OpenSession, Rests
<1>2. duty[w] \in Duties /\ duty[w].era \in Eras
    BY <1>1, DutyShape DEF AccTypeOK
<1>3. /\ duty' \in [Workers -> Duties] /\ duty'[w] = Resting
      /\ \A v \in Workers \ {w} : duty'[v] = duty[v]
      /\ Known' /\ Exclusive' /\ LoginFresh' /\ HeldIsLive' /\ ScheduledWanted' /\ ListedWanted'
      /\ AloneIsAlone' /\ AloneMay'
    BY <1>1, <1>2, RestingIsPart, GoesOnStep
<1>4. AccTypeOK'
    BY <1>1, <1>2, <1>3 DEF AccTypeOK, SessionFor
<1>5. SessionsCurrent'
  <2>1. ASSUME NEW s \in sessions', s[1] \notin overlap, s[2] # row[s[1]].era
        PROVE  \E v \in Workers : duty'[v].at = "revoke" /\ duty'[v].user = s[1]
    <3>1. s \in sessions
      <4>1. CASE duty[w].user \in live
          BY <1>1, <2>1, <4>1 DEF SessionFor, LoginFresh, AccTypeOK
      <4>2. CASE duty[w].user \notin live
          BY <1>1, <4>2 DEF SessionFor
      <4> QED
          BY <4>1, <4>2
    <3>2. PICK v \in Workers : duty[v].at = "revoke" /\ duty[v].user = s[1]
        BY <2>1, <3>1 DEF SessionsCurrent
    <3> QED
        BY <1>1, <1>3, <3>1, <3>2
  <2> QED
      BY <1>1, <2>1 DEF SessionsCurrent
<1>6. DataErased' /\ RestErased'
  <2>1. Resting.at = "resting"
      BY DEF Resting
  <2> QED
      BY <1>1, <1>2, <2>1, RestingIsPart, StoresKept
<1> QED
    BY <1>3, <1>4, <1>5, <1>6

LEMMA DoWorkStep == ASSUME AccInv, NEW w \in Workers, DoWork(w) PROVE AccInv'
<1>1. duty[w].at = "work" /\ Goes(w, Resting)
      /\ data' = data \cup {duty[w].user} /\ rest' = rest \cup {duty[w].user}
      /\ UNCHANGED <<live, row, gone, sessions, leaving, overlap>>
    BY DEF DoWork, Rests
<1>2. duty[w] \in Duties /\ duty[w].user \in Users /\ Resting.at = "resting"
    BY <1>1, HeldUser DEF AccInv, AccTypeOK, Resting
<1>3. /\ duty' \in [Workers -> Duties]
      /\ Known' /\ Exclusive' /\ LoginFresh' /\ HeldIsLive' /\ ScheduledWanted' /\ ListedWanted'
      /\ AloneIsAlone' /\ AloneMay'
    BY <1>1, <1>2, RestingIsPart, GoesOnStep
<1>4. AccTypeOK'
    BY <1>1, <1>2, <1>3 DEF AccTypeOK, AccInv
<1>5. DataErased' /\ RestErased'
    BY <1>1, <1>2, RestingIsPart, StoresKept
<1>6. SessionsCurrent'
    BY <1>1, <1>2, RestingIsPart, SessionsKept
<1> QED
    BY <1>3, <1>4, <1>5, <1>6 DEF AccInv

LEMMA EraseDataStep == ASSUME AccInv, NEW w \in Workers, EraseData(w) PROVE AccInv'
<1> DEFINE d == [duty[w] EXCEPT !.at = "erase sessions"]
<1>1. duty[w].at = "erase data" /\ Goes(w, d) /\ data' = data \ {duty[w].user}
      /\ UNCHANGED <<live, row, gone, sessions, rest, leaving, overlap>>
    BY DEF EraseData, Erased
<1>2. duty[w] \in Duties /\ duty[w].at \in ErasingAt \ {"erase rest"}
      /\ "erase sessions" \in ErasingAt
    BY <1>1 DEF AccInv, AccTypeOK, ErasingAt
<1>3. d \in Duties /\ PartOf(d, duty[w]) /\ d.at = "erase sessions" /\ d.user = duty[w].user
    BY <1>2, NextStore
<1> HIDE DEF d
<1>4. /\ duty' \in [Workers -> Duties]
      /\ Known' /\ Exclusive' /\ LoginFresh' /\ HeldIsLive' /\ ScheduledWanted' /\ ListedWanted'
      /\ AloneIsAlone' /\ AloneMay'
    BY <1>1, <1>3, GoesOnStep
<1>5. AccTypeOK'
    BY <1>1, <1>4 DEF AccTypeOK, AccInv
<1>6. DataErased' /\ RestErased'
    BY <1>1, <1>3, StoresKept
<1>7. SessionsCurrent'
    BY <1>1, <1>3, SessionsKept
<1> QED
    BY <1>4, <1>5, <1>6, <1>7 DEF AccInv

LEMMA EraseSessionsStep == ASSUME AccInv, NEW w \in Workers, EraseSessions(w) PROVE AccInv'
<1> DEFINE d == [duty[w] EXCEPT !.at = "erase row"]
<1>1. duty[w].at = "erase sessions" /\ Goes(w, d)
      /\ sessions' = sessions \ SessionsOf(duty[w].user)
      /\ UNCHANGED <<live, row, gone, data, rest, leaving, overlap>>
    BY DEF EraseSessions
<1>2. duty[w] \in Duties /\ duty[w].at \in ErasingAt \ {"erase rest"}
      /\ "erase row" \in ErasingAt
    BY <1>1 DEF AccInv, AccTypeOK, ErasingAt
<1>3. d \in Duties /\ PartOf(d, duty[w]) /\ d.at = "erase row" /\ d.user = duty[w].user
    BY <1>2, NextStore
<1> HIDE DEF d
<1>4. /\ duty' \in [Workers -> Duties]
      /\ Known' /\ Exclusive' /\ LoginFresh' /\ HeldIsLive' /\ ScheduledWanted' /\ ListedWanted'
      /\ AloneIsAlone' /\ AloneMay'
    BY <1>1, <1>3, GoesOnStep
<1>5. AccTypeOK'
    BY <1>1, <1>4 DEF AccTypeOK, AccInv
<1>6. duty[w].user \notin data \/ duty[w].user \in overlap
    BY <1>1 DEF AccInv, DataErased
<1>7. DataErased' /\ RestErased'
    BY <1>1, <1>3, <1>6, StoresKept
<1>8. SessionsCurrent'
    BY <1>1, <1>3, SessionsKept
<1> QED
    BY <1>4, <1>5, <1>7, <1>8 DEF AccInv

LEMMA EraseRestStep == ASSUME AccInv, NEW w \in Workers, EraseRest(w) PROVE AccInv'
<1> DEFINE d == Onward(duty[w].todo)
<1>1. duty[w].at = "erase rest" /\ Goes(w, d) /\ rest' = rest \ {duty[w].user}
      /\ UNCHANGED <<live, row, gone, sessions, data, leaving, overlap>>
    BY DEF EraseRest, Erased
<1>2. duty[w] \in [at : ErasingAt, user : Users, todo : SUBSET Users, alone : BOOLEAN]
    BY <1>1, DutyShape DEF AccInv, AccTypeOK, ErasingAt
<1>3. d \in Duties /\ d.at \in {"resting", "purge"}
      /\ \A x \in Users : Lists(d, x) => Lists(duty[w], x)
    BY <1>2, DutyTypes DEF Onward, Lists, Resting, ErasingAt
<1> HIDE DEF d
<1>4. PartOf(d, duty[w])
    BY <1>3 DEF PartOf, Holds, ErasingAt
<1>5. /\ duty' \in [Workers -> Duties] /\ duty'[w] = d
      /\ \A v \in Workers \ {w} : duty'[v] = duty[v]
      /\ Known' /\ Exclusive' /\ LoginFresh' /\ HeldIsLive' /\ ScheduledWanted' /\ ListedWanted'
      /\ AloneIsAlone' /\ AloneMay'
    BY <1>1, <1>3, <1>4, GoesOnStep
<1>6. AccTypeOK'
    BY <1>1, <1>5 DEF AccTypeOK, AccInv
<1>7. SessionsCurrent'
    BY <1>1, <1>3, SessionsKept
<1>8. DataErased'
    BY <1>1, <1>3, <1>5 DEF AccInv, DataErased
<1>9. RestErased'
  <2>1. ASSUME NEW x \in gone \cap rest', x \notin overlap
        PROVE  \E v \in Workers : duty'[v].at = "erase rest" /\ duty'[v].user = x
    <3>1. x \in gone \cap rest /\ x # duty[w].user
        BY <1>1, <2>1
    <3>2. PICK v \in Workers : duty[v].at = "erase rest" /\ duty[v].user = x
        BY <2>1, <3>1 DEF AccInv, RestErased
    <3> QED
        BY <1>5, <3>1, <3>2
  <2> QED
      BY <1>1, <2>1 DEF RestErased
<1> QED
    BY <1>5, <1>6, <1>7, <1>8, <1>9 DEF AccInv

LEMMA EraseRowStep == ASSUME AccInv, NEW w \in Workers, EraseRow(w) PROVE AccInv'
<1> USE DEF AccInv
<1> DEFINE u == duty[w].user
           d == [duty[w] EXCEPT !.at = "erase rest"]
<1>1. /\ duty[w].at = "erase row" /\ Goes(w, d)
      /\ live' = live \ {u} /\ gone' = gone \cup {u} /\ leaving' = leaving \ {u}
      /\ row' = [row EXCEPT ![u] = Member] /\ sessions' = sessions \ SessionsOf(u)
      /\ UNCHANGED <<data, rest, overlap>>
    BY DEF EraseRow
<1>2. duty[w] \in Duties /\ duty[w].at \in ErasingAt \ {"erase rest"}
      /\ "erase rest" \in ErasingAt
    BY <1>1 DEF AccTypeOK, ErasingAt
<1>3. d \in Duties /\ PartOf(d, duty[w]) /\ d.at = "erase rest" /\ d.user = u
    BY <1>2, NextStore
<1> HIDE DEF d
<1>4. u \in Users /\ Holds(duty[w], u)
    BY <1>1, HeldUser
<1>5. duty' \in [Workers -> Duties] /\ duty'[w] = d /\ \A v \in Workers \ {w} : duty'[v] = duty[v]
    BY <1>1, <1>3 DEF Goes, AccTypeOK
<1>6. row' \in [Users -> Rows] /\ \A x \in Users \ {u} : row'[x] = row[x]
    BY <1>1, <1>4, RowTypes DEF AccTypeOK
<1>7. AccTypeOK'
    BY <1>1, <1>4, <1>5, <1>6 DEF AccTypeOK, SessionsOf
<1>8. \A x \in Users : (Holds(d, x) => Holds(duty[w], x)) /\ (Lists(d, x) => Lists(duty[w], x))
    BY <1>3 DEF PartOf
<1>9. Known'
    BY <1>1, <1>5, <1>8, WorksOnIs DEF Known
<1>10. Exclusive'
    BY <1>1, <1>5, <1>8 DEF Exclusive
<1>11. LoginFresh'
  <2>1. ASSUME NEW v \in Workers, duty'[v].at = "login"
        PROVE  duty'[v].user \in overlap' \cup gone' \/ duty'[v].era = row'[duty'[v].user].era
    <3>1. duty'[v] = duty[v]
        BY <1>3, <1>5, <2>1
    <3>2. duty[v].user \in Users
        BY <2>1, <3>1, HeldUser
    <3> QED
        BY <1>1, <1>6, <2>1, <3>1, <3>2 DEF LoginFresh
  <2> QED
      BY <2>1 DEF LoginFresh
<1>12. SessionsCurrent'
  <2>1. ASSUME NEW s \in sessions' PROVE row'[s[1]].era = row[s[1]].era
      BY <1>1, <1>6 DEF AccTypeOK, SessionsOf
  <2> QED
      BY <1>1, <1>3, <2>1, SessionsKept
<1>13. HeldIsLive'
    BY <1>1, <1>3, <1>4, <1>5, <1>8 DEF HeldIsLive, Exclusive
<1>14. DataErased'
  <2>1. u \notin data \/ u \in overlap
      BY <1>1 DEF DataErased
  <2> QED
      BY <1>1, <1>3, <1>5, <2>1 DEF DataErased
<1>15. RestErased'
  <2>1. ASSUME NEW x \in gone' \cap rest', x \notin overlap
        PROVE  \E v \in Workers : duty'[v].at = "erase rest" /\ duty'[v].user = x
    <3>1. CASE x = u
        BY <1>3, <1>5, <3>1
    <3>2. CASE x # u
      <4>1. PICK v \in Workers : duty[v].at = "erase rest" /\ duty[v].user = x
          BY <1>1, <2>1, <3>2 DEF RestErased
      <4> QED
          BY <1>1, <1>5, <4>1
    <3> QED
        BY <3>1, <3>2
  <2> QED
      BY <1>1, <2>1 DEF RestErased
<1>16. ScheduledWanted'
    BY <1>1, <1>6 DEF ScheduledWanted, AccTypeOK
<1>17. ListedWanted'
    BY <1>1, <1>5, <1>8 DEF ListedWanted, AccTypeOK
<1>18. AloneIsAlone'
    BY <1>2, <1>3, <1>5 DEF AloneIsAlone, Changing, PartOf
<1>19. AloneMay'
  <2>1. ASSUME NEW v \in Workers \ {w} PROVE Changing(duty'[v]) => ~duty'[v].alone
      BY <1>2, <1>5 DEF AloneIsAlone, Changing
  <2>2. MayStill(duty[w])'
      BY <1>3, <1>5 DEF MayStill
  <2>3. ASSUME NEW v \in Workers \ {w} PROVE MayStill(duty[v])'
      BY <2>1 DEF MayStill, Changing
  <2> QED
      BY <2>2, <2>3 DEF AloneMay
<1> QED
    BY <1>7, <1>9, <1>10, <1>11, <1>12, <1>13, <1>14, <1>15, <1>16, <1>17, <1>18, <1>19

-----------------------------------------------------------------------------
(* Leaving. *)

\* What a change of the request for deletion leaves alone.
LEMMA DeletionOnly ==
    ASSUME AccTypeOK, NEW u \in Users, NEW st \in {"none", "asked", "scheduled"},
           SetDeletion(u, st), live' = live
    PROVE  /\ row' \in [Users -> Rows] /\ row'[u].deletion = st
           /\ \A x \in Users : /\ row'[x].era = row[x].era
                               /\ x # u => row'[x] = row[x]
           /\ ActiveAdmins' = ActiveAdmins
<1>1. row' = [row EXCEPT ![u] = [row[u] EXCEPT !.deletion = st]]
    BY DEF SetDeletion, AccTypeOK
<1>2. row[u] \in Rows
    BY DEF AccTypeOK
<1> DEFINE r == [row[u] EXCEPT !.deletion = st]
<1>3. r \in Rows /\ r.deletion = st /\ r.era = row[u].era /\ r.admin = row[u].admin
      /\ r.active = row[u].active
    BY <1>2, RowTypes
<1> HIDE DEF r
<1>4. row' \in [Users -> Rows] /\ row'[u] = r /\ \A x \in Users \ {u} : row'[x] = row[x]
    BY <1>1, <1>3 DEF r, AccTypeOK
<1>5. ActiveAdmins' = ActiveAdmins
    BY <1>3, <1>4 DEF ActiveAdmins, AccTypeOK
<1> QED
    BY <1>3, <1>4, <1>5

\* Asking for a deletion, or cancelling it, at once.
LEMMA DeletionStep ==
    ASSUME AccInv, NEW u \in Users, NEW st \in {"none", "asked"}, SetDeletion(u, st),
           leaving' = leaving \ {u}, overlap' = Overlapping(u),
           UNCHANGED <<live, gone, sessions, data, rest, duty>>
    PROVE  AccInv'
<1> USE DEF AccInv
<1>1. /\ row' \in [Users -> Rows] /\ row'[u].deletion = st
      /\ \A x \in Users : /\ row'[x].era = row[x].era
                          /\ x # u => row'[x] = row[x]
      /\ ActiveAdmins' = ActiveAdmins
    BY DeletionOnly
<1>2. overlap \subseteq overlap' /\ overlap' \subseteq Users /\ (Busy(u) => u \in overlap')
    BY DEF Overlapping, AccTypeOK
<1>3. AccTypeOK'
    BY <1>1, <1>2 DEF AccTypeOK
<1>4. Known' /\ Exclusive' /\ HeldIsLive' /\ AloneIsAlone'
    BY <1>2 DEF Known, Exclusive, HeldIsLive, AloneIsAlone
<1>5. LoginFresh'
  <2>1. \A v \in Workers : duty[v].at = "login" => duty[v].user \in Users
      BY HeldUser
  <2> QED
      BY <1>1, <1>2, <2>1 DEF LoginFresh
<1>6. SessionsCurrent'
    BY <1>1, <1>2 DEF SessionsCurrent, AccTypeOK
<1>7. DataErased' /\ RestErased'
    BY <1>2 DEF DataErased, RestErased
<1>8. ScheduledWanted'
    BY <1>1, <1>2 DEF ScheduledWanted, AccTypeOK
<1>9. ListedWanted'
  <2>1. \A v \in Workers : Lists(duty[v], u) => u \in overlap'
      BY <1>2 DEF Busy, WorksOn, Lists
  <2> QED
      BY <1>2, <2>1 DEF ListedWanted, AccTypeOK
<1>10. AloneMay'
    BY <1>1, StillMay DEF AloneMay
<1> QED
    BY <1>3, <1>4, <1>5, <1>6, <1>7, <1>8, <1>9, <1>10

LEMMA DoConfirmStep == ASSUME AccInv, NEW w \in Workers, DoConfirm(w) PROVE AccInv'
<1> USE DEF AccInv
<1> DEFINE u == duty[w].user
<1>1. duty[w].at = "confirm" /\ Goes(w, Resting)
      /\ UNCHANGED <<live, gone, sessions, data, rest, overlap>>
    BY DEF DoConfirm, Rests
<1>2. u \in Users /\ Resting \in Duties /\ Resting.at = "resting" /\ duty[w] \in Duties
    BY <1>1, HeldUser, DutyTypes DEF Resting, AccTypeOK
<1>3. CASE u \notin live
  <2>1. UNCHANGED <<row, leaving>>
      BY <1>3 DEF DoConfirm
  <2> QED
      BY <1>1, <1>2, <2>1, GoesStep DEF Lists, ErasingAt, AccTypeOK
<1>4. CASE u \in live
  <2>1. SetDeletion(u, "scheduled") /\ leaving' = leaving \cup {u}
      BY <1>4 DEF DoConfirm
  <2>2. /\ row' \in [Users -> Rows]
        /\ \A x \in Users : /\ row'[x].era = row[x].era
                            /\ x # u => row'[x] = row[x]
        /\ ActiveAdmins' = ActiveAdmins
      BY <1>1, <1>2, <2>1, DeletionOnly
  <2>3. duty' \in [Workers -> Duties] /\ duty'[w] = Resting
        /\ \A v \in Workers \ {w} : duty'[v] = duty[v]
      BY <1>1, <1>2 DEF Goes, AccTypeOK
  <2>4. AccTypeOK'
      BY <1>1, <1>4, <2>1, <2>2, <2>3 DEF AccTypeOK
  <2>5. \A x \in Users : ~Holds(Resting, x) /\ ~Lists(Resting, x) /\ ~WorksOn(Resting, x)
      BY <1>2 DEF Holds, Lists, WorksOn, ErasingAt
  <2>6. Known' /\ Exclusive' /\ HeldIsLive'
      BY <1>1, <2>3, <2>5 DEF Known, Exclusive, HeldIsLive, AccTypeOK
  <2>7. AloneIsAlone'
      BY <1>2, <2>3 DEF AloneIsAlone, Changing, ErasingAt
  <2>8. LoginFresh'
    <3>1. \A v \in Workers : duty[v].at = "login" => duty[v].user \in Users
        BY HeldUser
    <3> QED
        BY <1>1, <1>2, <2>2, <2>3, <3>1 DEF LoginFresh
  <2>9. SessionsCurrent'
    <3>1. \A s \in sessions' : row'[s[1]].era = row[s[1]].era
        BY <1>1, <2>2 DEF AccTypeOK
    <3> QED
        BY <1>1, <1>2, <3>1, SessionsKept
  <2>10. DataErased' /\ RestErased'
      BY <1>1, <1>2, StoresKept
  <2>11. ScheduledWanted'
      BY <1>1, <2>1, <2>2 DEF ScheduledWanted, AccTypeOK
  <2>12. ListedWanted'
      BY <1>1, <2>1, <2>3, <2>5 DEF ListedWanted, AccTypeOK
  <2>13. AloneMay'
    <3>1. MayStill(duty[w])'
        BY <1>2, <2>3 DEF MayStill, ErasingAt
    <3>2. ASSUME NEW v \in Workers \ {w} PROVE MayStill(duty[v])'
        BY <1>1, <2>2, <2>3, StillMay DEF AloneMay
    <3> QED
        BY <3>1, <3>2 DEF AloneMay
  <2> QED
      BY <2>4, <2>6, <2>7, <2>8, <2>9, <2>10, <2>11, <2>12, <2>13
<1> QED
    BY <1>3, <1>4

LEMMA LogoutStep == ASSUME AccInv, NEW u \in Users, Logout(u) PROVE AccInv'
<1> USE DEF AccInv
<1>1. sessions' \subseteq sessions
      /\ UNCHANGED <<live, row, gone, data, rest, duty, leaving, overlap>>
    BY DEF Logout
<1>2. AccTypeOK' /\ SessionsCurrent'
    BY <1>1 DEF AccTypeOK, SessionsCurrent
<1>3. Known' /\ Exclusive' /\ LoginFresh' /\ HeldIsLive' /\ DataErased' /\ RestErased'
    BY <1>1 DEF Known, Exclusive, LoginFresh, HeldIsLive, DataErased, RestErased
<1>4. ScheduledWanted' /\ ListedWanted' /\ AloneIsAlone'
    BY <1>1 DEF ScheduledWanted, ListedWanted, AloneIsAlone
<1>5. AloneMay'
  <2>1. ActiveAdmins' = ActiveAdmins
      BY <1>1 DEF ActiveAdmins
  <2> QED
      BY <1>1, <2>1, StillMay DEF AloneMay
<1> QED
    BY <1>2, <1>3, <1>4, <1>5

\* The server has died with whatever its threads were doing.
LEMMA RestartStep == ASSUME AccInv, AccRestart PROVE AccInv'
<1> USE DEF AccInv
<1>1. /\ \A w \in Workers : duty'[w] = Resting
      /\ duty' \in [Workers -> Duties] /\ Resting.at = "resting"
      /\ overlap' = overlap \cup {u \in Users : Busy(u)}
      /\ UNCHANGED <<live, gone, sessions, data, rest, leaving>>
    BY DutyTypes DEF AccRestart, Resting
<1>2. row' \in [Users -> Rows]
      /\ \A x \in Users : row'[x].era = row[x].era /\ row'[x].deletion = row[x].deletion
  <2>1. CASE row' = row
      BY <2>1 DEF AccTypeOK
  <2>2. CASE row' # row
    <3>1. PICK u \in live : row' = [row EXCEPT ![u].admin = TRUE, ![u].active = TRUE]
        BY <2>2 DEF AccRestart
    <3> DEFINE r == [row[u] EXCEPT !.admin = TRUE, !.active = TRUE]
    <3>2. row[u] \in Rows /\ u \in Users
        BY DEF AccTypeOK
    <3>3. r \in Rows /\ r.era = row[u].era /\ r.deletion = row[u].deletion
        BY <3>2 DEF Rows
    <3>4. row' = [row EXCEPT ![u] = r]
        BY <3>1, <3>2 DEF AccTypeOK
    <3> HIDE DEF r
    <3> QED
        BY <3>2, <3>3, <3>4 DEF AccTypeOK
  <2> QED
      BY <2>1, <2>2
<1>3. AccTypeOK'
    BY <1>1, <1>2 DEF AccTypeOK
<1>4. \A w \in Workers, u \in Users : Holds(duty[w], u) => u \in overlap'
    BY <1>1 DEF Busy, WorksOn, Holds
<1>5. Known' /\ Exclusive' /\ HeldIsLive' /\ ListedWanted'
    BY <1>1 DEF Known, Exclusive, HeldIsLive, ListedWanted, WorksOn, Holds, Lists, ErasingAt
<1>6. LoginFresh' /\ AloneIsAlone' /\ AloneMay'
    BY <1>1 DEF LoginFresh, AloneIsAlone, AloneMay, MayStill, Changing, ErasingAt
<1>7. SessionsCurrent'
  <2>1. ASSUME NEW s \in sessions, s[2] # row[s[1]].era PROVE s[1] \in overlap'
    <3>1. CASE s[1] \in overlap
        BY <1>1, <3>1
    <3>2. CASE s[1] \notin overlap
      <4>1. PICK w \in Workers : duty[w].at = "revoke" /\ duty[w].user = s[1]
          BY <2>1, <3>2 DEF SessionsCurrent
      <4> QED
          BY <1>4, <4>1, HeldUser
    <3> QED
        BY <3>1, <3>2
  <2> QED
      BY <1>1, <1>2, <2>1 DEF SessionsCurrent, AccTypeOK
<1>8. DataErased'
    BY <1>1 DEF DataErased
<1>9. RestErased'
  <2>1. ASSUME NEW x \in gone \cap rest PROVE x \in overlap'
    <3>1. CASE x \in overlap
        BY <1>1, <3>1
    <3>2. CASE x \notin overlap
      <4>1. PICK w \in Workers : duty[w].at = "erase rest" /\ duty[w].user = x
          BY <3>2 DEF RestErased
      <4> QED
          BY <1>4, <4>1, HeldUser
    <3> QED
        BY <3>1, <3>2
  <2> QED
      BY <1>1, <2>1 DEF RestErased
<1>10. ScheduledWanted'
    BY <1>1, <1>2 DEF ScheduledWanted, AccTypeOK
<1> QED
    BY <1>3, <1>5, <1>6, <1>7, <1>8, <1>9, <1>10

-----------------------------------------------------------------------------
(* Every step. *)

LEMMA AccStep == AccInv /\ [AccNext]_accVars => AccInv'
<1> SUFFICES ASSUME AccInv, [AccNext]_accVars PROVE AccInv'
    OBVIOUS
<1>1. CASE UNCHANGED accVars
  <2> USE <1>1 DEF AccInv, accVars
  <2>1. AccTypeOK' /\ Known' /\ Exclusive' /\ LoginFresh' /\ SessionsCurrent' /\ HeldIsLive'
      BY DEF AccTypeOK, Known, Exclusive, LoginFresh, SessionsCurrent, HeldIsLive
  <2>2. DataErased' /\ RestErased' /\ ScheduledWanted' /\ ListedWanted' /\ AloneIsAlone'
      BY DEF DataErased, RestErased, ScheduledWanted, ListedWanted, AloneIsAlone
  <2>3. AloneMay'
    <3>1. ActiveAdmins' = ActiveAdmins
        BY DEF ActiveAdmins
    <3> QED
        BY <3>1, StillMay DEF AloneMay
  <2> QED
      BY <2>1, <2>2, <2>3
<1>2. ASSUME NEW u \in Users, CreateUser(u) PROVE AccInv'
    BY <1>2, CreateStep
<1>3. ASSUME NEW u \in Users, AskDeletion(u) PROVE AccInv'
    BY <1>3, DeletionStep DEF AskDeletion
<1>4. ASSUME NEW u \in Users, CancelDeletion(u) PROVE AccInv'
    BY <1>4, DeletionStep DEF CancelDeletion, Cancelled
<1>5. ASSUME NEW u \in Users, Logout(u) PROVE AccInv'
    BY <1>5, LogoutStep
<1>6. ASSUME NEW w \in Workers, NEW u \in Users, NEW what \in Changes, BeginUpdate(w, u, what)
      PROVE  AccInv'
    BY <1>6, BeginUpdateStep
<1>7. ASSUME NEW w \in Workers, NEW u \in Users, BeginErase(w, u) PROVE AccInv'
    BY <1>7, BeginEraseStep
<1>8. ASSUME NEW w \in Workers, NEW u \in Users, BeginLogin(w, u) PROVE AccInv'
  <2>1. row[u].era \in Eras
      BY DEF AccInv, AccTypeOK, Rows
  <2> DEFINE d == [at |-> "login", user |-> u, era |-> row[u].era]
  <2>2. d \in Duties /\ d.at = "login" /\ d.user = u /\ d.era = row[u].era
      BY <2>1, DutyTypes
  <2>3. Enters(w, u, d)
      BY <1>8 DEF BeginLogin
  <2> HIDE DEF d
  <2> QED
      BY <2>2, <2>3, BeginStep
<1>9. ASSUME NEW w \in Workers, NEW u \in Users, BeginWork(w, u) PROVE AccInv'
  <2> DEFINE d == [at |-> "work", user |-> u]
  <2>1. d \in Duties /\ d.at = "work" /\ d.user = u
      BY DutyTypes
  <2>2. Enters(w, u, d)
      BY <1>9 DEF BeginWork
  <2> HIDE DEF d
  <2> QED
      BY <2>1, <2>2, BeginStep
<1>10. ASSUME NEW w \in Workers, NEW u \in Users, BeginConfirm(w, u) PROVE AccInv'
  <2> DEFINE d == [at |-> "confirm", user |-> u]
  <2>1. d \in Duties /\ d.at = "confirm" /\ d.user = u
      BY DutyTypes
  <2>2. Enters(w, u, d)
      BY <1>10 DEF BeginConfirm
  <2> HIDE DEF d
  <2> QED
      BY <2>1, <2>2, BeginStep
<1>11. ASSUME NEW w \in Workers, NEW u \in Users, PurgeNext(w, u) PROVE AccInv'
    BY <1>11, PurgeNextStep
<1>12. ASSUME NEW w \in Workers,
              \/ WriteUser(w) \/ Revoke(w) \/ OpenSession(w) \/ DoWork(w) \/ DoConfirm(w)
              \/ PurgeStarts(w)
       PROVE  AccInv'
    BY <1>12, WriteUserStep, RevokeStep, OpenSessionStep, DoWorkStep, DoConfirmStep,
       PurgeStartsStep
<1>13. ASSUME NEW w \in Workers,
              \/ EraseData(w) \/ EraseSessions(w) \/ EraseRow(w) \/ EraseRest(w)
              \/ EraseFails(w)
       PROVE  AccInv'
    BY <1>13, EraseDataStep, EraseSessionsStep, EraseRowStep, EraseRestStep, EraseFailsStep
<1>14. CASE AccRestart
    BY <1>14, RestartStep
<1> QED
    BY <1>1, <1>2, <1>3, <1>4, <1>5, <1>6, <1>7, <1>8, <1>9, <1>10, <1>11, <1>12, <1>13, <1>14
    DEF AccNext

LEMMA AccInvariant == AccSpec => []AccInv
<1>1. AccInit => AccInv
    BY InitAccounts
<1>2. AccInv /\ [AccNext]_accVars => AccInv'
    BY AccStep
<1> QED
    BY <1>1, <1>2, PTL DEF AccSpec

-----------------------------------------------------------------------------
(* What follows for the accounts. *)

\* Rows, sessions and requests under way stay well formed; a session always
\* belongs to an account that exists.
THEOREM AccountsTyped == AccSpec => []AccTypeOK
<1>1. AccInv => AccTypeOK
    BY DEF AccInv
<1> QED
    BY <1>1, AccInvariant, PTL

\* After a change of role or password no earlier session is left, unless a
\* login or another request for the account ran meanwhile.
THEOREM SessionsEnded == AccSpec => []SessionsEnd
<1>1. AccInv => SessionsEnd
    BY DEF AccInv, SessionsEnd, SessionsCurrent, Quiescent, Resting
<1> QED
    BY <1>1, AccInvariant, PTL

\* An erased account has left nothing in any store, unless a request of its
\* user overlapped the erasure or the erasure failed midway.
THEOREM ErasedForGood == AccSpec => []ErasedLeavesNothing
<1>1. AccInv => ErasedLeavesNothing
  <2> SUFFICES ASSUME AccInv, Quiescent, NEW u \in gone \cap (data \cup rest) PROVE u \in overlap
      BY DEF ErasedLeavesNothing
  <2>1. CASE u \in data
      BY <2>1 DEF AccInv, DataErased
  <2>2. CASE u \in rest
    <3>1. \A w \in Workers : duty[w].at # "erase rest"
      <4>1. Resting.at = "resting"
          BY DEF Resting
      <4> QED
          BY <4>1 DEF Quiescent
    <3> QED
        BY <2>2, <3>1, Zenon DEF AccInv, RestErased
  <2> QED
      BY <2>1, <2>2
<1> QED
    BY <1>1, AccInvariant, PTL

\* One change of an account at a time leaves an administrator.
LEMMA AdminStep ==
    ASSUME AccInv, [AccNext]_accVars, ActiveAdmins # {}, live' # {}, ActiveAdmins' = {}
    PROVE  \E w \in Workers : Changing(duty[w]) /\ ~duty[w].alone
<1> USE DEF AccInv
<1>1. ASSUME live' = live, row' = row PROVE FALSE
    BY <1>1 DEF ActiveAdmins
<1>2. ASSUME NEW u \in Users, CreateUser(u) PROVE FALSE
  <2>1. \A x \in live : row'[x] = row[x]
      BY <1>2 DEF CreateUser, AccTypeOK
  <2> QED
      BY <1>2, <2>1 DEF CreateUser, ActiveAdmins
<1>3. ASSUME NEW u \in Users, AskDeletion(u) \/ CancelDeletion(u) PROVE FALSE
    BY <1>3, DeletionOnly DEF AskDeletion, CancelDeletion, Cancelled
<1>4. ASSUME NEW w \in Workers, DoConfirm(w) PROVE FALSE
  <2>1. duty[w].user \in Users
      BY <1>4, HeldUser DEF DoConfirm
  <2> QED
      BY <1>1, <1>4, <2>1, DeletionOnly DEF DoConfirm
<1>5. ASSUME NEW w \in Workers, WriteUser(w)
      PROVE  Changing(duty[w]) /\ ~duty[w].alone
  <2> DEFINE u == duty[w].user
  <2>1. duty[w] \in [at : {"update"}, user : Users, new : Standing, ends : BOOLEAN, alone : BOOLEAN]
      BY <1>5, DutyShape DEF WriteUser, AccTypeOK
  <2>2. SUFFICES ASSUME duty[w].alone PROVE FALSE
      BY <2>1 DEF Changing
  <2>3. u \in live /\ MayBecome(u, duty[w].new)
      BY <2>1, <2>2 DEF AloneMay, MayStill
  <2>4. row[u] \in Rows /\ u \in Users
      BY <2>1 DEF AccTypeOK
  <2>5. row' = [row EXCEPT ![u] = Updated(row[u], duty[w])] /\ live' = live
      BY <1>5, <2>3 DEF WriteUser
  <2>6. row'[u].admin = duty[w].new.admin /\ row'[u].active = duty[w].new.active
      BY <2>1, <2>4, <2>5, UpdatedType DEF AccTypeOK
  <2>7. CASE ActiveAdmins = {u}
      BY <2>3, <2>5, <2>6, <2>7 DEF MayBecome, ActiveAdmins
  <2>8. CASE ActiveAdmins # {u}
    <3>1. PICK x \in ActiveAdmins : x # u
        BY <2>8
    <3>2. row'[x] = row[x]
        BY <2>5, <3>1 DEF ActiveAdmins, AccTypeOK
    <3> QED
        BY <2>5, <3>1, <3>2 DEF ActiveAdmins
  <2> QED
      BY <2>7, <2>8
<1>6. ASSUME NEW w \in Workers, EraseRow(w)
      PROVE  Changing(duty[w]) /\ ~duty[w].alone
  <2> DEFINE u == duty[w].user
  <2>1. duty[w].at = "erase row" /\ duty[w].at \in ErasingAt \ {"erase rest"}
      BY <1>6 DEF EraseRow, ErasingAt
  <2>2. SUFFICES ASSUME duty[w].alone PROVE FALSE
      BY <2>1 DEF Changing
  <2>3. u \in live /\ MayBecome(u, NoRow) /\ ~NoRow.active
      BY <2>1, <2>2 DEF AloneMay, MayStill, NoRow, Member
  <2>4. ActiveAdmins # {u}
      BY <2>3 DEF MayBecome
  <2>5. PICK x \in ActiveAdmins : x # u
      BY <2>4
  <2>6. x \in live' /\ row'[x] = row[x]
      BY <1>6, <2>5 DEF EraseRow, ActiveAdmins, AccTypeOK
  <2> QED
      BY <2>5, <2>6 DEF ActiveAdmins
<1>7. CASE AccRestart
    BY <1>1, <1>7 DEF AccRestart
<1>8. ASSUME NEW w \in Workers, NEW u \in Users,
             \/ \E what \in Changes : BeginUpdate(w, u, what)
             \/ BeginErase(w, u) \/ BeginLogin(w, u) \/ BeginWork(w, u) \/ BeginConfirm(w, u)
             \/ PurgeNext(w, u)
      PROVE  FALSE
    BY <1>1, <1>8 DEF BeginUpdate, BeginErase, BeginLogin, BeginWork, BeginConfirm, Enters, PurgeNext
<1>9. ASSUME NEW w \in Workers,
             \/ Revoke(w) \/ OpenSession(w) \/ DoWork(w) \/ PurgeStarts(w)
             \/ EraseData(w) \/ EraseSessions(w) \/ EraseRest(w) \/ EraseFails(w)
      PROVE  FALSE
    BY <1>1, <1>9 DEF Revoke, OpenSession, DoWork, PurgeStarts, EraseData, EraseSessions,
       EraseRest, EraseFails
<1>10. ASSUME NEW u \in Users, Logout(u) PROVE FALSE
    BY <1>1, <1>10 DEF Logout
<1>11. CASE UNCHANGED accVars
    BY <1>1, <1>11 DEF accVars
<1> QED
    BY <1>2, <1>3, <1>4, <1>5, <1>6, <1>7, <1>8, <1>9, <1>10, <1>11 DEF AccNext

\* Demotions, deactivations, deletions and the purge leave an administrator,
\* unless two of them overlap.
THEOREM AdministratorRemains == AccSpec => AdminRemains
<1>1. AccInv /\ [AccNext]_accVars =>
        [ActiveAdmins # {} /\ live' # {} /\ ActiveAdmins' = {} =>
            \E w \in Workers : Changing(duty[w]) /\ ~duty[w].alone]_accVars
    BY AdminStep
<1> QED
    BY <1>1, AccInvariant, PTL DEF AccSpec, AdminRemains

\* Only the purge takes a worker from its list to the first store.
LEMMA GraceStep ==
    ASSUME AccInv, [AccNext]_accVars, NEW w \in Workers,
           duty[w].at = "purge", duty'[w].at = "erase data"
    PROVE  duty'[w].user \in leaving \cup overlap
<1> USE DEF AccInv
<1>0. Resting.at = "resting"
    BY DEF Resting
<1>1. duty'[w] # duty[w]
    OBVIOUS
<1>2. ASSUME NEW v \in Workers, NEW d, v # w, Starts(v, d) PROVE FALSE
    BY <1>1, <1>2 DEF Starts, Changing, ErasingAt
<1>3. ASSUME NEW v \in Workers, NEW d, d.at # "erase data" \/ v # w, Goes(v, d) PROVE FALSE
    BY <1>1, <1>3 DEF Goes, AccTypeOK
<1>4. ASSUME NEW u \in Users, PurgeNext(w, u)
      PROVE  duty'[w].user \in leaving \cup overlap
  <2> DEFINE todo == duty[w].todo \ {u}
  <2>1. u \in live /\ MayBecome(u, NoRow)
    <3>1. Onward(todo).at # "erase data"
        BY DEF Onward, Resting
    <3>2. ~(u \in live /\ MayBecome(u, NoRow)) => Goes(w, Onward(todo))
        BY <1>4 DEF PurgeNext
    <3> QED
        BY <1>3, <3>1, <3>2
  <2>2. Starts(w, Erasing(u, todo))
      BY <1>4, <2>1 DEF PurgeNext
  <2>3. duty'[w].user = u
      BY <2>2 DEF Starts, Erasing
  <2>4. Lists(duty[w], u)
      BY <1>4 DEF PurgeNext, Lists
  <2> QED
      BY <2>1, <2>3, <2>4 DEF ListedWanted
<1>5. ASSUME NEW v \in Workers, v # w, NEW u \in Users, PurgeNext(v, u) PROVE FALSE
    BY <1>2, <1>3, <1>5 DEF PurgeNext
<1>6. ASSUME NEW v \in Workers, NEW u \in Users,
             \/ \E what \in Changes : BeginUpdate(v, u, what)
             \/ BeginErase(v, u)
      PROVE  FALSE
  <2>1. v # w
      BY <1>0, <1>6 DEF BeginUpdate, BeginErase
  <2> QED
      BY <1>2, <1>6, <2>1 DEF BeginUpdate, BeginErase
<1>7. ASSUME NEW v \in Workers, NEW u \in Users,
             BeginLogin(v, u) \/ BeginWork(v, u) \/ BeginConfirm(v, u)
      PROVE  FALSE
  <2>1. v # w
      BY <1>0, <1>7 DEF BeginLogin, BeginWork, BeginConfirm, Enters
  <2>2. \E d : duty' = [duty EXCEPT ![v] = d]
      BY <1>7 DEF BeginLogin, BeginWork, BeginConfirm, Enters
  <2> QED
      BY <1>1, <2>1, <2>2 DEF AccTypeOK
<1>8. ASSUME NEW v \in Workers,
             \/ WriteUser(v) \/ Revoke(v) \/ OpenSession(v) \/ DoWork(v) \/ DoConfirm(v)
             \/ PurgeStarts(v)
             \/ EraseData(v) \/ EraseSessions(v) \/ EraseRow(v) \/ EraseRest(v) \/ EraseFails(v)
      PROVE  FALSE
  <2>1. v # w
      BY <1>0, <1>8 DEF WriteUser, Revoke, OpenSession, DoWork, DoConfirm, PurgeStarts,
         EraseData, EraseSessions, EraseRow, EraseRest, EraseFails, ErasingAt
  <2>2. \E d : duty' = [duty EXCEPT ![v] = d]
      BY <1>8 DEF WriteUser, Revoke, OpenSession, DoWork, DoConfirm, PurgeStarts, Goes, Rests,
         EraseData, EraseSessions, EraseRow, EraseRest, EraseFails
  <2> QED
      BY <1>1, <2>1, <2>2 DEF AccTypeOK
<1>9. ASSUME NEW u \in Users,
             CreateUser(u) \/ AskDeletion(u) \/ CancelDeletion(u) \/ Logout(u)
      PROVE  FALSE
    BY <1>1, <1>9 DEF CreateUser, AskDeletion, CancelDeletion, Logout
<1>10. CASE AccRestart
    BY <1>10 DEF AccRestart, Resting
<1>11. CASE UNCHANGED accVars
    BY <1>1, <1>11 DEF accVars
<1> QED
    BY <1>4, <1>5, <1>6, <1>7, <1>8, <1>9, <1>10, <1>11 DEF AccNext

\* Nobody is erased by the purge who has not confirmed, or who has cancelled
\* or asked again since; unless they did so while the purge had its list.
THEOREM GraceIsHonoured == AccSpec => GraceHonoured
<1>1. AccInv /\ [AccNext]_accVars =>
        [\A w \in Workers :
            duty[w].at = "purge" /\ duty'[w].at = "erase data" =>
               duty'[w].user \in leaving \cup overlap]_accVars
    BY GraceStep
<1> QED
    BY <1>1, AccInvariant, PTL DEF AccSpec, GraceHonoured
-----------------------------------------------------------------------------
(* The budget of failed logins *)

\* An attempt whose slot nobody has forgiven.
Counting(a) == InFlight(a) /\ attempt[a].counts

\* Failures, open codes and the attempts that count have slots of their own.
Apart ==
    /\ failed \subseteq slots /\ codesOpen \subseteq slots /\ failed \cap codesOpen = {}
    /\ \A a \in Attempts : Counting(a) => attempt[a].slot \in slots \ (failed \cup codesOpen)
    /\ \A a, b \in Attempts :
          a # b /\ Counting(a) /\ Counting(b) => attempt[a].slot # attempt[b].slot

\* Between its refund and its clear a success leaves slots behind that are
\* nobody's; at any other time every slot has its reason.
Explained ==
    ~Refunding => \A s \in slots \ (failed \cup codesOpen) :
                      \E a \in Attempts : Counting(a) /\ attempt[a].slot = s

\* Every call that was granted has a slot of its own.
MailsApart ==
    /\ IsFiniteSet(asked) /\ Cardinality(asked) <= LoginCap
    /\ \A r \in answered : r.slot \in asked
    /\ \A q, r \in answered : q.slot = r.slot => q = r

LimitsInv == /\ LimTypeOK /\ ~shut
             /\ IsFiniteSet(slots) /\ Cardinality(slots) <= LoginCap
             /\ Apart /\ Explained /\ MailsApart

LEMMA CapIsNat ==
    /\ LoginCap \in Nat /\ Cardinality(Attempts) \in Nat /\ WindowAge \in Nat \ {0}
    /\ MaxOpenCodes \in Nat /\ 0 \in Ages
    /\ IsFiniteSet(Numbers) /\ Cardinality(Numbers) = LoginCap + Cardinality(Attempts)
<1>1. LoginCap \in Nat /\ Cardinality(Attempts) \in Nat /\ WindowAge \in Nat \ {0}
      /\ MaxOpenCodes \in Nat
    BY LimitsAssumption, FS_CardinalityType
<1>2. 0 \in Ages
    BY <1>1 DEF Ages
<1>3. PICK n \in Nat : n = LoginCap + Cardinality(Attempts)
    BY <1>1
<1>4. IsFiniteSet(1..n) /\ Cardinality(1..n) = n
    BY FS_Interval
<1> QED
    BY <1>1, <1>2, <1>3, <1>4 DEF Numbers

LEMMA SlotShape ==
    /\ \A s \in Slots : /\ s.nr \in Numbers /\ s.age \in Ages
                        /\ s = [nr |-> s.nr, age |-> s.age]
    /\ \A n \in Numbers, k \in Ages : [nr |-> n, age |-> k] \in Slots
    BY DEF Slots

\* As long as fewer slots are in use than there are numbers, a new one is told
\* from all of them.
LEMMA NewSlotIsNew ==
    ASSUME NEW U \in SUBSET Slots, IsFiniteSet(U), Cardinality(U) < Cardinality(Numbers)
    PROVE  NewSlot(U) \in Slots /\ NewSlot(U) \notin U
<1> DEFINE f == [s \in U |-> s.nr]
<1> DEFINE T == {s.nr : s \in U}
<1>1. f \in Surjection(U, T)
    BY DEF Surjection
<1>2. IsFiniteSet(T) /\ Cardinality(T) <= Cardinality(U)
    BY <1>1, FS_Surjection
<1>3. ~(Numbers \subseteq T)
  <2>1. SUFFICES ASSUME Numbers \in SUBSET T PROVE FALSE
      OBVIOUS
  <2>2. Cardinality(Numbers) <= Cardinality(T)
      BY <1>2, <2>1, FS_Subset
  <2>3. Cardinality(T) \in Nat /\ Cardinality(U) \in Nat /\ Cardinality(Numbers) \in Nat
      BY <1>2, CapIsNat, FS_CardinalityType
  <2> HIDE DEF T
  <2> QED
      BY <1>2, <2>2, <2>3
<1>4. \E n \in Numbers : \A s \in U : s.nr # n
    BY <1>3
<1>5. PICK n : n = CHOOSE m \in Numbers : \A s \in U : s.nr # m
    OBVIOUS
<1>6. n \in Numbers /\ \A s \in U : s.nr # n
    BY <1>4, <1>5
<1>7. NewSlot(U) = [nr |-> n, age |-> 0]
    BY <1>5 DEF NewSlot
<1> QED
    BY <1>6, <1>7, CapIsNat, SlotShape

LEMMA AttemptShape ==
    ASSUME LimTypeOK
    PROVE  /\ DOMAIN attempt = Attempts
           /\ \A a \in Attempts :
                 /\ attempt[a] \in Attempting
                 /\ attempt[a] = NoAttempt <=> attempt[a].at = "idle"
                 /\ InFlight(a) => /\ attempt[a].slot \in Slots /\ attempt[a].counts \in BOOLEAN
                                   /\ attempt[a] = [at |-> attempt[a].at,
                                                    slot |-> attempt[a].slot,
                                                    counts |-> attempt[a].counts]
                 /\ ~InFlight(a) /\ attempt[a].at # "clear" => attempt[a] = NoAttempt
<1>1. attempt \in [Attempts -> Attempting]
    BY DEF LimTypeOK
<1> QED
    BY <1>1 DEF Attempting, InHand, NoAttempt, InFlight

LEMMA AttemptTypes ==
    /\ NoAttempt \in Attempting /\ [at |-> "clear"] \in Attempting
    /\ \A at \in {"password", "code"}, s \in Slots, c \in BOOLEAN :
          [at |-> at, slot |-> s, counts |-> c] \in Attempting
    BY DEF Attempting, InHand

LEMMA InitLimits == LimInit => LimitsInv
<1> SUFFICES ASSUME LimInit PROVE LimitsInv
    OBVIOUS
<1>1. \A a \in Attempts : attempt[a] = NoAttempt /\ ~InFlight(a)
    BY DEF LimInit, NoAttempt, InFlight
<1>2. LimTypeOK
    BY AttemptTypes DEF LimInit, LimTypeOK
<1>3. IsFiniteSet({}) /\ Cardinality({}) = 0
    BY FS_EmptySet
<1> QED
    BY <1>1, <1>2, <1>3, CapIsNat DEF LimInit, LimitsInv, Apart, Explained, MailsApart, Counting

\* While there is room, fewer slots are in use than there are numbers.
LEMMA RoomForOne ==
    ASSUME LimitsInv, NEW a \in Attempts, attempt[a] = NoAttempt, ~Full
    PROVE  /\ NewSlot(InUse) \in Slots /\ NewSlot(InUse) \notin InUse
<1> DEFINE B == {b \in Attempts : InFlight(b)}
<1> DEFINE f == [b \in B |-> attempt[b].slot]
<1> DEFINE H == {attempt[b].slot : b \in B}
<1>1. B \in SUBSET Attempts /\ a \notin B
    BY DEF InFlight, NoAttempt
<1>2. IsFiniteSet(Attempts \ {a}) /\ Cardinality(Attempts \ {a}) = Cardinality(Attempts) - 1
    BY LimitsAssumption, FS_RemoveElement
<1>3. IsFiniteSet(B) /\ Cardinality(B) <= Cardinality(Attempts) - 1
  <2>1. B \in SUBSET (Attempts \ {a})
      BY <1>1
  <2> HIDE DEF B
  <2> QED
      BY <1>2, <2>1, FS_Subset
<1>4. f \in Surjection(B, H)
    BY DEF Surjection
<1>5. IsFiniteSet(H) /\ Cardinality(H) <= Cardinality(B)
    BY <1>3, <1>4, FS_Surjection
<1>6. InUse = slots \cup H
  <2>1. failed \subseteq slots /\ codesOpen \subseteq slots
      BY DEF LimitsInv, Apart
  <2> QED
      BY <2>1 DEF InUse
<1>7. slots \subseteq Slots /\ IsFiniteSet(slots)
    BY DEF LimitsInv, LimTypeOK
<1>8. H \subseteq Slots
    BY AttemptShape DEF LimitsInv
<1>9. /\ Cardinality(slots) \in Nat /\ Cardinality(H) \in Nat /\ Cardinality(B) \in Nat
      /\ Cardinality(slots \cap H) \in Nat /\ Cardinality(Attempts) \in Nat
    BY <1>3, <1>5, <1>7, CapIsNat, FS_CardinalityType, FS_Intersection
<1> HIDE DEF H, B
<1>10. IsFiniteSet(slots \cup H)
       /\ Cardinality(slots \cup H) = Cardinality(slots) + Cardinality(H) - Cardinality(slots \cap H)
    BY <1>5, <1>7, FS_Union
<1>11. Cardinality(slots) < LoginCap
    BY <1>9, CapIsNat DEF Full
<1>12. Cardinality(slots \cup H) < Cardinality(Numbers)
    BY <1>3, <1>5, <1>9, <1>10, <1>11, CapIsNat
<1>13. PICK U : U = InUse
    OBVIOUS
<1>14. U \in SUBSET Slots /\ IsFiniteSet(U) /\ Cardinality(U) < Cardinality(Numbers)
    BY <1>6, <1>7, <1>8, <1>10, <1>12, <1>13
<1>15. NewSlot(U) \in Slots /\ NewSlot(U) \notin U
    BY <1>14, NewSlotIsNew
<1> QED
    BY <1>13, <1>15

\* There are at least as many reasons as slots, unless a success is between
\* its refund and its clear.
LEMMA ReasonsSuffice ==
    ASSUME LimitsInv, ~Refunding PROVE Cardinality(slots) <= Reasons
<1> DEFINE B == {a \in Attempts : attempt[a] # NoAttempt}
<1> DEFINE C == {a \in Attempts : Counting(a)}
<1> DEFINE H == {attempt[a].slot : a \in C}
<1> DEFINE f == [a \in C |-> attempt[a].slot]
<1>1. C \in SUBSET B /\ B \in SUBSET Attempts
    BY DEF Counting, InFlight, NoAttempt
<1>2. f \in Surjection(C, H)
    BY DEF Surjection
<1>3. slots \subseteq (failed \cup codesOpen) \cup H
    BY DEF LimitsInv, Explained
<1>4. IsFiniteSet(failed) /\ IsFiniteSet(codesOpen)
    BY FS_Subset DEF LimitsInv, Apart
<1> HIDE DEF B, C, H, f
<1>5. IsFiniteSet(B)
    BY <1>1, LimitsAssumption, FS_Subset
<1>6. IsFiniteSet(C) /\ Cardinality(C) <= Cardinality(B)
    BY <1>1, <1>5, FS_Subset
<1>7. IsFiniteSet(H) /\ Cardinality(H) <= Cardinality(C)
    BY <1>2, <1>6, FS_Surjection
<1>8. /\ IsFiniteSet(failed \cup codesOpen)
      /\ Cardinality(failed \cup codesOpen)
            = Cardinality(failed) + Cardinality(codesOpen) - Cardinality(failed \cap codesOpen)
      /\ IsFiniteSet((failed \cup codesOpen) \cup H)
      /\ Cardinality((failed \cup codesOpen) \cup H)
            = Cardinality(failed \cup codesOpen) + Cardinality(H)
              - Cardinality((failed \cup codesOpen) \cap H)
    BY <1>4, <1>7, FS_Union
<1>9. Cardinality(slots) <= Cardinality((failed \cup codesOpen) \cup H)
    BY <1>3, <1>8, FS_Subset
<1>10. IsFiniteSet(failed \cap codesOpen) /\ IsFiniteSet((failed \cup codesOpen) \cap H)
    BY <1>4, <1>8, FS_Intersection
<1>11. /\ Cardinality(slots) \in Nat /\ Cardinality(H) \in Nat /\ Cardinality(C) \in Nat
       /\ Cardinality(B) \in Nat /\ Cardinality(failed) \in Nat /\ Cardinality(codesOpen) \in Nat
       /\ Cardinality(failed \cup codesOpen) \in Nat
       /\ Cardinality(failed \cap codesOpen) \in Nat
       /\ Cardinality((failed \cup codesOpen) \cup H) \in Nat
       /\ Cardinality((failed \cup codesOpen) \cap H) \in Nat
    BY <1>4, <1>5, <1>6, <1>7, <1>8, <1>10, FS_CardinalityType DEF LimitsInv
<1>12. Cardinality(slots) <= Cardinality(failed) + Cardinality(codesOpen) + Cardinality(B)
    BY <1>6, <1>7, <1>8, <1>9, <1>11
<1> QED
    BY <1>12 DEF Reasons, B

\* A request that is let in takes a slot of its own; one that is refused finds
\* as many reasons as slots.
LEMMA ClaimStep ==
    ASSUME LimitsInv, NEW a \in Attempts, NEW at \in {"password", "code"}, Claim(a, at),
           UNCHANGED <<codesOpen, failed, asked, answered>>
    PROVE  LimitsInv'
<1>1. attempt[a] = NoAttempt
    BY DEF Claim
<1>2. CASE Full
  <2>1. UNCHANGED <<slots, attempt>>
      BY <1>2 DEF Claim
  <2>2. ~shut' /\ shut' \in BOOLEAN
    <3>0. shut' \in BOOLEAN
        BY <1>2 DEF Claim
    <3>1. shut' = (shut \/ (Reasons < LoginCap /\ ~Refunding)) /\ ~shut
        BY <1>2 DEF Claim, LimitsInv
    <3>2. SUFFICES ASSUME ~Refunding, Reasons < LoginCap PROVE FALSE
        BY <3>0, <3>1
    <3>3. Cardinality(slots) <= Reasons /\ Cardinality(slots) >= LoginCap
        BY <1>2, <3>2, ReasonsSuffice DEF Full
    <3>4. Cardinality(slots) \in Nat
        BY FS_CardinalityType DEF LimitsInv
    <3>5. IsFiniteSet(failed) /\ IsFiniteSet(codesOpen)
        BY FS_Subset DEF LimitsInv, Apart
    <3>6. {b \in Attempts : attempt[b] # NoAttempt} \in SUBSET Attempts
        OBVIOUS
    <3>7. IsFiniteSet({b \in Attempts : attempt[b] # NoAttempt})
        BY <3>6, FS_Subset, LimitsAssumption
    <3>8. Reasons \in Nat
        BY <3>5, <3>7, FS_CardinalityType DEF Reasons
    <3> QED
        BY <3>2, <3>3, <3>4, <3>8, CapIsNat
  <2>3. /\ \A b \in Attempts : Counting(b)' <=> Counting(b)
        /\ Refunding' <=> Refunding
      BY <2>1 DEF Counting, InFlight, Refunding
  <2>4. LimTypeOK'
      BY <2>1, <2>2 DEF LimTypeOK, LimitsInv
  <2>5. Apart' /\ Explained' /\ MailsApart'
      BY <2>1, <2>3 DEF LimitsInv, Apart, Explained, MailsApart
  <2> QED
      BY <2>1, <2>2, <2>4, <2>5 DEF LimitsInv
<1>3. CASE ~Full
  <2>1. PICK s : s = NewSlot(InUse)
      OBVIOUS
  <2>2. s \in Slots /\ s \notin InUse
      BY <1>1, <1>3, <2>1, RoomForOne
  <2>3. /\ slots' = slots \cup {s} /\ UNCHANGED shut
        /\ attempt' = [attempt EXCEPT ![a] = [at |-> at, slot |-> s, counts |-> TRUE]]
      BY <1>3, <2>1 DEF Claim
  <2>4. DOMAIN attempt = Attempts /\ \A b \in Attempts : attempt[b] \in Attempting
      BY AttemptShape DEF LimitsInv
  <2>5. /\ attempt'[a] = [at |-> at, slot |-> s, counts |-> TRUE]
        /\ \A b \in Attempts \ {a} : attempt'[b] = attempt[b]
      BY <2>3, <2>4
  <2>6. /\ Counting(a)' /\ attempt'[a].slot = s /\ ~Counting(a)
        /\ \A b \in Attempts \ {a} : /\ Counting(b)' <=> Counting(b)
                                     /\ attempt'[b].slot = attempt[b].slot
        /\ Refunding => Refunding'
    <3>1. Counting(a)' /\ attempt'[a].slot = s
        BY <2>5 DEF Counting, InFlight
    <3>2. ~Counting(a) /\ attempt[a].at # "clear"
        BY <1>1 DEF Counting, InFlight, NoAttempt
    <3>3. \A b \in Attempts \ {a} : /\ Counting(b)' <=> Counting(b)
                                    /\ attempt'[b].slot = attempt[b].slot
        BY <2>5 DEF Counting, InFlight
    <3>4. Refunding => Refunding'
        BY <2>5, <3>2 DEF Refunding
    <3> QED
        BY <3>1, <3>2, <3>3, <3>4
  <2>7. s \notin slots /\ s \notin failed /\ s \notin codesOpen
      BY <2>2 DEF InUse
  <2>8. LimTypeOK'
    <3>1. [at |-> at, slot |-> s, counts |-> TRUE] \in Attempting
        BY <2>2, AttemptTypes
    <3>2. attempt' \in [Attempts -> Attempting]
        BY <2>3, <3>1 DEF LimitsInv, LimTypeOK
    <3> QED
        BY <2>2, <2>3, <3>2 DEF LimitsInv, LimTypeOK
  <2>9. IsFiniteSet(slots') /\ Cardinality(slots') <= LoginCap
    <3>1. IsFiniteSet(slots \cup {s}) /\ Cardinality(slots \cup {s}) = Cardinality(slots) + 1
        BY <2>7, FS_AddElement DEF LimitsInv
    <3>2. Cardinality(slots) \in Nat /\ Cardinality(slots) < LoginCap
        BY <1>3, CapIsNat, FS_CardinalityType DEF LimitsInv, Full
    <3> QED
        BY <2>3, <3>1, <3>2, CapIsNat
  <2>10. Apart'
    <3>1. failed' \subseteq slots' /\ codesOpen' \subseteq slots' /\ failed' \cap codesOpen' = {}
        BY <2>3 DEF LimitsInv, Apart
    <3>2. ASSUME NEW b \in Attempts, Counting(b)'
          PROVE  attempt'[b].slot \in slots' \ (failed' \cup codesOpen')
        BY <2>3, <2>6, <2>7, <3>2 DEF LimitsInv, Apart
    <3>3. ASSUME NEW b \in Attempts, NEW c \in Attempts, b # c, Counting(b)', Counting(c)'
          PROVE  attempt'[b].slot # attempt'[c].slot
        BY <2>6, <2>7, <3>3 DEF LimitsInv, Apart
    <3> QED
        BY <3>1, <3>2, <3>3 DEF Apart
  <2>11. Explained'
      BY <2>3, <2>6 DEF LimitsInv, Explained
  <2> QED
      BY <2>3, <2>8, <2>9, <2>10, <2>11 DEF LimitsInv, MailsApart
<1> QED
    BY <1>2, <1>3

\* An attempt that ends with its slot taken: a failure, or a login that waits
\* for its code.
LEMMA EndsStep ==
    ASSUME LimitsInv, NEW a \in Attempts, InFlight(a),
           UNCHANGED <<slots, shut, asked, answered>>,
           attempt' = [attempt EXCEPT ![a] = NoAttempt],
           \/ failed' = With(failed, a) /\ codesOpen' = codesOpen
           \/ codesOpen' = With(codesOpen, a) /\ failed' = failed
    PROVE  LimitsInv'
<1>1. DOMAIN attempt = Attempts /\ attempt[a].slot \in Slots
    BY AttemptShape DEF LimitsInv
<1>2. /\ attempt'[a] = NoAttempt /\ \A b \in Attempts \ {a} : attempt'[b] = attempt[b]
      /\ attempt[a].at # "clear"
    BY <1>1 DEF InFlight
<1>3. /\ ~Counting(a)' /\ (Refunding' <=> Refunding)
      /\ \A b \in Attempts \ {a} : Counting(b)' <=> Counting(b)
    BY <1>2 DEF Counting, InFlight, Refunding, NoAttempt
<1>4. Counting(a) <=> attempt[a].counts
    BY DEF Counting
<1>5. Counting(a) => attempt[a].slot \in slots \ (failed \cup codesOpen)
    BY DEF LimitsInv, Apart
<1>6. /\ failed' \cup codesOpen'
             = IF Counting(a) THEN (failed \cup codesOpen) \cup {attempt[a].slot}
               ELSE failed \cup codesOpen
      /\ failed' \cap codesOpen' = {}
    BY <1>4, <1>5 DEF With, LimitsInv, Apart
<1>7. LimTypeOK'
  <2>1. attempt' \in [Attempts -> Attempting]
      BY AttemptTypes DEF LimitsInv, LimTypeOK
  <2>2. failed' \subseteq Slots /\ codesOpen' \subseteq Slots
      BY <1>1, <1>6 DEF LimitsInv, LimTypeOK
  <2> QED
      BY <2>1, <2>2 DEF LimitsInv, LimTypeOK
<1>8. Apart'
  <2>1. failed' \subseteq slots' /\ codesOpen' \subseteq slots'
      BY <1>5, <1>6 DEF LimitsInv, Apart
  <2>2. ASSUME NEW b \in Attempts, Counting(b)'
        PROVE  attempt'[b].slot \in slots' \ (failed' \cup codesOpen')
    <3>1. b # a /\ Counting(b) /\ attempt'[b].slot = attempt[b].slot
        BY <1>2, <1>3, <2>2
    <3>2. attempt[b].slot \in slots \ (failed \cup codesOpen)
        BY <3>1 DEF LimitsInv, Apart
    <3>3. Counting(a) => attempt[a].slot # attempt[b].slot
        BY <3>1 DEF LimitsInv, Apart
    <3> QED
        BY <1>6, <3>1, <3>2, <3>3
  <2>3. ASSUME NEW b \in Attempts, NEW c \in Attempts, b # c, Counting(b)', Counting(c)'
        PROVE  attempt'[b].slot # attempt'[c].slot
      BY <1>2, <1>3, <2>3 DEF LimitsInv, Apart
  <2> QED
      BY <1>6, <2>1, <2>2, <2>3 DEF Apart
<1>9. Explained'
  <2>1. SUFFICES ASSUME ~Refunding, NEW s \in slots, s \notin failed' \cup codesOpen'
                 PROVE  \E b \in Attempts : Counting(b)' /\ attempt'[b].slot = s
      BY <1>3 DEF Explained
  <2>2. PICK b \in Attempts : Counting(b) /\ attempt[b].slot = s
      BY <1>6, <2>1 DEF LimitsInv, Explained
  <2>3. b # a
      BY <1>6, <2>1, <2>2
  <2> QED
      BY <1>2, <1>3, <2>2, <2>3
<1> QED
    BY <1>7, <1>8, <1>9 DEF LimitsInv, MailsApart

\* After a refund, and after a clear, nothing that was taken counts any more.
LEMMA ForgivesStep ==
    ASSUME LimitsInv, NEW a \in Attempts, NEW r \in {NoAttempt, [at |-> "clear"]},
           NEW S \in SUBSET slots, slots' = S, S = {} \/ r # NoAttempt,
           attempt' = [b \in Attempts |-> IF b = a THEN r ELSE Uncounted(b)],
           codesOpen' = {}, failed' = {}, UNCHANGED <<shut, asked, answered>>
    PROVE  LimitsInv'
<1>1. ASSUME NEW b \in Attempts
      PROVE  attempt'[b] \in Attempting /\ ~Counting(b)'
  <2>1. CASE b = a
    <3>1. attempt'[b] = r
        BY <2>1
    <3> QED
        BY <3>1, AttemptTypes DEF Counting, InFlight, NoAttempt
  <2>2. CASE b # a /\ InFlight(b)
    <3>1. attempt'[b] = [attempt[b] EXCEPT !.counts = FALSE]
        BY <2>2 DEF Uncounted
    <3>2. /\ attempt[b].at \in {"password", "code"} /\ attempt[b].slot \in Slots
          /\ attempt[b] = [at |-> attempt[b].at, slot |-> attempt[b].slot,
                           counts |-> attempt[b].counts]
        BY <2>2, AttemptShape DEF LimitsInv, InFlight
    <3>3. attempt'[b] = [at |-> attempt[b].at, slot |-> attempt[b].slot, counts |-> FALSE]
        BY <3>1, <3>2
    <3>4. attempt'[b].counts = FALSE
        BY <3>3
    <3> QED
        BY <3>2, <3>3, <3>4, AttemptTypes DEF Counting
  <2>3. CASE b # a /\ ~InFlight(b)
    <3>1. attempt'[b] = attempt[b]
        BY <2>3 DEF Uncounted
    <3> QED
        BY <2>3, <3>1, AttemptShape DEF LimitsInv, Counting, InFlight
  <2> QED
      BY <2>1, <2>2, <2>3
<1>2. LimTypeOK'
    BY <1>1 DEF LimitsInv, LimTypeOK
<1>3. IsFiniteSet(slots') /\ Cardinality(slots') <= LoginCap
  <2>1. IsFiniteSet(S) /\ Cardinality(S) <= Cardinality(slots)
      BY FS_Subset DEF LimitsInv
  <2>2. Cardinality(S) \in Nat /\ Cardinality(slots) \in Nat
      BY <2>1, FS_CardinalityType DEF LimitsInv
  <2> QED
      BY <2>1, <2>2, CapIsNat DEF LimitsInv
<1>4. Apart'
    BY <1>1 DEF Apart
<1>5. Explained'
  <2>1. CASE S = {}
      BY <2>1 DEF Explained
  <2>2. CASE r # NoAttempt
    <3>1. attempt'[a] = [at |-> "clear"]
        BY <2>2
    <3>2. Refunding'
        BY <3>1 DEF Refunding
    <3> QED
        BY <3>2 DEF Explained
  <2> QED
      BY <2>1, <2>2
<1> QED
    BY <1>2, <1>3, <1>4, <1>5 DEF LimitsInv, MailsApart

\* A mail that is granted has a slot of its own.
LEMMA MailStep ==
    ASSUME LimitsInv, NEW flow \in Flows, AskForMail(flow) PROVE LimitsInv'
<1>1. UNCHANGED <<slots, attempt, codesOpen, failed, shut>>
    BY DEF AskForMail
<1>2. Apart' /\ Explained'
  <2>1. \A b \in Attempts : Counting(b)' <=> Counting(b)
      BY <1>1 DEF Counting, InFlight
  <2>2. Refunding' <=> Refunding
      BY <1>1 DEF Refunding
  <2> QED
      BY <1>1, <2>1, <2>2 DEF LimitsInv, Apart, Explained
<1>3. asked' \subseteq Slots /\ answered' \subseteq Grants /\ MailsApart'
  <2>1. CASE ~Granted
      BY <2>1 DEF AskForMail, LimitsInv, LimTypeOK, MailsApart
  <2>2. CASE Granted
    <3>1. PICK s : s = NewSlot(asked)
        OBVIOUS
    <3>2. /\ asked' = asked \cup {s}
          /\ answered' = answered \cup {[flow |-> flow, slot |-> s]}
        BY <2>2, <3>1 DEF AskForMail
    <3>3. asked \in SUBSET Slots /\ IsFiniteSet(asked) /\ Cardinality(asked) \in Nat
          /\ Cardinality(asked) < LoginCap
        BY <2>2, CapIsNat, FS_CardinalityType DEF LimitsInv, LimTypeOK, MailsApart, Granted
    <3>4. Cardinality(asked) < Cardinality(Numbers)
        BY <3>3, CapIsNat
    <3>5. s \in Slots /\ s \notin asked
        BY <3>1, <3>3, <3>4, NewSlotIsNew
    <3>6. IsFiniteSet(asked') /\ Cardinality(asked') <= LoginCap
      <4>1. IsFiniteSet(asked \cup {s}) /\ Cardinality(asked \cup {s}) = Cardinality(asked) + 1
          BY <3>3, <3>5, FS_AddElement
      <4> QED
          BY <3>2, <3>3, <4>1, CapIsNat
    <3>7. PICK g : g = [flow |-> flow, slot |-> s]
        OBVIOUS
    <3>8. g \in Grants /\ g.slot = s
        BY <3>5, <3>7 DEF Grants
    <3>9. answered' = answered \cup {g}
        BY <3>2, <3>7
    <3>10. \A q \in answered : q.slot \in asked
        BY DEF LimitsInv, MailsApart
    <3>11. /\ \A q \in answered' : q.slot \in asked'
           /\ \A q, p \in answered' : q.slot = p.slot => q = p
        BY <3>2, <3>5, <3>8, <3>9, <3>10 DEF LimitsInv, MailsApart
    <3>12. asked' \subseteq Slots /\ answered' \subseteq Grants
        BY <3>2, <3>5, <3>8, <3>9 DEF LimitsInv, LimTypeOK
    <3> QED
        BY <3>6, <3>11, <3>12 DEF MailsApart
  <2> QED
      BY <2>1, <2>2
<1>4. LimTypeOK'
    BY <1>1, <1>3 DEF LimitsInv, LimTypeOK
<1> QED
    BY <1>1, <1>2, <1>3, <1>4 DEF LimitsInv

LEMMA OlderIs ==
    ASSUME NEW s \in Slots
    PROVE  /\ Older(s) = [nr |-> s.nr, age |-> s.age + 1]
           /\ s.age + 1 < WindowAge => Older(s) \in Slots
<1>1. /\ s.nr \in Numbers /\ s.age \in Ages /\ s = [nr |-> s.nr, age |-> s.age]
    BY SlotShape
<1>2. Older(s) = [nr |-> s.nr, age |-> s.age + 1]
    BY <1>1 DEF Older
<1>3. s.age + 1 < WindowAge => s.age + 1 \in Ages
    BY <1>1, CapIsNat DEF Ages
<1> QED
    BY <1>1, <1>2, <1>3, SlotShape

LEMMA OlderApart ==
    ASSUME NEW s \in Slots, NEW t \in Slots, Older(s) = Older(t) PROVE s = t
<1>1. [nr |-> s.nr, age |-> s.age + 1] = [nr |-> t.nr, age |-> t.age + 1]
    BY OlderIs
<1>2. s.nr = t.nr /\ s.age + 1 = t.age + 1
    BY <1>1
<1>3. s.age \in Int /\ t.age \in Int
    BY SlotShape, CapIsNat DEF Ages
<1>4. s.age = t.age
    BY <1>2, <1>3
<1> QED
    BY <1>2, <1>4, SlotShape

\* What time leaves of some slots is no more than there were.
LEMMA RecentIs ==
    ASSUME NEW U \in SUBSET Slots
    PROVE  /\ Recent(U) \subseteq Slots
           /\ \A s \in Slots : Older(s) \in Recent(U) <=> s \in U /\ s.age + 1 < WindowAge
           /\ \A x \in Recent(U) : \E s \in U : s.age + 1 < WindowAge /\ x = Older(s)
           /\ IsFiniteSet(U) => IsFiniteSet(Recent(U)) /\ Cardinality(Recent(U)) <= Cardinality(U)
<1> DEFINE V == {r \in U : r.age + 1 < WindowAge}
<1> DEFINE f == [r \in V |-> Older(r)]
<1>1. Recent(U) = {Older(s) : s \in V}
    BY DEF Recent
<1>2. \A x \in Recent(U) : \E s \in U : s.age + 1 < WindowAge /\ x = Older(s)
    BY <1>1
<1>3. Recent(U) \subseteq Slots
    BY <1>2, OlderIs
<1>4. \A s \in Slots : Older(s) \in Recent(U) <=> s \in U /\ s.age + 1 < WindowAge
    BY <1>1, <1>2, OlderApart
<1>5. ASSUME IsFiniteSet(U)
      PROVE  IsFiniteSet(Recent(U)) /\ Cardinality(Recent(U)) <= Cardinality(U)
  <2>1. f \in Surjection(V, Recent(U))
      BY <1>1 DEF Surjection
  <2>2. V \in SUBSET U
      OBVIOUS
  <2> HIDE DEF V, f
  <2>3. IsFiniteSet(V) /\ Cardinality(V) <= Cardinality(U)
      BY <1>5, <2>2, FS_Subset
  <2>4. IsFiniteSet(Recent(U)) /\ Cardinality(Recent(U)) <= Cardinality(V)
      BY <2>1, <2>3, FS_Surjection
  <2>5. Cardinality(Recent(U)) \in Nat /\ Cardinality(V) \in Nat /\ Cardinality(U) \in Nat
      BY <1>5, <2>3, <2>4, FS_CardinalityType
  <2> QED
      BY <2>3, <2>4, <2>5
<1> QED
    BY <1>2, <1>3, <1>4, <1>5

\* A part of the window passes for all slots alike.
LEMMA TimeStep == ASSUME LimitsInv, TimePasses PROVE LimitsInv'
<1>1. /\ slots \in SUBSET Slots /\ failed \in SUBSET Slots /\ codesOpen \in SUBSET Slots
      /\ asked \in SUBSET Slots
    BY DEF LimitsInv, LimTypeOK
<1>2. /\ slots' = Recent(slots) /\ failed' = Recent(failed) /\ codesOpen' = Recent(codesOpen)
      /\ asked' = Recent(asked) /\ UNCHANGED shut /\ ~Refunding
    BY DEF TimePasses
<1>3. ASSUME NEW a \in Attempts
      PROVE  /\ attempt'[a] \in Attempting
             /\ (Counting(a)' <=> Counting(a))
             /\ InFlight(a) => attempt[a].slot \in Slots /\ attempt[a].slot.age + 1 < WindowAge
             /\ Counting(a) => attempt'[a].slot = Older(attempt[a].slot)
  <2>1. CASE InFlight(a)
    <3>1. attempt'[a] = [attempt[a] EXCEPT !.slot = Older(@)]
        BY <2>1 DEF TimePasses
    <3>2. /\ attempt[a].at \in {"password", "code"} /\ attempt[a].slot \in Slots
          /\ attempt[a].counts \in BOOLEAN
          /\ attempt[a] = [at |-> attempt[a].at, slot |-> attempt[a].slot,
                           counts |-> attempt[a].counts]
        BY <2>1, AttemptShape DEF LimitsInv, InFlight
    <3>3. PICK o : o = Older(attempt[a].slot)
        OBVIOUS
    <3>4. attempt'[a] = [at |-> attempt[a].at, slot |-> o, counts |-> attempt[a].counts]
        BY <3>1, <3>2, <3>3
    <3>5. attempt[a].slot.age + 1 < WindowAge
        BY <2>1 DEF TimePasses
    <3>6. o \in Slots
        BY <3>2, <3>3, <3>5, OlderIs
    <3>7. attempt'[a].at = attempt[a].at /\ attempt'[a].counts = attempt[a].counts
          /\ attempt'[a].slot = o
        BY <3>4
    <3>8. attempt'[a] \in Attempting
        BY <3>2, <3>4, <3>6, AttemptTypes
    <3> QED
        BY <2>1, <3>2, <3>3, <3>5, <3>7, <3>8 DEF Counting, InFlight
  <2>2. CASE ~InFlight(a)
    <3>1. attempt'[a] = NoAttempt
        BY <2>2 DEF TimePasses
    <3> QED
        BY <2>2, <3>1, AttemptTypes DEF Counting, InFlight, NoAttempt
  <2> QED
      BY <2>1, <2>2
<1>4. attempt' \in [Attempts -> Attempting]
  <2>1. attempt' = [a \in Attempts |->
                     IF InFlight(a) THEN [attempt[a] EXCEPT !.slot = Older(@)] ELSE NoAttempt]
      BY DEF TimePasses
  <2>2. DOMAIN attempt' = Attempts
      BY <2>1
  <2> QED
      BY <1>3, <2>1, <2>2
<1>5. answered' = {[r EXCEPT !.slot = Older(@)] :
                      r \in {q \in answered : q.slot.age + 1 < WindowAge}}
    BY DEF TimePasses
<1>6. ASSUME NEW x \in answered'
      PROVE  /\ x \in Grants
             /\ \E r \in answered : /\ r.slot \in Slots /\ r.slot.age + 1 < WindowAge
                                    /\ r \in Grants
                                    /\ x = [flow |-> r.flow, slot |-> Older(r.slot)]
  <2>1. PICK r \in answered : r.slot.age + 1 < WindowAge /\ x = [r EXCEPT !.slot = Older(@)]
      BY <1>5, <1>6
  <2>2. /\ r \in Grants /\ r.flow \in Flows /\ r.slot \in Slots
        /\ r = [flow |-> r.flow, slot |-> r.slot]
      BY DEF LimitsInv, LimTypeOK, Grants
  <2>3. PICK o : o = Older(r.slot)
      OBVIOUS
  <2>4. x = [flow |-> r.flow, slot |-> o]
      BY <2>1, <2>2, <2>3
  <2>5. o \in Slots
      BY <2>1, <2>2, <2>3, OlderIs
  <2>6. x \in Grants
      BY <2>2, <2>4, <2>5 DEF Grants
  <2> QED
      BY <2>1, <2>2, <2>3, <2>4, <2>6
<1>7. LimTypeOK'
  <2>1. answered' \subseteq Grants
      BY <1>6
  <2>2. /\ slots' \subseteq Slots /\ failed' \subseteq Slots /\ codesOpen' \subseteq Slots
        /\ asked' \subseteq Slots
      BY <1>1, <1>2, RecentIs
  <2>3. shut' \in BOOLEAN
      BY <1>2 DEF LimitsInv, LimTypeOK
  <2> QED
      BY <1>4, <2>1, <2>2, <2>3 DEF LimTypeOK
<1>8. ASSUME NEW U \in SUBSET Slots, IsFiniteSet(U), Cardinality(U) <= LoginCap
      PROVE  IsFiniteSet(Recent(U)) /\ Cardinality(Recent(U)) <= LoginCap
  <2>1. IsFiniteSet(Recent(U)) /\ Cardinality(Recent(U)) <= Cardinality(U)
      BY <1>8, RecentIs
  <2>2. Cardinality(Recent(U)) \in Nat /\ Cardinality(U) \in Nat
      BY <1>8, <2>1, FS_CardinalityType
  <2> QED
      BY <1>8, <2>1, <2>2, CapIsNat
<1>9. /\ IsFiniteSet(slots') /\ Cardinality(slots') <= LoginCap
      /\ IsFiniteSet(asked') /\ Cardinality(asked') <= LoginCap
    BY <1>1, <1>2, <1>8 DEF LimitsInv, MailsApart
<1>10. Apart'
  <2>1. failed' \subseteq slots' /\ codesOpen' \subseteq slots'
    <3>1. \A s \in failed \cup codesOpen : s \in slots
        BY DEF LimitsInv, Apart
    <3>2. \A x \in Recent(failed) : \E s \in failed : s.age + 1 < WindowAge /\ x = Older(s)
        BY <1>1, RecentIs
    <3>3. \A x \in Recent(codesOpen) : \E s \in codesOpen : s.age + 1 < WindowAge /\ x = Older(s)
        BY <1>1, RecentIs
    <3>4. \A s \in Slots : s \in slots /\ s.age + 1 < WindowAge => Older(s) \in Recent(slots)
        BY <1>1, RecentIs
    <3>5. failed' \subseteq slots'
        BY <1>1, <1>2, <3>1, <3>2, <3>4
    <3>6. codesOpen' \subseteq slots'
        BY <1>1, <1>2, <3>1, <3>3, <3>4
    <3> QED
        BY <3>5, <3>6
  <2>2. failed' \cap codesOpen' = {}
    <3>1. SUFFICES ASSUME NEW x \in Recent(failed), x \in Recent(codesOpen) PROVE FALSE
        BY <1>2
    <3>2. PICK s \in failed : s.age + 1 < WindowAge /\ x = Older(s)
        BY <1>1, RecentIs
    <3>3. s \in codesOpen
        BY <1>1, <3>1, <3>2, RecentIs
    <3> QED
        BY <3>2, <3>3 DEF LimitsInv, Apart
  <2>3. ASSUME NEW a \in Attempts, Counting(a)'
        PROVE  attempt'[a].slot \in slots' \ (failed' \cup codesOpen')
    <3>1. PICK s : s = attempt[a].slot
        OBVIOUS
    <3>2. Counting(a) /\ s \in Slots /\ s.age + 1 < WindowAge /\ attempt'[a].slot = Older(s)
        BY <1>3, <2>3, <3>1 DEF Counting
    <3>3. s \in slots /\ s \notin failed /\ s \notin codesOpen
        BY <3>1, <3>2 DEF LimitsInv, Apart
    <3>4. Older(s) \in Recent(slots) /\ Older(s) \notin Recent(failed)
          /\ Older(s) \notin Recent(codesOpen)
        BY <1>1, <3>2, <3>3, RecentIs
    <3> QED
        BY <1>2, <3>2, <3>4
  <2>4. ASSUME NEW a \in Attempts, NEW b \in Attempts, a # b, Counting(a)', Counting(b)'
        PROVE  attempt'[a].slot # attempt'[b].slot
    <3>1. Counting(a) /\ Counting(b) /\ attempt[a].slot \in Slots /\ attempt[b].slot \in Slots
          /\ attempt'[a].slot = Older(attempt[a].slot)
          /\ attempt'[b].slot = Older(attempt[b].slot)
        BY <1>3, <2>4 DEF Counting
    <3>2. attempt[a].slot # attempt[b].slot
        BY <2>4, <3>1 DEF LimitsInv, Apart
    <3> QED
        BY <3>1, <3>2, OlderApart
  <2> QED
      BY <2>1, <2>2, <2>3, <2>4 DEF Apart
<1>11. Explained'
  <2>1. SUFFICES ASSUME NEW x \in Recent(slots), x \notin Recent(failed), x \notin Recent(codesOpen)
                 PROVE  \E a \in Attempts : Counting(a)' /\ attempt'[a].slot = x
      BY <1>2 DEF Explained
  <2>2. PICK s \in slots : s.age + 1 < WindowAge /\ x = Older(s)
      BY <1>1, RecentIs
  <2>3. s \notin failed /\ s \notin codesOpen
      BY <1>1, <2>1, <2>2, RecentIs
  <2>4. PICK a \in Attempts : Counting(a) /\ attempt[a].slot = s
      BY <1>2, <2>3 DEF LimitsInv, Explained
  <2> QED
      BY <1>3, <2>2, <2>4
<1>12. MailsApart'
  <2>1. \A x \in answered' : x.slot \in asked'
    <3>1. SUFFICES ASSUME NEW x \in answered' PROVE x.slot \in Recent(asked)
        BY <1>2
    <3>2. PICK r \in answered : /\ r.slot \in Slots /\ r.slot.age + 1 < WindowAge
                                /\ x = [flow |-> r.flow, slot |-> Older(r.slot)]
        BY <1>6
    <3>3. r.slot \in asked
        BY DEF LimitsInv, MailsApart
    <3>4. x.slot = Older(r.slot)
        BY <3>2
    <3> QED
        BY <1>1, <3>2, <3>3, <3>4, RecentIs
  <2>2. ASSUME NEW x \in answered', NEW y \in answered', x.slot = y.slot PROVE x = y
    <3>1. PICK q \in answered : /\ q.slot \in Slots /\ x = [flow |-> q.flow, slot |-> Older(q.slot)]
        BY <1>6
    <3>2. PICK r \in answered : /\ r.slot \in Slots /\ y = [flow |-> r.flow, slot |-> Older(r.slot)]
        BY <1>6
    <3>3. Older(q.slot) = Older(r.slot)
        BY <2>2, <3>1, <3>2
    <3>4. q.slot = r.slot
        BY <3>1, <3>2, <3>3, OlderApart
    <3>5. q = r
        BY <3>4 DEF LimitsInv, MailsApart
    <3> QED
        BY <3>1, <3>2, <3>5
  <2> QED
      BY <1>9, <2>1, <2>2 DEF MailsApart
<1> QED
    BY <1>2, <1>7, <1>9, <1>10, <1>11, <1>12 DEF LimitsInv

LEMMA NextLimits == LimitsInv /\ [LimNext]_limVars => LimitsInv'
<1> SUFFICES ASSUME LimitsInv, [LimNext]_limVars PROVE LimitsInv'
    OBVIOUS
<1>1. ASSUME NEW a \in Attempts, LoginArrives(a) \/ CodeArrives(a) PROVE LimitsInv'
    BY <1>1, ClaimStep DEF LoginArrives, CodeArrives
<1>2. ASSUME NEW a \in Attempts, Fails(a) PROVE LimitsInv'
    BY <1>2, EndsStep DEF Fails
<1>3. ASSUME NEW a \in Attempts, AsksForCode(a) PROVE LimitsInv'
    BY <1>3, EndsStep DEF AsksForCode, InFlight
<1>4. ASSUME NEW a \in Attempts, Succeeds(a) PROVE LimitsInv'
  <2>1. Refunded \in SUBSET slots
      BY DEF Refunded
  <2>2. [at |-> "clear"] # NoAttempt
      BY DEF NoAttempt
  <2>3. PICK S \in SUBSET slots : S = Refunded
      BY <2>1
  <2>4. PICK r \in {NoAttempt, [at |-> "clear"]} : r = [at |-> "clear"]
      OBVIOUS
  <2>5. attempt' = [b \in Attempts |-> IF b = a THEN r ELSE Uncounted(b)]
      BY <1>4, <2>4 DEF Succeeds
  <2> QED
      BY <1>4, <2>2, <2>3, <2>4, <2>5, ForgivesStep DEF Succeeds
<1>5. ASSUME NEW a \in Attempts, Clears(a) PROVE LimitsInv'
  <2>1. PICK S \in SUBSET slots : S = {}
      OBVIOUS
  <2>2. PICK r \in {NoAttempt, [at |-> "clear"]} : r = NoAttempt
      OBVIOUS
  <2>3. attempt' = [b \in Attempts |-> IF b = a THEN r ELSE Uncounted(b)]
      BY <1>5, <2>2 DEF Clears
  <2> QED
      BY <1>5, <2>1, <2>2, <2>3, ForgivesStep DEF Clears, Cleared
<1>6. CASE UNCHANGED limVars
  <2>1. /\ \A b \in Attempts : Counting(b)' <=> Counting(b)
        /\ Refunding' <=> Refunding
      BY <1>6 DEF limVars, Counting, InFlight, Refunding
  <2>2. LimTypeOK'
      BY <1>6 DEF LimitsInv, LimTypeOK, limVars
  <2>3. Apart' /\ MailsApart'
      BY <1>6, <2>1 DEF LimitsInv, Apart, MailsApart, limVars
  <2>4. Explained'
      BY <1>6, <2>1 DEF LimitsInv, Explained, limVars
  <2> QED
      BY <1>6, <2>2, <2>3, <2>4 DEF LimitsInv, limVars
<1> QED
    BY <1>1, <1>2, <1>3, <1>4, <1>5, <1>6, MailStep, TimeStep DEF LimNext

LEMMA LimitsKeep == LimitsInv => LimitsHold
<1> SUFFICES ASSUME LimitsInv PROVE LimitsHold
    OBVIOUS
<1>1. /\ IsFiniteSet(slots) /\ failed \in SUBSET slots /\ Cardinality(slots) <= LoginCap
      /\ IsFiniteSet(asked) /\ Cardinality(asked) <= LoginCap
    BY DEF LimitsInv, Apart, MailsApart
<1>2. IsFiniteSet(failed) /\ Cardinality(failed) <= Cardinality(slots)
    BY <1>1, FS_Subset
<1> DEFINE f == [r \in answered |-> r.slot]
<1>3. f \in Injection(answered, asked)
    BY DEF LimitsInv, MailsApart, Injection, IsInjective
<1>4. IsFiniteSet(answered) /\ Cardinality(answered) <= Cardinality(asked)
    BY <1>1, <1>3, FS_Injection
<1>5. /\ Cardinality(slots) \in Nat /\ Cardinality(failed) \in Nat
      /\ Cardinality(answered) \in Nat /\ Cardinality(asked) \in Nat
    BY <1>1, <1>2, <1>4, FS_CardinalityType
<1> QED
    BY <1>1, <1>2, <1>4, <1>5, CapIsNat DEF LimitsHold, LimitsInv
-----------------------------------------------------------------------------
(* The gate in front of the model *)

\* Whoever a consent names was agreed to, and nothing is on its way to an
\* outside processor that was not.
AirInv ==
    /\ AirTypeOK
    /\ used = reached + burnt + Cardinality(InHandToday)
    /\ ~denied
    /\ consent = "any" => agreed = Outside
    /\ consent \in Outside => consent \in agreed
    /\ \A t \in AiThreads : asking[t].at \in {"call", "next", "fit"} /\ asking[t].to \in Outside
                               => asking[t].to \in agreed
    /\ \A t \in AiThreads :
          asking[t].at = "gate" /\ asking[t].route = "batch" => ~asking[t].today

\* The requests that hold a run of today, among those of some state.
Bearing(r) == r.at \in {"gate", "call", "fit"} /\ r.today

Askings == {NoAsk} \cup Gating \cup ToCall \cup Batches

LEMMA AskingShape ==
    /\ NoAsk \in Askings /\ ~Bearing(NoAsk) /\ NoAsk.at = "idle"
    /\ \A r \in Askings :
          /\ r.at \in {"idle", "gate", "call", "next", "fit"}
          /\ r.at \in {"gate", "call", "fit"} => r.today \in BOOLEAN
          /\ r.at = "gate" => /\ r.route \in Singles \cup ChatAsks \cup {"batch"}
                              /\ r = [at |-> "gate", route |-> r.route, today |-> r.today]
          /\ r.at = "call" => /\ r.route \in Singles \cup ChatAsks /\ r.to \in Providers
                              /\ r = [at |-> "call", route |-> r.route, today |-> r.today,
                                      to |-> r.to]
          /\ r.at = "next" => r.to \in Providers /\ r.left \in 0..MaxFit
          /\ r.at = "fit" => /\ r.to \in Providers /\ r.left \in 0..MaxFit
                             /\ r = [at |-> "fit", to |-> r.to, left |-> r.left,
                                     today |-> r.today]
    BY DEF Askings, NoAsk, Gating, ToCall, Batches, Bearing

LEMMA AskingTypes ==
    /\ \A r \in Singles \cup ChatAsks \cup {"batch"}, d \in BOOLEAN :
          [at |-> "gate", route |-> r, today |-> d] \in Askings
    /\ \A r \in Singles \cup ChatAsks, d \in BOOLEAN, p \in Providers :
          [at |-> "call", route |-> r, today |-> d, to |-> p] \in Askings
    /\ \A p \in Providers, n \in 0..MaxFit : [at |-> "next", to |-> p, left |-> n] \in Askings
    /\ \A p \in Providers, n \in 0..MaxFit, d \in BOOLEAN :
          [at |-> "fit", to |-> p, left |-> n, today |-> d] \in Askings
    BY DEF Askings, Gating, ToCall, Batches

LEMMA RunsAreNat ==
    AirTypeOK => /\ IsFiniteSet(InHandToday) /\ Cardinality(InHandToday) \in Nat
                 /\ AiPerDay \in Nat /\ MaxFit \in Nat
<1>1. InHandToday \in SUBSET AiThreads
    BY DEF InHandToday
<1> QED
    BY <1>1, FS_Subset, FS_CardinalityType, AiRunsAssumption

\* What a thread's new state does to the runs in hand.
LEMMA InHandMoves ==
    ASSUME AirTypeOK, NEW t \in AiThreads, NEW r \in Askings, Now(t, r)
    PROVE  /\ asking' \in [AiThreads -> Askings]
           /\ asking'[t] = r /\ \A u \in AiThreads \ {t} : asking'[u] = asking[u]
           /\ Cardinality(InHandToday')
                = Cardinality(InHandToday) + (IF Bearing(r) THEN 1 ELSE 0)
                                           - (IF Bearing(asking[t]) THEN 1 ELSE 0)
<1>1. asking \in [AiThreads -> Askings]
    BY DEF AirTypeOK, Askings
<1>2. /\ asking' \in [AiThreads -> Askings]
      /\ asking'[t] = r /\ \A u \in AiThreads \ {t} : asking'[u] = asking[u]
    BY <1>1 DEF Now
<1>3. /\ InHandToday = {u \in AiThreads : Bearing(asking[u])}
      /\ InHandToday' = {u \in AiThreads : Bearing(asking'[u])}
    BY DEF InHandToday, Bearing
<1>4. IsFiniteSet(InHandToday) /\ Cardinality(InHandToday) \in Nat
    BY RunsAreNat
<1>5. IsFiniteSet(InHandToday \ {t})
      /\ Cardinality(InHandToday \ {t})
            = Cardinality(InHandToday) - (IF Bearing(asking[t]) THEN 1 ELSE 0)
  <2>1. IsFiniteSet(InHandToday \ {t})
        /\ Cardinality(InHandToday \ {t})
              = IF t \in InHandToday THEN Cardinality(InHandToday) - 1 ELSE Cardinality(InHandToday)
      BY <1>4, FS_RemoveElement
  <2>2. t \in InHandToday <=> Bearing(asking[t])
      BY <1>3
  <2> QED
      BY <1>4, <2>1, <2>2
<1>6. CASE Bearing(r)
  <2>1. InHandToday' = (InHandToday \ {t}) \cup {t}
      BY <1>2, <1>3, <1>6
  <2>2. Cardinality((InHandToday \ {t}) \cup {t}) = Cardinality(InHandToday \ {t}) + 1
      BY <1>5, FS_AddElement
  <2>3. Cardinality(InHandToday \ {t}) \in Nat
      BY <1>5, FS_CardinalityType
  <2> QED
      BY <1>2, <1>4, <1>5, <1>6, <2>1, <2>2, <2>3
<1>7. CASE ~Bearing(r)
  <2>1. InHandToday' = InHandToday \ {t}
      BY <1>2, <1>3, <1>7
  <2> QED
      BY <1>2, <1>4, <1>5, <1>7, <2>1
<1> QED
    BY <1>6, <1>7

LEMMA InitRuns == AirInit => AirInv
<1> SUFFICES ASSUME AirInit PROVE AirInv
    OBVIOUS
<1>1. \A t \in AiThreads : asking[t] = NoAsk
    BY DEF AirInit
<1>2. InHandToday = {}
    BY <1>1, AskingShape DEF InHandToday
<1>3. AirTypeOK
  <2>1. asking \in [AiThreads -> Askings]
      BY AskingShape DEF AirInit
  <2>2. provider \in Providers /\ consent = "none" /\ agreed = {}
      BY DEF AirInit, Providers
  <2>3. used \in 0..AiPerDay /\ reached \in Nat /\ burnt \in Nat
      BY AiRunsAssumption DEF AirInit
  <2>4. denied \in BOOLEAN
      BY DEF AirInit
  <2> QED
      BY <2>1, <2>2, <2>3, <2>4 DEF AirTypeOK, Askings
<1> QED
    BY <1>1, <1>2, <1>3, FS_EmptySet, AskingShape DEF AirInit, AirInv, Outside

\* A step of one request that leaves the settings alone.  It keeps what it
\* sends to a provider that was agreed to, and the counters say what became of
\* its run.
LEMMA AskStep ==
    ASSUME AirInv, NEW t \in AiThreads, NEW r \in Askings, Now(t, r), UNCHANGED Settings,
           ~denied', denied' \in BOOLEAN,
           used' \in 0..AiPerDay, reached' \in Nat, burnt' \in Nat,
           used' - used = (reached' - reached) + (burnt' - burnt)
                          + (IF Bearing(r) THEN 1 ELSE 0) - (IF Bearing(asking[t]) THEN 1 ELSE 0),
           r.at \in {"call", "next", "fit"} /\ r.to \in Outside => r.to \in agreed,
           r.at = "gate" /\ r.route = "batch" => ~r.today
    PROVE  AirInv'
<1>1. /\ asking' \in [AiThreads -> Askings]
      /\ asking'[t] = r /\ \A u \in AiThreads \ {t} : asking'[u] = asking[u]
      /\ Cardinality(InHandToday')
            = Cardinality(InHandToday) + (IF Bearing(r) THEN 1 ELSE 0)
                                       - (IF Bearing(asking[t]) THEN 1 ELSE 0)
    BY InHandMoves DEF AirInv
<1>2. AirTypeOK'
    BY <1>1 DEF AirInv, AirTypeOK, Settings, Askings
<1>3. used' = reached' + burnt' + Cardinality(InHandToday')
  <2>1. PICK n : n = Cardinality(InHandToday)
      OBVIOUS
  <2>2. PICK m : m = Cardinality(InHandToday')
      OBVIOUS
  <2>3. used \in Int /\ reached \in Int /\ burnt \in Int /\ n \in Int
      BY <2>1, RunsAreNat DEF AirInv, AirTypeOK
  <2>12. used = reached + burnt + n
      BY <2>1 DEF AirInv
  <2>4. m = n + (IF Bearing(r) THEN 1 ELSE 0) - (IF Bearing(asking[t]) THEN 1 ELSE 0)
      BY <1>1, <2>1, <2>2
  <2>5. PICK x \in Int : x = IF Bearing(r) THEN 1 ELSE 0
      OBVIOUS
  <2>6. PICK y \in Int : y = IF Bearing(asking[t]) THEN 1 ELSE 0
      OBVIOUS
  <2>7. PICK u \in Int, q \in Int, b \in Int : u = used' /\ q = reached' /\ b = burnt'
      BY RunsAreNat DEF AirInv
  <2>8. m \in Int /\ m = n + x - y
      BY <2>3, <2>4, <2>5, <2>6
  <2>9. u - used = (q - reached) + (b - burnt) + x - y
      BY <2>5, <2>6, <2>7
  <2>10. u = used + (q - reached) + (b - burnt) + (x - y)
    <3>1. u \in Int /\ used \in Int
        BY <2>3, <2>7
    <3>2. \A i, j, k \in Int : u - used = i + j + k => u = used + i + j + k
        BY <3>1
    <3>3. q - reached \in Int /\ b - burnt \in Int /\ x - y \in Int
        BY <2>3, <2>5, <2>6, <2>7
    <3> QED
        BY <2>9, <3>2, <3>3
  <2>11. u = q + b + m
      BY <2>3, <2>5, <2>6, <2>7, <2>8, <2>10, <2>12
  <2> QED
      BY <2>2, <2>7, <2>11
<1>4. \A u \in AiThreads : asking'[u].at \in {"call", "next", "fit"} /\ asking'[u].to \in Outside
                               => asking'[u].to \in agreed'
    BY <1>1 DEF AirInv, Settings
<1>5. \A u \in AiThreads :
          asking'[u].at = "gate" /\ asking'[u].route = "batch" => ~asking'[u].today
    BY <1>1 DEF AirInv
<1> QED
    BY <1>2, <1>3, <1>4, <1>5 DEF AirInv, Settings

LEMMA CountsAre ==
    ASSUME AirInv
    PROVE  /\ used \in 0..AiPerDay /\ used \in Nat /\ reached \in Nat /\ burnt \in Nat
           /\ denied = FALSE /\ provider \in Providers /\ AiPerDay \in Nat /\ MaxFit \in Nat
           /\ \A t \in AiThreads : asking[t] \in Askings
    BY RunsAreNat DEF AirInv, AirTypeOK, Askings

LEMMA AskRouteStep ==
    ASSUME AirInv, NEW t \in AiThreads, NEW r \in Singles, AskRoute(t, r) PROVE AirInv'
<1>1. PICK q : q = [at |-> "gate", route |-> r, today |-> TRUE]
    OBVIOUS
<1>2. q \in Askings /\ Bearing(q) /\ q.at = "gate" /\ q.route # "batch"
    BY <1>1, AskingTypes DEF Bearing, Singles
<1>3. /\ Now(t, q) /\ ~Bearing(asking[t]) /\ used' = used + 1 /\ used < AiPerDay
      /\ UNCHANGED <<Settings, reached, burnt, denied>>
    BY <1>1, AskingShape DEF AskRoute, MayRun
<1> QED
    BY <1>2, <1>3, CountsAre, AskStep

LEMMA AskFreeStep ==
    ASSUME AirInv, NEW t \in AiThreads, NEW r \in ChatAsks \cup {"batch"}, AskFree(t, r)
    PROVE  AirInv'
<1>1. PICK q : q = [at |-> "gate", route |-> r, today |-> FALSE]
    OBVIOUS
<1>2. q \in Askings /\ ~Bearing(q) /\ q.at = "gate" /\ ~q.today
    BY <1>1, AskingTypes DEF Bearing
<1>3. /\ Now(t, q) /\ ~Bearing(asking[t])
      /\ UNCHANGED <<Settings, used, reached, burnt, denied>>
    BY <1>1, AskingShape DEF AskFree
<1> QED
    BY <1>2, <1>3, CountsAre, AskStep

\* What is turned away is counted as burnt if it held a run.
LEMMA TurnedStep ==
    ASSUME AirInv, NEW t \in AiThreads, asking[t].at \in {"gate", "call", "fit"}, TurnedAway(t),
           UNCHANGED <<Settings, used, reached, denied>>
    PROVE  AirInv'
<1>1. Now(t, NoAsk) /\ burnt' = burnt + (IF Bearing(asking[t]) THEN 1 ELSE 0)
    BY CountsAre DEF TurnedAway, Bearing
<1> QED
    BY <1>1, CountsAre, AskStep, AskingShape

LEMMA GateStep ==
    ASSUME AirInv, NEW t \in AiThreads, NEW hasCv \in BOOLEAN, Gate(t, hasCv) PROVE AirInv'
<1>1. asking[t].at = "gate" /\ UNCHANGED <<Settings, used, reached, denied>>
    BY DEF Gate
<1>2. CASE TurnedAway(t)
    BY <1>1, <1>2, TurnedStep
<1>3. CASE ~TurnedAway(t)
  <2>1. /\ ConsentSatisfied /\ UNCHANGED burnt
        /\ \/ /\ asking[t].route = "batch"
              /\ \E n \in 0..MaxFit : Now(t, [at |-> "next", to |-> provider, left |-> n])
           \/ /\ asking[t].route # "batch"
              /\ Now(t, [at |-> "call", route |-> asking[t].route, today |-> asking[t].today,
                         to |-> provider])
      BY <1>1, <1>3 DEF Gate
  <2>2. provider \in Outside => provider \in agreed
      BY <2>1 DEF ConsentSatisfied, AirInv, Outside
  <2>3. provider \in Providers /\ asking[t] \in Askings
      BY CountsAre
  <2>4. CASE asking[t].route = "batch"
    <3>1. PICK n \in 0..MaxFit : Now(t, [at |-> "next", to |-> provider, left |-> n])
        BY <2>1, <2>4
    <3>2. PICK q : q = [at |-> "next", to |-> provider, left |-> n]
        OBVIOUS
    <3>3. q \in Askings /\ ~Bearing(q) /\ q.to = provider /\ q.at = "next"
        BY <2>3, <3>2, AskingTypes DEF Bearing
    <3>4. ~Bearing(asking[t])
        BY <1>1, <2>4 DEF AirInv, Bearing
    <3> QED
        BY <1>1, <2>1, <2>2, <3>1, <3>2, <3>3, <3>4, CountsAre, AskStep
  <2>5. CASE asking[t].route # "batch"
    <3>1. PICK q : q = [at |-> "call", route |-> asking[t].route, today |-> asking[t].today,
                        to |-> provider]
        OBVIOUS
    <3>2. asking[t].route \in Singles \cup ChatAsks /\ asking[t].today \in BOOLEAN
        BY <1>1, <2>3, <2>5, AskingShape
    <3>3. q \in Askings /\ (Bearing(q) <=> Bearing(asking[t])) /\ q.to = provider
          /\ q.at = "call"
        BY <1>1, <2>3, <3>1, <3>2, AskingTypes DEF Bearing
    <3>4. Now(t, q)
        BY <2>1, <2>5, <3>1
    <3> QED
        BY <1>1, <2>1, <2>2, <3>3, <3>4, CountsAre, AskStep
  <2> QED
      BY <2>4, <2>5
<1> QED
    BY <1>2, <1>3

LEMMA BatchNextStep == ASSUME AirInv, NEW t \in AiThreads, BatchNext(t) PROVE AirInv'
<1>1. /\ asking[t].at = "next" /\ UNCHANGED <<Settings, reached, burnt, denied>>
      /\ ~Bearing(asking[t])
    BY DEF BatchNext, Bearing
<1>2. CASE asking[t].left = 0 \/ ~MayRun
  <2>1. Now(t, NoAsk) /\ UNCHANGED used
      BY <1>2 DEF BatchNext
  <2> QED
      BY <1>1, <2>1, CountsAre, AskStep, AskingShape
<1>3. CASE asking[t].left # 0 /\ MayRun
  <2>1. PICK q : q = [at |-> "fit", to |-> asking[t].to, left |-> asking[t].left - 1,
                      today |-> TRUE]
      OBVIOUS
  <2>2. Now(t, q) /\ used' = used + 1 /\ used < AiPerDay
      BY <1>3, <2>1 DEF BatchNext, MayRun
  <2>3. asking[t].to \in Providers /\ asking[t].left \in 0..MaxFit
      BY <1>1, CountsAre, AskingShape
  <2>4. asking[t].left - 1 \in 0..MaxFit
      BY <1>3, <2>3, CountsAre
  <2>5. q \in Askings /\ Bearing(q) /\ q.to = asking[t].to /\ q.at = "fit"
      BY <2>1, <2>3, <2>4, AskingTypes DEF Bearing
  <2>6. q.to \in Outside => q.to \in agreed
      BY <1>1, <2>5 DEF AirInv
  <2> QED
      BY <1>1, <2>2, <2>5, <2>6, CountsAre, AskStep
<1> QED
    BY <1>2, <1>3

\* A call goes to whom it was meant for when the consent was looked at.
LEMMA CalledStep ==
    ASSUME AirInv, NEW t \in AiThreads, asking[t].at \in {"call", "fit"}, Called(t),
           NEW r \in Askings, Now(t, r), ~Bearing(r),
           r.at = "idle" \/ (r.at = "next" /\ r.to = asking[t].to),
           UNCHANGED <<Settings, used>>
    PROVE  AirInv'
<1>1. asking[t].to \notin Outside \ agreed
    BY DEF AirInv
<1>2. reached' = reached + (IF Bearing(asking[t]) THEN 1 ELSE 0) /\ UNCHANGED burnt
    BY CountsAre DEF Called, Bearing
<1>4. denied' = FALSE
  <2>1. denied' = (denied \/ (asking[t].to \in Outside \ agreed))
      BY DEF Called
  <2>2. denied = FALSE
      BY CountsAre
  <2> QED
      BY <1>1, <2>1, <2>2
<1>3. r.at \in {"call", "next", "fit"} /\ r.to \in Outside => r.to \in agreed
    BY <1>1
<1>5. r.at = "gate" /\ r.route = "batch" => ~r.today
    OBVIOUS
<1>6. /\ used' \in 0..AiPerDay /\ reached' \in Nat /\ burnt' \in Nat
      /\ used' - used = (reached' - reached) + (burnt' - burnt)
             + (IF Bearing(r) THEN 1 ELSE 0) - (IF Bearing(asking[t]) THEN 1 ELSE 0)
    BY <1>2, CountsAre
<1> QED
    BY <1>3, <1>4, <1>5, <1>6, AskStep

LEMMA CallStep == ASSUME AirInv, NEW t \in AiThreads, Call(t) PROVE AirInv'
<1>1. CASE OverCap(t)
    BY <1>1, TurnedStep DEF Call, OverCap
<1>2. CASE Called(t) /\ Now(t, NoAsk)
    BY <1>2, CalledStep, AskingShape DEF Call
<1> QED
    BY <1>1, <1>2 DEF Call

LEMMA FitCallStep == ASSUME AirInv, NEW t \in AiThreads, FitCall(t) PROVE AirInv'
<1>1. CASE OverCap(t)
    BY <1>1, TurnedStep DEF FitCall, OverCap
<1>2. CASE Called(t) /\ Now(t, [at |-> "next", to |-> asking[t].to, left |-> asking[t].left])
  <2>1. PICK q : q = [at |-> "next", to |-> asking[t].to, left |-> asking[t].left]
      OBVIOUS
  <2>2. asking[t].to \in Providers /\ asking[t].left \in 0..MaxFit
      BY CountsAre, AskingShape DEF FitCall
  <2>3. q \in Askings /\ ~Bearing(q) /\ q.at = "next" /\ q.to = asking[t].to
      BY <2>1, <2>2, AskingTypes DEF Bearing
  <2>4. Now(t, q)
      BY <1>2, <2>1
  <2> QED
      BY <1>2, <2>3, <2>4, CalledStep DEF FitCall
<1> QED
    BY <1>1, <1>2 DEF FitCall

\* Settings change while requests are under way.
LEMMA SettingsStep ==
    ASSUME AirInv,
           \/ \E p \in Providers : SwitchProvider(p)
           \/ \E c \in Outside \cup {"none", "any"} : SetConsent(c)
    PROVE  AirInv'
<1>1. UNCHANGED <<used, asking, reached, burnt, denied>> /\ InHandToday' = InHandToday
    BY DEF SwitchProvider, SetConsent, InHandToday
<1>2. CASE \E p \in Providers : SwitchProvider(p)
  <2>1. AirTypeOK'
      BY <1>1, <1>2 DEF SwitchProvider, AirInv, AirTypeOK
  <2> QED
      BY <1>1, <1>2, <2>1 DEF SwitchProvider, AirInv
<1>3. ASSUME NEW c \in Outside \cup {"none", "any"}, SetConsent(c) PROVE AirInv'
  <2>1. PICK more \in SUBSET Outside :
            /\ more = CASE c = "any" -> Outside [] c = "none" -> {} [] OTHER -> {c}
            /\ (c = "any" => more = Outside) /\ (c \in Outside => c \in more)
      BY DEF Outside
  <2>2. agreed' = agreed \cup more /\ consent' = c /\ UNCHANGED provider
      BY <1>3, <2>1 DEF SetConsent
  <2>3. agreed \subseteq Outside
      BY DEF AirInv, AirTypeOK
  <2>4. AirTypeOK'
      BY <1>1, <2>2, <2>3 DEF AirInv, AirTypeOK
  <2>5. (consent' = "any" => agreed' = Outside) /\ (consent' \in Outside => consent' \in agreed')
      BY <2>1, <2>2, <2>3
  <2>6. \A t \in AiThreads : asking'[t].at \in {"call", "next", "fit"} /\ asking'[t].to \in Outside
                               => asking'[t].to \in agreed'
      BY <1>1, <2>2 DEF AirInv
  <2> QED
      BY <1>1, <2>4, <2>5, <2>6 DEF AirInv
<1> QED
    BY <1>2, <1>3

LEMMA NewDayStep == ASSUME AirInv, NewDay PROVE AirInv'
<1>1. /\ used' = 0 /\ reached' = 0 /\ burnt' = 0 /\ UNCHANGED <<Settings, denied>>
    BY DEF NewDay
<1>2. ASSUME NEW t \in AiThreads
      PROVE  /\ asking'[t] \in Askings /\ ~Bearing(asking'[t])
             /\ asking'[t].at = asking[t].at
             /\ asking[t].at \in {"call", "next", "fit"} => asking'[t].to = asking[t].to
  <2>1. asking[t] \in Askings
      BY CountsAre
  <2>2. CASE asking[t].at \in {"gate", "call", "fit"}
    <3>0. PICK no \in BOOLEAN : no = FALSE
        OBVIOUS
    <3>1. asking'[t] = [asking[t] EXCEPT !.today = no]
        BY <2>2, <3>0 DEF NewDay
    <3>2. CASE asking[t].at = "gate"
      <4>1. /\ asking[t] = [at |-> "gate", route |-> asking[t].route, today |-> asking[t].today]
            /\ asking[t].route \in Singles \cup ChatAsks \cup {"batch"}
          BY <2>1, <3>2, AskingShape
      <4>2. asking'[t] = [at |-> "gate", route |-> asking[t].route, today |-> no]
          BY <3>1, <4>1
      <4> QED
          BY <3>0, <3>2, <4>1, <4>2, AskingTypes DEF Bearing
    <3>3. CASE asking[t].at = "call"
      <4>1. /\ asking[t] = [at |-> "call", route |-> asking[t].route, today |-> asking[t].today,
                            to |-> asking[t].to]
            /\ asking[t].route \in Singles \cup ChatAsks /\ asking[t].to \in Providers
          BY <2>1, <3>3, AskingShape
      <4>2. asking'[t] = [at |-> "call", route |-> asking[t].route, today |-> no,
                          to |-> asking[t].to]
          BY <3>1, <4>1
      <4> QED
          BY <3>0, <3>3, <4>1, <4>2, AskingTypes DEF Bearing
    <3>4. CASE asking[t].at = "fit"
      <4>1. /\ asking[t] = [at |-> "fit", to |-> asking[t].to, left |-> asking[t].left,
                            today |-> asking[t].today]
            /\ asking[t].to \in Providers /\ asking[t].left \in 0..MaxFit
          BY <2>1, <3>4, AskingShape
      <4>2. asking'[t] = [at |-> "fit", to |-> asking[t].to, left |-> asking[t].left,
                          today |-> no]
          BY <3>1, <4>1
      <4> QED
          BY <3>0, <3>4, <4>1, <4>2, AskingTypes DEF Bearing
    <3> QED
        BY <2>2, <3>2, <3>3, <3>4
  <2>3. CASE asking[t].at \notin {"gate", "call", "fit"}
    <3>1. asking'[t] = asking[t]
        BY <2>3 DEF NewDay
    <3> QED
        BY <2>1, <2>3, <3>1 DEF Bearing
  <2> QED
      BY <2>2, <2>3
<1>3. InHandToday' = {}
    BY <1>2 DEF InHandToday, Bearing
<1>4. asking' \in [AiThreads -> Askings]
  <2>1. asking' = [t \in AiThreads |-> IF asking[t].at \in {"gate", "call", "fit"}
                                       THEN [asking[t] EXCEPT !.today = FALSE] ELSE asking[t]]
      BY DEF NewDay
  <2>2. DOMAIN asking' = AiThreads
      BY <2>1
  <2> QED
      BY <1>2, <2>1, <2>2
<1>5. AirTypeOK'
  <2>1. used' \in 0..AiPerDay /\ reached' \in Nat /\ burnt' \in Nat
      BY <1>1, CountsAre
  <2>2. provider' \in Providers /\ consent' \in Outside \cup {"none", "any"}
        /\ denied' \in BOOLEAN /\ agreed' \subseteq Outside
      BY <1>1 DEF AirInv, AirTypeOK, Settings
  <2> QED
      BY <1>4, <2>1, <2>2 DEF AirTypeOK, Askings
<1>6. used' = reached' + burnt' + Cardinality(InHandToday')
    BY <1>1, <1>3, FS_EmptySet
<1>7. \A t \in AiThreads : asking'[t].at \in {"call", "next", "fit"} /\ asking'[t].to \in Outside
                               => asking'[t].to \in agreed'
    BY <1>1, <1>2 DEF AirInv, Settings
<1>8. \A t \in AiThreads :
          asking'[t].at = "gate" /\ asking'[t].route = "batch" => ~asking'[t].today
    BY <1>2 DEF Bearing
<1> QED
    BY <1>1, <1>5, <1>6, <1>7, <1>8 DEF AirInv, Settings

LEMMA NextRuns == AirInv /\ [AirNext]_airVars => AirInv'
<1> SUFFICES ASSUME AirInv, [AirNext]_airVars PROVE AirInv'
    OBVIOUS
<1>1. CASE UNCHANGED airVars
  <2>1. InHandToday' = InHandToday
      BY <1>1 DEF airVars, InHandToday
  <2>2. AirTypeOK'
      BY <1>1 DEF airVars, AirInv, AirTypeOK
  <2> QED
      BY <1>1, <2>1, <2>2 DEF airVars, AirInv
<1> QED
    BY <1>1, AskRouteStep, AskFreeStep, GateStep, BatchNextStep, CallStep, FitCallStep,
       SettingsStep, NewDayStep DEF AirNext

LEMMA RunsKeep == AirInv => AiRunsHold
<1> SUFFICES ASSUME AirInv PROVE AiRunsHold
    OBVIOUS
<1>1. PICK n : n = Cardinality(InHandToday)
    OBVIOUS
<1>2. n \in Nat /\ used = reached + burnt + n
    BY <1>1, RunsAreNat DEF AirInv
<1>3. reached <= AiPerDay
    BY <1>2, CountsAre
<1> QED
    BY <1>1, <1>2, <1>3, CountsAre DEF AiRunsHold
-----------------------------------------------------------------------------
(* The spending cap *)

\* What a call that is not yet recorded has cost.
DueOf(c) == IF c.pc \in {"auditing", "chaining", "recording"} THEN c.prompt + c.reply ELSE 0

\* What a call that was let through may have cost when it is recorded.
RiskOf(c) == IF c.pc = "calling"
             THEN IF c.prompt = 0 THEN 0 ELSE c.prompt + MaxReply
             ELSE DueOf(c)

\* A sum over the threads is the number of units under its curve.
Area(f) == {x \in Threads \X Units : x[2] <= f[x[1]]}
Due  == [t \in Threads |-> DueOf(call[t])]
Risk == [t \in Threads |-> RiskOf(call[t])]

MoneyTyped ==
    /\ highest \in Caps /\ saved \in Nat /\ calls \in 0 .. MaxCalls
    /\ history \subseteq [nr : Nat, eur : 0 .. MaxPrompt + MaxReply, stored : BOOLEAN]
    /\ billed \in Nat /\ unseen \in BOOLEAN

\* Events have numbers of their own; a call that is let through was checked
\* against a cap, and one that costs nothing has a reply that costs nothing.
MoneySound ==
    /\ IsFiniteSet(history) /\ \A e \in history : e.nr <= saved
    /\ \A t \in Threads :
          /\ call[t].pc \in {"calling", "auditing", "chaining", "recording"} =>
                call[t].prompt <= highest /\ (call[t].prompt = 0 => call[t].reply = 0)
          /\ call[t].pc \in {"idle", "checking", "calling"} => call[t].reply = 0

\* What was charged is on record or due, and all of it together with what may
\* still come was foreseen by some check.
MoneyKept ==
    ~unseen =>
      /\ billed = Cardinality(UnitsOf(history)) + Cardinality(Area(Due))
      /\ Cardinality(UnitsOf(history)) + Cardinality(Area(Risk)) <= highest + Tolerance

MoneyInv == MoneyTyped /\ MoneySound /\ MoneyKept

Calls == [pc : Pcs, cap : Caps, prompt : 0 .. MaxPrompt, reply : 0 .. MaxReply,
          own : Nat, seq : Nat]
MaxCost == MaxPrompt + MaxReply

\* The first k units of one thing.
Row(x, k) == {x} \X (1 .. k)

LEMMA RowIs ==
    ASSUME NEW x, NEW k \in Nat PROVE IsFiniteSet(Row(x, k)) /\ Cardinality(Row(x, k)) = k
<1>1. IsFiniteSet({x}) /\ Cardinality({x}) = 1
    BY FS_Singleton
<1>2. IsFiniteSet(1 .. k) /\ Cardinality(1 .. k) = k
    BY FS_Interval
<1>3. PICK X, Y : X = {x} /\ Y = 1 .. k
    OBVIOUS
<1>4. IsFiniteSet(X \X Y) /\ Cardinality(X \X Y) = Cardinality(X) * Cardinality(Y)
    BY <1>1, <1>2, <1>3, FS_Product
<1>5. Cardinality(X \X Y) = k
    BY <1>1, <1>2, <1>3, <1>4
<1> QED
    BY <1>3, <1>4, <1>5 DEF Row

LEMMA CostsAre ==
    /\ MaxPrompt \in Nat /\ MaxReply \in Nat /\ MaxCost \in Nat /\ Units = 1 .. MaxCost
    /\ \A c \in Calls : /\ c.prompt \in Nat /\ c.reply \in Nat /\ c.cap \in Nat /\ c.cap \in Caps
                        /\ c.prompt <= MaxPrompt /\ c.reply <= MaxReply
                        /\ DueOf(c) \in 0 .. MaxCost /\ RiskOf(c) \in 0 .. MaxCost
                        /\ DueOf(c) \in Nat /\ RiskOf(c) \in Nat
                        /\ DueOf(c) <= RiskOf(c)
<1>1. MaxPrompt \in Nat /\ MaxReply \in Nat /\ MaxCost \in Nat /\ Units = 1 .. MaxCost
    BY CostAssumption DEF MaxCost, Units
<1>2. ASSUME NEW c \in Calls
      PROVE  /\ c.prompt \in Nat /\ c.reply \in Nat /\ c.cap \in Nat /\ c.cap \in Caps
             /\ c.prompt <= MaxPrompt /\ c.reply <= MaxReply
  <2>1. c.prompt \in 0 .. MaxPrompt /\ c.reply \in 0 .. MaxReply /\ c.cap \in Caps
      BY DEF Calls
  <2>2. c.cap \in Nat
      BY <2>1, CapAssumption
  <2> QED
      BY <1>1, <2>1, <2>2
<1>3. ASSUME NEW c \in Calls
      PROVE  DueOf(c) \in 0 .. MaxCost /\ RiskOf(c) \in 0 .. MaxCost /\ DueOf(c) <= RiskOf(c)
             /\ DueOf(c) \in Nat /\ RiskOf(c) \in Nat
  <2>1. c.prompt + c.reply \in 0 .. MaxCost /\ c.prompt + MaxReply \in 0 .. MaxCost
      BY <1>1, <1>2 DEF MaxCost
  <2>2. 0 \in 0 .. MaxCost /\ \A n \in 0 .. MaxCost : n \in Nat
      BY <1>1
  <2>3. DueOf(c) \in 0 .. MaxCost
      BY <2>1, <2>2 DEF DueOf
  <2>4. RiskOf(c) \in 0 .. MaxCost
      BY <2>1, <2>2, <2>3 DEF RiskOf
  <2>5. c.pc = "calling" => DueOf(c) = 0
      BY DEF DueOf
  <2>6. DueOf(c) <= RiskOf(c)
    <3>1. CASE c.pc = "calling"
        BY <2>2, <2>4, <2>5, <3>1
    <3>2. CASE c.pc # "calling"
      <4>1. RiskOf(c) = DueOf(c)
          BY <3>2 DEF RiskOf
      <4> QED
          BY <2>2, <2>3, <4>1
    <3> QED
        BY <3>1, <3>2
  <2> QED
      BY <2>2, <2>3, <2>4, <2>6
<1> QED
    BY <1>1, <1>2, <1>3

Curves == [Threads -> 0 .. MaxCost]
Beyond(f, t) == {x \in Area(f) : x[1] # t}

\* The units under a curve are one thread's and the others'.
LEMMA AreaSplits ==
    ASSUME NEW f \in Curves, NEW t \in Threads
    PROVE  /\ Area(f) = Beyond(f, t) \cup Row(t, f[t]) /\ Beyond(f, t) \cap Row(t, f[t]) = {}
           /\ f[t] \in Nat /\ IsFiniteSet(Beyond(f, t)) /\ Cardinality(Beyond(f, t)) \in Nat
           /\ IsFiniteSet(Area(f)) /\ Cardinality(Area(f)) \in Nat
           /\ Cardinality(Area(f)) = Cardinality(Beyond(f, t)) + f[t]
           /\ Cardinality(Beyond(f, t)) <= (Cardinality(Threads) - 1) * MaxCost
<1>1. f[t] \in 0 .. MaxCost /\ f[t] \in Nat
    BY CostsAre DEF Curves
<1>2. 1 .. f[t] = {n \in Units : n <= f[t]}
    BY <1>1, CostsAre
<1>3. Row(t, f[t]) = {x \in Area(f) : x[1] = t}
    BY <1>2 DEF Row, Area
<1>4. Area(f) = Beyond(f, t) \cup Row(t, f[t]) /\ Beyond(f, t) \cap Row(t, f[t]) = {}
    BY <1>3 DEF Beyond
<1>5. PICK n \in Nat : n = Cardinality(Threads)
    BY ThreadAssumption, FS_CardinalityType
<1>6. PICK O : O = Threads \ {t}
    OBVIOUS
<1>7. IsFiniteSet(O) /\ Cardinality(O) = n - 1
    BY <1>5, <1>6, ThreadAssumption, FS_RemoveElement
<1>8. IsFiniteSet(Units) /\ Cardinality(Units) = MaxCost
    BY CostsAre, FS_Interval
<1>9. IsFiniteSet(O \X Units) /\ Cardinality(O \X Units) = (n - 1) * MaxCost
    BY <1>7, <1>8, FS_Product
<1>10. Beyond(f, t) \in SUBSET (O \X Units)
    BY <1>6 DEF Beyond, Area
<1>11. IsFiniteSet(Beyond(f, t)) /\ Cardinality(Beyond(f, t)) <= (n - 1) * MaxCost
    BY <1>9, <1>10, FS_Subset
<1>12. PICK B, R : B = Beyond(f, t) /\ R = Row(t, f[t])
    OBVIOUS
<1>13. IsFiniteSet(R) /\ Cardinality(R) = f[t]
    BY <1>1, <1>12, RowIs
<1>14. IsFiniteSet(B \cup R)
       /\ Cardinality(B \cup R) = Cardinality(B) + Cardinality(R) - Cardinality(B \cap R)
    BY <1>11, <1>12, <1>13, FS_Union
<1>15. Cardinality(B \cap R) = 0
    BY <1>4, <1>12, FS_EmptySet
<1>16. Cardinality(B) \in Nat /\ Cardinality(B \cup R) \in Nat
    BY <1>11, <1>12, <1>14, FS_CardinalityType
<1>17. Cardinality(B \cup R) = Cardinality(B) + f[t]
    BY <1>1, <1>13, <1>14, <1>15, <1>16
<1> QED
    BY <1>1, <1>4, <1>5, <1>11, <1>12, <1>14, <1>16, <1>17

\* Where only one thread differs, so does the sum.
LEMMA AreaMoves ==
    ASSUME NEW f \in Curves, NEW g \in Curves, NEW t \in Threads,
           \A s \in Threads \ {t} : g[s] = f[s]
    PROVE  Cardinality(Area(g)) = Cardinality(Area(f)) - f[t] + g[t]
<1>1. Beyond(g, t) = Beyond(f, t)
    BY DEF Beyond, Area
<1>2. /\ Cardinality(Area(f)) = Cardinality(Beyond(f, t)) + f[t]
      /\ Cardinality(Area(g)) = Cardinality(Beyond(g, t)) + g[t]
      /\ f[t] \in Nat /\ g[t] \in Nat /\ Cardinality(Beyond(f, t)) \in Nat
    BY AreaSplits
<1> QED
    BY <1>1, <1>2

LEMMA CurvesAre ==
    ASSUME call \in [Threads -> Calls] PROVE Due \in Curves /\ Risk \in Curves
<1>1. \A t \in Threads : DueOf(call[t]) \in 0 .. MaxCost /\ RiskOf(call[t]) \in 0 .. MaxCost
    BY CostsAre
<1> QED
    BY <1>1 DEF Due, Risk, Curves

LEMMA ToleranceIs ==
    /\ Tolerance \in Nat
    /\ Tolerance = (Cardinality(Threads) - 1) * MaxCost + MaxReply
<1>1. PICK n \in Nat : n = Cardinality(Threads)
    BY ThreadAssumption, FS_CardinalityType
<1>2. n # 0
    BY <1>1, ThreadAssumption, FS_EmptySet
<1>3. PICK m \in Nat : m = n - 1
    BY <1>2
<1>4. MaxPrompt \in Nat /\ MaxReply \in Nat /\ MaxCost = MaxPrompt + MaxReply
    BY CostAssumption DEF MaxCost
<1>5. n = m + 1
    BY <1>3
<1>6. Tolerance = (m + 1) * MaxReply + m * MaxPrompt
    BY <1>1, <1>3, <1>5 DEF Tolerance
<1>7. /\ (m + 1) * MaxReply = m * MaxReply + MaxReply
      /\ m * MaxCost = m * MaxPrompt + m * MaxReply
      /\ m * MaxReply \in Nat /\ m * MaxPrompt \in Nat
    BY <1>4
<1>8. Tolerance = m * MaxCost + MaxReply
    BY <1>4, <1>6, <1>7
<1> QED
    BY <1>1, <1>3, <1>4, <1>6, <1>7, <1>8

\* Whatever was lost sight of before, the calls that were let through cannot
\* cost more than the highest cap and the tolerance.
LEMMA RiskBounded ==
    ASSUME call \in [Threads -> Calls], highest \in Nat,
           \A t \in Threads :
              call[t].pc \in {"calling", "auditing", "chaining", "recording"} =>
                 call[t].prompt <= highest /\ (call[t].prompt = 0 => call[t].reply = 0)
    PROVE  Cardinality(Area(Risk)) <= highest + Tolerance
<1>1. Risk \in Curves
    BY CurvesAre
<1>2. CASE \E t \in Threads : RiskOf(call[t]) # 0
  <2>1. PICK t \in Threads : RiskOf(call[t]) # 0
      BY <1>2
  <2>2. Risk[t] = RiskOf(call[t]) /\ call[t] \in Calls
      BY DEF Risk
  <2>3. call[t].pc \in {"calling", "auditing", "chaining", "recording"}
      BY <2>1 DEF RiskOf, DueOf
  <2>4. /\ call[t].prompt <= highest /\ call[t].prompt \in Nat
        /\ call[t].reply \in Nat /\ call[t].reply <= MaxReply
      BY <2>2, <2>3, CostsAre
  <2>5. RiskOf(call[t]) <= call[t].prompt + MaxReply
    <3>1. CASE call[t].pc = "calling"
        BY <2>1, <2>4, <3>1, CostsAre DEF RiskOf
    <3>2. CASE call[t].pc # "calling"
      <4>1. RiskOf(call[t]) = call[t].prompt + call[t].reply
          BY <2>3, <3>2 DEF RiskOf, DueOf
      <4> QED
          BY <2>4, <4>1, CostsAre
    <3> QED
        BY <3>1, <3>2
  <2>6. PICK a, b, k, T :
            /\ a = Cardinality(Area(Risk)) /\ b = Cardinality(Beyond(Risk, t))
            /\ k = (Cardinality(Threads) - 1) * MaxCost /\ T = Tolerance
      OBVIOUS
  <2>7. a = b + RiskOf(call[t]) /\ b <= k /\ b \in Nat
      BY <1>1, <2>2, <2>6, AreaSplits
  <2>8. T = k + MaxReply /\ T \in Nat /\ MaxReply \in Nat
      BY <2>6, ToleranceIs, CostsAre
  <2>9. k \in Int
      BY <2>6, ThreadAssumption, FS_CardinalityType, CostsAre
  <2>10. RiskOf(call[t]) \in Nat
      BY <2>2, CostsAre
  <2>11. a <= highest + T
      BY <2>4, <2>5, <2>7, <2>8, <2>9, <2>10
  <2> QED
      BY <2>6, <2>11
<1>3. CASE \A t \in Threads : RiskOf(call[t]) = 0
  <2>1. \A t \in Threads : Risk[t] = 0
      BY <1>3 DEF Risk
  <2>2. Area(Risk) = {}
      BY <2>1, CostsAre DEF Area
  <2>3. Cardinality(Area(Risk)) = 0
      BY <2>2, FS_EmptySet
  <2> QED
      BY <2>3, ToleranceIs
<1> QED
    BY <1>2, <1>3

Events == [nr : Nat, eur : 0 .. MaxCost, stored : BOOLEAN]

LEMMA UnitsFinite ==
    ASSUME NEW S \in SUBSET Events, IsFiniteSet(S)
    PROVE  IsFiniteSet(UnitsOf(S)) /\ Cardinality(UnitsOf(S)) \in Nat
<1>1. IsFiniteSet(Units)
    BY CostsAre, FS_Interval
<1>2. IsFiniteSet(S \X Units)
    BY <1>1, FS_Product
<1>3. UnitsOf(S) \in SUBSET (S \X Units)
    BY DEF UnitsOf
<1> QED
    BY <1>2, <1>3, FS_Subset, FS_CardinalityType

\* A new event adds what it cost.
LEMMA UnitsAdded ==
    ASSUME NEW S \in SUBSET Events, IsFiniteSet(S), NEW e \in Events, e \notin S
    PROVE  Cardinality(UnitsOf(S \cup {e})) = Cardinality(UnitsOf(S)) + e.eur
<1>1. e.eur \in 0 .. MaxCost /\ e.eur \in Nat
    BY CostsAre DEF Events
<1>2. 1 .. e.eur = {n \in Units : n <= e.eur}
    BY <1>1, CostsAre
<1>3. UnitsOf(S \cup {e}) = UnitsOf(S) \cup Row(e, e.eur)
    BY <1>2 DEF UnitsOf, Row
<1>4. UnitsOf(S) \cap Row(e, e.eur) = {}
    BY DEF UnitsOf, Row
<1>5. PICK A, B : A = UnitsOf(S) /\ B = Row(e, e.eur)
    OBVIOUS
<1>6. /\ IsFiniteSet(A) /\ Cardinality(A) \in Nat
      /\ IsFiniteSet(B) /\ Cardinality(B) = e.eur
    BY <1>1, <1>5, UnitsFinite, RowIs
<1>7. Cardinality(A \cup B) = Cardinality(A) + Cardinality(B) - Cardinality(A \cap B)
    BY <1>6, FS_Union
<1>8. Cardinality(A \cap B) = 0
    BY <1>4, <1>5, FS_EmptySet
<1>9. Cardinality(A \cup B) = Cardinality(A) + e.eur
    BY <1>1, <1>6, <1>7, <1>8
<1> QED
    BY <1>3, <1>5, <1>9

\* Events that cost nothing do not count.
LEMMA FreeEvents ==
    ASSUME NEW S \in SUBSET Events, NEW R \in SUBSET S, \A e \in S \ R : e.eur = 0
    PROVE  UnitsOf(R) = UnitsOf(S)
<1>1. \A n \in Units : n \in Nat /\ n > 0
    BY CostsAre
<1>2. ASSUME NEW x \in UnitsOf(S) PROVE x \in UnitsOf(R)
  <2>1. x \in S \X Units /\ x[2] <= x[1].eur
      BY <1>2 DEF UnitsOf
  <2>2. x[1] \in S /\ x[2] \in Units /\ x = <<x[1], x[2]>>
      BY <2>1
  <2>3. x[1].eur # 0
      BY <1>1, <2>1, <2>2
  <2>4. x[1] \in R
      BY <2>2, <2>3
  <2> QED
      BY <2>1, <2>2, <2>4 DEF UnitsOf
<1>3. UnitsOf(R) \subseteq UnitsOf(S)
    BY DEF UnitsOf
<1> QED
    BY <1>2, <1>3

\* One call moves on.  What is on record grows by r, what was charged by b,
\* and neither by more than the call was good for.
LEMMA MoneyStep ==
    ASSUME MoneyInv, MoneyTyped', call \in [Threads -> Calls], NEW t \in Threads, NEW d \in Calls,
           call' = [call EXCEPT ![t] = d],
           IsFiniteSet(history'), \A e \in history' : e.nr <= saved',
           highest <= highest',
           d.pc \in {"calling", "auditing", "chaining", "recording"} =>
              d.prompt <= highest' /\ (d.prompt = 0 => d.reply = 0),
           d.pc \in {"idle", "checking", "calling"} => d.reply = 0,
           unseen => unseen',
           NEW r \in Nat, NEW b \in Nat, billed' = billed + b,
           Cardinality(UnitsOf(history')) = Cardinality(UnitsOf(history)) + r,
           ~unseen' => /\ b = r + DueOf(d) - DueOf(call[t])
                       /\ \/ r + RiskOf(d) <= RiskOf(call[t])
                          \/ /\ r = 0 /\ d.pc = "calling" /\ d.prompt # 0
                             /\ Cardinality(UnitsOf(history)) + d.prompt <= highest'
    PROVE  MoneyInv'
<1>1. /\ call' \in [Threads -> Calls] /\ call'[t] = d
      /\ \A s \in Threads \ {t} : call'[s] = call[s]
    OBVIOUS
<1>2. highest \in Nat /\ highest' \in Nat
    BY CapAssumption DEF MoneyInv, MoneyTyped
<1>3. ASSUME NEW s \in Threads
      PROVE  /\ call'[s].pc \in {"calling", "auditing", "chaining", "recording"} =>
                   call'[s].prompt <= highest' /\ (call'[s].prompt = 0 => call'[s].reply = 0)
             /\ call'[s].pc \in {"idle", "checking", "calling"} => call'[s].reply = 0
  <2>1. CASE s = t
      BY <1>1, <2>1
  <2>2. CASE s # t
    <3>1. call'[s] = call[s] /\ call[s].prompt \in Nat
        BY <1>1, <2>2, CostsAre
    <3>2. call[s].prompt <= highest => call[s].prompt <= highest'
        BY <1>2, <3>1
    <3> QED
        BY <3>1, <3>2 DEF MoneyInv, MoneySound
  <2> QED
      BY <2>1, <2>2
<1>4. MoneySound'
    BY <1>3 DEF MoneySound
<1>5. /\ Due \in Curves /\ Risk \in Curves
      /\ \A s \in Threads : Due[s] = DueOf(call[s]) /\ Risk[s] = RiskOf(call[s])
    BY CurvesAre DEF Due, Risk
<1>6. PICK D \in Curves, R \in Curves : D = Due' /\ R = Risk'
  <2>1. \A s \in Threads : DueOf(call'[s]) \in 0 .. MaxCost /\ RiskOf(call'[s]) \in 0 .. MaxCost
      BY <1>1, CostsAre
  <2>2. [s \in Threads |-> DueOf(call'[s])] \in Curves
        /\ [s \in Threads |-> RiskOf(call'[s])] \in Curves
      BY <2>1 DEF Curves
  <2>3. Due' = [s \in Threads |-> DueOf(call'[s])] /\ Risk' = [s \in Threads |-> RiskOf(call'[s])]
      BY DEF Due, Risk, DueOf, RiskOf
  <2> QED
      BY <2>2, <2>3
<1>7. \A s \in Threads : D[s] = DueOf(call'[s]) /\ R[s] = RiskOf(call'[s])
    BY <1>6 DEF Due, Risk, DueOf, RiskOf
<1>8. /\ Cardinality(Area(D)) = Cardinality(Area(Due)) - DueOf(call[t]) + DueOf(d)
      /\ Cardinality(Area(R)) = Cardinality(Area(Risk)) - RiskOf(call[t]) + RiskOf(d)
  <2>1. \A s \in Threads \ {t} : D[s] = Due[s] /\ R[s] = Risk[s]
      BY <1>1, <1>5, <1>7
  <2>2. /\ Cardinality(Area(D)) = Cardinality(Area(Due)) - Due[t] + D[t]
        /\ Cardinality(Area(R)) = Cardinality(Area(Risk)) - Risk[t] + R[t]
      BY <1>5, <2>1, AreaMoves
  <2> QED
      BY <1>1, <1>5, <1>7, <2>2
<1>9. PICK u, a, k, D1, R1, D2, R2, T :
          /\ u = Cardinality(UnitsOf(history)) /\ a = Cardinality(Area(Due))
          /\ k = Cardinality(Area(Risk)) /\ D1 = DueOf(call[t]) /\ R1 = RiskOf(call[t])
          /\ D2 = DueOf(d) /\ R2 = RiskOf(d) /\ T = Tolerance
    OBVIOUS
<1>10. u \in Nat
  <2>1. history \in SUBSET Events /\ IsFiniteSet(history)
      BY DEF MoneyInv, MoneyTyped, MoneySound, Events, MaxCost
  <2> QED
      BY <1>9, <2>1, UnitsFinite
<1>11. a \in Nat /\ k \in Nat
    BY <1>5, <1>9, AreaSplits
<1>12. D1 \in Nat /\ R1 \in Nat /\ D2 \in Nat /\ R2 \in Nat /\ T \in Nat
    BY <1>9, CostsAre, ToleranceIs
<1>13. ASSUME ~unseen'
       PROVE  /\ billed' = (u + r) + (a - D1 + D2)
              /\ (u + r) + (k - R1 + R2) <= highest' + T
  <2>1. billed = u + a
      BY <1>9, <1>13 DEF MoneyInv, MoneyKept
  <2>7. u + k <= highest + T
      BY <1>9, <1>13 DEF MoneyInv, MoneyKept
  <2>2. b = r + D2 - D1
      BY <1>9, <1>13
  <2>3. billed' = (u + r) + (a - D1 + D2)
      BY <1>10, <1>11, <1>12, <2>1, <2>2
  <2>4. CASE r + R2 <= R1
    <3>1. (u + r) + (k - R1 + R2) <= u + k
        BY <1>10, <1>11, <1>12, <2>4
    <3>2. u + k <= highest' + T
      <4>1. highest \in Int /\ highest' \in Int /\ highest <= highest'
          BY <1>2
      <4>2. PICK s \in Int : s = u + k
          BY <1>10, <1>11
      <4>3. s <= highest + T
          BY <2>7, <4>2
      <4>4. s <= highest' + T
          BY <1>12, <4>1, <4>2, <4>3
      <4> QED
          BY <4>2, <4>4
    <3>3. (u + r) + (k - R1 + R2) \in Int /\ u + k \in Int /\ highest' + T \in Int
        BY <1>2, <1>10, <1>11, <1>12
    <3>4. (u + r) + (k - R1 + R2) <= highest' + T
        BY <3>1, <3>2, <3>3
    <3> QED
        BY <2>3, <3>4
  <2>5. CASE r = 0 /\ d.pc = "calling" /\ d.prompt # 0 /\ u + d.prompt <= highest'
    <3>1. PICK c \in Nat, m \in Nat, p \in Nat :
              /\ c = Cardinality(Beyond(R, t)) /\ m = MaxReply /\ p = d.prompt
        BY <1>6, AreaSplits, CostsAre
    <3>2. R2 = p + m
        BY <1>9, <2>5, <3>1 DEF RiskOf
    <3>3. Cardinality(Area(R)) = c + R2 /\ c <= (Cardinality(Threads) - 1) * MaxCost
        BY <1>1, <1>7, <1>9, <3>1, AreaSplits
    <3>4. k - R1 + R2 = c + R2
        BY <1>8, <1>9, <3>3
    <3>5. PICK j \in Int : j = (Cardinality(Threads) - 1) * MaxCost
        BY ThreadAssumption, FS_CardinalityType, CostsAre
    <3>6. T = j + m /\ c <= j
        BY <1>9, <3>1, <3>3, <3>5, ToleranceIs
    <3>7. u + (c + R2) <= highest' + T
        BY <1>2, <1>10, <1>12, <2>5, <3>1, <3>2, <3>5, <3>6
    <3>8. u + r = u
        BY <1>10, <2>5
    <3>9. (u + r) + (k - R1 + R2) = u + (c + R2)
        BY <3>4, <3>8
    <3> QED
        BY <2>3, <3>7, <3>9
  <2>6. \/ r + R2 <= R1
        \/ r = 0 /\ d.pc = "calling" /\ d.prompt # 0 /\ u + d.prompt <= highest'
      BY <1>9, <1>13
  <2> QED
      BY <2>3, <2>4, <2>5, <2>6
<1>14. MoneyKept'
  <2>1. /\ Cardinality(Area(Due)') = a - D1 + D2 /\ Cardinality(Area(Risk)') = k - R1 + R2
      BY <1>6, <1>8, <1>9 DEF Area
  <2>2. Cardinality(UnitsOf(history)') = u + r
      BY <1>9 DEF UnitsOf
  <2>3. Tolerance' = T
      BY <1>9 DEF Tolerance
  <2> QED
      BY <1>13, <2>1, <2>2, <2>3 DEF MoneyKept
<1> QED
    BY <1>4, <1>14 DEF MoneyInv

LEMMA InitMoney == DispatchInit => MoneyInv
<1> SUFFICES ASSUME DispatchInit PROVE MoneyInv
    OBVIOUS
<1>1. /\ highest \in Caps /\ highest \in Nat /\ history = {} /\ saved = 0 /\ calls = 0
      /\ billed = 0 /\ unseen = FALSE
    BY CapAssumption DEF DispatchInit
<1>2. \A t \in Threads : call[t].pc = "idle" /\ call[t].reply = 0
    BY DEF DispatchInit, CallAt
<1>3. MoneyTyped
  <2>1. calls \in 0 .. MaxCalls
      BY <1>1, WindowAssumption
  <2>2. billed \in Nat /\ saved \in Nat /\ unseen \in BOOLEAN
      BY <1>1
  <2> QED
      BY <1>1, <2>1, <2>2 DEF MoneyTyped
<1>4. IsFiniteSet({}) /\ Cardinality({}) = 0
    BY FS_EmptySet
<1>5. MoneySound
    BY <1>1, <1>2, <1>4 DEF MoneySound
<1>6. \A t \in Threads : DueOf(call[t]) = 0 /\ RiskOf(call[t]) = 0
    BY <1>2 DEF DueOf, RiskOf
<1>7. UnitsOf(history) = {}
    BY <1>1 DEF UnitsOf
<1>8. Area(Due) = {} /\ Area(Risk) = {}
    BY <1>6, CostsAre DEF Area, Due, Risk
<1>9. MoneyKept
  <2>1. /\ Cardinality(UnitsOf(history)) = 0 /\ Cardinality(Area(Due)) = 0
        /\ Cardinality(Area(Risk)) = 0
      BY <1>4, <1>7, <1>8
  <2>2. 0 + 0 <= highest + Tolerance
      BY <1>1, ToleranceIs
  <2> QED
      BY <1>1, <2>1, <2>2 DEF MoneyKept
<1> QED
    BY <1>3, <1>5, <1>9 DEF MoneyInv

\* What a save does to the history, and to the sum over it.
LEMMA SavedIs ==
    ASSUME MoneyInv, NEW eur \in 0 .. MaxCost, Saved(eur)
    PROVE  /\ history' \subseteq Events /\ saved' \in Nat
           /\ IsFiniteSet(history') /\ \A e \in history' : e.nr <= saved'
           /\ Cardinality(UnitsOf(history')) = Cardinality(UnitsOf(history)) + eur
<1>1. PICK stored \in BOOLEAN :
          saved' = saved + 1 /\ history' = history \cup {Event(saved + 1, eur, stored)}
    BY DEF Saved
<1>2. PICK e : e = Event(saved + 1, eur, stored)
    OBVIOUS
<1>3. /\ history \in SUBSET Events /\ IsFiniteSet(history) /\ saved \in Nat
      /\ \A f \in history : f.nr <= saved
    BY DEF MoneyInv, MoneyTyped, MoneySound, Events, MaxCost
<1>4. e \in Events /\ e.nr = saved + 1 /\ e.eur = eur
    BY <1>2, <1>3 DEF Event, Events
<1>5. e \notin history
    BY <1>3, <1>4
<1>6. history' = history \cup {e}
    BY <1>1, <1>2
<1>7. IsFiniteSet(history \cup {e})
    BY <1>3, FS_AddElement
<1>8. \A f \in history : f.nr \in Nat
    BY <1>3 DEF Events
<1>9. \A f \in history' : f.nr <= saved'
    BY <1>1, <1>3, <1>4, <1>6, <1>8
<1>10. Cardinality(UnitsOf(history \cup {e})) = Cardinality(UnitsOf(history)) + e.eur
    BY <1>3, <1>4, <1>5, UnitsAdded
<1> QED
    BY <1>1, <1>3, <1>4, <1>6, <1>7, <1>9, <1>10

MoneyFacts ==
    /\ highest \in Caps /\ saved \in Nat /\ calls \in 0 .. MaxCalls /\ calls \in Nat
    /\ history \in SUBSET Events /\ billed \in Nat /\ unseen \in BOOLEAN
    /\ IsFiniteSet(history) /\ (\A e \in history : e.nr <= saved)
    /\ Cardinality(UnitsOf(history)) \in Nat /\ highest \in Nat /\ MaxCalls \in Nat

LEMMA MoneyFactsHold == ASSUME MoneyInv PROVE MoneyFacts
<1>1. /\ highest \in Caps /\ saved \in Nat /\ calls \in 0 .. MaxCalls
      /\ history \in SUBSET Events /\ billed \in Nat /\ unseen \in BOOLEAN
      /\ IsFiniteSet(history) /\ \A e \in history : e.nr <= saved
    BY DEF MoneyInv, MoneyTyped, MoneySound, Events, MaxCost
<1>2. highest \in Nat /\ calls \in Nat /\ MaxCalls \in Nat
    BY <1>1, CapAssumption, WindowAssumption
<1>3. Cardinality(UnitsOf(history)) \in Nat
    BY <1>1, UnitsFinite
<1> QED
    BY <1>1, <1>2, <1>3 DEF MoneyFacts

LEMMA MoneyTypedIs ==
    ASSUME highest' \in Caps, saved' \in Nat, calls' \in 0 .. MaxCalls, history' \subseteq Events,
           billed' \in Nat, unseen' \in BOOLEAN
    PROVE  MoneyTyped'
    BY DEF MoneyTyped, Events, MaxCost

\* A call moves on, and neither the history nor what was charged changes.
LEMMA QuietStep ==
    ASSUME MoneyInv, call \in [Threads -> Calls], NEW t \in Threads, NEW d \in Calls,
           call' = [call EXCEPT ![t] = d],
           UNCHANGED <<tracked, billed, highest, unseen>>, calls' \in 0 .. MaxCalls,
           d.pc \in {"calling", "auditing", "chaining", "recording"} =>
              d.prompt <= highest /\ (d.prompt = 0 => d.reply = 0),
           d.pc \in {"idle", "checking", "calling"} => d.reply = 0,
           DueOf(d) = DueOf(call[t]), RiskOf(d) = RiskOf(call[t])
    PROVE  MoneyInv'
<1>1. MoneyFacts
    BY MoneyFactsHold
<1>2. history' = history /\ saved' = saved
    BY DEF tracked
<1>3. MoneyTyped'
    BY <1>1, <1>2, MoneyTypedIs DEF MoneyFacts
<1>4. /\ DueOf(d) \in Nat /\ RiskOf(d) \in Nat
    BY CostsAre
<1>5. 0 \in Nat /\ billed' = billed + 0
      /\ Cardinality(UnitsOf(history')) = Cardinality(UnitsOf(history)) + 0
    BY <1>1, <1>2 DEF MoneyFacts
<1>6. 0 = 0 + DueOf(d) - DueOf(call[t]) /\ 0 + RiskOf(d) <= RiskOf(call[t])
    BY <1>4
<1>7. /\ IsFiniteSet(history') /\ (\A e \in history' : e.nr <= saved') /\ highest <= highest'
      /\ (unseen => unseen')
    BY <1>1, <1>2 DEF MoneyFacts
<1>8. d.pc \in {"calling", "auditing", "chaining", "recording"} =>
         d.prompt <= highest' /\ (d.prompt = 0 => d.reply = 0)
    OBVIOUS
<1> QED
    BY <1>3, <1>5, <1>6, <1>7, <1>8, MoneyStep

CallTyped == call \in [Threads -> Calls] /\ cap \in Caps

LEMMA AdmitMoney ==
    ASSUME MoneyInv, CallTyped, NEW t \in Threads, Admit(t) PROVE MoneyInv'
<1>1. MoneyFacts
    BY MoneyFactsHold
<1>2. PICK d : d = [call[t] EXCEPT !.pc = "calling"]
    OBVIOUS
<1>3. call[t] \in Calls /\ call[t].pc = "checking" /\ call[t].reply = 0
    BY DEF Admit, CallTyped, MoneyInv, MoneySound
<1>4. /\ d \in Calls /\ d.pc = "calling" /\ d.prompt = call[t].prompt /\ d.reply = 0
      /\ d.cap = call[t].cap
    BY <1>2, <1>3 DEF Calls, Pcs
<1>5. call' = [call EXCEPT ![t] = d]
    BY <1>2 DEF Admit, CallGoesTo, CallTyped
<1>6. /\ history' = history /\ saved' = saved /\ calls' = calls /\ billed' = billed
      /\ unseen' = (unseen \/ (call[t].prompt > 0 /\ Hidden))
      /\ highest' = IF call[t].cap > highest THEN call[t].cap ELSE highest
    BY DEF Admit, tracked
<1>7. call[t].cap \in Caps /\ call[t].cap \in Nat /\ call[t].prompt \in Nat
    BY <1>3, CostsAre
<1>8. highest' \in Caps /\ highest <= highest' /\ call[t].cap <= highest' /\ highest' \in Nat
    BY <1>1, <1>6, <1>7, CapAssumption DEF MoneyFacts
<1>9. unseen' \in BOOLEAN /\ (unseen => unseen')
    BY <1>1, <1>6 DEF MoneyFacts
<1>10. MoneyTyped'
    BY <1>1, <1>6, <1>8, <1>9, MoneyTypedIs DEF MoneyFacts
<1>11. DueOf(d) = 0 /\ DueOf(call[t]) = 0 /\ RiskOf(call[t]) = 0
    BY <1>3, <1>4 DEF DueOf, RiskOf
<1>12. Visible \in SUBSET history
    BY DEF Visible
<1>13. call[t].prompt # 0 => Spent \in Nat /\ Spent + call[t].prompt <= call[t].cap
  <2>1. IsFiniteSet(Visible) /\ Visible \in SUBSET Events
      BY <1>1, <1>12, FS_Subset DEF MoneyFacts
  <2> QED
      BY <2>1, UnitsFinite DEF Admit, WithinCap, Spent
<1>14. call[t].prompt # 0 => call[t].prompt <= call[t].cap
    BY <1>7, <1>13
<1>15. d.prompt <= highest' /\ (d.prompt = 0 => d.reply = 0)
    BY <1>4, <1>7, <1>8, <1>14
<1>16. ASSUME ~unseen', call[t].prompt # 0
       PROVE  Cardinality(UnitsOf(history)) + d.prompt <= highest'
  <2>6. Hidden \in BOOLEAN
      BY DEF Hidden
  <2>1. ~Hidden
      BY <1>6, <1>7, <1>16, <2>6
  <2>2. \A e \in history \ Visible : e.eur \in Nat /\ ~(e.eur > 0)
      BY <1>1, <2>1, CostsAre DEF Hidden, MoneyFacts, Events
  <2>3. \A e \in history \ Visible : e.eur = 0
      BY <2>2
  <2>4. UnitsOf(Visible) = UnitsOf(history)
      BY <1>1, <1>12, <2>3, FreeEvents DEF MoneyFacts
  <2>5. Spent = Cardinality(UnitsOf(history))
      BY <2>4 DEF Spent
  <2> QED
      BY <1>4, <1>7, <1>8, <1>13, <1>16, <2>5
<1>17. ~unseen' => \/ 0 + RiskOf(d) <= RiskOf(call[t])
                   \/ /\ 0 = 0 /\ d.pc = "calling" /\ d.prompt # 0
                      /\ Cardinality(UnitsOf(history)) + d.prompt <= highest'
  <2>1. CASE call[t].prompt = 0
    <3>1. RiskOf(d) = 0
        BY <1>4, <2>1 DEF RiskOf
    <3> QED
        BY <1>11, <3>1
  <2>2. CASE call[t].prompt # 0
      BY <1>4, <1>16, <2>2
  <2> QED
      BY <2>1, <2>2
<1>18. /\ billed' = billed + 0 /\ 0 \in Nat /\ 0 = 0 + DueOf(d) - DueOf(call[t])
       /\ Cardinality(UnitsOf(history')) = Cardinality(UnitsOf(history)) + 0
    BY <1>1, <1>6, <1>11 DEF MoneyFacts
<1>19. IsFiniteSet(history') /\ \A e \in history' : e.nr <= saved'
    BY <1>1, <1>6 DEF MoneyFacts
<1> QED
    BY <1>4, <1>5, <1>8, <1>9, <1>10, <1>15, <1>17, <1>18, <1>19, MoneyStep DEF CallTyped

\* The provider answers, or the call breaks off.
LEMMA AnswerMoney ==
    ASSUME MoneyInv, CallTyped, NEW t \in Threads, Answer(t) \/ Break(t) PROVE MoneyInv'
<1>1. MoneyFacts
    BY MoneyFactsHold
<1>2. call[t] \in Calls /\ call[t].pc = "calling" /\ call[t].reply = 0
    BY DEF Answer, Break, CallTyped, MoneyInv, MoneySound
<1>3. /\ call[t].prompt \in Nat /\ call[t].prompt <= MaxPrompt /\ MaxReply \in Nat
      /\ call[t].prompt <= highest
    BY <1>2, CostsAre DEF MoneyInv, MoneySound
<1>4. PICK reply \in 0 .. MaxReply, kept \in 0 .. MaxReply :
          /\ call' = [call EXCEPT ![t].pc = "auditing", ![t].reply = kept]
          /\ billed' = billed + call[t].prompt + reply
          /\ unseen' \in BOOLEAN /\ (unseen => unseen') /\ (~unseen' => kept = reply)
          /\ call[t].prompt = 0 => kept = 0
  <2>1. CASE Answer(t)
    <3>1. PICK reply \in IF call[t].prompt = 0 THEN {0} ELSE 0 .. MaxReply :
              /\ call' = [call EXCEPT ![t].pc = "auditing", ![t].reply = reply]
              /\ billed' = billed + call[t].prompt + reply
        BY <2>1 DEF Answer
    <3>2. unseen' = unseen
        BY <2>1 DEF Answer
    <3>3. reply \in 0 .. MaxReply /\ (call[t].prompt = 0 => reply = 0)
        BY <1>3, <3>1
    <3> QED
        BY <1>1, <3>1, <3>2, <3>3 DEF MoneyFacts
  <2>2. CASE Break(t)
    <3>1. PICK reply \in 0 .. MaxReply : /\ billed' = billed + call[t].prompt + reply
                                         /\ unseen' = (unseen \/ reply > 0)
        BY <2>2 DEF Break
    <3>2. call' = [call EXCEPT ![t].pc = "auditing", ![t].reply = 0]
      <4>1. call' = [call EXCEPT ![t].pc = "auditing"]
          BY <2>2 DEF Break, CallGoesTo
      <4>2. [call[t] EXCEPT !.pc = "auditing"] = [call[t] EXCEPT !.pc = "auditing", !.reply = 0]
          BY <1>2 DEF Calls
      <4> QED
          BY <4>1, <4>2 DEF CallTyped
    <3>3. 0 \in 0 .. MaxReply /\ (~unseen' => reply = 0)
      <4>1. 0 \in 0 .. MaxReply
          BY CostsAre
      <4>2. reply = 0 \/ reply > 0
          BY CostsAre, <3>1
      <4>3. ~unseen' => ~(reply > 0)
          BY <3>1, Zenon
      <4> QED
          BY <4>1, <4>2, <4>3, Zenon
    <3>4. unseen' \in BOOLEAN /\ (unseen => unseen')
        BY <3>1
    <3> QED
        BY <3>1, <3>2, <3>3, <3>4
  <2> QED
      BY <2>1, <2>2
<1>5. PICK d : d = [call[t] EXCEPT !.pc = "auditing", !.reply = kept]
    OBVIOUS
<1>6. d \in Calls /\ d.pc = "auditing" /\ d.prompt = call[t].prompt /\ d.reply = kept
    BY <1>2, <1>5 DEF Calls, Pcs
<1>7. call' = [call EXCEPT ![t] = d]
    BY <1>4, <1>5 DEF CallTyped
<1>8. history' = history /\ saved' = saved /\ calls' = calls /\ highest' = highest
    BY DEF Answer, Break, tracked
<1>9. PICK b \in Nat : b = call[t].prompt + reply
    BY <1>3
<1>10. billed' = billed + b /\ billed' \in Nat
    BY <1>1, <1>3, <1>4, <1>9 DEF MoneyFacts
<1>11. MoneyTyped'
    BY <1>1, <1>4, <1>8, <1>10, MoneyTypedIs DEF MoneyFacts
<1>12. /\ DueOf(call[t]) = 0 /\ DueOf(d) = call[t].prompt + kept /\ RiskOf(d) = DueOf(d)
       /\ RiskOf(call[t]) = IF call[t].prompt = 0 THEN 0 ELSE call[t].prompt + MaxReply
    BY <1>2, <1>6 DEF DueOf, RiskOf
<1>13. ~unseen' => b = 0 + DueOf(d) - DueOf(call[t])
    BY <1>3, <1>4, <1>9, <1>12
<1>14. 0 + RiskOf(d) <= RiskOf(call[t])
    BY <1>3, <1>4, <1>12
<1>15. /\ 0 \in Nat /\ highest <= highest' /\ IsFiniteSet(history')
       /\ (\A e \in history' : e.nr <= saved')
       /\ Cardinality(UnitsOf(history')) = Cardinality(UnitsOf(history)) + 0
    BY <1>1, <1>8 DEF MoneyFacts
<1>16. d.prompt <= highest' /\ (d.prompt = 0 => d.reply = 0)
    BY <1>3, <1>4, <1>6, <1>8
<1>17. d.pc \notin {"idle", "checking", "calling"}
    BY <1>6
<1>18. call \in [Threads -> Calls]
    BY DEF CallTyped
<1>19. unseen => unseen'
    BY <1>4
<1> QED
    BY <1>6, <1>7, <1>10, <1>11, <1>13, <1>14, <1>15, <1>16, <1>17, <1>18, <1>19, MoneyStep

\* The cost goes from what is due to what is on record.
LEMMA RecordMoney ==
    ASSUME MoneyInv, CallTyped, NEW t \in Threads, RecordCost(t) PROVE MoneyInv'
<1>1. MoneyFacts
    BY MoneyFactsHold
<1>2. call[t] \in Calls /\ call[t].pc = "recording"
    BY DEF RecordCost, CallTyped
<1>3. PICK r \in 0 .. MaxCost : r = Cost(t) /\ r = DueOf(call[t]) /\ r = RiskOf(call[t])
  <2>1. Cost(t) = DueOf(call[t]) /\ Cost(t) = RiskOf(call[t])
      BY <1>2 DEF Cost, DueOf, RiskOf
  <2> QED
      BY <1>2, <2>1, CostsAre
<1>4. /\ history' \subseteq Events /\ saved' \in Nat
      /\ IsFiniteSet(history') /\ (\A e \in history' : e.nr <= saved')
      /\ Cardinality(UnitsOf(history')) = Cardinality(UnitsOf(history)) + r
    BY <1>3, SavedIs DEF RecordCost
<1>5. PICK d : /\ call' = [call EXCEPT ![t] = d] /\ d \in Calls
               /\ d.pc \in {"idle", "receipt"} /\ d.reply = 0
  <2>1. /\ CallAt("idle", call[t].cap, 0, 0, 0, 0) \in Calls
        /\ CallAt("receipt", call[t].cap, 0, 0, call[t].own, 0) \in Calls
      BY <1>2, CostsAre DEF CallAt, Calls, Pcs
  <2> QED
      BY <2>1 DEF RecordCost, Ends, CallAt
<1>6. DueOf(d) = 0 /\ RiskOf(d) = 0
    BY <1>5 DEF DueOf, RiskOf
<1>7. billed' = billed /\ unseen' = unseen /\ highest' = highest /\ calls' = calls
    BY DEF RecordCost
<1>8. MoneyTyped'
    BY <1>1, <1>4, <1>7, MoneyTypedIs DEF MoneyFacts
<1>9. r \in Nat /\ 0 = r + DueOf(d) - DueOf(call[t]) /\ r + RiskOf(d) <= RiskOf(call[t])
    BY <1>3, <1>6, CostsAre
<1>10. 0 \in Nat /\ billed' = billed + 0 /\ highest <= highest'
    BY <1>1, <1>7 DEF MoneyFacts
<1>11. d.pc \notin {"calling", "auditing", "chaining", "recording"}
    BY <1>5
<1>12. call \in [Threads -> Calls]
    BY DEF CallTyped
<1> QED
    BY <1>4, <1>5, <1>7, <1>8, <1>9, <1>10, <1>11, <1>12, MoneyStep

\* A check that refuses, and any other event: both are saved and cost nothing.
LEMMA RefuseMoney ==
    ASSUME MoneyInv, CallTyped, NEW t \in Threads, Refuse(t) PROVE MoneyInv'
<1>1. MoneyFacts
    BY MoneyFactsHold
<1>2. call[t] \in Calls /\ call[t].pc = "checking"
    BY DEF Refuse, CallTyped
<1>3. 0 \in 0 .. MaxCost
    BY CostsAre
<1>4. /\ history' \subseteq Events /\ saved' \in Nat
      /\ IsFiniteSet(history') /\ (\A e \in history' : e.nr <= saved')
      /\ Cardinality(UnitsOf(history')) = Cardinality(UnitsOf(history)) + 0
    BY <1>3, SavedIs DEF Refuse
<1>5. PICK d : d = CallAt("idle", call[t].cap, 0, 0, 0, 0)
    OBVIOUS
<1>6. call' = [call EXCEPT ![t] = d] /\ d \in Calls /\ d.pc = "idle" /\ d.reply = 0
    BY <1>2, <1>5, CostsAre DEF Refuse, Ends, CallAt, Calls, Pcs
<1>7. DueOf(d) = 0 /\ RiskOf(d) = 0 /\ DueOf(call[t]) = 0 /\ RiskOf(call[t]) = 0
    BY <1>2, <1>6 DEF DueOf, RiskOf
<1>8. billed' = billed /\ unseen' = unseen /\ highest' = highest /\ calls' = calls
    BY DEF Refuse
<1>9. MoneyTyped'
    BY <1>1, <1>4, <1>8, MoneyTypedIs DEF MoneyFacts
<1>10. /\ 0 \in Nat /\ billed' = billed + 0 /\ highest <= highest'
       /\ 0 = 0 + DueOf(d) - DueOf(call[t]) /\ 0 + RiskOf(d) <= RiskOf(call[t])
    BY <1>1, <1>7, <1>8 DEF MoneyFacts
<1>11. call \in [Threads -> Calls]
    BY DEF CallTyped
<1> QED
    BY <1>4, <1>6, <1>8, <1>9, <1>10, <1>11, MoneyStep

LEMMA OtherEventMoney == ASSUME MoneyInv, OtherEvent PROVE MoneyInv'
<1>1. MoneyFacts
    BY MoneyFactsHold
<1>2. 0 \in 0 .. MaxCost
    BY CostsAre
<1>3. /\ history' \subseteq Events /\ saved' \in Nat
      /\ IsFiniteSet(history') /\ (\A e \in history' : e.nr <= saved')
      /\ Cardinality(UnitsOf(history')) = Cardinality(UnitsOf(history)) + 0
    BY <1>2, SavedIs DEF OtherEvent
<1>4. /\ billed' = billed /\ unseen' = unseen /\ highest' = highest /\ call' = call
      /\ calls' = calls + 1 /\ calls < MaxCalls
    BY DEF OtherEvent
<1>5. calls' \in 0 .. MaxCalls
    BY <1>1, <1>4 DEF MoneyFacts
<1>6. MoneyTyped'
    BY <1>1, <1>3, <1>4, <1>5, MoneyTypedIs DEF MoneyFacts
<1>7. MoneySound'
    BY <1>3, <1>4 DEF MoneyInv, MoneySound
<1>8. Due' = Due /\ Risk' = Risk
    BY <1>4 DEF Due, Risk
<1>9. Cardinality(UnitsOf(history')) = Cardinality(UnitsOf(history))
    BY <1>1, <1>3 DEF MoneyFacts
<1>10. MoneyKept'
    BY <1>4, <1>8, <1>9 DEF MoneyInv, MoneyKept, Area, UnitsOf, Tolerance
<1> QED
    BY <1>6, <1>7, <1>10 DEF MoneyInv

\* The first of a month: what is on record counts no more, what is due does.
LEMMA MonthMoney == ASSUME MoneyInv, CallTyped, NewMonth PROVE MoneyInv'
<1>1. MoneyFacts
    BY MoneyFactsHold
<1>2. /\ history' = {Event(e.nr, 0, e.stored) : e \in history}
      /\ billed' = Cardinality({x \in Unrecorded \X Units : x[2] <= Cost(x[1])})
      /\ unseen' = FALSE /\ saved' = saved /\ call' = call /\ calls' = calls /\ highest' = highest
    BY DEF NewMonth
<1>3. \A e \in history' : e \in Events /\ e.eur = 0 /\ e.nr <= saved'
  <2>1. ASSUME NEW e \in history
        PROVE  LET f == Event(e.nr, 0, e.stored) IN f \in Events /\ f.eur = 0 /\ f.nr <= saved
      BY <1>1, CostsAre DEF MoneyFacts, Event, Events
  <2> QED
      BY <1>2, <2>1
<1>4. IsFiniteSet(history')
  <2> DEFINE f == [e \in history |-> Event(e.nr, 0, e.stored)]
  <2>1. f \in Surjection(history, history')
      BY <1>2 DEF Surjection
  <2> QED
      BY <1>1, <2>1, FS_Surjection DEF MoneyFacts
<1>5. {x \in Unrecorded \X Units : x[2] <= Cost(x[1])} = Area(Due)
  <2>1. \A t \in Threads : Due[t] = IF t \in Unrecorded THEN Cost(t) ELSE 0
      BY DEF Due, DueOf, Unrecorded, Cost
  <2>2. Unrecorded \subseteq Threads
      BY DEF Unrecorded
  <2>3. \A n \in Units : ~(n <= 0)
      BY CostsAre
  <2> QED
      BY <2>1, <2>2, <2>3 DEF Area
<1>6. Due \in Curves /\ Risk \in Curves
    BY CurvesAre DEF CallTyped
<1>7. PICK t \in Threads : TRUE
    BY ThreadAssumption
<1>8. Cardinality(Area(Due)) \in Nat
    BY <1>6, <1>7, AreaSplits
<1>9. MoneyTyped'
  <2>1. billed' \in Nat
      BY <1>2, <1>5, <1>8
  <2> QED
      BY <1>1, <1>2, <1>3, <2>1, MoneyTypedIs DEF MoneyFacts
<1>10. MoneySound'
    BY <1>2, <1>3, <1>4 DEF MoneyInv, MoneySound
<1>11. UnitsOf(history') = {}
    BY <1>3, CostsAre DEF UnitsOf
<1>12. Cardinality(UnitsOf(history')) = 0
    BY <1>11, FS_EmptySet
<1>13. Cardinality(Area(Risk)) <= highest + Tolerance
    BY <1>1, RiskBounded DEF CallTyped, MoneyInv, MoneySound, MoneyFacts
<1>14. Cardinality(Area(Risk)) \in Nat
    BY <1>6, <1>7, AreaSplits
<1>15. Due' = Due /\ Risk' = Risk
    BY <1>2 DEF Due, Risk
<1>16. MoneyKept'
  <2>1. billed' = 0 + Cardinality(Area(Due))
      BY <1>2, <1>5, <1>8
  <2>2. 0 + Cardinality(Area(Risk)) <= highest + Tolerance
      BY <1>13, <1>14
  <2> QED
      BY <1>2, <1>12, <1>15, <2>1, <2>2 DEF MoneyKept, Area, UnitsOf, Tolerance
<1> QED
    BY <1>9, <1>10, <1>16 DEF MoneyInv

\* A restart loses events that were not written and the calls under way; if
\* any of them cost anything, it is known.
LEMMA RestartMoney == ASSUME MoneyInv, CallTyped, Restart PROVE MoneyInv'
<1>1. MoneyFacts
    BY MoneyFactsHold
<1>2. /\ history' = {e \in history : e.stored}
      /\ unseen' = \/ unseen
                   \/ \E e \in history : ~ e.stored /\ e.eur > 0
                   \/ \E t \in Unrecorded : call[t].prompt > 0
      /\ call' = [t \in Threads |-> CallAt("idle", cap, 0, 0, 0, 0)]
      /\ saved' = saved /\ calls' = calls /\ highest' = highest /\ billed' = billed
    BY DEF Restart
<1>3. history' \in SUBSET history /\ IsFiniteSet(history')
    BY <1>1, <1>2, FS_Subset DEF MoneyFacts
<1>4. unseen' \in BOOLEAN
    BY <1>2
<1>5. MoneyTyped'
    BY <1>1, <1>2, <1>3, <1>4, MoneyTypedIs DEF MoneyFacts
<1>6. \A t \in Threads : call'[t].pc = "idle" /\ call'[t].reply = 0
    BY <1>2 DEF CallAt
<1>7. MoneySound'
    BY <1>1, <1>2, <1>3, <1>6 DEF MoneyFacts, MoneySound
<1>8. Area(Due)' = {} /\ Area(Risk)' = {}
  <2>1. \A t \in Threads : DueOf(call'[t]) = 0 /\ RiskOf(call'[t]) = 0
      BY <1>6 DEF DueOf, RiskOf
  <2> QED
      BY <2>1, CostsAre DEF Area, Due, Risk, DueOf, RiskOf
<1>9. ASSUME ~unseen' PROVE Area(Due) = {} /\ UnitsOf(history') = UnitsOf(history)
  <2>1. /\ \A e \in history : e.stored \/ ~(e.eur > 0)
        /\ \A t \in Unrecorded : ~(call[t].prompt > 0)
      BY <1>2, <1>9
  <2>2. \A e \in history \ history' : e.eur = 0
      BY <1>1, <1>2, <2>1, CostsAre DEF MoneyFacts, Events
  <2>3. UnitsOf(history') = UnitsOf(history)
      BY <1>1, <1>3, <2>2, FreeEvents DEF MoneyFacts
  <2>4. ASSUME NEW t \in Threads PROVE DueOf(call[t]) = 0
    <3>1. CASE t \in Unrecorded
      <4>1. call[t] \in Calls /\ ~(call[t].prompt > 0)
          BY <2>1, <3>1 DEF CallTyped
      <4>2. call[t].prompt = 0
          BY <4>1, CostsAre
      <4>3. call[t].reply = 0
          BY <3>1, <4>2 DEF Unrecorded, MoneyInv, MoneySound
      <4> QED
          BY <4>2, <4>3 DEF DueOf
    <3>2. CASE t \notin Unrecorded
        BY <3>2 DEF Unrecorded, DueOf
    <3> QED
        BY <3>1, <3>2
  <2>5. Area(Due) = {}
      BY <2>4, CostsAre DEF Area, Due
  <2> QED
      BY <2>3, <2>5
<1>10. MoneyKept'
  <2>1. SUFFICES ASSUME ~unseen'
                 PROVE  /\ billed' = Cardinality(UnitsOf(history')) + Cardinality(Area(Due)')
                        /\ Cardinality(UnitsOf(history')) + Cardinality(Area(Risk)')
                              <= highest' + Tolerance
      BY DEF MoneyKept, Area, UnitsOf, Tolerance
  <2>2. ~unseen
      BY <1>1, <1>2, <2>1 DEF MoneyFacts
  <2>3. billed = Cardinality(UnitsOf(history)) + Cardinality(Area(Due))
      BY <2>2 DEF MoneyInv, MoneyKept
  <2>4. Cardinality(UnitsOf(history)) + Cardinality(Area(Risk)) <= highest + Tolerance
      BY <2>2 DEF MoneyInv, MoneyKept
  <2>5. Area(Due) = {} /\ UnitsOf(history') = UnitsOf(history)
      BY <1>9, <2>1
  <2>6. Cardinality(Area(Due)) = 0 /\ Cardinality(Area(Due)') = 0 /\ Cardinality(Area(Risk)') = 0
      BY <1>8, <2>5, FS_EmptySet
  <2>7. PICK n \in Nat : n = Cardinality(Area(Risk))
      BY CurvesAre, ThreadAssumption, AreaSplits DEF CallTyped
  <2>8. PICK u \in Nat : u = Cardinality(UnitsOf(history))
      BY <1>1 DEF MoneyFacts
  <2>9. u + 0 <= highest + Tolerance
      BY <1>1, <2>4, <2>7, <2>8, ToleranceIs DEF MoneyFacts
  <2> QED
      BY <1>2, <2>3, <2>5, <2>6, <2>8, <2>9
<1> QED
    BY <1>5, <1>7, <1>10 DEF MoneyInv

LEMMA NextMoney == ReceiptInv /\ MoneyInv /\ [DispatchNext]_dispatchVars => MoneyInv'
<1> SUFFICES ASSUME ReceiptInv, MoneyInv, [DispatchNext]_dispatchVars PROVE MoneyInv'
    OBVIOUS
<1>1. CallTyped /\ MoneyFacts /\ call \in [Threads -> Calls] /\ headSeq \in Nat /\ written \in Nat
    BY MoneyFactsHold DEF ReceiptInv, HeadTyped, CallTyped, Calls
<1>2. ASSUME NEW t \in Threads, NewContext(t) PROVE MoneyInv'
  <2>1. PICK d : d = [call[t] EXCEPT !.cap = cap]
      OBVIOUS
  <2>2. /\ d \in Calls /\ d.pc = "idle" /\ d.reply = 0 /\ call[t].pc = "idle"
        /\ call' = [call EXCEPT ![t] = d]
      BY <1>1, <1>2, <2>1 DEF NewContext, CallTyped, Calls, MoneyInv, MoneySound
  <2>3. /\ UNCHANGED <<tracked, billed, highest, unseen>> /\ calls' \in 0 .. MaxCalls
      BY <1>1, <1>2 DEF NewContext, MoneyFacts
  <2>4. DueOf(d) = DueOf(call[t]) /\ RiskOf(d) = RiskOf(call[t])
      BY <2>2 DEF DueOf, RiskOf
  <2> QED
      BY <1>1, <2>2, <2>3, <2>4, QuietStep
<1>3. ASSUME NEW t \in Threads, Begin(t) PROVE MoneyInv'
  <2>1. PICK prompt \in 0 .. MaxPrompt :
            call' = [call EXCEPT ![t] = CallAt("checking", call[t].cap, prompt, 0, 0, 0)]
      BY <1>3 DEF Begin
  <2>2. PICK d : d = CallAt("checking", call[t].cap, prompt, 0, 0, 0)
      OBVIOUS
  <2>3. /\ d \in Calls /\ d.pc = "checking" /\ d.reply = 0 /\ call[t].pc = "idle"
        /\ call' = [call EXCEPT ![t] = d]
    <3>1. call[t].cap \in Caps /\ 0 \in 0 .. MaxReply /\ 0 \in Nat
        BY <1>1, CostsAre DEF Calls
    <3>2. d \in Calls
        BY <2>1, <2>2, <3>1 DEF CallAt, Calls, Pcs
    <3>3. d.pc = "checking" /\ d.reply = 0
        BY <2>2 DEF CallAt
    <3>4. call[t].pc = "idle" /\ call' = [call EXCEPT ![t] = d]
        BY <1>3, <2>1, <2>2 DEF Begin
    <3> QED
        BY <3>2, <3>3, <3>4
  <2>4. /\ UNCHANGED <<tracked, billed, highest, unseen>> /\ calls' \in 0 .. MaxCalls
      BY <1>1, <1>3 DEF Begin, MoneyFacts
  <2>5. DueOf(d) = DueOf(call[t]) /\ RiskOf(d) = RiskOf(call[t])
      BY <2>3 DEF DueOf, RiskOf
  <2> QED
      BY <1>1, <2>3, <2>4, <2>5, QuietStep
<1>4. ASSUME NEW t \in Threads, EmitRecord(t) \/ EmitChain(t) \/ EmitFails(t) PROVE MoneyInv'
  <2>1. PICK d : /\ call' = [call EXCEPT ![t] = d] /\ d \in Calls
                 /\ d.pc \in {"chaining", "recording"}
                 /\ d.prompt = call[t].prompt /\ d.reply = call[t].reply
    <3>1. CASE EmitRecord(t)
      <4>1. PICK d : d = [call[t] EXCEPT !.pc = "chaining", !.own = written + 1]
          OBVIOUS
      <4>2. written + 1 \in Nat /\ call[t] \in Calls
          BY <1>1
      <4>3. d \in Calls /\ d.pc = "chaining" /\ d.prompt = call[t].prompt
            /\ d.reply = call[t].reply
          BY <4>1, <4>2 DEF Calls, Pcs
      <4> QED
          BY <1>1, <3>1, <4>1, <4>3 DEF EmitRecord
    <3>2. CASE EmitChain(t) \/ EmitFails(t)
      <4>1. PICK d : d = [call[t] EXCEPT !.pc = "recording"]
          OBVIOUS
      <4>2. d \in Calls /\ d.pc = "recording" /\ d.prompt = call[t].prompt
            /\ d.reply = call[t].reply
          BY <1>1, <4>1 DEF Calls, Pcs
      <4> QED
          BY <1>1, <3>2, <4>1, <4>2 DEF EmitChain, EmitFails, CallGoesTo
    <3> QED
        BY <1>4, <3>1, <3>2
  <2>2. call[t].pc \in {"auditing", "chaining"}
      BY <1>4 DEF EmitRecord, EmitChain, EmitFails
  <2>3. /\ UNCHANGED <<tracked, billed, highest, unseen>> /\ calls' \in 0 .. MaxCalls
      BY <1>1, <1>4 DEF EmitRecord, EmitChain, EmitFails, MoneyFacts
  <2>4. DueOf(d) = DueOf(call[t]) /\ RiskOf(d) = RiskOf(call[t])
      BY <2>1, <2>2 DEF DueOf, RiskOf
  <2>5. d.prompt <= highest /\ (d.prompt = 0 => d.reply = 0)
      BY <2>1, <2>2 DEF MoneyInv, MoneySound
  <2>6. d.pc \notin {"idle", "checking", "calling"}
      BY <2>1
  <2> QED
      BY <1>1, <2>1, <2>3, <2>4, <2>5, <2>6, QuietStep
<1>5. ASSUME NEW t \in Threads, ReadSeq(t) \/ SaveReceipt(t) PROVE MoneyInv'
  <2>1. PICK d : /\ call' = [call EXCEPT ![t] = d] /\ d \in Calls
                 /\ \/ d.pc = "chained"
                    \/ d.pc = "idle" /\ d.reply = 0
    <3>1. CASE ReadSeq(t)
      <4>1. PICK d : d = [call[t] EXCEPT !.pc = "chained", !.seq = headSeq]
          OBVIOUS
      <4>2. d \in Calls /\ d.pc = "chained"
          BY <1>1, <4>1 DEF Calls, Pcs
      <4> QED
          BY <1>1, <3>1, <4>1, <4>2 DEF ReadSeq
    <3>2. CASE SaveReceipt(t)
      <4>1. PICK d : d = CallAt("idle", call[t].cap, 0, 0, 0, 0)
          OBVIOUS
      <4>2. call[t].cap \in Caps /\ 0 \in 0 .. MaxReply /\ 0 \in 0 .. MaxPrompt /\ 0 \in Nat
          BY <1>1, CostsAre DEF Calls
      <4>3. d \in Calls /\ d.pc = "idle" /\ d.reply = 0
          BY <4>1, <4>2 DEF CallAt, Calls, Pcs
      <4>4. call' = [call EXCEPT ![t] = d]
          BY <3>2, <4>1 DEF SaveReceipt, Ends
      <4> QED
          BY <4>3, <4>4
    <3> QED
        BY <1>5, <3>1, <3>2
  <2>2. call[t].pc \in {"receipt", "chained"}
      BY <1>5 DEF ReadSeq, SaveReceipt
  <2>3. /\ UNCHANGED <<tracked, billed, highest, unseen>> /\ calls' \in 0 .. MaxCalls
      BY <1>1, <1>5 DEF ReadSeq, SaveReceipt, MoneyFacts
  <2>4. DueOf(d) = DueOf(call[t]) /\ RiskOf(d) = RiskOf(call[t])
      BY <2>1, <2>2 DEF DueOf, RiskOf
  <2>5. d.pc \notin {"calling", "auditing", "chaining", "recording", "checking"}
      BY <2>1
  <2> QED
      BY <1>1, <2>1, <2>3, <2>4, <2>5, QuietStep
<1>6. CASE SetCap \/ UNCHANGED dispatchVars
  <2>1. /\ history' = history /\ saved' = saved /\ call' = call /\ billed' = billed
        /\ highest' = highest /\ unseen' = unseen
      BY <1>6 DEF SetCap, dispatchVars, tracked
  <2>2. calls' \in 0 .. MaxCalls
      BY <1>1, <1>6 DEF SetCap, dispatchVars, MoneyFacts
  <2>3. MoneyTyped'
      BY <1>1, <2>1, <2>2, MoneyTypedIs DEF MoneyFacts
  <2>4. MoneySound'
      BY <2>1 DEF MoneyInv, MoneySound
  <2>5. Due' = Due /\ Risk' = Risk
      BY <2>1 DEF Due, Risk
  <2>6. MoneyKept'
      BY <2>1, <2>5 DEF MoneyInv, MoneyKept, Area, UnitsOf, Tolerance
  <2> QED
      BY <2>3, <2>4, <2>6 DEF MoneyInv
<1> QED
    BY <1>1, <1>2, <1>3, <1>4, <1>5, <1>6, AdmitMoney, RefuseMoney, AnswerMoney, RecordMoney,
       OtherEventMoney, MonthMoney, RestartMoney DEF DispatchNext

LEMMA MoneyBounded == ASSUME MoneyInv, CallTyped PROVE CapOvershoot
<1>1. SUFFICES ASSUME ~unseen PROVE billed <= highest + Tolerance
    BY DEF CapOvershoot
<1>2. Due \in Curves /\ Risk \in Curves
    BY CurvesAre DEF CallTyped
<1>3. Area(Due) \subseteq Area(Risk)
  <2>1. ASSUME NEW t \in Threads, NEW n \in Units, n <= Due[t] PROVE n <= Risk[t]
    <3>1. /\ Due[t] \in Nat /\ Risk[t] \in Nat /\ Due[t] <= Risk[t] /\ n \in Nat
        BY CostsAre DEF Due, Risk, CallTyped
    <3> QED
        BY <2>1, <3>1
  <2> QED
      BY <2>1 DEF Area
<1>4. PICK t \in Threads : TRUE
    BY ThreadAssumption
<1>5. IsFiniteSet(Area(Risk)) /\ Cardinality(Area(Risk)) \in Nat /\ Cardinality(Area(Due)) \in Nat
    BY <1>2, <1>4, AreaSplits
<1>6. Cardinality(Area(Due)) <= Cardinality(Area(Risk))
    BY <1>3, <1>5, FS_Subset
<1>7. MoneyFacts
    BY MoneyFactsHold
<1>8. PICK u \in Nat, a \in Nat, k \in Nat :
          /\ u = Cardinality(UnitsOf(history)) /\ a = Cardinality(Area(Due))
          /\ k = Cardinality(Area(Risk))
    BY <1>5, <1>7 DEF MoneyFacts
<1>9. billed = u + a
    BY <1>1, <1>8 DEF MoneyInv, MoneyKept
<1>10. u + k <= highest + Tolerance
    BY <1>1, <1>8 DEF MoneyInv, MoneyKept
<1>11. a <= k /\ highest + Tolerance \in Nat
    BY <1>6, <1>7, <1>8, ToleranceIs DEF MoneyFacts
<1>12. u + a <= highest + Tolerance
    BY <1>10, <1>11
<1> QED
    BY <1>9, <1>12

LEMMA DispatchTyped == ASSUME ReceiptInv, MoneyInv PROVE DispatchTypeOK
    BY DEF ReceiptInv, HeadTyped, MoneyInv, MoneyTyped, DispatchTypeOK

\* What a month costs stays within the highest cap and one call for each
\* thread, however checks, calls, records and changes of the cap interleave.
THEOREM SpendingBounded == DispatchSpec => []CapOvershoot
<1>1. DispatchInit => ReceiptInv /\ MoneyInv
    BY InitReceipts, InitMoney
<1>2. ReceiptInv /\ MoneyInv /\ [DispatchNext]_dispatchVars => ReceiptInv' /\ MoneyInv'
    BY NextReceipts, NextMoney
<1>3. ReceiptInv /\ MoneyInv => CapOvershoot
    BY MoneyBounded DEF ReceiptInv, HeadTyped, CallTyped, Calls
<1> QED
    BY <1>1, <1>2, <1>3, PTL DEF DispatchSpec

-----------------------------------------------------------------------------
(* All of them in one instance *)

\* A step of the instance is a step of each part or leaves it alone.
LEMMA RecordsStep ==
    ASSUME [RecordsNext]_recordsVars
    PROVE  /\ [Next]_vars /\ [DispatchNext]_dispatchVars /\ [AccNext]_accVars
           /\ [LimNext]_limVars /\ [AirNext]_airVars
<1>1. CASE On("log", Next, <<dispatchVars, accVars, limVars, airVars>>)
  <2>1. Next /\ UNCHANGED dispatchVars /\ UNCHANGED accVars /\ UNCHANGED limVars /\ UNCHANGED airVars
      BY <1>1 DEF On
  <2> QED
      BY <2>1
<1>2. CASE On("dispatch", DispatchNext, <<vars, accVars, limVars, airVars>>)
  <2>1. DispatchNext /\ UNCHANGED vars /\ UNCHANGED accVars /\ UNCHANGED limVars /\ UNCHANGED airVars
      BY <1>2 DEF On
  <2> QED
      BY <2>1
<1>3. CASE On("accounts", AccNext, <<vars, dispatchVars, limVars, airVars>>)
  <2>1. AccNext /\ UNCHANGED vars /\ UNCHANGED dispatchVars /\ UNCHANGED limVars /\ UNCHANGED airVars
      BY <1>3 DEF On
  <2> QED
      BY <2>1
<1>4. CASE On("limits", LimNext, <<vars, dispatchVars, accVars, airVars>>)
  <2>1. LimNext /\ UNCHANGED vars /\ UNCHANGED dispatchVars /\ UNCHANGED accVars /\ UNCHANGED airVars
      BY <1>4 DEF On
  <2> QED
      BY <2>1
<1>5. CASE On("aiRuns", AirNext, <<vars, dispatchVars, accVars, limVars>>)
  <2>1. AirNext /\ UNCHANGED vars /\ UNCHANGED dispatchVars /\ UNCHANGED accVars /\ UNCHANGED limVars
      BY <1>5 DEF On
  <2> QED
      BY <2>1
<1>6. CASE UNCHANGED recordsVars
  <2>1. /\ UNCHANGED vars /\ UNCHANGED dispatchVars /\ UNCHANGED accVars
        /\ UNCHANGED limVars /\ UNCHANGED airVars
      BY <1>6 DEF recordsVars
  <2> QED
      BY <2>1
<1> QED
    BY <1>1, <1>2, <1>3, <1>4, <1>5, <1>6 DEF RecordsNext

RecordsInv == TypeOK /\ ReceiptInv /\ MoneyInv /\ AccInv /\ LimitsInv /\ AirInv

LEMMA RecordsInvariant == RecordsSpec => []RecordsInv
<1>1. RecordsInit => RecordsInv
  <2> SUFFICES ASSUME RecordsInit PROVE RecordsInv
      OBVIOUS
  <2>1. Init /\ DispatchInit /\ AccInit /\ LimInit /\ AirInit
      BY DEF RecordsInit
  <2> QED
      BY <2>1, InitType, InitReceipts, InitMoney, InitAccounts, InitLimits, InitRuns
      DEF RecordsInv
<1>2. RecordsInv /\ [RecordsNext]_recordsVars => RecordsInv'
  <2> SUFFICES ASSUME RecordsInv, [RecordsNext]_recordsVars PROVE RecordsInv'
      OBVIOUS
  <2>1. /\ [Next]_vars /\ [DispatchNext]_dispatchVars /\ [AccNext]_accVars
        /\ [LimNext]_limVars /\ [AirNext]_airVars
      BY RecordsStep
  <2>2. TypeOK /\ ReceiptInv /\ MoneyInv /\ AccInv /\ LimitsInv /\ AirInv
      BY DEF RecordsInv
  <2> QED
      BY <2>1, <2>2, NextType, NextReceipts, NextMoney, AccStep, NextLimits, NextRuns
      DEF RecordsInv
<1> QED
    BY <1>1, <1>2, PTL DEF RecordsSpec

\* Whatever the log, the calls, the accounts and the budgets keep stays of its
\* kind; above all: what a thread holds is a position of its code together
\* with the data that belong to that position.
THEOREM RecordsTyped == RecordsSpec => []RecordsTypeOK
<1>1. RecordsInv => RecordsTypeOK
  <2> SUFFICES ASSUME RecordsInv PROVE RecordsTypeOK
      OBVIOUS
  <2>1. TypeOK /\ ReceiptInv /\ MoneyInv /\ AccInv /\ LimitsInv /\ AirInv
      BY DEF RecordsInv
  <2>2. DispatchTypeOK
      BY <2>1, DispatchTyped
  <2>3. AccTypeOK /\ LimTypeOK /\ AirTypeOK
      BY <2>1 DEF AccInv, LimitsInv, AirInv
  <2> QED
      BY <2>1, <2>2, <2>3 DEF RecordsTypeOK
<1> QED
    BY <1>1, RecordsInvariant, PTL

\* Nobody is refused a login, a code or an AI run while some of the budget is
\* left, and nobody gets more than the budget, however the attempts of an hour
\* and the requests of a day overlap (app.py 3107-3160, quotas.py 208-220).
THEOREM BudgetsKept == RecordsSpec => []BudgetsHold
<1>1. RecordsInv => BudgetsHold
    BY LimitsKeep, RunsKeep DEF RecordsInv, BudgetsHold
<1> QED
    BY <1>1, RecordsInvariant, PTL
=============================================================================
