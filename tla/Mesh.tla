--------------------------------- MODULE Mesh ---------------------------------
(***************************************************************************)
(* The agents other civic services run (src/mesh): each takes requests in  *)
(* threads, keeps what it decided in memory, writes its own log, and       *)
(* answers.  They share nothing, so one of them is followed, of any kind.  *)
(* The same referral may arrive more than once; the process may die and    *)
(* start again, with its log and the file of its signing key.              *)
(***************************************************************************)
EXTENDS Naturals, Sequences, FiniteSets, SequencesExt, FiniteSetsExt

CONSTANTS
    Letters,        \* what the other side asks: a referral, a credential, a profile
    Servers,        \* request threads
    MaxTaken,       \* bound on the requests taken
    MaxHurt         \* bound on the writes of the log that go wrong

ASSUME MeshAssumption == MaxTaken \in Nat /\ MaxHurt \in Nat

VARIABLES
    agent,          \* which of the three it is
    log,            \* the lines of the log: the number of the record, the entry it is for
    openEnd,        \* does the last line lack its newline?
    nextSeq,
    book,           \* in memory: what was decided, oldest first: [id, letter]
    serving,        \* what each request thread is doing
    lastEntry,      \* entries are uuids
    keyFile, signer,    \* the signing key on disk (0 for none, or torn) and in memory
    lastKey,
    credentials,    \* history: the keys of the credentials handed out
    told,           \* history: entries whose acceptance was answered
    statuses,       \* history: letter -> entries a status was answered with, in this life
    hurt,           \* history: writes of the log that went wrong
    rotated         \* history: keys whose file the operator deleted

mshVars == <<agent, log, openEnd, nextSeq, book, serving, lastEntry, keyFile, signer, lastKey,
             credentials, told, statuses, hurt, rotated>>

Agents   == {"housing", "anerkennung", "social"}
NoTask   == [at |-> "none"]
Torn     == [seq |-> 0, entry |-> 0]    \* a line no reader can parse
Entries  == 1..MaxTaken
Keys     == 1..(MaxHurt + 1)

MshInit ==
    /\ agent \in Agents /\ log = <<>> /\ openEnd = FALSE /\ nextSeq = 1
    /\ book = <<>> /\ serving = [t \in Servers |-> NoTask] /\ lastEntry = 0
    /\ keyFile = 1 /\ signer = 1 /\ lastKey = 1
    /\ credentials = {} /\ told = {} /\ statuses = [l \in Letters |-> {}]
    /\ hurt = 0 /\ rotated = {}

Mind(t, task) == serving' = [serving EXCEPT ![t] = task]
Keyring       == <<keyFile, signer, lastKey, rotated>>

(***************************************************************************)
(* Requests.                                                               *)
(***************************************************************************)
\* A request is taken: its entry gets an id and goes to the log, and is kept or not.
TakesUp(t, does, kept) ==
    /\ serving[t] = NoTask /\ lastEntry < MaxTaken /\ lastEntry' = lastEntry + 1
    /\ Mind(t, [at |-> "emit", entry |-> lastEntry + 1, does |-> does])
    /\ book' = book \o kept
    /\ UNCHANGED <<agent, log, openEnd, nextSeq, Keyring, credentials, told, statuses, hurt>>

Kept(l) == <<[entry |-> lastEntry + 1, letter |-> l]>>

\* intake: whichever cohort it matches, a referral that is in order is accepted.
Intakes(t, l) == agent = "housing" /\ TakesUp(t, "accept", Kept(l))

\* validate_referral: a field is missing, another version, no consent.
Refuses(t) == agent = "housing" /\ TakesUp(t, "refuse", <<>>)

\* verify_credential, by whichever pathway.
Decides(t, l) == agent = "anerkennung" /\ TakesUp(t, "accept", Kept(l))

\* profile_consume: the profile is kept; nothing ever takes it away.
Consumes(t, l) == agent = "social" /\ TakesUp(t, "accept", Kept(l))

\* eligibility_check: a recommendation is not kept.
Recommends(t) == agent = "social" /\ TakesUp(t, "accept", <<>>)

\* issue_vc: for a decision that is kept, for whoever asks.
Issues(t) == agent = "anerkennung" /\ book # <<>> /\ TakesUp(t, "issue", <<>>)

\* A record behind a line without its end makes one line with it, which no
\* reader can parse.
Written(line) == IF openEnd THEN Front(log) \o <<Torn>> ELSE Append(log, line)

\* AgentAuditLog.emit, under its lock; the number is spent in any case.
Emits(t) ==
    /\ serving[t].at = "emit"
    /\ log' = Written([seq |-> nextSeq, entry |-> serving[t].entry]) /\ openEnd' = FALSE
    /\ nextSeq' = nextSeq + 1
    /\ Mind(t, [serving[t] EXCEPT !.at = "answer"])
    /\ UNCHANGED <<agent, book, lastEntry, Keyring, credentials, told, statuses, hurt>>

\* What is left of a write that does not come to its end: nothing, a part, or
\* all but the newline.
Remains(line) ==
    \/ UNCHANGED <<log, openEnd>>
    \/ log' = Written(Torn) /\ openEnd' = TRUE
    \/ log' = Written(line) /\ openEnd' = TRUE

\* The disk is full: the answer is a 500, what was decided stays in the book.
EmitFails(t) ==
    /\ serving[t].at = "emit" /\ hurt < MaxHurt /\ hurt' = hurt + 1
    /\ Remains([seq |-> nextSeq, entry |-> serving[t].entry])
    /\ nextSeq' = nextSeq + 1
    /\ Mind(t, NoTask)
    /\ UNCHANGED <<agent, book, lastEntry, Keyring, credentials, told, statuses>>

\* sign_credential, with the key the process has loaded.
Signed == signer

\* The answer arrives, or the connection is gone.
Replies(t, arrives) ==
    /\ serving[t].at = "answer"
    /\ told' = IF arrives THEN told \cup {serving[t].entry} ELSE told
    /\ credentials' = IF arrives /\ serving[t].does = "issue"
                      THEN credentials \cup {Signed} ELSE credentials
    /\ Mind(t, NoTask)
    /\ UNCHANGED <<agent, log, openEnd, nextSeq, book, lastEntry, Keyring, statuses, hurt>>

\* The intakes are looked through in the order in which they were made.
FirstOf(l) == Min({n \in DOMAIN book : book[n].letter = l})

\* status_lookup; an intake that is added meanwhile may make it a 500.
LooksUp(l) ==
    /\ agent = "housing" /\ \E n \in DOMAIN book : book[n].letter = l
    /\ statuses' = [statuses EXCEPT ![l] = @ \cup {book[FirstOf(l)].entry}]
    /\ UNCHANGED <<agent, log, openEnd, nextSeq, book, serving, lastEntry, Keyring, credentials,
                   told, hurt>>

(***************************************************************************)
(* The process dies, and starts again.                                     *)
(***************************************************************************)

\* _load_next_sequence: behind the greatest number that can be read.
LastSeq(lines) == Max({0} \cup {lines[n].seq : n \in DOMAIN lines})

\* Ed25519Signer.from_file_or_create, before anything is served.
Loaded == IF keyFile # 0 THEN keyFile ELSE lastKey + 1

StartsUp(lines) ==
    /\ nextSeq' = LastSeq(lines) + 1
    /\ Loaded \in Keys /\ signer' = Loaded /\ keyFile' = Loaded
    /\ lastKey' = Max({lastKey, Loaded})
    /\ book' = <<>> /\ serving' = [t \in Servers |-> NoTask] /\ statuses' = [l \in Letters |-> {}]
    /\ UNCHANGED <<agent, lastEntry, credentials, told, rotated>>

Dies == StartsUp(log) /\ UNCHANGED <<log, openEnd, hurt>>

\* It dies while it writes.
DiesWriting(t) ==
    /\ serving[t].at = "emit" /\ hurt < MaxHurt /\ hurt' = hurt + 1
    /\ Remains([seq |-> nextSeq, entry |-> serving[t].entry])
    /\ StartsUp(log')

\* "Operator can rotate by deleting the file."
DeletesKey ==
    /\ agent = "anerkennung" /\ keyFile # 0
    /\ keyFile' = 0 /\ rotated' = rotated \cup {keyFile}
    /\ UNCHANGED <<agent, log, openEnd, nextSeq, book, serving, lastEntry, signer, lastKey,
                   credentials, told, statuses, hurt>>

MshNext ==
    \/ \E t \in Servers :
          \/ \E l \in Letters : Intakes(t, l) \/ Decides(t, l) \/ Consumes(t, l)
          \/ \E arrives \in BOOLEAN : Replies(t, arrives)
          \/ Refuses(t) \/ Recommends(t) \/ Issues(t) \/ Emits(t) \/ EmitFails(t) \/ DiesWriting(t)
    \/ \E l \in Letters : LooksUp(l)
    \/ Dies \/ DeletesKey

MshSpec == MshInit /\ [][MshNext]_mshVars

-----------------------------------------------------------------------------
MshTypeOK ==
    /\ agent \in Agents /\ log \in Seq([seq : Nat, entry : 0..MaxTaken])
    /\ openEnd \in BOOLEAN /\ nextSeq \in Nat \ {0}
    /\ book \in Seq([entry : Entries, letter : Letters]) /\ told \subseteq Entries
    /\ signer \in Keys /\ keyFile \in Keys \cup {0} /\ credentials \cup rotated \subseteq Keys
    /\ statuses \in [Letters -> SUBSET Entries] /\ hurt \in 0..MaxHurt

\* replay passes over what it cannot parse.
Readable == {n \in DOMAIN log : log[n] # Torn}

\* "Every step is traceable via each agent's audit-trail endpoint" (mesh/README
\* .md:140): whatever an agent told somebody it has done is in its log, except
\* for one entry at most for every write that went wrong; the numbers only
\* grow, and none is missing while every write went well, so that a gap is a
\* deletion (common.py 86-91).
TrailHolds ==
    /\ Cardinality(told \ {log[n].entry : n \in Readable}) <= hurt
    /\ \A n, k \in Readable : n < k => log[n].seq < log[k].seq
    /\ hurt = 0 => \A n \in DOMAIN log : log[n].seq = n

\* A referral that arrives again is taken again, but its status is always the
\* same one, and nobody learns of an intake in two ways (housing_agent.py 221).
StatusHolds == \A l \in Letters : Cardinality(statuses[l]) <= 1

\* verify_credential, with the key the agent has registered.
Valid(key) == key = signer

\* A credential can be checked with the key the agent publishes after any
\* start, unless the operator has deleted the key it was signed with.
CredentialsHold == \A key \in credentials \ rotated : Valid(key)

MeshHolds == TrailHolds /\ StatusHolds /\ CredentialsHold
=============================================================================
