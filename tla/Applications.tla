---------------------------- MODULE Applications ----------------------------
(***************************************************************************)
(* One application, from its import to an answer: update_application_state *)
(* (app.py 6872-6986) and the tailored CVs it may be credited to           *)
(* (11801-11943).  The record is an object shared by all requests: each    *)
(* field is set as it is read from the request, a later field may be       *)
(* refused, and only the end of the handler saves the record.              *)
(***************************************************************************)
EXTENDS Naturals, Sequences, FiniteSets

CONSTANTS
    Statuses,        \* what the user may say has become of the application
    First,          \* how it begins
    Editors,        \* request threads
    MaxVariants     \* bound on the CVs tailored for it

ASSUME ApplicationsAssumption == First \in Statuses /\ MaxVariants \in Nat

VARIABLES
    record,         \* the shared object
    saved,          \* the row in the database
    editor,         \* what each request thread is doing
    refused,        \* history: a request was refused after it had set a field
    shared          \* history: two requests worked on the record, or one died

appVars == <<record, saved, editor, refused, shared>>

\* told: the last status in the timeline; variants: which CVs are credited.
Applied == [status : Statuses, told : Statuses, replied : BOOLEAN,
             variants : UNION {[1..n -> BOOLEAN] : n \in 0..MaxVariants}]
NewRecord == [status |-> First, told |-> First, replied |-> FALSE, variants |-> <<>>]
Away      == [at |-> "away"]
Editing   == {Away}
    \cup [at : {"status", "reply"}, was : Statuses]
    \cup [at : {"tailor"}]

AppInit ==
    /\ record = NewRecord /\ saved = NewRecord
    /\ editor = [e \in Editors |-> Away]
    /\ refused = FALSE /\ shared = FALSE

Picks(e, d) == /\ editor[e] = Away
                /\ editor' = [editor EXCEPT ![e] = d]
                /\ shared' = (shared \/ \E f \in Editors \ {e} : editor[f] # Away)

\* The status comes first ...
SetStatus(e, s) ==
    /\ Picks(e, [at |-> "status", was |-> record.status])
    /\ record' = [record EXCEPT !.status = s]
    /\ UNCHANGED <<saved, refused>>

\* A stage, a reminder or a checklist may be invalid: the request is answered
\* with an error and nothing is saved.
Refuse(e) ==
    /\ editor[e].at \in {"status", "reply"}
    /\ editor' = [editor EXCEPT ![e] = Away]
    /\ refused' = (refused \/ record # saved)
    /\ UNCHANGED <<record, saved, shared>>

\* Whether the last CV is credited with the reply: only when it is the first
\* word of one.
Credits(had, now) == ~had /\ now

Uncredits(had, now) == had /\ ~now

\* "replied" is set or cleared, and the credit with it.
SetReply(e, now) ==
    LET n == Len(record.variants)
    IN  /\ editor[e].at = "status"
        /\ record' = [record EXCEPT
             !.replied  = now,
             !.variants = IF Credits(record.replied, now) /\ n > 0 THEN [@ EXCEPT ![n] = TRUE]
                          ELSE IF Uncredits(record.replied, now) THEN [i \in 1..n |-> FALSE]
                          ELSE @]
        /\ editor' = [editor EXCEPT ![e].at = "reply"]
        /\ UNCHANGED <<saved, refused, shared>>

\* The timeline has an entry for every change of status.
Timeline(was, r) == IF was # r.status THEN [r EXCEPT !.told = r.status] ELSE r

\* The end of the handler; the reply may not have been mentioned.
SaveUpdate(e) ==
    /\ editor[e].at \in {"status", "reply"}
    /\ record' = Timeline(editor[e].was, record)
    /\ saved' = record'
    /\ editor' = [editor EXCEPT ![e] = Away]
    /\ UNCHANGED <<refused, shared>>

\* The model is asked for a CV; when it answers, the variant is added.
BeginTailor(e) ==
    /\ Picks(e, [at |-> "tailor"])
    /\ UNCHANGED <<record, saved, refused>>

EndTailor(e) ==
    /\ editor[e].at = "tailor"
    /\ \/ /\ Len(record.variants) < MaxVariants
          /\ record' = [record EXCEPT !.variants = Append(@, FALSE)]
          /\ saved' = record'
       \/ UNCHANGED <<record, saved>>
    /\ editor' = [editor EXCEPT ![e] = Away]
    /\ UNCHANGED <<refused, shared>>

\* The process dies; what was not saved is forgotten.
AppRestart ==
    /\ record' = saved
    /\ editor' = [e \in Editors |-> Away]
    /\ shared' = (shared \/ \E e \in Editors : editor[e] # Away)
    /\ refused' = (refused /\ saved.told # saved.status)
    /\ UNCHANGED saved

AppNext ==
    \/ AppRestart
    \/ \E e \in Editors :
         \/ \E s \in Statuses : SetStatus(e, s)
         \/ \E now \in BOOLEAN : SetReply(e, now)
         \/ Refuse(e) \/ SaveUpdate(e) \/ BeginTailor(e) \/ EndTailor(e)

AppSpec == AppInit /\ [][AppNext]_appVars

\* Every record is well formed.
AppTypeOK ==
    /\ record \in Applied /\ saved \in Applied
    /\ \A e \in Editors : editor[e] \in Editing
    /\ refused \in BOOLEAN /\ shared \in BOOLEAN

Credited(r) == {i \in DOMAIN r.variants : r.variants[i]}

\* The timeline ends with the status, at most one CV is credited with a reply
\* and only while there is one, and what is shown is what is saved; unless two
\* requests worked on the record at once.  A refused request has changed what
\* is shown all the same, and the timeline never tells (app.py 6872).
ApplicationHolds ==
    \/ shared
    \/ /\ Cardinality(Credited(record)) <= (IF record.replied THEN 1 ELSE 0)
       /\ (\A e \in Editors : editor[e] = Away) /\ ~refused =>
             record = saved /\ record.told = record.status
=============================================================================
