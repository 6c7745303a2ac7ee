------------------------------- MODULE Drafts -------------------------------
(***************************************************************************)
(* Edits the server could not save because its disk was full, kept in the  *)
(* session storage of the tab (app.js 255-381) until they are sent again.  *)
(* Who is signed in changes as module Page says; here it changes anyhow.   *)
(***************************************************************************)
EXTENDS Naturals, FiniteSets, Sequences, SequencesExt

CONSTANTS
    Tokens,         \* sessions of the browser, each with a csrfToken of its own
    AuthorOf,       \* and their users
    NoToken,
    Edits,          \* what may be sent to the server, each once
    Room,           \* entries the queue keeps (20)
    MaxStray        \* bound on the edits that are spilled or carried

ASSUME DraftsAssumption == NoToken \notin Tokens /\ Room \in Nat \ {0} /\ MaxStray \in Nat

VARIABLES
    jar,            \* the session of the browser's cookie
    held,           \* the session whose token the page holds
    sent,           \* edit -> [by, token, at]: its request, and what became of it
    stash,          \* sessionStorage: the edits to send again
    replay,         \* retryPendingDiskFullWrites: is it at work; its copy; what stays
    owed,           \* history: edits refused for a full disk and not settled since
    spilled,        \* history: edits pushed out of the queue, or refused during a replay
    taken,          \* history: <<edit, user>>: the server took it, for that user
    carried         \* history: edits sent again when somebody else was signed in

dfVars == <<jar, held, sent, stash, replay, owed, spilled, taken, carried>>

Unsent == [by |-> NoToken, token |-> NoToken, at |-> "none"]
NoReplay == [on |-> FALSE, asked |-> FALSE, left |-> <<>>, stays |-> <<>>]

DfInit ==
    /\ jar = NoToken /\ held = NoToken /\ sent = [e \in Edits |-> Unsent]
    /\ stash = <<>> /\ replay = NoReplay
    /\ owed = {} /\ spilled = {} /\ taken = {} /\ carried = {}

\* Sign-in, sign-out and expiry, in this tab or another.
JarChanges(s) ==
    /\ jar' = s /\ s # jar
    /\ UNCHANGED <<held, sent, stash, replay, owed, spilled, taken, carried>>

\* The page learns of the session it has, or clears its state.
HeldChanges(s) ==
    /\ s \in {jar, NoToken} /\ held' = s /\ s # held
    /\ UNCHANGED <<jar, sent, stash, replay, owed, spilled, taken, carried>>

\* A save of the page's user.
Edit(e) ==
    /\ held # NoToken /\ sent[e] = Unsent
    /\ sent' = [sent EXCEPT ![e] = [by |-> held, token |-> held, at |-> "sent"]]
    /\ UNCHANGED <<jar, held, stash, replay, owed, spilled, taken, carried>>

\* require_csrf: the token sent is that of the cookie's session.
TokenFits(token) == jar # NoToken /\ token = jar

\* Is e on its way again?
Asking(e) == replay.asked /\ Head(replay.left) = e

\* The server: "done", "full" (507), "bad" (another refusal), "out" (401, 403).
Judges(e, end) ==
    /\ sent[e].at = "sent"
    /\ (end = "out") <=> ~TokenFits(sent[e].token)
    /\ sent' = [sent EXCEPT ![e].token = NoToken,
                            ![e].at = IF end = "full" \/ Asking(e) THEN end ELSE "kept"]
    /\ taken' = IF end = "done" THEN taken \cup {<<e, AuthorOf[jar]>>} ELSE taken
    /\ UNCHANGED <<jar, held, stash, replay, owed, spilled, carried>>

\* queue.slice(-20)
Trimmed(q) == SubSeq(q, (IF Len(q) > Room THEN Len(q) - Room ELSE 0) + 1, Len(q))

\* preservePendingWrite, when api() sees db_disk_full.
Preserve(e) ==
    /\ sent[e].at = "full" /\ ~Asking(e)
    /\ sent' = [sent EXCEPT ![e].at = "kept"]
    /\ stash' = Trimmed(Append(stash, e))
    /\ owed' = owed \cup {e}
    /\ spilled' = spilled \cup (IF replay.on THEN {e} ELSE {})
                          \cup (IF Len(stash) = Room THEN {Head(stash)} ELSE {})
    /\ UNCHANGED <<jar, held, replay, taken, carried>>

\* retryPendingDiskFullWrites works on a copy of the queue,
BeginReplay ==
    /\ ~replay.on /\ stash # <<>>
    /\ replay' = [NoReplay EXCEPT !.on = TRUE, !.left = stash]
    /\ UNCHANGED <<jar, held, sent, stash, owed, spilled, taken, carried>>

\* sends its entries one after another with the token the page has by then,
SendAgain ==
    LET e == Head(replay.left)
    IN  /\ replay.on /\ replay.left # <<>> /\ ~replay.asked
        /\ replay' = [replay EXCEPT !.asked = TRUE]
        /\ sent' = [sent EXCEPT ![e].token = held, ![e].at = "sent"]
        /\ carried' = IF held # NoToken /\ AuthorOf[held] # AuthorOf[sent[e].by]
                      THEN carried \cup {e} ELSE carried
        /\ UNCHANGED <<jar, held, stash, owed, spilled, taken>>

\* and keeps those answered with 507, or not at all.  Any other refusal drops
\* the entry, the 401 and 403 of a session that has ended included.
Stays(end) == end \in {"full", "lost"}

Settle(end) ==
    LET e == Head(replay.left)
    IN  /\ replay.asked
        /\ end = "lost" \/ (end = sent[e].at /\ end # "sent")
        /\ replay' = [replay EXCEPT !.asked = FALSE, !.left = Tail(@),
                                    !.stays = IF Stays(end) THEN Append(@, e) ELSE @]
        /\ sent' = [sent EXCEPT ![e].token = NoToken, ![e].at = "kept"]
        /\ owed' = IF end \in {"full", "lost"} THEN owed ELSE owed \ {e}
        /\ UNCHANGED <<jar, held, stash, spilled, taken, carried>>

\* The queue becomes what stays.
EndReplay ==
    /\ replay.on /\ replay.left = <<>>
    /\ stash' = replay.stays /\ replay' = NoReplay
    /\ UNCHANGED <<jar, held, sent, owed, spilled, taken, carried>>

\* The page is opened again, once the server has read what was under way; the
\* tab still has the queue.
Reopened ==
    /\ \A e \in Edits : sent[e].at # "sent"
    /\ held' = NoToken /\ replay' = NoReplay
    /\ sent' = [e \in Edits |-> IF sent[e] = Unsent THEN Unsent
                                ELSE [sent[e] EXCEPT !.at = "kept", !.token = NoToken]]
    /\ UNCHANGED <<jar, stash, owed, spilled, taken, carried>>

Verdicts == {"done", "full", "bad", "out"}

DfNext ==
  /\ \/ \E s \in Tokens \cup {NoToken} : JarChanges(s) \/ HeldChanges(s)
     \/ \E e \in Edits : Edit(e) \/ Preserve(e) \/ \E end \in Verdicts : Judges(e, end)
     \/ BeginReplay \/ SendAgain \/ EndReplay \/ Reopened
     \/ \E end \in Verdicts \cup {"lost"} : Settle(end)
  /\ Cardinality(spilled' \cup carried') <= MaxStray

DfSpec == DfInit /\ [][DfNext]_dfVars

DfTypeOK ==
    /\ {jar, held} \subseteq Tokens \cup {NoToken}
    /\ sent \in [Edits -> [by : Tokens \cup {NoToken}, token : Tokens \cup {NoToken},
                           at : Verdicts \cup {"none", "sent", "kept"}]]
    /\ Len(stash) <= Room /\ ToSet(stash) \cup owed \cup spilled \cup carried \subseteq Edits

\* An edit is taken for the user who made it, whatever other tabs do, unless
\* it was sent again when somebody else was signed in.
TakenForItsAuthor == \A t \in taken : t[1] \in carried \/ t[2] = AuthorOf[sent[t[1]].by]

\* "Your work is preserved in this session" (app.js 437): an edit refused for a
\* full disk is in the queue until the server takes or refuses it, unless it
\* was one too many or came while the queue was being sent.
OwedIsKept ==
    owed \subseteq ToSet(stash) \cup ToSet(replay.left) \cup ToSet(replay.stays) \cup spilled

DraftsHold == TakenForItsAuthor /\ OwedIsKept
=============================================================================
