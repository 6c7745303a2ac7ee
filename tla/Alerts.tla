------------------------------- MODULE Alerts -------------------------------
(***************************************************************************)
(* What one user is told without asking: push messages about new matches   *)
(* (app.py 3623-3693) and a Slack message about each job that fits well    *)
(* (4096-4138).  Each channel reads what was told already, sends, which    *)
(* takes time and may fail, and writes down what is told now.              *)
(***************************************************************************)
EXTENDS Naturals, Sequences, FiniteSets, SequencesExt

CONSTANTS
    Jobs,
    Subs,           \* push subscriptions
    Senders,        \* threads
    MaxPushes,      \* matches pushed at once
    SlackKept       \* Slack messages remembered (200)

ASSUME AlertsAssumption == MaxPushes \in Nat \ {0} /\ SlackKept \in Nat \ {0}

VARIABLES
    found,          \* the matches discovered, oldest first
    imported,
    mark,           \* how many of them last_push_notified_at lies behind
    subs,           \* the subscriptions kept
    pinged,         \* slack_notified_job_ids
    sender,         \* what each thread is doing
    received,       \* history: <<job, subscription>> -> messages received
    tried,          \* history: matches a push was tried for
    cut,            \* history: matches beyond MaxPushes when they were listed
    late,           \* history: matches discovered while a listing was sent
    slacked,        \* history: messages received in Slack about each job
    twice           \* history: two threads told at once, or one died telling

altVars == <<found, imported, mark, subs, pinged, sender, received, tried, cut, late,
             slacked, twice>>

Asleep  == [does |-> "sleep"]
Sending == {Asleep}
    \cup [does : {"push"}, todo : SUBSET (Jobs \X Subs), told : BOOLEAN]
    \cup [does : {"ping"}, job : Jobs, seen : Seq(Jobs)]

AltInit ==
    /\ found = <<>> /\ imported = {} /\ mark = 0 /\ subs = {}
    /\ pinged = <<>>
    /\ sender = [s \in Senders |-> Asleep]
    /\ received = [p \in Jobs \X Subs |-> 0] /\ tried = {} /\ cut = {} /\ late = {}
    /\ slacked = [j \in Jobs |-> 0] /\ twice = FALSE

Others(s)    == \E t \in Senders \ {s} : sender[t] # Asleep
Wakes(s, d)  == /\ sender[s] = Asleep
                /\ sender' = [sender EXCEPT ![s] = d]
                /\ twice' = (twice \/ Others(s))
Sleeps(s)    == sender' = [sender EXCEPT ![s] = Asleep]
Pushing      == \E s \in Senders : sender[s].does = "push"

(***************************************************************************)
(* What happens around them.                                               *)
(***************************************************************************)
Discover(j) ==
    /\ j \notin ToSet(found)
    /\ found' = Append(found, j)
    /\ late' = IF Pushing THEN late \cup {j} ELSE late
    /\ UNCHANGED <<imported, mark, subs, pinged, sender, received, tried, cut, slacked, twice>>

Import(j) ==
    /\ j \in ToSet(found) \ imported
    /\ imported' = imported \cup {j}
    /\ UNCHANGED <<found, mark, subs, pinged, sender, received, tried, cut, late, slacked, twice>>

Subscribe(b) ==
    /\ b \notin subs /\ subs' = subs \cup {b}
    /\ UNCHANGED <<found, imported, mark, pinged, sender, received, tried, cut, late, slacked,
                   twice>>

(***************************************************************************)
(* notify_new_matches                                                      *)
(***************************************************************************)
\* mutant of Unannounced: whatever was discovered is news
UnannouncedAll == {i \in 1..Len(found) : found[i] \notin imported}

Unannounced == {i \in 1..Len(found) : i > mark /\ found[i] \notin imported}

\* The newest of them.
Listed == {found[i] : i \in {k \in Unannounced :
                               Cardinality({m \in Unannounced : m > k}) < MaxPushes}}

BeginPush(s) ==
    /\ subs # {} /\ Unannounced # {}
    /\ Wakes(s, [does |-> "push", todo |-> Listed \X subs, told |-> FALSE])
    /\ tried' = tried \cup Listed
    /\ cut' = cut \cup ({found[i] : i \in Unannounced} \ Listed)
    /\ UNCHANGED <<found, imported, mark, subs, pinged, received, late, slacked>>

\* One send: it arrives, the subscription is gone for good, or it fails for
\* now; the list of subscriptions was read at the start.
PushOne(s, p) ==
    LET left == sender[s].todo \ {p}
    IN  /\ sender[s].does = "push" /\ p \in sender[s].todo
        /\ sender' = [sender EXCEPT ![s] = [does |-> "push", todo |-> left, told |-> TRUE]]
        /\ \/ received' = [received EXCEPT ![p] = @ + 1] /\ subs' = subs
           \/ received' = received /\ subs' = subs \ {p[2]}
           \/ UNCHANGED <<received, subs>>
        /\ UNCHANGED <<found, imported, mark, pinged, tried, cut, late, slacked, twice>>

\* No library to send with: nothing was told, and the mark stays.
PushUnavailable(s) ==
    /\ sender[s].does = "push" /\ ~sender[s].told
    /\ Sleeps(s)
    /\ UNCHANGED <<found, imported, mark, subs, pinged, received, tried, cut, late, slacked, twice>>

\* The mark moves to now, whatever became of the sends.
NewMark == Len(found)

EndPush(s) ==
    /\ sender[s].does = "push" /\ sender[s].told /\ sender[s].todo = {}
    /\ mark' = NewMark
    /\ Sleeps(s)
    /\ UNCHANGED <<found, imported, subs, pinged, received, tried, cut, late, slacked, twice>>

(***************************************************************************)
(* maybe_notify_slack, after a job was scored above the threshold.         *)
(***************************************************************************)
BeginPing(s, j) ==
    /\ j \in ToSet(found) /\ j \notin ToSet(pinged)
    /\ Wakes(s, [does |-> "ping", job |-> j, seen |-> pinged])
    /\ UNCHANGED <<found, imported, mark, subs, pinged, received, tried, cut, late, slacked>>

\* The last of the ids, with the new one.
Remembered(seen, j) ==
    LET all == Append(seen, j)
    IN  SubSeq(all, IF Len(all) > SlackKept THEN Len(all) - SlackKept + 1 ELSE 1, Len(all))

EndPing(s) ==
    LET j == sender[s].job
    IN  /\ sender[s].does = "ping"
        /\ \/ /\ slacked' = [slacked EXCEPT ![j] = @ + 1]
              /\ pinged' = Remembered(sender[s].seen, j)
           \/ UNCHANGED <<slacked, pinged>>
        /\ Sleeps(s)
        /\ UNCHANGED <<found, imported, mark, subs, received, tried, cut, late, twice>>

AltRestart ==
    /\ \E s \in Senders : sender[s] # Asleep
    /\ sender' = [s \in Senders |-> Asleep]
    /\ twice' = TRUE
    /\ UNCHANGED <<found, imported, mark, subs, pinged, received, tried, cut, late, slacked>>

\* Two further messages about the same thing tell no more than one.
TwiceAtMost == \A j \in Jobs : slacked[j] <= 2 /\ \A b \in Subs : received[<<j, b>>] <= 2

AltNext ==
    /\ TwiceAtMost
    /\ \/ \E j \in Jobs : Discover(j) \/ Import(j)
       \/ \E b \in Subs : Subscribe(b)
       \/ \E s \in Senders :
            \/ BeginPush(s) \/ PushUnavailable(s) \/ EndPush(s) \/ EndPing(s)
            \/ \E p \in Jobs \X Subs : PushOne(s, p)
            \/ \E j \in Jobs : BeginPing(s, j)
       \/ AltRestart

AltSpec == AltInit /\ [][AltNext]_altVars

\* Every record is well formed.
AltTypeOK ==
    /\ found \in Seq(Jobs) /\ Len(found) = Cardinality(ToSet(found))
    /\ imported \subseteq ToSet(found) /\ mark \in 0..Len(found)
    /\ subs \subseteq Subs
    /\ pinged \in Seq(Jobs) /\ Len(pinged) <= SlackKept
    /\ \A s \in Senders : sender[s] \in Sending

\* "The same match isn't pushed twice across scans" (app.py 3627) and a job is
\* not pinged again when it is scored again (4099): true unless two threads
\* tell at once or the process dies, and for Slack among the last SlackKept.  A
\* match is taken to be announced without a send only if more than MaxPushes
\* were new, if it came while others were being sent, or was imported.
AlertsHold ==
    /\ twice \/ /\ \A p \in Jobs \X Subs : received[p] <= 1
                /\ Cardinality(ToSet(found)) > SlackKept \/ \A j \in Jobs : slacked[j] <= 1
    /\ \A i \in 1..mark : found[i] \in tried \cup cut \cup late \cup imported
=============================================================================
