-------------------------------- MODULE Page --------------------------------
(***************************************************************************)
(* The page in the browser (static/app.js) between its handlers' awaits:   *)
(* requests leave under the cookie the browser has when the server reads   *)
(* them and with the token the page had when it sent them, and an answer   *)
(* replaces what is shown whenever it comes.                               *)
(***************************************************************************)
EXTENDS Naturals, FiniteSets

CONSTANTS
    Folk,           \* users who sign in with this browser
    NoFolk,
    Sessions,       \* sessions, and
    UserOf,         \* whose they are; one that nobody knows any more may be opened anew
    NoSession,
    Flights,        \* requests that can be under way at once
    MaxOdd          \* bound on the kinds of oddities that come together

ASSUME PageAssumption ==
    /\ NoFolk \notin Folk /\ NoSession \notin Sessions
    /\ UserOf \in [Sessions -> Folk] /\ MaxOdd \in Nat

VARIABLES
    badge,          \* the session of the browser's cookie
    busy,           \* users with a queued or running run
    me,             \* the session whose user and csrfToken the page holds
    shown,          \* [user, busy]: whose data the page shows; is a run of it active?
    timer,          \* is state.pollTimer set?
    flight,         \* the requests under way
    witnessed,      \* history: users whose active run the page has shown
    odd             \* history: "crossed", "overtaken", "missed", see below

pgVars == <<badge, busy, me, shown, timer, flight, witnessed, odd>>

NoFlight  == [kind |-> "idle", token |-> NoSession, arg |-> NoSession, at |-> "none",
              user |-> NoFolk, busy |-> FALSE, live |-> FALSE, behind |-> {}, old |-> FALSE]
Blank == [user |-> NoFolk, busy |-> FALSE]
FolkOf(s) == IF s = NoSession THEN NoFolk ELSE UserOf[s]
Fresh(s)  == s \notin {badge, me} \cup UNION {{flight[f].token, flight[f].arg} : f \in Flights}

PgInit ==
    /\ badge = NoSession /\ busy = {} /\ me = NoSession /\ shown = Blank
    /\ timer = FALSE /\ flight = [f \in Flights |-> NoFlight] /\ witnessed = {} /\ odd = {}

-----------------------------------------------------------------------------
(* Requests leave the page. *)

Sends(f, kind, arg) ==
    /\ flight[f] = NoFlight
    /\ flight' = [flight EXCEPT ![f] =
           [NoFlight EXCEPT !.kind = kind, !.token = me, !.arg = arg, !.at = "sent"]]
    /\ UNCHANGED <<badge, busy, me, shown, witnessed, odd>>

\* The form is there only while nobody is signed in; s is the session it opens.
PressLogin(f, s) ==
    /\ me = NoSession /\ Fresh(s)
    /\ Sends(f, "login", s) /\ UNCHANGED timer
PressLogout(f)   == me # NoSession /\ Sends(f, "logout", NoSession) /\ UNCHANGED timer
\* A button whose request starts a run and whose answer holds a bootstrap.
Act(f)      == me # NoSession /\ Sends(f, "act", NoSession) /\ UNCHANGED timer
\* The timer of scheduleRunPolling.
Poll(f)     == timer /\ Sends(f, "poll", NoSession) /\ timer' = FALSE

\* The page is opened again, after the server has read what was under way:
\* its answers have no reader any more.
Reopens(f) ==
    /\ \A g \in Flights : flight[g].at # "sent"
    /\ flight' = [g \in Flights |->
           IF g = f THEN [NoFlight EXCEPT !.kind = "status", !.at = "sent"] ELSE NoFlight]
    /\ me' = NoSession /\ shown' = Blank /\ timer' = FALSE
    /\ odd' = {} /\ witnessed' = {}
    /\ UNCHANGED <<badge, busy>>

-----------------------------------------------------------------------------
(* The server. *)

\* require_csrf: the token is that of the session of the cookie.
CsrfHolds(token) == badge # NoSession /\ token = badge

\* The answer to f: for whom, or a 401 or 403.  It is live as long as the run
\* it tells of is (history).
Answers(f, user, arg) ==
    flight' = [flight EXCEPT ![f] =
        [@ EXCEPT !.at = "back", !.user = user, !.arg = arg,
                  !.busy = user \in busy', !.live = user \in busy',
                  !.behind = {g \in Flights : flight[g].at = "back"}]]

ServesRead(f) ==
    /\ flight[f].kind \in {"load", "poll"}
    /\ UNCHANGED <<badge, busy>>
    /\ Answers(f, FolkOf(badge), NoSession)

ServesStatus(f) ==
    /\ flight[f].kind = "status"
    /\ UNCHANGED <<badge, busy>>
    /\ Answers(f, FolkOf(badge), badge)

ServesLogin(f) ==
    /\ flight[f].kind = "login"
    /\ badge' = flight[f].arg
    /\ UNCHANGED busy
    /\ Answers(f, UserOf[flight[f].arg], flight[f].arg)

\* Without a session there is nothing to check and nothing to end.
ServesLogout(f) ==
    /\ flight[f].kind = "logout"
    /\ badge' = IF badge # NoSession /\ ~CsrfHolds(flight[f].token) THEN badge ELSE NoSession
    /\ UNCHANGED busy
    /\ Answers(f, NoFolk, NoSession)

ServesAct(f) ==
    LET ok == CsrfHolds(flight[f].token)
    IN  /\ flight[f].kind = "act"
        /\ busy' = IF ok THEN busy \cup {FolkOf(badge)} ELSE busy
        /\ UNCHANGED badge
        /\ Answers(f, IF ok THEN FolkOf(badge) ELSE NoFolk, NoSession)

Serves(f) ==
    /\ flight[f].at = "sent"
    /\ ServesRead(f) \/ ServesStatus(f) \/ ServesLogin(f) \/ ServesLogout(f) \/ ServesAct(f)
    /\ UNCHANGED <<me, shown, timer, witnessed, odd>>

RunEnds(u) ==
    /\ u \in busy
    /\ busy' = busy \ {u} /\ witnessed' = witnessed \ {u}
    /\ flight' = [g \in Flights |-> [flight[g] EXCEPT !.live = @ /\ flight[g].user # u]]
    /\ UNCHANGED <<badge, me, shown, timer, odd>>

\* Another tab of the browser signs in or out, or the session expires.
CookieChanges(s) ==
    /\ s # badge /\ (s = NoSession \/ Fresh(s))
    /\ badge' = s
    /\ odd' = IF me # NoSession THEN odd \cup {"crossed"} ELSE odd
    /\ UNCHANGED <<busy, me, shown, timer, flight, witnessed>>

-----------------------------------------------------------------------------
(* Answers reach the page. *)

Rest(f) == \E g \in Flights \ {f} : flight[g] # NoFlight
Done(f)   == flight' = [g \in Flights |->
    IF g = f THEN NoFlight ELSE [flight[g] EXCEPT !.behind = @ \ {f}]]

\* absorbBootstrap and render, which ends in scheduleRunPolling.
Shows(f) ==
    LET q == flight[f]
    IN  /\ shown' = [user |-> q.user, busy |-> q.busy]
        /\ timer' = (timer \/ q.busy)
        /\ witnessed' = IF q.live THEN witnessed \cup {q.user} ELSE witnessed
        /\ flight' = [g \in Flights |->
               IF g = f THEN NoFlight
               ELSE [flight[g] EXCEPT !.behind = @ \ {f}, !.old = @ \/ g \in q.behind]]

\* mutant of Forgets: what was shown stays
ForgetsUser == me' = NoSession /\ timer' = FALSE /\ UNCHANGED shown

\* clearAuthenticatedState and renderAuth.
Forgets == me' = NoSession /\ timer' = FALSE /\ shown' = Blank

\* A change of the session with something under way: what comes may be of the
\* one before.
Crossing(f) == (IF Rest(f) THEN odd \cup {"crossed"} ELSE odd) \ {"missed"}

\* api(): 401, or 403 csrf_failed.
Refused(f) ==
    /\ flight[f].at = "back" /\ flight[f].user = NoFolk
    /\ flight[f].kind \in {"load", "poll", "act"}
    /\ Done(f) /\ Forgets
    /\ odd' = Crossing(f)
    /\ UNCHANGED <<badge, busy, witnessed>>

Absorbs(f) ==
    /\ flight[f].at = "back" /\ flight[f].user # NoFolk
    /\ flight[f].kind \in {"load", "poll", "act"}
    /\ Shows(f)
    /\ odd' = (IF flight[f].old THEN odd \cup {"overtaken"} ELSE odd) \ {"missed"}
    /\ UNCHANGED <<badge, busy, me>>

\* login: the user, the token and a bootstrap.
SignsIn(f) ==
    /\ flight[f].at = "back" /\ flight[f].kind = "login"
    /\ me' = flight[f].arg
    /\ Shows(f)
    /\ odd' = IF badge # flight[f].arg THEN odd \cup {"crossed"} ELSE Crossing(f)
    /\ UNCHANGED <<badge, busy>>

\* logout, whatever the server said.
SignsOut(f) ==
    /\ flight[f].at = "back" /\ flight[f].kind = "logout"
    /\ Done(f) /\ Forgets
    /\ odd' = Crossing(f)
    /\ UNCHANGED <<badge, busy, witnessed>>

\* init goes on to load.
Recognises(f) ==
    /\ flight[f].at = "back" /\ flight[f].kind = "status"
    /\ me' = flight[f].arg
    /\ flight' = [flight EXCEPT ![f] = IF flight[f].user = NoFolk THEN NoFlight
         ELSE [NoFlight EXCEPT !.kind = "load", !.token = flight[f].arg, !.at = "sent"]]
    /\ odd' = IF badge # flight[f].arg \/ Rest(f) THEN odd \cup {"crossed"} ELSE odd
    /\ UNCHANGED <<badge, busy, shown, timer, witnessed>>

\* The network fails, before the server or after it.  A poll that fails is not
\* armed again.
Breaks(f) ==
    /\ flight[f].kind \in {"load", "poll", "act"}
    /\ Done(f)
    /\ odd' = IF flight[f].kind = "poll" THEN odd \cup {"missed"} ELSE odd
    /\ UNCHANGED <<badge, busy, me, shown, timer, witnessed>>

PgNext ==
  /\ \/ \E f \in Flights :
          \/ \E s \in Sessions : PressLogin(f, s)
          \/ PressLogout(f) \/ Act(f) \/ Poll(f) \/ Reopens(f)
          \/ Serves(f)
          \/ Refused(f) \/ Absorbs(f) \/ SignsIn(f) \/ SignsOut(f) \/ Recognises(f)
          \/ Breaks(f)
     \/ \E u \in Folk : RunEnds(u)
     \/ \E s \in Sessions \cup {NoSession} : CookieChanges(s)
  /\ Cardinality(odd') <= MaxOdd

PgSpec == PgInit /\ [][PgNext]_pgVars

PgTypeOK ==
    /\ {badge, me} \subseteq Sessions \cup {NoSession}
    /\ busy \subseteq Folk /\ shown \in [user : Folk \cup {NoFolk}, busy : BOOLEAN]
    /\ timer \in BOOLEAN /\ DOMAIN flight = Flights /\ witnessed \subseteq Folk
    /\ odd \subseteq {"crossed", "overtaken", "missed"}

\* What is shown is of whoever is signed in, and nothing once they have left,
\* unless a request was under way when the session changed, or another tab
\* changed it (absorbBootstrap never asks for whom an answer is).
ShowsMine ==
    "crossed" \notin odd =>
        IF me = NoSession THEN shown = Blank ELSE shown.user \in {NoFolk, FolkOf(me)}

\* An active run that has been shown stays shown while it lasts, unless an
\* answer was overtaken by a later one, and the page asks again, unless a poll
\* has failed (app.js 4528-4543).
WatchesRuns ==
    /\ me # NoSession /\ FolkOf(me) \in witnessed \cap busy
         /\ odd \cap {"crossed", "overtaken"} = {}
           => shown.busy
    /\ me # NoSession /\ shown.busy /\ "missed" \notin odd
           => timer \/ \E f \in Flights : flight[f].kind = "poll"

PageHolds == ShowsMine /\ WatchesRuns
=============================================================================
