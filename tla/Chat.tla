-------------------------------- MODULE Chat --------------------------------
(***************************************************************************)
(* One user's chat with the assistant: POST /api/chat/message of app.py,   *)
(* which sends each message to the guided search (module Journey), to the  *)
(* command that is being asked about, or to the command router; and the    *)
(* searches these start.                                                   *)
(*                                                                         *)
(* The server runs one thread per request, so a second message (a second   *)
(* tab, an impatient user) is handled while the first one is.  A turn of   *)
(* the guided search loads the record, may wait for the language model,    *)
(* saves the record, waits for the job boards, writes what find_jobs found *)
(* and then what the guided search makes of it: each of these is a step    *)
(* here, each load or save of the record inside one is atomic.             *)
(***************************************************************************)
EXTENDS Journey, FiniteSets

CONSTANTS
    Threads,        \* request threads
    Habits,         \* kinds of users; a behaviour is about one of them
    Says,           \* Says[h][t]: the messages a user of habit h sends by thread t
    UsesCommands,   \* the habits with slash commands
    EditsProfile,   \* the habits that change the friction class meanwhile
    SlashRoles      \* roles that "/find" is used with

ASSUME ChatAssumption ==
    /\ Says \in [Habits -> [Threads -> SUBSET Messages]]
    /\ UsesCommands \subseteq Habits /\ EditsProfile \subseteq Habits
    /\ SlashRoles \subseteq RoleMessages

VARIABLES
    habit,          \* the kind of user this behaviour is about
    stored,         \* profile.chat_state["journey"]
    profile,        \* the fields of the profile a search or a turn reads
    pending,        \* session.pending: the command being asked about
    kept,           \* the session as the last reply wrote it into the profile
    turn,           \* the request each thread is working on
    shown,          \* what the last reply asks for
    diverted,       \* history: the last reply was not the last word on stored
    ended,          \* history: the user or a search of theirs ended the journey
    answered        \* history: suggestions of auto-relax answered so far

vars == <<habit, stored, profile, pending, kept, turn, shown, diverted, ended, answered>>

Profiles == [located : BOOLEAN, cv : BOOLEAN, constrained : BOOLEAN]
\* "filled" is a search whose answers are complete, until it has run.
Pendings == [kind : {"none", "location", "filled", "confirm"}, query : Roles]
NoPending == [kind |-> "none", query |-> ""]
Idle == [at |-> "idle", msg |-> "", result |-> Unsaved(Fresh), query |-> "",
         located |-> FALSE, command |-> FALSE]

Quiet       == \A t \in Threads : turn[t] = Idle
InJourney   == stored.phase \notin {"greet", "done"}
AfterSearch == {"review", "drill", "tailor", "letter", "cv_consult"}
NewSearch   == FindTokens \cup Bucketed \cup {"search again"}

\* What a reply that leaves the record at j shows, and what a later message
\* would be taken to answer.
Shows(j) == [asks |-> Asks(j),
             suggestion |-> IF Asks(j) = "suggestion" /\ Suggestion(j) # <<>>
                            THEN Head(Suggestion(j)) ELSE ""]
Reads(j) == [asks |-> Asks(j),
             suggestion |-> IF Asks(j) = "suggestion" THEN j.offered ELSE ""]
Just(what)   == [asks |-> what, suggestion |-> ""]
ShowsNothing == Just("nothing")
Reader ==
    IF pending.kind = "confirm" THEN Just("confirm")
    ELSE IF InJourney THEN Reads(stored)
    ELSE IF pending.kind = "location" THEN Just("where") ELSE ShowsNothing

\* A record that becomes j, and of the answers given to auto-relax those that
\* still hold: none after a success, a restart or an overlapping request.
Keep(j, answers) ==
    /\ stored' = j
    /\ answered' = IF \/ diverted \/ j.phase = "greet" \/ j.results # {} \/ j.step # "done"
                   THEN {} ELSE answers

Init ==
    /\ habit \in Habits
    /\ stored = Fresh
    /\ profile \in [located : {FALSE}, cv : BOOLEAN, constrained : {FALSE}]
    /\ pending = NoPending
    /\ kept = NoPending
    /\ turn = [t \in Threads |-> Idle]
    /\ shown = ShowsNothing
    /\ diverted = FALSE
    /\ ended = FALSE
    /\ answered = {}

(***************************************************************************)
(* A message arrives and is sent somewhere.                                *)
(***************************************************************************)
\* The guided search reads the record j and works out its answer.
Step(t, j, msg) ==
    \E ai \in BOOLEAN :
       turn' = [turn EXCEPT ![t] = [Idle EXCEPT !.at = "save", !.msg = msg,
                                                !.result = Advance(j, msg, profile.cv, ai)]]
DirectFind(t, query, located, command) ==
    turn' = [turn EXCEPT ![t] = [Idle EXCEPT !.at = "direct", !.query = query,
                                             !.located = located \/ profile.located,
                                             !.command = command]]
\* A command whose answers are complete stays pending while it runs.
RunFilled(t, query) ==
    /\ pending' = [kind |-> "filled", query |-> query]
    /\ DirectFind(t, query, TRUE, TRUE)
    /\ UNCHANGED <<kept, shown>>
\* Every reply also writes the session into the profile.
Answer(reply) == turn' = turn /\ shown' = reply /\ kept' = pending'

CvInterrupt(t, msg) ==
    /\ msg \in CvIntent /\ stored.phase # "cv_check"
    /\ Keep(Building, answered) /\ ended' = FALSE
    /\ UNCHANGED <<habit, profile, pending>>
    /\ Answer(Shows(Building))

NewSearchInterrupt(t, msg) ==
    /\ msg \in NewSearch /\ stored.phase \in AfterSearch
    /\ Keep(Fresh, answered) /\ ended' = FALSE
    /\ IF msg \in Bucketed THEN DirectFind(t, msg, FALSE, FALSE) ELSE Step(t, Fresh, "")
    /\ UNCHANGED <<habit, profile, pending, kept, shown>>

AutoStart(t, msg) ==
    /\ msg \in FindTokens /\ ~InJourney
    /\ Keep(Fresh, answered) /\ ended' = FALSE
    /\ Step(t, Fresh, msg)
    /\ UNCHANGED <<habit, profile, pending, kept, shown>>

ToJourney(t, msg) ==
    /\ InJourney /\ pending.kind # "confirm"
    /\ ~(msg \in NewSearch /\ stored.phase \in AfterSearch)
    /\ ~(msg \in CvIntent /\ stored.phase # "cv_check")
    /\ Step(t, stored, msg)
    /\ UNCHANGED <<habit, stored, profile, pending, kept, shown, ended, answered>>

\* The command router: an answer to the pending command, or else a message
\* with a role in it, that the keywords or the language model take for a search.
Routed(msg) ==
    /\ InJourney => pending.kind = "confirm"
    /\ ~(msg \in NewSearch /\ stored.phase \in AfterSearch)
    /\ ~(msg \in CvIntent /\ stored.phase # "cv_check")
    /\ ~(msg \in FindTokens /\ ~InJourney)

\* Whatever is said while a search is complete but has not run, runs it.
AnswerPending(t, msg) ==
    CASE pending.kind = "confirm" ->
            /\ pending' = IF msg \in {"yes", "no"} THEN NoPending ELSE pending
            /\ Answer(IF msg \in {"yes", "no"} THEN ShowsNothing ELSE Just("confirm"))
      [] pending.kind \in {"location", "filled"} -> RunFilled(t, pending.query)

AskWhere(role) ==
    /\ pending' = [kind |-> "location", query |-> role]
    /\ Answer(Just("where"))

ToRouter(t, msg) ==
    /\ Routed(msg)
    /\ IF pending.kind # "none" THEN AnswerPending(t, msg)
       ELSE \/ UNCHANGED pending /\ Answer(ShowsNothing)
            \/ msg \in RoleMessages /\ AskWhere(msg)
    /\ UNCHANGED <<habit, stored, profile, ended, answered>>

Receive(t, msg) ==
    /\ turn[t] = Idle /\ msg \in Says[habit][t]
    /\ \/ CvInterrupt(t, msg)
       \/ NewSearchInterrupt(t, msg)
       \/ AutoStart(t, msg)
       \/ ToJourney(t, msg)
       \/ ToRouter(t, msg)
    /\ diverted' = (~Quiet \/ (pending.kind # "none" /\ (InJourney \/ ~Routed(msg))))

(***************************************************************************)
(* Slash commands.  In the phases after a search the words of "/find" are  *)
(* taken for a new search before the slash is looked at.                   *)
(***************************************************************************)
Slash(t) ==
    /\ habit \in UsesCommands
    /\ turn[t] = Idle
    /\ diverted' = TRUE
    /\ UNCHANGED <<habit, stored, profile, ended, answered>>

\* "/find <role> <place>" runs at once, "/find <role>" asks for the place.
SlashFind(t, role) ==
    /\ Slash(t)
    /\ stored.phase \notin AfterSearch /\ pending.kind = "none"
    /\ RunFilled(t, role)

SlashFindAsk(t, role) ==
    /\ Slash(t)
    /\ stored.phase \notin AfterSearch /\ pending.kind = "none"
    /\ AskWhere(role)

SlashFindRestart(t, role) ==
    /\ habit \in UsesCommands
    /\ turn[t] = Idle /\ stored.phase \in AfterSearch
    /\ Keep(Fresh, answered) /\ ended' = FALSE
    /\ IF role \in Bucketed THEN DirectFind(t, role, FALSE, FALSE) ELSE Step(t, Fresh, "")
    /\ diverted' = (~Quiet \/ pending.kind # "none")
    /\ UNCHANGED <<habit, profile, pending, kept, shown>>

\* A command that writes: it waits for a yes.
SlashWrite(t) ==
    /\ Slash(t)
    /\ pending.kind = "none"
    /\ pending' = [kind |-> "confirm", query |-> ""]
    /\ Answer(Just("confirm"))

\* Any command, while another is pending: it is taken as an answer to that.
SlashAnswers(t) ==
    /\ Slash(t)
    /\ pending.kind # "none"
    /\ AnswerPending(t, "/")

(***************************************************************************)
(* A turn of the guided search.                                            *)
(***************************************************************************)
\* Auto-relax took the message as a yes or a no to its suggestion.
Answered(msg, result) ==
    IF /\ result.persist /\ stored.phase = "review" /\ stored.sub = "auto_relax_offering"
       /\ msg \in AutoAdvanceTokens \cup AutoDeclineTokens
    THEN answered \cup {stored.offered} ELSE answered

\* The turn ends with a reply, which writes the session into the profile.
Reply(t, reply) ==
    turn' = [turn EXCEPT ![t] = Idle] /\ shown' = reply /\ kept' = pending'

Save(t) ==
    LET result == turn[t].result
        j      == result.journey
    IN  /\ turn[t].at = "save"
        /\ UNCHANGED <<habit, pending>>
        \* A pasted CV is classified, which decides the friction class.
        /\ \E class \in IF result.cv /\ turn[t].msg \in CvPaste THEN BOOLEAN
                       ELSE {profile.constrained} :
             profile' = [located     |-> profile.located \/ result.located,
                         cv          |-> profile.cv \/ result.cv,
                         constrained |-> class]
        /\ IF result.persist
           THEN /\ Keep(j, Answered(turn[t].msg, result))
                /\ ended' = (j.phase = "done")
                /\ diverted' = diverted
           ELSE /\ UNCHANGED <<stored, ended, answered>>
                /\ diverted' = (diverted \/ Shows(j) # Reads(stored))
        /\ IF result.search
           THEN /\ turn' = [turn EXCEPT ![t] =
                              [Idle EXCEPT !.at = "find", !.query = Query(j),
                                           !.located = j.located \/ profile.located]]
                /\ UNCHANGED <<kept, shown>>
           ELSE Reply(t, Shows(j))

\* The job boards have answered; find_jobs writes the record.
FindReturns(t, results) ==
    /\ turn[t].at = "find"
    /\ Keep(Found(stored, turn[t].query, turn[t].located, results), answered)
    /\ turn' = [turn EXCEPT ![t] = [Idle EXCEPT !.at = "land",
                                     !.result = Unsaved([Fresh EXCEPT !.results = results])]]
    /\ ended' = (ended /\ results = {})
    /\ UNCHANGED <<habit, profile, pending, kept, shown, diverted>>

Land(t) ==
    LET results == turn[t].result.journey.results
        j       == Landed(stored, results, profile.constrained)
    IN  /\ turn[t].at = "land"
        /\ Keep(j, answered)
        /\ ended' = FALSE
        /\ diverted' = \/ diverted
                       \/ results = {} /\ stored.active /\ stored.constrained # profile.constrained
        /\ UNCHANGED <<habit, profile, pending>>
        /\ Reply(t, Shows(j))

FindFails(t) ==
    /\ turn[t].at = "find"
    /\ Keep(Failed(stored), answered) /\ ended' = TRUE
    /\ UNCHANGED <<habit, profile, pending, diverted>>
    /\ Reply(t, ShowsNothing)

\* A search asked for by name.  Its reply lists the categories it found.
DirectReturns(t, results) ==
    LET j == Found(stored, turn[t].query, turn[t].located, results)
    IN  /\ turn[t].at = "direct"
        /\ Keep(j, answered)
        /\ ended' = (j.phase = "done")
        /\ pending' = IF turn[t].command THEN NoPending ELSE pending
        /\ Reply(t, IF results = {} THEN ShowsNothing ELSE Just("category"))
        /\ diverted' = (diverted \/ stored.sub # "")
        /\ UNCHANGED <<habit, profile>>

\* Nothing catches the error here: the request fails, and what was pending is.
DirectFails(t) ==
    /\ turn[t].at = "direct"
    /\ turn' = [turn EXCEPT ![t] = Idle]
    /\ shown' = ShowsNothing
    /\ diverted' = TRUE
    /\ UNCHANGED <<habit, stored, profile, pending, kept, ended, answered>>

(***************************************************************************)
(* Outside a turn.                                                         *)
(***************************************************************************)
\* /api/chat/reset drops chat_state, and with it the record.
Reset(t) ==
    /\ turn[t] = Idle
    /\ Keep(Fresh, answered) /\ ended' = FALSE
    /\ pending' = NoPending /\ kept' = NoPending
    /\ shown' = ShowsNothing
    /\ diverted' = ~Quiet
    /\ UNCHANGED <<habit, profile, turn>>

\* The friction class, and with it the order of the widenings, is changed by a
\* command or from the profile page.
Reclassify ==
    /\ habit \in EditsProfile
    /\ profile' = [profile EXCEPT !.constrained = ~@]
    /\ diverted' = TRUE
    /\ UNCHANGED <<habit, stored, pending, kept, turn, shown, ended, answered>>

\* The process dies; the requests at work get no answer.  The record and the
\* session are read back from the profile.
Restart ==
    /\ ~Quiet
    /\ turn' = [t \in Threads |-> Idle]
    /\ diverted' = TRUE
    /\ ended' = (stored.phase = "done")
    /\ shown' = ShowsNothing
    /\ pending' = kept
    /\ UNCHANGED <<habit, stored, profile, kept, answered>>

Next ==
    \/ \E t \in Threads :
         \/ \E msg \in Says[habit][t] : Receive(t, msg)
         \/ \E role \in SlashRoles :
              \/ SlashFind(t, role)
              \/ SlashFindAsk(t, role)
              \/ SlashFindRestart(t, role)
         \/ SlashWrite(t)
         \/ SlashAnswers(t)
         \/ Save(t)
         \/ \E results \in SUBSET Categories : FindReturns(t, results)
         \/ Land(t)
         \/ FindFails(t)
         \/ \E results \in SUBSET Categories : DirectReturns(t, results)
         \/ DirectFails(t)
         \/ Reset(t)
    \/ Reclassify
    \/ Restart

Spec == Init /\ [][Next]_vars

TypeOK ==
    /\ habit \in Habits
    /\ stored \in Journeys
    /\ profile \in Profiles
    /\ {pending, kept} \subseteq Pendings
    /\ turn \in [Threads -> [at : {"idle", "save", "find", "land", "direct"}, msg : Messages \cup {""},
                  result : [journey : Journeys, persist : BOOLEAN, search : BOOLEAN,
                            cv : BOOLEAN, located : BOOLEAN],
                  query : Roles, located : BOOLEAN, command : BOOLEAN]]
    /\ {diverted, ended} \subseteq BOOLEAN
    /\ answered \subseteq Widenings

\* What the last reply asks for is what the next message is taken to answer,
\* over searches, widenings and re-asks; except after a reply that was not
\* saved, a command in mid-search, a second request, or a restart (diverted).
\* The first reply of auto-relax after the CV was re-classified is one too: its
\* suggestion is chosen in the old order of the widenings and shown in the new
\* one (app.py 5973, 6024 and 6057).
ReplyMatchesReader == Quiet /\ ~diverted => shown = Reader

\* "Never-implicit-done" (journey.py 2812): an empty search alone does not end
\* the journey, although find_jobs writes "done" before the guided search
\* takes over; the user does, or a search that failed or was asked for by name.
NoImplicitEnd == Quiet /\ stored.phase = "done" => ended

\* Auto-relax never suggests again what was answered with a yes or a no,
\* across the searches in between and the trips to the menu.
NeverAskedTwice == Quiet /\ ~diverted => shown.suggestion \notin answered
=============================================================================
