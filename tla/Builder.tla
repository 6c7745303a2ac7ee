------------------------------ MODULE Builder ------------------------------
(***************************************************************************)
(* The CV builder: the wizard of the page (app.js 5184-5602), the session  *)
(* the server keeps in memory for it (app.py 6766-6832, 10998-11160;       *)
(* cv_builder.py 317-560) and the CV that a finished session becomes.      *)
(***************************************************************************)
EXTENDS Naturals, Sequences, FiniteSets

CONSTANTS Tabs, Clicks,                       \* pages of one user, requests
          MaxSessions, MaxAnswers             \* bounds

ASSUME BuilderAssumption == MaxSessions \in Nat /\ MaxAnswers \in Nat

VARIABLES
    sessions,   \* every session there has been: where it stands, what it keeps
    current,    \* the session the server has, 0 for none
    wizard,     \* tab -> what it shows: of which session, section, anything filled?
    click,      \* the requests on their way
    cv,         \* the CV in the profile and the session it was made of
    answered,   \* how many answers were typed
    filed,      \* history: answers the server put into a session
    astray      \* history: sessions that got the request of a page on another one

bldVars == <<sessions, current, wizard, click, cv, answered, filed, astray>>

\* One section of each sort stands for the seven.
SectionOrder == <<"education", "skills", "projects">>
SectionIds   == {"education", "skills", "projects"}
Repeatable   == {"education", "projects"}
Formattable  == {"skills"}                     \* with a *_raw question
Skippable    == {"projects"}
Place(sec)   == CHOOSE i \in 1..3 : SectionOrder[i] = sec

\* The section after sec; "none" is before the first and after the last.
NextSection(sec) ==
    IF sec = "none" THEN SectionOrder[1]
    ELSE IF Place(sec) < 3 THEN SectionOrder[Place(sec) + 1] ELSE "none"

NoAnswers  == [sec \in SectionIds |-> <<>>]
NewSession == [at |-> "none", kept |-> NoAnswers]
NoClick == [op |-> "none", tab |-> "none", sec |-> "none", stay |-> FALSE, of |-> 0,
            text |-> 0, s |-> 0, at |-> "none", some |-> FALSE, step |-> "none"]
Blank   == [s |-> 0, at |-> "none", some |-> FALSE]

BldInit ==
    /\ sessions = <<>> /\ current = 0 /\ wizard = [t \in Tabs |-> Blank]
    /\ click = [c \in Clicks |-> NoClick] /\ cv = [of |-> 0, kept |-> NoAnswers]
    /\ answered = 0 /\ filed = {} /\ astray = {}

-----------------------------------------------------------------------------
(* The page.  No button waits for the answer to the one before. *)

Presses(c, t, op, sec, stay) ==
    /\ click[c].step = "none"
    /\ click' = [click EXCEPT ![c] = [NoClick EXCEPT !.op = op, !.tab = t, !.sec = sec,
                    !.stay = stay, !.of = wizard[t].s, !.text = answered', !.step = "sent"]]
    /\ UNCHANGED <<sessions, current, wizard, cv, filed, astray>>

Opens(c, t)  == answered' = answered /\ Presses(c, t, "show", "none", FALSE)
PressesStart(c, t) == answered' = answered /\ Presses(c, t, "start", "none", FALSE)
PressesSave(c, t, stay) ==
    /\ wizard[t].at # "none" /\ answered < MaxAnswers /\ (stay => wizard[t].at \in Repeatable)
    /\ answered' = answered + 1 /\ Presses(c, t, "save", wizard[t].at, stay)
PressesSkip(c, t) ==
    /\ wizard[t].at \in Skippable
    /\ answered' = answered /\ Presses(c, t, "skip", wizard[t].at, FALSE)
PressesFinish(c, t) ==
    /\ wizard[t].at = "none" /\ wizard[t].some
    /\ answered' = answered /\ Presses(c, t, "finish", "none", FALSE)

\* An answer comes.
Shown(c) ==
    /\ click[c].step = "done"
    /\ wizard' = [wizard EXCEPT ![click[c].tab] =
                    [s |-> click[c].s, at |-> click[c].at, some |-> click[c].some]]
    /\ click' = [click EXCEPT ![c] = NoClick]
    /\ UNCHANGED <<sessions, current, cv, answered, filed, astray>>

-----------------------------------------------------------------------------
(* The handlers. *)

Sent(c, ops) == click[c].step = "sent" /\ click[c].op \in ops

\* cv_builder_state_for: the session there is, else a new one.
Room    == current # 0 \/ Len(sessions) < MaxSessions
Live    == IF current # 0 THEN current ELSE Len(sessions) + 1
StateFor == IF current # 0 THEN sessions ELSE Append(sessions, NewSession)

\* A request that changes session s came from a page on another one.
Strays(c, s) == astray' = IF click[c].of # s THEN astray \cup {s} ELSE astray

\* The handler of c answers with session s as the step leaves it.
Replies(c, s) ==
    click' = [click EXCEPT ![c].s = s, ![c].step = "done", ![c].at = sessions'[s].at,
                 ![c].some = \E sec \in SectionIds : sessions'[s].kept[sec] # <<>>]

Show(c) ==
    /\ Sent(c, {"show"}) /\ Room
    /\ sessions' = StateFor /\ current' = Live /\ Replies(c, Live)
    /\ UNCHANGED <<wizard, cv, answered, filed, astray>>

\* A session that was just started.
Fresh == [at |-> NextSection("none"), kept |-> NoAnswers]

Start(c) ==
    /\ Sent(c, {"start"}) /\ Len(sessions) < MaxSessions
    /\ sessions' = Append(sessions, Fresh) /\ current' = Len(sessions) + 1
    /\ Replies(c, current')
    /\ UNCHANGED <<wizard, cv, answered, filed, astray>>

SaveTakes(c) ==
    /\ Sent(c, {"save"}) /\ Room
    /\ sessions' = StateFor /\ current' = Live /\ Strays(c, Live)
    /\ click' = [click EXCEPT ![c].s = Live, ![c].step = "formatting"]
    /\ UNCHANGED <<wizard, cv, answered, filed>>

\* A required field is missing, or the provider's call raises: the page shows
\* the error and stays as it is.
FormatFails(c) ==
    /\ click[c].step = "formatting" /\ click' = [click EXCEPT ![c] = NoClick]
    /\ UNCHANGED <<sessions, current, wizard, cv, answered, filed, astray>>

Stored(kept, sec, entry) ==
    [kept EXCEPT ![sec] = IF sec \in Repeatable THEN Append(@, entry) ELSE <<entry>>]

\* What the AI gave counts if it was completed and keeps to the user's words.
Formatted(outcome) == IF outcome = "grounded" THEN "ai" ELSE "raw"

\* The finish that pops the session has read it already.
ReadOut(s) == \/ cv.of = s \/ \E d \in Clicks : click[d].step = "assembled" /\ click[d].s = s

\* The formatted answer goes into the session the handler has held since.
SaveWrites(c, outcome) ==
    LET k == click[c] entry == [text |-> k.text, form |-> Formatted(outcome)]
    IN  /\ k.step = "formatting" /\ (k.sec \in Formattable \/ outcome = "none")
        /\ sessions' = [sessions EXCEPT
              ![k.s].kept = Stored(@, k.sec, entry),
              ![k.s].at = IF k.stay THEN @ ELSE NextSection(k.sec)]
        /\ filed' = filed \cup {[text |-> k.text, sec |-> k.sec, s |-> k.s,
                                 late |-> ReadOut(k.s)]}
        /\ Replies(c, k.s)
        /\ UNCHANGED <<current, wizard, cv, answered, astray>>

Skip(c) ==
    /\ Sent(c, {"skip"}) /\ Room
    /\ sessions' = [StateFor EXCEPT ![Live].at = NextSection(click[c].sec)]
    /\ current' = Live /\ Strays(c, Live) /\ Replies(c, Live)
    /\ UNCHANGED <<wizard, cv, answered, filed>>

\* The session becomes the CV of the profile, which is saved, ...
Assembles(c) ==
    /\ Sent(c, {"finish"}) /\ Room
    /\ sessions' = StateFor /\ current' = Live /\ Strays(c, Live)
    /\ cv' = [of |-> Live, kept |-> StateFor[Live].kept]
    /\ click' = [click EXCEPT ![c].s = Live, ![c].step = "assembled"]
    /\ UNCHANGED <<wizard, answered, filed>>

\* ... then whatever session there is by now is dropped.
Finish(c) ==
    /\ click[c].step = "assembled" /\ current' = 0
    /\ click' = [click EXCEPT ![c].s = 0, ![c].at = "none", ![c].some = FALSE, ![c].step = "done"]
    /\ UNCHANGED <<sessions, wizard, cv, answered, filed, astray>>

\* The server stops: its sessions are gone and nobody is answered.
Stops ==
    /\ current # 0 /\ current' = 0 /\ click' = [c \in Clicks |-> NoClick]
    /\ UNCHANGED <<sessions, wizard, cv, answered, filed, astray>>

BldNext ==
    \/ Stops
    \/ \E c \in Clicks :
         \/ Shown(c) \/ Show(c) \/ Start(c) \/ SaveTakes(c) \/ FormatFails(c)
         \/ Skip(c) \/ Assembles(c) \/ Finish(c)
         \/ \E outcome \in {"none", "grounded", "invented"} : SaveWrites(c, outcome)
         \/ \E t \in Tabs : \/ Opens(c, t) \/ PressesStart(c, t)
                           \/ PressesSkip(c, t) \/ PressesFinish(c, t)
                            \/ \E stay \in BOOLEAN : PressesSave(c, t, stay)

BldSpec == BldInit /\ [][BldNext]_bldVars

-----------------------------------------------------------------------------
BldTypeOK ==
    /\ \A i \in DOMAIN sessions : /\ sessions[i].at \in SectionIds \cup {"none"}
                                  /\ DOMAIN sessions[i].kept = SectionIds
    /\ current \in 0..Len(sessions) /\ Len(sessions) <= MaxSessions
    /\ answered \in 0..MaxAnswers
    /\ \A c \in Clicks : DOMAIN click[c] = DOMAIN NoClick
    /\ \A t \in Tabs : DOMAIN wizard[t] = DOMAIN Blank
    /\ astray \subseteq 1..Len(sessions) /\ cv.of \in 0..Len(sessions)

\* The CV in the profile has every section the wizard does not let one skip,
\* unless a page of an older session took part in its making: one whose session
\* another tab, another click or a stop of the server had ended (a second
\* Finish makes the empty CV of a new session of it).
CvIsWhole ==
    cv.of # 0 /\ cv.of \notin astray =>
        \A sec \in SectionIds \ Skippable : cv.kept[sec] # <<>>

\* An answer put into a session is in it as long as it is the current one, and
\* in the CV made of it unless it came later, once, however the requests
\* crossed; in a section that takes one entry, the last.
IsIn(a, kept) ==
    IF a.sec \in Repeatable
    THEN Cardinality({i \in DOMAIN kept[a.sec] : kept[a.sec][i].text = a.text}) = 1
    ELSE Len(kept[a.sec]) = 1
AnswersArrive ==
    \A a \in filed : /\ a.s = current => IsIn(a, sessions[current].kept)
                     /\ a.s = cv.of /\ ~a.late => IsIn(a, cv.kept)

\* A CV is of the answers given since the builder was started over: none of an
\* earlier session is in it.
NothingOld ==
    cv.of # 0 => \A sec \in SectionIds : \A i \in DOMAIN cv.kept[sec] :
        \E a \in filed : a.text = cv.kept[sec][i].text /\ a.s = cv.of

BuilderHolds == CvIsWhole /\ AnswersArrive /\ NothingOld
=============================================================================
