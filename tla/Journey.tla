------------------------------ MODULE Journey ------------------------------
(***************************************************************************)
(* The guided job search of company_discovery/journey.py and widening.py:  *)
(* what one message of the user does to the record that is stored in       *)
(* profile.chat_state["journey"], what the reply asks next, and whether    *)
(* the record is saved and a search is run.  Everything here is a function *)
(* of the record and the message, as in the code; module Chat holds the    *)
(* state and lets messages, searches and commands interleave.              *)
(*                                                                         *)
(* A message stands for all messages that the token sets of the two files  *)
(* tell apart: each name below is one of the words of the code, and is in  *)
(* exactly the sets that word is in.                                       *)
(***************************************************************************)
EXTENDS Naturals, Sequences, SequencesExt

CONSTANTS
    BuildSteps,     \* number of questions of the CV build (5 in the code)
    Categories      \* categories of search results, also typed as answers

ASSUME BuildStepsAssumption == BuildSteps \in Nat \ {0}

(* The words, by what they mean where. *)
CancelTokens      == {"cancel", "stop", "exit", "reset", "abort"}
HelpTokens        == {"help"}
OffTopic          == {"tell me a joke"}
GiveUpTokens      == {"give up", "done", "stop", "exit"}
RetryTokens       == {"retry", "search again"}
StartFreshTokens  == {"restart", "reset"}
LateralYesTokens  == {"yes"}
LateralNoTokens   == {"no", "skip", "back", "cancel"}
AutoAdvanceTokens == {"yes", "weiter"}
AutoDeclineTokens == {"no", "skip", "next"}
AutoCancelTokens  == {"cancel", "stop", "back"}
AutoGiveUpTokens  == {"give up", "done", "exit"}
AutoEnterTokens   == {"auto"}
InspireYesTokens  == {"yes"}
InspireNoTokens   == {"no", "skip"}
FindTokens        == {"find a job"}
CvIntent          == {"i need a cv"}
CvPaste           == {"<cv>"}       \* a pasted CV, with the years of a job in it
PrefsTokens       == {"skip", "weiter", "next", "done", "remote"} \cup CvPaste

\* Roles: "nurse" is in the taxonomy of job_type_filter.py, "clerk" is not, and
\* "senior" is a prefix that can be dropped.  Other text is a role like "clerk".
RoleMessages == {"nurse", "senior clerk"}
Bucketed     == {"nurse"}
Prefixed     == {"senior clerk"}
Strip(role)  == IF role = "senior clerk" THEN "clerk" ELSE role
RoleOf(msg)  == IF msg \in RoleMessages THEN msg ELSE "clerk"

\* A misspelt city, which the code offers to correct.
Typo == "berli"

Numbers   == {"1", "2", "3", "4", "5", "6"}
Value(n)  == CHOOSE i \in 1..6 : <<"1", "2", "3", "4", "5", "6">>[i] = n

WidenLocation == "widen_location"
DropSeniority == "drop_seniority"
TryLaterals   == "try_laterals"
Widenings     == {WidenLocation, DropSeniority, TryLaterals}

\* The words that name an entry of the menu of an empty search.
TokensOf(option) ==
    CASE option = WidenLocation -> {"widen", "weiter"}
      [] option = DropSeniority -> {"any level"}
      [] option = TryLaterals   -> {"related"}
      [] option = "auto"        -> AutoEnterTokens
      [] option = "fresh"       -> StartFreshTokens
      [] option = "retry"       -> RetryTokens
      [] option = "give up"     -> GiveUpTokens

Messages ==
    CancelTokens \cup HelpTokens \cup OffTopic \cup GiveUpTokens \cup RetryTokens
      \cup StartFreshTokens \cup LateralNoTokens \cup AutoAdvanceTokens
      \cup AutoDeclineTokens \cup AutoEnterTokens \cup PrefsTokens \cup FindTokens
      \cup CvIntent \cup CvPaste \cup RoleMessages \cup {Typo} \cup Numbers
      \cup Categories \cup {"widen", "any level", "related", "build", "reuse",
                            "letter", "consult", "save"}

\* Free text that is refused where a role is expected: it contains a verb.
NotARole == {"<cv>", "i need a cv", "find a job", "search again", "give up", "save",
             "build", "tell me a joke"}

(***************************************************************************)
(* The record.  Answers nothing depends on (years, languages, preferences, *)
(* the text of a diagnosis) are left out.  primary and extra are the first *)
(* and the other elements of target_roles; "absent" is an empty list.      *)
(***************************************************************************)
Roles     == RoleMessages \cup {"clerk", "job", ""}
Phases    == {"greet", "discover", "cv_check", "inspire", "preferences", "search",
              "review", "drill", "tailor", "letter", "cv_consult", "done"}
Laterals  == {"near", "ai"} \X Roles

Journeys ==
    [phase : Phases, step : {"role", "location", "years", "langs", "done"},
     role : Roles, bucket : BOOLEAN, matched : BOOLEAN,
     located : BOOLEAN, typo : BOOLEAN,
     cv : {"unknown", "building", "uploaded"}, build : 0..BuildSteps,
     laterals : SUBSET Laterals, primary : Roles \cup {"absent"},
     extra : SUBSET Laterals, results : SUBSET Categories,
     picked : Categories \cup {""},
     sub : {"", "empty", "laterals_offered", "auto_relax_offering"},
     constrained : BOOLEAN, applied : SUBSET Widenings,
     proposed : Seq(Laterals), active : BOOLEAN,
     declined : SUBSET Widenings, offered : Widenings \cup {""}]

Fresh ==
    [phase |-> "greet", step |-> "role", role |-> "", bucket |-> FALSE,
     matched |-> FALSE, located |-> FALSE, typo |-> FALSE, cv |-> "unknown",
     build |-> 0, laterals |-> {}, primary |-> "absent", extra |-> {},
     results |-> {}, picked |-> "", sub |-> "", constrained |-> FALSE,
     applied |-> {}, proposed |-> <<>>, active |-> FALSE, declined |-> {},
     offered |-> ""]

\* The journey a message like "i need a cv" starts.
Building == [Fresh EXCEPT !.phase = "cv_check", !.cv = "building"]

(***************************************************************************)
(* What a turn returns: the record as the handler left it, whether it is   *)
(* saved, whether a search follows, and what it writes into the profile.   *)
(***************************************************************************)
Saved(j)   == [journey |-> j, persist |-> TRUE, search |-> FALSE, cv |-> FALSE,
               located |-> FALSE]
Unsaved(j) == [Saved(j) EXCEPT !.persist = FALSE]
Search(j)  == [Saved(j) EXCEPT !.search = TRUE]

\* What the reply that leaves the user at j asks for.
Asks(j) ==
    CASE j.phase = "discover"    -> IF j.typo THEN "typo" ELSE j.step
      [] j.phase = "cv_check"    -> IF j.cv = "building" THEN "build" ELSE "cv"
      [] j.phase = "inspire"     -> IF j.laterals = {} THEN "nothing" ELSE "laterals"
      [] j.phase = "preferences" -> "preferences"
      [] j.phase = "review"      ->
            (CASE j.sub = "laterals_offered"    -> "which laterals"
               [] j.sub = "auto_relax_offering" -> "suggestion"
               [] j.sub = "empty"               -> "menu"
               [] OTHER -> IF j.results = {} THEN "menu" ELSE "category")
      [] j.phase = "drill"       -> "job"
      [] j.phase = "tailor"      -> "action"
      [] j.phase \in {"letter", "cv_consult"} -> "wrap up"
      [] OTHER                   -> "nothing"

\* The words of a search: the first target role, and the place.
\* mutant of Query: no word to search by when no role is known
QueryRaw(j) == j.primary

Query(j) == IF j.primary = "absent" THEN "job" ELSE j.primary

\* Roles to try next to j's own: those of its bucket, or made from its words.
\* One stands for the list, which the code takes whole or by numbers.
Suggested(j) ==
    <<"near", IF j.bucket THEN "nurse" ELSE IF j.role = "" THEN "job" ELSE j.role>>

NewLaterals(j) == IF Suggested(j) \in j.extra THEN <<>> ELSE <<Suggested(j)>>

(***************************************************************************)
(* Widening an empty search.                                               *)
(***************************************************************************)
Eligible(j, a) ==
    CASE a = WidenLocation -> j.located
      [] a = DropSeniority -> (IF j.primary = "absent" THEN j.role ELSE j.primary) \in Prefixed
      [] a = TryLaterals   -> NewLaterals(j) # <<>>

Order(j) == IF j.constrained THEN <<TryLaterals, DropSeniority, WidenLocation>>
            ELSE <<WidenLocation, DropSeniority, TryLaterals>>

\* Those that fit j and are not closed, first to last.
Among(j, closed) ==
    LET order  == Order(j)
        One(a) == IF a \notin closed /\ Eligible(j, a) THEN <<a>> ELSE <<>>
    IN  One(order[1]) \o One(order[2]) \o One(order[3])

\* mutant of Affordances: what was declined is offered again
AffordancesAll(j, excluded) == Among(j, j.applied)

Affordances(j, excluded) == Among(j, j.applied \cup excluded)

\* The entries of the menu, in the order of their numbers.
Menu(j) ==
    LET offered == Affordances(j, {})
    IN  (IF offered # <<>> THEN Append(offered, "auto")
         ELSE IF j.applied # {} THEN <<"fresh">> ELSE <<>>) \o <<"retry", "give up">>

Option(j, msg) ==
    LET menu   == Menu(j)
        meant  == {o \in Range(menu) : msg \in TokensOf(o)}
        picked == {menu[i] : i \in {n \in DOMAIN menu : msg \in Numbers /\ Value(msg) = n}}
    IN  IF meant \cup picked = {} THEN "none" ELSE CHOOSE o \in meant \cup picked : TRUE

Apply(j, a) ==
    CASE a = WidenLocation ->
            Search([j EXCEPT !.located = FALSE, !.applied = @ \cup {a}])
      [] a = DropSeniority ->
            Search([j EXCEPT !.primary = Strip(@), !.role = Strip(@),
                             !.applied = @ \cup {a}])
      [] a = TryLaterals   ->
            Saved([j EXCEPT !.proposed = NewLaterals(j), !.sub = "laterals_offered"])

\* The next step auto-relax would suggest; <<>> when none is left.
Suggestion(j) == Affordances(j, j.declined)

ToMenu(j)  == [j EXCEPT !.active = FALSE, !.offered = "", !.sub = "empty"]
\* mutant of Propose: a suggestion that is set is not replaced
ProposeKept(j) == IF Suggestion(j) = <<>> THEN ToMenu(j)
                  ELSE [j EXCEPT !.offered = IF @ = "" THEN Head(Suggestion(j)) ELSE @]

Propose(j) == IF Suggestion(j) = <<>> THEN ToMenu(j)
              ELSE [j EXCEPT !.offered = Head(Suggestion(j))]

\* Entering auto-relax from the menu, or coming back to it when a search of
\* its own found nothing.
Suggesting(j) ==
    IF Suggestion(j) = <<>> THEN ToMenu(j)
    ELSE [Propose(j) EXCEPT !.active = TRUE, !.sub = "auto_relax_offering"]

(***************************************************************************)
(* The phases.                                                             *)
(***************************************************************************)
\* A word of CancelTokens that the sub-state of an empty search claims.
Defers(j, msg) ==
    /\ j.phase = "review"
    /\ \/ j.sub = "laterals_offered" /\ msg \in LateralNoTokens
       \/ j.sub = "auto_relax_offering" /\ msg \in AutoCancelTokens \cup AutoGiveUpTokens
       \/ j.sub = "empty" /\ msg \in GiveUpTokens
       \/ j.sub = "empty" /\ j.applied # {} /\ msg \in StartFreshTokens

Discover(j, msg) ==
    CASE j.step = "role" ->
            IF msg = "" THEN Unsaved(j)
            ELSE Saved([j EXCEPT !.role = RoleOf(msg), !.step = "location",
                                 !.bucket  = @ \/ msg \in Bucketed,
                                 !.matched = @ \/ msg \in Bucketed])
      [] j.step = "location" ->
            IF msg = "" THEN Unsaved(j)
            ELSE IF msg = Typo /\ ~j.typo THEN Saved([j EXCEPT !.typo = TRUE])
            ELSE [Saved([j EXCEPT !.located = TRUE, !.typo = FALSE, !.step = "years"])
                    EXCEPT !.located = TRUE]
      [] j.step = "years" -> Saved([j EXCEPT !.step = "langs"])
      [] j.step = "langs" -> Saved([j EXCEPT !.step = "done", !.phase = "cv_check"])
      [] OTHER            -> Saved([j EXCEPT !.step = "role"])

\* With no suggestions stored the message is not read: they are made and shown.
Inspire(j, msg, ai) ==
    LET target == IF j.matched THEN "nurse" ELSE j.role
        \* Roles the user types are taken to be new ones: nothing depends on them.
        Target(others) == Saved([j EXCEPT !.phase = "preferences", !.primary = target,
                                          !.extra = others])
    IN  IF j.laterals = {}
        THEN Saved([j EXCEPT !.laterals = IF ai THEN {<<"ai", j.role>>}
                                          ELSE {Suggested(j)}])
        ELSE IF msg \in InspireYesTokens THEN Target(j.laterals)
        ELSE IF msg \in InspireNoTokens THEN Target({})
        ELSE IF msg \notin NotARole \cup {""} THEN Target({})
        ELSE Unsaved(j)

CvCheck(j, msg, hasCv) ==
    LET Suggestions(cv) == Inspire([j EXCEPT !.phase = "inspire", !.cv = cv], "", FALSE)
        built  == [j EXCEPT !.build = @ + 1]
    IN  CASE j.cv = "unknown" ->
                (CASE hasCv /\ msg \in {"reuse", "yes"} -> Suggestions("uploaded")
                   [] msg \in {"build", "no"} -> Saved([j EXCEPT !.cv = "building", !.build = 0])
                   [] msg \in CvPaste -> [Suggestions("uploaded") EXCEPT !.cv = TRUE]
                   [] OTHER -> Unsaved(j))
          [] j.cv = "building" ->
                (CASE j.build = BuildSteps ->
                         [Saved([j EXCEPT !.phase = "inspire"]) EXCEPT !.cv = TRUE]
                   [] j.build < BuildSteps /\ msg = "" -> Unsaved(j)
                   [] j.build + 1 = BuildSteps /\ msg # "" ->
                         [Inspire([built EXCEPT !.phase = "inspire"], "", FALSE)
                            EXCEPT !.cv = TRUE]
                   [] OTHER -> Saved(built))
          [] j.cv = "uploaded" -> Saved([j EXCEPT !.phase = "inspire"])

Prefs(j, msg) ==
    IF msg \in PrefsTokens THEN Search([j EXCEPT !.phase = "search"]) ELSE Unsaved(j)

\* Everything but the CV, the preferences and the residency is forgotten.
ResetForFresh(j) ==
    [Fresh EXCEPT !.phase = "discover", !.cv = j.cv, !.build = j.build,
                  !.constrained = j.constrained]

Ended(j) == [j EXCEPT !.phase = "done", !.sub = "", !.applied = {}, !.proposed = <<>>]

Empty(j, msg) ==
    LET option == IF msg \in GiveUpTokens THEN "give up" ELSE Option(j, msg)
    IN  CASE option \in Widenings -> Apply(j, option)
          [] option = "give up" -> Saved(Ended(j))
          [] option = "fresh"   -> Saved(ResetForFresh(j))
          [] option = "auto"    -> Saved(Suggesting(j))
          [] option = "retry"   -> Search(j)
          [] OTHER              -> Unsaved(j)

LateralsOffered(j, msg) ==
    LET picked == {j.proposed[i] :
                      i \in {n \in DOMAIN j.proposed : msg \in Numbers /\ Value(msg) = n}}
        chosen == IF msg \in LateralYesTokens THEN Range(j.proposed) ELSE picked
    IN  IF msg \in LateralNoTokens
        THEN Unsaved([j EXCEPT !.proposed = <<>>, !.sub = "empty"])
        ELSE IF chosen = {} THEN Unsaved(j)
        ELSE Search([j EXCEPT !.extra = @ \cup chosen, !.applied = @ \cup {TryLaterals},
                              !.proposed = <<>>, !.sub = "empty"])

AutoRelax(j, msg) ==
    LET declined == [j EXCEPT !.declined = @ \cup ({j.offered} \ {""}), !.offered = ""]
        spent    == \/ j.offered \in j.applied \cup {""}
                    \/ j.offered = TryLaterals /\ NewLaterals(j) = <<>>
    IN  CASE msg \in AutoGiveUpTokens ->
                Saved([Ended(j) EXCEPT !.active = FALSE, !.declined = {}, !.offered = ""])
          [] msg \in AutoCancelTokens  -> Unsaved(ToMenu(j))
          [] msg \in AutoDeclineTokens -> Saved(Propose(declined))
          [] msg \in AutoAdvanceTokens /\ ~spent -> Apply(j, j.offered)
          [] OTHER -> Unsaved(Propose(j))

Review(j, msg) ==
    CASE j.sub = "laterals_offered"    -> LateralsOffered(j, msg)
      [] j.sub = "auto_relax_offering" -> AutoRelax(j, msg)
      [] j.sub = "empty"               -> Empty(j, msg)
      [] OTHER ->
            IF j.results = {} THEN Empty([j EXCEPT !.sub = "empty"], msg)
            ELSE IF msg \in j.results THEN Saved([j EXCEPT !.picked = msg, !.phase = "drill"])
            ELSE Unsaved(j)

\* Each category holds two jobs.
Drill(j, msg) ==
    IF j.picked \notin j.results THEN Saved([j EXCEPT !.phase = "done"])
    ELSE IF msg \in Numbers /\ Value(msg) <= 2 THEN Saved([j EXCEPT !.phase = "tailor"])
    ELSE Unsaved(j)

\* "letter" and "consult" also run the command that writes the text.
Tailor(j, msg) ==
    CASE msg = "letter"  -> Saved([j EXCEPT !.phase = "letter"])
      [] msg = "consult" -> Saved([j EXCEPT !.phase = "cv_consult"])
      [] msg = "save"    -> Saved([j EXCEPT !.phase = "done"])
      [] OTHER           -> Unsaved(j)

WrapUp(j, msg) ==
    CASE msg \in {"save", "done"} -> Saved([j EXCEPT !.phase = "done"])
      [] msg = "consult" /\ j.phase = "letter"    -> Saved([j EXCEPT !.phase = "cv_consult"])
      [] msg = "letter" /\ j.phase = "cv_consult" -> Saved([j EXCEPT !.phase = "letter"])
      [] OTHER -> Unsaved(j)

Advance(j, msg, hasCv, ai) ==
    IF msg \in CancelTokens /\ ~Defers(j, msg) THEN Saved([j EXCEPT !.phase = "done"])
    ELSE IF \/ msg \in HelpTokens /\ j.phase # "greet"
            \/ msg \in OffTopic /\ j.phase = "discover" /\ j.step # "done"
    THEN Unsaved(j)
    ELSE CASE j.phase = "greet"       -> Saved([j EXCEPT !.phase = "discover", !.step = "role"])
           [] j.phase = "discover"    -> Discover(j, msg)
           [] j.phase = "cv_check"    -> CvCheck(j, msg, hasCv)
           [] j.phase = "inspire"     -> Inspire(j, msg, ai)
           [] j.phase = "preferences" -> Prefs(j, msg)
           [] j.phase = "review"      -> Review(j, msg)
           [] j.phase = "drill"       -> Drill(j, msg)
           [] j.phase = "tailor"      -> Tailor(j, msg)
           [] j.phase \in {"letter", "cv_consult"} -> WrapUp(j, msg)
           [] j.phase = "done"        -> Unsaved(j)
           [] OTHER                   -> Saved([j EXCEPT !.phase = "greet"])

(***************************************************************************)
(* What a search writes into the record of the user.                       *)
(***************************************************************************)
\* find_jobs itself, for the guided search and for "/find" alike.
Found(j, query, located, results) ==
    [j EXCEPT !.role = query, !.bucket = query \in Bucketed, !.located = @ \/ located,
              !.results = results, !.phase = IF results = {} THEN "done" ELSE "review"]

\* mutant of Landed: the phase find_jobs wrote is kept
LandedAsFound(j, results, constrained) ==
    IF results # {} THEN [j EXCEPT !.results = results, !.sub = "", !.active = FALSE]
    ELSE [j EXCEPT !.results = {}, !.sub = "empty", !.constrained = constrained]

\* The guided search, once find_jobs has returned.
Landed(j, results, constrained) ==
    LET review == [j EXCEPT !.results = results, !.phase = "review"]
        next   == IF j.active THEN Suggesting(review) ELSE [review EXCEPT !.sub = "empty"]
    IN  IF results # {}
        THEN [review EXCEPT !.sub = "", !.applied = {}, !.proposed = <<>>,
                            !.active = FALSE, !.declined = {}, !.offered = ""]
        ELSE [next EXCEPT !.constrained = constrained]

Failed(j) == [j EXCEPT !.phase = "done"]

=============================================================================
