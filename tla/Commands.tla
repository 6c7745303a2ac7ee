------------------------------ MODULE Commands ------------------------------
(***************************************************************************)
(* The chat's typed commands: a message names a command, the chat asks for *)
(* what is missing, shows what it will do, and does it after a "yes"       *)
(* (chat_router.py; app.py 4633-4697, 10505-10523, 10720-10998).  A user's *)
(* windows and the members of a workspace share one session.               *)
(***************************************************************************)
EXTENDS Naturals, Sequences, FiniteSets, SequencesExt

CONSTANT Windows        \* each with one message on its way

VARIABLES
    pending,    \* the command being put together
    keptOf,     \* what the profile has of it, read back after a restart
    window,     \* what the handler of each window's message is doing
    prompt,     \* what each window was told last, "stale" once others speak
    cutOff      \* history: an execution raised, or was cut off

cmdVars == <<pending, keptOf, window, prompt, cutOff>>

\* A command that writes, one that shows, and one without parameters.
ParamsOf   == [mark |-> <<"id", "status", "replied">>, show |-> <<"target">>, help |-> <<>>]
Skippables == {"replied"}
NeedsYes   == {"mark"}                    \* requires_confirmation
CommandNames    == DOMAIN ParamsOf

Unset   == "unset"
Skipped == "skipped"
NoArgs  == [x \in {"id", "status", "replied", "target"} |-> Unset]
NoneYet == [cmd |-> "none", args |-> NoArgs, awaiting |-> "none", confirm |-> FALSE]

Silence == [word |-> "", cmd |-> "none", rest |-> <<>>]
Word(word) == [Silence EXCEPT !.word = word]
Slash(cmd, rest) == [word |-> "slash", cmd |-> cmd, rest |-> rest]
Sayings ==
    {Silence, Word("yes"), Word("no"), Word("a"), Word("applied"), Word("wish"),
     Slash("mark", <<>>), Slash("mark", <<"a", "wish">>),
     Slash("mark", <<"a", "applied", "no">>),
     Slash("show", <<>>), Slash("help", <<>>)}

\* What the model read out of a message, if anything.
Guesses == {NoArgs, [NoArgs EXCEPT !.id = "a", !.status = "slash"]}

Idling == [at |-> "idle", cmd |-> "none", args |-> NoArgs, agreed |-> FALSE,
           left |-> FALSE, crossed |-> FALSE, gone |-> FALSE]

Told(kind, p) == [kind |-> kind, p |-> p]
NothingWaits == Told("nothing", NoneYet)
Unsure  == Told("unsure", NoneYet)      \* an error, or that it did not understand
Stale   == Told("stale", NoneYet)

CmdInit ==
    /\ pending = NoneYet /\ keptOf = NoneYet /\ cutOff = FALSE
    /\ window = [w \in Windows |-> Idling]
    /\ prompt = [w \in Windows |-> NothingWaits]

-----------------------------------------------------------------------------
\* The validators: a string is taken as it is, a status and a yes or no not.
ValidFor(x, word) ==
    CASE x = "status"  -> word = "applied"
      [] x = "replied" -> word \in {"yes", "no"}
      [] OTHER         -> word # ""

\* parse_slash_inline_args: the words onto the parameters in order, and those
\* that are not valid dropped.
Inline(cmd, rest) ==
    [x \in DOMAIN NoArgs |->
        LET given == {i \in DOMAIN rest : i <= Len(ParamsOf[cmd]) /\ ParamsOf[cmd][i] = x}
        IN  IF \E i \in given : ValidFor(x, rest[i])
            THEN rest[CHOOSE i \in given : TRUE] ELSE Unset]

Guessed(cmd, guess) ==
    [x \in DOMAIN NoArgs |->
        IF x \in ToSet(ParamsOf[cmd]) /\ ValidFor(x, guess[x]) /\ guess[x] # Unset
        THEN guess[x] ELSE Unset]

\* What is asked next: first what is required, then what is not.
NextMissing(p) ==
    LET params   == ParamsOf[p.cmd]
        Lacks(S) == {i \in DOMAIN params : params[i] \in S /\ p.args[params[i]] = Unset}
        Foremost(I) == params[CHOOSE i \in I : \A j \in I : i <= j]
        Asked(S, other) == IF Lacks(S) # {} THEN Foremost(Lacks(S)) ELSE other
    IN  Asked(DOMAIN NoArgs \ Skippables, Asked(Skippables, "none"))

PersistsSession == keptOf' = pending'

\* w is told something; what the others were told is not the latest any more.
Tells(w, what) ==
    /\ prompt' = [v \in Windows |-> IF v = w THEN what ELSE Stale]
    /\ window' = [window EXCEPT ![w] = Idling]

\* w is told nothing about the session.
Unknowing(w) ==
    /\ prompt' = [prompt EXCEPT ![w] = IF @ = Stale THEN @ ELSE Unsure]
    /\ window' = [window EXCEPT ![w] = Idling] /\ UNCHANGED cutOff

IsExecuting(v) == window[v].at = "executing"

Executes(w, p, left) ==
    /\ window' = [window EXCEPT ![w] =
          [at |-> "executing", cmd |-> p.cmd, args |-> p.args, gone |-> FALSE, left |-> left,
           agreed |-> prompt[w] = Told("confirm", p),
           crossed |-> prompt[w] = Stale \/ cutOff \/ \E v \in Windows \ {w} : IsExecuting(v)]]
    /\ prompt' = [v \in Windows |-> IF v = w THEN prompt[w] ELSE Stale]
    /\ pending' = p /\ UNCHANGED <<keptOf, cutOff>>

\* The session goes on with p: asks, runs, or asks whether to run.
Proceeds(w, p, left) ==
    LET x == NextMissing(p)
        asking == [p EXCEPT !.awaiting = x]
        ready == [p EXCEPT !.awaiting = "none", !.confirm = TRUE]
    IN  IF x # "none"
        THEN /\ pending' = asking /\ PersistsSession /\ Tells(w, Told("ask", asking))
             /\ cutOff' = FALSE
        ELSE IF p.cmd \notin NeedsYes THEN Executes(w, p, left)
        ELSE /\ pending' = ready /\ PersistsSession /\ Tells(w, Told("confirm", ready))
             /\ cutOff' = FALSE

\* An empty message is refused unless it skips an optional parameter.
Accepted(m) == m = Silence => pending.awaiting \in Skippables /\ ~pending.confirm

Hears(w, m) == window[w].at = "idle" /\ Accepted(m)

SaysYes(w) ==
    /\ Hears(w, Word("yes")) /\ pending.confirm
    /\ Executes(w, pending, FALSE)

SaysNo(w) ==
    /\ Hears(w, Word("no")) /\ pending.confirm
    /\ pending' = NoneYet /\ PersistsSession /\ Tells(w, NothingWaits) /\ cutOff' = FALSE

\* Neither: nothing is awaited any more, so the same prompt comes again.
Neither(w, m) ==
    /\ Hears(w, m) /\ pending.confirm /\ m.word \notin {"yes", "no"}
    /\ Proceeds(w, [pending EXCEPT !.confirm = FALSE], FALSE)

\* Whatever is said, a command too, is taken for what is awaited.
GivesValue(w, m) ==
    LET x == pending.awaiting
        value == IF m = Silence THEN Skipped ELSE m.word
    IN  /\ Hears(w, m) /\ ~pending.confirm /\ x # "none"
        /\ IF m = Silence \/ ValidFor(x, m.word)
           THEN Proceeds(w, [pending EXCEPT !.args[x] = value, !.awaiting = "none"], FALSE)
           ELSE /\ UNCHANGED pending /\ PersistsSession /\ Tells(w, Told("ask", pending))
                /\ cutOff' = FALSE

\* A command was left filled: it runs, or is asked for, whatever is said.
LeftOver(w, m) ==
    /\ Hears(w, m) /\ pending.cmd # "none" /\ ~pending.confirm /\ pending.awaiting = "none"
    /\ Proceeds(w, pending, TRUE)

PendingWith(w, cmd, args) == Proceeds(w, [NoneYet EXCEPT !.cmd = cmd, !.args = args], FALSE)

TypesCommand(w, m) ==
    /\ Hears(w, m) /\ pending.cmd = "none" /\ m.word = "slash"
    /\ PendingWith(w, m.cmd, Inline(m.cmd, m.rest))

\* SaysNo rule knows the message: a model is asked, and the session may change
\* before it answers.
AsksModel(w, m) ==
    /\ Hears(w, m) /\ pending.cmd = "none" /\ m.word # "slash"
    /\ window' = [window EXCEPT ![w].at = "routing"]
    /\ UNCHANGED <<pending, keptOf, prompt, cutOff>>

\* After a reset the handler has a session that nobody sees.
ModelNames(w, cmd, guess) ==
    /\ window[w].at = "routing" /\ ~window[w].gone
    /\ PendingWith(w, cmd, Guessed(cmd, guess))

\* It names none, or the session is gone: the reply says nothing of the session.
ModelShrugs(w) ==
    /\ window[w].at = "routing" /\ Unknowing(w)
    /\ UNCHANGED pending /\ PersistsSession

-----------------------------------------------------------------------------
\* What the session holds after the command of w has run.
AfterRun(w) == IF window[w].gone THEN pending ELSE NoneYet

Executed(w) ==
    /\ IsExecuting(w)
    /\ pending' = AfterRun(w) /\ PersistsSession
    /\ IF window[w].gone THEN Unknowing(w) ELSE Tells(w, NothingWaits) /\ cutOff' = FALSE

\* The handler raises: no reply is saved and the session is as it was.
ExecutionRaises(w) ==
    /\ IsExecuting(w)
    /\ prompt' = [prompt EXCEPT ![w] = IF @ = Stale THEN @ ELSE Unsure]
    /\ window' = [window EXCEPT ![w] = Idling]
    /\ cutOff' = TRUE /\ UNCHANGED <<pending, keptOf>>

\* chat_reset: a new session; what runs goes on with the old one.
ChatReset(w) ==
    /\ window[w].at = "idle" /\ pending' = NoneYet /\ PersistsSession /\ cutOff' = FALSE
    /\ prompt' = [v \in Windows |-> IF v = w THEN NothingWaits ELSE Stale]
    /\ window' = [v \in Windows |->
          IF window[v].at = "idle" THEN window[v] ELSE [window[v] EXCEPT !.gone = TRUE]]

\* The server is stopped and started: the session is what the profile has.
Rehydrates ==
    /\ pending' = keptOf /\ window' = [w \in Windows |-> Idling]
    /\ cutOff' = (cutOff \/ \E w \in Windows : IsExecuting(w))
    /\ UNCHANGED <<keptOf, prompt>>

CmdNext ==
    \/ Rehydrates
    \/ \E w \in Windows :
        \/ SaysYes(w) \/ SaysNo(w) \/ ModelShrugs(w)
        \/ Executed(w) \/ ExecutionRaises(w) \/ ChatReset(w)
        \/ \E m \in Sayings : \/ Neither(w, m) \/ GivesValue(w, m) \/ LeftOver(w, m)
                               \/ TypesCommand(w, m) \/ AsksModel(w, m)
        \/ \E cmd \in CommandNames, guess \in Guesses : ModelNames(w, cmd, guess)

CmdSpec == CmdInit /\ [][CmdNext]_cmdVars

-----------------------------------------------------------------------------
CmdTypeOK ==
    /\ pending.cmd \in CommandNames \cup {"none"} /\ keptOf.cmd \in CommandNames \cup {"none"}
    /\ \A w \in Windows : window[w].at \in {"idle", "routing", "executing"}
    /\ cutOff \in BOOLEAN

\* What is written is what the one who said "yes" was shown, with all that is
\* required and nothing that is not valid, unless somebody else has spoken to
\* the session since, or the last execution had failed.
YesMeansThis ==
    \A w \in Windows : IsExecuting(w) /\ window[w].cmd \in NeedsYes =>
        /\ window[w].agreed \/ window[w].crossed
        /\ \A x \in ToSet(ParamsOf[window[w].cmd]) :
              \/ ValidFor(x, window[w].args[x]) /\ window[w].args[x] # Unset
              \/ x \in Skippables /\ window[w].args[x] = Skipped

\* A command that needs no "yes" runs for a message that names it or gives what
\* it waits for, unless the last execution failed or another window's is not
\* over: then any message runs it again.
NothingUnasked ==
    \A w \in Windows : IsExecuting(w) /\ window[w].left => window[w].crossed

\* What a window was told is how the session stands, until somebody else
\* speaks to it, also after a restart, if no execution failed or was cut off.
PromptAgrees ==
    \A w \in Windows : window[w].at = "idle" /\ ~cutOff =>
        CASE prompt[w].kind = "ask" -> /\ prompt[w].p = pending
                                        /\ pending.awaiting = NextMissing(pending)
          [] prompt[w].kind = "confirm" -> prompt[w].p = pending /\ pending.confirm
          [] prompt[w].kind = "nothing" -> pending = NoneYet
          [] OTHER -> TRUE

\* A restart between two messages changes nothing for the users, unless the
\* last execution failed.
KeptAsIs ==
    ~cutOff /\ (\A w \in Windows : window[w].at = "idle") => keptOf = pending

CommandsHold == YesMeansThis /\ NothingUnasked /\ PromptAgrees /\ KeptAsIs
=============================================================================
