------------------------------ MODULE Streams ------------------------------
(***************************************************************************)
(* A search, a letter or a tailored CV asked for in the page: the events   *)
(* of app.py 10398-10493 the page reads while the server works, the plain  *)
(* request it falls back on (app.js 6223-6588, 1751-1815), and what the    *)
(* audit log, the costs and the receipts say of the provider's runs        *)
(* (analysis.py 759-975, 1237-1418).                                       *)
(***************************************************************************)
EXTENDS Naturals, Sequences, FiniteSets

CONSTANTS
    Asks, NoAsk,    \* what the user asks for, each once
    MaxTexts        \* bound on the asks for a letter or a tailored CV

ASSUME StreamsAssumption == NoAsk \notin Asks /\ MaxTexts \in Nat

Ways  == {"stream", "json"}

VARIABLES
    page,       \* ask -> its kind, what the page does, what the stream came to
    task,       \* ask, way -> the handler; did its provider run, and send what?
    pipe,       \* ask -> events written and not read
    broken,     \* asks whose stream has lost its reader
    ledger,     \* ask, way -> records in the audit log, text paid for, receipts
    capped,     \* is this month's money spent?
    stored,     \* the search the journey keeps
    onView,     \* the search the page shows
    mixed       \* history: did two searches overlap, or did one lose its reader?

strVars == <<page, task, pipe, broken, ledger, capped, stored, onView, mixed>>

NoPage == [kind |-> "none", at |-> "none", heard |-> "nothing"]
NoTask == [at |-> "none", ran |-> FALSE, text |-> "none"]
NoBook == [audits |-> <<>>, paid |-> "none", receipts |-> 0]

StrInit ==
    /\ page = [a \in Asks |-> NoPage] /\ pipe = [a \in Asks |-> <<>>]
    /\ task = [h \in Asks \X Ways |-> NoTask] /\ ledger = [h \in Asks \X Ways |-> NoBook]
    /\ broken = {} /\ capped = FALSE /\ stored = NoAsk /\ onView = NoAsk /\ mixed = FALSE

Kind(a)  == page[a].kind
Under(a) == \/ page[a].at \in {"reading", "waiting"}
            \/ \E w \in Ways : task[<<a, w>>].at \in {"asked", "open"}

-----------------------------------------------------------------------------
(* The page asks. *)

Ask(a, kind) ==
    /\ page[a] = NoPage
    /\ kind = "find" \/ Cardinality({b \in Asks : Kind(b) \in {"letter", "tailor"}}) < MaxTexts
    /\ page' = [page EXCEPT ![a].kind = kind, ![a].at = "reading"]
    /\ task' = [task EXCEPT ![<<a, "stream">>].at = "asked"]
    /\ mixed' = (mixed \/ (kind = "find" /\ \E b \in Asks : Kind(b) = "find" /\ Under(b)))
    /\ UNCHANGED <<pipe, broken, ledger, capped, stored, onView>>

\* mutant of FallsBack: whatever is not an answer is asked again
FallsBackOnCap(kind, heard) ==
    heard = "lost" \/ (kind = "tailor" /\ heard \notin {"ai", "plain"})

\* Whether the page asks once more, without a stream: always if the stream did
\* not open; for a tailored CV after any failure but a refusal for the cap.
FallsBack(kind, heard) ==
    heard = "lost" \/ (kind = "tailor" /\ heard \notin {"ai", "plain", "cap"})

\* What the page makes of the last event: an answer, or an error.
Answers(kind, event) ==
    event \in {"ai", "plain"} \/ (event = "no" /\ kind # "tailor")
Viewed(a, event) == IF Kind(a) = "find" /\ event = "plain" THEN a ELSE onView

\* The stream of a has come to heard.
Heard(a, heard) ==
    IF FallsBack(Kind(a), heard)
    THEN /\ page' = [page EXCEPT ![a].at = "waiting", ![a].heard = heard]
         /\ pipe' = [pipe EXCEPT ![a] = <<>>]
    ELSE /\ page' = [page EXCEPT ![a].heard = heard,
                       ![a].at = IF Answers(Kind(a), heard) THEN "answered" ELSE "failed"]
         /\ pipe' = [pipe EXCEPT ![a] = <<>>]

\* The request of the fallback is sent with it.
AsksAgain(a) ==
    IF FallsBack(Kind(a), page'[a].heard) THEN [task EXCEPT ![<<a, "json">>].at = "asked"]
    ELSE task
Loses(a) == mixed' = (mixed \/ Kind(a) = "find")

\* The request fails, though it may have reached the server.
NotOpened(a, arrived) ==
    LET h == <<a, "stream">>
    IN  /\ page[a].at = "reading" /\ task[h].at = "asked"
        /\ Heard(a, "lost")
        /\ task' = IF arrived THEN AsksAgain(a) ELSE [AsksAgain(a) EXCEPT ![h] = NoTask]
        /\ broken' = broken \cup {a} /\ Loses(a)
        /\ UNCHANGED <<ledger, capped, stored, onView>>

\* The reader fails in mid-stream.
CutOff(a) ==
    /\ page[a].at = "reading" /\ task[<<a, "stream">>].at # "asked"
    /\ Heard(a, "cut") /\ task' = AsksAgain(a)
    /\ broken' = broken \cup {a} /\ Loses(a)
    /\ UNCHANGED <<ledger, capped, stored, onView>>

\* An event comes; or the stream ends without the last one.
Reads(a) ==
    /\ page[a].at = "reading" /\ pipe[a] # <<>>
    /\ IF Head(pipe[a]) = "token"
       THEN pipe' = [pipe EXCEPT ![a] = Tail(@)] /\ UNCHANGED <<page, task, onView>>
       ELSE /\ Heard(a, Head(pipe[a])) /\ task' = AsksAgain(a)
            /\ onView' = Viewed(a, Head(pipe[a]))
    /\ UNCHANGED <<broken, ledger, capped, stored, mixed>>

EndsShort(a) ==
    /\ page[a].at = "reading" /\ pipe[a] = <<>> /\ task[<<a, "stream">>].at \in {"over", "killed"}
    /\ Heard(a, "ended") /\ task' = AsksAgain(a) /\ Loses(a)
    /\ UNCHANGED <<broken, ledger, capped, stored, onView>>

\* The answer to the plain request.
Receives(a) ==
    /\ page[a].at = "waiting" /\ pipe[a] # <<>>
    /\ page' = [page EXCEPT ![a].at =
         IF Answers(Kind(a), Head(pipe[a])) THEN "answered" ELSE "failed"]
    /\ onView' = Viewed(a, Head(pipe[a]))
    /\ pipe' = [pipe EXCEPT ![a] = <<>>]
    /\ UNCHANGED <<task, broken, ledger, capped, stored, mixed>>

\* It does not come, or the page is left.
GivesUp(a) ==
    /\ page[a].at \in {"reading", "waiting"}
    /\ page' = [page EXCEPT ![a].at = "failed"] /\ pipe' = [pipe EXCEPT ![a] = <<>>]
    /\ broken' = broken \cup {a} /\ Loses(a)
    /\ UNCHANGED <<task, ledger, capped, stored, onView>>

-----------------------------------------------------------------------------
(* The server.  h = <<ask, way>>. *)

\* What a stream writes to a reader that is gone is lost; so is the answer to a
\* request the page does not wait for.
Writes(h, events) ==
    LET lost == IF h[2] = "stream" THEN h[1] \in broken ELSE page[h[1]].at # "waiting"
    IN  pipe' = IF lost THEN pipe ELSE [pipe EXCEPT ![h[1]] = @ \o events]

\* mutant of Ends: a write that fails does not stop the handler
EndsNot(h) == UNCHANGED task

Ends(h) == task' = [task EXCEPT ![h].at = "over"]

\* The last events of a handler; text is what the provider sent, fits whether
\* it looks like a letter.  A letter without one is written from the template,
\* also when the cap refuses, for CostCapExceeded is swallowed both ways; a
\* plain request takes no text that was cut short.
LetterStream(text, fits) == IF text # "none" /\ fits THEN <<"ai">> ELSE <<"token", "plain">>
LetterPlain(text, fits)  == IF text = "all" /\ fits THEN <<"ai">> ELSE <<"plain">>
TailorStream(text) == IF text # "none" THEN <<"ai">> ELSE <<"no">>
TailorPlain(text)  == IF text = "all" THEN <<"ai">> ELSE <<"no">>

Result(h, text, fits) ==
    CASE Kind(h[1]) = "letter" /\ h[2] = "stream" -> LetterStream(text, fits)
      [] Kind(h[1]) = "letter" /\ h[2] = "json"   -> LetterPlain(text, fits)
      [] Kind(h[1]) = "tailor" /\ h[2] = "stream" -> TailorStream(text)
      [] Kind(h[1]) = "tailor" /\ h[2] = "json"   -> TailorPlain(text)

\* No CV, no job, no consent; for a tailored CV also no provider.
Declines(h) ==
    /\ task[h].at = "asked" /\ Kind(h[1]) # "find"
    /\ Writes(h, <<"no">>) /\ Ends(h)
    /\ UNCHANGED <<page, broken, ledger, capped, stored, onView, mixed>>

\* No provider, or the cap refuses the call before it is made.
GoesWithout(h) ==
    /\ task[h].at = "asked"
    /\ \/ Kind(h[1]) = "letter" /\ Writes(h, Result(h, "none", TRUE))
       \/ Kind(h[1]) = "tailor" /\ capped /\ Writes(h, <<"cap">>)
    /\ Ends(h)
    /\ UNCHANGED <<page, broken, ledger, capped, stored, onView, mixed>>

OpensRun(h) ==
    /\ task[h].at = "asked" /\ (Kind(h[1]) # "find" => ~capped)
    /\ task' = [task EXCEPT ![h].at = "open", ![h].ran = Kind(h[1]) # "find"]
    /\ UNCHANGED <<page, pipe, broken, ledger, capped, stored, onView, mixed>>

\* The provider streams: a part of the text.
SendsPart(h) ==
    /\ task[h].at = "open" /\ h[2] = "stream" /\ Kind(h[1]) # "find" /\ task[h].text = "none"
    /\ task' = [task EXCEPT ![h].text = "part"]
    /\ Writes(h, <<"token">>)
    /\ UNCHANGED <<page, broken, ledger, capped, stored, onView, mixed>>

\* _emit_dispatch_audit.
AuditOutcome(text) == IF text = "all" THEN "ok" ELSE "error"

\* The finally of the dispatch: one audit record, the cost of what is known to
\* have been sent, and a receipt if that is anything.
Book(h, text) ==
    ledger' = [ledger EXCEPT ![h] =
        [audits |-> Append(@.audits, AuditOutcome(text)), paid |-> text,
         receipts |-> @.receipts + IF text = "none" THEN 0 ELSE 1]]

\* What the dispatch knows when its reader has taken the last event.
Captured(text) == text

\* The provider is through, or fails: what it has sent is the result.
Finishes(h, whole, fits) ==
    LET text == IF whole THEN "all" ELSE task[h].text
    IN  /\ task[h].at = "open" /\ Kind(h[1]) # "find"
        /\ task' = [task EXCEPT ![h].at = "over", ![h].text = text]
        /\ Book(h, Captured(text))
        /\ Writes(h, Result(h, text, fits))
        /\ UNCHANGED <<page, broken, capped, stored, onView, mixed>>

\* A write fails: the handler stops and closes the provider's stream.
Abandoned(h) ==
    /\ task[h].at = "open" /\ h[2] = "stream" /\ h[1] \in broken
    /\ Ends(h)
    /\ IF Kind(h[1]) = "find" THEN UNCHANGED ledger ELSE Book(h, "none")
    /\ UNCHANGED <<page, pipe, broken, capped, stored, onView, mixed>>

\* find_jobs keeps its jobs in the journey, whichever way it was asked.
Keeps(h) == TRUE

FindsJobs(h) ==
    /\ task[h].at = "open" /\ Kind(h[1]) = "find"
    /\ stored' = IF Keeps(h) THEN h[1] ELSE stored
    /\ Writes(h, <<"plain">>) /\ Ends(h)
    /\ UNCHANGED <<page, broken, ledger, capped, onView, mixed>>

\* Anything else that goes wrong in a search.
FindBreaks(h) ==
    /\ task[h].at = "open" /\ Kind(h[1]) = "find"
    /\ Writes(h, <<"error">>) /\ Ends(h)
    /\ UNCHANGED <<page, broken, ledger, capped, stored, onView, mixed>>

\* The process dies: what it was doing is in no book.
ServerStops ==
    /\ \E h \in Asks \X Ways : task[h].at \in {"asked", "open"}
    /\ task' = [h \in Asks \X Ways |->
          IF task[h].at \in {"asked", "open"} THEN [task[h] EXCEPT !.at = "killed"] ELSE task[h]]
    /\ UNCHANGED <<page, pipe, broken, ledger, capped, stored, onView, mixed>>

MonthSpent == ~capped /\ capped' = TRUE
              /\ UNCHANGED <<page, task, pipe, broken, ledger, stored, onView, mixed>>

StrNext ==
    \/ \E a \in Asks :
          \/ \E kind \in {"find", "letter", "tailor"} : Ask(a, kind)
          \/ \E arrived \in BOOLEAN : NotOpened(a, arrived)
          \/ CutOff(a) \/ Reads(a) \/ EndsShort(a) \/ Receives(a) \/ GivesUp(a)
          \/ \E w \in Ways :
                \/ Declines(<<a, w>>) \/ GoesWithout(<<a, w>>) \/ OpensRun(<<a, w>>)
                \/ SendsPart(<<a, w>>) \/ Abandoned(<<a, w>>)
                \/ \E whole, fits \in BOOLEAN : Finishes(<<a, w>>, whole, fits)
                \/ FindsJobs(<<a, w>>) \/ FindBreaks(<<a, w>>)
    \/ ServerStops \/ MonthSpent

StrSpec == StrInit /\ [][StrNext]_strVars

StrTypeOK ==
    /\ page \in [Asks -> [kind : {"none", "find", "letter", "tailor"},
         at : {"none", "reading", "waiting", "answered", "failed"},
         heard : {"nothing", "lost", "cut", "ended", "error", "no", "cap", "ai", "plain"}]]
    /\ task \in [Asks \X Ways -> [at : {"none", "asked", "open", "over", "killed"}, ran : BOOLEAN,
                                  text : {"none", "part", "all"}]]
    /\ \A h \in Asks \X Ways : Len(ledger[h].audits) <= 1
    /\ broken \subseteq Asks /\ {stored, onView} \subseteq Asks \cup {NoAsk}
    /\ {capped, mixed} \subseteq BOOLEAN

\* Every run of a provider that has ended is in the audit log once, and what
\* it sent is paid for and has its receipt, unless its reader was gone
\* (analysis.py 1344: the dispatch then knows of no result).
BooksBalance ==
    \A h \in Asks \X Ways : task[h].at = "over" =>
        /\ Len(ledger[h].audits) = IF task[h].ran THEN 1 ELSE 0
        /\ h[1] \notin broken => /\ ledger[h].paid = task[h].text
                               /\ task[h].text = "all" <=> ledger[h].audits = <<"ok">>
        /\ ledger[h].receipts = IF ledger[h].paid = "none" THEN 0 ELSE 1

\* An answer and a refusal for the cap are final (app.js 1773-1786), and a
\* text shown as an answer has been paid for.
AskedOnce ==
    \A a \in Asks :
        /\ page[a].heard \in {"ai", "plain", "cap"} => task[<<a, "json">>] = NoTask
        /\ page[a].heard = "ai" => ledger[<<a, "stream">>].paid # "none"

\* Once all is done the page shows the search whose jobs the journey keeps,
\* where "1" means the first of them, unless searches overlapped or one had
\* lost its reader.
ShownIsStored == ~mixed /\ (\A a \in Asks : ~Under(a)) => onView = stored

StreamsHold == BooksBalance /\ AskedOnce /\ ShownIsStored
=============================================================================
