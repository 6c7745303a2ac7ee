---------------------------- MODULE Disclosures -----------------------------
(***************************************************************************)
(* What is told of the service's use: the public page, and the outcomes    *)
(* and savings it draws on.  The two share no state.                       *)
(***************************************************************************)
EXTENDS Naturals, Sequences, FiniteSets, FiniteSetsExt, Functions

(***************************************************************************)
(* The public page of what the AI was used for (transparency.py): requests *)
(* count the lines of the audit log of a window of time, and share what    *)
(* they counted under a key made of the log's last change and the minute.  *)
(* Lines are appended, and the log is rotated, while they count.           *)
(***************************************************************************)

CONSTANTS
    Viewers,        \* requests for the page
    BucketSpan,     \* ticks of a bucket (60 s; a tick is what the file system's times tell apart)
    Window,         \* ticks the page looks back (1 to 90 days)
    TailLimit,      \* lines a count looks at (20 000)
    CacheLimit,     \* entries after which the cache is emptied (200)
    MaxLines, MaxFiles, MaxTime     \* bounds on the log and on the clock

ASSUME DisclosuresAssumption ==
    /\ BucketSpan \in Nat \ {0} /\ Window \in Nat /\ TailLimit \in Nat \ {0}
    /\ {CacheLimit, MaxLines} \subseteq Nat /\ {MaxFiles, MaxTime} \subseteq Nat \ {0}

VARIABLES
    tick,           \* the time
    trail,          \* the lines of the log, uses of the AI: [at, file]
    liveFile,       \* the number of the file the log is written to
    pageCache,      \* key -> what was counted under it
    viewing         \* what each request is doing

dclVars == <<tick, trail, liveFile, pageCache, viewing>>

Away    == [at |-> "away"]
Trail   == <<tick, trail, liveFile>>
LinesOf(files) == {l \in DOMAIN trail : trail[l].file \in files}
MinuteOf(t) == t \div BucketSpan

\* The time of the log's last change, 0 for a log that is not there.
Changed == LET own == LinesOf({liveFile}) IN IF own = {} THEN 0 ELSE trail[Max(own)].at

\* The key of cached_aggregate_for_path.
KeyNow == [changed |-> Changed, minute |-> MinuteOf(tick)]

DclInit ==
    /\ tick = 1 /\ trail = <<>> /\ liveFile = 1 /\ pageCache = <<>>
    /\ viewing = [v \in Viewers |-> Away]

Views(v, task) == viewing' = [viewing EXCEPT ![v] = task]

(***************************************************************************)
(* The log and the clock.                                                  *)
(***************************************************************************)
Emitted ==
    /\ Len(trail) < MaxLines
    /\ trail' = Append(trail, [at |-> tick, file |-> liveFile])
    /\ UNCHANGED <<tick, liveFile, pageCache, viewing>>

\* _rotate_if_needed: the log gets another name, the next line starts a new one.
Rotates ==
    /\ LinesOf({liveFile}) # {} /\ liveFile < MaxFiles /\ liveFile' = liveFile + 1
    /\ UNCHANGED <<tick, trail, pageCache, viewing>>

Passes == tick < MaxTime /\ tick' = tick + 1 /\ UNCHANGED <<trail, liveFile, pageCache, viewing>>

(***************************************************************************)
(* A request for the page.                                                 *)
(***************************************************************************)
\* do_GET /transparency: the key, and what is kept under it.  When it was asked,
\* and the log's last change then, are history.
Asks(v) ==
    /\ viewing[v] = Away
    /\ LET since == [minute |-> MinuteOf(tick) * BucketSpan, change |-> Changed]
       IN  Views(v, IF KeyNow \in DOMAIN pageCache
                    THEN [at |-> "shown", since |-> since, count |-> pageCache[KeyNow]]
                    ELSE [at |-> "missed", since |-> since, key |-> KeyNow])
    /\ UNCHANGED <<Trail, pageCache>>

\* _read_ai_act_audit_tail: the files are listed ...
ListsFiles(v) ==
    /\ viewing[v].at = "missed"
    /\ Views(v, [at |-> "listed", since |-> viewing[v].since, key |-> viewing[v].key,
                 listed |-> liveFile])
    /\ UNCHANGED <<Trail, pageCache>>

\* ... and read, and the newest TailLimit lines of all of them are looked at.
NewestOf(lines) == {l \in lines : Cardinality({k \in lines : k > l}) < TailLimit}

\* aggregate_ai_invocations: the uses in the window.
Aggregated(lines) == {l \in lines : trail[l].at + Window >= tick}

\* The log's name may stand for a newer file than when the files were listed.
Counts(v) ==
    /\ viewing[v].at = "listed"
    /\ LET listed == viewing[v].listed
           lines  == LinesOf(1..(listed - 1) \cup {liveFile})
       IN  Views(v, [at |-> "counted", since |-> viewing[v].since, key |-> viewing[v].key,
                     count |-> [uses |-> Aggregated(NewestOf(lines)), on |-> tick,
                                short |-> liveFile # listed \/ NewestOf(lines) # lines]])
    /\ UNCHANGED <<Trail, pageCache>>

\* What was counted is kept for those who look under the same key.
Shares(v) ==
    /\ viewing[v].at = "counted"
    /\ LET old == IF Cardinality(DOMAIN pageCache) > CacheLimit THEN <<>> ELSE pageCache
           key == viewing[v].key
       IN  pageCache' = [k \in DOMAIN old \cup {key} |->
                            IF k = key THEN viewing[v].count ELSE old[k]]
    /\ Views(v, [at |-> "shown", since |-> viewing[v].since, count |-> viewing[v].count])
    /\ UNCHANGED Trail

Request(v) == Asks(v) \/ ListsFiles(v) \/ Counts(v) \/ Shares(v)

DclNext ==
    \/ Emitted \/ Rotates \/ Passes
    \/ \E v \in Viewers : Request(v)

(***************************************************************************)
(* Properties.                                                             *)
(***************************************************************************)
KeyType   == [changed : 0..MaxTime, minute : 0..MaxTime]
SinceType == [minute : 0..MaxTime, change : 0..MaxTime]
CountType == [uses : SUBSET (1..MaxLines), on : 1..MaxTime, short : BOOLEAN]

DclTypeOK ==
    /\ tick \in 1..MaxTime /\ liveFile \in 1..MaxFiles
    /\ trail \in Seq([at : 1..MaxTime, file : 1..MaxFiles])
    /\ DOMAIN pageCache \subseteq KeyType /\ \A k \in DOMAIN pageCache : pageCache[k] \in CountType
    /\ viewing \in [Viewers -> {Away}
            \cup [at : {"missed"}, since : SinceType, key : KeyType]
            \cup [at : {"listed"}, since : SinceType, key : KeyType, listed : 1..MaxFiles]
            \cup [at : {"counted"}, since : SinceType, key : KeyType, count : CountType]
            \cup [at : {"shown"}, since : SinceType, count : CountType]]

\* A page leaves out no use that was logged before the minute it is asked in
\* began, or before the log's last change then, and is still in the window;
\* unless newer ones fill the count, or the log was rotated between its listing
\* and its reading (transparency.py 86-113).
NothingLeftOut == \A v \in Viewers : viewing[v].at = "shown" =>
    LET count == viewing[v].count  since == viewing[v].since
    IN  \A l \in DOMAIN trail :
            \/ trail[l].at >= since.minute /\ trail[l].at >= since.change
            \/ trail[l].at + Window < count.on \/ count.short \/ l \in count.uses

\* A page shows no use that had left the window when the minute it is asked in
\* began, even if nothing was logged since (transparency.py 79-83).
NothingOutOfDate == \A v \in Viewers : viewing[v].at = "shown" =>
    \A l \in viewing[v].count.uses : trail[l].at + Window >= viewing[v].since.minute

\* The page is as new as it says, and shows nothing from before its window.
DisclosuresHold == NothingLeftOut /\ NothingOutOfDate

(***************************************************************************)
(* What became of an application (mcp_tools.py): the tool appends it to    *)
(* the file of outcomes, then to the file of the savings metrics, which    *)
(* the web server writes as well.  A process may die in an append; a line  *)
(* without its end takes the next one with it.                             *)
(***************************************************************************)

CONSTANTS
    Tellers,        \* calls of the tool, each in a process of its own
    MaxTornLines    \* bound on the appends cut off

ASSUME OutcomesAssumption == MaxTornLines \in Nat

VARIABLES
    collecting,     \* do metrics get collected at all (is_collection_enabled)?
    telling,        \* what each call is doing, and what it tells
    outcomes,       \* readable lines of user_outcomes.jsonl: the call each is from
    metrics,        \* readable lines of cost_saving_metrics.jsonl: [of, what]
    cutOff,         \* the files whose last line lacks its end
    swallowed,      \* history: lines of the calls that were appended to one without its end
    tornLines       \* history: how often an append was cut off

outVars == <<collecting, telling, outcomes, metrics, cutOff, swallowed, tornLines>>

\* "rejected" stands for all but "applied", "good fit" is "applied" with a score >= 75.
Told    == {"rejected", "applied", "good fit"}
Measure == {"rate", "fit"}      \* higher_apply_rate, fewer_wrong_fit_apps

OutInit ==
    /\ collecting \in BOOLEAN
    /\ telling = [c \in Tellers |-> [at |-> "idle"]]
    /\ outcomes = {} /\ metrics = {} /\ cutOff = {} /\ swallowed = {} /\ tornLines = 0

Tells(c, task) == telling' = [telling EXCEPT ![c] = task]

\* An append: the line, unless it is glued to one without its end.
Appends(file, lines, line) ==
    IF file \in cutOff
    THEN lines' = lines /\ cutOff' = cutOff \ {file} /\ swallowed' = swallowed \cup {<<file, line>>}
    ELSE lines' = lines \cup {line} /\ UNCHANGED <<cutOff, swallowed>>

(***************************************************************************)
(* record_user_outcome.                                                    *)
(***************************************************************************)
Calls(c) ==
    /\ telling[c].at = "idle"
    /\ \E what \in Told : Tells(c, [at |-> "outcome", what |-> what])
    /\ UNCHANGED <<collecting, outcomes, metrics, cutOff, swallowed, tornLines>>

RecordsOutcome(c) ==
    /\ telling[c].at = "outcome"
    /\ Appends("outcomes", outcomes, c)
    /\ Tells(c, [telling[c] EXCEPT !.at =
                    IF collecting /\ telling[c].what # "rejected" THEN "rate" ELSE "answered"])
    /\ UNCHANGED <<collecting, metrics, tornLines>>

\* CostSavingMetricsLog.record.
RecordsMetric(c) ==
    /\ telling[c].at \in Measure
    /\ Appends("metrics", metrics, [of |-> c, what |-> telling[c].at])
    /\ Tells(c, [telling[c] EXCEPT !.at =
                    IF @ = "rate" /\ telling[c].what = "good fit" THEN "fit" ELSE "answered"])
    /\ UNCHANGED <<collecting, outcomes, tornLines>>

\* The metrics are best effort: a write that fails ends them, and the call goes on.
MetricFails(c) ==
    /\ telling[c].at \in Measure /\ Tells(c, [telling[c] EXCEPT !.at = "answered"])
    /\ UNCHANGED <<collecting, outcomes, metrics, cutOff, swallowed, tornLines>>

(***************************************************************************)
(* The others who write, and processes that die.                           *)
(***************************************************************************)
\* record_cost_saving_event in the web server: of its lines only those glued to
\* one without its end matter here.
OthersRecord ==
    /\ collecting /\ "metrics" \in cutOff /\ cutOff' = cutOff \ {"metrics"}
    /\ UNCHANGED <<collecting, telling, outcomes, metrics, swallowed, tornLines>>

FileOf(at) == IF at = "outcome" THEN "outcomes" ELSE "metrics"

\* The process dies before an append, or in the middle of it.
CallDies(c) ==
    /\ telling[c].at \in {"outcome"} \cup Measure /\ Tells(c, [telling[c] EXCEPT !.at = "dead"])
    /\ \/ UNCHANGED <<cutOff, tornLines>>
       \/ /\ tornLines < MaxTornLines /\ tornLines' = tornLines + 1
          /\ cutOff' = cutOff \cup {FileOf(telling[c].at)}
    /\ UNCHANGED <<collecting, outcomes, metrics, swallowed>>

Telling(c) ==
    Calls(c) \/ RecordsOutcome(c) \/ RecordsMetric(c) \/ MetricFails(c) \/ CallDies(c)

OutNext == (\E c \in Tellers : Telling(c)) \/ OthersRecord

(***************************************************************************)
(* Properties.                                                             *)
(***************************************************************************)
Files == {"outcomes", "metrics"}

OutTypeOK ==
    /\ collecting \in BOOLEAN /\ cutOff \subseteq Files /\ tornLines \in 0..MaxTornLines
    /\ telling \in [Tellers -> [at : {"idle"}] \cup
                    [at : {"outcome", "answered", "dead"} \cup Measure, what : Told]]
    /\ outcomes \subseteq Tellers /\ metrics \subseteq [of : Tellers, what : Measure]
    /\ swallowed \subseteq Files \X (Tellers \cup [of : Tellers, what : Measure])

Swallowed(file, line) == <<file, line>> \in swallowed
Rate(c) == [of |-> c, what |-> "rate"]
Fit(c)  == [of |-> c, what |-> "fit"]

\* What was answered "ok" is on file, unless the line before it lacked its end
\* (mcp_tools.py 674-679).
AnswersAreOnFile == \A c \in Tellers :
    telling[c].at = "answered" => c \in outcomes \/ Swallowed("outcomes", c)

\* Every application the metrics count is one of the outcomes, and every good fit
\* one of the applications they count: the outcome is written first, the rate
\* before the fit (mcp_tools.py 691-745).
CountsAreBacked == \A c \in Tellers :
    /\ Rate(c) \in metrics => c \in outcomes \/ Swallowed("outcomes", c)
    /\ Fit(c) \in metrics => Rate(c) \in metrics \/ Swallowed("metrics", Rate(c))

\* Only applications are counted, and nothing when collecting is off.
CountsAreApplications ==
    \A m \in metrics : collecting /\ telling[m.of].what # "rejected"

\* A process that dies in an append costs one line of somebody else's at most.
TornLinesCostOne == Cardinality(swallowed) + Cardinality(cutOff) <= tornLines

\* The two files agree on what they say of an application.
OutcomesHold ==
    AnswersAreOnFile /\ CountsAreBacked /\ CountsAreApplications /\ TornLinesCostOne
=============================================================================
