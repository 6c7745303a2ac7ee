------------------------------- MODULE Crawl -------------------------------
(***************************************************************************)
(* What a scan asks of a company's site: robots.txt, redirects, the career *)
(* page, the pages of the jobs on it, and the rows and the run record that *)
(* come of it (service.py 293-442, 528-810, 908-1134; http_fetcher.py;     *)
(* ats_adapters.py).  ScanLifecycle has the threads around a scan; here    *)
(* one scan follows the other.                                             *)
(***************************************************************************)
EXTENDS Naturals, Sequences, FiniteSets

CONSTANTS Files, BookFiles,   \* what a robots.txt may say: sequences of lines
          Contents,           \* what a page may show: postings, feed, links
          Chosen,             \* the jobs the profile's filter lets through
          MaxPages, MaxHops,  \* ScanConfig
          MaxScans            \* bound

Urls == {"home", "careers", "one", "two", "board", "social"}
Restricted(u) == u = "social"
HostOf(u)     == IF u \in {"board", "social"} THEN u ELSE "own"

\* A line of a robots.txt names an agent, or allows or disallows the pages a
\* pattern matches, none if it is empty; the longer the pattern the more it counts.
FileLines == [key : {"agent"}, agent : {"us", "*", "other"}]
             \cup [key : {"allow", "disallow"}, covers : SUBSET Urls, length : Nat]

ASSUME CrawlAssumption ==
    /\ MaxPages \in Nat \ {0} /\ MaxHops \in Nat /\ MaxScans \in Nat
    /\ Files \cup BookFiles \subseteq Seq(FileLines)
    /\ Contents \subseteq [postings : SUBSET Urls, feed : SUBSET Urls, isFeed : BOOLEAN,
                          links : SUBSET Urls]

-----------------------------------------------------------------------------
(* robots.txt, read line by line, group by group and rule by rule. *)

Unread == [groups |-> <<>>, agents |-> {}, rules |-> <<>>]

\* An agent line after a rule begins a new group; a rule of no group is dropped.
ReadLine(read, line) ==
    IF line.key = "agent"
    THEN IF read.agents # {} /\ read.rules # <<>>
         THEN [groups |-> Append(read.groups, [agents |-> read.agents, rules |-> read.rules]),
               agents |-> {line.agent}, rules |-> <<>>]
         ELSE [read EXCEPT !.agents = @ \cup {line.agent}]
    ELSE IF read.agents # {} THEN [read EXCEPT !.rules = Append(@, line)] ELSE read

Reading(file) ==
    LET read[i \in 0..Len(file)] == IF i = 0 THEN Unread ELSE ReadLine(read[i - 1], file[i])
    IN  read
GroupsOf(file) ==
    LET last == Reading(file)[Len(file)]
    IN  Append(last.groups, [agents |-> last.agents, rules |-> last.rules])

\* The rules of the groups for who, one group after the other.
IsFor(agents, who) == who \in agents /\ (who = "*" => "us" \notin agents)
Collected(rules, group, who) ==
    IF IsFor(group.agents, who) THEN rules \o group.rules ELSE rules
Collecting(groups, who) ==
    LET rules[i \in 0..Len(groups)] ==
            IF i = 0 THEN <<>> ELSE Collected(rules[i - 1], groups[i], who)
    IN  rules
RulesOf(groups, who) == Collecting(groups, who)[Len(groups)]
RulesFor(file) ==
    LET ours == RulesOf(GroupsOf(file), "us")
    IN  IF ours # <<>> THEN ours ELSE RulesOf(GroupsOf(file), "*")

\* The longest rule that matches decides, of equal ones one that allows.
NoBest == [key |-> "none", length |-> 0]
Better(best, rule, u) ==
    IF u \in rule.covers
       /\ \/ best.key = "none" \/ rule.length > best.length
          \/ rule.length = best.length /\ rule.key = "allow"
    THEN [key |-> rule.key, length |-> rule.length] ELSE best
Judging(rules, u) ==
    LET best[i \in 0..Len(rules)] ==
            IF i = 0 THEN NoBest ELSE Better(best[i - 1], rules[i], u)
    IN  best
Allows(file, u) ==
    LET rules == RulesFor(file) IN Judging(rules, u)[Len(rules)].key # "disallow"

-----------------------------------------------------------------------------
(* The jobs of a page.  A job is its address and whether the page had data *)
(* of it; the boards' adapters count their links as data.                  *)

JobAt(u, data) == [url |-> u, data |-> data]
JobsAt(S, data)  == {JobAt(u, data) : u \in S}

\* Seven of the adapters: the feed, and only if it has no job, the links.
FeedOrLinks(c) == IF c.feed # {} THEN JobsAt(c.feed, TRUE) ELSE JobsAt(c.links, TRUE)
\* Personio's: a feed is all there is, also one that is cut off or empty.
FeedOnly(c)    == IF c.isFeed THEN JobsAt(c.feed, TRUE) ELSE JobsAt(c.links, TRUE)
Adapters == {"personio", "other"}
FromBoard(c, adapter) == IF adapter = "personio" THEN FeedOnly(c) ELSE FeedOrLinks(c)

\* A page of the site: its JSON-LD, then the links that are not in it.
SitePostings(c)  == {u \in c.postings : ~Restricted(u)}
FromSite(c)  == JobsAt(SitePostings(c), TRUE)
                \cup JobsAt({u \in c.links : ~Restricted(u)} \ SitePostings(c), FALSE)

Extracted(u, c, adapter) ==
    IF HostOf(u) = "board" /\ FromBoard(c, adapter) # {} THEN FromBoard(c, adapter)
    ELSE FromSite(c)

-----------------------------------------------------------------------------
VARIABLES
    career,     \* the career page the company has on record, or "none"
    filtered,   \* does the profile filter what is found?
    crawl,      \* the work: its purpose, where it is, what it has found so far
    run,        \* the record of the last scan
    rows,       \* addresses of the jobs stored
    heard,      \* the last robots.txt: for which page, and what it said
    shown,      \* history: the jobs of the career page this scan was shown
    swapped,    \* history: those that became the jobs of their own page
    before,     \* history: rows there were before this scan
    scans       \* how many scans there were

crwVars == <<career, filtered, crawl, run, rows, heard, shown, swapped, before, scans>>

NoFile == <<>>
NoCrawl   == [for |-> "none", at |-> "rest", url |-> "home", hops |-> 0, job |-> "home",
           todo |-> {}, found |-> {}, pages |-> 0, trouble |-> FALSE, fresh |-> 0, known |-> 0]
NoRun  == [status |-> "none", pages |-> 0, found |-> 0]

CrwInit ==
    /\ career \in {"none", "careers", "social"} /\ filtered \in BOOLEAN
    /\ crawl = NoCrawl /\ run = NoRun /\ rows = {} /\ heard = [url |-> "home", file |-> NoFile]
    /\ shown = {} /\ swapped = {} /\ before = {} /\ scans = 0

Doing(purposes, at) == crawl.for \in purposes /\ crawl.at = at
Fetches(purpose, u, c) ==
    [c EXCEPT !.for = purpose, !.at = "robots", !.url = u, !.job = u, !.hops = 0]

\* The user has the career page looked for on the home page.
FindPage ==
    /\ crawl = NoCrawl /\ career = "none"
    /\ crawl' = Fetches("find", "home", NoCrawl)
    /\ UNCHANGED <<career, filtered, run, rows, heard, shown, swapped, before, scans>>

ScanPage ==
    /\ crawl = NoCrawl /\ scans < MaxScans /\ scans' = scans + 1
    /\ shown' = {} /\ swapped' = {} /\ before' = rows
    /\ IF career = "none" THEN crawl' = crawl /\ run' = [NoRun EXCEPT !.status = "missing"]
       ELSE IF Restricted(career)
       THEN crawl' = crawl /\ run' = [NoRun EXCEPT !.status = "restricted"]
       ELSE crawl' = Fetches("scan", career, NoCrawl) /\ run' = [NoRun EXCEPT !.status = "running"]
    /\ UNCHANGED <<career, filtered, rows, heard>>

\* The run ends as status, and with it the scan.
EndsRun(status) ==
    /\ run' = [status |-> status, pages |-> crawl.pages, found |-> crawl.fresh]
    /\ crawl' = NoCrawl
GoesOn(c) == crawl' = c /\ UNCHANGED run

-----------------------------------------------------------------------------
(* Asking for a page. *)

\* No answer that can be used: what becomes of it depends on what it was for.
\* A job whose page cannot be read stays as the career page had it.
WithoutPage(forbidden) ==
    CASE crawl.for = "find" -> crawl' = NoCrawl /\ UNCHANGED run
      [] crawl.for = "scan" -> EndsRun(IF forbidden THEN "blocked_by_robots" ELSE "unavailable")
      [] OTHER -> GoesOn([crawl EXCEPT !.at = "details", !.trouble = TRUE])

\* robots.txt has been answered.
Robots ==
    /\ crawl.at = "robots"
    /\ UNCHANGED <<career, filtered, rows, shown, swapped, before, scans>>
    /\ \/ Restricted(crawl.url) /\ WithoutPage(FALSE) /\ UNCHANGED heard
       \/ /\ ~Restricted(crawl.url)
          /\ \/ WithoutPage(FALSE) /\ UNCHANGED heard           \* neither 200 nor 404
             \/ \E file \in Files \cup {NoFile} :               \* NoFile: a 404
                  /\ heard' = [url |-> crawl.url, file |-> file]
                  /\ IF Allows(file, crawl.url) THEN GoesOn([crawl EXCEPT !.at = "page"])
                     ELSE WithoutPage(TRUE)

RedirectTo(u) == [crawl EXCEPT !.at = "robots", !.url = u, !.hops = @ + 1]

Redirected ==
    /\ crawl.at = "page"
    /\ \E u \in Urls \ {crawl.url} :
         IF crawl.hops >= MaxHops THEN WithoutPage(FALSE)
         ELSE GoesOn([RedirectTo(u) EXCEPT !.trouble = TRUE])
    /\ UNCHANGED <<career, filtered, rows, heard, shown, swapped, before, scans>>

\* What the career page may be: a link of the home page that sounds like one.
HomeAnswered ==
    /\ Doing({"find"}, "page") /\ crawl' = NoCrawl
    /\ \/ UNCHANGED career
       \/ \E u \in {"careers", "board"} : career' = u
    /\ UNCHANGED <<filtered, run, rows, heard, shown, swapped, before, scans>>

\* Refused, a server's failure or a captcha; else the page is read as the one
\* the company has on record, wherever a redirect led, also if it says that
\* there is no such page.
CareerAnswered ==
    /\ Doing({"scan"}, "page")
    /\ \/ /\ run' = [status |-> "unavailable", pages |-> 1, found |-> 0] /\ crawl' = NoCrawl
          /\ UNCHANGED shown
       \/ \E c \in Contents, adapter \in Adapters :
            LET jobs == Extracted(career, c, adapter)
            IN  /\ GoesOn([crawl EXCEPT !.at = "details", !.todo = jobs, !.pages = 1])
                /\ shown' = jobs
    /\ UNCHANGED <<career, filtered, rows, heard, swapped, before, scans>>

\* The pages of the jobs, in the order of the career page: none once MaxPages
\* were read, none of a job with data or on another host.
OpensJob ==
    /\ crawl.at = "details" /\ crawl.todo # {}
    /\ \E job \in crawl.todo :
         LET rest == [crawl EXCEPT !.todo = @ \ {job}]
             as   == [rest EXCEPT !.found = @ \cup {job}]
         IN  IF crawl.pages >= MaxPages THEN GoesOn([as EXCEPT !.trouble = TRUE])
             ELSE IF job.data \/ HostOf(job.url) # HostOf(career) THEN GoesOn(as)
             ELSE GoesOn(Fetches("detail", job.url, as))
    /\ UNCHANGED <<career, filtered, rows, heard, shown, swapped, before, scans>>

DetailAnswered ==
    LET job == JobAt(crawl.job, FALSE)
        read == [crawl EXCEPT !.at = "details", !.pages = @ + 1]
    IN  /\ Doing({"detail"}, "page")
        /\ \/ GoesOn([read EXCEPT !.trouble = TRUE]) /\ UNCHANGED swapped    \* 400 and up, captcha
           \/ \E c \in Contents, adapter \in Adapters :
                LET jobs == {j \in Extracted(crawl.job, c, adapter) : j.data}
                IN  IF jobs = {} THEN GoesOn(read) /\ UNCHANGED swapped
                    ELSE /\ GoesOn([read EXCEPT !.found = (@ \ {job}) \cup jobs])
                         /\ swapped' = swapped \cup {job}
        /\ UNCHANGED <<career, filtered, rows, heard, shown, before, scans>>

-----------------------------------------------------------------------------
(* Storing what was found. *)

Passes(job) == filtered => job.url \in Chosen

FiltersFound ==
    /\ crawl.at = "details" /\ crawl.todo = {}
    /\ GoesOn([crawl EXCEPT !.at = "store", !.todo = {j \in crawl.found : Passes(j)}])
    /\ UNCHANGED <<career, filtered, rows, heard, shown, swapped, before, scans>>

\* A new row, or one more sighting of the row there is.
StoresJob ==
    /\ crawl.at = "store"
    /\ \E job \in crawl.todo :
         /\ rows' = rows \cup {job.url}
         /\ GoesOn([crawl EXCEPT !.todo = @ \ {job},
                       !.fresh = @ + IF job.url \in rows THEN 0 ELSE 1,
                       !.known = @ + IF job.url \in rows THEN 1 ELSE 0])
    /\ UNCHANGED <<career, filtered, heard, shown, swapped, before, scans>>

CompletesScan ==
    /\ crawl.at = "store" /\ crawl.todo = {}
    /\ EndsRun(IF crawl.fresh + crawl.known > 0 \/ ~crawl.trouble THEN "completed"
            ELSE "completed_with_errors")
    /\ UNCHANGED <<career, filtered, rows, heard, shown, swapped, before, scans>>

\* Anything the work raises ends it; the thread of a scan marks the run.
ScanRaises ==
    /\ crawl # NoCrawl /\ crawl' = NoCrawl
    /\ run' = IF crawl.for = "find" THEN run ELSE [run EXCEPT !.status = "failed"]
    /\ UNCHANGED <<career, filtered, rows, heard, shown, swapped, before, scans>>

CrwNext ==
    \/ FindPage \/ ScanPage \/ Robots \/ Redirected \/ HomeAnswered \/ CareerAnswered
    \/ OpensJob \/ DetailAnswered \/ FiltersFound \/ StoresJob \/ CompletesScan \/ ScanRaises

CrwSpec == CrwInit /\ [][CrwNext]_crwVars

-----------------------------------------------------------------------------
CrwTypeOK ==
    /\ career \in Urls \cup {"none"} /\ filtered \in BOOLEAN /\ rows \subseteq Urls
    /\ DOMAIN crawl = DOMAIN NoCrawl /\ crawl.pages \in Nat /\ crawl.hops \in 0..MaxHops
    /\ heard.url \in Urls /\ heard.file \in Files \cup {NoFile}
    /\ shown \cup swapped \subseteq [url : Urls, data : BOOLEAN]
    /\ before \subseteq Urls /\ scans \in 0..MaxScans

\* What a robots.txt says by the book: the rules below a run of agent lines are
\* for those agents, ours come before those for all, and a page is allowed
\* unless a rule that matches forbids it and none as long allows it.
IsRule(file, i) == file[i].key # "agent"
Heads(file, i) ==
    {k \in 1..i : /\ ~IsRule(file, k)
                  /\ \A j \in k..i : ~IsRule(file, j) \/ \A l \in j..i : IsRule(file, l)}
Named(file, i) == {file[k].agent : k \in Heads(file, i)}
RuleLines(file, who) == {i \in DOMAIN file : IsRule(file, i) /\ who \in Named(file, i)}
Ruling(file) ==
    {file[i] : i \in IF RuleLines(file, "us") # {} THEN RuleLines(file, "us")
                     ELSE RuleLines(file, "*")}
Permits(file, u) ==
    \A no \in Ruling(file) : no.key = "disallow" /\ u \in no.covers =>
        \E yes \in Ruling(file) : yes.key = "allow" /\ u \in yes.covers /\ yes.length >= no.length

\* The reading of robots.txt, rule by rule, comes to what it says by the book,
\* in whatever order its lines are (service.py 314-367).
ByTheBook ==
    \A file \in BookFiles, u \in {"careers", "one", "two"} : Allows(file, u) = Permits(file, u)

\* No page is asked for, a redirect's or a job's neither, unless the robots.txt
\* of its host was asked just before and permits it; and no page at all of a
\* platform that is off limits (service.py 1009-1056).
RobotsObeyed ==
    crawl.at = "page" =>
        /\ heard.url = crawl.url /\ Permits(heard.file, crawl.url)
        /\ ~Restricted(crawl.url)

\* A scan that completes has a row for every job the career page showed, what-
\* ever became of the jobs' own pages, but for those the filter dropped and
\* those that became the jobs of their page; and it counts the new ones.
FoundIsKept ==
    run.status \in {"completed", "completed_with_errors"} =>
        /\ \A job \in shown \ swapped : Passes(job) => job.url \in rows
        /\ run.found = Cardinality(rows \ before)
        /\ run.status = "completed_with_errors" => rows = before

\* However many jobs there are, a scan reads no more than MaxPages pages.
PagesBounded == crawl.pages <= MaxPages /\ run.pages <= MaxPages

CrawlHolds == ByTheBook /\ RobotsObeyed /\ FoundIsKept /\ PagesBounded
=============================================================================
