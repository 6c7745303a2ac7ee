------------------------------- MODULE MCWork -------------------------------
(***************************************************************************)
(* One small instance of each service that finds jobs, tells of them,      *)
(* works on them and stores what came of it, for TLC.  They share no       *)
(* state, so a behaviour works on one of them, chosen at the start; the    *)
(* others stay where they begin.                                           *)
(***************************************************************************)
EXTENDS Alerts, Discoveries, Applications, Routing, Search, Stores, Streams,
        Builder, Crawl, Commands, Migrations, TLC

VARIABLE focus

Services == {"alerts", "discoveries", "application", "routing", "search",
             "stores", "streams", "builder", "crawl", "commands",
             "migrations"}

Init ==
    /\ focus \in Services
    /\ AltInit /\ DscInit /\ AppInit /\ RtInit /\ SrInit
    /\ StInit /\ StrInit /\ BldInit /\ CrwInit /\ CmdInit
    /\ MigInit
    /\ focus # "crawl" => career = "none" /\ ~filtered

\* A step of one service, and the variables of the others.
On(service, step, others) == focus = service /\ step /\ UNCHANGED <<focus, others>>

altRest == <<dscVars, appVars, rtVars, srVars, stVars, strVars, bldVars,
             crwVars, cmdVars, migVars>>
dscRest == <<altVars, appVars, rtVars, srVars, stVars, strVars, bldVars,
             crwVars, cmdVars, migVars>>
appRest == <<altVars, dscVars, rtVars, srVars, stVars, strVars, bldVars,
             crwVars, cmdVars, migVars>>
rtRest == <<altVars, dscVars, appVars, srVars, stVars, strVars, bldVars,
            crwVars, cmdVars, migVars>>
srRest == <<altVars, dscVars, appVars, rtVars, stVars, strVars, bldVars,
            crwVars, cmdVars, migVars>>
stRest == <<altVars, dscVars, appVars, rtVars, srVars, strVars, bldVars,
            crwVars, cmdVars, migVars>>
strRest == <<altVars, dscVars, appVars, rtVars, srVars, stVars, bldVars,
             crwVars, cmdVars, migVars>>
bldRest == <<altVars, dscVars, appVars, rtVars, srVars, stVars, strVars,
             crwVars, cmdVars, migVars>>
crwRest == <<altVars, dscVars, appVars, rtVars, srVars, stVars, strVars,
             bldVars, cmdVars, migVars>>
cmdRest == <<altVars, dscVars, appVars, rtVars, srVars, stVars, strVars,
             bldVars, crwVars, migVars>>
migRest == <<altVars, dscVars, appVars, rtVars, srVars, stVars, strVars,
             bldVars, crwVars, cmdVars>>

Next ==
    \/ On("alerts", AltNext, altRest)
    \/ On("discoveries", DscNext, dscRest)
    \/ On("application", AppNext, appRest)
    \/ On("routing", RtNext, rtRest)
    \/ On("search", SrNext, srRest)
    \/ On("stores", StNext, stRest)
    \/ On("streams", StrNext, strRest)
    \/ On("builder", BldNext, bldRest)
    \/ On("crawl", CrwNext, crwRest)
    \/ On("commands", CmdNext, cmdRest)
    \/ On("migrations", MigNext, migRest)

Spec == Init /\ [][Next]_<<focus, altVars, altRest>>

Symmetry == Permutations(Jobs) \cup Permutations(Senders)

MCPostings ==
    {[page |-> "a", title |-> "x", place |-> "nowhere", company |-> 0, host |-> "e"],
     [page |-> "b", title |-> "y", place |-> "town", company |-> 0, host |-> "e"],
     [page |-> "b", title |-> "y", place |-> "town", company |-> 1, host |-> "e"]}

MCAds ==
    {[page |-> 1, text |-> 1, place |-> "town", words |-> TRUE, level |-> TRUE, family |-> TRUE],
     [page |-> 1, text |-> 2, place |-> "remote", words |-> FALSE, level |-> TRUE, family |-> TRUE],
     [page |-> 2, text |-> 1, place |-> "town", words |-> TRUE, level |-> FALSE, family |-> TRUE]}

MCWirings == {{"arbeitnow", "remotive"}, {"muse", "weworkremotely"},
              {"hn_hiring", "bundesagentur"}, {"adzuna"}}

\* robots.txt files, and all short ones of a few lines.
AgentLine(a) == [key |-> "agent", agent |-> a]
NoLine(S, n) == [key |-> "disallow", covers |-> S, length |-> n]
YesLine(S, n) == [key |-> "allow", covers |-> S, length |-> n]
MCFiles == {
  <<AgentLine("us"), AgentLine("*"), NoLine({"one"}, 3), YesLine({"one", "two"}, 3)>>,
  <<AgentLine("*"), YesLine(Urls, 9),
    AgentLine("us"), NoLine({"one", "careers"}, 2), YesLine({"careers"}, 4)>>}
MCContents == {
  [postings |-> {"one"}, feed |-> {}, isFeed |-> TRUE, links |-> {"one", "two"}],
  [postings |-> {}, feed |-> {"two"}, isFeed |-> TRUE, links |-> {"one", "social"}],
  [postings |-> {}, feed |-> {}, isFeed |-> FALSE, links |-> {"two", "board", "one"}]}
BookLines == {AgentLine("us"), AgentLine("*"), NoLine(Urls, 0),
              NoLine(Urls, 1), NoLine({"one"}, 2), NoLine({}, 0),
              YesLine({"one"}, 1), YesLine({"one", "two"}, 2)}
MCBook == UNION {[1..n -> BookLines] : n \in 0..3}

\* Every service's variables have the types its module gives them.
WorkTypeOK ==
    /\ AltTypeOK /\ DscTypeOK /\ AppTypeOK /\ RtTypeOK /\ SrTypeOK
    /\ StTypeOK /\ StrTypeOK /\ BldTypeOK /\ CrwTypeOK /\ CmdTypeOK
    /\ MigTypeOK

\* A job found or applied for is there once, what is shown of it is saved, and
\* a site is asked for no page it does not want asked for (service.py 293-1056,
\* app.py 6860-6990).
JobsHold == CrawlHolds /\ DiscoveriesHold /\ ApplicationHolds

\* What the chat does is what was asked, once, and is on the books, and a CV
\* built in answers has them all (app.py 4723-4890, 10398-10493, 10998-11160;
\* analysis.py 759-975, 1237-1418).
ChatWorkHolds == CommandFits /\ CommandsHold /\ StreamsHold /\ BuilderHolds

\* The file has what the tables should have, and its schema is whole
\* (repository.py, sqlite_repository.py, postgres_repository.py, migrations.py).
FilesHold == StoresHold /\ MigrationsHold
=============================================================================
