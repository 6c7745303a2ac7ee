------------------------------- MODULE Search -------------------------------
(***************************************************************************)
(* A search over the job boards, aggregators.py 589-1150 and the boards of *)
(* aggregator_providers.py.  One thread per board looks into the cache all *)
(* users share, or asks the board and keeps what it got; the results are   *)
(* merged by page and written to the index the diagnosis counts in.        *)
(* One role is searched for; an ad says how it looks to that search.       *)
(***************************************************************************)
EXTENDS Naturals, FiniteSets

CONSTANTS
    Seekers,        \* searches that run at once
    Ads,            \* [page, text, place, words, level, family]
    Wirings,        \* the sets of boards followed at once (six, or seven, in the code)
    MaxThreads,     \* bound on the threads of boards at work at once
    CacheAge,       \* ticks a cached answer is used (1 hour)
    IndexAge        \* ticks a row of the index counts (14 days)

Boards == {"arbeitnow", "muse", "remotive", "weworkremotely", "hn_hiring",
           "bundesagentur", "adzuna"}

ASSUME SearchAssumption ==
    /\ \A bs \in Wirings : bs \subseteq Boards /\ bs # {}
    /\ Ads \subseteq [page : Nat, text : Nat, place : {"town", "remote"},
                      words : BOOLEAN, level : BOOLEAN, family : BOOLEAN]
    /\ IsFiniteSet(Ads)
    /\ {MaxThreads, IndexAge} \subseteq Nat /\ CacheAge \in Nat \ {0}

RemoteOnly == {"remotive", "weworkremotely"}
Wheres     == {"", "town"}

VARIABLES
    boards,         \* the boards wired at start-up
    offline,           \* ticks since an ad was withdrawn, 0 while it is online
    boardCache,     \* answers kept per board and place
    jobIndex,       \* age of each page's row, and the text it keeps
    seeker          \* what each search has still to do, has got, or gave last

srVars == <<boards, offline, boardCache, jobIndex, seeker>>

Absent  == [kept |-> FALSE]
NotSeeking == [at |-> "idle"]
LongAgo == CacheAge + IndexAge + 1
\* What became of a board in a search.
Fates   == {"cached", "answered", "failed", "skipped"}

SrInit ==
    /\ boards = {} /\ offline = [a \in Ads |-> 0]
    /\ boardCache = [b \in {} |-> Absent]
    /\ jobIndex = [p \in {a.page : a \in Ads} |-> Absent]
    /\ seeker = [s \in Seekers |-> NotSeeking]

\* default_no_auth_providers, and Adzuna if it is configured.
WireBoards(bs) ==
    /\ boards = {} /\ boards' = bs
    /\ boardCache' = [b \in bs |-> [w \in Wheres |-> Absent]]
    /\ UNCHANGED <<offline, jobIndex, seeker>>

-----------------------------------------------------------------------------
(* What a board's answer is reduced to *)

\* location_matches; the caller skips it if no place is asked for.
InPlace(a, where) == where = "" \/ a.place = where
\* seniority_conflicts and title_matches_query_family.
LevelFits(a)  == a.level
FamilyFits(a) == a.family
\* The boards with a place in their own search are trusted with it.
ServedFor(a, where) == where = "" \/ a.place = where

ArbeitnowTakes(a, where) == a.words /\ InPlace(a, where) /\ LevelFits(a) /\ FamilyFits(a)
MuseTakes(a, where) ==
    /\ ServedFor(a, where)
    /\ a.words /\ InPlace(a, where) /\ LevelFits(a) /\ FamilyFits(a)
HnTakes(a, where)        == a.words /\ InPlace(a, where) /\ LevelFits(a) /\ FamilyFits(a)
RemotiveTakes(a)         == a.place = "remote" /\ LevelFits(a) /\ FamilyFits(a)
WwrTakes(a)              == a.place = "remote" /\ a.words /\ LevelFits(a) /\ FamilyFits(a)
BundesTakes(a, where)    == ServedFor(a, where) /\ LevelFits(a) /\ FamilyFits(a)
AdzunaTakes(a, where)    == ServedFor(a, where) /\ LevelFits(a) /\ FamilyFits(a)

BoardTakes(b, a, where) ==
    CASE b = "arbeitnow"      -> ArbeitnowTakes(a, where)
      [] b = "muse"           -> MuseTakes(a, where)
      [] b = "hn_hiring"      -> HnTakes(a, where)
      [] b = "remotive"       -> RemotiveTakes(a)
      [] b = "weworkremotely" -> WwrTakes(a)
      [] b = "bundesagentur"  -> BundesTakes(a, where)
      [] b = "adzuna"         -> AdzunaTakes(a, where)

Answer(b, where) == {a \in Ads : offline[a] = 0 /\ BoardTakes(b, a, where)}

-----------------------------------------------------------------------------

\* mutant of CacheKey: the place is left out
CacheKeyByRole(where) == ""

\* canonical_query.
CacheKey(where) == where

Cached(b, where) == boardCache[b][CacheKey(where)]
\* AggregatorResultCache.get: an answer is used up to its hour.
Hit(b, where)    == Cached(b, where).kept /\ Cached(b, where).age < CacheAge

\* AggregatorResultCache.put; an empty answer is not kept.
Put(b, where, ads) ==
    boardCache' = IF ads = {} THEN boardCache
                  ELSE [boardCache EXCEPT ![b][CacheKey(where)] =
                          [kept |-> TRUE, age |-> 0, ads |-> ads]]

\* A board that only has remote jobs is skipped when a place is asked for.
Skips(where) == IF where = "" THEN {} ELSE boards \cap RemoteOnly

Seeking == {s \in Seekers : seeker[s].at = "asking"}

StartSearch(s, where) ==
    /\ s \notin Seeking /\ boards # {}
    /\ (Cardinality(Seeking) + 1) * Cardinality(boards) <= MaxThreads
    /\ seeker' = [o \in Seekers |->
         IF o = s
         THEN [at |-> "asking", where |-> where, todo |-> boards \ Skips(where),
               missed |-> {}, fate |-> [b \in Skips(where) |-> "skipped"], ads |-> {}]
         ELSE IF o \in Seeking THEN seeker[o] ELSE NotSeeking]
    /\ UNCHANGED <<boards, offline, boardCache, jobIndex>>

\* Of the ads of one page the longest stays, and the first if none is longer.
FirstOn(page, ads) == CHOOSE a \in ads : a.page = page
Longest(ads) == {a \in ads : ~\E o \in ads : o.page = a.page /\ o.text > a.text}
Merge(old, new) ==
    LET kept  == old \cap Longest(old \cup new)
        fresh == {a \in Longest(new) : ~\E k \in kept : k.page = a.page}
    IN kept \cup {a \in fresh : a = FirstOn(a.page, fresh)}

\* A board's thread ends: its ads are taken as they come.
Arrives(s, b, fate, ads) ==
    LET r == seeker[s]
    IN  seeker' = [seeker EXCEPT ![s] =
          [at |-> "asking", where |-> r.where, todo |-> r.todo \ {b}, missed |-> r.missed \ {b},
           fate |-> [c \in DOMAIN r.fate \cup {b} |-> IF c = b THEN fate ELSE r.fate[c]],
           ads |-> Merge(r.ads, ads)]]

FromCache(s, b) ==
    /\ seeker[s].at = "asking" /\ b \in seeker[s].todo /\ Hit(b, seeker[s].where)
    /\ Arrives(s, b, "cached", Cached(b, seeker[s].where).ads)
    /\ UNCHANGED <<boards, offline, boardCache, jobIndex>>

Misses(s, b) ==
    /\ seeker[s].at = "asking" /\ b \in seeker[s].todo /\ ~Hit(b, seeker[s].where)
    /\ LET r == seeker[s] IN
       seeker' = [seeker EXCEPT ![s] =
         [at |-> "asking", where |-> r.where, todo |-> r.todo \ {b},
          missed |-> r.missed \cup {b}, fate |-> r.fate, ads |-> r.ads]]
    /\ UNCHANGED <<boards, offline, boardCache, jobIndex>>

\* The board answers; a status other than 200 reads as an answer without ads.
Fetched(s, b, ads) ==
    /\ seeker[s].at = "asking" /\ b \in seeker[s].missed
    /\ ads \in {Answer(b, seeker[s].where), {}}
    /\ Put(b, seeker[s].where, ads)
    /\ Arrives(s, b, "answered", ads)
    /\ UNCHANGED <<boards, offline, jobIndex>>

\* The board's search raises.
FetchFails(s, b) ==
    /\ seeker[s].at = "asking" /\ b \in seeker[s].missed
    /\ Arrives(s, b, "failed", {})
    /\ UNCHANGED <<boards, offline, boardCache, jobIndex>>

\* JobIndex.upsert_jobs.
Indexed(ads) ==
    [p \in DOMAIN jobIndex |->
       IF \E a \in ads : a.page = p
       THEN [kept |-> TRUE, age |-> 0, ad |-> FirstOn(p, ads)]
       ELSE jobIndex[p]]

\* All boards are through: the merged ads are indexed and given out.
FinishSearch(s, stored) ==
    /\ seeker[s].at = "asking" /\ seeker[s].todo = {} /\ seeker[s].missed = {}
    /\ jobIndex' = IF stored THEN Indexed(seeker[s].ads) ELSE jobIndex
    /\ seeker' = [seeker EXCEPT ![s].at = "found"]
    /\ UNCHANGED <<boards, offline, boardCache>>

\* count_by_facets, _cache_count_across_providers: the index, else what the
\* cache has of any board.
IndexCounts(where) ==
    {p \in DOMAIN jobIndex : /\ jobIndex[p].kept /\ jobIndex[p].age < IndexAge
                             /\ InPlace(jobIndex[p].ad, where)}
CacheCounts(where) == UNION {{a.page : a \in Cached(b, where).ads} :
                                b \in {c \in boards : Hit(c, where)}}
Diagnosed(where) == IF IndexCounts(where) # {} THEN IndexCounts(where) ELSE CacheCounts(where)

\* One ad is withdrawn from its boards.
WithdrawAd(a) ==
    /\ \A o \in Ads : offline[o] = 0
    /\ offline' = [offline EXCEPT ![a] = 1]
    /\ UNCHANGED <<boards, boardCache, jobIndex, seeker>>

Aged(row, most) == IF row.kept /\ row.age < most THEN [row EXCEPT !.age = @ + 1] ELSE row

\* Time passes; no search takes as long as a tick.
SearchTick ==
    /\ Seeking = {}
    /\ offline' = [a \in Ads |-> IF offline[a] \in 1..LongAgo THEN offline[a] + 1 ELSE offline[a]]
    /\ boardCache' = [b \in boards |-> [w \in Wheres |-> Aged(boardCache[b][w], CacheAge)]]
    /\ jobIndex' = [p \in DOMAIN jobIndex |-> Aged(jobIndex[p], IndexAge)]
    /\ seeker' = [s \in Seekers |-> NotSeeking]
    /\ UNCHANGED boards

SrNext ==
    \/ \E bs \in Wirings : WireBoards(bs)
    \/ \E s \in Seekers :
         \/ \E w \in Wheres : StartSearch(s, w)
         \/ \E b \in boards :
              \/ FromCache(s, b) \/ Misses(s, b) \/ FetchFails(s, b)
              \/ \E ads \in SUBSET Ads : Fetched(s, b, ads)
         \/ \E stored \in BOOLEAN : FinishSearch(s, stored)
    \/ \E a \in Ads : WithdrawAd(a)
    \/ SearchTick

SrTypeOK ==
    /\ boards \subseteq Boards /\ offline \in [Ads -> 0..LongAgo + 1]
    /\ \A b \in boards, w \in Wheres :
         boardCache[b][w].kept => /\ boardCache[b][w].age \in 0..CacheAge
                                  /\ boardCache[b][w].ads \subseteq Ads
    /\ \A p \in DOMAIN jobIndex : jobIndex[p].kept => jobIndex[p].age \in 0..IndexAge
    /\ \A s \in Seekers : seeker[s] # NotSeeking =>
         seeker[s].ads \subseteq Ads /\ seeker[s].fate \in [DOMAIN seeker[s].fate -> Fates]

Found(s) == seeker[s].at = "found"

\* A search answers for every board once; it gives no ad of another place, a
\* conflicting level or another line of work, and no ad that was withdrawn
\* longer than a cached answer is used, whoever searched for what before
\* (aggregators.py:968, aggregator_providers.py:153); of the ads the cache
\* keeps of a board it answered for, none is lost but to a longer text of its
\* page.  The diagnosis counts no ad of another place, and none withdrawn
\* longer than the index keeps a row of what the cache still gave.
SearchHolds ==
    /\ \A s \in Seekers : Found(s) =>
         LET r == seeker[s] IN
         /\ DOMAIN r.fate = boards
         /\ \A a \in r.ads : InPlace(a, r.where) /\ a.level /\ a.family /\ offline[a] <= CacheAge
         /\ \A a, c \in r.ads : a.page = c.page => a = c
         /\ \A b \in boards : r.fate[b] = "cached" =>
              \A a \in Cached(b, r.where).ads : \E c \in r.ads : c.page = a.page /\ c.text >= a.text
    /\ \A w \in Wheres : \A p \in Diagnosed(w) :
         \E a \in Ads : a.page = p /\ InPlace(a, w) /\ offline[a] <= CacheAge + IndexAge
=============================================================================
