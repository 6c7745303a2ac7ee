----------------------------- MODULE DataProofs -----------------------------
(***************************************************************************)
(* That what a user was told can be relied on, for any number of users,    *)
(* requests and rows: one inductive invariant for each service that keeps  *)
(* data, its preservation action by action, and the promise it implies.    *)
(* At the end, the types of what all the services keep.                    *)
(***************************************************************************)
EXTENDS ServicesProofs, FiniteSetTheorems, SequenceTheorems, WellFoundedInduction, TLAPS
-----------------------------------------------------------------------------
(* Least and greatest numbers *)

\* A set of numbers has a least: of the intervals up to one of them, a minimal
\* one ends there.
LEMMA LeastOfNaturals ==
    ASSUME NEW S, S \subseteq Nat, S # {}
    PROVE  \E m \in S : \A n \in S : m <= n
<1>1. PICK F : F = {0..n : n \in S}
    OBVIOUS
<1>2. F \subseteq FiniteSubsetsOf(Nat) /\ F # {}
  <2>1. \A n \in S : 0..n \in SUBSET Nat /\ IsFiniteSet(0..n)
      BY FS_Interval
  <2> QED
      BY <1>1, <2>1 DEF FiniteSubsetsOf
<1>3. PICK U \in F : \A V \in F : ~ (<<V, U>> \in StrictSubsetOrdering(Nat))
    BY <1>2, FS_StrictSubsetOrderingWellFounded, WFMin
<1>4. PICK m \in S : U = 0..m
    BY <1>1, <1>3
<1>5. ASSUME NEW n \in S, n < m PROVE FALSE
  <2>1. 0..n \in F /\ 0..n \in SUBSET Nat /\ U \in SUBSET Nat
      BY <1>1, <1>4
  <2>2. 0..n \subseteq U /\ 0..n # U
      BY <1>4, <1>5
  <2> QED
      BY <1>3, <2>1, <2>2 DEF StrictSubsetOrdering
<1> QED
    BY <1>5

\* A set of numbers that are not above one of their kind has a greatest.
LEMMA GreatestOfBounded ==
    ASSUME NEW S, NEW top \in Nat, S \subseteq 0..top, S # {}
    PROVE  \E m \in S : \A n \in S : n <= m
<1>1. PICK D : D = {top - n : n \in S}
    OBVIOUS
<1>2. \A n \in S : n \in Nat /\ n <= top
    OBVIOUS
<1>3. D \subseteq Nat /\ D # {}
  <2>1. ASSUME NEW d \in D PROVE d \in Nat
    <3>1. PICK n \in S : d = top - n
        BY <1>1
    <3> QED
        BY <1>2, <3>1
  <2> QED
      BY <1>1, <2>1
<1>4. PICK d \in D : \A e \in D : d <= e
    BY <1>3, LeastOfNaturals
<1>5. PICK m \in S : d = top - m
    BY <1>1
<1>6. ASSUME NEW n \in S PROVE n <= m
  <2>1. d <= top - n
      BY <1>1, <1>4
  <2> QED
      BY <1>2, <1>5, <2>1
<1> QED
    BY <1>6

LEMMA OneMore ==
    ASSUME NEW S, NEW x, IsFiniteSet(S)
    PROVE  /\ IsFiniteSet(S \cup {x}) /\ Cardinality(S \cup {x}) \in Nat
           /\ Cardinality(S) \in Nat /\ Cardinality(S \cup {x}) <= Cardinality(S) + 1
<1>1. IsFiniteSet(S \cup {x})
    BY FS_AddElement
<1>2. Cardinality(S) \in Nat /\ Cardinality(S \cup {x}) \in Nat
    BY <1>1, FS_CardinalityType
<1>3. Cardinality(S \cup {x}) = IF x \in S THEN Cardinality(S) ELSE Cardinality(S) + 1
    BY FS_AddElement
<1> QED
    BY <1>1, <1>2, <1>3
-----------------------------------------------------------------------------
(* Disclosures *)

LogKey   == [changed : Nat, minute : Nat]
Asked    == [minute : Nat, change : Nat]
CountOf  == [uses : SUBSET Nat, on : Nat, short : BOOLEAN]
ViewType == {Away} \cup [at : {"missed"}, since : Asked, key : LogKey]
                   \cup [at : {"listed"}, since : Asked, key : LogKey, listed : Nat]
                   \cup [at : {"counted"}, since : Asked, key : LogKey, count : CountOf]
                   \cup [at : {"shown"}, since : Asked, count : CountOf]

TrailTyped ==
    /\ tick \in Nat /\ liveFile \in Nat \ {0}
    /\ trail \in Seq([at : Nat, file : Nat])
    /\ \A l \in DOMAIN trail : trail[l].at <= tick /\ trail[l].file \in 1..liveFile

\* A count has every use of its window from before the minute and the change it
\* goes by, unless it is short, and none that was out of its window by then.
Fair(count, minute, change) ==
    /\ \A l \in DOMAIN trail :
          \/ trail[l].at >= minute /\ trail[l].at >= change
          \/ trail[l].at + Window < count.on \/ count.short \/ l \in count.uses
    /\ \A l \in count.uses : l \in DOMAIN trail /\ trail[l].at + Window >= minute

Bucket(k) == k.minute * BucketSpan

\* What is kept under a key is what those may be shown who ask under it,
CacheHolds ==
    \A k \in DOMAIN pageCache :
        /\ k \in LogKey /\ pageCache[k] \in CountOf
        /\ Bucket(k) <= tick /\ k.changed <= tick
        /\ Fair(pageCache[k], Bucket(k), k.changed)

\* because what goes for the key goes for whoever asked.
ViewHolds(v) ==
    /\ viewing[v].at # "away" => viewing[v].since.minute <= tick /\ viewing[v].since.change <= tick
    /\ viewing[v].at \in {"missed", "listed", "counted"} =>
          /\ viewing[v].since.minute = Bucket(viewing[v].key)
          /\ viewing[v].since.change = viewing[v].key.changed
    /\ viewing[v].at \in {"counted", "shown"} =>
          Fair(viewing[v].count, viewing[v].since.minute, viewing[v].since.change)

DisclosuresInv ==
    /\ TrailTyped /\ viewing \in [Viewers -> ViewType] /\ CacheHolds
    /\ \A v \in Viewers : ViewHolds(v)

LEMMA DisclosuresKeep == DisclosuresInv => DisclosuresHold
BY DEF DisclosuresInv, DisclosuresHold, NothingLeftOut, NothingOutOfDate, ViewHolds, Fair

LEMMA ViewShape ==
    ASSUME DisclosuresInv, NEW v \in Viewers
    PROVE  /\ viewing[v].at \in {"away", "missed", "listed", "counted", "shown"}
           /\ viewing[v].at # "away" => viewing[v].since \in Asked
           /\ viewing[v].at \in {"missed", "listed", "counted"} => viewing[v].key \in LogKey
           /\ viewing[v].at = "listed" => viewing[v].listed \in Nat
           /\ viewing[v].at \in {"counted", "shown"} => viewing[v].count \in CountOf
<1>1. viewing[v] \in ViewType
    BY DEF DisclosuresInv
<1>2. CASE viewing[v] = Away
    BY <1>2 DEF Away
<1>3. CASE viewing[v] \in [at : {"missed"}, since : Asked, key : LogKey]
    BY <1>3
<1>4. CASE viewing[v] \in [at : {"listed"}, since : Asked, key : LogKey, listed : Nat]
    BY <1>4
<1>5. CASE viewing[v] \in [at : {"counted"}, since : Asked, key : LogKey, count : CountOf]
    BY <1>5
<1>6. CASE viewing[v] \in [at : {"shown"}, since : Asked, count : CountOf]
    BY <1>6
<1> QED
    BY <1>1, <1>2, <1>3, <1>4, <1>5, <1>6 DEF ViewType

LEMMA InitDisclosures == DclInit => DisclosuresInv
<1> SUFFICES ASSUME DclInit PROVE DisclosuresInv
    OBVIOUS
<1>1. /\ tick = 1 /\ trail = <<>> /\ liveFile = 1 /\ pageCache = <<>>
      /\ viewing = [v \in Viewers |-> Away]
    BY DEF DclInit
<1>2. TrailTyped
    BY <1>1 DEF TrailTyped
<1>3. CacheHolds
    BY <1>1 DEF CacheHolds
<1>4. viewing \in [Viewers -> ViewType] /\ \A v \in Viewers : ViewHolds(v)
    BY <1>1 DEF ViewType, ViewHolds, Away
<1> QED
    BY <1>2, <1>3, <1>4 DEF DisclosuresInv

\* What a line says,
LEMMA LineShape ==
    ASSUME TrailTyped, NEW l \in DOMAIN trail
    PROVE  trail[l].at \in Nat /\ trail[l].file \in Nat /\ trail[l].at <= tick
<1>1. PICK Lines : Lines = [at : Nat, file : Nat]
    OBVIOUS
<1>2. trail \in Seq(Lines)
    BY <1>1 DEF TrailTyped
<1>3. trail[l] \in Lines
    BY <1>2
<1> QED
    BY <1>1, <1>3 DEF TrailTyped

\* and what another leaves as it is.
LEMMA LinesAppended ==
    ASSUME TrailTyped, NEW line \in [at : Nat, file : Nat], trail' = Append(trail, line)
    PROVE  /\ \A l \in DOMAIN trail : l \in DOMAIN trail' /\ trail'[l] = trail[l]
           /\ \A l \in DOMAIN trail' : l \in DOMAIN trail \/ trail'[l] = line
<1>1. /\ trail \in Seq([at : Nat, file : Nat]) /\ Len(trail) \in Nat
      /\ DOMAIN trail = 1..Len(trail)
    BY DEF TrailTyped
<1>2. DOMAIN trail' = 1..(Len(trail) + 1)
    BY <1>1
<1>3. \A l \in 1..Len(trail) : trail'[l] = trail[l]
    BY <1>1
<1>4. trail'[Len(trail) + 1] = line
    BY <1>1
<1> QED
    BY <1>1, <1>2, <1>3, <1>4

\* What is fair stays fair: what is logged later is no older.
LEMMA FairStays ==
    ASSUME TrailTyped, NEW count, NEW minute \in Nat, NEW change \in Nat,
           minute <= tick, change <= tick, Fair(count, minute, change),
           trail' = trail \/ trail' = Append(trail, [at |-> tick, file |-> liveFile])
    PROVE  Fair(count, minute, change)'
<1>1. CASE trail' = trail
    BY <1>1 DEF Fair
<1>2. CASE trail' = Append(trail, [at |-> tick, file |-> liveFile])
  <2>1. PICK line \in [at : Nat, file : Nat] : line = [at |-> tick, file |-> liveFile]
      BY DEF TrailTyped
  <2>2. /\ line.at = tick /\ trail' = Append(trail, line)
        /\ trail \in Seq([at : Nat, file : Nat]) /\ tick \in Nat
      BY <1>2, <2>1 DEF TrailTyped
  <2>4. \A l \in DOMAIN trail : l \in DOMAIN trail' /\ trail'[l] = trail[l]
      BY <2>2, LinesAppended
  <2>5. \A l \in DOMAIN trail' : l \in DOMAIN trail \/ trail'[l] = line
      BY <2>2, LinesAppended
  <2>6. \A l \in DOMAIN trail' :
            \/ trail'[l].at >= minute /\ trail'[l].at >= change
            \/ trail'[l].at + Window < count.on \/ count.short \/ l \in count.uses
    <3> TAKE l \in DOMAIN trail'
    <3>1. CASE l \in DOMAIN trail
        BY <2>4, <3>1 DEF Fair
    <3>2. CASE trail'[l] = line
        BY <2>2, <3>2
    <3> QED
        BY <2>5, <3>1, <3>2
  <2>7. \A l \in count.uses : l \in DOMAIN trail' /\ trail'[l].at + Window >= minute
      BY <2>4 DEF Fair
  <2> QED
      BY <2>6, <2>7 DEF Fair
<1> QED
    BY <1>1, <1>2

\* Time and the log go on; requests stand still.
LEMMA TrailKeeps ==
    ASSUME DisclosuresInv, TrailTyped', tick <= tick', UNCHANGED <<pageCache, viewing>>,
           trail' = trail \/ trail' = Append(trail, [at |-> tick, file |-> liveFile])
    PROVE  DisclosuresInv'
<1>0. TrailTyped /\ viewing \in [Viewers -> ViewType] /\ CacheHolds /\ tick \in Nat /\ tick' \in Nat
    BY DEF DisclosuresInv, TrailTyped
<1>1. CacheHolds'
  <2> SUFFICES ASSUME NEW k \in DOMAIN pageCache
               PROVE  /\ k \in LogKey /\ pageCache[k] \in CountOf
                      /\ Bucket(k) <= tick' /\ k.changed <= tick'
                      /\ Fair(pageCache[k], Bucket(k), k.changed)'
      BY DEF CacheHolds, Bucket
  <2>1. /\ k \in LogKey /\ pageCache[k] \in CountOf /\ Bucket(k) <= tick /\ k.changed <= tick
        /\ Fair(pageCache[k], Bucket(k), k.changed)
      BY <1>0 DEF CacheHolds
  <2>2. Bucket(k) \in Nat /\ k.changed \in Nat
      BY <2>1, DisclosuresAssumption DEF Bucket, LogKey
  <2>3. PICK count, minute, change :
            count = pageCache[k] /\ minute = Bucket(k) /\ change = k.changed
      OBVIOUS
  <2>4. Fair(count, minute, change)'
      BY <1>0, <2>1, <2>2, <2>3, FairStays
  <2>5. Fair(pageCache[k], Bucket(k), k.changed)'
      BY <2>3, <2>4 DEF Bucket
  <2> QED
      BY <1>0, <2>1, <2>2, <2>5
<1>2. ASSUME NEW v \in Viewers PROVE ViewHolds(v)'
  <2>1. ViewHolds(v)
      BY DEF DisclosuresInv
  <2>2. viewing[v].at # "away" =>
            viewing[v].since.minute \in Nat /\ viewing[v].since.change \in Nat
      BY ViewShape DEF Asked
  <2>3. PICK count, minute, change :
            /\ count = viewing[v].count /\ minute = viewing[v].since.minute
            /\ change = viewing[v].since.change
      OBVIOUS
  <2>4. viewing[v].at \in {"counted", "shown"} => Fair(count, minute, change)'
      BY <1>0, <2>1, <2>2, <2>3, FairStays DEF ViewHolds
  <2>5. viewing'[v] = viewing[v]
      OBVIOUS
  <2>6. viewing'[v].at # "away" =>
            viewing'[v].since.minute <= tick' /\ viewing'[v].since.change <= tick'
      BY <1>0, <2>1, <2>2, <2>5 DEF ViewHolds
  <2>7. viewing'[v].at \in {"counted", "shown"} =>
            Fair(viewing[v].count, viewing[v].since.minute, viewing[v].since.change)'
      BY <2>3, <2>4, <2>5
  <2> QED
      BY <2>1, <2>5, <2>6, <2>7 DEF ViewHolds, Bucket
<1> QED
    BY <1>0, <1>1, <1>2 DEF DisclosuresInv

LEMMA LogKeeps == ASSUME DisclosuresInv, Emitted \/ Rotates \/ Passes PROVE DisclosuresInv'
<1>0. TrailTyped
    BY DEF DisclosuresInv
<1>1. CASE Emitted
  <2>1. PICK line \in [at : Nat, file : Nat] : line = [at |-> tick, file |-> liveFile]
      BY <1>0 DEF TrailTyped
  <2>2. /\ line.at = tick /\ line.file = liveFile /\ trail' = Append(trail, line)
        /\ trail \in Seq([at : Nat, file : Nat])
        /\ tick' = tick /\ liveFile' = liveFile /\ UNCHANGED <<pageCache, viewing>>
      BY <1>0, <1>1, <2>1 DEF Emitted, TrailTyped
  <2>3. trail' \in Seq([at : Nat, file : Nat])
      BY <2>2
  <2>4. \A l \in DOMAIN trail' : (l \in DOMAIN trail /\ trail'[l] = trail[l]) \/ trail'[l] = line
      BY <2>2
  <2>5. TrailTyped'
      BY <1>0, <2>2, <2>3, <2>4 DEF TrailTyped
  <2>6. tick <= tick'
      BY <1>0, <2>2 DEF TrailTyped
  <2> QED
      BY <1>1, <2>2, <2>5, <2>6, TrailKeeps DEF Emitted
<1>2. CASE Rotates
  <2>1. TrailTyped' /\ tick <= tick' /\ trail' = trail /\ UNCHANGED <<pageCache, viewing>>
      BY <1>0, <1>2 DEF Rotates, TrailTyped
  <2> QED
      BY <2>1, TrailKeeps
<1>3. CASE Passes
  <2>1. /\ tick' = tick + 1 /\ tick \in Nat /\ trail' = trail /\ liveFile' = liveFile
        /\ UNCHANGED <<pageCache, viewing>>
      BY <1>0, <1>3 DEF Passes, TrailTyped
  <2>2. \A l \in DOMAIN trail : trail[l].at <= tick'
      BY <1>0, <2>1, LineShape
  <2>3. TrailTyped' /\ tick <= tick'
      BY <1>0, <2>1, <2>2 DEF TrailTyped
  <2> QED
      BY <2>1, <2>3, TrailKeeps
<1> QED
    BY <1>1, <1>2, <1>3

\* The bucket of a moment, and the log's last change, are not after it.
LEMMA KeyShape ==
    ASSUME TrailTyped
    PROVE  /\ KeyNow \in LogKey /\ KeyNow.changed = Changed /\ KeyNow.minute = MinuteOf(tick)
           /\ Bucket(KeyNow) <= tick /\ KeyNow.changed <= tick
<1>1. tick \in Nat /\ BucketSpan \in Nat /\ BucketSpan > 0
    BY DisclosuresAssumption DEF TrailTyped
<1>2. MinuteOf(tick) \in Nat /\ MinuteOf(tick) * BucketSpan <= tick
    BY <1>1, Z3 DEF MinuteOf
<1>3. Changed \in Nat /\ Changed <= tick
  <2>1. CASE LinesOf({liveFile}) = {}
      BY <1>1, <2>1 DEF Changed
  <2>2. CASE LinesOf({liveFile}) # {}
    <3>1. PICK own : own = LinesOf({liveFile})
        OBVIOUS
    <3>2. own \subseteq DOMAIN trail /\ own # {}
        BY <2>2, <3>1 DEF LinesOf
    <3>3. own \subseteq 0..Len(trail) /\ Len(trail) \in Nat
        BY <3>2 DEF TrailTyped
    <3>4. PICK m \in own : \A n \in own : n <= m
        BY <3>2, <3>3, GreatestOfBounded
    <3>5. Max(own) \in own
        BY <3>4 DEF Max
    <3>6. Changed = trail[Max(own)].at
        BY <2>2, <3>1 DEF Changed
    <3> QED
        BY <3>2, <3>5, <3>6, LineShape
  <2> QED
      BY <2>1, <2>2
<1>4. KeyNow = [changed |-> Changed, minute |-> MinuteOf(tick)]
    BY DEF KeyNow
<1> QED
    BY <1>2, <1>3, <1>4 DEF LogKey, Bucket

\* One request goes on.
LEMMA OneView ==
    ASSUME DisclosuresInv, UNCHANGED Trail, NEW v \in Viewers, NEW task \in ViewType,
           viewing' = [viewing EXCEPT ![v] = task], CacheHolds', ViewHolds(v)'
    PROVE  DisclosuresInv'
<1>0. /\ TrailTyped /\ viewing \in [Viewers -> ViewType] /\ \A w \in Viewers : ViewHolds(w)
      /\ tick' = tick /\ trail' = trail /\ liveFile' = liveFile
    BY DEF DisclosuresInv, Trail
<1>1. viewing'[v] = task /\ \A w \in Viewers : w # v => viewing'[w] = viewing[w]
    BY <1>0
<1>2. TrailTyped' /\ viewing' \in [Viewers -> ViewType]
    BY <1>0 DEF TrailTyped
<1>3. ASSUME NEW w \in Viewers, w # v PROVE ViewHolds(w)'
    BY <1>0, <1>1, <1>3 DEF ViewHolds, Fair, Bucket
<1> QED
    BY <1>2, <1>3 DEF DisclosuresInv

LEMMA AsksKeeps == ASSUME DisclosuresInv, NEW v \in Viewers, Asks(v) PROVE DisclosuresInv'
<1>0. /\ TrailTyped /\ CacheHolds /\ viewing \in [Viewers -> ViewType]
      /\ UNCHANGED Trail /\ pageCache' = pageCache
    BY DEF DisclosuresInv, Asks
<1>1. PICK k \in LogKey : k = KeyNow
    BY <1>0, KeyShape
<1>2. k.changed = Changed /\ k.minute = MinuteOf(tick) /\ Bucket(k) <= tick /\ k.changed <= tick
    BY <1>0, <1>1, KeyShape
<1>3. PICK since : since = [minute |-> Bucket(k), change |-> k.changed]
    OBVIOUS
<1>4. since \in Asked /\ since.minute = Bucket(k) /\ since.change = k.changed
    BY <1>3, DisclosuresAssumption DEF Asked, Bucket, LogKey
<1>5. since = [minute |-> MinuteOf(tick) * BucketSpan, change |-> Changed]
    BY <1>2, <1>3 DEF Bucket
<1>6. CacheHolds'
    BY <1>0 DEF CacheHolds, Trail, Fair, Bucket
<1>7. CASE k \in DOMAIN pageCache
  <2>1. PICK task : task = [at |-> "shown", since |-> since, count |-> pageCache[k]]
      OBVIOUS
  <2>2. viewing' = [viewing EXCEPT ![v] = task]
      BY <1>1, <1>5, <1>7, <2>1 DEF Asks, Views
  <2>3. /\ task \in ViewType /\ task.at = "shown" /\ task.since = since
        /\ task.count = pageCache[k]
      BY <1>0, <1>4, <1>7, <2>1 DEF ViewType, CacheHolds
  <2>4. viewing'[v] = task
      BY <1>0, <2>2
  <2>5. Fair(pageCache[k], Bucket(k), k.changed)
      BY <1>0, <1>7 DEF CacheHolds
  <2>6. ViewHolds(v)'
      BY <1>0, <1>2, <1>4, <2>3, <2>4, <2>5 DEF ViewHolds, Fair, Trail
  <2> QED
      BY <1>0, <1>6, <2>2, <2>3, <2>6, OneView
<1>8. CASE k \notin DOMAIN pageCache
  <2>1. PICK task : task = [at |-> "missed", since |-> since, key |-> k]
      OBVIOUS
  <2>2. viewing' = [viewing EXCEPT ![v] = task]
      BY <1>1, <1>5, <1>8, <2>1 DEF Asks, Views
  <2>3. task \in ViewType /\ task.at = "missed" /\ task.since = since /\ task.key = k
      BY <1>4, <2>1 DEF ViewType
  <2>4. viewing'[v] = task
      BY <1>0, <2>2
  <2>5. ViewHolds(v)'
      BY <1>0, <1>2, <1>4, <2>3, <2>4 DEF ViewHolds, Trail, Bucket
  <2> QED
      BY <1>0, <1>6, <2>2, <2>3, <2>5, OneView
<1> QED
    BY <1>7, <1>8

LEMMA ListsFilesKeeps == ASSUME DisclosuresInv, NEW v \in Viewers, ListsFiles(v) PROVE DisclosuresInv'
<1>0. /\ TrailTyped /\ CacheHolds /\ viewing \in [Viewers -> ViewType] /\ ViewHolds(v)
      /\ viewing[v].at = "missed" /\ UNCHANGED Trail /\ pageCache' = pageCache
    BY DEF DisclosuresInv, ListsFiles
<1>1. PICK task : task = [at |-> "listed", since |-> viewing[v].since, key |-> viewing[v].key,
                          listed |-> liveFile]
    OBVIOUS
<1>2. viewing' = [viewing EXCEPT ![v] = task]
    BY <1>1 DEF ListsFiles, Views
<1>3. /\ task \in ViewType /\ task.at = "listed" /\ task.since = viewing[v].since
      /\ task.key = viewing[v].key
    BY <1>0, <1>1, ViewShape DEF ViewType, TrailTyped
<1>4. viewing'[v] = task
    BY <1>0, <1>2
<1>5. ViewHolds(v)'
    BY <1>0, <1>3, <1>4 DEF ViewHolds, Trail, Bucket
<1>6. CacheHolds'
    BY <1>0 DEF CacheHolds, Trail, Fair, Bucket
<1> QED
    BY <1>0, <1>2, <1>3, <1>5, <1>6, OneView

LEMMA CountsKeeps == ASSUME DisclosuresInv, NEW v \in Viewers, Counts(v) PROVE DisclosuresInv'
<1>0. /\ TrailTyped /\ CacheHolds /\ viewing \in [Viewers -> ViewType] /\ ViewHolds(v)
      /\ viewing[v].at = "listed" /\ UNCHANGED Trail /\ pageCache' = pageCache
    BY DEF DisclosuresInv, Counts
<1>1. PICK listed : listed = viewing[v].listed
    OBVIOUS
<1>2. PICK read : read = LinesOf(1..(listed - 1) \cup {liveFile})
    OBVIOUS
<1>3. PICK few \in BOOLEAN : few = (liveFile # listed \/ NewestOf(read) # read)
    OBVIOUS
<1>4. PICK count : count = [uses |-> Aggregated(NewestOf(read)), on |-> tick, short |-> few]
    OBVIOUS
<1>5. PICK task : task = [at |-> "counted", since |-> viewing[v].since, key |-> viewing[v].key,
                          count |-> count]
    OBVIOUS
<1>6. viewing' = [viewing EXCEPT ![v] = task]
    BY <1>1, <1>2, <1>3, <1>4, <1>5 DEF Counts, Views
<1>7. read \subseteq DOMAIN trail /\ DOMAIN trail \subseteq Nat
    BY <1>0, <1>2 DEF LinesOf, TrailTyped
<1>8. /\ count.uses = {l \in NewestOf(read) : trail[l].at + Window >= tick} /\ count.on = tick
      /\ count.short = few
    BY <1>4 DEF Aggregated
<1>9. NewestOf(read) \subseteq read
    BY DEF NewestOf
<1>10. count \in CountOf
    BY <1>0, <1>4, <1>7, <1>8, <1>9 DEF CountOf, TrailTyped
<1>11. viewing[v].since \in Asked /\ viewing[v].key \in LogKey
    BY <1>0, ViewShape
<1>12. /\ task \in ViewType /\ task.at = "counted" /\ task.since = viewing[v].since
       /\ task.key = viewing[v].key /\ task.count = count
    BY <1>5, <1>10, <1>11 DEF ViewType
<1>13. viewing'[v] = task
    BY <1>0, <1>6
<1>14. PICK minute \in Nat, change \in Nat :
           minute = viewing[v].since.minute /\ change = viewing[v].since.change
    BY <1>11 DEF Asked
<1>15. minute <= tick /\ change <= tick /\ tick \in Nat /\ Window \in Nat
    BY <1>0, <1>14, DisclosuresAssumption DEF ViewHolds, TrailTyped
<1>16. Fair(count, minute, change)
  <2>1. ASSUME ~few PROVE NewestOf(read) = DOMAIN trail
    <3>1. listed = liveFile /\ NewestOf(read) = read
        BY <1>3, <2>1
    <3>2. \A l \in DOMAIN trail : trail[l].file \in 1..(listed - 1) \cup {liveFile}
        BY <1>0, <3>1 DEF TrailTyped
    <3> QED
        BY <1>2, <3>1, <3>2 DEF LinesOf
  <2>2. \A l \in DOMAIN trail : trail[l].at \in Nat
      BY <1>0, LineShape
  <2>3. \A l \in DOMAIN trail : trail[l].at + Window < count.on \/ count.short \/ l \in count.uses
      BY <1>8, <1>15, <2>1, <2>2
  <2>4. \A l \in count.uses : l \in DOMAIN trail /\ trail[l].at + Window >= minute
      BY <1>7, <1>8, <1>9, <1>15, <2>2
  <2> QED
      BY <2>3, <2>4 DEF Fair
<1>17. ViewHolds(v)'
    BY <1>0, <1>12, <1>13, <1>14, <1>16 DEF ViewHolds, Trail, Fair, Bucket
<1>18. CacheHolds'
    BY <1>0 DEF CacheHolds, Trail, Fair, Bucket
<1> QED
    BY <1>0, <1>6, <1>12, <1>17, <1>18, OneView

LEMMA SharesKeeps == ASSUME DisclosuresInv, NEW v \in Viewers, Shares(v) PROVE DisclosuresInv'
<1>0. /\ TrailTyped /\ CacheHolds /\ viewing \in [Viewers -> ViewType] /\ ViewHolds(v)
      /\ viewing[v].at = "counted" /\ UNCHANGED Trail
    BY DEF DisclosuresInv, Shares
<1>1. PICK old : old = IF Cardinality(DOMAIN pageCache) > CacheLimit THEN <<>> ELSE pageCache
    OBVIOUS
<1>2. PICK key \in LogKey, count \in CountOf, since \in Asked :
          key = viewing[v].key /\ count = viewing[v].count /\ since = viewing[v].since
    BY <1>0, ViewShape
<1>3. PICK task : task = [at |-> "shown", since |-> since, count |-> count]
    OBVIOUS
<1>4. /\ pageCache' = [k \in DOMAIN old \cup {key} |-> IF k = key THEN count ELSE old[k]]
      /\ viewing' = [viewing EXCEPT ![v] = task]
    BY <1>1, <1>2, <1>3 DEF Shares, Views
<1>5. task \in ViewType /\ task.at = "shown" /\ task.since = since /\ task.count = count
    BY <1>3 DEF ViewType
<1>6. viewing'[v] = task
    BY <1>0, <1>4
<1>7. /\ since.minute = Bucket(key) /\ since.change = key.changed
      /\ since.minute <= tick /\ since.change <= tick
      /\ Fair(count, since.minute, since.change)
    BY <1>0, <1>2 DEF ViewHolds
<1>8. ViewHolds(v)'
    BY <1>0, <1>5, <1>6, <1>7 DEF ViewHolds, Trail, Fair
<1>9. \A k \in DOMAIN old : k \in DOMAIN pageCache /\ old[k] = pageCache[k]
    BY <1>1
<1>10. CacheHolds'
  <2> SUFFICES ASSUME NEW k \in DOMAIN pageCache'
               PROVE  /\ k \in LogKey /\ pageCache'[k] \in CountOf
                      /\ Bucket(k) <= tick /\ k.changed <= tick
                      /\ Fair(pageCache'[k], Bucket(k), k.changed)
      BY <1>0 DEF CacheHolds, Trail, Fair, Bucket
  <2>1. CASE k = key
      BY <1>2, <1>4, <1>7, <2>1
  <2>2. CASE k # key
    <3>1. k \in DOMAIN pageCache /\ pageCache'[k] = pageCache[k]
        BY <1>4, <1>9, <2>2
    <3> QED
        BY <1>0, <3>1 DEF CacheHolds
  <2> QED
      BY <2>1, <2>2
<1> QED
    BY <1>0, <1>4, <1>5, <1>8, <1>10, OneView

LEMMA NextDisclosures == DisclosuresInv /\ [DclNext]_dclVars => DisclosuresInv'
<1> SUFFICES ASSUME DisclosuresInv, [DclNext]_dclVars PROVE DisclosuresInv'
    OBVIOUS
<1>1. CASE UNCHANGED dclVars
    BY <1>1 DEF dclVars, DisclosuresInv, TrailTyped, CacheHolds, ViewHolds, Fair, Bucket
<1>2. ASSUME NEW v \in Viewers, Request(v) PROVE DisclosuresInv'
    BY <1>2, AsksKeeps, ListsFilesKeeps, CountsKeeps, SharesKeeps DEF Request
<1> QED
    BY <1>1, <1>2, LogKeeps DEF DclNext
-----------------------------------------------------------------------------
(* Outcomes *)

Telltale == [at : {"outcome", "answered", "dead", "rate", "fit"}, what : Told]
OnPaper(paper, lines, line) == line \in lines \/ Swallowed(paper, line)

OutTyped ==
    /\ collecting \in BOOLEAN /\ tornLines \in Nat
    /\ telling \in [Tellers -> [at : {"idle"}] \cup Telltale]
    /\ IsFiniteSet(cutOff) /\ IsFiniteSet(swallowed)
    /\ \A m \in metrics : m.of \in Tellers

\* The outcome is written before anything is counted, the rate before the fit,
\* and only of what is worth it.
InStep(c) ==
    /\ telling[c].at \in {"rate", "fit", "answered"} => OnPaper("outcomes", outcomes, c)
    /\ telling[c].at = "fit" => OnPaper("metrics", metrics, Rate(c))
    /\ telling[c].at \in {"rate", "fit"} => collecting /\ telling[c].what # "rejected"

Counted ==
    \A m \in metrics : telling[m.of].at # "idle" /\ collecting /\ telling[m.of].what # "rejected"

OutcomesInv ==
    /\ OutTyped /\ Counted /\ CountsAreBacked /\ TornLinesCostOne
    /\ \A c \in Tellers : InStep(c)

LEMMA OutcomesKeep == OutcomesInv => OutcomesHold
BY DEF OutcomesInv, OutcomesHold, InStep, Counted, AnswersAreOnFile, CountsAreApplications,
       OnPaper

LEMMA TellShape ==
    ASSUME OutTyped, NEW c \in Tellers, telling[c].at # "idle" PROVE telling[c] \in Telltale
BY DEF OutTyped

LEMMA InitOutcomes == OutInit => OutcomesInv
<1> SUFFICES ASSUME OutInit PROVE OutcomesInv
    OBVIOUS
<1>1. /\ collecting \in BOOLEAN /\ \A c \in Tellers : telling[c].at = "idle"
      /\ metrics = {} /\ cutOff = {} /\ swallowed = {} /\ tornLines = 0
    BY DEF OutInit
<1>2. OutTyped
    BY <1>1, FS_EmptySet DEF OutInit, OutTyped
<1>3. TornLinesCostOne
    BY <1>1, FS_EmptySet DEF TornLinesCostOne
<1> QED
    BY <1>1, <1>2, <1>3 DEF OutcomesInv, Counted, CountsAreBacked, InStep

\* A line without its end takes one line with it.
LEMMA OneForOne ==
    ASSUME OutTyped, TornLinesCostOne, NEW paper, NEW noted,
           \/ UNCHANGED <<cutOff, swallowed>>
           \/ /\ paper \in cutOff /\ cutOff' = cutOff \ {paper}
              /\ swallowed' = swallowed \cup {noted},
           tornLines' = tornLines
    PROVE  IsFiniteSet(cutOff') /\ IsFiniteSet(swallowed') /\ TornLinesCostOne'
<1>1. CASE UNCHANGED <<cutOff, swallowed>>
    BY <1>1 DEF OutTyped, TornLinesCostOne
<1>2. CASE /\ paper \in cutOff /\ cutOff' = cutOff \ {paper} /\ swallowed' = swallowed \cup {noted}
  <2>1. IsFiniteSet(cutOff') /\ Cardinality(cutOff') = Cardinality(cutOff) - 1
      BY <1>2, FS_RemoveElement DEF OutTyped
  <2>2. /\ IsFiniteSet(swallowed') /\ Cardinality(swallowed') <= Cardinality(swallowed) + 1
        /\ Cardinality(swallowed') \in Nat
      BY <1>2, OneMore DEF OutTyped
  <2>3. Cardinality(cutOff) \in Nat /\ Cardinality(swallowed) \in Nat /\ tornLines \in Nat
      BY FS_CardinalityType DEF OutTyped
  <2>4. Cardinality(swallowed') + Cardinality(cutOff') <= tornLines'
      BY <2>1, <2>2, <2>3 DEF TornLinesCostOne
  <2> QED
      BY <2>1, <2>2, <2>4 DEF TornLinesCostOne
<1> QED
    BY <1>1, <1>2

LEMMA CallsKeeps == ASSUME OutcomesInv, NEW c \in Tellers, Calls(c) PROVE OutcomesInv'
<1>0. OutTyped /\ Counted /\ CountsAreBacked /\ TornLinesCostOne /\ \A d \in Tellers : InStep(d)
    BY DEF OutcomesInv
<1>1. PICK what \in Told : Tells(c, [at |-> "outcome", what |-> what])
    BY DEF Calls
<1>2. PICK task : task = [at |-> "outcome", what |-> what]
    OBVIOUS
<1>3. task \in Telltale /\ task.at = "outcome"
    BY <1>2 DEF Telltale
<1>4. /\ telling[c].at = "idle" /\ telling' = [telling EXCEPT ![c] = task]
      /\ collecting' = collecting /\ outcomes' = outcomes /\ metrics' = metrics
      /\ cutOff' = cutOff /\ swallowed' = swallowed /\ tornLines' = tornLines
    BY <1>1, <1>2 DEF Calls, Tells
<1>5. telling'[c] = task /\ \A d \in Tellers : d # c => telling'[d] = telling[d]
    BY <1>0, <1>4 DEF OutTyped
<1>6. OutTyped'
  <2>1. telling' \in [Tellers -> [at : {"idle"}] \cup Telltale]
      BY <1>0, <1>3, <1>4 DEF OutTyped
  <2> QED
      BY <1>0, <1>4, <2>1 DEF OutTyped
<1>7. Counted'
    BY <1>0, <1>4, <1>5 DEF Counted, OutTyped
<1>8. CountsAreBacked' /\ TornLinesCostOne'
    BY <1>0, <1>4 DEF CountsAreBacked, TornLinesCostOne, Swallowed
<1>9. \A d \in Tellers : InStep(d)'
    BY <1>0, <1>3, <1>4, <1>5 DEF InStep, OnPaper, Swallowed
<1> QED
    BY <1>6, <1>7, <1>8, <1>9 DEF OutcomesInv

LEMMA RecordsOutcomeKeeps ==
    ASSUME OutcomesInv, NEW c \in Tellers, RecordsOutcome(c) PROVE OutcomesInv'
<1>0. OutTyped /\ Counted /\ CountsAreBacked /\ TornLinesCostOne /\ \A d \in Tellers : InStep(d)
    BY DEF OutcomesInv
<1>1. PICK q \in Telltale : q = telling[c]
    BY <1>0, TellShape DEF RecordsOutcome
<1>2. PICK next : next = IF collecting /\ q.what # "rejected" THEN "rate" ELSE "answered"
    OBVIOUS
<1>3. PICK r : r = [q EXCEPT !.at = next]
    OBVIOUS
<1>4. r \in Telltale /\ r.at = next /\ r.what = q.what /\ next \in {"rate", "answered"}
    BY <1>1, <1>2, <1>3 DEF Telltale
<1>5. /\ telling[c].at = "outcome" /\ telling' = [telling EXCEPT ![c] = r]
      /\ Appends("outcomes", outcomes, c)
      /\ collecting' = collecting /\ metrics' = metrics /\ tornLines' = tornLines
    BY <1>1, <1>2, <1>3 DEF RecordsOutcome, Tells
<1>6. telling'[c] = r /\ \A d \in Tellers : d # c => telling'[d] = telling[d]
    BY <1>0, <1>5 DEF OutTyped
<1>7. /\ outcomes \subseteq outcomes' /\ swallowed \subseteq swallowed'
      /\ OnPaper("outcomes", outcomes, c)'
    BY <1>5 DEF Appends, OnPaper, Swallowed
<1>8. IsFiniteSet(cutOff') /\ IsFiniteSet(swallowed') /\ TornLinesCostOne'
    BY <1>0, <1>5, OneForOne DEF Appends
<1>9. OutTyped'
  <2>1. telling' \in [Tellers -> [at : {"idle"}] \cup Telltale]
      BY <1>0, <1>4, <1>5 DEF OutTyped
  <2> QED
      BY <1>0, <1>5, <1>8, <2>1 DEF OutTyped
<1>10. Counted'
    BY <1>0, <1>1, <1>4, <1>5, <1>6 DEF Counted, OutTyped
<1>11. CountsAreBacked'
    BY <1>0, <1>5, <1>7 DEF CountsAreBacked, Swallowed
<1>12. \A d \in Tellers : InStep(d)'
  <2>1. InStep(c)'
      BY <1>2, <1>4, <1>5, <1>6, <1>7 DEF InStep
  <2>2. ASSUME NEW d \in Tellers, d # c PROVE InStep(d)'
      BY <1>0, <1>5, <1>6, <1>7, <2>2 DEF InStep, OnPaper, Swallowed
  <2> QED
      BY <2>1, <2>2
<1> QED
    BY <1>8, <1>9, <1>10, <1>11, <1>12 DEF OutcomesInv

LEMMA RecordsMetricKeeps ==
    ASSUME OutcomesInv, NEW c \in Tellers, RecordsMetric(c) PROVE OutcomesInv'
<1>0. OutTyped /\ Counted /\ CountsAreBacked /\ TornLinesCostOne /\ \A d \in Tellers : InStep(d)
    BY DEF OutcomesInv
<1>1. telling[c].at \in {"rate", "fit"}
    BY DEF RecordsMetric, Measure
<1>2. PICK q \in Telltale : q = telling[c]
    BY <1>0, <1>1, TellShape
<1>3. PICK next : next = IF q.at = "rate" /\ q.what = "good fit" THEN "fit" ELSE "answered"
    OBVIOUS
<1>4. PICK r : r = [q EXCEPT !.at = next]
    OBVIOUS
<1>5. PICK m : m = [of |-> c, what |-> q.at]
    OBVIOUS
<1>6. /\ r \in Telltale /\ r.at = next /\ r.what = q.what /\ next \in {"fit", "answered"}
      /\ m.of = c /\ m.what = q.at
    BY <1>2, <1>3, <1>4, <1>5 DEF Telltale
<1>7. /\ telling' = [telling EXCEPT ![c] = r] /\ Appends("metrics", metrics, m)
      /\ collecting' = collecting /\ outcomes' = outcomes /\ tornLines' = tornLines
    BY <1>2, <1>3, <1>4, <1>5 DEF RecordsMetric, Tells
<1>8. telling'[c] = r /\ \A d \in Tellers : d # c => telling'[d] = telling[d]
    BY <1>0, <1>7 DEF OutTyped
<1>9. /\ metrics \subseteq metrics' /\ metrics' \subseteq metrics \cup {m}
      /\ swallowed \subseteq swallowed' /\ OnPaper("metrics", metrics, m)'
    BY <1>7 DEF Appends, OnPaper, Swallowed
<1>10. IsFiniteSet(cutOff') /\ IsFiniteSet(swallowed') /\ TornLinesCostOne'
    BY <1>0, <1>7, OneForOne DEF Appends
<1>11. OutTyped'
  <2>1. telling' \in [Tellers -> [at : {"idle"}] \cup Telltale]
      BY <1>0, <1>6, <1>7 DEF OutTyped
  <2> QED
      BY <1>0, <1>6, <1>7, <1>9, <1>10, <2>1 DEF OutTyped
<1>12. InStep(c)
    BY <1>0
<1>13. Counted'
  <2>1. \A n \in metrics : n.of \in Tellers
      BY <1>0 DEF OutTyped
  <2> QED
      BY <1>0, <1>1, <1>2, <1>6, <1>7, <1>8, <1>9, <1>12, <2>1 DEF Counted, InStep
<1>14. CountsAreBacked'
  <2> SUFFICES ASSUME NEW d \in Tellers
               PROVE  /\ Rate(d) \in metrics' => d \in outcomes \/ <<"outcomes", d>> \in swallowed'
                      /\ Fit(d) \in metrics' => Rate(d) \in metrics' \/ <<"metrics", Rate(d)>> \in swallowed'
      BY <1>7 DEF CountsAreBacked, Swallowed, Rate, Fit
  <2>1. /\ Rate(d) \in metrics => d \in outcomes \/ <<"outcomes", d>> \in swallowed
        /\ Fit(d) \in metrics => Rate(d) \in metrics \/ <<"metrics", Rate(d)>> \in swallowed
      BY <1>0 DEF CountsAreBacked, Swallowed
  <2>2. Rate(d).of = d /\ Rate(d).what = "rate" /\ Fit(d).of = d /\ Fit(d).what = "fit"
      BY DEF Rate, Fit
  <2>3. Rate(d) = m => d \in outcomes \/ <<"outcomes", d>> \in swallowed
      BY <1>1, <1>6, <1>12, <2>2 DEF InStep, OnPaper, Swallowed
  <2>4. Fit(d) = m => Rate(d) \in metrics \/ <<"metrics", Rate(d)>> \in swallowed
      BY <1>1, <1>2, <1>6, <1>12, <2>2 DEF InStep, OnPaper, Swallowed
  <2> QED
      BY <1>9, <2>1, <2>3, <2>4
<1>15. \A d \in Tellers : InStep(d)'
  <2>1. InStep(c)'
    <3>1. next = "fit" => m = Rate(c) /\ q.what # "rejected" /\ q.at = "rate"
        BY <1>3, <1>5 DEF Rate
    <3>2. collecting /\ OnPaper("outcomes", outcomes, c)'
        BY <1>1, <1>7, <1>9, <1>12 DEF InStep, OnPaper, Swallowed
    <3> QED
        BY <1>6, <1>7, <1>8, <1>9, <3>1, <3>2 DEF InStep, OnPaper, Swallowed, Rate
  <2>2. ASSUME NEW d \in Tellers, d # c PROVE InStep(d)'
      BY <1>0, <1>7, <1>8, <1>9, <2>2 DEF InStep, OnPaper, Swallowed, Rate
  <2> QED
      BY <2>1, <2>2
<1> QED
    BY <1>10, <1>11, <1>13, <1>14, <1>15 DEF OutcomesInv

\* A call that leaves off has its outcome on file, or is answered nothing.
LEMMA LeavesOff ==
    ASSUME OutcomesInv, NEW c \in Tellers, NEW at \in {"answered", "dead"},
           Tells(c, [telling[c] EXCEPT !.at = at]),
           telling[c].at \in {"outcome", "rate", "fit"},
           at = "answered" => telling[c].at # "outcome",
           UNCHANGED <<collecting, outcomes, metrics, swallowed>>,
           IsFiniteSet(cutOff'), tornLines' \in Nat, TornLinesCostOne'
    PROVE  OutcomesInv'
<1>0. OutTyped /\ Counted /\ CountsAreBacked /\ \A d \in Tellers : InStep(d)
    BY DEF OutcomesInv
<1>1. PICK q \in Telltale : q = telling[c]
    BY <1>0, TellShape
<1>2. PICK r : r = [q EXCEPT !.at = at]
    OBVIOUS
<1>3. r \in Telltale /\ r.at = at /\ r.what = q.what
    BY <1>1, <1>2 DEF Telltale
<1>4. telling' = [telling EXCEPT ![c] = r]
    BY <1>1, <1>2 DEF Tells
<1>5. telling'[c] = r /\ \A d \in Tellers : d # c => telling'[d] = telling[d]
    BY <1>0, <1>4 DEF OutTyped
<1>6. OutTyped'
  <2>1. telling' \in [Tellers -> [at : {"idle"}] \cup Telltale]
      BY <1>0, <1>3, <1>4 DEF OutTyped
  <2> QED
      BY <1>0, <2>1 DEF OutTyped
<1>7. Counted'
    BY <1>0, <1>1, <1>3, <1>5 DEF Counted, OutTyped
<1>8. CountsAreBacked'
    BY <1>0 DEF CountsAreBacked, Swallowed
<1>9. \A d \in Tellers : InStep(d)'
    BY <1>0, <1>3, <1>5 DEF InStep, OnPaper, Swallowed
<1> QED
    BY <1>6, <1>7, <1>8, <1>9 DEF OutcomesInv

LEMMA CallDiesKeeps == ASSUME OutcomesInv, NEW c \in Tellers, CallDies(c) PROVE OutcomesInv'
<1>0. OutTyped /\ TornLinesCostOne
    BY DEF OutcomesInv
<1>1. IsFiniteSet(cutOff') /\ tornLines' \in Nat /\ TornLinesCostOne'
  <2>1. CASE UNCHANGED <<cutOff, tornLines>>
      BY <1>0, <2>1 DEF OutTyped, TornLinesCostOne, CallDies
  <2>2. CASE /\ tornLines' = tornLines + 1 /\ cutOff' = cutOff \cup {FileOf(telling[c].at)}
    <3>1. /\ IsFiniteSet(cutOff') /\ Cardinality(cutOff') <= Cardinality(cutOff) + 1
          /\ Cardinality(cutOff') \in Nat
        BY <1>0, <2>2, OneMore DEF OutTyped
    <3>2. Cardinality(cutOff) \in Nat /\ Cardinality(swallowed) \in Nat /\ tornLines \in Nat
        BY <1>0, FS_CardinalityType DEF OutTyped
    <3>3. swallowed' = swallowed
        BY DEF CallDies
    <3>4. Cardinality(swallowed') + Cardinality(cutOff') <= tornLines'
        BY <1>0, <2>2, <3>1, <3>2, <3>3 DEF TornLinesCostOne
    <3> QED
        BY <2>2, <3>1, <3>2, <3>4 DEF TornLinesCostOne
  <2> QED
      BY <2>1, <2>2 DEF CallDies
<1> QED
    BY <1>1, LeavesOff DEF CallDies, Measure

LEMMA OthersRecordKeeps == ASSUME OutcomesInv, OthersRecord PROVE OutcomesInv'
<1>0. OutTyped /\ Counted /\ CountsAreBacked /\ TornLinesCostOne /\ \A d \in Tellers : InStep(d)
    BY DEF OutcomesInv
<1>1. /\ "metrics" \in cutOff /\ cutOff' = cutOff \ {"metrics"}
      /\ collecting' = collecting /\ telling' = telling /\ outcomes' = outcomes
      /\ metrics' = metrics /\ swallowed' = swallowed /\ tornLines' = tornLines
    BY DEF OthersRecord
<1>2. IsFiniteSet(cutOff') /\ Cardinality(cutOff') = Cardinality(cutOff) - 1
    BY <1>0, <1>1, FS_RemoveElement DEF OutTyped
<1>3. TornLinesCostOne'
  <2>1. Cardinality(cutOff) \in Nat /\ Cardinality(swallowed) \in Nat /\ tornLines \in Nat
      BY <1>0, FS_CardinalityType DEF OutTyped
  <2> QED
      BY <1>0, <1>1, <1>2, <2>1 DEF TornLinesCostOne
<1> QED
    BY <1>0, <1>1, <1>2, <1>3 DEF OutcomesInv, OutTyped, Counted, CountsAreBacked, InStep, OnPaper,
                                  Swallowed

LEMMA NextOutcomes == OutcomesInv /\ [OutNext]_outVars => OutcomesInv'
<1> SUFFICES ASSUME OutcomesInv, [OutNext]_outVars PROVE OutcomesInv'
    OBVIOUS
<1>1. CASE UNCHANGED outVars
    BY <1>1 DEF outVars, OutcomesInv, OutTyped, Counted, CountsAreBacked, TornLinesCostOne, InStep,
                OnPaper, Swallowed
<1>2. ASSUME NEW c \in Tellers, MetricFails(c) PROVE OutcomesInv'
    BY <1>2, LeavesOff DEF MetricFails, Measure, OutcomesInv, OutTyped, TornLinesCostOne
<1>3. ASSUME NEW c \in Tellers, Telling(c) PROVE OutcomesInv'
    BY <1>2, <1>3, CallsKeeps, RecordsOutcomeKeeps, RecordsMetricKeeps, CallDiesKeeps DEF Telling
<1> QED
    BY <1>1, <1>3, OthersRecordKeeps DEF OutNext
-----------------------------------------------------------------------------
(* Samples *)

Adding(r) == seeding[r].at = "adding"
AtWalk(r) == walking[r].at \in {"firm", "offer", "save"}

\* A sample is of the company it names, which is there or was deleted under a
\* request, and there is one of each.
SampleRows ==
    /\ \A o \in offers : o.firm.of = o.of /\ (o.firm \in firms \/ o.of \in underway)
    /\ \A k \in Sample : AtMostOne(OffersOf(k)) /\ AtMostOne(FirmsOf(firms, k))

\* The one request that adds samples knows of every company there is, and of
\* every sample it has not to add.
Knows(r) ==
    /\ \A k \in Sample : FirmsOf(firms, k) \subseteq seeding[r].known
    /\ \A f \in seeding[r].known : f \in firms \/ f.of \in underway
    /\ \A k \in Sample : IF k \in seeding[r].todo THEN OffersOf(k) = {}
                         ELSE OffersOf(k) # {} \/ k \in deleted

SeedsHold ==
    /\ \A q, r \in Bursts : Adding(q) /\ Adding(r) => q = r
    /\ \A r \in Bursts : Adding(r) => Knows(r)
    /\ SamplesComplete

\* What a walkthrough has in hand is the pilot's company, there or deleted
\* under it,
PilotFirm(f) == f.of = Pilot /\ (f \in firms \/ Pilot \in underway)

Carried(r) ==
    /\ walking[r].at = "firm" => \A f \in walking[r].known : PilotFirm(f)
    /\ walking[r].at \in {"offer", "save"} => PilotFirm(walking[r].firm)

\* and as long as no two overlap it knows all there is of the pilot.
WalkAlone ==
    /\ \A q, r \in Walks : AtWalk(q) /\ AtWalk(r) => q = r
    /\ AtMostOne(OffersOf(Pilot)) /\ AtMostOne(FirmsOf(firms, Pilot))
    /\ \A r \in Walks :
          /\ walking[r].at = "firm" => FirmsOf(firms, Pilot) \subseteq walking[r].known
          /\ walking[r].at = "save" => OffersOf(Pilot) = {}

WalksHold == (\A r \in Walks : Carried(r)) /\ (~overlapped => WalkAlone)

SamplesInv == SmpTypeOK /\ SampleRows /\ SeedsHold /\ WalksHold

LEMMA SamplesKeep == SamplesInv => SamplesHold
BY DEF SamplesInv, SamplesHold, SamplesOnce, SamplesHaveFirms, SampleRows, SeedsHold, WalksHold,
       WalkAlone

LEMMA SampleShape ==
    /\ Unasked.at = "idle" /\ Answered.at = "done" /\ Pilot \notin Sample
    /\ \A f \in FirmType : f.of \in Sample \cup {Pilot}
BY DEF Unasked, Answered, Pilot, Sample, FirmType

\* What a request for the samples is at.
LEMMA SeedShape ==
    ASSUME SmpTypeOK, NEW r \in Bursts
    PROVE  /\ seeding[r].at \in {"idle", "done", "lost", "adding"}
           /\ seeding[r] = Answered <=> seeding[r].at = "done"
           /\ seeding[r] = Unasked <=> seeding[r].at = "idle"
           /\ Adding(r) => /\ seeding[r] \in [at : {"adding"}, known : SUBSET FirmType, todo : SUBSET Sample]
                           /\ seeding[r].known \subseteq FirmType /\ seeding[r].todo \subseteq Sample
<1>1. /\ seeding[r] \in {Unasked, Answered} \cup [at : {"lost"}]
                        \cup [at : {"adding"}, known : SUBSET FirmType, todo : SUBSET Sample]
    BY DEF SmpTypeOK
<1>2. CASE seeding[r] \in {Unasked, Answered}
    BY <1>2, SampleShape DEF Adding
<1>3. CASE seeding[r] \in [at : {"lost"}]
    BY <1>3, SampleShape DEF Adding
<1>4. CASE seeding[r] \in [at : {"adding"}, known : SUBSET FirmType, todo : SUBSET Sample]
    BY <1>4, SampleShape DEF Adding
<1> QED
    BY <1>1, <1>2, <1>3, <1>4

\* What a request for the walkthrough is at.
LEMMA WalkShape ==
    ASSUME SmpTypeOK, NEW r \in Walks
    PROVE  /\ walking[r].at \in {"idle", "done", "firm", "offer", "save"}
           /\ walking[r] = Answered <=> walking[r].at = "done"
           /\ walking[r] = Unasked <=> walking[r].at = "idle"
           /\ walking[r].at = "firm" => walking[r].known \subseteq FirmType
           /\ walking[r].at \in {"offer", "save"} => walking[r].firm \in FirmType
<1>1. walking[r] \in {Unasked, Answered} \cup [at : {"firm"}, known : SUBSET FirmType]
                        \cup [at : {"offer", "save"}, firm : FirmType]
    BY DEF SmpTypeOK
<1>2. CASE walking[r] \in {Unasked, Answered}
    BY <1>2, SampleShape
<1>3. CASE walking[r] \in [at : {"firm"}, known : SUBSET FirmType]
    BY <1>3, SampleShape
<1>4. CASE walking[r] \in [at : {"offer", "save"}, firm : FirmType]
    BY <1>4, SampleShape
<1> QED
    BY <1>1, <1>2, <1>3, <1>4

LEMMA InitSamples == SmpInit => SamplesInv
<1> SUFFICES ASSUME SmpInit PROVE SamplesInv
    OBVIOUS
<1>1. /\ firms = {} /\ offers = {} /\ deleted = {} /\ underway = {} /\ overlapped = FALSE
      /\ \A r \in Bursts : seeding[r] = Unasked
      /\ \A r \in Walks : walking[r] = Unasked
    BY DEF SmpInit
<1>2. SmpTypeOK
    BY <1>1 DEF SmpInit, SmpTypeOK
<1>3. SampleRows
    BY <1>1 DEF SampleRows, AtMostOne, OffersOf, FirmsOf
<1>4. SeedsHold
    BY <1>1, SampleShape DEF SeedsHold, Adding, SamplesComplete
<1>5. WalksHold
    BY <1>1, SampleShape DEF WalksHold, WalkAlone, Carried, AtWalk, AtMostOne, OffersOf, FirmsOf
<1> QED
    BY <1>2, <1>3, <1>4, <1>5 DEF SamplesInv

\* What the requests for the samples do does not touch a walkthrough.
LEMMA WalksStay ==
    ASSUME SamplesInv, UNCHANGED <<walking, overlapped, underway>>,
           FirmsOf(firms', Pilot) = FirmsOf(firms, Pilot), OffersOf(Pilot)' = OffersOf(Pilot)
    PROVE  WalksHold'
<1>1. WalksHold
    BY DEF SamplesInv
<1>2. \A f : PilotFirm(f) => PilotFirm(f)'
    BY DEF PilotFirm, FirmsOf
<1>3. \A r \in Walks : Carried(r)'
    BY <1>1, <1>2 DEF WalksHold, Carried
<1>4. ~overlapped => WalkAlone'
    BY <1>1 DEF WalksHold, WalkAlone, AtWalk
<1> QED
    BY <1>3, <1>4 DEF WalksHold

LEMMA BeginsKeeps == ASSUME SamplesInv, NEW r \in Bursts, Begins(r) PROVE SamplesInv'
<1>0. SmpTypeOK /\ SampleRows /\ SeedsHold
    BY DEF SamplesInv
<1>1. PICK s : s = [at |-> "adding", known |-> firms, todo |-> {k \in Sample : OffersOf(k) = {}}]
    OBVIOUS
<1>2. /\ s \in [at : {"adding"}, known : SUBSET FirmType, todo : SUBSET Sample]
      /\ s.at = "adding" /\ s.known = firms /\ s.todo = {k \in Sample : OffersOf(k) = {}}
    BY <1>0, <1>1 DEF SmpTypeOK
<1>3. /\ seeding[r] = Unasked /\ \A o \in Bursts : ~Adding(o)
      /\ seeding' = [seeding EXCEPT ![r] = s]
      /\ firms' = firms /\ offers' = offers /\ walking' = walking /\ deleted' = deleted
      /\ underway' = underway /\ overlapped' = overlapped
    BY <1>1 DEF Begins, Seeds, History, Adding
<1>4. seeding'[r] = s /\ \A q \in Bursts : q # r => seeding'[q] = seeding[q]
    BY <1>0, <1>3 DEF SmpTypeOK
<1>5. SmpTypeOK'
  <2>1. seeding' \in [Bursts -> {Unasked, Answered} \cup [at : {"lost"}] \cup
                      [at : {"adding"}, known : SUBSET FirmType, todo : SUBSET Sample]]
      BY <1>0, <1>2, <1>3 DEF SmpTypeOK
  <2> QED
      BY <1>0, <1>3, <2>1 DEF SmpTypeOK
<1>6. SampleRows'
    BY <1>0, <1>3 DEF SampleRows, OffersOf
<1>7. SeedsHold'
  <2>1. Knows(r)'
      BY <1>2, <1>3, <1>4 DEF Knows, OffersOf, FirmsOf
  <2>2. \A q \in Bursts : Adding(q)' => q = r
      BY <1>3, <1>4 DEF Adding
  <2>3. \A q \in Bursts : seeding'[q] = Answered => seeding[q] = Answered
      BY <1>2, <1>4, SampleShape
  <2>4. SamplesComplete'
      BY <1>0, <1>3, <2>3 DEF SeedsHold, SamplesComplete, OffersOf
  <2> QED
      BY <2>1, <2>2, <2>4 DEF SeedsHold
<1>8. WalksHold'
    BY <1>3, WalksStay DEF OffersOf
<1> QED
    BY <1>5, <1>6, <1>7, <1>8 DEF SamplesInv

\* The next sample is one of those to add.
LEMMA NextSample ==
    ASSUME NEW S \in SUBSET Sample, S # {} PROVE Min(S) \in S
<1>1. S \in SUBSET Nat
    BY SamplesAssumption DEF Sample
<1>2. PICK n \in S : \A m \in S : n <= m
    BY <1>1, LeastOfNaturals
<1> QED
    BY <1>2 DEF Min

LEMMA AddsFirmKeeps == ASSUME SamplesInv, NEW r \in Bursts, AddsFirm(r) PROVE SamplesInv'
<1>0. SmpTypeOK /\ SampleRows /\ SeedsHold
    BY DEF SamplesInv
<1>1. Adding(r) /\ seeding[r].todo # {}
    BY DEF AddsFirm, Adding
<1>2. PICK q \in [at : {"adding"}, known : SUBSET FirmType, todo : SUBSET Sample] : q = seeding[r]
    BY <1>0, <1>1, SeedShape
<1>3. PICK kind \in q.todo : kind = Min(q.todo)
    BY <1>1, <1>2, NextSample
<1>4. PICK firm : firm = [of |-> kind, by |-> r]
    OBVIOUS
<1>5. PICK s : s = [q EXCEPT !.known = q.known \cup {firm}]
    OBVIOUS
<1>6. /\ FirmsOf(q.known, kind) = {} /\ firms' = firms \cup {firm}
      /\ seeding' = [seeding EXCEPT ![r] = s]
      /\ offers' = offers /\ walking' = walking /\ deleted' = deleted
      /\ underway' = underway /\ overlapped' = overlapped
    BY <1>2, <1>3, <1>4, <1>5 DEF AddsFirm, Seeds, History
<1>7. kind \in Sample /\ firm \in FirmType /\ firm.of = kind
    BY <1>2, <1>3, <1>4 DEF FirmType
<1>8. /\ s \in [at : {"adding"}, known : SUBSET FirmType, todo : SUBSET Sample]
      /\ s.at = "adding" /\ s.known = q.known \cup {firm} /\ s.todo = q.todo
    BY <1>2, <1>5, <1>7
<1>9. seeding'[r] = s /\ \A p \in Bursts : p # r => seeding'[p] = seeding[p]
    BY <1>0, <1>6 DEF SmpTypeOK
<1>10. /\ \A k \in Sample \cup {Pilot} : OffersOf(k)' = OffersOf(k)
       /\ \A k \in Sample \cup {Pilot} : k # kind => FirmsOf(firms', k) = FirmsOf(firms, k)
       /\ FirmsOf(firms, kind) = {} /\ FirmsOf(firms', kind) = {firm}
  <2>1. FirmsOf(firms, kind) \subseteq FirmsOf(q.known, kind)
      BY <1>0, <1>1, <1>2, <1>7 DEF SeedsHold, Knows, FirmsOf
  <2> QED
      BY <1>6, <1>7, <2>1 DEF OffersOf, FirmsOf
<1>11. SmpTypeOK'
  <2>1. seeding' \in [Bursts -> {Unasked, Answered} \cup [at : {"lost"}] \cup
                      [at : {"adding"}, known : SUBSET FirmType, todo : SUBSET Sample]]
      BY <1>0, <1>6, <1>8 DEF SmpTypeOK
  <2> QED
      BY <1>0, <1>6, <1>7, <2>1 DEF SmpTypeOK
<1>12. SampleRows'
    BY <1>0, <1>6, <1>10 DEF SampleRows, AtMostOne
<1>13. SeedsHold'
  <2>1. Knows(r)'
    <3>1. Knows(r)
        BY <1>0, <1>1 DEF SeedsHold
    <3> QED
        BY <1>2, <1>6, <1>8, <1>9, <1>10, <3>1 DEF Knows
  <2>2. \A p \in Bursts : Adding(p)' => p = r
      BY <1>0, <1>1, <1>9 DEF SeedsHold, Adding
  <2>3. \A p \in Bursts : seeding'[p] = Answered => seeding[p] = Answered
      BY <1>8, <1>9, SampleShape
  <2>4. SamplesComplete'
      BY <1>0, <1>6, <1>10, <2>3 DEF SeedsHold, SamplesComplete
  <2> QED
      BY <2>1, <2>2, <2>4 DEF SeedsHold
<1>14. WalksHold'
    BY <1>6, <1>7, <1>10, WalksStay, SampleShape
<1> QED
    BY <1>11, <1>12, <1>13, <1>14 DEF SamplesInv

LEMMA AddsOfferKeeps == ASSUME SamplesInv, NEW r \in Bursts, AddsOffer(r) PROVE SamplesInv'
<1>0. SmpTypeOK /\ SampleRows /\ SeedsHold
    BY DEF SamplesInv
<1>1. Adding(r) /\ seeding[r].todo # {}
    BY DEF AddsOffer, Adding
<1>2. PICK q \in [at : {"adding"}, known : SUBSET FirmType, todo : SUBSET Sample] : q = seeding[r]
    BY <1>0, <1>1, SeedShape
<1>3. PICK kind \in q.todo : kind = Min(q.todo)
    BY <1>1, <1>2, NextSample
<1>4. PICK firm \in FirmsOf(q.known, kind) :
          offers' = offers \cup {[of |-> kind, by |-> r, firm |-> firm]}
    BY <1>2, <1>3 DEF AddsOffer
<1>5. PICK o : o = [of |-> kind, by |-> r, firm |-> firm]
    OBVIOUS
<1>6. PICK s : s = [q EXCEPT !.todo = q.todo \ {kind}]
    OBVIOUS
<1>7. /\ offers' = offers \cup {o} /\ seeding' = [seeding EXCEPT ![r] = s]
      /\ firms' = firms /\ walking' = walking /\ deleted' = deleted
      /\ underway' = underway /\ overlapped' = overlapped
    BY <1>2, <1>3, <1>4, <1>5, <1>6 DEF AddsOffer, Seeds, History
<1>8. /\ kind \in Sample /\ firm \in q.known /\ firm \in FirmType /\ firm.of = kind
      /\ o.of = kind /\ o.firm = firm /\ o \in [of : Sample, by : Bursts, firm : FirmType]
    BY <1>2, <1>3, <1>4, <1>5 DEF FirmsOf
<1>9. /\ s \in [at : {"adding"}, known : SUBSET FirmType, todo : SUBSET Sample]
      /\ s.at = "adding" /\ s.known = q.known /\ s.todo = q.todo \ {kind}
    BY <1>2, <1>6
<1>10. seeding'[r] = s /\ \A p \in Bursts : p # r => seeding'[p] = seeding[p]
    BY <1>0, <1>7 DEF SmpTypeOK
<1>11. /\ \A k \in Sample \cup {Pilot} : k # kind => OffersOf(k)' = OffersOf(k)
       /\ OffersOf(kind) = {} /\ OffersOf(kind)' = {o}
  <2>1. OffersOf(kind) = {}
      BY <1>0, <1>1, <1>2, <1>3, <1>8 DEF SeedsHold, Knows
  <2> QED
      BY <1>7, <1>8, <2>1 DEF OffersOf
<1>12. SmpTypeOK'
  <2>1. seeding' \in [Bursts -> {Unasked, Answered} \cup [at : {"lost"}] \cup
                      [at : {"adding"}, known : SUBSET FirmType, todo : SUBSET Sample]]
      BY <1>0, <1>7, <1>9 DEF SmpTypeOK
  <2> QED
      BY <1>0, <1>7, <1>8, <2>1 DEF SmpTypeOK
<1>13. Knows(r)
    BY <1>0, <1>1 DEF SeedsHold
<1>14. SampleRows'
  <2>1. firm \in firms \/ kind \in underway
      BY <1>2, <1>8, <1>13 DEF Knows
  <2>2. \A k \in Sample : AtMostOne(OffersOf(k)') /\ AtMostOne(FirmsOf(firms', k))
      BY <1>0, <1>7, <1>11 DEF SampleRows, AtMostOne
  <2> QED
      BY <1>0, <1>7, <1>8, <2>1, <2>2 DEF SampleRows
<1>15. SeedsHold'
  <2>1. Knows(r)'
      BY <1>2, <1>7, <1>9, <1>10, <1>11, <1>13 DEF Knows
  <2>2. \A p \in Bursts : Adding(p)' => p = r
      BY <1>0, <1>1, <1>10 DEF SeedsHold, Adding
  <2>3. \A p \in Bursts : seeding'[p] = Answered => seeding[p] = Answered
      BY <1>9, <1>10, SampleShape
  <2>4. SamplesComplete'
      BY <1>0, <1>7, <1>11, <2>3 DEF SeedsHold, SamplesComplete
  <2> QED
      BY <2>1, <2>2, <2>4 DEF SeedsHold
<1>16. WalksHold'
    BY <1>7, <1>8, <1>11, WalksStay, SampleShape
<1> QED
    BY <1>12, <1>14, <1>15, <1>16 DEF SamplesInv

LEMMA EndsKeeps == ASSUME SamplesInv, NEW r \in Bursts, Ends(r) PROVE SamplesInv'
<1>0. SmpTypeOK /\ SampleRows /\ SeedsHold
    BY DEF SamplesInv
<1>1. /\ Adding(r) /\ seeding[r].todo = {} /\ seeding' = [seeding EXCEPT ![r] = Answered]
      /\ firms' = firms /\ offers' = offers /\ walking' = walking /\ deleted' = deleted
      /\ underway' = underway /\ overlapped' = overlapped
    BY DEF Ends, Seeds, History, Adding
<1>2. seeding'[r] = Answered /\ \A p \in Bursts : p # r => seeding'[p] = seeding[p]
    BY <1>0, <1>1 DEF SmpTypeOK
<1>3. SmpTypeOK'
  <2>1. seeding' \in [Bursts -> {Unasked, Answered} \cup [at : {"lost"}] \cup
                      [at : {"adding"}, known : SUBSET FirmType, todo : SUBSET Sample]]
      BY <1>0, <1>1 DEF SmpTypeOK
  <2> QED
      BY <1>0, <1>1, <2>1 DEF SmpTypeOK
<1>4. SampleRows'
    BY <1>0, <1>1 DEF SampleRows, OffersOf
<1>5. SeedsHold'
  <2>1. \A p \in Bursts : ~Adding(p)'
      BY <1>0, <1>1, <1>2, SampleShape DEF SeedsHold, Adding
  <2>2. SamplesComplete'
      BY <1>0, <1>1 DEF SeedsHold, Knows, SamplesComplete, OffersOf
  <2> QED
      BY <2>1, <2>2 DEF SeedsHold
<1>6. WalksHold'
    BY <1>1, WalksStay DEF OffersOf
<1> QED
    BY <1>3, <1>4, <1>5, <1>6 DEF SamplesInv

\* What a walkthrough does does not touch the samples.
LEMMA SeedsStay ==
    ASSUME SamplesInv, UNCHANGED <<seeding, deleted, underway>>, firms \subseteq firms',
           \A k \in Sample : FirmsOf(firms', k) = FirmsOf(firms, k) /\ OffersOf(k)' = OffersOf(k)
    PROVE  SeedsHold'
<1>1. SeedsHold
    BY DEF SamplesInv
<1>2. \A r \in Bursts : Knows(r) => Knows(r)'
    BY DEF Knows
<1>3. SamplesComplete'
    BY <1>1 DEF SeedsHold, SamplesComplete
<1> QED
    BY <1>1, <1>2, <1>3 DEF SeedsHold, Adding

LEMMA WalkBeginsKeeps == ASSUME SamplesInv, NEW r \in Walks, WalkBegins(r) PROVE SamplesInv'
<1>0. SmpTypeOK /\ SampleRows /\ SeedsHold /\ WalksHold
    BY DEF SamplesInv
<1>1. PICK s : s = [at |-> "firm", known |-> FirmsOf(firms, Pilot)]
    OBVIOUS
<1>2. /\ s \in [at : {"firm"}, known : SUBSET FirmType] /\ s.at = "firm"
      /\ s.known = FirmsOf(firms, Pilot)
    BY <1>0, <1>1 DEF SmpTypeOK, FirmsOf
<1>3. /\ walking[r] = Unasked /\ walking' = [walking EXCEPT ![r] = s]
      /\ overlapped' = (overlapped \/ \E o \in Walks : walking[o] \notin {Unasked, Answered})
      /\ firms' = firms /\ offers' = offers /\ seeding' = seeding /\ deleted' = deleted
      /\ underway' = underway
    BY <1>1 DEF WalkBegins, History
<1>4. walking'[r] = s /\ \A p \in Walks : p # r => walking'[p] = walking[p]
    BY <1>0, <1>3 DEF SmpTypeOK
<1>5. SmpTypeOK'
  <2>1. walking' \in [Walks -> {Unasked, Answered} \cup [at : {"firm"}, known : SUBSET FirmType]
                        \cup [at : {"offer", "save"}, firm : FirmType]]
      BY <1>0, <1>2, <1>3 DEF SmpTypeOK
  <2>2. overlapped' \in BOOLEAN
      BY <1>3
  <2> QED
      BY <1>0, <1>3, <2>1, <2>2 DEF SmpTypeOK
<1>6. SampleRows'
    BY <1>0, <1>3 DEF SampleRows, OffersOf
<1>7. SeedsHold'
    BY <1>3, SeedsStay DEF OffersOf
<1>8. WalksHold'
  <2>1. \A p \in Walks : Carried(p)'
      BY <1>0, <1>2, <1>3, <1>4 DEF WalksHold, Carried, PilotFirm, FirmsOf
  <2>2. ASSUME ~overlapped' PROVE WalkAlone'
    <3>1. ~overlapped /\ WalkAlone
        BY <1>0, <1>3, <2>2 DEF WalksHold
    <3>2. \A p \in Walks : ~AtWalk(p)
        BY <1>0, <1>3, <2>2, WalkShape, SampleShape DEF AtWalk
    <3> QED
        BY <1>2, <1>3, <1>4, <3>1, <3>2 DEF WalkAlone, AtWalk, OffersOf
  <2> QED
      BY <2>1, <2>2 DEF WalksHold
<1> QED
    BY <1>5, <1>6, <1>7, <1>8 DEF SamplesInv

LEMMA WalkFirmKeeps == ASSUME SamplesInv, NEW r \in Walks, WalkFirm(r) PROVE SamplesInv'
<1>0. SmpTypeOK /\ SampleRows /\ SeedsHold /\ WalksHold
    BY DEF SamplesInv
<1>1. PICK q : q = walking[r].known
    OBVIOUS
<1>2. PICK firm \in (IF q = {} THEN {[of |-> Pilot, by |-> r]} ELSE q) :
          /\ firms' = IF q = {} THEN firms \cup {firm} ELSE firms
          /\ walking' = [walking EXCEPT ![r] = [at |-> "offer", firm |-> firm]]
    BY <1>1 DEF WalkFirm
<1>3. /\ walking[r].at = "firm" /\ offers' = offers /\ seeding' = seeding /\ deleted' = deleted
      /\ underway' = underway /\ overlapped' = overlapped
    BY DEF WalkFirm, History
<1>4. q \subseteq FirmType /\ Carried(r)
    BY <1>0, <1>1, <1>3, WalkShape DEF WalksHold
<1>5. firm \in FirmType /\ firm.of = Pilot /\ (firm \in firms' \/ Pilot \in underway)
  <2>1. CASE q = {}
      BY <1>2, <2>1 DEF FirmType
  <2>2. CASE q # {}
      BY <1>1, <1>2, <1>3, <1>4, <2>2 DEF Carried, PilotFirm
  <2> QED
      BY <2>1, <2>2
<1>6. PICK s : s = [at |-> "offer", firm |-> firm]
    OBVIOUS
<1>7. s \in [at : {"offer", "save"}, firm : FirmType] /\ s.at = "offer" /\ s.firm = firm
    BY <1>5, <1>6
<1>8. /\ walking' = [walking EXCEPT ![r] = s] /\ walking'[r] = s
      /\ \A p \in Walks : p # r => walking'[p] = walking[p]
    BY <1>0, <1>2, <1>6 DEF SmpTypeOK
<1>9. /\ firms \subseteq firms' /\ firms' \subseteq FirmType
      /\ \A k \in Sample : FirmsOf(firms', k) = FirmsOf(firms, k) /\ OffersOf(k)' = OffersOf(k)
      /\ OffersOf(Pilot)' = OffersOf(Pilot)
    BY <1>0, <1>2, <1>3, <1>5, SampleShape DEF SmpTypeOK, FirmsOf, OffersOf
<1>10. SmpTypeOK'
  <2>1. walking' \in [Walks -> {Unasked, Answered} \cup [at : {"firm"}, known : SUBSET FirmType]
                        \cup [at : {"offer", "save"}, firm : FirmType]]
      BY <1>0, <1>7, <1>8 DEF SmpTypeOK
  <2> QED
      BY <1>0, <1>3, <1>9, <2>1 DEF SmpTypeOK
<1>11. SampleRows'
    BY <1>0, <1>3, <1>9 DEF SampleRows
<1>12. SeedsHold'
    BY <1>3, <1>9, SeedsStay
<1>13. WalksHold'
  <2>1. \A f : PilotFirm(f) => PilotFirm(f)'
      BY <1>3, <1>9 DEF PilotFirm
  <2>2. \A p \in Walks : Carried(p)'
    <3>1. Carried(r)'
        BY <1>3, <1>5, <1>7, <1>8 DEF Carried, PilotFirm
    <3>2. \A p \in Walks : p # r => Carried(p)'
        BY <1>0, <1>8, <2>1 DEF WalksHold, Carried
    <3> QED
        BY <3>1, <3>2
  <2>3. ASSUME ~overlapped PROVE WalkAlone'
    <3>1. WalkAlone
        BY <1>0, <2>3 DEF WalksHold
    <3>2. \A p \in Walks : AtWalk(p)' => p = r
        BY <1>3, <1>8, <3>1 DEF WalkAlone, AtWalk
    <3>3. AtMostOne(FirmsOf(firms', Pilot))
      <4>1. CASE q = {}
        <5>1. FirmsOf(firms, Pilot) = {} /\ firms' = firms \cup {firm}
            BY <1>1, <1>2, <1>3, <3>1, <4>1 DEF WalkAlone
        <5> QED
            BY <5>1 DEF FirmsOf, AtMostOne
      <4>2. CASE q # {}
          BY <1>2, <3>1, <4>2 DEF WalkAlone
      <4> QED
          BY <4>1, <4>2
    <3>4. AtMostOne(OffersOf(Pilot)')
        BY <1>9, <3>1 DEF WalkAlone
    <3>5. \A p \in Walks : walking'[p].at \notin {"firm", "save"}
        BY <1>7, <1>8, <3>2 DEF AtWalk
    <3> QED
        BY <3>2, <3>3, <3>4, <3>5 DEF WalkAlone
  <2> QED
      BY <1>3, <2>2, <2>3 DEF WalksHold
<1> QED
    BY <1>10, <1>11, <1>12, <1>13 DEF SamplesInv

LEMMA WalkLooksKeeps == ASSUME SamplesInv, NEW r \in Walks, WalkLooks(r) PROVE SamplesInv'
<1>0. SmpTypeOK /\ SampleRows /\ SeedsHold /\ WalksHold
    BY DEF SamplesInv
<1>1. PICK s : s = IF OffersOf(Pilot) # {} THEN Answered ELSE [at |-> "save", firm |-> walking[r].firm]
    OBVIOUS
<1>2. /\ walking[r].at = "offer" /\ walking' = [walking EXCEPT ![r] = s]
      /\ firms' = firms /\ offers' = offers /\ seeding' = seeding /\ deleted' = deleted
      /\ underway' = underway /\ overlapped' = overlapped
    BY <1>1 DEF WalkLooks, History
<1>3. walking[r].firm \in FirmType /\ PilotFirm(walking[r].firm)
    BY <1>0, <1>2, WalkShape DEF WalksHold, Carried
<1>4. /\ s \in {Unasked, Answered} \cup [at : {"offer", "save"}, firm : FirmType]
      /\ s.at \in {"done", "save"}
      /\ s.at = "save" => OffersOf(Pilot) = {} /\ s.firm = walking[r].firm
    BY <1>1, <1>3, SampleShape
<1>5. walking'[r] = s /\ \A p \in Walks : p # r => walking'[p] = walking[p]
    BY <1>0, <1>2 DEF SmpTypeOK
<1>6. SmpTypeOK'
  <2>1. walking' \in [Walks -> {Unasked, Answered} \cup [at : {"firm"}, known : SUBSET FirmType]
                        \cup [at : {"offer", "save"}, firm : FirmType]]
      BY <1>0, <1>2, <1>4 DEF SmpTypeOK
  <2> QED
      BY <1>0, <1>2, <2>1 DEF SmpTypeOK
<1>7. SampleRows'
    BY <1>0, <1>2 DEF SampleRows, OffersOf
<1>8. SeedsHold'
    BY <1>2, SeedsStay DEF OffersOf
<1>9. WalksHold'
  <2>1. \A p \in Walks : Carried(p)'
      BY <1>0, <1>2, <1>3, <1>4, <1>5 DEF WalksHold, Carried, PilotFirm
  <2>2. ASSUME ~overlapped PROVE WalkAlone'
    <3>1. WalkAlone
        BY <1>0, <2>2 DEF WalksHold
    <3> QED
        BY <1>2, <1>4, <1>5, <3>1 DEF WalkAlone, AtWalk, OffersOf
  <2> QED
      BY <1>2, <2>1, <2>2 DEF WalksHold
<1> QED
    BY <1>6, <1>7, <1>8, <1>9 DEF SamplesInv

LEMMA WalkSavesKeeps == ASSUME SamplesInv, NEW r \in Walks, WalkSaves(r) PROVE SamplesInv'
<1>0. SmpTypeOK /\ SampleRows /\ SeedsHold /\ WalksHold
    BY DEF SamplesInv
<1>1. PICK firm : firm = walking[r].firm
    OBVIOUS
<1>2. PICK o : o = [of |-> Pilot, by |-> r, firm |-> firm]
    OBVIOUS
<1>3. /\ walking[r].at = "save" /\ offers' = offers \cup {o}
      /\ walking' = [walking EXCEPT ![r] = Answered]
      /\ firms' = firms /\ seeding' = seeding /\ deleted' = deleted
      /\ underway' = underway /\ overlapped' = overlapped
    BY <1>1, <1>2 DEF WalkSaves, History
<1>4. firm \in FirmType /\ PilotFirm(firm)
    BY <1>0, <1>1, <1>3, WalkShape DEF WalksHold, Carried
<1>5. /\ o \in [of : {Pilot}, by : Walks, firm : FirmType] /\ o.of = Pilot /\ o.firm = firm
    BY <1>2, <1>4
<1>6. walking'[r] = Answered /\ \A p \in Walks : p # r => walking'[p] = walking[p]
    BY <1>0, <1>3 DEF SmpTypeOK
<1>7. \A k \in Sample : OffersOf(k)' = OffersOf(k)
    BY <1>3, <1>5, SampleShape DEF OffersOf
<1>8. SmpTypeOK'
  <2>1. walking' \in [Walks -> {Unasked, Answered} \cup [at : {"firm"}, known : SUBSET FirmType]
                        \cup [at : {"offer", "save"}, firm : FirmType]]
      BY <1>0, <1>3 DEF SmpTypeOK
  <2> QED
      BY <1>0, <1>3, <1>5, <2>1 DEF SmpTypeOK
<1>9. SampleRows'
  <2>1. \A p \in offers' : p.firm.of = p.of /\ (p.firm \in firms' \/ p.of \in underway')
      BY <1>0, <1>3, <1>4, <1>5 DEF SampleRows, PilotFirm
  <2> QED
      BY <1>0, <1>3, <1>7, <2>1 DEF SampleRows
<1>10. SeedsHold'
    BY <1>3, <1>7, SeedsStay
<1>11. WalksHold'
  <2>1. \A p \in Walks : Carried(p)'
      BY <1>0, <1>3, <1>6, SampleShape DEF WalksHold, Carried, PilotFirm
  <2>2. ASSUME ~overlapped PROVE WalkAlone'
    <3>1. WalkAlone
        BY <1>0, <2>2 DEF WalksHold
    <3>2. OffersOf(Pilot)' = {o}
        BY <1>3, <1>5, <3>1 DEF WalkAlone, OffersOf
    <3>3. \A p \in Walks : ~AtWalk(p)'
        BY <1>3, <1>6, <3>1, SampleShape DEF WalkAlone, AtWalk
    <3> QED
        BY <1>3, <3>1, <3>2, <3>3 DEF WalkAlone, AtWalk, AtMostOne
  <2> QED
      BY <1>3, <2>1, <2>2 DEF WalksHold
<1> QED
    BY <1>8, <1>9, <1>10, <1>11 DEF SamplesInv

LEMMA DeletesFirmKeeps == ASSUME SamplesInv, NEW firm \in firms, DeletesFirm(firm) PROVE SamplesInv'
<1>0. SmpTypeOK /\ SampleRows /\ SeedsHold /\ WalksHold
    BY DEF SamplesInv
<1>1. /\ firms' = firms \ {firm} /\ offers' = {o \in offers : o.firm # firm}
      /\ deleted' = deleted \cup {firm.of}
      /\ underway' = IF Running THEN underway \cup {firm.of} ELSE underway
      /\ seeding' = seeding /\ walking' = walking /\ overlapped' = overlapped
    BY DEF DeletesFirm
<1>2. firm \in FirmType /\ firm.of \in Sample \cup {Pilot}
    BY <1>0, SampleShape DEF SmpTypeOK
<1>3. SmpTypeOK'
    BY <1>0, <1>1, <1>2 DEF SmpTypeOK
<1>4. \A k : /\ OffersOf(k)' \subseteq OffersOf(k) /\ FirmsOf(firms', k) \subseteq FirmsOf(firms, k)
             /\ k # firm.of => OffersOf(k)' = OffersOf(k)
    BY <1>0, <1>1 DEF SampleRows, OffersOf, FirmsOf
<1>5. SampleRows'
  <2>1. \A o \in offers' : o.firm.of = o.of /\ (o.firm \in firms' \/ o.of \in underway')
      BY <1>0, <1>1 DEF SampleRows
  <2> QED
      BY <1>0, <1>4, <2>1 DEF SampleRows, AtMostOne
<1>6. SeedsHold'
  <2>1. ASSUME NEW r \in Bursts, Adding(r) PROVE Knows(r)'
    <3>1. Knows(r) /\ Running
        BY <1>0, <2>1 DEF SeedsHold, Running, Adding
    <3>2. \A f \in seeding[r].known : f \in firms' \/ f.of \in underway'
        BY <1>1, <3>1 DEF Knows
    <3>3. \A k \in Sample : FirmsOf(firms', k) \subseteq seeding[r].known
        BY <1>4, <3>1 DEF Knows
    <3>4. \A k \in Sample : IF k \in seeding[r].todo THEN OffersOf(k)' = {}
                            ELSE OffersOf(k)' # {} \/ k \in deleted'
        BY <1>1, <1>4, <3>1 DEF Knows
    <3> QED
        BY <1>1, <3>2, <3>3, <3>4 DEF Knows
  <2>2. SamplesComplete'
      BY <1>0, <1>1, <1>4 DEF SeedsHold, SamplesComplete
  <2> QED
      BY <1>0, <1>1, <2>1, <2>2 DEF SeedsHold, Adding
<1>7. WalksHold'
  <2>1. ASSUME NEW r \in Walks PROVE Carried(r)'
    <3>1. Carried(r)
        BY <1>0 DEF WalksHold
    <3>2. CASE AtWalk(r)
      <4>1. Running
          BY <1>0, <3>2, WalkShape, SampleShape DEF Running, AtWalk
      <4>2. \A f : PilotFirm(f) => PilotFirm(f)'
          BY <1>1, <4>1 DEF PilotFirm
      <4> QED
          BY <1>1, <3>1, <4>2 DEF Carried
    <3>3. CASE ~AtWalk(r)
        BY <1>1, <3>3 DEF Carried, AtWalk
    <3> QED
        BY <3>2, <3>3
  <2>2. ~overlapped => WalkAlone'
      BY <1>0, <1>1, <1>4 DEF WalksHold, WalkAlone, AtWalk, AtMostOne
  <2> QED
      BY <1>1, <2>1, <2>2 DEF WalksHold
<1> QED
    BY <1>3, <1>5, <1>6, <1>7 DEF SamplesInv

LEMMA StopsKeeps == ASSUME SamplesInv, Stops PROVE SamplesInv'
<1>0. SmpTypeOK /\ SampleRows /\ SeedsHold /\ WalksHold
    BY DEF SamplesInv
<1>1. PICK lost : lost = [at |-> "lost"]
    OBVIOUS
<1>2. /\ seeding' = [r \in Bursts |-> IF seeding[r].at = "adding" THEN lost ELSE seeding[r]]
      /\ walking' = [r \in Walks |->
                        IF walking[r] \in {Unasked, Answered} THEN walking[r] ELSE Answered]
      /\ firms' = firms /\ offers' = offers /\ deleted' = deleted
      /\ underway' = underway /\ overlapped' = overlapped
    BY <1>1 DEF Stops, History
<1>3. lost \in [at : {"lost"}] /\ lost.at = "lost"
    BY <1>1
<1>4. SmpTypeOK'
  <2>1. seeding' \in [Bursts -> {Unasked, Answered} \cup [at : {"lost"}] \cup
                      [at : {"adding"}, known : SUBSET FirmType, todo : SUBSET Sample]]
      BY <1>0, <1>2, <1>3 DEF SmpTypeOK
  <2>2. walking' \in [Walks -> {Unasked, Answered} \cup [at : {"firm"}, known : SUBSET FirmType]
                        \cup [at : {"offer", "save"}, firm : FirmType]]
      BY <1>0, <1>2 DEF SmpTypeOK
  <2> QED
      BY <1>0, <1>2, <2>1, <2>2 DEF SmpTypeOK
<1>5. SampleRows'
    BY <1>0, <1>2 DEF SampleRows, OffersOf
<1>6. SeedsHold'
  <2>1. \A r \in Bursts : ~Adding(r)'
      BY <1>2, <1>3 DEF Adding
  <2>2. \A r \in Bursts : seeding'[r] = Answered => seeding[r] = Answered
      BY <1>2, <1>3, SampleShape
  <2>3. SamplesComplete'
      BY <1>0, <1>2, <2>2 DEF SeedsHold, SamplesComplete, OffersOf
  <2> QED
      BY <2>1, <2>3 DEF SeedsHold
<1>7. WalksHold'
  <2>1. \A r \in Walks : walking'[r].at \in {"idle", "done"}
      BY <1>2, SampleShape
  <2>2. \A r \in Walks : Carried(r)'
      BY <2>1 DEF Carried
  <2>3. ~overlapped => WalkAlone'
      BY <1>0, <1>2, <2>1 DEF WalksHold, WalkAlone, AtWalk, OffersOf
  <2> QED
      BY <1>2, <2>2, <2>3 DEF WalksHold
<1> QED
    BY <1>4, <1>5, <1>6, <1>7 DEF SamplesInv

LEMMA NextSamples == SamplesInv /\ [SmpNext]_smpVars => SamplesInv'
<1> SUFFICES ASSUME SamplesInv, [SmpNext]_smpVars PROVE SamplesInv'
    OBVIOUS
<1>1. CASE UNCHANGED smpVars
    BY <1>1 DEF smpVars, SamplesInv, SmpTypeOK, SampleRows, SeedsHold, Adding, Knows, SamplesComplete,
                WalksHold, WalkAlone, AtWalk, Carried, PilotFirm, OffersOf
<1>2. ASSUME NEW r \in Bursts, SeedStep(r) PROVE SamplesInv'
    BY <1>2, BeginsKeeps, AddsFirmKeeps, AddsOfferKeeps, EndsKeeps DEF SeedStep
<1>3. ASSUME NEW r \in Walks, WalkStep(r) PROVE SamplesInv'
    BY <1>3, WalkBeginsKeeps, WalkFirmKeeps, WalkLooksKeeps, WalkSavesKeeps DEF WalkStep
<1>4. ASSUME NEW firm \in firms, DeletesFirm(firm) PROVE SamplesInv'
    BY <1>4, DeletesFirmKeeps
<1>5. CASE Stops
    BY <1>5, StopsKeeps
<1> QED
    BY <1>1, <1>2, <1>3, <1>4, <1>5 DEF SmpNext
-----------------------------------------------------------------------------
(* Mesh *)

Line   == [seq : Nat, entry : Nat]
Intake == [entry : Nat, letter : Letters]
Serve  == {NoTask} \cup [at : {"emit", "answer"}, entry : Nat, does : {"accept", "refuse", "issue"}]

MshTyped ==
    /\ log \in Seq(Line) /\ book \in Seq(Intake) /\ serving \in [Servers -> Serve]
    /\ openEnd \in BOOLEAN /\ nextSeq \in Nat \ {0} /\ lastEntry \in Nat /\ hurt \in Nat
    /\ keyFile \in Nat /\ signer \in Nat
    /\ told \subseteq 1..lastEntry /\ statuses \in [Letters -> SUBSET Nat]

Serving(t) == serving[t] # NoTask
HasTaken(e) == e \in told \/ \E t \in Servers : Serving(t) /\ serving[t].entry = e

\* Every request has an entry of its own, which nobody was told of yet.
TasksApart ==
    /\ \A s, t \in Servers : Serving(s) /\ Serving(t) /\ serving[s].entry = serving[t].entry => s = t
    /\ \A t \in Servers : Serving(t) => serving[t].entry \in 1..lastEntry /\ serving[t].entry \notin told

\* The line that lacks its end is of no request that was or will be answered.
LogInOrder ==
    /\ \A n \in DOMAIN log : log[n].entry <= lastEntry /\ log[n].seq < nextSeq
    /\ \A n, k \in Readable : n < k => log[n].seq < log[k].seq
    /\ hurt = 0 => /\ ~openEnd /\ nextSeq = Len(log) + 1
                   /\ \A n \in DOMAIN log : log[n].seq = n
    /\ openEnd => log # <<>> /\ ~HasTaken(log[Len(log)].entry)

\* What was answered, or will be, and no reader finds: at most one entry for
\* every write that went wrong, and not yet one for the last, if its line is open.
Replied == told \cup {serving[t].entry : t \in {s \in Servers : serving[s].at = "answer"}}
OnFile   == {log[n].entry : n \in Readable}
LostFew  == Cardinality(Replied \ OnFile) + (IF openEnd THEN 1 ELSE 0) <= hurt

\* A status is that of the first intake of the letter.
StatusFirst ==
    \A l \in Letters : statuses[l] = {} \/ \E n \in DOMAIN book :
        /\ book[n].letter = l /\ \A m \in 1..(n - 1) : book[m].letter # l
        /\ statuses[l] = {book[n].entry}

\* The key in memory is that of the file, as long as there is one.
KeysInOrder ==
    /\ keyFile \in {0, signer} /\ (keyFile = 0 => signer \in rotated)
    /\ \A key \in credentials \ rotated : key = signer

MeshInv ==
    /\ MshTyped /\ TasksApart /\ LogInOrder /\ LostFew /\ StatusFirst /\ KeysInOrder

LEMMA ServeShape ==
    ASSUME MshTyped, NEW t \in Servers, Serving(t)
    PROVE  /\ serving[t].at \in {"emit", "answer"} /\ serving[t].entry \in Nat
           /\ serving[t].does \in {"accept", "refuse", "issue"}
BY DEF MshTyped, Serve, Serving

LEMMA TaskAt ==
    ASSUME MshTyped, NEW t \in Servers, serving[t].at \in {"emit", "answer"} PROVE Serving(t)
BY DEF Serving, NoTask

LEMMA AnsweredWere ==
    ASSUME MshTyped, TasksApart
    PROVE  /\ Replied \subseteq 1..lastEntry /\ \A e \in Replied : HasTaken(e)
           /\ IsFiniteSet(Replied \ OnFile) /\ Cardinality(Replied \ OnFile) \in Nat
           /\ ~HasTaken(0)
<1>1. \A e \in Replied : HasTaken(e)
    BY TaskAt DEF Replied, HasTaken
<1>2. \A e : HasTaken(e) => e \in 1..lastEntry
    BY DEF HasTaken, TasksApart, MshTyped
<1>3. IsFiniteSet(1..lastEntry)
    BY FS_Interval DEF MshTyped
<1>4. Replied \ OnFile \subseteq 1..lastEntry
    BY <1>1, <1>2
<1>5. IsFiniteSet(Replied \ OnFile)
    BY <1>3, <1>4, FS_Subset
<1> QED
    BY <1>1, <1>2, <1>5, FS_CardinalityType

LEMMA MeshKeeps == MeshInv => MeshHolds
<1> SUFFICES ASSUME MeshInv PROVE MeshHolds
    OBVIOUS
<1>1. TrailHolds
  <2>1. PICK lost, behind : lost = told \ OnFile /\ behind = Replied \ OnFile
      OBVIOUS
  <2>2. IsFiniteSet(behind) /\ Cardinality(behind) \in Nat
      BY <2>1, AnsweredWere DEF MeshInv
  <2>3. lost \subseteq behind
      BY <2>1 DEF Replied
  <2>4. Cardinality(lost) <= Cardinality(behind) /\ Cardinality(lost) \in Nat
      BY <2>2, <2>3, FS_Subset, FS_CardinalityType
  <2>5. PICK k \in Nat : k = Cardinality(behind)
      BY <2>2
  <2>6. PICK open \in {0, 1} : open = (IF openEnd THEN 1 ELSE 0)
      OBVIOUS
  <2>7. k + open <= hurt /\ hurt \in Nat
      BY <2>1, <2>5, <2>6 DEF MeshInv, LostFew, MshTyped
  <2>8. Cardinality(lost) <= hurt
      BY <2>4, <2>5, <2>7
  <2> QED
      BY <2>1, <2>8 DEF MeshInv, LogInOrder, TrailHolds, OnFile
<1>2. StatusHolds
  <2> SUFFICES ASSUME NEW l \in Letters PROVE Cardinality(statuses[l]) <= 1
      BY DEF StatusHolds
  <2>1. statuses[l] = {} \/ \E n \in DOMAIN book : statuses[l] = {book[n].entry}
      BY DEF MeshInv, StatusFirst
  <2>2. CASE statuses[l] = {}
    <3>1. Cardinality(statuses[l]) = 0
        BY <2>2, FS_EmptySet
    <3> QED
        BY <3>1
  <2>3. ASSUME NEW n \in DOMAIN book, statuses[l] = {book[n].entry} PROVE Cardinality(statuses[l]) <= 1
    <3>1. Cardinality(statuses[l]) = 1
        BY <2>3, FS_Singleton
    <3> QED
        BY <3>1
  <2> QED
      BY <2>1, <2>2, <2>3
<1>3. CredentialsHold
    BY DEF MeshInv, KeysInOrder, CredentialsHold, Valid
<1> QED
    BY <1>1, <1>2, <1>3 DEF MeshHolds

LEMMA InitMesh == MshInit => MeshInv
<1> SUFFICES ASSUME MshInit PROVE MeshInv
    OBVIOUS
<1>1. /\ log = <<>> /\ openEnd = FALSE /\ nextSeq = 1 /\ book = <<>> /\ lastEntry = 0
      /\ keyFile = 1 /\ signer = 1 /\ credentials = {} /\ told = {} /\ hurt = 0
      /\ \A t \in Servers : serving[t] = NoTask
      /\ \A l \in Letters : statuses[l] = {}
    BY DEF MshInit
<1>2. MshTyped
  <2>1. serving \in [Servers -> Serve] /\ statuses \in [Letters -> SUBSET Nat]
      BY DEF MshInit, Serve
  <2>2. log \in Seq(Line) /\ book \in Seq(Intake)
      BY <1>1
  <2>3. told \subseteq 1..lastEntry /\ openEnd \in BOOLEAN
      BY <1>1
  <2>4. nextSeq \in Nat \ {0} /\ lastEntry \in Nat /\ hurt \in Nat /\ keyFile \in Nat /\ signer \in Nat
      BY <1>1
  <2> QED
      BY <2>1, <2>2, <2>3, <2>4 DEF MshTyped
<1>3. TasksApart
    BY <1>1 DEF TasksApart, Serving
<1>4. LogInOrder
    BY <1>1 DEF LogInOrder, Readable
<1>5. LostFew
  <2>1. Replied = {}
      BY <1>1 DEF Replied, NoTask
  <2>2. Replied \ OnFile = {}
      BY <2>1
  <2> QED
      BY <1>1, <2>2, FS_EmptySet DEF LostFew
<1>6. StatusFirst /\ KeysInOrder
    BY <1>1 DEF StatusFirst, KeysInOrder
<1> QED
    BY <1>2, <1>3, <1>4, <1>5, <1>6 DEF MeshInv

\* What a line that is written becomes.
LEMMA WrittenShape ==
    ASSUME NEW Lines, NEW line \in Lines, Torn \in Lines, log \in Seq(Lines), openEnd => log # <<>>
    PROVE  /\ Written(line) \in Seq(Lines)
           /\ Len(Written(line)) = (IF openEnd THEN Len(log) ELSE Len(log) + 1)
           /\ \A n \in 1..Len(Written(line)) - 1 : n \in DOMAIN log /\ Written(line)[n] = log[n]
           /\ Written(line)[Len(Written(line))] = (IF openEnd THEN Torn ELSE line)
<1>0. Len(log) \in Nat
    OBVIOUS
<1>1. CASE openEnd
  <2>1. PICK len \in Nat : len = Len(log) - 1
      BY <1>0, <1>1
  <2>2. PICK front : front = SubSeq(log, 1, len)
      OBVIOUS
  <2>3. front \in Seq(Lines) /\ Len(front) = len /\ \A n \in 1..len : front[n] = log[n]
      BY <1>0, <2>1, <2>2
  <2>4. Written(line) = front \o <<Torn>>
      BY <1>1, <2>1, <2>2 DEF Written, Front
  <2>5. front \o <<Torn>> = Append(front, Torn)
      BY <2>3, AppendIsConcat
  <2>6. PICK out : out = Append(front, Torn)
      OBVIOUS
  <2>7. /\ out \in Seq(Lines) /\ Len(out) = len + 1 /\ (\A n \in 1..len : out[n] = front[n])
        /\ out[len + 1] = Torn
      BY <2>3, <2>6, AppendProperties
  <2>8. Written(line) = out /\ Len(out) - 1 = len
      BY <2>1, <2>4, <2>5, <2>6, <2>7
  <2>9. \A n \in 1..len : n \in DOMAIN log /\ out[n] = log[n]
      BY <1>0, <2>1, <2>3, <2>7
  <2> QED
      BY <1>0, <1>1, <2>1, <2>7, <2>8, <2>9
<1>2. CASE ~openEnd
  <2>1. PICK out : out = Append(log, line)
      OBVIOUS
  <2>2. /\ out \in Seq(Lines) /\ Len(out) = Len(log) + 1 /\ (\A n \in 1..Len(log) : out[n] = log[n])
        /\ out[Len(log) + 1] = line
      BY <1>0, <2>1
  <2>3. Written(line) = out
      BY <1>2, <2>1 DEF Written
  <2> QED
      BY <1>0, <1>2, <2>2, <2>3
<1> QED
    BY <1>1, <1>2

\* What is on file stays there, but for the line that lacks its end.
LEMMA WritesInOrder ==
    ASSUME MeshInv, NEW line \in Line, line = Torn \/ line.seq = nextSeq, line.entry <= lastEntry,
           log' = Written(line)
    PROVE  /\ log' \in Seq(Line) /\ log' # <<>>
           /\ \A n \in DOMAIN log' : log'[n].entry <= lastEntry /\ log'[n].seq <= nextSeq
           /\ \A n, k \in Readable' : n < k => log'[n].seq < log'[k].seq
           /\ \A e \in OnFile : HasTaken(e) => e \in OnFile'
           /\ log'[Len(log')] = (IF openEnd THEN Torn ELSE line)
           /\ ~openEnd => Len(log') = Len(log) + 1 /\ \A n \in DOMAIN log : log'[n] = log[n]
<1>0. /\ MshTyped /\ LogInOrder /\ TasksApart /\ log \in Seq(Line) /\ Len(log) \in Nat
      /\ nextSeq \in Nat /\ lastEntry \in Nat /\ (openEnd => log # <<>>)
    BY DEF MeshInv, MshTyped, LogInOrder
<1>1. Torn \in Line /\ Torn.seq = 0 /\ Torn.entry = 0
    BY DEF Torn, Line
<1>2. PICK out : out = log' /\ out = Written(line)
    OBVIOUS
<1>3. /\ out \in Seq(Line) /\ Len(out) = (IF openEnd THEN Len(log) ELSE Len(log) + 1)
      /\ \A n \in 1..Len(out) - 1 : n \in DOMAIN log /\ out[n] = log[n]
      /\ out[Len(out)] = (IF openEnd THEN Torn ELSE line)
    BY <1>0, <1>1, <1>2, WrittenShape
<1>4. PICK len \in Nat : len = Len(out) /\ len > 0
    BY <1>0, <1>3
<1>5. DOMAIN out = 1..len /\ DOMAIN log = 1..Len(log)
    BY <1>0, <1>3, <1>4
<1>6. PICK last \in Line : last = out[len] /\ last = (IF openEnd THEN Torn ELSE line)
    BY <1>1, <1>3, <1>4
<1>7. \A n \in 1..len : n = len \/ n \in 1..(len - 1)
    BY <1>4
<1>8. /\ last.entry \in Nat /\ last.seq \in Nat /\ last.entry <= lastEntry /\ last.seq <= nextSeq
      /\ last # Torn => last.seq = nextSeq
    BY <1>0, <1>1, <1>6 DEF Line
<1>9. \A n \in DOMAIN log :
          /\ log[n].entry \in Nat /\ log[n].seq \in Nat
          /\ log[n].entry <= lastEntry /\ log[n].seq < nextSeq
  <2> SUFFICES ASSUME NEW n \in DOMAIN log
               PROVE  /\ log[n].entry \in Nat /\ log[n].seq \in Nat
                      /\ log[n].entry <= lastEntry /\ log[n].seq < nextSeq
      OBVIOUS
  <2>1. PICK Lines : Lines = Line
      OBVIOUS
  <2>2. log \in Seq(Lines)
      BY <1>0, <2>1
  <2>3. log[n] \in Lines
      BY <2>2
  <2> QED
      BY <1>0, <2>1, <2>3 DEF LogInOrder, Line
<1>10. \A n \in DOMAIN out : out[n].entry <= lastEntry /\ out[n].seq <= nextSeq
  <2> TAKE n \in DOMAIN out
  <2>1. CASE n = len
      BY <1>6, <1>8, <2>1
  <2>2. CASE n \in 1..(len - 1)
    <3>1. n \in DOMAIN log /\ out[n] = log[n]
        BY <1>3, <1>4, <2>2
    <3> QED
        BY <1>0, <1>9, <3>1
  <2> QED
      BY <1>5, <1>7, <2>1, <2>2
<1>11. ASSUME NEW n \in Readable', NEW k \in Readable', n < k PROVE out[n].seq < out[k].seq
  <2>1. n \in DOMAIN out /\ k \in DOMAIN out /\ out[n] # Torn /\ out[k] # Torn
      BY <1>2, <1>11 DEF Readable
  <2>2. n \in 1..(len - 1)
      BY <1>4, <1>5, <1>11, <2>1
  <2>3. n \in Readable /\ out[n] = log[n]
      BY <1>3, <1>4, <2>1, <2>2 DEF Readable
  <2>4. CASE k = len
      BY <1>6, <1>8, <1>9, <2>1, <2>3, <2>4 DEF Readable
  <2>5. CASE k \in 1..(len - 1)
    <3>1. k \in Readable /\ out[k] = log[k]
        BY <1>3, <1>4, <2>1, <2>5 DEF Readable
    <3> QED
        BY <1>0, <1>11, <2>3, <3>1 DEF LogInOrder
  <2> QED
      BY <1>5, <1>7, <2>1, <2>4, <2>5
<1>12. ASSUME NEW e \in OnFile, HasTaken(e) PROVE e \in OnFile'
  <2>1. PICK n \in Readable : e = log[n].entry
      BY <1>12 DEF OnFile
  <2>2. n \in 1..Len(log) /\ log[n] # Torn
      BY <1>5, <2>1 DEF Readable
  <2>3. openEnd => n # Len(log)
      BY <1>0, <1>12, <2>1 DEF LogInOrder
  <2>4. n \in 1..(len - 1)
      BY <1>0, <1>3, <1>4, <2>2, <2>3
  <2>5. n \in DOMAIN out /\ out[n] = log[n]
    <3>1. n \in 1..len
        BY <1>4, <2>4
    <3>2. n \in 1..Len(out) - 1
        BY <1>4, <2>4
    <3> QED
        BY <1>3, <1>5, <3>1, <3>2
  <2> QED
      BY <1>2, <2>1, <2>2, <2>5 DEF OnFile, Readable
<1>13. ~openEnd => len = Len(log) + 1 /\ \A n \in DOMAIN log : out[n] = log[n]
  <2> SUFFICES ASSUME ~openEnd PROVE len = Len(log) + 1 /\ \A n \in DOMAIN log : out[n] = log[n]
      OBVIOUS
  <2>1. len = Len(log) + 1
      BY <1>3, <1>4
  <2>2. \A n \in DOMAIN log : n \in 1..(len - 1)
      BY <1>0, <1>5, <2>1
  <2> QED
      BY <1>3, <1>4, <2>1, <2>2
<1> QED
    BY <1>2, <1>3, <1>4, <1>6, <1>10, <1>11, <1>12, <1>13

\* The costs are borne by those who were to be answered.
LEMMA LostStays ==
    ASSUME MeshInv, NEW extra, extra = {} \/ \E e : extra = {e},
           Replied' \ OnFile' \subseteq (Replied \ OnFile) \cup extra,
           openEnd' \in BOOLEAN, hurt' \in Nat,
           \/ extra = {} /\ hurt' = hurt /\ (openEnd' => openEnd)
           \/ extra = {} /\ hurt' = hurt + 1
           \/ openEnd /\ ~openEnd' /\ hurt' = hurt
    PROVE  LostFew'
<1>1. PICK lost, after : lost = Replied \ OnFile /\ after = Replied' \ OnFile'
    OBVIOUS
<1>2. /\ IsFiniteSet(lost) /\ openEnd \in BOOLEAN /\ hurt \in Nat
      /\ Cardinality(lost) + (IF openEnd THEN 1 ELSE 0) <= hurt
    BY <1>1, AnsweredWere DEF MeshInv, MshTyped, LostFew
<1>3. PICK n \in Nat : n = Cardinality(lost)
    BY <1>2, FS_CardinalityType
<1>4. PICK all : all = lost \cup extra
    OBVIOUS
<1>5. IsFiniteSet(all) /\ Cardinality(all) \in {n, n + 1} /\ (extra = {} => Cardinality(all) = n)
  <2>1. CASE extra = {}
      BY <1>2, <1>3, <1>4, <2>1
  <2>2. ASSUME NEW e, extra = {e} PROVE IsFiniteSet(all) /\ Cardinality(all) \in {n, n + 1}
    <3>1. IsFiniteSet(all) /\ (Cardinality(all) = n \/ Cardinality(all) = n + 1)
        BY <1>2, <1>3, <1>4, <2>2, FS_AddElement
    <3> QED
        BY <3>1
  <2>3. \A e : extra = {e} => extra # {}
      OBVIOUS
  <2> QED
      BY <2>1, <2>2, <2>3
<1>6. PICK m \in Nat : m = Cardinality(all)
    BY <1>3, <1>5
<1>7. after \subseteq all
    BY <1>1, <1>4
<1>8. Cardinality(after) \in Nat /\ Cardinality(after) <= m
    BY <1>5, <1>6, <1>7, FS_Subset, FS_CardinalityType
<1>9. PICK k \in Nat : k = Cardinality(after) /\ k <= m
    BY <1>8
<1>10. m \in {n, n + 1} /\ (extra = {} => m = n)
    BY <1>5, <1>6
<1>11. PICK open \in {0, 1}, closed \in {0, 1} :
           /\ open = (IF openEnd THEN 1 ELSE 0) /\ closed = (IF openEnd' THEN 1 ELSE 0)
           /\ (openEnd' => openEnd) => closed <= open
           /\ openEnd /\ ~openEnd' => open = 1 /\ closed = 0
    BY <1>2
<1>12. n + open <= hurt
    BY <1>2, <1>3, <1>11
<1>13. k + closed <= hurt'
    BY <1>2, <1>9, <1>10, <1>11, <1>12
<1> QED
    BY <1>1, <1>9, <1>11, <1>13 DEF LostFew

LEMMA TakesUpKeeps ==
    ASSUME MeshInv, NEW t \in Servers, NEW does \in {"accept", "refuse", "issue"},
           NEW kept, kept = <<>> \/ \E l \in Letters : kept = Kept(l), TakesUp(t, does, kept)
    PROVE  MeshInv'
<1>0. /\ MshTyped /\ TasksApart /\ LogInOrder /\ LostFew /\ StatusFirst /\ KeysInOrder
      /\ ~Serving(t) /\ lastEntry' = lastEntry + 1 /\ book' = book \o kept
      /\ UNCHANGED <<log, openEnd, nextSeq, keyFile, signer, lastKey, rotated, credentials, told,
                     statuses, hurt>>
    BY DEF MeshInv, TakesUp, Serving, Keyring
<1>1. PICK e \in Nat : e = lastEntry + 1 /\ e > 0
    BY <1>0 DEF MshTyped
<1>2. PICK task : task = [at |-> "emit", entry |-> e, does |-> does]
    OBVIOUS
<1>3. /\ task \in Serve /\ task # NoTask /\ task.at = "emit" /\ task.entry = e
      /\ serving' = [serving EXCEPT ![t] = task]
    BY <1>1, <1>2 DEF TakesUp, Mind, Serve, NoTask
<1>4. /\ serving' \in [Servers -> Serve] /\ serving'[t] = task
      /\ \A s \in Servers : s # t => serving'[s] = serving[s]
    BY <1>0, <1>3 DEF MshTyped
<1>5. /\ book' \in Seq(Intake) /\ \A n \in DOMAIN book : n \in DOMAIN book' /\ book'[n] = book[n]
  <2>1. kept \in Seq(Intake)
    <3>1. ASSUME NEW l \in Letters, kept = Kept(l) PROVE kept \in Seq(Intake)
      <4>1. PICK item \in Intake : item = [entry |-> e, letter |-> l]
          BY DEF Intake
      <4>2. kept = <<item>>
          BY <1>1, <3>1, <4>1 DEF Kept
      <4> QED
          BY <4>2
    <3>2. <<>> \in Seq(Intake)
        OBVIOUS
    <3> QED
        BY <3>1, <3>2
  <2>2. PICK Intakes_ : Intakes_ = Intake
      OBVIOUS
  <2>3. book \in Seq(Intakes_) /\ kept \in Seq(Intakes_)
      BY <1>0, <2>1, <2>2 DEF MshTyped
  <2>4. book \o kept \in Seq(Intakes_) /\ Len(book \o kept) = Len(book) + Len(kept)
      BY <2>3
  <2>5. \A n \in 1..Len(book) : (book \o kept)[n] = book[n]
      BY <2>3
  <2>6. DOMAIN book = 1..Len(book) /\ \A n \in 1..Len(book) : n \in DOMAIN (book \o kept)
      BY <2>3, <2>4
  <2> QED
      BY <1>0, <2>2, <2>4, <2>5, <2>6
<1>6. told \subseteq 1..(lastEntry + 1)
    BY <1>0 DEF MshTyped
<1>7. MshTyped'
    BY <1>0, <1>1, <1>4, <1>5, <1>6 DEF MshTyped
<1>8. TasksApart'
  <2>1. \A s \in Servers : Serving(s)' /\ s # t => Serving(s) /\ serving'[s].entry = serving[s].entry
      BY <1>4 DEF Serving
  <2>2. \A s \in Servers : Serving(s)' /\ s # t =>
            serving'[s].entry \in 1..lastEntry /\ serving'[s].entry # e
      BY <1>0, <1>1, <2>1 DEF TasksApart, MshTyped
  <2>3. e \notin told
      BY <1>0, <1>1 DEF MshTyped
  <2>4. \A s, r \in Servers : Serving(s)' /\ Serving(r)' /\ serving'[s].entry = serving'[r].entry => s = r
      BY <1>0, <1>3, <1>4, <2>1, <2>2 DEF TasksApart
  <2>5. \A s \in Servers : Serving(s)' => serving'[s].entry \in 1..lastEntry' /\ serving'[s].entry \notin told
      BY <1>0, <1>1, <1>3, <1>4, <2>1, <2>2, <2>3 DEF TasksApart, MshTyped
  <2> QED
      BY <1>0, <2>4, <2>5 DEF TasksApart
<1>9. LogInOrder'
  <2>1. \A n \in DOMAIN log : log[n].entry <= lastEntry + 1 /\ log[n].entry # e
    <3> SUFFICES ASSUME NEW n \in DOMAIN log PROVE log[n].entry <= lastEntry + 1 /\ log[n].entry # e
        OBVIOUS
    <3>1. PICK Lines : Lines = Line
        OBVIOUS
    <3>2. log \in Seq(Lines)
        BY <1>0, <3>1 DEF MshTyped
    <3>3. log[n] \in Lines
        BY <3>2
    <3> QED
        BY <1>0, <1>1, <3>1, <3>3 DEF LogInOrder, Line, MshTyped
  <2>2. openEnd => log # <<>> /\ ~HasTaken(log[Len(log)].entry)'
    <3> SUFFICES ASSUME openEnd PROVE log # <<>> /\ ~HasTaken(log[Len(log)].entry)'
        OBVIOUS
    <3>1. PICK was : was = log[Len(log)].entry
        OBVIOUS
    <3>2. log # <<>> /\ ~HasTaken(was)
        BY <1>0, <3>1 DEF LogInOrder
    <3>3. was # e
        BY <1>0, <2>1, <3>1, <3>2 DEF MshTyped
    <3>4. ~HasTaken(was)'
        BY <1>0, <1>3, <1>4, <3>2, <3>3 DEF HasTaken, Serving
    <3> QED
        BY <1>0, <3>1, <3>2, <3>4
  <2> QED
      BY <1>0, <2>1, <2>2 DEF LogInOrder, Readable
<1>10. LostFew'
  <2>1. Replied' = Replied
    <3>1. \A s \in Servers : serving'[s].at = "answer" <=> serving[s].at = "answer"
        BY <1>0, <1>3, <1>4 DEF Serving, NoTask
    <3>2. \A s \in Servers : serving'[s].at = "answer" => serving'[s] = serving[s]
        BY <1>3, <1>4
    <3> QED
        BY <1>0, <3>1, <3>2 DEF Replied
  <2>2. OnFile' = OnFile
      BY <1>0 DEF OnFile, Readable
  <2> QED
      BY <1>0, <2>1, <2>2 DEF LostFew
<1>11. StatusFirst'
  <2> SUFFICES ASSUME NEW l \in Letters, statuses[l] # {}
               PROVE  \E n \in DOMAIN book' :
                          /\ book'[n].letter = l /\ \A m \in 1..(n - 1) : book'[m].letter # l
                          /\ statuses[l] = {book'[n].entry}
      BY <1>0 DEF StatusFirst
  <2>1. PICK n \in DOMAIN book :
            /\ book[n].letter = l /\ \A m \in 1..(n - 1) : book[m].letter # l
            /\ statuses[l] = {book[n].entry}
      BY <1>0 DEF StatusFirst
  <2>2. \A m \in 1..(n - 1) : m \in DOMAIN book
      BY <1>0 DEF MshTyped
  <2> QED
      BY <1>5, <2>1, <2>2
<1>12. KeysInOrder'
    BY <1>0 DEF KeysInOrder
<1> QED
    BY <1>7, <1>8, <1>9, <1>10, <1>11, <1>12 DEF MeshInv

\* A request that has its line, or will not get it, leaves the others as they are.
LEMMA OthersServe ==
    ASSUME MshTyped, TasksApart, UNCHANGED <<told, lastEntry>>,
           NEW t \in Servers, Serving(t), NEW task \in Serve, Mind(t, task),
           task # NoTask => task.entry = serving[t].entry
    PROVE  /\ serving' \in [Servers -> Serve] /\ serving'[t] = task /\ TasksApart'
           /\ \A s \in Servers : s # t => serving'[s] = serving[s]
           /\ \A e : HasTaken(e)' => HasTaken(e)
<1>1. /\ serving' \in [Servers -> Serve] /\ serving'[t] = task
      /\ \A s \in Servers : s # t => serving'[s] = serving[s]
    BY DEF MshTyped, Mind
<1>2. \A s \in Servers : Serving(s)' => Serving(s) /\ serving'[s].entry = serving[s].entry
    BY <1>1 DEF Serving
<1>3. TasksApart'
    BY <1>2 DEF TasksApart
<1>4. \A e : HasTaken(e)' => HasTaken(e)
    BY <1>2 DEF HasTaken
<1> QED
    BY <1>1, <1>3, <1>4

LEMMA EmitsKeeps == ASSUME MeshInv, NEW t \in Servers, Emits(t) PROVE MeshInv'
<1>0. /\ MshTyped /\ TasksApart /\ LogInOrder /\ LostFew /\ StatusFirst /\ KeysInOrder
      /\ serving[t].at = "emit" /\ openEnd' = FALSE /\ nextSeq' = nextSeq + 1
      /\ log' = Written([seq |-> nextSeq, entry |-> serving[t].entry])
      /\ UNCHANGED <<book, lastEntry, keyFile, signer, lastKey, rotated, credentials, told,
                     statuses, hurt>>
    BY DEF MeshInv, Emits, Keyring
<1>1. PICK e \in Nat, does \in {"accept", "refuse", "issue"} :
          /\ e = serving[t].entry /\ does = serving[t].does
          /\ serving[t] = [at |-> "emit", entry |-> e, does |-> does]
  <2>1. serving[t] \in [at : {"emit", "answer"}, entry : Nat, does : {"accept", "refuse", "issue"}]
      BY <1>0 DEF MshTyped, Serve, NoTask
  <2> QED
      BY <1>0, <2>1
<1>2. Serving(t) /\ e \in 1..lastEntry
    BY <1>0, <1>1, TaskAt DEF TasksApart
<1>3. PICK line : line = [seq |-> nextSeq, entry |-> e]
    OBVIOUS
<1>4. line \in Line /\ line.seq = nextSeq /\ line.entry = e /\ line # Torn /\ log' = Written(line)
    BY <1>0, <1>1, <1>3 DEF Line, MshTyped, Torn
<1>5. line.entry <= lastEntry /\ nextSeq \in Nat /\ nextSeq > 0 /\ lastEntry \in Nat
    BY <1>0, <1>2, <1>4 DEF MshTyped
<1>6. /\ log' \in Seq(Line) /\ log' # <<>>
      /\ \A n \in DOMAIN log' : log'[n].entry <= lastEntry /\ log'[n].seq <= nextSeq
      /\ \A n, k \in Readable' : n < k => log'[n].seq < log'[k].seq
      /\ \A x \in OnFile : HasTaken(x) => x \in OnFile'
      /\ log'[Len(log')] = (IF openEnd THEN Torn ELSE line)
      /\ ~openEnd => Len(log') = Len(log) + 1 /\ \A n \in DOMAIN log : log'[n] = log[n]
    BY <1>4, <1>5, WritesInOrder
<1>7. PICK task : task = [at |-> "answer", entry |-> e, does |-> does]
    OBVIOUS
<1>8. /\ task \in Serve /\ task # NoTask /\ task.at = "answer" /\ task.entry = e
      /\ Mind(t, task)
  <2>1. [serving[t] EXCEPT !.at = "answer"] = task
      BY <1>1, <1>7
  <2> QED
      BY <1>1, <1>7, <2>1 DEF Emits, Serve, NoTask
<1>9. /\ serving' \in [Servers -> Serve] /\ serving'[t] = task /\ TasksApart'
      /\ \A s \in Servers : s # t => serving'[s] = serving[s]
    BY <1>0, <1>1, <1>2, <1>8, OthersServe
<1>10. MshTyped'
  <2>1. nextSeq' \in Nat \ {0}
      BY <1>0, <1>5
  <2>2. openEnd' \in BOOLEAN
      BY <1>0
  <2> QED
      BY <1>0, <1>6, <1>9, <2>1, <2>2 DEF MshTyped
<1>11. LogInOrder'
  <2>1. \A n \in DOMAIN log' : log'[n].entry <= lastEntry' /\ log'[n].seq < nextSeq'
    <3> SUFFICES ASSUME NEW n \in DOMAIN log'
                 PROVE  log'[n].entry <= lastEntry /\ log'[n].seq < nextSeq + 1
        BY <1>0
    <3>1. PICK Lines : Lines = Line
        OBVIOUS
    <3>2. log' \in Seq(Lines)
        BY <1>6, <3>1
    <3>3. log'[n] \in Lines
        BY <3>2
    <3>4. log'[n].seq \in Nat
        BY <3>1, <3>3 DEF Line
    <3> QED
        BY <1>5, <1>6, <3>4
  <2>2. ASSUME hurt = 0
        PROVE  nextSeq' = Len(log') + 1 /\ \A n \in DOMAIN log' : log'[n].seq = n
    <3>1. ~openEnd /\ nextSeq = Len(log) + 1 /\ \A n \in DOMAIN log : log[n].seq = n
        BY <1>0, <2>2 DEF LogInOrder
    <3>2. /\ Len(log') = nextSeq /\ log'[nextSeq] = line
          /\ \A n \in DOMAIN log : log'[n].seq = n
        BY <1>6, <3>1
    <3>3. \A n \in DOMAIN log' : n = nextSeq \/ n \in DOMAIN log
      <4>1. DOMAIN log' = 1..Len(log') /\ DOMAIN log = 1..Len(log) /\ Len(log) \in Nat
          BY <1>0, <1>6 DEF MshTyped
      <4> QED
          BY <1>5, <3>1, <3>2, <4>1
    <3> QED
        BY <1>0, <1>4, <3>2, <3>3
  <2> QED
      BY <1>0, <1>6, <2>1, <2>2 DEF LogInOrder
<1>12. LostFew'
  <2>1. PICK extra : extra = (IF openEnd THEN {e} ELSE {})
      OBVIOUS
  <2>2. \A x \in Replied' : x \in Replied \/ x = e
      BY <1>0, <1>8, <1>9 DEF Replied
  <2>3. \A x \in Replied : HasTaken(x)
      BY <1>0, AnsweredWere
  <2>4. ~openEnd => e \in OnFile'
    <3> SUFFICES ASSUME ~openEnd PROVE e \in OnFile'
        OBVIOUS
    <3>1. Len(log') \in DOMAIN log' /\ log'[Len(log')] = line
        BY <1>6
    <3> QED
        BY <1>4, <3>1 DEF OnFile, Readable
  <2>5. Replied' \ OnFile' \subseteq (Replied \ OnFile) \cup extra
      BY <1>6, <2>1, <2>2, <2>3, <2>4
  <2>6. extra = {} \/ \E x : extra = {x}
      BY <2>1
  <2>7. extra = {} \/ openEnd
      BY <2>1
  <2>8. openEnd' \in BOOLEAN /\ hurt' \in Nat /\ ~openEnd' /\ hurt' = hurt
      BY <1>0 DEF MshTyped
  <2> QED
      BY <2>5, <2>6, <2>7, <2>8, LostStays
<1>13. StatusFirst' /\ KeysInOrder'
    BY <1>0 DEF StatusFirst, KeysInOrder
<1> QED
    BY <1>9, <1>10, <1>11, <1>12, <1>13 DEF MeshInv

\* A write that does not come to its end.
LEMMA RemainsInOrder ==
    ASSUME MeshInv, NEW t \in Servers, serving[t].at = "emit",
           Remains([seq |-> nextSeq, entry |-> serving[t].entry])
    PROVE  /\ log' \in Seq(Line) /\ openEnd' \in BOOLEAN
           /\ \A n \in DOMAIN log' : log'[n].entry <= lastEntry /\ log'[n].seq <= nextSeq
           /\ \A n, k \in Readable' : n < k => log'[n].seq < log'[k].seq
           /\ \A x \in OnFile : HasTaken(x) => x \in OnFile'
           /\ openEnd' => /\ log' # <<>>
                          /\ \/ ~HasTaken(log'[Len(log')].entry)
                             \/ log'[Len(log')].entry = serving[t].entry
<1>0. /\ MshTyped /\ TasksApart /\ LogInOrder /\ Serving(t) /\ serving[t].entry \in 1..lastEntry
      /\ nextSeq \in Nat /\ lastEntry \in Nat /\ openEnd \in BOOLEAN /\ log \in Seq(Line)
    BY TaskAt DEF MeshInv, TasksApart, MshTyped
<1>1. CASE UNCHANGED <<log, openEnd>>
  <2>1. \A n \in DOMAIN log : log[n].seq <= nextSeq
    <3> SUFFICES ASSUME NEW n \in DOMAIN log PROVE log[n].seq <= nextSeq
        OBVIOUS
    <3>1. PICK Lines : Lines = Line
        OBVIOUS
    <3>2. log \in Seq(Lines)
        BY <1>0, <3>1
    <3>3. log[n] \in Lines
        BY <3>2
    <3> QED
        BY <1>0, <3>1, <3>3 DEF Line, LogInOrder
  <2>2. Readable' = Readable /\ OnFile' = OnFile
      BY <1>1 DEF Readable, OnFile
  <2>3. openEnd => log # <<>> /\ ~HasTaken(log[Len(log)].entry)
      BY <1>0 DEF LogInOrder
  <2>4. \A n, k \in Readable : n < k => log[n].seq < log[k].seq
      BY <1>0 DEF LogInOrder
  <2>5. \A n \in DOMAIN log : log[n].entry <= lastEntry
      BY <1>0 DEF LogInOrder
  <2> QED
      BY <1>0, <1>1, <2>1, <2>2, <2>3, <2>4, <2>5
<1>2. ASSUME NEW line \in Line, line = Torn \/ line.seq = nextSeq, line.entry <= lastEntry,
             line.entry = 0 \/ line.entry = serving[t].entry,
             log' = Written(line), openEnd' = TRUE
      PROVE  /\ log' \in Seq(Line) /\ openEnd' \in BOOLEAN
             /\ \A n \in DOMAIN log' : log'[n].entry <= lastEntry /\ log'[n].seq <= nextSeq
             /\ \A n, k \in Readable' : n < k => log'[n].seq < log'[k].seq
             /\ \A x \in OnFile : HasTaken(x) => x \in OnFile'
             /\ openEnd' => /\ log' # <<>>
                            /\ \/ ~HasTaken(log'[Len(log')].entry)
                               \/ log'[Len(log')].entry = serving[t].entry
  <2>1. /\ log' \in Seq(Line) /\ log' # <<>>
        /\ \A n \in DOMAIN log' : log'[n].entry <= lastEntry /\ log'[n].seq <= nextSeq
        /\ \A n, k \in Readable' : n < k => log'[n].seq < log'[k].seq
        /\ \A x \in OnFile : HasTaken(x) => x \in OnFile'
        /\ log'[Len(log')] = (IF openEnd THEN Torn ELSE line)
      BY <1>2, WritesInOrder
  <2>2. PICK x : x = log'[Len(log')].entry
      OBVIOUS
  <2>3. x = 0 \/ x = serving[t].entry
      BY <1>2, <2>1, <2>2 DEF Torn
  <2>4. ~HasTaken(0)
      BY <1>0, AnsweredWere
  <2>5. ~HasTaken(x) \/ x = serving[t].entry
      BY <2>3, <2>4
  <2> QED
      BY <1>2, <2>1, <2>2, <2>5
<1>3. CASE log' = Written(Torn) /\ openEnd' = TRUE
  <2>1. Torn \in Line /\ Torn.entry = 0 /\ Torn.entry <= lastEntry
      BY <1>0 DEF Torn, Line
  <2> QED
      BY <1>2, <1>3, <2>1
<1>4. CASE log' = Written([seq |-> nextSeq, entry |-> serving[t].entry]) /\ openEnd' = TRUE
  <2>1. PICK line : line = [seq |-> nextSeq, entry |-> serving[t].entry]
      OBVIOUS
  <2>2. line \in Line /\ line.seq = nextSeq /\ line.entry = serving[t].entry /\ line.entry <= lastEntry
      BY <1>0, <2>1 DEF Line
  <2> QED
      BY <1>2, <1>4, <2>1, <2>2
<1> QED
    BY <1>1, <1>3, <1>4 DEF Remains

LEMMA EmitFailsKeeps == ASSUME MeshInv, NEW t \in Servers, EmitFails(t) PROVE MeshInv'
<1>0. /\ MshTyped /\ TasksApart /\ LogInOrder /\ LostFew /\ StatusFirst /\ KeysInOrder
      /\ serving[t].at = "emit" /\ hurt' = hurt + 1 /\ nextSeq' = nextSeq + 1 /\ Mind(t, NoTask)
      /\ Remains([seq |-> nextSeq, entry |-> serving[t].entry])
      /\ UNCHANGED <<book, lastEntry, keyFile, signer, lastKey, rotated, credentials, told, statuses>>
    BY DEF MeshInv, EmitFails, Keyring
<1>1. Serving(t) /\ NoTask \in Serve
    BY <1>0, TaskAt DEF Serve
<1>2. /\ serving' \in [Servers -> Serve] /\ serving'[t] = NoTask /\ TasksApart'
      /\ \A s \in Servers : s # t => serving'[s] = serving[s]
      /\ \A e : HasTaken(e)' => HasTaken(e)
    BY <1>0, <1>1, OthersServe
<1>3. /\ log' \in Seq(Line) /\ openEnd' \in BOOLEAN
      /\ \A n \in DOMAIN log' : log'[n].entry <= lastEntry /\ log'[n].seq <= nextSeq
      /\ \A n, k \in Readable' : n < k => log'[n].seq < log'[k].seq
      /\ \A x \in OnFile : HasTaken(x) => x \in OnFile'
      /\ openEnd' => /\ log' # <<>>
                     /\ \/ ~HasTaken(log'[Len(log')].entry)
                        \/ log'[Len(log')].entry = serving[t].entry
    BY <1>0, RemainsInOrder
<1>4. PICK next \in Nat, hurts \in Nat :
          next = nextSeq /\ next > 0 /\ hurts = hurt /\ nextSeq' = next + 1 /\ hurt' = hurts + 1
    BY <1>0 DEF MshTyped
<1>5. MshTyped'
  <2>1. nextSeq' \in Nat \ {0} /\ hurt' \in Nat
      BY <1>4
  <2> QED
      BY <1>0, <1>2, <1>3, <2>1 DEF MshTyped
<1>6. LogInOrder'
  <2>1. \A n \in DOMAIN log' : log'[n].entry <= lastEntry' /\ log'[n].seq < nextSeq'
    <3> SUFFICES ASSUME NEW n \in DOMAIN log'
                 PROVE  log'[n].entry <= lastEntry /\ log'[n].seq < nextSeq + 1
        BY <1>0
    <3>1. PICK Lines : Lines = Line
        OBVIOUS
    <3>2. log' \in Seq(Lines)
        BY <1>3, <3>1
    <3>3. log'[n] \in Lines
        BY <3>2
    <3>4. log'[n].seq \in Nat
        BY <3>1, <3>3 DEF Line
    <3> QED
        BY <1>3, <1>4, <3>4
  <2>2. openEnd' => log' # <<>> /\ ~HasTaken(log[Len(log)].entry)'
    <3> SUFFICES ASSUME openEnd' PROVE log' # <<>> /\ ~HasTaken(log[Len(log)].entry)'
        OBVIOUS
    <3>1. PICK x, e : x = log'[Len(log')].entry /\ e = serving[t].entry
        OBVIOUS
    <3>2. log' # <<>> /\ (~HasTaken(x) \/ x = e)
        BY <1>3, <3>1
    <3>3. e \notin told /\ \A s \in Servers : s # t /\ Serving(s) => serving[s].entry # e
        BY <1>0, <1>1, <3>1 DEF TasksApart
    <3>4. ~HasTaken(e)'
        BY <1>0, <1>2, <3>3 DEF HasTaken, Serving
    <3>5. ~HasTaken(x)'
        BY <1>2, <3>2, <3>4
    <3> QED
        BY <3>1, <3>2, <3>5
  <2>3. hurt' # 0
      BY <1>4
  <2> QED
      BY <1>3, <2>1, <2>2, <2>3 DEF LogInOrder
<1>7. LostFew'
  <2>1. Replied' \subseteq Replied
      BY <1>0, <1>2 DEF Replied, NoTask
  <2>2. \A x \in Replied : HasTaken(x)
      BY <1>0, AnsweredWere
  <2>3. Replied' \ OnFile' \subseteq (Replied \ OnFile) \cup {}
      BY <1>3, <2>1, <2>2
  <2>4. hurt' \in Nat /\ hurt' = hurt + 1
      BY <1>4
  <2> QED
      BY <1>3, <2>3, <2>4, LostStays
<1>8. StatusFirst' /\ KeysInOrder'
    BY <1>0 DEF StatusFirst, KeysInOrder
<1> QED
    BY <1>2, <1>5, <1>6, <1>7, <1>8 DEF MeshInv

\* The number after the last that can be read is after all of them.
LEMMA LastSeqShape ==
    ASSUME NEW lines \in Seq(Line), NEW top \in Nat, \A n \in DOMAIN lines : lines[n].seq <= top
    PROVE  /\ LastSeq(lines) \in Nat /\ \A n \in DOMAIN lines : lines[n].seq <= LastSeq(lines)
           /\ LastSeq(lines) = 0 \/ \E n \in DOMAIN lines : LastSeq(lines) = lines[n].seq
<1>1. \A n \in DOMAIN lines : lines[n].seq \in Nat
  <2> SUFFICES ASSUME NEW n \in DOMAIN lines PROVE lines[n].seq \in Nat
      OBVIOUS
  <2>1. PICK Lines : Lines = Line
      OBVIOUS
  <2>2. lines \in Seq(Lines)
      BY <2>1
  <2>3. lines[n] \in Lines
      BY <2>2
  <2> QED
      BY <2>1, <2>3 DEF Line
<1>2. PICK numbers : numbers = {0} \cup {lines[n].seq : n \in DOMAIN lines}
    OBVIOUS
<1>3. numbers \subseteq 0..top /\ numbers # {}
  <2>1. ASSUME NEW k \in numbers PROVE k \in 0..top
    <3>1. k = 0 \/ \E n \in DOMAIN lines : k = lines[n].seq
        BY <1>2, <2>1
    <3> QED
        BY <1>1, <3>1
  <2> QED
      BY <1>2, <2>1
<1>4. PICK m \in numbers : \A n \in numbers : n <= m
    BY <1>3, GreatestOfBounded
<1>5. Max(numbers) \in numbers /\ \A n \in numbers : Max(numbers) >= n
  <2>1. \A n \in numbers : m >= n
      BY <1>3, <1>4
  <2> QED
      BY <1>4, <2>1 DEF Max
<1>6. PICK last \in numbers : last = LastSeq(lines) /\ \A n \in numbers : last >= n
    BY <1>2, <1>5 DEF LastSeq
<1>7. last \in Nat
    BY <1>3, <1>6
<1>8. \A n \in DOMAIN lines : lines[n].seq <= last
  <2>1. \A n \in DOMAIN lines : lines[n].seq \in numbers
      BY <1>2
  <2> QED
      BY <1>1, <1>6, <1>7, <2>1
<1>9. last = 0 \/ \E n \in DOMAIN lines : last = lines[n].seq
    BY <1>2, <1>6
<1> QED
    BY <1>6, <1>7, <1>8, <1>9

\* Whoever starts again reads the last number, and has nothing under way.
LEMMA StartsUpKeeps ==
    ASSUME MeshInv, StartsUp(log'), log' \in Seq(Line), openEnd' \in BOOLEAN, hurt' \in Nat,
           \A n \in DOMAIN log' : log'[n].entry <= lastEntry /\ log'[n].seq <= nextSeq,
           \A n, k \in Readable' : n < k => log'[n].seq < log'[k].seq,
           openEnd' => log' # <<>> /\ log'[Len(log')].entry \notin told,
           hurt' = 0 => ~openEnd' /\ \A n \in DOMAIN log' : log'[n].seq = n,
           \A x \in OnFile : HasTaken(x) => x \in OnFile',
           (hurt' = hurt /\ openEnd' = openEnd) \/ hurt' = hurt + 1
    PROVE  MeshInv'
<1>0. /\ MshTyped /\ TasksApart /\ LogInOrder /\ LostFew /\ StatusFirst /\ KeysInOrder
      /\ nextSeq' = LastSeq(log') + 1 /\ Loaded \in Keys /\ signer' = Loaded /\ keyFile' = Loaded
      /\ book' = <<>> /\ serving' = [t \in Servers |-> NoTask] /\ statuses' = [l \in Letters |-> {}]
      /\ UNCHANGED <<lastEntry, credentials, told, rotated>>
    BY DEF MeshInv, StartsUp
<1>1. \A t \in Servers : serving'[t] = NoTask /\ ~Serving(t)'
    BY <1>0 DEF Serving
<1>2. PICK lines : lines = log'
    OBVIOUS
<1>3. /\ lines \in Seq(Line) /\ nextSeq \in Nat
      /\ \A n \in DOMAIN lines : lines[n].entry <= lastEntry /\ lines[n].seq <= nextSeq
    BY <1>0, <1>2 DEF MshTyped
<1>4. PICK last \in Nat :
          /\ last = LastSeq(lines) /\ \A n \in DOMAIN lines : lines[n].seq <= last
          /\ last = 0 \/ \E n \in DOMAIN lines : last = lines[n].seq
    BY <1>3, LastSeqShape
<1>5. nextSeq' = last + 1
    BY <1>0, <1>2, <1>4
<1>6. Loaded \in Nat /\ Loaded # 0
    BY <1>0, MeshAssumption DEF Keys
<1>7. MshTyped'
  <2>1. nextSeq' \in Nat \ {0}
      BY <1>5
  <2>2. serving' \in [Servers -> Serve] /\ statuses' \in [Letters -> SUBSET Nat]
      BY <1>0 DEF Serve
  <2>3. book' \in Seq(Intake)
      BY <1>0
  <2> QED
      BY <1>0, <1>6, <2>1, <2>2, <2>3 DEF MshTyped
<1>8. TasksApart'
    BY <1>1 DEF TasksApart
<1>9. LogInOrder'
  <2>1. \A n \in DOMAIN lines : lines[n].seq < last + 1
    <3> SUFFICES ASSUME NEW n \in DOMAIN lines PROVE lines[n].seq < last + 1
        OBVIOUS
    <3>1. PICK Lines : Lines = Line
        OBVIOUS
    <3>2. lines \in Seq(Lines)
        BY <1>3, <3>1
    <3>3. lines[n] \in Lines
        BY <3>2
    <3>4. lines[n].seq \in Nat
        BY <3>1, <3>3 DEF Line
    <3> QED
        BY <1>4, <3>4
  <2>2. ASSUME hurt' = 0 PROVE last = Len(lines)
    <3>1. \A n \in DOMAIN lines : lines[n].seq = n
        BY <1>2, <2>2
    <3>2. DOMAIN lines = 1..Len(lines) /\ Len(lines) \in Nat
        BY <1>3
    <3>3. last <= Len(lines)
        BY <1>4, <3>1, <3>2
    <3>4. Len(lines) <= last
      <4>1. CASE Len(lines) = 0
          BY <4>1
      <4>2. CASE Len(lines) # 0
        <5>1. Len(lines) \in DOMAIN lines
            BY <3>2, <4>2
        <5> QED
            BY <1>4, <3>1, <5>1
      <4> QED
          BY <4>1, <4>2
    <3>5. PICK len \in Nat : len = Len(lines)
        BY <3>2
    <3>6. last \in Nat /\ last <= len /\ len <= last
        BY <3>3, <3>4, <3>5
    <3> QED
        BY <3>5, <3>6
  <2>3. openEnd' => log' # <<>> /\ ~HasTaken(log[Len(log)].entry)'
      BY <1>0, <1>1 DEF HasTaken
  <2> QED
      BY <1>0, <1>2, <1>3, <1>5, <2>1, <2>2, <2>3 DEF LogInOrder
<1>10. LostFew'
  <2>1. Replied' \subseteq Replied
      BY <1>0, <1>1 DEF Replied, NoTask
  <2>2. \A x \in Replied : HasTaken(x)
      BY <1>0, AnsweredWere
  <2>3. Replied' \ OnFile' \subseteq (Replied \ OnFile) \cup {}
      BY <2>1, <2>2
  <2> QED
      BY <2>3, LostStays
<1>11. StatusFirst'
    BY <1>0 DEF StatusFirst
<1>12. KeysInOrder'
    BY <1>0, <1>6 DEF KeysInOrder, Loaded
<1> QED
    BY <1>7, <1>8, <1>9, <1>10, <1>11, <1>12 DEF MeshInv

LEMMA DiesKeeps == ASSUME MeshInv, Dies PROVE MeshInv'
<1>0. /\ MshTyped /\ LogInOrder /\ StartsUp(log) /\ UNCHANGED <<log, openEnd, hurt>>
    BY DEF MeshInv, Dies
<1>1. StartsUp(log')
    BY <1>0 DEF StartsUp, LastSeq, Loaded, Keys
<1>2. \A n \in DOMAIN log : log[n].entry <= lastEntry /\ log[n].seq <= nextSeq
  <2> SUFFICES ASSUME NEW n \in DOMAIN log PROVE log[n].entry <= lastEntry /\ log[n].seq <= nextSeq
      OBVIOUS
  <2>1. PICK Lines : Lines = Line
      OBVIOUS
  <2>2. log \in Seq(Lines)
      BY <1>0, <2>1 DEF MshTyped
  <2>3. log[n] \in Lines
      BY <2>2
  <2> QED
      BY <1>0, <2>1, <2>3 DEF LogInOrder, Line, MshTyped
<1>3. Readable' = Readable /\ OnFile' = OnFile
    BY <1>0 DEF Readable, OnFile
<1>4. openEnd => log # <<>> /\ log[Len(log)].entry \notin told
    BY <1>0 DEF LogInOrder, HasTaken
<1>5. \A n, k \in Readable : n < k => log[n].seq < log[k].seq
    BY <1>0 DEF LogInOrder
<1>6. hurt = 0 => ~openEnd /\ \A n \in DOMAIN log : log[n].seq = n
    BY <1>0 DEF LogInOrder
<1>7. log' \in Seq(Line) /\ openEnd' \in BOOLEAN /\ hurt' \in Nat
    BY <1>0 DEF MshTyped
<1> QED
    BY <1>0, <1>1, <1>2, <1>3, <1>4, <1>5, <1>6, <1>7, StartsUpKeeps

LEMMA DiesWritingKeeps == ASSUME MeshInv, NEW t \in Servers, DiesWriting(t) PROVE MeshInv'
<1>0. /\ MshTyped /\ TasksApart /\ StartsUp(log') /\ serving[t].at = "emit" /\ hurt' = hurt + 1
      /\ Remains([seq |-> nextSeq, entry |-> serving[t].entry])
    BY DEF MeshInv, DiesWriting
<1>1. /\ log' \in Seq(Line) /\ openEnd' \in BOOLEAN
      /\ \A n \in DOMAIN log' : log'[n].entry <= lastEntry /\ log'[n].seq <= nextSeq
      /\ \A n, k \in Readable' : n < k => log'[n].seq < log'[k].seq
      /\ \A x \in OnFile : HasTaken(x) => x \in OnFile'
      /\ openEnd' => /\ log' # <<>>
                     /\ \/ ~HasTaken(log'[Len(log')].entry)
                        \/ log'[Len(log')].entry = serving[t].entry
    BY <1>0, RemainsInOrder
<1>2. serving[t].entry \notin told
    BY <1>0, TaskAt DEF TasksApart
<1>3. openEnd' => log' # <<>> /\ log'[Len(log')].entry \notin told
    BY <1>1, <1>2 DEF HasTaken
<1>4. hurt' \in Nat /\ hurt' # 0
    BY <1>0 DEF MshTyped
<1> QED
    BY <1>0, <1>1, <1>3, <1>4, StartsUpKeeps

LEMMA RepliesKeeps ==
    ASSUME MeshInv, NEW t \in Servers, NEW arrives \in BOOLEAN, Replies(t, arrives) PROVE MeshInv'
<1>0. /\ MshTyped /\ TasksApart /\ LogInOrder /\ LostFew /\ StatusFirst /\ KeysInOrder
      /\ serving[t].at = "answer" /\ Mind(t, NoTask)
      /\ told' = (IF arrives THEN told \cup {serving[t].entry} ELSE told)
      /\ credentials' = (IF arrives /\ serving[t].does = "issue"
                         THEN credentials \cup {Signed} ELSE credentials)
      /\ UNCHANGED <<log, openEnd, nextSeq, book, lastEntry, keyFile, signer, lastKey, rotated,
                     statuses, hurt>>
    BY DEF MeshInv, Replies, Keyring
<1>1. PICK e \in Nat : e = serving[t].entry /\ e \in 1..lastEntry
    BY <1>0, TaskAt DEF TasksApart, MshTyped
<1>2. Serving(t) /\ NoTask \in Serve
    BY <1>0, TaskAt DEF Serve
<1>3. /\ serving' \in [Servers -> Serve] /\ serving'[t] = NoTask
      /\ \A s \in Servers : s # t => serving'[s] = serving[s]
    BY <1>0, <1>2 DEF MshTyped, Mind
<1>4. \A s \in Servers : Serving(s)' => s # t /\ Serving(s) /\ serving'[s] = serving[s]
    BY <1>3 DEF Serving
<1>5. MshTyped'
    BY <1>0, <1>1, <1>3 DEF MshTyped
<1>6. \A x \in told' : x \in told \/ x = e
    BY <1>0, <1>1
<1>7. TasksApart'
  <2>1. \A s \in Servers : Serving(s)' => serving'[s].entry # e
      BY <1>0, <1>1, <1>2, <1>4 DEF TasksApart
  <2> QED
      BY <1>0, <1>4, <1>6, <2>1 DEF TasksApart
<1>8. \A x : HasTaken(x)' => HasTaken(x)
    BY <1>1, <1>2, <1>4, <1>6 DEF HasTaken
<1>9. LogInOrder'
  <2>1. openEnd => log # <<>> /\ ~HasTaken(log[Len(log)].entry)'
    <3>1. PICK x : x = log[Len(log)].entry
        OBVIOUS
    <3>2. openEnd => log # <<>> /\ ~HasTaken(x)'
        BY <1>0, <1>8, <3>1 DEF LogInOrder
    <3> QED
        BY <1>0, <3>1, <3>2
  <2> QED
      BY <1>0, <2>1 DEF LogInOrder, Readable
<1>10. LostFew'
  <2>1. Replied' \subseteq Replied
      BY <1>0, <1>1, <1>3, <1>6 DEF Replied, NoTask
  <2>2. OnFile' = OnFile
      BY <1>0 DEF OnFile, Readable
  <2>3. Replied' \ OnFile' \subseteq (Replied \ OnFile) \cup {}
      BY <2>1, <2>2
  <2>4. openEnd' \in BOOLEAN /\ hurt' \in Nat /\ hurt' = hurt /\ openEnd' = openEnd
      BY <1>0 DEF MshTyped
  <2> QED
      BY <2>3, <2>4, LostStays
<1>11. StatusFirst'
    BY <1>0 DEF StatusFirst
<1>12. KeysInOrder'
    BY <1>0 DEF KeysInOrder, Signed
<1> QED
    BY <1>5, <1>7, <1>9, <1>10, <1>11, <1>12 DEF MeshInv

\* The first of a letter among those that are kept.
LEMMA FirstShape ==
    ASSUME MshTyped, NEW l \in Letters, \E n \in DOMAIN book : book[n].letter = l
    PROVE  /\ FirstOf(l) \in DOMAIN book /\ book[FirstOf(l)].letter = l
           /\ \A m \in 1..(FirstOf(l) - 1) : book[m].letter # l
<1>1. PICK those : those = {n \in DOMAIN book : book[n].letter = l}
    OBVIOUS
<1>2. those \subseteq Nat /\ those # {} /\ those \subseteq DOMAIN book
    BY <1>1 DEF MshTyped
<1>3. PICK k \in those : \A n \in those : k <= n
    BY <1>2, LeastOfNaturals
<1>4. Min(those) \in those /\ \A n \in those : Min(those) <= n
    BY <1>3 DEF Min
<1>5. PICK first \in those : first = FirstOf(l) /\ \A n \in those : first <= n
    BY <1>1, <1>4 DEF FirstOf
<1>6. first \in 1..Len(book) /\ DOMAIN book = 1..Len(book) /\ Len(book) \in Nat
    BY <1>2, <1>5 DEF MshTyped
<1>7. ASSUME NEW m \in 1..(first - 1) PROVE book[m].letter # l
  <2>1. m \in DOMAIN book /\ m < first /\ m \in Nat /\ first \in Nat
      BY <1>6, <1>7
  <2>2. m \notin those
      BY <1>5, <2>1
  <2> QED
      BY <1>1, <2>1, <2>2
<1> QED
    BY <1>1, <1>5, <1>7

LEMMA LooksUpKeeps == ASSUME MeshInv, NEW l \in Letters, LooksUp(l) PROVE MeshInv'
<1>0. /\ MshTyped /\ TasksApart /\ LogInOrder /\ LostFew /\ StatusFirst /\ KeysInOrder
      /\ \E n \in DOMAIN book : book[n].letter = l
      /\ statuses' = [statuses EXCEPT ![l] = @ \cup {book[FirstOf(l)].entry}]
      /\ UNCHANGED <<log, openEnd, nextSeq, book, serving, lastEntry, keyFile, signer, lastKey,
                     rotated, credentials, told, hurt>>
    BY DEF MeshInv, LooksUp, Keyring
<1>1. PICK k \in DOMAIN book :
          k = FirstOf(l) /\ book[k].letter = l /\ \A m \in 1..(k - 1) : book[m].letter # l
    BY <1>0, FirstShape
<1>2. book[k].entry \in Nat
  <2>1. PICK Lines : Lines = Intake
      OBVIOUS
  <2>2. book \in Seq(Lines)
      BY <1>0, <2>1 DEF MshTyped
  <2>3. book[k] \in Lines
      BY <2>2
  <2> QED
      BY <2>1, <2>3 DEF Intake
<1>3. /\ statuses' \in [Letters -> SUBSET Nat]
      /\ statuses'[l] = statuses[l] \cup {book[k].entry}
      /\ \A o \in Letters : o # l => statuses'[o] = statuses[o]
    BY <1>0, <1>1, <1>2 DEF MshTyped
<1>4. MshTyped'
    BY <1>0, <1>3 DEF MshTyped
<1>5. TasksApart' /\ LogInOrder' /\ LostFew' /\ KeysInOrder'
    BY <1>0 DEF TasksApart, LogInOrder, LostFew, KeysInOrder, Serving, HasTaken, Readable,
       Replied, OnFile
<1>6. statuses'[l] = {book[k].entry}
  <2>1. CASE statuses[l] = {}
      BY <1>3, <2>1
  <2>2. ASSUME NEW n \in DOMAIN book, book[n].letter = l, \A m \in 1..(n - 1) : book[m].letter # l,
               statuses[l] = {book[n].entry}
        PROVE  statuses'[l] = {book[k].entry}
    <3>1. n \in Nat /\ k \in Nat /\ n > 0 /\ k > 0
        BY <1>0 DEF MshTyped
    <3>2. n = k
        BY <1>1, <2>2, <3>1
    <3> QED
        BY <1>3, <2>2, <3>2
  <2> QED
      BY <1>0, <2>1, <2>2 DEF StatusFirst
<1>7. StatusFirst'
    BY <1>0, <1>1, <1>3, <1>6 DEF StatusFirst
<1> QED
    BY <1>4, <1>5, <1>7 DEF MeshInv

LEMMA DeletesKeyKeeps == ASSUME MeshInv, DeletesKey PROVE MeshInv'
<1>0. /\ MshTyped /\ TasksApart /\ LogInOrder /\ LostFew /\ StatusFirst /\ KeysInOrder
      /\ keyFile # 0 /\ keyFile' = 0 /\ rotated' = rotated \cup {keyFile}
      /\ UNCHANGED <<log, openEnd, nextSeq, book, serving, lastEntry, signer, credentials, told,
                     statuses, hurt>>
    BY DEF MeshInv, DeletesKey
<1>1. MshTyped' /\ TasksApart' /\ LogInOrder' /\ LostFew' /\ StatusFirst'
    BY <1>0 DEF MshTyped, TasksApart, LogInOrder, LostFew, StatusFirst, Serving, HasTaken, Readable,
       Replied, OnFile
<1>2. KeysInOrder'
    BY <1>0 DEF KeysInOrder
<1> QED
    BY <1>1, <1>2 DEF MeshInv

LEMMA NextMesh == MeshInv /\ [MshNext]_mshVars => MeshInv'
<1> SUFFICES ASSUME MeshInv, [MshNext]_mshVars PROVE MeshInv'
    OBVIOUS
<1>1. CASE UNCHANGED mshVars
  <2>1. UNCHANGED <<log, openEnd, nextSeq, book, serving, lastEntry, keyFile, signer, credentials,
                    told, statuses, hurt, rotated>>
      BY <1>1 DEF mshVars
  <2>2. MshTyped' /\ TasksApart' /\ KeysInOrder'
      BY <2>1 DEF MeshInv, MshTyped, TasksApart, KeysInOrder, Serving
  <2>3. LogInOrder'
      BY <2>1 DEF MeshInv, LogInOrder, Serving, HasTaken, Readable
  <2>4. LostFew'
      BY <2>1 DEF MeshInv, LostFew, Readable, Replied, OnFile
  <2>5. StatusFirst'
      BY <2>1 DEF MeshInv, StatusFirst
  <2> QED
      BY <2>2, <2>3, <2>4, <2>5 DEF MeshInv
<1>2. ASSUME NEW t \in Servers,
             (\E l \in Letters : Intakes(t, l) \/ Decides(t, l) \/ Consumes(t, l))
             \/ Refuses(t) \/ Recommends(t) \/ Issues(t)
      PROVE  MeshInv'
    BY <1>2, TakesUpKeeps DEF Intakes, Decides, Consumes, Refuses, Recommends, Issues
<1>3. ASSUME NEW t \in Servers,
             \/ \E arrives \in BOOLEAN : Replies(t, arrives)
             \/ Emits(t) \/ EmitFails(t) \/ DiesWriting(t)
      PROVE  MeshInv'
    BY <1>3, RepliesKeeps, EmitsKeeps, EmitFailsKeeps, DiesWritingKeeps
<1>4. ASSUME NEW l \in Letters, LooksUp(l) PROVE MeshInv'
    BY <1>4, LooksUpKeeps
<1> QED
    BY <1>1, <1>2, <1>3, <1>4, DiesKeeps, DeletesKeyKeeps DEF MshNext
-----------------------------------------------------------------------------
(* Exports *)

\* Both halves of an imported job are there and agree,
Paired(i) ==
    LET p == stock[i].pair
    IN  /\ p \in DOMAIN stock /\ stock[p].owner = stock[i].owner
        /\ stock[p].pair = i /\ stock[p].of = stock[i].of

\* or the other half is still to be saved.
Awaits(i) ==
    \E a \in DOMAIN importing.ids \ importing.left, k \in importing.left :
        i = importing.ids[a] /\ stock[i].pair = importing.ids[k] /\ file.items[a].pair = k

RowSound(i) ==
    /\ stock[i].kind \in RowKinds /\ stock[i].of \in Nat /\ stock[i].pair \in Nat
    /\ stock[i].kind = "company" => stock[i].of = None /\ stock[i].pair = None
    /\ stock[i].of # None => LET c == stock[i].of
                             IN  /\ c \in DOMAIN stock /\ stock[c].kind = "company"
                                 /\ stock[c].owner = stock[i].owner
    /\ stock[i].pair # None => Paired(i) \/ Awaits(i)

StockSound ==
    /\ lastId \in Nat /\ DOMAIN stock \subseteq 1..lastId
    /\ \A i \in DOMAIN stock : RowSound(i)

\* What an import has saved so far.
IsCopy(a) ==
    LET n == importing.ids[a]  r == file.items[a]
    IN  /\ n \in DOMAIN stock /\ stock[n].kind = r.kind /\ stock[n].owner = importing.owner
        /\ r.of # None \/ r.pair # None => stock[n].of = Mapped(r.of)
        /\ r.pair # None => stock[n].pair = importing.ids[r.pair]

ImportSound ==
    /\ importing = [owner |-> importing.owner, ids |-> importing.ids, left |-> importing.left]
    /\ importing.left \subseteq DOMAIN importing.ids
    /\ importing # NoImport =>
          /\ DOMAIN importing.ids = DOMAIN file.items
          /\ ~file.torn /\ copied = NoCopy
    /\ \A a \in DOMAIN importing.ids : importing.ids[a] \in 1..lastId
    /\ \A a, b \in DOMAIN importing.ids : a < b => importing.ids[a] < importing.ids[b]
    /\ \A a \in importing.left : importing.ids[a] \notin DOMAIN stock
    /\ \A a \in DOMAIN importing.ids \ importing.left : IsCopy(a)

\* A file of one moment has all it refers to.
ItemSound(i) ==
    LET r == file.items[i]
    IN  /\ r.kind \in RowKinds /\ r.of \in Nat /\ r.pair \in Nat
        /\ r.kind = "company" => r.of = None /\ r.pair = None
        /\ r.of # None => r.of \in DOMAIN file.items /\ file.items[r.of].kind = "company"
        /\ r.pair # None => /\ r.pair \in DOMAIN file.items
                            /\ file.items[r.pair].pair = i /\ file.items[r.pair].of = r.of

FileSound ==
    /\ DOMAIN file.items \subseteq 1..lastId /\ file.torn \in BOOLEAN
    /\ ~file.torn => \A i \in DOMAIN file.items : ItemSound(i)

\* An export nobody disturbs has listed what is there, kind by kind.
KindsBy == [at \in {"none", "found", "imported", "write"} |->
               IF at = "none" THEN {} ELSE IF at = "found" THEN {"company"}
               ELSE IF at = "imported" THEN {"company", "found"} ELSE RowKinds]

Due(i) == i \in DOMAIN stock /\ stock[i].owner = exporting.owner /\ stock[i].kind \in KindsBy[exporting.at]

ExportSound ==
    /\ exporting = [at |-> exporting.at, owner |-> exporting.owner, listed |-> exporting.listed,
                    torn |-> exporting.torn]
    /\ exporting.at \in {"none", "found", "imported", "write"} /\ exporting.torn \in BOOLEAN
    /\ DOMAIN exporting.listed \subseteq 1..lastId
    /\ exporting.at = "none" => DOMAIN exporting.listed = {}
    /\ ~exporting.torn => \A i : i \in DOMAIN exporting.listed <=> Due(i)

CopiedSound ==
    \A a \in DOMAIN copied.ids :
        LET n == copied.ids[a]  r == copied.of.items[a]
        IN  /\ n \in DOMAIN stock /\ stock[n].kind = r.kind /\ stock[n].owner = copied.owner
            /\ r.of # None => stock[n].of = copied.ids[r.of] /\ stock[n].of # None
            /\ r.pair # None => stock[n].pair = copied.ids[r.pair] /\ stock[n].pair # None

Undisturbed == StockSound /\ ImportSound /\ FileSound /\ ExportSound /\ CopiedSound
ExportsInv == disturbed \in BOOLEAN /\ (disturbed \/ Undisturbed)

LEMMA NoImportShape == NoImport.ids = <<>> /\ NoImport.left = {} /\ DOMAIN NoImport.ids = {}
BY DEF NoImport

LEMMA ExportsKeep == ExportsInv => ExportsHold
<1> SUFFICES ASSUME ExportsInv, ~disturbed PROVE ExportsHold
    BY DEF ExportsHold, ReferencesHold, PairsAgree, FileClosed, CopiesWhole
<1>1. StockSound /\ FileSound /\ CopiedSound
    BY DEF ExportsInv, Undisturbed
<1>2. ASSUME importing = NoImport, NEW i \in DOMAIN stock
      PROVE  /\ stock[i].of # None => stock[i].of \in DOMAIN stock
                                      /\ stock[stock[i].of].owner = stock[i].owner
             /\ stock[i].pair # None => Paired(i)
  <2>1. RowSound(i)
      BY <1>1 DEF StockSound
  <2>2. ~Awaits(i)
      BY <1>2, NoImportShape DEF Awaits
  <2> QED
      BY <2>1, <2>2 DEF RowSound
<1>3. ReferencesHold
    BY <1>2 DEF ReferencesHold, Paired
<1>4. PairsAgree
    BY <1>2 DEF PairsAgree, Paired
<1>5. FileClosed
    BY <1>1 DEF FileClosed, FileSound, ItemSound
<1>6. CopiesWhole
    BY <1>1 DEF CopiesWhole, CopiedSound
<1> QED
    BY <1>3, <1>4, <1>5, <1>6 DEF ExportsHold

LEMMA InitExports == ExpInit => ExportsInv
<1> SUFFICES ASSUME ExpInit PROVE ExportsInv
    OBVIOUS
<1>1. /\ stock = <<>> /\ lastId = 0 /\ exporting = NoExport /\ file = NoFile
      /\ importing = NoImport /\ copied = NoCopy /\ disturbed = FALSE
    BY DEF ExpInit
<1>2. DOMAIN stock = {} /\ DOMAIN file.items = {} /\ DOMAIN exporting.listed = {}
      /\ DOMAIN copied.ids = {} /\ file.torn = FALSE /\ exporting.torn = FALSE
      /\ exporting.at = "none"
    BY <1>1 DEF NoFile, NoExport, NoCopy
<1>3. StockSound
    BY <1>1, <1>2 DEF StockSound
<1>4. ImportSound
    BY <1>1, NoImportShape DEF ImportSound, NoImport
<1>5. FileSound /\ CopiedSound
    BY <1>2 DEF FileSound, CopiedSound
<1>6. ExportSound
    BY <1>1, <1>2 DEF ExportSound, Due, KindsBy, NoExport
<1> QED
    BY <1>1, <1>3, <1>4, <1>5, <1>6 DEF ExportsInv, Undisturbed

LEMMA HasShape ==
    ASSUME NEW i, NEW what, stock' = Has(i, what)
    PROVE  /\ DOMAIN stock' = DOMAIN stock \cup {i} /\ stock'[i] = what
           /\ \A j \in DOMAIN stock : j # i => stock'[j] = stock[j]
BY DEF Has

\* Whatever is done to the rows of one user, an export of another is not torn.
LEMMA TearsKeeps ==
    ASSUME ExportSound, NEW u, Tears(u), lastId \in Nat, lastId' \in Nat, lastId <= lastId',
           \A i : i \in DOMAIN stock /\ stock[i].owner # u =>
               /\ i \in DOMAIN stock'
               /\ stock'[i].owner = stock[i].owner /\ stock'[i].kind = stock[i].kind,
           \A i : i \in DOMAIN stock' /\ stock'[i].owner # u => i \in DOMAIN stock /\ stock[i].owner # u
    PROVE  ExportSound'
<1>0. 1..lastId \subseteq 1..lastId'
    OBVIOUS
<1>1. CASE exporting.owner = u
  <2>1. exporting' = [exporting EXCEPT !.torn = TRUE]
      BY <1>1 DEF Tears
  <2>2. exporting' = [at |-> exporting.at, owner |-> exporting.owner,
                      listed |-> exporting.listed, torn |-> TRUE]
      BY <2>1 DEF ExportSound
  <2> QED
      BY <1>0, <2>2 DEF ExportSound
<1>2. CASE exporting.owner # u
  <2>1. exporting' = exporting
      BY <1>2 DEF Tears
  <2>2. \A i : Due(i)' <=> Due(i)
      BY <1>2, <2>1 DEF Due
  <2> QED
      BY <1>0, <2>1, <2>2 DEF ExportSound
<1> QED
    BY <1>1, <1>2

\* Rows that are added are new, and what others refer to stays.
LEMMA GrowthKeeps ==
    ASSUME Undisturbed, NEW u, Tears(u), UNCHANGED <<file, importing, copied>>,
           lastId' \in Nat, lastId <= lastId', DOMAIN stock \subseteq DOMAIN stock',
           \A i \in DOMAIN stock' : i \in DOMAIN stock \/ (i \in (lastId + 1)..lastId' /\ stock'[i].owner = u),
           \A i \in DOMAIN stock :
               /\ stock'[i].kind = stock[i].kind /\ stock'[i].owner = stock[i].owner
               /\ stock[i].of # None => stock'[i].of = stock[i].of
               /\ stock[i].pair # None => stock'[i].pair = stock[i].pair /\ stock'[i].of = stock[i].of,
           \A i \in DOMAIN stock' : RowSound(i)'
    PROVE  Undisturbed'
<1>0. /\ StockSound /\ ImportSound /\ FileSound /\ ExportSound /\ CopiedSound /\ lastId \in Nat
      /\ DOMAIN stock \subseteq 1..lastId
    BY DEF Undisturbed, StockSound
<1>1. 1..lastId \subseteq 1..lastId' /\ \A i \in 1..lastId : i \notin (lastId + 1)..lastId'
    BY <1>0
<1>2. StockSound'
  <2>1. DOMAIN stock' \subseteq 1..lastId'
      BY <1>0, <1>1
  <2> QED
      BY <2>1 DEF StockSound
<1>3. ImportSound'
  <2>1. \A a \in importing.left : importing.ids[a] \notin DOMAIN stock'
      BY <1>0, <1>1 DEF ImportSound
  <2>2. ASSUME NEW a \in DOMAIN importing.ids \ importing.left PROVE IsCopy(a)'
    <3>1. IsCopy(a)
        BY <1>0 DEF ImportSound
    <3>2. PICK n, r : n = importing.ids[a] /\ r = file.items[a]
        OBVIOUS
    <3>3. PICK of, pair : of = Mapped(r.of) /\ pair = importing.ids[r.pair]
        OBVIOUS
    <3>4. /\ n \in DOMAIN stock /\ stock[n].kind = r.kind /\ stock[n].owner = importing.owner
          /\ r.of # None \/ r.pair # None => stock[n].of = of
          /\ r.pair # None => stock[n].pair = pair
        BY <3>1, <3>2, <3>3 DEF IsCopy
    <3>5. /\ r.of # None => of # None
          /\ r.pair # None => pair # None
      <4>1. importing # NoImport
          BY NoImportShape
      <4>2. DOMAIN importing.ids = DOMAIN file.items /\ ~file.torn
          BY <1>0, <4>1 DEF ImportSound
      <4>3. ItemSound(a)
          BY <1>0, <4>2 DEF FileSound
      <4>4. \A b \in DOMAIN importing.ids : importing.ids[b] # None
          BY <1>0 DEF ImportSound, None
      <4>5. /\ r.of # None => r.of \in DOMAIN importing.ids
            /\ r.pair # None => r.pair \in DOMAIN importing.ids
          BY <3>2, <4>2, <4>3 DEF ItemSound
      <4> QED
          BY <3>3, <4>4, <4>5 DEF Mapped
    <3>6. /\ n \in DOMAIN stock' /\ stock'[n].kind = r.kind /\ stock'[n].owner = importing.owner
          /\ r.of # None \/ r.pair # None => stock'[n].of = of
          /\ r.pair # None => stock'[n].pair = pair
        BY <3>4, <3>5
    <3>7. Mapped(r.of)' = of /\ file' = file /\ importing' = importing
        BY <3>3 DEF Mapped
    <3> QED
        BY <3>2, <3>3, <3>6, <3>7 DEF IsCopy, Mapped
  <2> QED
      BY <1>0, <1>1, <2>1, <2>2 DEF ImportSound
<1>4. FileSound'
    BY <1>0, <1>1 DEF FileSound, ItemSound
<1>5. ExportSound'
    BY <1>0, <1>1, TearsKeeps
<1>6. CopiedSound'
  <2> SUFFICES ASSUME NEW a \in DOMAIN copied.ids
               PROVE  LET n == copied.ids[a]  r == copied.of.items[a]
                      IN  /\ n \in DOMAIN stock' /\ stock'[n].kind = r.kind
                          /\ stock'[n].owner = copied.owner
                          /\ r.of # None => stock'[n].of = copied.ids[r.of] /\ stock'[n].of # None
                          /\ r.pair # None => stock'[n].pair = copied.ids[r.pair] /\ stock'[n].pair # None
      BY DEF CopiedSound
  <2>1. PICK n, r : n = copied.ids[a] /\ r = copied.of.items[a]
      OBVIOUS
  <2>2. /\ n \in DOMAIN stock /\ stock[n].kind = r.kind /\ stock[n].owner = copied.owner
        /\ r.of # None => stock[n].of = copied.ids[r.of] /\ stock[n].of # None
        /\ r.pair # None => stock[n].pair = copied.ids[r.pair] /\ stock[n].pair # None
      BY <1>0, <2>1 DEF CopiedSound
  <2> QED
      BY <2>1, <2>2
<1> QED
    BY <1>2, <1>3, <1>4, <1>5, <1>6 DEF Undisturbed

\* A row that stays as it is stays sound while others come.
LEMMA RowStays ==
    ASSUME StockSound, UNCHANGED <<file, importing>>, DOMAIN stock \subseteq DOMAIN stock',
           \A i \in DOMAIN stock :
               /\ stock'[i].kind = stock[i].kind /\ stock'[i].owner = stock[i].owner
               /\ stock[i].of # None => stock'[i].of = stock[i].of
               /\ stock[i].pair # None => stock'[i].pair = stock[i].pair /\ stock'[i].of = stock[i].of,
           NEW j \in DOMAIN stock, stock'[j].of = stock[j].of, stock'[j].pair = stock[j].pair
    PROVE  RowSound(j)'
<1>1. RowSound(j) /\ j # None
    BY DEF StockSound, None
<1>2. PICK p, c : p = stock[j].pair /\ c = stock[j].of
    OBVIOUS
<1>3. /\ stock'[j].kind = stock[j].kind /\ stock'[j].owner = stock[j].owner
      /\ stock'[j].pair = p /\ stock'[j].of = c
    BY <1>2
<1>4. c # None => /\ c \in DOMAIN stock /\ stock[c].kind = "company" /\ stock[c].owner = stock[j].owner
    BY <1>1, <1>2 DEF RowSound
<1>5. c # None => /\ c \in DOMAIN stock' /\ stock'[c].kind = "company"
                  /\ stock'[c].owner = stock[j].owner
    BY <1>4
<1>6. Paired(j) => /\ p \in DOMAIN stock' /\ stock'[p].owner = stock[j].owner
                   /\ stock'[p].pair = j /\ stock'[p].of = c
    BY <1>1, <1>2 DEF Paired
<1>7. Awaits(j) => Awaits(j)'
    BY <1>2, <1>3 DEF Awaits
<1>8. p # None => Paired(j)' \/ Awaits(j)'
    BY <1>1, <1>2, <1>3, <1>6, <1>7 DEF RowSound, Paired
<1>9. stock[j].kind \in RowKinds /\ c \in Nat /\ p \in Nat /\ (stock[j].kind = "company" => c = None /\ p = None)
    BY <1>1, <1>2 DEF RowSound
<1> QED
    BY <1>3, <1>5, <1>8, <1>9 DEF RowSound

LEMMA AddsKeeps ==
    ASSUME ExportsInv, NEW u, NEW kind \in {"company", "found"}, NEW c \in OfKind("company", u) \cup {None},
           kind = "company" => c = None, Adds(Row(kind, u, c, None))
    PROVE  ExportsInv'
<1>0. disturbed' = disturbed
    BY DEF Adds
<1> SUFFICES ASSUME ~disturbed PROVE Undisturbed'
    BY <1>0 DEF ExportsInv
<1>1. PICK what : what = Row(kind, u, c, None)
    OBVIOUS
<1>2. what.kind = kind /\ what.owner = u /\ what.of = c /\ what.pair = None
    BY <1>1 DEF Row
<1>3. /\ Undisturbed /\ StockSound /\ lastId \in Nat /\ DOMAIN stock \subseteq 1..lastId
    BY DEF ExportsInv, Undisturbed, StockSound
<1>4. PICK n \in Nat : n = lastId + 1 /\ n # None /\ n \notin DOMAIN stock
    BY <1>3 DEF None
<1>5. /\ lastId' = n /\ stock' = Has(n, what) /\ Tears(u) /\ UNCHANGED <<file, importing, copied>>
    BY <1>1, <1>2, <1>4 DEF Adds
<1>6. /\ DOMAIN stock' = DOMAIN stock \cup {n} /\ stock'[n] = what
      /\ \A j \in DOMAIN stock : stock'[j] = stock[j]
    BY <1>4, <1>5, HasShape
<1>7. c = None \/ (c \in DOMAIN stock /\ stock[c].kind = "company" /\ stock[c].owner = u /\ c \in Nat)
    BY <1>3 DEF OfKind
<1>8. RowSound(n)'
    BY <1>2, <1>6, <1>7 DEF RowSound, RowKinds, None
<1>9. \A j \in DOMAIN stock : RowSound(j)'
    BY <1>3, <1>5, <1>6, RowStays
<1>10. \A j \in DOMAIN stock' : RowSound(j)'
    BY <1>6, <1>8, <1>9
<1>11. lastId' \in Nat /\ lastId <= lastId' /\ n \in (lastId + 1)..lastId'
    BY <1>3, <1>4, <1>5
<1>12. \A i \in DOMAIN stock' : i \in DOMAIN stock \/ (i \in (lastId + 1)..lastId' /\ stock'[i].owner = u)
    BY <1>2, <1>6, <1>11
<1> QED
    BY <1>3, <1>5, <1>6, <1>10, <1>11, <1>12, GrowthKeeps

LEMMA ImportsJobKeeps ==
    ASSUME ExportsInv, NEW d \in DOMAIN stock, ImportsJob(d) PROVE ExportsInv'
<1>0. disturbed' = disturbed
    BY DEF ImportsJob
<1> SUFFICES ASSUME ~disturbed PROVE Undisturbed'
    BY <1>0 DEF ExportsInv
<1>1. /\ Undisturbed /\ StockSound /\ ImportSound /\ lastId \in Nat /\ DOMAIN stock \subseteq 1..lastId
    BY DEF ExportsInv, Undisturbed, StockSound
<1>2. PICK u, of : u = stock[d].owner /\ of = stock[d].of
    OBVIOUS
<1>3. stock[d].kind = "found" /\ stock[d].pair = None /\ d \in Nat /\ d # None
    BY <1>1 DEF ImportsJob, None
<1>4. PICK c \in (IF of # None THEN {of} \cap OfKind("company", u)
                  ELSE OfKind("company", u) \cup {lastId + 1}) :
          LET new == IF c \in DOMAIN stock THEN stock ELSE Has(c, Row("company", u, None, None))
              i == IF c \in DOMAIN stock THEN lastId + 1 ELSE c + 1
          IN  /\ lastId' = i
              /\ stock' = [j \in DOMAIN new \cup {i} |->
                             CASE j = i -> Row("imported", u, c, d)
                               [] j = d -> Row("found", u, c, i)
                               [] OTHER -> new[j]]
              /\ Tears(u) /\ UNCHANGED <<file, importing, copied, disturbed>>
    BY <1>2 DEF ImportsJob
<1>5. PICK new : new = (IF c \in DOMAIN stock THEN stock ELSE Has(c, Row("company", u, None, None)))
    OBVIOUS
<1>6. PICK i : i = (IF c \in DOMAIN stock THEN lastId + 1 ELSE c + 1)
    OBVIOUS
<1>7. c \in OfKind("company", u) \/ c = lastId + 1
    BY <1>4
<1>8. /\ c \in Nat /\ c # None /\ i \in Nat /\ i # None /\ i \notin DOMAIN stock /\ i # c /\ i # d
      /\ lastId < i /\ c # d
      /\ c \notin DOMAIN stock => c = lastId + 1 /\ i = lastId + 2
      /\ c \in DOMAIN stock => i = lastId + 1 /\ stock[c].kind = "company" /\ stock[c].owner = u
      /\ of # None => c = of
  <2>1. CASE c \in OfKind("company", u)
    <3>1. c \in DOMAIN stock /\ stock[c].kind = "company" /\ stock[c].owner = u
        BY <2>1 DEF OfKind
    <3>2. c \in Nat /\ c # None /\ i = lastId + 1 /\ c <= lastId /\ d <= lastId /\ d \in Nat
        BY <1>1, <1>6, <3>1 DEF None
    <3>3. c # d
        BY <1>3, <3>1
    <3>4. i \notin DOMAIN stock
        BY <1>1, <3>2
    <3>5. of # None => c = of
        BY <1>4
    <3> QED
        BY <1>1, <3>1, <3>2, <3>3, <3>4, <3>5 DEF None
  <2>2. CASE c \notin OfKind("company", u)
    <3>1. c = lastId + 1 /\ of = None
        BY <1>4, <2>2
    <3>2. c \notin DOMAIN stock /\ c \in Nat /\ c # None /\ d \in Nat /\ d <= lastId
        BY <1>1, <3>1 DEF None
    <3>3. i = lastId + 2
        BY <1>1, <1>6, <3>1, <3>2
    <3>4. i \notin DOMAIN stock
        BY <1>1, <3>3
    <3> QED
        BY <1>1, <3>1, <3>2, <3>3, <3>4 DEF None
  <2> QED
      BY <2>1, <2>2
<1>9. /\ DOMAIN new = DOMAIN stock \cup {c}
      /\ \A j \in DOMAIN stock : new[j] = stock[j]
      /\ c \notin DOMAIN stock => new[c] = Row("company", u, None, None)
    BY <1>5 DEF Has
<1>10. PICK half, other : half = Row("imported", u, c, d) /\ other = Row("found", u, c, i)
    OBVIOUS
<1>11. /\ half.kind = "imported" /\ half.owner = u /\ half.of = c /\ half.pair = d
       /\ other.kind = "found" /\ other.owner = u /\ other.of = c /\ other.pair = i
    BY <1>10 DEF Row
<1>12. /\ lastId' = i /\ Tears(u) /\ UNCHANGED <<file, importing, copied>>
       /\ DOMAIN stock' = DOMAIN stock \cup {c, i} /\ stock'[i] = half /\ stock'[d] = other
       /\ \A j \in DOMAIN stock : j # d => stock'[j] = stock[j]
       /\ c \notin DOMAIN stock => stock'[c] = Row("company", u, None, None)
  <2>1. /\ lastId' = i /\ Tears(u) /\ UNCHANGED <<file, importing, copied>>
        /\ stock' = [j \in DOMAIN new \cup {i} |->
                       CASE j = i -> half [] j = d -> other [] OTHER -> new[j]]
      BY <1>4, <1>5, <1>6, <1>10
  <2>2. DOMAIN stock' = DOMAIN stock \cup {c, i}
      BY <1>9, <2>1
  <2>3. stock'[i] = half
      BY <1>8, <2>1
  <2>4. stock'[d] = other
      BY <1>8, <1>9, <2>1
  <2>5. ASSUME NEW j \in DOMAIN new, j # d, j # i PROVE stock'[j] = new[j]
      BY <2>1, <2>5
  <2> QED
      BY <1>8, <1>9, <2>1, <2>2, <2>3, <2>4, <2>5
<1>13. /\ c \in DOMAIN stock' /\ stock'[c].kind = "company" /\ stock'[c].owner = u
       /\ c \notin DOMAIN stock => stock'[c].of = None /\ stock'[c].pair = None
    BY <1>8, <1>12 DEF Row
<1>14. \A j \in DOMAIN stock :
           /\ stock'[j].kind = stock[j].kind /\ stock'[j].owner = stock[j].owner
           /\ stock[j].of # None => stock'[j].of = stock[j].of
           /\ stock[j].pair # None => stock'[j].pair = stock[j].pair /\ stock'[j].of = stock[j].of
    BY <1>2, <1>3, <1>8, <1>11, <1>12
<1>15. ASSUME NEW j \in DOMAIN stock, j # d PROVE RowSound(j)'
  <2>1. stock'[j] = stock[j] /\ DOMAIN stock \subseteq DOMAIN stock'
      BY <1>12, <1>15
  <2> QED
      BY <1>1, <1>12, <1>14, <2>1, RowStays
<1>16. RowSound(d)'
  <2>1. Paired(d)'
      BY <1>11, <1>12 DEF Paired
  <2> QED
      BY <1>8, <1>11, <1>12, <1>13, <2>1 DEF RowSound, RowKinds, None
<1>17. RowSound(i)'
  <2>1. Paired(i)'
      BY <1>11, <1>12 DEF Paired
  <2> QED
      BY <1>3, <1>8, <1>11, <1>12, <1>13, <2>1 DEF RowSound, RowKinds, None
<1>18. c \notin DOMAIN stock => RowSound(c)'
    BY <1>13 DEF RowSound, RowKinds, None
<1>19. \A j \in DOMAIN stock' : RowSound(j)'
    BY <1>12, <1>15, <1>16, <1>17, <1>18
<1>20. /\ lastId' \in Nat /\ lastId <= lastId' /\ DOMAIN stock \subseteq DOMAIN stock'
    BY <1>1, <1>8, <1>12
<1>21. \A j \in DOMAIN stock' : j \in DOMAIN stock \/ (j \in (lastId + 1)..lastId' /\ stock'[j].owner = u)
  <2>1. i \in (lastId + 1)..lastId' /\ (c \notin DOMAIN stock => c \in (lastId + 1)..lastId')
      BY <1>1, <1>8, <1>12
  <2> QED
      BY <1>11, <1>12, <1>13, <2>1
<1> QED
    BY <1>1, <1>12, <1>14, <1>19, <1>20, <1>21, GrowthKeeps

\* Where only the export moves.
LEMMA ListsKeeps ==
    ASSUME Undisturbed, NEW u, NEW kind, NEW at, Lists(u, kind, at),
           \/ exporting.at = "none" /\ kind = "company" /\ at = "found"
           \/ exporting.at = "found" /\ u = exporting.owner /\ kind = "found" /\ at = "imported"
           \/ exporting.at = "imported" /\ u = exporting.owner /\ kind = "imported" /\ at = "write"
    PROVE  Undisturbed'
<1>0. /\ StockSound /\ ImportSound /\ FileSound /\ ExportSound /\ CopiedSound
      /\ DOMAIN stock \subseteq 1..lastId /\ UNCHANGED <<stock, lastId, file, importing, copied>>
    BY DEF Undisturbed, StockSound, Lists
<1>1. PICK L : L = [i \in DOMAIN exporting.listed \cup OfKind(kind, u) |->
                       IF i \in DOMAIN exporting.listed THEN exporting.listed[i] ELSE stock[i]]
    OBVIOUS
<1>2. exporting' = [at |-> at, owner |-> u, listed |-> L, torn |-> exporting.torn]
  <2>1. exporting' = [exporting EXCEPT !.owner = u, !.at = at, !.listed = L]
      BY <1>1 DEF Lists
  <2>2. exporting = [at |-> exporting.at, owner |-> exporting.owner, listed |-> exporting.listed,
                     torn |-> exporting.torn]
      BY <1>0 DEF ExportSound
  <2> QED
      BY <2>1, <2>2
<1>3. /\ KindsBy[at] = KindsBy[exporting.at] \cup {kind} /\ at \in {"found", "imported", "write"}
      /\ exporting.at = "none" => KindsBy[exporting.at] = {}
    BY DEF KindsBy, RowKinds
<1>4. DOMAIN exporting'.listed = DOMAIN exporting.listed \cup OfKind(kind, u)
    BY <1>1, <1>2
<1>5. ASSUME ~exporting.torn, NEW i
      PROVE  i \in DOMAIN exporting'.listed <=> Due(i)'
  <2>1. Due(i)' <=> i \in DOMAIN stock /\ stock[i].owner = u
                       /\ stock[i].kind \in KindsBy[exporting.at] \cup {kind}
      BY <1>0, <1>2, <1>3 DEF Due
  <2>2. i \in DOMAIN exporting.listed <=> Due(i)
      BY <1>0, <1>5 DEF ExportSound
  <2>3. i \in OfKind(kind, u) <=> i \in DOMAIN stock /\ stock[i].owner = u /\ stock[i].kind = kind
      BY DEF OfKind
  <2>4. Due(i) <=> i \in DOMAIN stock /\ stock[i].owner = u /\ stock[i].kind \in KindsBy[exporting.at]
      BY <1>3 DEF Due
  <2> QED
      BY <1>4, <2>1, <2>2, <2>3, <2>4
<1>6. ExportSound'
  <2>1. DOMAIN exporting'.listed \subseteq 1..lastId'
      BY <1>0, <1>4 DEF ExportSound, OfKind
  <2> QED
      BY <1>0, <1>2, <1>3, <1>5, <2>1 DEF ExportSound
<1>7. StockSound' /\ CopiedSound' /\ FileSound'
    BY <1>0 DEF StockSound, RowSound, Paired, Awaits, CopiedSound, FileSound, ItemSound
<1>8. ImportSound'
    BY <1>0 DEF ImportSound, IsCopy, Mapped
<1> QED
    BY <1>6, <1>7, <1>8 DEF Undisturbed

LEMMA WritesFileKeeps ==
    ASSUME Undisturbed, WritesFile PROVE Undisturbed'
<1>0. /\ StockSound /\ ImportSound /\ FileSound /\ ExportSound /\ CopiedSound
      /\ DOMAIN stock \subseteq 1..lastId /\ UNCHANGED <<stock, lastId, importing, copied>>
      /\ importing = NoImport /\ exporting.at = "write" /\ exporting' = NoExport
    BY DEF Undisturbed, StockSound, WritesFile
<1>1. PICK items : items = [i \in DOMAIN exporting.listed |->
                              IF i \in DOMAIN stock THEN stock[i] ELSE exporting.listed[i]]
    OBVIOUS
<1>2. file' = [owner |-> exporting.owner, torn |-> exporting.torn, items |-> items]
    BY <1>1 DEF WritesFile
<1>3. DOMAIN items = DOMAIN exporting.listed
    BY <1>1
<1>4. \A i : ~Awaits(i) /\ ~Awaits(i)'
    BY <1>0, NoImportShape DEF Awaits
<1>5. StockSound'
    BY <1>0, <1>4 DEF StockSound, RowSound, Paired
<1>6. ImportSound'
    BY <1>0, NoImportShape DEF ImportSound
<1>7. ASSUME ~exporting.torn, NEW i \in DOMAIN items PROVE ItemSound(i)'
  <2>1. \A j : j \in DOMAIN items <=> j \in DOMAIN stock /\ stock[j].owner = exporting.owner
    <3>1. \A j : j \in DOMAIN items <=> Due(j)
        BY <1>0, <1>3, <1>7 DEF ExportSound
    <3>2. KindsBy[exporting.at] = RowKinds
        BY <1>0 DEF KindsBy
    <3>3. \A j \in DOMAIN stock : stock[j].kind \in RowKinds
        BY <1>0 DEF StockSound, RowSound
    <3> QED
        BY <3>1, <3>2, <3>3 DEF Due
  <2>2. \A j \in DOMAIN items : items[j] = stock[j]
      BY <1>1, <2>1
  <2>3. RowSound(i) /\ ~Awaits(i) /\ stock[i].owner = exporting.owner
      BY <1>0, <1>4, <2>1 DEF StockSound
  <2>4. PICK r : r = items[i] /\ r = stock[i]
      BY <2>2
  <2>5. /\ r.kind \in RowKinds /\ r.of \in Nat /\ r.pair \in Nat
        /\ r.kind = "company" => r.of = None /\ r.pair = None
        /\ r.of # None => /\ r.of \in DOMAIN stock /\ stock[r.of].kind = "company"
                          /\ stock[r.of].owner = exporting.owner
        /\ r.pair # None => /\ r.pair \in DOMAIN stock /\ stock[r.pair].owner = exporting.owner
                            /\ stock[r.pair].pair = i /\ stock[r.pair].of = r.of
      BY <2>3, <2>4 DEF RowSound, Paired
  <2>6. /\ r.of # None => r.of \in DOMAIN items /\ items[r.of].kind = "company"
        /\ r.pair # None => /\ r.pair \in DOMAIN items
                            /\ items[r.pair].pair = i /\ items[r.pair].of = r.of
      BY <2>1, <2>2, <2>5
  <2>7. file'.items = items
      BY <1>2
  <2> QED
      BY <2>4, <2>5, <2>6, <2>7 DEF ItemSound
<1>8. FileSound'
  <2>1. file'.torn = exporting.torn /\ file'.items = items
      BY <1>2
  <2> QED
      BY <1>0, <1>3, <1>7, <2>1 DEF FileSound, ExportSound
<1>9. ExportSound'
  <2>1. /\ exporting' = [at |-> "none", owner |-> "none", listed |-> <<>>, torn |-> FALSE]
        /\ DOMAIN exporting'.listed = {}
      BY <1>0 DEF NoExport
  <2> QED
      BY <2>1 DEF ExportSound, Due, KindsBy
<1>10. CopiedSound'
    BY <1>0 DEF CopiedSound
<1> QED
    BY <1>5, <1>6, <1>8, <1>9, <1>10 DEF Undisturbed

LEMMA ImportStartsKeeps ==
    ASSUME ExportsInv, NEW u, ImportStarts(u) PROVE ExportsInv'
<1>0. disturbed' = (disturbed \/ file.torn)
    BY DEF ImportStarts
<1>a. disturbed => disturbed' \in BOOLEAN /\ disturbed'
    BY <1>0
<1>b. ~disturbed => file.torn \in BOOLEAN /\ disturbed' \in BOOLEAN
    BY <1>0 DEF ExportsInv, Undisturbed, FileSound
<1> SUFFICES ASSUME ~disturbed, ~file.torn PROVE Undisturbed'
    BY <1>0, <1>a, <1>b DEF ExportsInv
<1>1. /\ StockSound /\ ImportSound /\ FileSound /\ ExportSound /\ CopiedSound
      /\ DOMAIN stock \subseteq 1..lastId /\ lastId \in Nat /\ UNCHANGED <<stock, file>>
      /\ importing = NoImport /\ copied' = NoCopy /\ Tears(u)
    BY DEF ExportsInv, Undisturbed, StockSound, ImportStarts
<1>2. PICK D, n : D = DOMAIN file.items /\ n = Cardinality(D)
    OBVIOUS
<1>3. n \in Nat
  <2>1. D \subseteq 1..lastId /\ IsFiniteSet(1..lastId)
      BY <1>1, <1>2, FS_Interval DEF FileSound
  <2> QED
      BY <1>2, <2>1, FS_Subset, FS_CardinalityType
<1>4. /\ lastId' = lastId + n
      /\ \E ids \in [D -> (lastId + 1)..(lastId + n)] :
              /\ \A i, j \in DOMAIN ids : i < j => ids[i] < ids[j]
              /\ importing' = [owner |-> u, ids |-> ids, left |-> DOMAIN ids]
    BY <1>2 DEF ImportStarts
<1>5. PICK ids \in [D -> (lastId + 1)..(lastId + n)] :
              /\ \A i, j \in DOMAIN ids : i < j => ids[i] < ids[j]
              /\ importing' = [owner |-> u, ids |-> ids, left |-> DOMAIN ids]
    BY <1>4
<1>6. lastId' \in Nat /\ lastId <= lastId' /\ 1..lastId \subseteq 1..lastId'
    BY <1>1, <1>3, <1>4
<1>7. \A a \in D : ids[a] \in 1..lastId' /\ ids[a] \notin DOMAIN stock
  <2>1. \A m \in (lastId + 1)..(lastId + n) : m \in 1..lastId' /\ m \notin 1..lastId
      BY <1>1, <1>3, <1>4
  <2> QED
      BY <1>1, <1>5, <2>1
<1>8. StockSound'
  <2>1. ASSUME NEW i \in DOMAIN stock PROVE RowSound(i)'
    <3>1. RowSound(i) /\ ~Awaits(i)
        BY <1>1, NoImportShape DEF StockSound, Awaits
    <3> QED
        BY <1>1, <3>1 DEF RowSound, Paired
  <2> QED
      BY <1>1, <1>6, <2>1 DEF StockSound
<1>9. ImportSound'
  <2>1. /\ importing'.ids = ids /\ importing'.left = DOMAIN ids /\ importing'.owner = u /\ DOMAIN ids = D
      BY <1>5
  <2> QED
      BY <1>1, <1>2, <1>5, <1>7, <2>1 DEF ImportSound
<1>10. FileSound'
    BY <1>1, <1>6 DEF FileSound, ItemSound
<1>11. ExportSound'
    BY <1>1, <1>6, TearsKeeps
<1>12. CopiedSound'
    BY <1>1 DEF CopiedSound, NoCopy
<1> QED
    BY <1>8, <1>9, <1>10, <1>11, <1>12 DEF Undisturbed

LEMMA DeletesCompanyKeeps ==
    ASSUME ExportsInv, NEW c \in DOMAIN stock, DeletesCompany(c) PROVE ExportsInv'
<1>1. PICK u, away : u = stock[c].owner
                     /\ away = {i \in DOMAIN stock : i = c \/ (stock[i].of = c /\ stock[i].owner = u)}
    OBVIOUS
<1>2. /\ stock[c].kind = "company"
      /\ stock' = Restrict(stock, DOMAIN stock \ away) /\ Tears(u)
      /\ copied' = IF copied.owner = u THEN NoCopy ELSE copied
      /\ disturbed' = (disturbed \/ importing.owner = u)
      /\ UNCHANGED <<lastId, file, importing>>
    BY <1>1 DEF DeletesCompany
<1>a. disturbed \in BOOLEAN /\ disturbed' \in BOOLEAN
    BY <1>2 DEF ExportsInv
<1> SUFFICES ASSUME ~disturbed, importing.owner # u PROVE Undisturbed'
    BY <1>2, <1>a DEF ExportsInv
<1>3. /\ StockSound /\ ImportSound /\ FileSound /\ ExportSound /\ CopiedSound
      /\ DOMAIN stock \subseteq 1..lastId /\ lastId \in Nat /\ c # None
    BY DEF ExportsInv, Undisturbed, StockSound, None
<1>4. /\ DOMAIN stock' = DOMAIN stock \ away
      /\ \A i \in DOMAIN stock' : stock'[i] = stock[i]
    BY <1>2 DEF Restrict
<1>5. \A i \in DOMAIN stock : i \in away => stock[i].owner = u
    BY <1>1
<1>6. ASSUME NEW i \in DOMAIN stock' PROVE RowSound(i)'
  <2>1. RowSound(i) /\ i \in DOMAIN stock /\ i \notin away /\ stock'[i] = stock[i]
      BY <1>3, <1>4 DEF StockSound
  <2>2. i # c /\ ~(stock[i].of = c /\ stock[i].owner = u)
      BY <1>1, <2>1
  <2>3. PICK of, p : of = stock[i].of /\ p = stock[i].pair
      OBVIOUS
  <2>4. ASSUME of # None
        PROVE  of \in DOMAIN stock' /\ stock'[of].kind = "company" /\ stock'[of].owner = stock[i].owner
    <3>1. of \in DOMAIN stock /\ stock[of].kind = "company" /\ stock[of].owner = stock[i].owner
        BY <2>1, <2>3, <2>4 DEF RowSound
    <3>2. RowSound(of)
        BY <1>3, <3>1 DEF StockSound
    <3>3. stock[of].of = None
        BY <3>1, <3>2 DEF RowSound
    <3>4. of # c
        BY <1>1, <2>2, <2>3, <3>1
    <3> QED
        BY <1>1, <1>3, <1>4, <3>1, <3>3, <3>4
  <2>5. ASSUME Paired(i), p # None PROVE Paired(i)'
    <3>1. /\ p \in DOMAIN stock /\ stock[p].owner = stock[i].owner
          /\ stock[p].pair = i /\ stock[p].of = of
        BY <2>3, <2>5 DEF Paired
    <3>2. i # None
        BY <1>3, <2>1 DEF None
    <3>3. p # c
      <4>1. RowSound(c)
          BY <1>3 DEF StockSound
      <4> QED
          BY <1>2, <3>1, <3>2, <4>1 DEF RowSound
    <3>4. p \notin away
        BY <1>1, <2>2, <2>3, <3>1, <3>3
    <3> QED
        BY <1>4, <2>1, <2>3, <3>1, <3>4 DEF Paired
  <2>6. Awaits(i) => Awaits(i)'
      BY <1>2, <2>1 DEF Awaits
  <2> QED
      BY <2>1, <2>3, <2>4, <2>5, <2>6 DEF RowSound
<1>7. StockSound'
    BY <1>2, <1>3, <1>4, <1>6 DEF StockSound
<1>8. ImportSound'
  <2>1. ASSUME NEW a \in DOMAIN importing.ids \ importing.left PROVE IsCopy(a)'
    <3>1. PICK n : n = importing.ids[a]
        OBVIOUS
    <3>2. IsCopy(a)
        BY <1>3 DEF ImportSound
    <3>3. n \in DOMAIN stock' /\ stock'[n] = stock[n]
        BY <1>4, <1>5, <3>1, <3>2 DEF IsCopy
    <3>4. file' = file /\ importing' = importing
        BY <1>2
    <3> QED
        BY <3>1, <3>2, <3>3, <3>4 DEF IsCopy, Mapped
  <2>2. \A a \in importing.left : importing.ids[a] \notin DOMAIN stock'
      BY <1>3, <1>4 DEF ImportSound
  <2>3. copied = NoCopy => copied' = NoCopy
      BY <1>2
  <2> QED
      BY <1>2, <1>3, <2>1, <2>2, <2>3 DEF ImportSound
<1>9. FileSound'
    BY <1>2, <1>3 DEF FileSound, ItemSound
<1>10. ExportSound'
  <2>1. \A i : i \in DOMAIN stock /\ stock[i].owner # u => i \in DOMAIN stock' /\ stock'[i] = stock[i]
      BY <1>4, <1>5
  <2>2. lastId' = lastId /\ lastId' \in Nat /\ lastId <= lastId'
      BY <1>2, <1>3
  <2> QED
      BY <1>2, <1>3, <1>4, <2>1, <2>2, TearsKeeps
<1>11. CopiedSound'
  <2>1. CASE copied.owner = u
    <3>1. DOMAIN copied'.ids = {}
        BY <1>2, <2>1 DEF NoCopy
    <3> QED
        BY <3>1 DEF CopiedSound
  <2>2. CASE copied.owner # u
    <3>1. copied' = copied
        BY <1>2, <2>2
    <3>2. \A n \in DOMAIN stock : stock[n].owner = copied.owner => n \in DOMAIN stock' /\ stock'[n] = stock[n]
        BY <1>4, <1>5, <2>2
    <3> QED
        BY <1>3, <3>1, <3>2 DEF CopiedSound
  <2> QED
      BY <2>1, <2>2
<1> QED
    BY <1>7, <1>8, <1>9, <1>10, <1>11 DEF Undisturbed

\* The next copy: its company is saved already, and of the two halves of an
\* imported job the later one finds the earlier.
LEMMA ImportSavesKeeps ==
    ASSUME Undisturbed, NEW i \in importing.left, ImportSaves(i) PROVE Undisturbed'
<1>1. /\ StockSound /\ ImportSound /\ FileSound /\ ExportSound /\ CopiedSound
      /\ DOMAIN stock \subseteq 1..lastId /\ lastId \in Nat /\ 0 \notin 1..lastId
    BY DEF Undisturbed, StockSound
<1>2. PICK ids, items, o, half, m, r :
          /\ ids = importing.ids /\ items = file.items /\ o = importing.owner
          /\ half = importing.left /\ m = importing.ids[i] /\ r = file.items[i]
    OBVIOUS
<1>3. PICK after : after = half \ {i}
    OBVIOUS
<1>4. PICK copy : copy = Copy(r)
    OBVIOUS
<1>5. /\ i \in half /\ half \subseteq DOMAIN ids /\ importing = [owner |-> o, ids |-> ids, left |-> half]
      /\ DOMAIN ids = DOMAIN items /\ DOMAIN items \subseteq 1..lastId
      /\ ~file.torn /\ copied = NoCopy
      /\ \A a \in DOMAIN ids : ids[a] \in 1..lastId /\ ItemSound(a)
      /\ \A a \in half : ids[a] \notin DOMAIN stock
  <2>1. importing # NoImport
      BY NoImportShape
  <2> QED
      BY <1>1, <1>2, <2>1 DEF ImportSound, FileSound
<1>6. ASSUME NEW a \in DOMAIN ids, NEW b \in DOMAIN ids, ids[a] = ids[b] PROVE a = b
  <2>1. a \in Nat /\ b \in Nat /\ ids[a] \in Nat /\ ids[b] \in Nat
      BY <1>1, <1>5
  <2>2. /\ a < b => ids[a] < ids[b]
        /\ b < a => ids[b] < ids[a]
      BY <1>1, <1>2 DEF ImportSound
  <2> QED
      BY <1>6, <2>1, <2>2
<1>7. /\ stock' = Has(m, copy) /\ UNCHANGED <<lastId, file>> /\ Tears(o)
      /\ importing' = (IF after = {} THEN NoImport ELSE [importing EXCEPT !.left = after])
      /\ copied' = (IF after = {} THEN [owner |-> o, ids |-> ids, of |-> file] ELSE copied)
      /\ \A j \in half : Order[items[i].kind] <= Order[items[j].kind]
    BY <1>2, <1>3, <1>4 DEF ImportSaves
<1>8. /\ m \notin DOMAIN stock /\ m \in 1..lastId /\ m = ids[i] /\ r = items[i]
      /\ DOMAIN stock' = DOMAIN stock \cup {m} /\ stock'[m] = copy
      /\ \A j \in DOMAIN stock : stock'[j] = stock[j]
  <2>1. m \notin DOMAIN stock /\ m \in 1..lastId /\ m = ids[i] /\ r = items[i]
      BY <1>2, <1>5
  <2>2. stock' = Has(m, copy)
      BY <1>7
  <2>3. /\ DOMAIN stock' = DOMAIN stock \cup {m} /\ stock'[m] = copy
        /\ \A j \in DOMAIN stock : j # m => stock'[j] = stock[j]
      BY <2>2, HasShape
  <2> QED
      BY <2>1, <2>3
<1>9. PICK Of : Of = [a \in DOMAIN ids |-> IF items[a].of = None THEN None ELSE ids[items[a].of]]
    OBVIOUS
<1>10. ASSUME NEW a \in DOMAIN ids
       PROVE  /\ items[a].kind \in RowKinds /\ items[a].of \in Nat /\ items[a].pair \in Nat
              /\ items[a].kind = "company" => items[a].of = None /\ items[a].pair = None
              /\ items[a].of # None => items[a].of \in DOMAIN ids /\ items[items[a].of].kind = "company"
              /\ items[a].pair # None => /\ items[a].pair \in DOMAIN ids
                                         /\ items[items[a].pair].pair = a
                                         /\ items[items[a].pair].of = items[a].of
  <2>1. ItemSound(a)
      BY <1>5
  <2> QED
      BY <1>2, <1>5, <2>1 DEF ItemSound
<1>11. None \notin DOMAIN ids
    BY <1>1, <1>5 DEF None
<1>12. \A a \in DOMAIN ids : Mapped(items[a].of) = Of[a]
    BY <1>2, <1>9, <1>10, <1>11 DEF Mapped
<1>13. \A a \in DOMAIN ids : Of[a] \in Nat
    BY <1>1, <1>5, <1>9, <1>10 DEF None
<1>14. ASSUME NEW a \in DOMAIN ids \ half
       PROVE  /\ ids[a] \in DOMAIN stock /\ stock[ids[a]].kind = items[a].kind /\ stock[ids[a]].owner = o
              /\ items[a].of # None \/ items[a].pair # None => stock[ids[a]].of = Of[a]
              /\ items[a].pair # None => stock[ids[a]].pair = ids[items[a].pair]
  <2>1. IsCopy(a)
      BY <1>1, <1>2 DEF ImportSound
  <2> QED
      BY <1>2, <1>12, <2>1 DEF IsCopy
<1>15. /\ copy.kind = r.kind /\ copy.owner = o /\ copy.of = Of[i]
       /\ copy.pair = IF r.pair = None THEN None ELSE ids[r.pair]
  <2>1. copy = Row(r.kind, o, Mapped(r.of), IF r.kind = "found" THEN Dropped(r.pair) ELSE Mapped(r.pair))
      BY <1>2, <1>4 DEF Copy
  <2>2. /\ copy.kind = r.kind /\ copy.owner = o /\ copy.of = Mapped(r.of)
        /\ copy.pair = IF r.kind = "found" THEN Dropped(r.pair) ELSE Mapped(r.pair)
      BY <2>1 DEF Row
  <2>3. r.pair # None => r.pair \in DOMAIN ids
      BY <1>5, <1>8, <1>10
  <2> QED
      BY <1>2, <1>5, <1>8, <1>11, <1>12, <2>2, <2>3 DEF Dropped, Mapped
\* what is saved by now
<1>16. ASSUME NEW a \in DOMAIN ids \ after
       PROVE  /\ ids[a] \in DOMAIN stock' /\ stock'[ids[a]].kind = items[a].kind /\ stock'[ids[a]].owner = o
              /\ items[a].of # None \/ items[a].pair # None => stock'[ids[a]].of = Of[a]
              /\ items[a].pair # None => stock'[ids[a]].pair = ids[items[a].pair]
  <2>1. CASE a = i
      BY <1>8, <1>15, <2>1
  <2>2. CASE a # i
    <3>1. a \in DOMAIN ids \ half
        BY <1>3, <2>2
    <3> QED
        BY <1>8, <1>14, <3>1
  <2> QED
      BY <2>1, <2>2
<1>17. after # {} => importing' = [owner |-> o, ids |-> ids, left |-> after]
    BY <1>5, <1>7
<1>18. after = {} => importing' = NoImport
    BY <1>7
<1>19. RowSound(m)'
  <2>1. copy.kind \in RowKinds /\ copy.of \in Nat /\ copy.pair \in Nat
    <3>1. r.pair # None => ids[r.pair] \in Nat
        BY <1>1, <1>5, <1>8, <1>10
    <3> QED
        BY <1>5, <1>8, <1>10, <1>13, <1>15, <3>1 DEF None
  <2>2. copy.kind = "company" => copy.of = None /\ copy.pair = None
    <3>1. r.kind = "company" => r.of = None /\ r.pair = None
        BY <1>5, <1>8, <1>10
    <3>2. r.of = None => Of[i] = None
        BY <1>5, <1>8, <1>9
    <3> QED
        BY <1>15, <3>1, <3>2
  <2>3. ASSUME copy.of # None
        PROVE  copy.of \in DOMAIN stock /\ stock[copy.of].kind = "company" /\ stock[copy.of].owner = o
    <3>1. PICK c : c = r.of
        OBVIOUS
    <3>2. /\ c # None /\ c \in DOMAIN ids /\ copy.of = ids[c] /\ items[c].kind = "company"
          /\ r.kind # "company" /\ r.kind \in RowKinds
        BY <1>5, <1>8, <1>9, <1>10, <1>15, <2>3, <3>1
    <3>3. c \notin half
      <4>1. Order["company"] = 1 /\ (Order[r.kind] = 2 \/ Order[r.kind] = 3)
          BY <3>2 DEF Order, RowKinds
      <4>2. c \in half => Order[r.kind] <= Order["company"]
          BY <1>7, <1>8, <3>2
      <4> QED
          BY <4>1, <4>2
    <3> QED
        BY <1>14, <3>2, <3>3
  <2>4. ASSUME copy.pair # None PROVE Paired(m)' \/ Awaits(m)'
    <3>1. PICK k : k = r.pair
        OBVIOUS
    <3>2. /\ k # None /\ k \in DOMAIN ids /\ copy.pair = ids[k] /\ items[k].pair = i /\ items[k].of = r.of
        BY <1>5, <1>8, <1>10, <1>15, <2>4, <3>1
    <3>3. CASE k \in after
      <4>1. /\ importing'.ids = ids /\ importing'.left = after /\ i \in DOMAIN ids /\ i \notin after
            /\ file' = file
          BY <1>3, <1>5, <1>7, <1>17, <3>3
      <4>2. m = ids[i] /\ stock'[m].pair = ids[k] /\ file.items[i].pair = k
          BY <1>2, <1>8, <3>1, <3>2
      <4> QED
          BY <3>3, <4>1, <4>2 DEF Awaits
    <3>4. CASE k \notin after
      <4>1. /\ ids[k] \in DOMAIN stock' /\ stock'[ids[k]].owner = o
            /\ stock'[ids[k]].of = Of[k] /\ stock'[ids[k]].pair = ids[i]
          BY <1>5, <1>11, <1>16, <3>2, <3>4
      <4>2. Of[k] = Of[i]
          BY <1>5, <1>8, <1>9, <3>2
      <4> QED
          BY <1>8, <1>15, <3>2, <4>1, <4>2 DEF Paired
    <3> QED
        BY <3>3, <3>4
  <2> QED
      BY <1>8, <1>15, <2>1, <2>2, <2>3, <2>4 DEF RowSound
<1>20. ASSUME NEW j \in DOMAIN stock PROVE RowSound(j)'
  <2>1. PICK what, c, p : what = stock[j] /\ c = stock[j].of /\ p = stock[j].pair
      OBVIOUS
  <2>2. RowSound(j) /\ stock'[j] = what
      BY <1>1, <1>8, <2>1 DEF StockSound
  <2>3. c # None => /\ c \in DOMAIN stock' /\ stock'[c].kind = "company" /\ stock'[c].owner = what.owner
      BY <1>8, <2>1, <2>2 DEF RowSound
  <2>4. ASSUME Paired(j) PROVE Paired(j)'
      BY <1>8, <2>1, <2>2, <2>4 DEF Paired
  <2>5. ASSUME Awaits(j) PROVE Paired(j)' \/ Awaits(j)'
    <3>1. PICK a \in DOMAIN ids \ half, k \in half : j = ids[a] /\ p = ids[k] /\ items[a].pair = k
        BY <1>2, <2>1, <2>5 DEF Awaits
    <3>2. CASE k # i
      <4>1. /\ k \in after /\ importing'.ids = ids /\ importing'.left = after /\ file' = file
            /\ a \in DOMAIN ids \ after
          BY <1>3, <1>7, <1>17, <3>1, <3>2
      <4>2. j = ids[a] /\ stock'[j].pair = ids[k] /\ file.items[a].pair = k
          BY <1>2, <2>1, <2>2, <3>1
      <4> QED
          BY <4>1, <4>2 DEF Awaits
    <3>3. CASE k = i
      <4>1. i # None /\ items[a].pair # None /\ r.pair = a /\ r.of = items[a].of /\ a # None
          BY <1>5, <1>8, <1>10, <1>11, <3>1, <3>3
      <4>2. what.owner = o /\ what.of = Of[a]
          BY <1>14, <2>1, <3>1, <4>1
      <4>3. Of[a] = Of[i] /\ copy.pair = j /\ p = m
          BY <1>5, <1>8, <1>9, <1>15, <3>1, <3>3, <4>1
      <4> QED
          BY <1>8, <1>15, <2>1, <2>2, <4>2, <4>3 DEF Paired
    <3> QED
        BY <3>2, <3>3
  <2> QED
      BY <2>1, <2>2, <2>3, <2>4, <2>5 DEF RowSound
<1>21. StockSound'
    BY <1>1, <1>7, <1>8, <1>19, <1>20 DEF StockSound
<1>22. ImportSound'
  <2>1. CASE after = {}
    <3>1. importing' = NoImport
        BY <1>18, <2>1
    <3> QED
        BY <3>1, NoImportShape DEF ImportSound, NoImport
  <2>2. CASE after # {}
    <3>1. /\ importing' = [owner |-> o, ids |-> ids, left |-> after] /\ importing'.ids = ids
          /\ importing'.left = after /\ importing'.owner = o /\ file' = file /\ copied' = NoCopy
          /\ lastId' = lastId
        BY <1>5, <1>7, <1>17, <2>2
    <3>2. ASSUME NEW a \in DOMAIN ids \ after PROVE IsCopy(a)'
      <4>1. Mapped(items[a].of)' = Of[a]
          BY <1>2, <1>12, <3>1 DEF Mapped
      <4>2. file'.items = items
          BY <1>2, <3>1
      <4>3. (file.items[a] = items[a])'
          BY <4>2
      <4>4. Mapped(file.items[a].of)' = Of[a]
          BY <1>2, <1>12, <3>1 DEF Mapped
      <4> QED
          BY <1>16, <3>1, <4>2, <4>4 DEF IsCopy
    <3>3. ASSUME NEW a \in after PROVE ids[a] \notin DOMAIN stock'
        BY <1>3, <1>5, <1>6, <1>8
    <3>4. \A a, b \in DOMAIN ids : a < b => ids[a] < ids[b]
        BY <1>1, <1>2 DEF ImportSound
    <3>5. after \subseteq DOMAIN ids /\ DOMAIN ids = DOMAIN file.items /\ ~file.torn
        BY <1>2, <1>3, <1>5
    <3> QED
        BY <1>5, <3>1, <3>2, <3>3, <3>4, <3>5 DEF ImportSound
  <2> QED
      BY <2>1, <2>2
<1>23. FileSound'
    BY <1>1, <1>7 DEF FileSound, ItemSound
<1>24. ExportSound'
  <2>1. lastId' = lastId /\ lastId' \in Nat /\ lastId <= lastId'
      BY <1>1, <1>7
  <2> QED
      BY <1>1, <1>7, <1>8, <1>15, <2>1, TearsKeeps
<1>25. CopiedSound'
  <2>1. CASE after = {}
    <3>1. copied'.ids = ids /\ copied'.owner = o /\ copied'.of = file
        BY <1>7, <2>1
    <3>2. ASSUME NEW a \in DOMAIN ids
          PROVE  /\ ids[a] \in DOMAIN stock' /\ stock'[ids[a]].kind = items[a].kind
                 /\ stock'[ids[a]].owner = o
                 /\ items[a].of # None => /\ stock'[ids[a]].of = ids[items[a].of]
                                          /\ stock'[ids[a]].of # None
                 /\ items[a].pair # None => /\ stock'[ids[a]].pair = ids[items[a].pair]
                                            /\ stock'[ids[a]].pair # None
      <4>1. a \in DOMAIN ids \ after
          BY <2>1
      <4>2. \A b \in DOMAIN ids : ids[b] # None
          BY <1>1, <1>5 DEF None
      <4> QED
          BY <1>9, <1>10, <1>16, <4>1, <4>2
    <3> QED
        BY <1>2, <3>1, <3>2 DEF CopiedSound
  <2>2. CASE after # {}
    <3>1. copied' = NoCopy
        BY <1>5, <1>7, <2>2
    <3> QED
        BY <3>1 DEF CopiedSound, NoCopy
  <2> QED
      BY <2>1, <2>2
<1> QED
    BY <1>21, <1>22, <1>23, <1>24, <1>25 DEF Undisturbed

LEMMA NextExports == ExportsInv /\ [ExpNext]_expVars => ExportsInv'
<1> SUFFICES ASSUME ExportsInv, [ExpNext]_expVars PROVE ExportsInv'
    OBVIOUS
\* where nothing is added to the disturbances, the rest is to be kept
<1>1. ASSUME disturbed' = disturbed, Undisturbed => Undisturbed' PROVE ExportsInv'
    BY <1>1 DEF ExportsInv
<1>2. CASE ListsFound
    BY <1>1, <1>2, ListsKeeps DEF ListsFound, Lists
<1>3. CASE ListsImported
    BY <1>1, <1>3, ListsKeeps DEF ListsImported, Lists
<1>4. CASE WritesFile
    BY <1>1, <1>4, WritesFileKeeps DEF WritesFile
<1>5. CASE ImportFails
    BY <1>5 DEF ImportFails, ExportsInv
<1>6. ASSUME NEW u \in Owners, AddsCompany(u) PROVE ExportsInv'
  <2>1. Adds(Row("company", u, None, None))
      BY <1>6 DEF AddsCompany
  <2> QED
      BY <2>1, AddsKeeps
<1>7. ASSUME NEW u \in Owners, Finds(u) PROVE ExportsInv'
  <2>1. PICK c \in OfKind("company", u) \cup {None} : Adds(Row("found", u, c, None))
      BY <1>7 DEF Finds
  <2> QED
      BY <2>1, AddsKeeps
<1>8. ASSUME NEW u \in Owners, ListsCompanies(u) PROVE ExportsInv'
    BY <1>1, <1>8, ListsKeeps DEF ListsCompanies, Lists
<1>9. ASSUME NEW u \in Owners, ImportStarts(u) PROVE ExportsInv'
    BY <1>9, ImportStartsKeeps
<1>10. ASSUME NEW i \in DOMAIN stock, ImportsJob(i) PROVE ExportsInv'
    BY <1>10, ImportsJobKeeps
<1>11. ASSUME NEW i \in DOMAIN stock, DeletesCompany(i) PROVE ExportsInv'
    BY <1>11, DeletesCompanyKeeps
<1>12. ASSUME NEW i \in importing.left, ImportSaves(i) PROVE ExportsInv'
    BY <1>1, <1>12, ImportSavesKeeps DEF ImportSaves
<1>13. CASE UNCHANGED expVars
  <2>1. UNCHANGED <<stock, lastId, exporting, file, importing, copied, disturbed>>
      BY <1>13 DEF expVars
  <2>2. StockSound <=> StockSound'
      BY <2>1 DEF StockSound, RowSound, Paired, Awaits
  <2>3. ImportSound <=> ImportSound'
      BY <2>1 DEF ImportSound, IsCopy, Mapped
  <2>4. (FileSound <=> FileSound') /\ (CopiedSound <=> CopiedSound')
      BY <2>1 DEF FileSound, ItemSound, CopiedSound
  <2>5. ExportSound <=> ExportSound'
      BY <2>1 DEF ExportSound, Due
  <2> QED
      BY <2>1, <2>2, <2>3, <2>4, <2>5 DEF ExportsInv, Undisturbed
<1> QED
    BY <1>2, <1>3, <1>4, <1>5, <1>6, <1>7, <1>8, <1>9, <1>10, <1>11, <1>12, <1>13 DEF ExpNext
-----------------------------------------------------------------------------
(* Profiles *)

UpdateStep ==
    {Quiet} \cup [at : {"clear"}, object : Objects, left : SUBSET Leads]
            \cup [at : {"log"}, object : Objects, consent : Consents]
            \cup [at : {"save"}, object : Objects]
FitStep ==
    {Quiet} \cup [at : {"next"}, object : Objects \cup {NoneYet}, left : SUBSET Leads]
            \cup [at : {"asked"}, object : Objects \cup {NoneYet}, left : SUBSET Leads,
                  job : Leads, persona : Personas]
ProfileRow == [persona : Personas, consent : Consents]

PrfTyped ==
    /\ profile \in [Objects -> ProfileRow] /\ current \in Objects \cup {NoneYet}
    /\ savedProfile \in ProfileRow \cup {NoProfile} /\ choice \in Remote \cup {"local"}
    /\ fit \in [Leads -> Personas \cup {Unscored}]
    /\ savedFit \in [Leads -> Personas \cup {Unscored}]
    /\ queueOnly \subseteq Leads /\ consentLog \in Consents
    /\ update \in [Editing -> UpdateStep] /\ fitting \in [Fitting -> FitStep]
    /\ strayed \in BOOLEAN /\ unsettled \in BOOLEAN /\ offRecord \in BOOLEAN

Underway(u) == update[u] # Quiet
HeldBy(u)  == profile[update[u].object]
Clearing(j) == \E t \in Editing : update[t].at = "clear" /\ j \in update[t].left

\* All change one object, unless two made the profile at once.
OneObject ==
    (unsettled /\ offRecord) \/
    \A u \in Editing : Underway(u) =>
        \/ update[u].object = current
        \/ current = NoneYet /\ \A w \in Editing \ {u} : ~Underway(w)

\* The object has the consent that is on record or on its way there.
ConsentKept ==
    offRecord \/
    /\ \A u, w \in Consenting : u = w
    /\ \A u \in Consenting : HeldBy(u).consent = update[u].consent
    /\ Consenting = {} =>
          /\ current # NoneYet => profile[current].consent = consentLog
          /\ \A u \in Editing : Underway(u) => HeldBy(u).consent = consentLog
    /\ current = NoneYet /\ (\A u \in Editing : update[u].at # "save") => consentLog = "nobody"

\* A score is for the persona of the object, and so is one that is being made.
ForPersona(p) == p = Record(current).persona /\ \A u \in Editing : Underway(u) => HeldBy(u).persona = p

ScoresKept ==
    unsettled \/
    /\ savedFit = fit
    /\ \A j \in queueOnly : Clearing(j) \/ fit[j] = Unscored \/ ForPersona(fit[j])
    /\ \A f \in Fitting : fitting[f] # Quiet =>
          /\ fitting[f].object \in {current, NoneYet} /\ ForPersona(Record(fitting[f].object).persona)
          /\ fitting[f].at = "asked" => ForPersona(fitting[f].persona)

ProfilesInv == PrfTyped /\ OneObject /\ ConsentKept /\ ScoresKept /\ SentWithConsent

LEMMA ProfilesKeep == ProfilesInv => ProfileHolds
BY DEF ProfilesInv, ProfileHolds, ScoresKept, ScoresFit, ForPersona, Clearing

LEMMA StepShape ==
    ASSUME PrfTyped, NEW u \in Editing
    PROVE  /\ update[u].at \in {"none", "clear", "log", "save"}
           /\ update[u].at = "none" <=> ~Underway(u)
           /\ update[u].at # "none" => update[u].object \in Objects /\ update[u].object # NoneYet
           /\ update[u].at = "clear" => update[u].left \in SUBSET Leads
           /\ update[u].at = "log" => update[u].consent \in Consents
<1>1. update[u] \in UpdateStep
    BY DEF PrfTyped
<1>2. NoneYet \notin Objects
    BY ProfilesAssumption DEF Objects, NoneYet
<1>3. CASE update[u] = Quiet
    BY <1>3 DEF Quiet, Underway
<1>4. CASE update[u] \in [at : {"clear"}, object : Objects, left : SUBSET Leads]
    BY <1>2, <1>4 DEF Quiet, Underway
<1>5. CASE update[u] \in [at : {"log"}, object : Objects, consent : Consents]
    BY <1>2, <1>5 DEF Quiet, Underway
<1>6. CASE update[u] \in [at : {"save"}, object : Objects]
    BY <1>2, <1>6 DEF Quiet, Underway
<1> QED
    BY <1>1, <1>3, <1>4, <1>5, <1>6 DEF UpdateStep

LEMMA FitShape ==
    ASSUME PrfTyped, NEW f \in Fitting
    PROVE  /\ fitting[f].at \in {"none", "next", "asked"}
           /\ fitting[f].at = "none" <=> fitting[f] = Quiet
           /\ fitting[f].at # "none" =>
                 fitting[f].object \in Objects \cup {NoneYet} /\ fitting[f].left \in SUBSET Leads
           /\ fitting[f].at = "asked" => fitting[f].job \in Leads /\ fitting[f].persona \in Personas
<1>1. fitting[f] \in FitStep
    BY DEF PrfTyped
<1>3. CASE fitting[f] = Quiet
    BY <1>3 DEF Quiet
<1>4. CASE fitting[f] \in [at : {"next"}, object : Objects \cup {NoneYet}, left : SUBSET Leads]
    BY <1>4 DEF Quiet
<1>5. CASE fitting[f] \in [at : {"asked"}, object : Objects \cup {NoneYet}, left : SUBSET Leads,
                           job : Leads, persona : Personas]
    BY <1>5 DEF Quiet
<1> QED
    BY <1>1, <1>3, <1>4, <1>5 DEF FitStep

\* The object of the moment is one of those there are.
LEMMA RecordShape ==
    ASSUME PrfTyped, NEW o \in Objects \cup {NoneYet}
    PROVE  /\ Record(o) \in ProfileRow /\ Record(o).persona \in Personas /\ Record(o).consent \in Consents
           /\ o \in Objects => o # NoneYet /\ Record(o) = profile[o]
           /\ o = NoneYet => Record(o) = NewUser
<1>1. NoneYet \notin Objects
    BY ProfilesAssumption DEF Objects, NoneYet
<1>2. NewUser \in ProfileRow
    BY ProfilesAssumption DEF NewUser, ProfileRow, Consents
<1>3. Record(o) \in ProfileRow
    BY <1>1, <1>2 DEF Record, PrfTyped
<1> QED
    BY <1>1, <1>3 DEF ProfileRow, Record

LEMMA InitProfiles == PrfInit => ProfilesInv
<1> SUFFICES ASSUME PrfInit PROVE ProfilesInv
    OBVIOUS
<1>1. /\ profile = [o \in Objects |-> NewUser] /\ current = NoneYet /\ savedProfile = NoProfile
      /\ choice = "local" /\ fit = [j \in Leads |-> Unscored] /\ savedFit = fit
      /\ queueOnly = Leads /\ consentLog = "nobody"
      /\ \A u \in Editing : update[u] = Quiet
      /\ \A f \in Fitting : fitting[f] = Quiet
      /\ strayed = FALSE /\ unsettled = FALSE /\ offRecord = FALSE
    BY DEF PrfInit
<1>2. NewUser \in ProfileRow
    BY ProfilesAssumption DEF NewUser, ProfileRow, Consents
<1>3. PrfTyped
  <2>1. update \in [Editing -> UpdateStep] /\ fitting \in [Fitting -> FitStep]
      BY DEF PrfInit, UpdateStep, FitStep
  <2> QED
      BY <1>1, <1>2, <2>1 DEF PrfTyped, Consents
<1>4. Consenting = {}
    BY <1>1 DEF Consenting, Quiet
<1>5. OneObject /\ ConsentKept /\ ScoresKept /\ SentWithConsent
    BY <1>1, <1>4 DEF OneObject, ConsentKept, ScoresKept, SentWithConsent, Underway
<1> QED
    BY <1>3, <1>5 DEF ProfilesInv

\* What one request does, in the terms of the invariant.
LEMMA UpdateMoves ==
    ASSUME PrfTyped, NEW t \in Editing, NEW step \in UpdateStep, Proceeds(t, step)
    PROVE  /\ update' \in [Editing -> UpdateStep]
           /\ update'[t] = step
           /\ \A u \in Editing : u # t => update'[u] = update[u]
BY DEF PrfTyped, Proceeds

LEMMA FitMoves ==
    ASSUME PrfTyped, NEW f \in Fitting, NEW step \in FitStep, OnFit(f, step)
    PROVE  /\ fitting' \in [Fitting -> FitStep]
           /\ fitting'[f] = step
           /\ \A g \in Fitting : g # f => fitting'[g] = fitting[g]
BY DEF PrfTyped, OnFit

\* Scores stay in order if what they are for does.
LEMMA ScoresStay ==
    ASSUME PrfTyped, ScoresKept, ~unsettled,
           UNCHANGED <<fit, savedFit, fitting>>, queueOnly' \subseteq queueOnly,
           \A q : ForPersona(q) => ForPersona(q)',
           \A j \in Leads : Clearing(j) => Clearing(j)',
           \A f \in Fitting : fitting[f] # Quiet =>
               /\ fitting[f].object \in {current', NoneYet}
               /\ Record(fitting[f].object)'.persona = Record(fitting[f].object).persona
    PROVE  ScoresKept'
<1>1. /\ savedFit' = fit'
      /\ \A j \in queueOnly : Clearing(j) \/ fit[j] = Unscored \/ ForPersona(fit[j])
      /\ \A f \in Fitting : fitting[f] # Quiet =>
            /\ ForPersona(Record(fitting[f].object).persona)
            /\ fitting[f].at = "asked" => ForPersona(fitting[f].persona)
    BY DEF ScoresKept
<1>2. ASSUME NEW j \in queueOnly' PROVE Clearing(j)' \/ fit'[j] = Unscored \/ ForPersona(fit[j])'
  <2>1. PICK q : q = fit[j]
      OBVIOUS
  <2>2. fit'[j] = q /\ j \in queueOnly /\ j \in Leads
      BY <2>1 DEF PrfTyped
  <2>3. Clearing(j)' \/ q = Unscored \/ ForPersona(q)'
      BY <1>1, <2>1, <2>2
  <2> QED
      BY <2>2, <2>3
<1>3. ASSUME NEW f \in Fitting, fitting'[f] # Quiet
      PROVE  /\ fitting'[f].object \in {current', NoneYet}
             /\ ForPersona(Record(fitting[f].object).persona)'
             /\ fitting'[f].at = "asked" => ForPersona(fitting[f].persona)'
  <2>1. PICK q, r : q = Record(fitting[f].object).persona /\ r = fitting[f].persona
      OBVIOUS
  <2>2. Record(fitting[f].object)'.persona = q /\ fitting'[f].persona = r
      BY <1>3, <2>1
  <2>3. ForPersona(q)' /\ (fitting[f].at = "asked" => ForPersona(r)')
      BY <1>1, <1>3, <2>1
  <2> QED
      BY <1>3, <2>2, <2>3
<1> QED
    BY <1>1, <1>2, <1>3 DEF ScoresKept

LEMMA SwitchesKeeps ==
    ASSUME ProfilesInv, NEW t \in Editing, NEW p \in Personas, Switches(t, p) PROVE ProfilesInv'
<1>0. /\ PrfTyped /\ OneObject /\ ConsentKept /\ ScoresKept /\ SentWithConsent
      /\ ~Underway(t)
      /\ UNCHANGED <<current, savedProfile, choice, fit, savedFit, queueOnly, consentLog,
                     fitting, runs, strayed>>
    BY DEF ProfilesInv, Switches, NoFits, Underway
<1>1. PICK o : o = Target(t)
    OBVIOUS
<1>2. o \in Objects /\ o # NoneYet /\ (current # NoneYet => o = current) /\ (current = NoneYet => o = t)
    BY <1>0, <1>1, ProfilesAssumption DEF Target, PrfTyped, Objects, NoneYet
<1>3. PICK old \in ProfileRow : old = Record(current)
    BY <1>0, RecordShape DEF PrfTyped
<1>4. PICK others \in SUBSET Leads : others = (IF p = old.persona THEN {} ELSE Leads)
    OBVIOUS
<1>5. PICK step : step = [at |-> "clear", object |-> o, left |-> others]
    OBVIOUS
<1>6. /\ step \in UpdateStep /\ step.at = "clear" /\ step.object = o /\ step.left = others
      /\ step # Quiet
    BY <1>2, <1>4, <1>5 DEF UpdateStep, Quiet
<1>7. Proceeds(t, step)
    BY <1>1, <1>3, <1>4, <1>5 DEF Switches
<1>8. PICK moved : moved = [old EXCEPT !.persona = p]
    OBVIOUS
<1>9. moved \in ProfileRow /\ moved.persona = p /\ moved.consent = old.consent
    BY <1>3, <1>8 DEF ProfileRow
<1>10. profile' = [profile EXCEPT ![o] = moved]
    BY <1>1, <1>3, <1>8 DEF Switches
<1>11. /\ profile' \in [Objects -> ProfileRow] /\ profile'[o] = moved
       /\ \A b \in Objects : b # o => profile'[b] = profile[b]
    BY <1>0, <1>2, <1>9, <1>10 DEF PrfTyped
<1>12. /\ update' \in [Editing -> UpdateStep] /\ update'[t] = step
       /\ \A u \in Editing : u # t => update'[u] = update[u]
    BY <1>0, <1>6, <1>7, UpdateMoves
<1>13. /\ ~unsettled' => ~unsettled /\ (current = NoneYet => ~Others(t))
                         /\ (p # old.persona => ~Others(t) /\ \A f \in Fitting : fitting[f] = Quiet)
       /\ ~offRecord' => ~offRecord /\ (current = NoneYet => ~Others(t))
       /\ unsettled' \in BOOLEAN /\ offRecord' \in BOOLEAN
    BY <1>0, <1>3 DEF Switches, PrfTyped
<1>14. Others(t) <=> \E u \in Editing : u # t /\ Underway(u)
    BY DEF Others, Underway
<1>15. \A u \in Editing : u # t => update[u].at = update'[u].at /\ (Underway(u)' <=> Underway(u))
    BY <1>12 DEF Underway
<1>16. Underway(t)'
    BY <1>6, <1>12 DEF Underway
<1>17. \A u \in Editing : u # t /\ Underway(u) => update[u].object \in Objects
    BY <1>0, StepShape
<1>18. PrfTyped'
    BY <1>0, <1>11, <1>12, <1>13 DEF PrfTyped
<1>19. OneObject'
    BY <1>0, <1>2, <1>6, <1>12, <1>13, <1>14, <1>15, <1>16 DEF OneObject
<1>20. /\ current # NoneYet => old = profile[current]
       /\ current = NoneYet => old = NewUser
    BY <1>3 DEF Record
<1>21. ASSUME ~offRecord'
       PROVE  \A u \in Editing : Underway(u)' => HeldBy(u)'.consent =
                  (IF u = t THEN old.consent ELSE HeldBy(u).consent)
    BY <1>2, <1>6, <1>9, <1>11, <1>12, <1>13, <1>14, <1>15, <1>17, <1>20, <1>21 DEF HeldBy
<1>22. Consenting' = Consenting
  <2>1. update[t].at # "log" /\ update'[t].at # "log"
      BY <1>0, <1>6, <1>12, StepShape
  <2> QED
      BY <1>15, <2>1 DEF Consenting
<1>23. ConsentKept'
  <2> SUFFICES ASSUME ~offRecord' PROVE ConsentKept'
      BY DEF ConsentKept
  <2>1. /\ \A u, w \in Consenting : u = w
        /\ \A u \in Consenting : HeldBy(u).consent = update[u].consent
        /\ Consenting = {} =>
              /\ current # NoneYet => profile[current].consent = consentLog
              /\ \A u \in Editing : Underway(u) => HeldBy(u).consent = consentLog
        /\ current = NoneYet /\ (\A u \in Editing : update[u].at # "save") => consentLog = "nobody"
      BY <1>0, <1>13 DEF ConsentKept
  <2>2. \A u \in Consenting : u \in Editing /\ u # t /\ Underway(u)' /\ Underway(u)
      BY <1>0, <1>15, StepShape DEF Consenting
  <2>3. \A u \in Consenting : HeldBy(u)'.consent = update'[u].consent
      BY <1>12, <1>21, <2>1, <2>2
  <2>4. current = NoneYet => \A u \in Editing : update[u].at # "save"
    <3> SUFFICES ASSUME current = NoneYet, NEW u \in Editing PROVE update[u].at # "save"
        OBVIOUS
    <3>1. ~Underway(u)
        BY <1>0, <1>13, <1>14
    <3> QED
        BY <1>0, <3>1, StepShape
  <2>5. ASSUME Consenting = {} PROVE old.consent = consentLog
      BY <1>20, <2>1, <2>4, <2>5 DEF NewUser
  <2>6. ASSUME Consenting = {}, NEW u \in Editing, Underway(u)' PROVE HeldBy(u)'.consent = consentLog
      BY <1>15, <1>21, <2>1, <2>5, <2>6
  <2>7. current # NoneYet => profile'[current].consent = profile[current].consent
      BY <1>2, <1>9, <1>11, <1>20
  <2> QED
      BY <1>0, <1>22, <2>1, <2>3, <2>4, <2>6, <2>7 DEF ConsentKept
<1>24. ScoresKept'
  <2> SUFFICES ASSUME ~unsettled' PROVE ScoresKept'
      BY DEF ScoresKept
  <2>1. /\ savedFit = fit
        /\ \A j \in queueOnly : Clearing(j) \/ fit[j] = Unscored \/ ForPersona(fit[j])
        /\ \A f \in Fitting : fitting[f] # Quiet =>
              /\ fitting[f].object \in {current, NoneYet}
              /\ ForPersona(Record(fitting[f].object).persona)
              /\ fitting[f].at = "asked" => ForPersona(fitting[f].persona)
      BY <1>0, <1>13 DEF ScoresKept
  <2>2. CASE p = old.persona
    <3>1. \A j \in Leads : Clearing(j) => Clearing(j)'
      <4>1. update[t].at # "clear"
          BY <1>0, StepShape
      <4> QED
          BY <1>12, <4>1 DEF Clearing
    <3>2. /\ Record(NoneYet)' = Record(NoneYet) /\ Record(current)'.persona = old.persona
          /\ \A u \in Editing : Underway(u)' =>
                HeldBy(u)'.persona = (IF u = t THEN old.persona ELSE HeldBy(u).persona)
      <4>1. Record(NoneYet)' = Record(NoneYet)
          BY DEF Record
      <4>2. Record(current)'.persona = old.persona
          BY <1>0, <1>2, <1>9, <1>11, <1>20, <2>2 DEF Record
      <4>3. \A u \in Editing : Underway(u)' =>
                HeldBy(u)'.persona = (IF u = t THEN old.persona ELSE HeldBy(u).persona)
          BY <1>2, <1>6, <1>9, <1>11, <1>12, <1>13, <1>14, <1>15, <1>17, <1>20, <2>2 DEF HeldBy
      <4> QED
          BY <4>1, <4>2, <4>3
    <3>3. ASSUME NEW q, ForPersona(q) PROVE ForPersona(q)'
        BY <1>3, <1>15, <3>2, <3>3 DEF ForPersona
    <3>4. ASSUME NEW f \in Fitting, fitting[f] # Quiet
          PROVE  /\ fitting[f].object \in {current', NoneYet}
                 /\ Record(fitting[f].object)'.persona = Record(fitting[f].object).persona
      <4>1. fitting[f].object \in {current, NoneYet} /\ fitting'[f] = fitting[f] /\ current' = current
          BY <1>0, <2>1, <3>4
      <4> QED
          BY <1>3, <3>2, <4>1
    <3>5. ~unsettled
        BY <1>13
    <3>6. UNCHANGED <<fit, savedFit, fitting>> /\ queueOnly' \subseteq queueOnly
        BY <1>0
    <3> QED
        BY <1>0, <3>1, <3>3, <3>4, <3>5, <3>6, ScoresStay
  <2>3. CASE p # old.persona
    <3>1. \A f \in Fitting : fitting'[f] = Quiet
        BY <1>0, <1>13, <2>3
    <3>2. \A j \in Leads : Clearing(j)'
        BY <1>4, <1>6, <1>12, <2>3 DEF Clearing
    <3> QED
        BY <1>0, <2>1, <3>1, <3>2 DEF ScoresKept, PrfTyped
  <2> QED
      BY <2>2, <2>3
<1>25. SentWithConsent'
    BY <1>0, <1>13 DEF SentWithConsent
<1> QED
    BY <1>18, <1>19, <1>23, <1>24, <1>25 DEF ProfilesInv

\* A request that is at the persona goes on with it, or ends.
LEMMA Lingers ==
    ASSUME PrfTyped, OneObject, ConsentKept, NEW t \in Editing, NEW step \in UpdateStep,
           Proceeds(t, step), update[t].at = "clear",
           step = Quiet \/ (step.at = "clear" /\ step.object = update[t].object),
           UNCHANGED <<profile, current, consentLog, offRecord>>, unsettled => unsettled'
    PROVE  OneObject' /\ ConsentKept' /\ \A q : ForPersona(q) => ForPersona(q)'
<1>1. /\ update' \in [Editing -> UpdateStep] /\ update'[t] = step
      /\ \A u \in Editing : u # t => update'[u] = update[u]
    BY UpdateMoves
<1>2. Underway(t) /\ step.at \in {"none", "clear"}
    BY StepShape DEF Quiet
<1>3. \A u \in Editing : Underway(u)' => Underway(u) /\ update'[u].object = update[u].object
    BY <1>1, <1>2 DEF Underway
<1>4. \A u \in Editing : Underway(u)' => HeldBy(u)' = HeldBy(u)
    BY <1>3 DEF HeldBy
<1>5. Consenting' = Consenting /\ \A u \in Consenting : u \in Editing /\ update'[u] = update[u]
    BY <1>1, <1>2 DEF Consenting
<1>6. \A u \in Consenting : HeldBy(u)' = HeldBy(u)
    BY <1>5 DEF HeldBy
<1>7. OneObject'
    BY <1>3 DEF OneObject
<1>8. (\A u \in Editing : update'[u].at # "save") => \A u \in Editing : update[u].at # "save"
    BY <1>1
<1>9. ConsentKept'
    BY <1>3, <1>4, <1>5, <1>6, <1>8 DEF ConsentKept
<1>10. Record(current)' = Record(current)
    BY DEF Record
<1>11. \A q : ForPersona(q) => ForPersona(q)'
    BY <1>3, <1>4, <1>10 DEF ForPersona
<1> QED
    BY <1>7, <1>9, <1>11

LEMMA DropsScoreKeeps ==
    ASSUME ProfilesInv, NEW t \in Editing, NEW j \in Leads, NEW saved \in BOOLEAN,
           DropsScore(t, j, saved)
    PROVE  ProfilesInv'
<1>0. /\ PrfTyped /\ OneObject /\ ConsentKept /\ ScoresKept /\ SentWithConsent
      /\ update[t].at = "clear" /\ j \in update[t].left
      /\ UNCHANGED <<profile, current, savedProfile, choice, queueOnly, consentLog, offRecord,
                     fitting, strayed>>
    BY DEF ProfilesInv, DropsScore, NoFits
<1>1. PICK object \in Objects, others \in SUBSET Leads :
          update[t] = [at |-> "clear", object |-> object, left |-> others]
  <2>1. update[t] \in UpdateStep
      BY <1>0 DEF PrfTyped
  <2> QED
      BY <1>0, <2>1 DEF UpdateStep, Quiet
<1>2. PICK next : next = [at |-> "clear", object |-> object, left |-> others \ {j}]
    OBVIOUS
<1>3. /\ next \in UpdateStep /\ next.at = "clear" /\ next.object = update[t].object
      /\ next.left = update[t].left \ {j}
    BY <1>1, <1>2 DEF UpdateStep
<1>4. PICK step \in UpdateStep :
          /\ Proceeds(t, step) /\ (step = next \/ step = Quiet)
          /\ ~unsettled' => step = next /\ saved /\ ~unsettled
          /\ unsettled => unsettled'
          /\ unsettled' \in BOOLEAN
  <2>1. CASE saved /\ Proceeds(t, [update[t] EXCEPT !.left = @ \ {j}]) /\ UNCHANGED unsettled
    <3>1. [update[t] EXCEPT !.left = @ \ {j}] = next
        BY <1>1, <1>2
    <3> QED
        BY <1>0, <1>3, <2>1, <3>1 DEF PrfTyped
  <2>2. CASE ~saved /\ Outdated(j) /\ Proceeds(t, Quiet) /\ unsettled' = TRUE
    <3>1. Quiet \in UpdateStep
        BY DEF UpdateStep
    <3> QED
        BY <2>2, <3>1
  <2> QED
      BY <1>0, <2>1, <2>2 DEF DropsScore
<1>5. OneObject' /\ ConsentKept' /\ \A q : ForPersona(q) => ForPersona(q)'
  <2>1. step = Quiet \/ (step.at = "clear" /\ step.object = update[t].object)
      BY <1>3, <1>4
  <2> QED
      BY <1>0, <1>4, <2>1, Lingers
<1>6. /\ update' \in [Editing -> UpdateStep] /\ update'[t] = step
      /\ \A u \in Editing : u # t => update'[u] = update[u]
    BY <1>0, <1>4, UpdateMoves
<1>7. /\ fit' = (IF Outdated(j) THEN [fit EXCEPT ![j] = Unscored] ELSE fit)
      /\ savedFit' = (IF Outdated(j) /\ saved THEN [savedFit EXCEPT ![j] = Unscored] ELSE savedFit)
    BY DEF DropsScore
<1>8. PrfTyped'
    BY <1>0, <1>4, <1>6, <1>7 DEF PrfTyped
<1>9. ScoresKept'
  <2> SUFFICES ASSUME ~unsettled' PROVE ScoresKept'
      BY DEF ScoresKept
  <2>1. /\ savedFit = fit /\ saved /\ step = next
        /\ \A k \in queueOnly : Clearing(k) \/ fit[k] = Unscored \/ ForPersona(fit[k])
        /\ \A f \in Fitting : fitting[f] # Quiet =>
              /\ fitting[f].object \in {current, NoneYet}
              /\ ForPersona(Record(fitting[f].object).persona)
              /\ fitting[f].at = "asked" => ForPersona(fitting[f].persona)
      BY <1>0, <1>4 DEF ScoresKept
  <2>2. savedFit' = fit'
      BY <1>7, <2>1
  <2>3. ASSUME NEW k \in queueOnly
        PROVE  Clearing(k)' \/ fit'[k] = Unscored \/ ForPersona(fit[k])'
    <3>1. CASE k = j
        BY <1>0, <1>7, <3>1 DEF Outdated, PrfTyped
    <3>2. CASE k # j
      <4>1. Clearing(k) => Clearing(k)'
          BY <1>0, <1>3, <1>6, <2>1, <3>2 DEF Clearing
      <4>2. fit'[k] = fit[k]
          BY <1>0, <1>7, <3>2 DEF PrfTyped
      <4>3. PICK q : q = fit[k]
          OBVIOUS
      <4>4. Clearing(k)' \/ q = Unscored \/ ForPersona(q)'
          BY <1>5, <2>1, <4>1, <4>3
      <4> QED
          BY <4>2, <4>3, <4>4
    <3> QED
        BY <3>1, <3>2
  <2>4. ASSUME NEW f \in Fitting, fitting'[f] # Quiet
        PROVE  /\ fitting'[f].object \in {current', NoneYet}
               /\ ForPersona(Record(fitting[f].object).persona)'
               /\ fitting'[f].at = "asked" => ForPersona(fitting[f].persona)'
    <3>1. PICK q, r : q = Record(fitting[f].object).persona /\ r = fitting[f].persona
        OBVIOUS
    <3>2. Record(fitting[f].object)'.persona = q /\ fitting'[f].persona = r /\ fitting'[f] = fitting[f]
        BY <1>0, <3>1 DEF Record
    <3>3. ForPersona(q)' /\ (fitting[f].at = "asked" => ForPersona(r)')
        BY <1>5, <2>1, <2>4, <3>1, <3>2
    <3> QED
        BY <1>0, <2>1, <2>4, <3>2, <3>3
  <2> QED
      BY <1>0, <2>2, <2>3, <2>4 DEF ScoresKept
<1> QED
    BY <1>0, <1>5, <1>8, <1>9 DEF ProfilesInv, SentWithConsent

LEMMA RefusesFieldKeeps ==
    ASSUME ProfilesInv, NEW t \in Editing, RefusesField(t) PROVE ProfilesInv'
<1>0. /\ PrfTyped /\ OneObject /\ ConsentKept /\ ScoresKept /\ SentWithConsent
      /\ update[t].at = "clear" /\ update[t].left = {} /\ Proceeds(t, Quiet)
      /\ UNCHANGED <<profile, current, savedProfile, choice, fit, savedFit, queueOnly, consentLog,
                     unsettled, offRecord, fitting, strayed>>
    BY DEF ProfilesInv, RefusesField, NoFits
<1>1. Quiet \in UpdateStep
    BY DEF UpdateStep
<1>2. /\ update' \in [Editing -> UpdateStep]
      /\ \A u \in Editing : u # t => update'[u] = update[u]
    BY <1>0, <1>1, UpdateMoves
<1>3. OneObject' /\ ConsentKept' /\ \A q : ForPersona(q) => ForPersona(q)'
    BY <1>0, <1>1, Lingers
<1>4. PrfTyped'
    BY <1>0, <1>2 DEF PrfTyped
<1>5. \A j \in Leads : Clearing(j) => Clearing(j)'
    BY <1>0, <1>2 DEF Clearing
<1>6. ScoresKept'
  <2> SUFFICES ASSUME ~unsettled PROVE ScoresKept'
      BY <1>0 DEF ScoresKept
  <2>1. \A f \in Fitting : fitting[f] # Quiet =>
            /\ fitting[f].object \in {current', NoneYet}
            /\ Record(fitting[f].object)'.persona = Record(fitting[f].object).persona
      BY <1>0 DEF ScoresKept, Record
  <2> QED
      BY <1>0, <1>3, <1>5, <2>1, ScoresStay
<1> QED
    BY <1>0, <1>3, <1>4, <1>6 DEF ProfilesInv, SentWithConsent

LEMMA SetsConsentKeeps ==
    ASSUME ProfilesInv, NEW t \in Editing, NEW c \in Consents, SetsConsent(t, c) PROVE ProfilesInv'
<1>0. /\ PrfTyped /\ OneObject /\ ConsentKept /\ ScoresKept /\ SentWithConsent
      /\ update[t].at = "clear" /\ update[t].left = {}
      /\ UNCHANGED <<current, savedProfile, choice, fit, savedFit, queueOnly, consentLog,
                     unsettled, fitting, strayed>>
      /\ offRecord' = (offRecord \/ Consenting # {})
    BY DEF ProfilesInv, SetsConsent, NoFits
<1>1. PICK o \in Objects : o = update[t].object /\ o # NoneYet
    BY <1>0, StepShape
<1>2. PICK step : step = [at |-> "log", object |-> o, consent |-> c]
    OBVIOUS
<1>3. /\ step \in UpdateStep /\ step.at = "log" /\ step.object = o /\ step.consent = c /\ step # Quiet
    BY <1>2 DEF UpdateStep, Quiet
<1>4. Proceeds(t, step)
    BY <1>1, <1>2 DEF SetsConsent
<1>5. /\ update' \in [Editing -> UpdateStep] /\ update'[t] = step
      /\ \A u \in Editing : u # t => update'[u] = update[u]
    BY <1>0, <1>3, <1>4, UpdateMoves
<1>6. PICK was \in ProfileRow : was = profile[o]
    BY <1>0 DEF PrfTyped
<1>7. PICK moved : moved = [was EXCEPT !.consent = c]
    OBVIOUS
<1>8. moved \in ProfileRow /\ moved.persona = was.persona /\ moved.consent = c
    BY <1>6, <1>7 DEF ProfileRow
<1>9. profile' = [profile EXCEPT ![o] = moved]
    BY <1>0, <1>1, <1>6, <1>7 DEF SetsConsent, PrfTyped
<1>10. /\ profile' \in [Objects -> ProfileRow] /\ profile'[o] = moved
       /\ \A b \in Objects : b # o => profile'[b] = profile[b]
    BY <1>0, <1>8, <1>9 DEF PrfTyped
<1>11. Underway(t) /\ Underway(t)'
    BY <1>0, <1>3, <1>5, StepShape DEF Underway
<1>12. \A u \in Editing : (Underway(u)' <=> Underway(u)) /\ update'[u].object = update[u].object
    BY <1>1, <1>3, <1>5, <1>11 DEF Underway
<1>13. PrfTyped'
    BY <1>0, <1>5, <1>10 DEF PrfTyped
<1>14. OneObject'
    BY <1>0, <1>12 DEF OneObject, PrfTyped
<1>15. Consenting' = Consenting \cup {t}
    BY <1>3, <1>5 DEF Consenting
<1>16. ConsentKept'
  <2> SUFFICES ASSUME ~offRecord' PROVE ConsentKept'
      BY DEF ConsentKept
  <2>1. /\ Consenting = {} /\ Consenting' = {t} /\ ~offRecord
        /\ current = NoneYet /\ (\A u \in Editing : update[u].at # "save") => consentLog = "nobody"
      BY <1>0, <1>15 DEF ConsentKept
  <2>2. HeldBy(t)'.consent = update'[t].consent
      BY <1>3, <1>5, <1>8, <1>10 DEF HeldBy
  <2>3. (\A u \in Editing : update'[u].at # "save") => \A u \in Editing : update[u].at # "save"
      BY <1>0, <1>5
  <2> QED
      BY <1>0, <2>1, <2>2, <2>3 DEF ConsentKept
<1>17. ASSUME NEW b \in Objects \cup {NoneYet} PROVE Record(b)'.persona = Record(b).persona
    BY <1>6, <1>8, <1>10 DEF Record
<1>18. ScoresKept'
  <2> SUFFICES ASSUME ~unsettled PROVE ScoresKept'
      BY <1>0 DEF ScoresKept
  <2>1. ASSUME NEW f \in Fitting, fitting[f] # Quiet
        PROVE  /\ fitting[f].object \in {current', NoneYet}
               /\ Record(fitting[f].object)'.persona = Record(fitting[f].object).persona
    <3>1. PICK b \in Objects \cup {NoneYet} : b = fitting[f].object
        BY <1>0, <2>1, FitShape
    <3>2. fitting'[f].object = b /\ b \in {current', NoneYet}
        BY <1>0, <2>1, <3>1 DEF ScoresKept
    <3> QED
        BY <1>17, <3>1, <3>2
  <2>2. \A j \in Leads : Clearing(j) => Clearing(j)'
      BY <1>0, <1>5 DEF Clearing
  <2>3. \A u \in Editing : Underway(u) => HeldBy(u)'.persona = HeldBy(u).persona
    <3> SUFFICES ASSUME NEW u \in Editing, Underway(u) PROVE HeldBy(u)'.persona = HeldBy(u).persona
        OBVIOUS
    <3>1. update[u].object \in Objects /\ update'[u].object = update[u].object
        BY <1>0, <1>12, StepShape
    <3> QED
        BY <1>6, <1>8, <1>10, <3>1 DEF HeldBy
  <2>4. Record(current)'.persona = Record(current).persona
    <3>1. PICK b \in Objects \cup {NoneYet} : b = current
        BY <1>0 DEF PrfTyped
    <3> QED
        BY <1>0, <1>17, <3>1
  <2>5. ASSUME NEW q, ForPersona(q) PROVE ForPersona(q)'
      BY <1>12, <2>3, <2>4, <2>5 DEF ForPersona
  <2>6. UNCHANGED <<fit, savedFit, fitting>> /\ queueOnly' \subseteq queueOnly
      BY <1>0
  <2> QED
      BY <1>0, <2>1, <2>2, <2>5, <2>6, ScoresStay
<1>19. SentWithConsent'
    BY <1>0 DEF SentWithConsent
<1> QED
    BY <1>13, <1>14, <1>16, <1>18, <1>19 DEF ProfilesInv

LEMMA LogsConsentKeeps ==
    ASSUME ProfilesInv, NEW t \in Editing, NEW written \in BOOLEAN, LogsConsent(t, written)
    PROVE  ProfilesInv'
<1>0. /\ PrfTyped /\ OneObject /\ ConsentKept /\ ScoresKept /\ SentWithConsent
      /\ update[t].at = "log" /\ offRecord' = (offRecord \/ ~written)
      /\ consentLog' = (IF written THEN update[t].consent ELSE consentLog)
      /\ UNCHANGED <<profile, current, savedProfile, choice, fit, savedFit, queueOnly, unsettled,
                     fitting, strayed>>
    BY DEF ProfilesInv, LogsConsent, NoFits
<1>1. PICK o \in Objects : o = update[t].object /\ o # NoneYet
    BY <1>0, StepShape
<1>2. PICK step : step = (IF written THEN [at |-> "save", object |-> o] ELSE Quiet)
    OBVIOUS
<1>3. /\ step \in UpdateStep /\ step.at \in {"none", "save"}
      /\ step # Quiet => written /\ step.at = "save" /\ step.object = o
      /\ written => step # Quiet
    BY <1>2 DEF UpdateStep, Quiet
<1>4. Proceeds(t, step)
    BY <1>1, <1>2 DEF LogsConsent
<1>5. /\ update' \in [Editing -> UpdateStep] /\ update'[t] = step
      /\ \A u \in Editing : u # t => update'[u] = update[u]
    BY <1>0, <1>3, <1>4, UpdateMoves
<1>6. update[t].consent \in Consents /\ Underway(t)
    BY <1>0, StepShape
<1>7. \A u \in Editing : Underway(u)' => Underway(u) /\ update'[u].object = update[u].object
    BY <1>1, <1>3, <1>5, <1>6 DEF Underway
<1>8. \A u \in Editing : Underway(u)' => HeldBy(u)' = HeldBy(u)
    BY <1>0, <1>7 DEF HeldBy
<1>9. PrfTyped'
    BY <1>0, <1>5, <1>6 DEF PrfTyped
<1>10. OneObject'
    BY <1>0, <1>7 DEF OneObject, PrfTyped
<1>11. ConsentKept'
  <2> SUFFICES ASSUME ~offRecord' PROVE ConsentKept'
      BY DEF ConsentKept
  <2>1. ~offRecord /\ written
      BY <1>0
  <2>2. \A u \in Consenting : u = t /\ HeldBy(u).consent = update[u].consent
      BY <1>0, <2>1 DEF ConsentKept, Consenting
  <2>3. t \in Consenting
      BY <1>0 DEF Consenting
  <2>4. Consenting' = {}
      BY <1>3, <1>5, <2>2 DEF Consenting
  <2>5. consentLog' = profile[o].consent
      BY <1>0, <1>1, <2>1, <2>2, <2>3 DEF HeldBy
  <2>6. current # NoneYet => o = current
      BY <1>0, <1>1, <1>6, <2>1 DEF OneObject
  <2>7. ASSUME NEW u \in Editing, Underway(u)' PROVE HeldBy(u).consent = consentLog'
    <3>1. Underway(u) /\ (u = t \/ update[u].object = o)
        BY <1>0, <1>1, <1>6, <1>7, <2>1, <2>6, <2>7 DEF OneObject
    <3> QED
        BY <1>1, <2>5, <3>1 DEF HeldBy
  <2>8. update'[t].at = "save"
      BY <1>3, <1>5, <2>1
  <2> QED
      BY <1>0, <1>8, <2>4, <2>5, <2>6, <2>7, <2>8 DEF ConsentKept
<1>12. ScoresKept'
  <2> SUFFICES ASSUME ~unsettled PROVE ScoresKept'
      BY <1>0 DEF ScoresKept
  <2>1. \A f \in Fitting : fitting[f] # Quiet =>
            /\ fitting[f].object \in {current', NoneYet}
            /\ Record(fitting[f].object)'.persona = Record(fitting[f].object).persona
      BY <1>0 DEF ScoresKept, Record
  <2>2. Record(current)' = Record(current)
      BY <1>0 DEF Record
  <2>3. ASSUME NEW q, ForPersona(q) PROVE ForPersona(q)'
      BY <1>7, <1>8, <2>2, <2>3 DEF ForPersona
  <2>4. \A j \in Leads : Clearing(j) => Clearing(j)'
      BY <1>0, <1>5 DEF Clearing
  <2>5. UNCHANGED <<fit, savedFit, fitting>> /\ queueOnly' \subseteq queueOnly
      BY <1>0
  <2> QED
      BY <1>0, <2>1, <2>3, <2>4, <2>5, ScoresStay
<1>13. SentWithConsent'
    BY <1>0 DEF SentWithConsent
<1> QED
    BY <1>9, <1>10, <1>11, <1>12, <1>13 DEF ProfilesInv

LEMMA SavesKeeps ==
    ASSUME ProfilesInv, NEW t \in Editing, NEW saved \in BOOLEAN, Saves(t, saved)
    PROVE  ProfilesInv'
<1>0. /\ PrfTyped /\ OneObject /\ ConsentKept /\ ScoresKept /\ SentWithConsent
      /\ update[t].at \in {"clear", "save"} /\ (update[t].at = "clear" => update[t].left = {})
      /\ current' = update[t].object /\ Proceeds(t, Quiet)
      /\ savedProfile' = (IF saved THEN profile[update[t].object] ELSE savedProfile)
      /\ UNCHANGED <<profile, choice, fit, savedFit, queueOnly, consentLog, unsettled, offRecord,
                     fitting, strayed>>
    BY DEF ProfilesInv, Saves, NoFits
<1>1. PICK o \in Objects : o = update[t].object /\ o # NoneYet
    BY <1>0, StepShape
<1>2. Quiet \in UpdateStep
    BY DEF UpdateStep
<1>3. /\ update' \in [Editing -> UpdateStep] /\ update'[t] = Quiet
      /\ \A u \in Editing : u # t => update'[u] = update[u]
    BY <1>0, <1>2, UpdateMoves
<1>4. Underway(t)
    BY <1>0, StepShape
<1>5. \A u \in Editing : Underway(u)' => u # t /\ Underway(u) /\ update'[u] = update[u]
    BY <1>3 DEF Underway
<1>6. \A u \in Editing : Underway(u)' => HeldBy(u)' = HeldBy(u)
    BY <1>0, <1>5 DEF HeldBy
<1>7. PrfTyped'
    BY <1>0, <1>1, <1>3 DEF PrfTyped
<1>8. ASSUME ~unsettled \/ ~offRecord
      PROVE  /\ \A u \in Editing : Underway(u)' => current = o /\ update[u].object = o
             /\ current = o \/ current = NoneYet
  <2>1. \A u \in Editing : Underway(u) =>
            \/ update[u].object = current
            \/ current = NoneYet /\ \A w \in Editing \ {u} : ~Underway(w)
      BY <1>0, <1>8 DEF OneObject
  <2>2. current = o \/ (current = NoneYet /\ \A w \in Editing \ {t} : ~Underway(w))
      BY <1>1, <1>4, <2>1
  <2>3. ASSUME NEW u \in Editing, Underway(u)' PROVE current = o /\ update[u].object = o
      BY <1>1, <1>5, <2>1, <2>2, <2>3
  <2> QED
      BY <2>2, <2>3
<1>9. OneObject'
    BY <1>0, <1>1, <1>5, <1>8 DEF OneObject
<1>10. Consenting' = Consenting /\ \A u \in Consenting : u \in Editing /\ Underway(u)' /\ update'[u] = update[u]
  <2>1. \A u \in Editing : update[u].at = "log" => u # t
      BY <1>0
  <2>2. \A u \in Editing : update'[u].at = "log" => u # t
      BY <1>3 DEF Quiet
  <2>3. Consenting' = Consenting /\ \A u \in Consenting : u \in Editing /\ u # t /\ update'[u] = update[u]
      BY <1>3, <2>1, <2>2 DEF Consenting
  <2>4. \A u \in Consenting : Underway(u)
      BY <1>0, StepShape DEF Consenting
  <2> QED
      BY <2>3, <2>4 DEF Underway
<1>11. ConsentKept'
  <2> SUFFICES ASSUME ~offRecord PROVE ConsentKept'
      BY <1>0 DEF ConsentKept
  <2>1. /\ \A u, w \in Consenting : u = w
        /\ \A u \in Consenting : HeldBy(u).consent = update[u].consent
        /\ Consenting = {} => \A u \in Editing : Underway(u) => HeldBy(u).consent = consentLog
      BY DEF ProfilesInv, ConsentKept
  <2>2. Consenting = {} => profile[o].consent = consentLog
      BY <1>1, <1>4, <2>1 DEF HeldBy
  <2>3. \A u \in Consenting : HeldBy(u)' = HeldBy(u)
      BY <1>6, <1>10
  <2> QED
      BY <1>0, <1>1, <1>5, <1>6, <1>10, <2>1, <2>2, <2>3 DEF ConsentKept
<1>12. ScoresKept'
  <2> SUFFICES ASSUME ~unsettled PROVE ScoresKept'
      BY <1>0 DEF ScoresKept
  <2>1. ASSUME NEW q, ForPersona(q) PROVE ForPersona(q)'
    <3>1. HeldBy(t).persona = q
        BY <1>4, <2>1 DEF ForPersona
    <3>2. Record(current)' = profile[o]
        BY <1>0, <1>1 DEF Record
    <3> QED
        BY <1>1, <1>5, <1>6, <2>1, <3>1, <3>2 DEF ForPersona, HeldBy
  <2>2. \A f \in Fitting : fitting[f] # Quiet =>
            /\ fitting[f].object \in {current', NoneYet}
            /\ Record(fitting[f].object)'.persona = Record(fitting[f].object).persona
      BY <1>0, <1>1, <1>8 DEF ScoresKept, Record
  <2>3. \A j \in Leads : Clearing(j) => Clearing(j)'
      BY <1>0, <1>3 DEF Clearing
  <2>4. UNCHANGED <<fit, savedFit, fitting>> /\ queueOnly' \subseteq queueOnly
      BY <1>0
  <2> QED
      BY <1>0, <2>1, <2>2, <2>3, <2>4, ScoresStay
<1>13. SentWithConsent'
    BY <1>0 DEF SentWithConsent
<1> QED
    BY <1>7, <1>9, <1>11, <1>12, <1>13 DEF ProfilesInv

\* What the scores are for does not change while requests for them work.
LEMMA NoUpdatesStay ==
    ASSUME ProfilesInv, UNCHANGED <<profile, current, update, consentLog, offRecord>>,
           unsettled => unsettled'
    PROVE  /\ OneObject' /\ ConsentKept'
           /\ \A q : ForPersona(q) => ForPersona(q)'
           /\ \A j : Clearing(j) => Clearing(j)'
           /\ \A o : Record(o)' = Record(o)
BY DEF ProfilesInv, OneObject, ConsentKept, ForPersona, Clearing, Record, Underway, HeldBy,
       Consenting

LEMMA ChoicesKeep ==
    ASSUME ProfilesInv,
           \/ \E p \in Remote \cup {"local"} : ChoosesProvider(p)
           \/ \E j \in Leads : ImportsFind(j)
    PROVE  ProfilesInv'
<1>1. /\ choice' \in Remote \cup {"local"} /\ queueOnly' \subseteq queueOnly
      /\ UNCHANGED <<profile, current, savedProfile, fit, savedFit, consentLog, update, fitting,
                     strayed, unsettled, offRecord>>
    BY DEF ChoosesProvider, ImportsFind, NoUpdates, ProfilesInv, PrfTyped
<1>2. PrfTyped'
    BY <1>1 DEF ProfilesInv, PrfTyped
<1>3. /\ OneObject' /\ ConsentKept'
      /\ \A q : ForPersona(q) => ForPersona(q)'
      /\ \A j : Clearing(j) => Clearing(j)'
      /\ \A o : Record(o)' = Record(o)
    BY <1>1, NoUpdatesStay
<1>4. ScoresKept'
  <2> SUFFICES ASSUME ~unsettled PROVE ScoresKept'
      BY <1>1 DEF ScoresKept
  <2>1. \A f \in Fitting : fitting[f] # Quiet =>
            /\ fitting[f].object \in {current', NoneYet}
            /\ Record(fitting[f].object)'.persona = Record(fitting[f].object).persona
      BY <1>1 DEF ProfilesInv, ScoresKept, Record
  <2> QED
      BY <1>1, <1>3, <2>1, ScoresStay DEF ProfilesInv
<1> QED
    BY <1>1, <1>2, <1>3, <1>4 DEF ProfilesInv, SentWithConsent

\* What is being scored is scored for the persona of the moment.
LEMMA FitsStay ==
    ASSUME ProfilesInv, ~unsettled, UNCHANGED <<profile, current, update, consentLog, offRecord>>,
           ~unsettled', UNCHANGED <<queueOnly, fit, savedFit>>,
           NEW f \in Fitting, NEW step \in FitStep, OnFit(f, step),
           step # Quiet => /\ step.object \in {current, NoneYet}
                           /\ ForPersona(Record(step.object).persona)
                           /\ step.at = "asked" => ForPersona(step.persona)
    PROVE  ScoresKept'
<1>1. /\ PrfTyped /\ savedFit = fit
      /\ \A j \in queueOnly : Clearing(j) \/ fit[j] = Unscored \/ ForPersona(fit[j])
      /\ \A g \in Fitting : fitting[g] # Quiet =>
            /\ fitting[g].object \in {current, NoneYet}
            /\ ForPersona(Record(fitting[g].object).persona)
            /\ fitting[g].at = "asked" => ForPersona(fitting[g].persona)
    BY DEF ProfilesInv, ScoresKept
<1>2. fitting'[f] = step /\ \A g \in Fitting : g # f => fitting'[g] = fitting[g]
    BY <1>1, FitMoves
<1>3. /\ \A q : ForPersona(q) => ForPersona(q)'
      /\ \A j : Clearing(j) => Clearing(j)'
      /\ \A o : Record(o)' = Record(o)
    BY NoUpdatesStay
<1>4. ASSUME NEW j \in queueOnly PROVE Clearing(j)' \/ fit'[j] = Unscored \/ ForPersona(fit[j])'
  <2>1. PICK q : q = fit[j] /\ q = fit'[j]
      OBVIOUS
  <2>2. Clearing(j)' \/ q = Unscored \/ ForPersona(q)'
      BY <1>1, <1>3, <2>1
  <2> QED
      BY <2>1, <2>2
<1>5. ASSUME NEW g \in Fitting, fitting'[g] # Quiet
      PROVE  /\ fitting'[g].object \in {current', NoneYet}
             /\ ForPersona(Record(fitting[g].object).persona)'
             /\ fitting'[g].at = "asked" => ForPersona(fitting[g].persona)'
  <2>1. PICK task : task = fitting'[g]
      OBVIOUS
  <2>2. /\ task.object \in {current, NoneYet} /\ ForPersona(Record(task.object).persona)
        /\ task.at = "asked" => ForPersona(task.persona)
      BY <1>1, <1>2, <1>5, <2>1
  <2>3. PICK o, q, r : o = task.object /\ q = Record(o).persona /\ r = task.persona
      OBVIOUS
  <2>4. ForPersona(q) /\ (task.at = "asked" => ForPersona(r))
      BY <2>2, <2>3
  <2>5. ForPersona(q)' /\ (task.at = "asked" => ForPersona(r)') /\ Record(o)' = Record(o)
      BY <1>3, <2>4
  <2>6. Record(fitting[g].object)'.persona = q /\ fitting'[g].persona = r
      BY <2>1, <2>3, <2>5
  <2> QED
      BY <2>1, <2>2, <2>5, <2>6
<1> QED
    BY <1>1, <1>4, <1>5 DEF ScoresKept

LEMMA PersonaOfMoment == ASSUME ProfilesInv, NEW o \in {current, NoneYet}, NEW q,
                                ForPersona(q), ForPersona(Record(o).persona)
                         PROVE  Record(o).persona = q
BY DEF ForPersona

LEMMA BeginsFitKeeps ==
    ASSUME ProfilesInv, NEW f \in Fitting, NEW todo \in SUBSET Leads, BeginsFit(f, todo)
    PROVE  ProfilesInv'
<1>0. /\ PrfTyped /\ OneObject /\ ConsentKept /\ ScoresKept /\ SentWithConsent
      /\ Satisfied(Record(current).consent, choice)
      /\ strayed' = (strayed \/ (choice # "local" /\ ~Agreed(choice)))
      /\ unsettled' = (unsettled \/ (current = NoneYet /\ \E t \in Editing : update[t] # Quiet))
      /\ UNCHANGED <<profile, current, savedProfile, choice, fit, savedFit, queueOnly, consentLog,
                     update, offRecord>>
    BY DEF ProfilesInv, BeginsFit, NoUpdates
<1>1. PICK step : step = [at |-> "next", object |-> current, left |-> todo]
    OBVIOUS
<1>2. step \in FitStep /\ step.object = current /\ step.at = "next" /\ OnFit(f, step)
    BY <1>0, <1>1 DEF FitStep, BeginsFit, PrfTyped
<1>3. fitting' \in [Fitting -> FitStep]
    BY <1>0, <1>2, FitMoves
<1>4. strayed' \in BOOLEAN /\ unsettled' \in BOOLEAN /\ (unsettled => unsettled')
    BY <1>0 DEF PrfTyped
<1>5. PrfTyped'
    BY <1>0, <1>3, <1>4 DEF PrfTyped
<1>6. OneObject' /\ ConsentKept'
    BY <1>0, <1>4, NoUpdatesStay
<1>7. ScoresKept'
  <2> SUFFICES ASSUME ~unsettled' PROVE ScoresKept'
      BY DEF ScoresKept
  <2>1. ~unsettled /\ (current = NoneYet => \A t \in Editing : ~Underway(t))
      BY <1>0 DEF Underway
  <2>2. \A u \in Editing : Underway(u) => update[u].object = current /\ current # NoneYet
      BY <1>0, <2>1 DEF OneObject
  <2>3. ForPersona(Record(current).persona)
      BY <2>2 DEF ForPersona, HeldBy, Record
  <2> QED
      BY <1>0, <1>2, <2>1, <2>3, FitsStay
<1>8. SentWithConsent'
  <2> SUFFICES ASSUME ~offRecord, choice # "local" PROVE Agreed(choice)
      BY <1>0 DEF SentWithConsent
  <2>1. PICK c : c = Record(current).consent
      OBVIOUS
  <2>2. c = "anybody" \/ c = choice
      BY <1>0, <2>1 DEF Satisfied
  <2>3. choice \in Remote
      BY <1>0 DEF PrfTyped
  <2>4. c # "nobody"
      BY <2>2, <2>3, ProfilesAssumption
  <2>5. current # NoneYet /\ c = profile[current].consent
      BY <2>1, <2>4 DEF Record, NewUser
  <2>6. c \in {consentLog} \cup {update[u].consent : u \in Consenting}
    <3>1. CASE Consenting = {}
        BY <1>0, <2>5, <3>1 DEF ConsentKept
    <3>2. CASE Consenting # {}
      <4>1. PICK u \in Consenting : TRUE
          BY <3>2
      <4>2. u \in Editing /\ Underway(u)
          BY <1>0, StepShape DEF Consenting
      <4>3. update[u].object = current
          BY <1>0, <2>5, <4>2 DEF OneObject
      <4>4. c = update[u].consent
          BY <1>0, <2>5, <4>1, <4>3 DEF ConsentKept, HeldBy
      <4> QED
          BY <4>1, <4>4
    <3> QED
        BY <3>1, <3>2
  <2> QED
      BY <2>2, <2>6 DEF Agreed
<1> QED
    BY <1>5, <1>6, <1>7, <1>8 DEF ProfilesInv

LEMMA PromptsKeeps ==
    ASSUME ProfilesInv, NEW f \in Fitting, NEW j \in Leads, Prompts(f, j) PROVE ProfilesInv'
<1>0. /\ PrfTyped /\ ScoresKept /\ SentWithConsent
      /\ fitting[f].at = "next" /\ j \in fitting[f].left
      /\ UNCHANGED <<profile, current, savedProfile, choice, fit, savedFit, queueOnly, consentLog,
                     update, strayed, unsettled, offRecord>>
    BY DEF ProfilesInv, Prompts, NoUpdates
<1>1. PICK o \in Objects \cup {NoneYet}, others \in SUBSET Leads :
          o = fitting[f].object /\ others = fitting[f].left \ {j}
    BY <1>0, FitShape
<1>2. PICK q \in Personas : q = Record(o).persona
    BY <1>0, RecordShape
<1>3. PICK step : step = [at |-> "asked", object |-> o, left |-> others, job |-> j, persona |-> q]
    OBVIOUS
<1>4. step \in FitStep /\ step.object = o /\ step.persona = q /\ OnFit(f, step)
    BY <1>0, <1>1, <1>2, <1>3 DEF FitStep, Prompts
<1>5. fitting' \in [Fitting -> FitStep]
    BY <1>0, <1>4, FitMoves
<1>6. PrfTyped'
    BY <1>0, <1>5 DEF PrfTyped
<1>7. OneObject' /\ ConsentKept'
    BY <1>0, NoUpdatesStay
<1>8. ScoresKept'
  <2> SUFFICES ASSUME ~unsettled PROVE ScoresKept'
      BY <1>0 DEF ScoresKept
  <2>1. o \in {current, NoneYet} /\ ForPersona(q)
      BY <1>0, <1>1, <1>2 DEF ScoresKept, Quiet
  <2> QED
      BY <1>0, <1>2, <1>4, <2>1, FitsStay
<1> QED
    BY <1>0, <1>6, <1>7, <1>8 DEF ProfilesInv, SentWithConsent

LEMMA ScoresKeeps ==
    ASSUME ProfilesInv, NEW f \in Fitting, NEW scored \in BOOLEAN, Scores(f, scored) PROVE ProfilesInv'
<1>0. /\ PrfTyped /\ ScoresKept /\ SentWithConsent /\ fitting[f].at = "asked"
      /\ UNCHANGED <<profile, current, savedProfile, choice, queueOnly, consentLog,
                     update, strayed, unsettled, offRecord>>
    BY DEF ProfilesInv, Scores, NoUpdates
<1>1. PICK o \in Objects \cup {NoneYet}, others \in SUBSET Leads, j \in Leads, q \in Personas :
          /\ o = fitting[f].object /\ others = fitting[f].left
          /\ j = fitting[f].job /\ q = fitting[f].persona
    BY <1>0, FitShape
<1>2. PICK step : step = (IF others = {} THEN Quiet
                          ELSE [at |-> "next", object |-> o, left |-> others])
    OBVIOUS
<1>3. /\ step \in FitStep /\ OnFit(f, step)
      /\ step # Quiet => step.object = o /\ step.at = "next"
    BY <1>1, <1>2 DEF FitStep, Scores, Quiet
<1>4. /\ fit' = (IF scored THEN [fit EXCEPT ![j] = q] ELSE fit)
      /\ savedFit' = (IF scored THEN [savedFit EXCEPT ![j] = q] ELSE savedFit)
    BY <1>1 DEF Scores
<1>5. /\ fitting' \in [Fitting -> FitStep] /\ fitting'[f] = step
      /\ \A g \in Fitting : g # f => fitting'[g] = fitting[g]
    BY <1>0, <1>3, FitMoves
<1>6. PrfTyped'
    BY <1>0, <1>4, <1>5 DEF PrfTyped
<1>7. /\ OneObject' /\ ConsentKept'
      /\ \A p : ForPersona(p) => ForPersona(p)'
      /\ \A k : Clearing(k) => Clearing(k)'
      /\ \A b : Record(b)' = Record(b)
    BY <1>0, NoUpdatesStay
<1>8. ScoresKept'
  <2> SUFFICES ASSUME ~unsettled PROVE ScoresKept'
      BY <1>0 DEF ScoresKept
  <2>1. /\ savedFit = fit
        /\ \A k \in queueOnly : Clearing(k) \/ fit[k] = Unscored \/ ForPersona(fit[k])
        /\ \A g \in Fitting : fitting[g] # Quiet =>
              /\ fitting[g].object \in {current, NoneYet}
              /\ ForPersona(Record(fitting[g].object).persona)
              /\ fitting[g].at = "asked" => ForPersona(fitting[g].persona)
      BY <1>0 DEF ScoresKept
  <2>2. fitting[f] # Quiet
      BY <1>0 DEF Quiet
  <2>3. ForPersona(q)
      BY <1>0, <1>1, <2>1, <2>2
  <2>4. savedFit' = fit'
      BY <1>4, <2>1
  <2>5. ASSUME NEW k \in queueOnly PROVE Clearing(k)' \/ fit'[k] = Unscored \/ ForPersona(fit[k])'
    <3>1. PICK p : p = fit'[k]
        OBVIOUS
    <3>2. p = q \/ p = fit[k]
        BY <1>0, <1>4, <3>1 DEF PrfTyped
    <3>3. Clearing(k) \/ p = Unscored \/ ForPersona(p)
        BY <2>1, <2>3, <3>2
    <3>4. Clearing(k)' \/ p = Unscored \/ ForPersona(p)'
        BY <1>7, <3>3
    <3> QED
        BY <3>1, <3>4
  <2>6. ASSUME NEW g \in Fitting, fitting'[g] # Quiet
        PROVE  /\ fitting'[g].object \in {current', NoneYet}
               /\ ForPersona(Record(fitting[g].object).persona)'
               /\ fitting'[g].at = "asked" => ForPersona(fitting[g].persona)'
    <3>1. fitting[g] # Quiet /\ fitting'[g].object = fitting[g].object
        BY <1>1, <1>3, <1>5, <2>2, <2>6
    <3>2. PICK b, p, r : b = fitting[g].object /\ p = Record(b).persona /\ r = fitting[g].persona
        OBVIOUS
    <3>3. ForPersona(p)' /\ Record(b)' = Record(b)
        BY <1>7, <2>1, <3>1, <3>2
    <3>4. fitting'[g].at = "asked" => ForPersona(r)' /\ fitting'[g].persona = r
        BY <1>3, <1>5, <1>7, <2>1, <2>6, <3>1, <3>2
    <3> QED
        BY <1>0, <2>1, <3>1, <3>2, <3>3, <3>4
  <2> QED
      BY <1>0, <2>4, <2>5, <2>6 DEF ScoresKept
<1> QED
    BY <1>0, <1>6, <1>7, <1>8 DEF ProfilesInv, SentWithConsent

\* Whoever starts the server again finds what was saved.
LEMMA RestartKeeps == ASSUME ProfilesInv, PrfRestart PROVE ProfilesInv'
<1>0. /\ PrfTyped /\ OneObject /\ ConsentKept /\ ScoresKept /\ SentWithConsent
      /\ profile' = [o \in Objects |-> IF o = "loaded" /\ savedProfile # NoProfile
                                       THEN savedProfile ELSE NewUser]
      /\ current' = (IF savedProfile = NoProfile THEN NoneYet ELSE "loaded")
      /\ choice' \in {choice, "local"} /\ fit' = savedFit
      /\ update' = [t \in Editing |-> Quiet] /\ fitting' = [f \in Fitting |-> Quiet]
      /\ UNCHANGED <<savedProfile, savedFit, queueOnly, consentLog, strayed>>
    BY DEF ProfilesInv, PrfRestart
<1>1. /\ unsettled' = (unsettled \/ (\E t \in Editing : update[t] # Quiet)
                                 \/ savedProfile # (IF current = NoneYet THEN NoProfile
                                                    ELSE profile[current]))
      /\ offRecord' = (offRecord \/ Record(current).consent # savedProfile.consent
                                 \/ \E t \in Editing : update[t].at \in {"log", "save"})
    BY DEF PrfRestart
<1>2. unsettled' \in BOOLEAN /\ offRecord' \in BOOLEAN
    BY <1>0, <1>1 DEF PrfTyped
<1>3. "loaded" \in Objects /\ "loaded" # NoneYet /\ NewUser \in ProfileRow
    BY ProfilesAssumption DEF Objects, NoneYet, NewUser, ProfileRow, Consents
<1>4. savedProfile # NoProfile => savedProfile \in ProfileRow
    BY <1>0 DEF PrfTyped
<1>5. /\ \A u \in Editing : update'[u] = Quiet /\ update'[u].at = "none"
      /\ \A f \in Fitting : fitting'[f] = Quiet
    BY <1>0 DEF Quiet
<1>6. PrfTyped'
  <2>1. profile' \in [Objects -> ProfileRow]
      BY <1>0, <1>3, <1>4
  <2>2. update' \in [Editing -> UpdateStep] /\ fitting' \in [Fitting -> FitStep]
      BY <1>0 DEF UpdateStep, FitStep
  <2> QED
      BY <1>0, <1>2, <1>3, <2>1, <2>2 DEF PrfTyped
<1>7. OneObject'
    BY <1>5 DEF OneObject, Underway
<1>8. ConsentKept'
  <2> SUFFICES ASSUME ~offRecord' PROVE ConsentKept'
      BY DEF ConsentKept
  <2>1. /\ ~offRecord /\ Record(current).consent = savedProfile.consent
        /\ \A t \in Editing : update[t].at \notin {"log", "save"}
      BY <1>1
  <2>2. Consenting = {} /\ Consenting' = {}
      BY <1>5, <2>1 DEF Consenting
  <2>3. consentLog = Record(current).consent
      BY <1>0, <2>1, <2>2 DEF ConsentKept, Record, NewUser
  <2>4. current' = NoneYet => consentLog = "nobody"
      BY <1>0, <1>3, <2>1, <2>3 DEF NoProfile
  <2>5. current' # NoneYet => profile'[current'].consent = consentLog
      BY <1>0, <1>3, <2>1, <2>3
  <2> QED
      BY <1>0, <1>5, <2>2, <2>4, <2>5 DEF ConsentKept, Underway
<1>9. ScoresKept'
  <2> SUFFICES ASSUME ~unsettled' PROVE ScoresKept'
      BY DEF ScoresKept
  <2>1. /\ ~unsettled /\ (\A t \in Editing : update[t] = Quiet)
        /\ savedProfile = (IF current = NoneYet THEN NoProfile ELSE profile[current])
      BY <1>1
  <2>2. \A j \in queueOnly : fit[j] = Unscored \/ fit[j] = Record(current).persona
    <3>1. \A j : ~Clearing(j)
        BY <2>1 DEF Clearing, Quiet
    <3> QED
        BY <1>0, <2>1, <3>1 DEF ScoresKept, ForPersona
  <2>3. Record(current)'.persona = Record(current).persona
    <3>1. CASE current = NoneYet
        BY <1>0, <2>1, <3>1 DEF Record
    <3>2. CASE current # NoneYet
      <4>1. savedProfile = profile[current] /\ profile[current] \in ProfileRow
          BY <1>0, <2>1, <3>2 DEF PrfTyped
      <4>2. savedProfile # NoProfile
          BY <4>1, ProfilesAssumption DEF ProfileRow, NoProfile, NoneYet
      <4> QED
          BY <1>0, <1>3, <3>2, <4>1, <4>2 DEF Record
    <3> QED
        BY <3>1, <3>2
  <2>4. \A u \in Editing : ~Underway(u)'
      BY <1>5 DEF Underway
  <2>5. fit' = fit /\ savedFit' = fit'
      BY <1>0, <2>1 DEF ScoresKept
  <2>6. ASSUME NEW j \in queueOnly PROVE fit'[j] = Unscored \/ ForPersona(fit[j])'
    <3>1. PICK p : p = fit[j] /\ p = fit'[j]
        BY <2>5
    <3>2. p = Record(current).persona => ForPersona(p)'
        BY <2>3, <2>4 DEF ForPersona
    <3> QED
        BY <2>2, <3>1, <3>2
  <2> QED
      BY <1>0, <1>5, <2>5, <2>6 DEF ScoresKept
<1>10. SentWithConsent'
    BY <1>0, <1>1 DEF SentWithConsent
<1> QED
    BY <1>6, <1>7, <1>8, <1>9, <1>10 DEF ProfilesInv

LEMMA NextProfiles == ProfilesInv /\ [PrfNext]_prfVars => ProfilesInv'
<1> SUFFICES ASSUME ProfilesInv, [PrfNext]_prfVars PROVE ProfilesInv'
    OBVIOUS
<1>1. CASE UNCHANGED prfVars
    BY <1>1 DEF prfVars, ProfilesInv, PrfTyped, OneObject, ConsentKept, ScoresKept,
       SentWithConsent, ForPersona, Clearing, Record, Underway, HeldBy, Consenting
<1>2. ASSUME NEW t \in Editing,
             \/ \E p \in Personas : Switches(t, p)
             \/ \E j \in Leads, saved \in BOOLEAN : DropsScore(t, j, saved)
             \/ \E c \in Consents : SetsConsent(t, c)
             \/ \E ok \in BOOLEAN : LogsConsent(t, ok) \/ Saves(t, ok)
             \/ RefusesField(t)
      PROVE  ProfilesInv'
    BY <1>2, SwitchesKeeps, DropsScoreKeeps, SetsConsentKeeps, LogsConsentKeeps, SavesKeeps,
       RefusesFieldKeeps
<1>3. ASSUME NEW f \in Fitting,
             \/ \E todo \in SUBSET Leads : BeginsFit(f, todo)
             \/ \E j \in Leads : Prompts(f, j)
             \/ \E scored \in BOOLEAN : Scores(f, scored)
      PROVE  ProfilesInv'
    BY <1>3, BeginsFitKeeps, PromptsKeeps, ScoresKeeps
<1> QED
    BY <1>1, <1>2, <1>3, ChoicesKeep, RestartKeeps DEF PrfNext
-----------------------------------------------------------------------------
(* All of them together *)

DataInv == /\ DisclosuresInv /\ OutcomesInv /\ SamplesInv
           /\ ExportsInv /\ MeshInv /\ ProfilesInv

\* A file takes along all it refers to, an answer of another office is in its
\* log, nothing is sent without consent, what is counted and shown is on file,
\* and the samples are all there, once, whatever is cut off on the way (app.py
\* 1151-1165, 2788-2896, 3210-3466; mesh/common.py 82-160; transparency.py
\* 74-115; mcp_tools.py 654-747).
THEOREM DataKept == Spec => []DataHolds
<1>1. Init => DataInv
    BY InitDisclosures, InitOutcomes, InitSamples, InitExports, InitMesh, InitProfiles
       DEF Init, DataInv
<1>2. DataInv /\ [Next]_<<focus, lnkVars, lnkRest>> => DataInv'
    BY StepOfOne, NextDisclosures, NextOutcomes, NextSamples, NextExports, NextMesh, NextProfiles
       DEF DataInv
<1>3. DataInv => DataHolds
    BY DisclosuresKeep, OutcomesKeep, SamplesKeep, ExportsKeep, MeshKeeps, ProfilesKeep
       DEF DataInv, DataHolds
<1> QED
    BY <1>1, <1>2, <1>3, PTL DEF Spec
-----------------------------------------------------------------------------
(* The types of what the services keep *)

\* A sequence whose every element is in a set is a sequence over that set.
LEMMA SeqOfFewer ==
    ASSUME NEW S, NEW T, NEW row \in Seq(S), \A n \in 1..Len(row) : row[n] \in T
    PROVE  row \in Seq(T)
<1>1. Len(row) \in Nat /\ row \in [1..Len(row) -> S]
    OBVIOUS
<1>2. row \in [1..Len(row) -> T]
    BY <1>1
<1> QED
    BY <1>1, <1>2

SfBounds == batches \in 0..MaxBatches /\ revived \in BOOLEAN

LEMMA NextSfBounds == ASSUME FactorInv, SfBounds, [SfNext]_sfVars PROVE SfBounds'
<1>1. ASSUME NEW c \in Callers, Store(c) PROVE SfBounds'
  <2>1. batches' = batches + 1 /\ batches < MaxBatches /\ revived' = revived
      BY <1>1 DEF Store
  <2> QED
      BY <2>1, SecondFactorAssumption DEF SfBounds
<1>2. ASSUME NEW c \in Callers, Strike(c) PROVE SfBounds'
  <2>1. batches' = batches /\ revived' = (revived \/ caller[c].code \in dead)
      BY <1>2 DEF Strike
  <2>2. revived' \in BOOLEAN
      BY <2>1 DEF SfBounds
  <2> QED
      BY <2>1, <2>2 DEF SfBounds
<1>3. CASE UNCHANGED <<batches, revived>>
    BY <1>3 DEF SfBounds
<1> QED
    BY <1>1, <1>2, <1>3 DEF SfNext, IssueChallenge, SfRestart, ChallengeExpires, BeginChange,
                            Withdraw, BeginVerify, TakeChallenge, DeviceCode, RecoveryCode, sfVars

LEMMA FactorTyped == FactorInv /\ SfBounds => SfTypeOK
BY DEF FactorInv, SfTyped, SfBounds, SfTypeOK

LEMMA LinksTyped == LinksInv => LnkTypeOK
BY DEF LinksInv, LnkTyped, LnkTypeOK

WsBounds ==
    /\ nextRow \in 1..(MaxRows + 1) /\ \A i \in DOMAIN rows : i >= 1
    /\ active \subseteq People /\ left \subseteq People /\ met \subseteq People

LEMMA NextWsBounds == ASSUME WorkspaceInv, WsBounds, [WsNext]_wsVars PROVE WsBounds'
<1>0. /\ desk \in [Desks -> Desking] /\ nextRow \in Nat /\ \A i \in DOMAIN rows : i \in Nat
      /\ Owner \in People /\ MaxRows \in Nat
    BY WorkspacesAssumption DEF WorkspaceInv, WsTyped
<1>t. ASSUME NEW d \in Desks, NEW u \in People, NEW task, task.user = u, Takes(d, task),
             UNCHANGED <<nextRow, active, left>>, DOMAIN rows' = DOMAIN rows
      PROVE  WsBounds'
    BY <1>t DEF Takes, WsBounds
<1>1. ASSUME NEW d \in Desks, NeedOwnerRow(d) PROVE WsBounds'
    BY <1>0, <1>1, <1>t DEF NeedOwnerRow
<1>2. ASSUME NEW d \in Desks, NEW actor \in People, NEW u \in People, Invite(d, actor, u)
      PROVE  WsBounds'
    BY <1>0, <1>2, <1>t DEF Invite
<1>3. ASSUME NEW d \in Desks, AddRow(d) PROVE WsBounds'
  <2>1. /\ nextRow <= MaxRows /\ nextRow' = nextRow + 1 /\ DOMAIN rows' = DOMAIN rows \cup {nextRow}
        /\ left' \subseteq left /\ UNCHANGED <<active, met>>
      BY <1>3 DEF AddRow
  <2> QED
      BY <1>0, <2>1 DEF WsBounds
<1>4. ASSUME NEW d \in Desks, NEW actor \in People, NEW i \in RowIds, NEW role \in Roles,
             ChangeRole(d, actor, i, role)
      PROVE  WsBounds'
  <2>1. i \in DOMAIN rows /\ rows[i].user \in People
      BY <1>4 DEF ChangeRole, WorkspaceInv, WsTyped, Membership
  <2> QED
      BY <1>4, <1>t, <2>1 DEF ChangeRole
<1>5. ASSUME NEW d \in Desks, SaveRow(d) PROVE WsBounds'
  <2>1. desk[d].id \in RowIds
      BY <1>0, <1>5, DeskShape DEF SaveRow
  <2>2. DOMAIN rows' = DOMAIN rows \cup {desk[d].id} /\ UNCHANGED <<nextRow, active, left, met>>
      BY <1>5 DEF SaveRow
  <2> QED
      BY <1>0, <2>1, <2>2 DEF WsBounds, RowIds
<1>6. ASSUME NEW d \in Desks, NEW actor \in People, NEW i \in RowIds, RemoveMember(d, actor, i)
      PROVE  WsBounds'
  <2>1. i \in DOMAIN rows /\ rows[i].user \in People
      BY <1>6 DEF RemoveMember, WorkspaceInv, WsTyped, Membership
  <2> QED
      BY <1>6, <1>t, <2>1 DEF RemoveMember
<1>7. ASSUME NEW d \in Desks, DropMember(d) PROVE WsBounds'
  <2>1. desk[d].user \in People
      BY <1>0, <1>7, DeskShape DEF DropMember
  <2>2. /\ DOMAIN rows' \subseteq DOMAIN rows /\ left' = left \cup {desk[d].user}
        /\ UNCHANGED <<nextRow, active, met>>
      BY <1>7 DEF DropMember
  <2> QED
      BY <2>1, <2>2 DEF WsBounds
<1>8. ASSUME NEW u \in People, Activate(u) PROVE WsBounds'
    BY <1>8 DEF Activate, WsBounds
<1>9. CASE UNCHANGED wsVars
    BY <1>9 DEF wsVars, WsBounds
<1> QED
    BY <1>1, <1>2, <1>3, <1>4, <1>5, <1>6, <1>7, <1>8, <1>9 DEF WsNext

LEMMA WorkspaceTyped == WorkspaceInv /\ WsBounds => WsTypeOK
<1> SUFFICES ASSUME WorkspaceInv, WsBounds PROVE WsTypeOK
    OBVIOUS
<1>1. \A i \in DOMAIN rows : i \in 1..(nextRow - 1) /\ rows[i] \in Membership
    BY DEF WorkspaceInv, WsTyped, WsBounds
<1> QED
    BY <1>1 DEF WorkspaceInv, WsTyped, WsBounds, WsTypeOK

\* No two accounts have an address, and what is landed on or linked is there.
SuBounds ==
    /\ bootLock \in BOOLEAN /\ cookie \in [Browsers -> 0..MaxLogins] /\ Len(begun) <= MaxLogins
    /\ \A x \in tabs : x.login \in 1..MaxLogins
    /\ landed \subseteq Identities \X Nat /\ vouched \subseteq Identities \X Addresses
    /\ \A i, j \in DOMAIN roster : roster[i].email = roster[j].email => i = j

LEMMA SignUpShapes ==
    ASSUME SignUpInv
    PROVE  /\ roster \in Seq(AccountRow) /\ linked \in [Identities -> Nat]
           /\ clerkAt \in [Attending -> AtWork] /\ begun \in Seq(Browsers)
           /\ tabs \subseteq [browser : Browsers, login : Nat, claim : Claims]
           /\ \A c \in Claims : c.who \in Identities /\ c.email \in Addresses
BY SignUpAssumption DEF SignUpInv, SuTyped, Identities

\* An account is added only under an address nobody has.
LEMMA OneAddress ==
    ASSUME SignUpInv, SuBounds, NEW e \in Addresses, ~Registered(e), NEW a \in AccountRow, a.email = e,
           roster' = Append(roster, a)
    PROVE  \A i, j \in DOMAIN roster' : roster'[i].email = roster'[j].email => i = j
<1>1. /\ roster \in Seq(AccountRow) /\ \A i \in DOMAIN roster : roster[i].email # e
    BY SignUpShapes DEF Registered
<1>2. /\ DOMAIN roster' = DOMAIN roster \cup {Len(roster) + 1}
      /\ roster'[Len(roster) + 1] = a /\ \A i \in DOMAIN roster : roster'[i] = roster[i]
    BY <1>1
<1> QED
    BY <1>1, <1>2 DEF SuBounds

LEMMA LandsBounded ==
    ASSUME SignUpInv, SuBounds, NEW t \in Attending, clerkAt[t].at \in {"link", "email", "create", "join"},
           NEW account \in Nat, Lands(t, account)
    PROVE  landed' \subseteq Identities \X Nat /\ cookie' \in [Browsers -> 0..MaxLogins]
<1>1. clerkAt[t].claim.who \in Identities /\ clerkAt[t].browser \in Browsers
    BY SignUpShapes, WorkShape
<1>2. landed' = landed \cup {<<clerkAt[t].claim.who, account>>}
      /\ cookie' = [cookie EXCEPT ![clerkAt[t].browser] = 0]
    BY DEF Lands
<1>3. 0 \in 0..MaxLogins
    BY SignUpAssumption
<1> QED
    BY <1>1, <1>2, <1>3 DEF SuBounds

LEMMA NextSuBounds == ASSUME SignUpInv, SuBounds, [SuNext]_suVars PROVE SuBounds'
<1>0. MaxLogins \in Nat /\ 0 \in 0..MaxLogins
    BY SignUpAssumption
<1>1. ASSUME NEW t \in Attending, NEW e \in Addresses, BeginRegister(t, e) PROVE SuBounds'
    BY <1>1 DEF BeginRegister, SuBounds
<1>2. ASSUME NEW t \in Attending, EndRegister(t) PROVE SuBounds'
  <2>1. bootLock' \in BOOLEAN /\ UNCHANGED <<linked, cookie, begun, tabs, landed, vouched>>
        /\ clerkAt[t].at = "register"
      BY <1>2 DEF EndRegister
  <2>2. CASE UNCHANGED roster
      BY <2>1, <2>2 DEF SuBounds
  <2>3. CASE ~Registered(clerkAt[t].email)
             /\ roster' = Append(roster, Account(clerkAt[t].email, clerkAt[t].first, 0))
    <3>1. clerkAt[t].email \in Addresses /\ clerkAt[t].first \in BOOLEAN
        BY <2>1, SignUpShapes, WorkShape
    <3>2. PICK a : a = Account(clerkAt[t].email, clerkAt[t].first, 0)
        OBVIOUS
    <3>3. a \in AccountRow /\ a.email = clerkAt[t].email
        BY <3>1, <3>2 DEF Account, AccountRow
    <3>4. \A i, j \in DOMAIN roster' : roster'[i].email = roster'[j].email => i = j
        BY <2>3, <3>1, <3>2, <3>3, OneAddress
    <3> QED
        BY <2>1, <3>4 DEF SuBounds
  <2> QED
      BY <1>2, <2>2, <2>3 DEF EndRegister
<1>3. ASSUME NEW b \in Browsers, OpenLogin(b) PROVE SuBounds'
  <2>1. /\ Len(begun) < MaxLogins /\ begun' = Append(begun, b)
        /\ cookie' = [cookie EXCEPT ![b] = Len(begun) + 1]
        /\ UNCHANGED <<roster, linked, bootLock, tabs, clerkAt, landed, vouched>>
      BY <1>3 DEF OpenLogin
  <2>2. Len(begun') = Len(begun) + 1 /\ Len(begun) \in Nat
      BY <2>1, SignUpShapes
  <2>3. Len(begun) + 1 \in 0..MaxLogins
      BY <1>0, <2>1, <2>2
  <2>4. cookie' \in [Browsers -> 0..MaxLogins]
      BY <2>1, <2>3 DEF SuBounds
  <2> QED
      BY <1>0, <2>1, <2>2, <2>4 DEF SuBounds
<1>4. ASSUME NEW b \in Browsers, CookieExpires(b) PROVE SuBounds'
    BY <1>0, <1>4 DEF CookieExpires, SuBounds
<1>5. ASSUME NEW n \in 1..MaxLogins, NEW c \in Claims, IdpAnswers(n, c) PROVE SuBounds'
  <2>1. /\ tabs' = tabs \cup {[browser |-> begun[n], login |-> n, claim |-> c]}
        /\ UNCHANGED <<roster, linked, bootLock, cookie, begun, clerkAt, landed, vouched>>
      BY <1>5 DEF IdpAnswers
  <2> QED
      BY <2>1 DEF SuBounds
<1>6. ASSUME NEW t \in Attending, NEW x \in tabs, Callback(t, x) PROVE SuBounds'
  <2>1. tabs' \subseteq tabs /\ UNCHANGED <<roster, linked, bootLock, cookie, begun, landed>>
      BY <1>6 DEF Callback
  <2>2. PICK token \in IF StateMatches(x) THEN TokenOf(x) ELSE {{}} :
            vouched' = vouched \cup {<<c.who, c.email>> : c \in {c \in token : c.sure}}
      BY <1>6 DEF Callback
  <2>3. token \subseteq Claims
      BY <2>2, SignUpShapes DEF TokenOf
  <2>4. vouched' \subseteq Identities \X Addresses
      BY <2>2, <2>3, SignUpShapes DEF SuBounds
  <2> QED
      BY <2>1, <2>4 DEF SuBounds
<1>7. ASSUME NEW t \in Attending, FindLink(t) PROVE SuBounds'
  <2>1. /\ clerkAt[t].at = "link" /\ UNCHANGED <<roster, linked, bootLock, begun, tabs, vouched>>
        /\ \/ Lands(t, linked[clerkAt[t].claim.who])
           \/ UNCHANGED <<landed, cookie>>
      BY <1>7 DEF FindLink
  <2>2. clerkAt[t].claim.who \in Identities
      BY <2>1, SignUpShapes, WorkShape
  <2>3. linked[clerkAt[t].claim.who] \in Nat
      BY <2>2, SignUpShapes
  <2>4. landed' \subseteq Identities \X Nat /\ cookie' \in [Browsers -> 0..MaxLogins]
      BY <2>1, <2>3, LandsBounded DEF SuBounds
  <2> QED
      BY <2>1, <2>4 DEF SuBounds
<1>8. ASSUME NEW t \in Attending, FindEmail(t) PROVE SuBounds'
    BY <1>8 DEF FindEmail, SuBounds
<1>9. ASSUME NEW t \in Attending, CreateSso(t) PROVE SuBounds'
  <2>1. clerkAt[t].at = "create" /\ UNCHANGED <<linked, bootLock, cookie, begun, tabs, landed, vouched>>
      BY <1>9 DEF CreateSso
  <2>2. PICK c : c = clerkAt[t].claim
      OBVIOUS
  <2>3. c.email \in Addresses /\ c.who \in Identities
      BY <2>1, <2>2, SignUpShapes, WorkShape
  <2>4. CASE UNCHANGED roster
      BY <2>1, <2>4 DEF SuBounds
  <2>5. CASE ~Registered(c.email) /\ roster' = Append(roster, Account(c.email, FALSE, c.who))
    <3>1. PICK a : a = Account(c.email, FALSE, c.who)
        OBVIOUS
    <3>2. a \in AccountRow /\ a.email = c.email
        BY <2>3, <3>1 DEF Account, AccountRow
    <3>3. \A i, j \in DOMAIN roster' : roster'[i].email = roster'[j].email => i = j
        BY <2>3, <2>5, <3>1, <3>2, OneAddress
    <3> QED
        BY <2>1, <3>3 DEF SuBounds
  <2> QED
      BY <1>9, <2>2, <2>4, <2>5 DEF CreateSso
<1>10. ASSUME NEW t \in Attending, Join(t) PROVE SuBounds'
  <2>1. /\ clerkAt[t].at = "join" /\ UNCHANGED <<roster, bootLock, begun, tabs, vouched>>
        /\ Lands(t, clerkAt[t].account) \/ UNCHANGED <<landed, cookie>>
      BY <1>10 DEF Join
  <2>2. clerkAt[t].account \in Nat
      BY <2>1, SignUpShapes, WorkShape
  <2>3. landed' \subseteq Identities \X Nat /\ cookie' \in [Browsers -> 0..MaxLogins]
      BY <2>1, <2>2, LandsBounded DEF SuBounds
  <2> QED
      BY <2>1, <2>3 DEF SuBounds
<1>11. CASE SuRestart
  <2>1. bootLock' \in BOOLEAN /\ UNCHANGED <<linked, cookie, begun, tabs, landed, vouched>>
      BY <1>11 DEF SuRestart
  <2>2. CASE roster' = roster
      BY <2>1, <2>2 DEF SuBounds
  <2>3. CASE roster' = [roster EXCEPT ![1].admin = TRUE]
    <3>1. DOMAIN roster' = DOMAIN roster /\ \A i \in DOMAIN roster : roster'[i].email = roster[i].email
      <4>1. PICK yes \in BOOLEAN : yes = TRUE
          OBVIOUS
      <4>2. \A i \in DOMAIN roster : roster[i] \in AccountRow
          BY SignUpShapes
      <4> QED
          BY <2>3, <4>2, SignUpShapes DEF AccountRow
    <3> QED
        BY <2>1, <3>1 DEF SuBounds
  <2> QED
      BY <1>11, <2>2, <2>3 DEF SuRestart
<1>12. CASE UNCHANGED suVars
    BY <1>12 DEF suVars, SuBounds
<1> QED
    BY <1>1, <1>2, <1>3, <1>4, <1>5, <1>6, <1>7, <1>8, <1>9, <1>10, <1>11, <1>12 DEF SuNext

LEMMA SignUpTyped == SignUpInv /\ SuBounds => SuTypeOK
<1> SUFFICES ASSUME SignUpInv, SuBounds PROVE SuTypeOK
    OBVIOUS
<1>1. Len(roster) \in Nat /\ DOMAIN roster = 1..Len(roster)
    BY SignUpShapes
<1>2. linked \in [Identities -> 0..Len(roster)]
  <2>1. ASSUME NEW w \in Identities PROVE linked[w] \in 0..Len(roster)
    <3>1. CASE linked[w] = 0
        BY <1>1, <3>1
    <3>2. CASE linked[w] # 0
      <4>1. linked[w] \in DOMAIN roster
          BY <3>2 DEF SignUpInv, LinksTrusted, Trusted
      <4> QED
          BY <1>1, <4>1
    <3> QED
        BY <3>1, <3>2
  <2> QED
      BY <2>1, SignUpShapes
<1>3. landed \subseteq Identities \X DOMAIN roster
    BY <1>2 DEF SignUpInv, LinksTrusted, Trusted, SuBounds
<1>4. tabs \subseteq [browser : Browsers, login : 1..MaxLogins, claim : Claims]
  <2>1. ASSUME NEW x \in tabs PROVE x \in [browser : Browsers, login : 1..MaxLogins, claim : Claims]
      BY SignUpShapes DEF SuBounds
  <2> QED
      BY <2>1
<1> QED
    BY <1>2, <1>3, <1>4, SignUpShapes DEF SuBounds, SuTypeOK, AccountRow

PgBounds == odd \subseteq {"crossed", "overtaken", "missed"}

LEMMA NextPgBounds == ASSUME PgBounds, [PgNext]_pgVars PROVE PgBounds'
<1>1. ASSUME NEW f \in Flights, Refused(f) \/ SignsOut(f) \/ SignsIn(f) PROVE PgBounds'
    BY <1>1 DEF Refused, SignsOut, SignsIn, Crossing, PgBounds
<1>2. ASSUME NEW f \in Flights, Absorbs(f) \/ Recognises(f) \/ Breaks(f) \/ Reopens(f) PROVE PgBounds'
    BY <1>2 DEF Absorbs, Recognises, Breaks, Reopens, PgBounds
<1>3. ASSUME NEW s, CookieChanges(s) PROVE PgBounds'
    BY <1>3 DEF CookieChanges, PgBounds
<1>4. CASE UNCHANGED odd
    BY <1>4 DEF PgBounds
<1> QED
    BY <1>1, <1>2, <1>3, <1>4 DEF PgNext, PressLogin, PressLogout, Act, Poll, Sends, Serves, RunEnds,
                                  pgVars

LEMMA PageTypes == PageInv /\ PgBounds => PgTypeOK
BY DEF PageInv, PageTyped, PgBounds, PgTypeOK

DfBounds == owed \cup spilled \cup carried \subseteq Edits

LEMMA NextDfBounds == ASSUME DraftsInv, DfBounds, [DfNext]_dfVars PROVE DfBounds'
<1>0. stash \in Seq(Edits) /\ replay \in ReplayType
    BY DEF DraftsInv, DraftsTyped
<1>1. ASSUME NEW e \in Edits, Preserve(e) PROVE DfBounds'
  <2>1. /\ owed' = owed \cup {e} /\ carried' = carried
        /\ spilled' = spilled \cup (IF replay.on THEN {e} ELSE {})
                              \cup (IF Len(stash) = Room THEN {Head(stash)} ELSE {})
      BY <1>1 DEF Preserve
  <2>2. Len(stash) = Room => Head(stash) \in Edits
    <3>1. SUFFICES ASSUME Len(stash) = Room PROVE Head(stash) \in Edits
        OBVIOUS
    <3>2. stash # <<>>
        BY <3>1, <1>0, DraftsAssumption
    <3> QED
        BY <1>0, <3>2
  <2> QED
      BY <2>1, <2>2 DEF DfBounds
<1>2. CASE SendAgain
  <2>1. replay.left \in Seq(Edits)
      BY <1>0 DEF ReplayType
  <2>2. replay.left # <<>> /\ UNCHANGED <<owed, spilled>>
        /\ (carried' = carried \cup {Head(replay.left)} \/ carried' = carried)
      BY <1>2 DEF SendAgain
  <2>3. Head(replay.left) \in Edits
      BY <2>1, <2>2
  <2> QED
      BY <2>2, <2>3 DEF DfBounds
<1>3. ASSUME NEW end, Settle(end) PROVE DfBounds'
    BY <1>3 DEF Settle, DfBounds
<1>4. CASE UNCHANGED <<owed, spilled, carried>>
    BY <1>4 DEF DfBounds
<1> QED
    BY <1>1, <1>2, <1>3, <1>4 DEF DfNext, JarChanges, HeldChanges, Edit, Judges, BeginReplay,
                                  EndReplay, Reopened, dfVars

LEMMA DraftTypes == DraftsInv /\ DfBounds => DfTypeOK
<1> SUFFICES ASSUME DraftsInv, DfBounds PROVE DfTypeOK
    OBVIOUS
<1>1. DraftsTyped
    BY DEF DraftsInv
<1>2. sent \in [Edits -> [by : Tokens \cup {NoToken}, token : Tokens \cup {NoToken},
                           at : Verdicts \cup {"none", "sent", "kept"}]]
  <2>1. {"none", "sent", "kept", "done", "full", "bad", "out"} = Verdicts \cup {"none", "sent", "kept"}
      BY DEF Verdicts
  <2> QED
      BY <1>1, <2>1 DEF DraftsTyped, DraftType
<1>3. ToSet(stash) \subseteq Edits
    BY <1>1 DEF DraftsTyped, ToSet
<1> QED
    BY <1>1, <1>2, <1>3 DEF DraftsTyped, DfBounds, DfTypeOK

\* Whatever disturbed it, a row, a listed one and one of a file are of a kind
\* and of a user there are, and an import has the ids it gave out.
Owned(r) == r.kind \in RowKinds /\ r.owner \in Owners
ExpBounds ==
    /\ lastId \in 0..MaxIds /\ DOMAIN stock \subseteq 1..lastId
    /\ \A i \in DOMAIN stock : Owned(stock[i])
    /\ exporting = [at |-> exporting.at, owner |-> exporting.owner, listed |-> exporting.listed,
                    torn |-> exporting.torn]
    /\ exporting.at \in {"none", "found", "imported", "write"}
    /\ DOMAIN exporting.listed \subseteq 1..lastId
    /\ \A i \in DOMAIN exporting.listed : Owned(exporting.listed[i])
    /\ DOMAIN file.items \subseteq 1..lastId /\ \A i \in DOMAIN file.items : Owned(file.items[i])
    /\ importing = [owner |-> importing.owner, ids |-> importing.ids, left |-> importing.left]
    /\ importing.left \subseteq DOMAIN importing.ids \cap DOMAIN file.items
    /\ importing.left # {} => importing.owner \in Owners
    /\ \A a \in DOMAIN importing.ids : importing.ids[a] \in 1..lastId

LEMMA TornOnly ==
    ASSUME ExpBounds, NEW u, Tears(u)
    PROVE  /\ exporting'.at = exporting.at /\ exporting'.listed = exporting.listed
           /\ exporting' = [at |-> exporting'.at, owner |-> exporting'.owner,
                            listed |-> exporting'.listed, torn |-> exporting'.torn]
<1>1. PICK x, o, l, t : exporting = [at |-> x, owner |-> o, listed |-> l, torn |-> t]
    BY DEF ExpBounds
<1>2. PICK yes \in BOOLEAN : yes = TRUE
    OBVIOUS
<1>3. exporting' = exporting \/ exporting' = [at |-> x, owner |-> o, listed |-> l, torn |-> yes]
    BY <1>1, <1>2 DEF Tears
<1> QED
    BY <1>1, <1>3

LEMMA InitExpBounds == ExpInit => ExpBounds
<1> SUFFICES ASSUME ExpInit PROVE ExpBounds
    OBVIOUS
<1>1. /\ stock = <<>> /\ lastId = 0 /\ DOMAIN stock = {}
      /\ exporting = NoExport /\ file = NoFile /\ importing = NoImport
    BY DEF ExpInit
<1>2. /\ exporting.at = "none" /\ DOMAIN exporting.listed = {} /\ DOMAIN file.items = {}
      /\ exporting = [at |-> exporting.at, owner |-> exporting.owner, listed |-> exporting.listed,
                      torn |-> exporting.torn]
      /\ importing = [owner |-> importing.owner, ids |-> importing.ids, left |-> importing.left]
      /\ importing.left = {} /\ DOMAIN importing.ids = {}
    BY <1>1, NoImportShape DEF NoExport, NoFile, NoImport
<1> QED
    BY <1>1, <1>2, ExportsAssumption DEF ExpBounds

\* More rows and ids: the rest stays in its place.
LEMMA StockGrows ==
    ASSUME ExpBounds, lastId' \in lastId..MaxIds, DOMAIN stock' \subseteq 1..lastId',
           \A i \in DOMAIN stock' : Owned(stock'[i]), UNCHANGED <<file, importing>>,
           NEW u, Tears(u)
    PROVE  ExpBounds'
<1>1. /\ lastId \in Nat /\ MaxIds \in Nat /\ lastId' \in Nat /\ lastId <= lastId'
      /\ \A n \in 1..lastId : n \in 1..lastId'
    BY ExportsAssumption DEF ExpBounds
<1>2. /\ exporting'.at = exporting.at /\ exporting'.listed = exporting.listed
      /\ exporting' = [at |-> exporting'.at, owner |-> exporting'.owner,
                       listed |-> exporting'.listed, torn |-> exporting'.torn]
    BY TornOnly
<1>3. lastId' \in 0..MaxIds
    BY <1>1
<1>4. DOMAIN exporting'.listed \subseteq 1..lastId' /\ DOMAIN file'.items \subseteq 1..lastId'
    BY <1>1, <1>2 DEF ExpBounds
<1>5. \A a \in DOMAIN importing'.ids : importing'.ids[a] \in 1..lastId'
    BY <1>1 DEF ExpBounds
<1> QED
    BY <1>2, <1>3, <1>4, <1>5 DEF ExpBounds, Owned

LEMMA AddsBounded ==
    ASSUME ExpBounds, NEW row, Owned(row), Adds(row) PROVE ExpBounds'
<1>1. /\ lastId' = lastId + 1 /\ lastId < MaxOwn /\ stock' = Has(lastId + 1, row) /\ Tears(row.owner)
      /\ UNCHANGED <<file, importing>>
    BY DEF Adds
<1>2. lastId' \in lastId..MaxIds /\ lastId \in Nat
    BY <1>1, ExportsAssumption DEF ExpBounds
<1>3. DOMAIN stock' = DOMAIN stock \cup {lastId + 1} /\ stock'[lastId + 1] = row
      /\ \A j \in DOMAIN stock : j # lastId + 1 => stock'[j] = stock[j]
    BY <1>1, HasShape
<1>4. DOMAIN stock' \subseteq 1..lastId'
    BY <1>1, <1>2, <1>3 DEF ExpBounds
<1>5. \A i \in DOMAIN stock' : Owned(stock'[i])
    BY <1>3 DEF ExpBounds
<1> QED
    BY <1>1, <1>2, <1>4, <1>5, StockGrows

LEMMA ListsBounded ==
    ASSUME ExpBounds, NEW u, NEW kind, NEW at \in {"found", "imported", "write"}, Lists(u, kind, at)
    PROVE  ExpBounds'
<1>1. PICK x, o, l, t : exporting = [at |-> x, owner |-> o, listed |-> l, torn |-> t]
    BY DEF ExpBounds
<1>2. PICK new : new = [i \in DOMAIN l \cup OfKind(kind, u) |->
                              IF i \in DOMAIN l THEN l[i] ELSE stock[i]]
    OBVIOUS
<1>3. exporting' = [at |-> at, owner |-> u, listed |-> new, torn |-> t]
      /\ UNCHANGED <<stock, lastId, file, importing>>
    BY <1>1, <1>2 DEF Lists
<1>4. DOMAIN new = DOMAIN l \cup OfKind(kind, u) /\ OfKind(kind, u) \subseteq DOMAIN stock
    BY <1>2 DEF OfKind
<1>5. /\ DOMAIN l \subseteq 1..lastId /\ \A i \in DOMAIN l : Owned(l[i])
      /\ DOMAIN stock \subseteq 1..lastId /\ \A i \in DOMAIN stock : Owned(stock[i])
    BY <1>1 DEF ExpBounds
<1>6. DOMAIN new \subseteq 1..lastId /\ \A i \in DOMAIN new : Owned(new[i])
    BY <1>2, <1>4, <1>5
<1> QED
    BY <1>3, <1>6 DEF ExpBounds, Owned

LEMMA ImportsJobBounded == ASSUME ExpBounds, NEW d \in DOMAIN stock, ImportsJob(d) PROVE ExpBounds'
<1>0. stock[d].owner \in Owners /\ lastId \in Nat /\ DOMAIN stock \subseteq 1..lastId
    BY DEF ExpBounds, Owned
<1>1. PICK c \in IF stock[d].of # None THEN {stock[d].of} \cap OfKind("company", stock[d].owner)
                 ELSE OfKind("company", stock[d].owner) \cup {lastId + 1} :
        LET new == IF c \in DOMAIN stock THEN stock ELSE Has(c, Row("company", stock[d].owner, None, None))
            i == IF c \in DOMAIN stock THEN lastId + 1 ELSE c + 1
        IN  /\ i <= MaxOwn /\ lastId' = i
            /\ stock' = [j \in DOMAIN new \cup {i} |->
                           CASE j = i -> Row("imported", stock[d].owner, c, d)
                             [] j = d -> Row("found", stock[d].owner, c, i)
                             [] OTHER -> new[j]]
            /\ Tears(stock[d].owner) /\ UNCHANGED <<file, importing, copied, disturbed>>
    BY DEF ImportsJob
<1>2. PICK new : new = IF c \in DOMAIN stock THEN stock ELSE Has(c, Row("company", stock[d].owner, None, None))
    OBVIOUS
<1>3. PICK i : i = IF c \in DOMAIN stock THEN lastId + 1 ELSE c + 1
    OBVIOUS
<1>4. /\ i <= MaxOwn /\ lastId' = i /\ Tears(stock[d].owner) /\ UNCHANGED <<file, importing>>
      /\ stock' = [j \in DOMAIN new \cup {i} |->
                           CASE j = i -> Row("imported", stock[d].owner, c, d)
                             [] j = d -> Row("found", stock[d].owner, c, i)
                             [] OTHER -> new[j]]
    BY <1>1, <1>2, <1>3
<1>5. c \in DOMAIN stock \/ c = lastId + 1
    BY <1>1 DEF OfKind
<1>6. Owned(Row("company", stock[d].owner, None, None)) /\ Owned(Row("imported", stock[d].owner, c, d))
      /\ Owned(Row("found", stock[d].owner, c, i))
    BY <1>0 DEF Owned, Row, RowKinds
<1>7. DOMAIN new \subseteq 1..(lastId + 1) /\ \A j \in DOMAIN new : Owned(new[j])
  <2>1. CASE c \in DOMAIN stock
      BY <1>0, <1>2, <2>1 DEF ExpBounds
  <2>2. CASE c \notin DOMAIN stock
    <3>1. new = Has(c, Row("company", stock[d].owner, None, None)) /\ c = lastId + 1
        BY <1>2, <1>5, <2>2
    <3>2. /\ DOMAIN new = DOMAIN stock \cup {lastId + 1}
          /\ \A j \in DOMAIN new : \/ new[j] = Row("company", stock[d].owner, None, None)
                                   \/ j \in DOMAIN stock /\ new[j] = stock[j]
        BY <3>1 DEF Has
    <3> QED
        BY <1>0, <1>6, <3>2 DEF ExpBounds
  <2> QED
      BY <2>1, <2>2
<1>8. i \in {lastId + 1, lastId + 2} /\ (DOMAIN new \subseteq 1..i)
    BY <1>0, <1>3, <1>5, <1>7
<1>9. lastId' \in lastId..MaxIds
    BY <1>0, <1>4, <1>8, ExportsAssumption
<1>10. DOMAIN stock' \subseteq 1..lastId'
    BY <1>0, <1>4, <1>8
<1>11. \A j \in DOMAIN stock' : Owned(stock'[j])
    BY <1>4, <1>6, <1>7
<1> QED
    BY <1>4, <1>9, <1>10, <1>11, StockGrows

LEMMA ImportStartsBounded == ASSUME ExpBounds, NEW u \in Owners, ImportStarts(u) PROVE ExpBounds'
<1>0. lastId \in Nat /\ MaxIds \in Nat /\ DOMAIN file.items \subseteq 1..lastId
    BY ExportsAssumption DEF ExpBounds
<1>1. PICK n : n = Cardinality(DOMAIN file.items)
    OBVIOUS
<1>2. n \in Nat
  <2>1. IsFiniteSet(1..lastId)
      BY <1>0, FS_Interval
  <2>2. IsFiniteSet(DOMAIN file.items)
      BY <1>0, <2>1, FS_Subset
  <2> QED
      BY <1>1, <2>2, FS_CardinalityType
<1>3. PICK ids \in [DOMAIN file.items -> (lastId + 1)..(lastId + n)] :
          importing' = [owner |-> u, ids |-> ids, left |-> DOMAIN ids]
    BY <1>1 DEF ImportStarts
<1>4. n > 0 /\ lastId + n <= MaxIds /\ lastId' = lastId + n /\ Tears(u) /\ UNCHANGED <<stock, file>>
    BY <1>1 DEF ImportStarts
<1>5. /\ importing'.owner = u /\ importing'.ids = ids /\ importing'.left = DOMAIN ids
      /\ importing' = [owner |-> importing'.owner, ids |-> importing'.ids, left |-> importing'.left]
      /\ DOMAIN ids = DOMAIN file.items
    BY <1>3
<1>6. lastId' \in Nat /\ lastId' \in 0..MaxIds /\ \A k \in 1..lastId : k \in 1..lastId'
    BY <1>0, <1>2, <1>4
<1>7. \A a \in DOMAIN ids : ids[a] \in 1..lastId'
  <2>1. \A k \in (lastId + 1)..(lastId + n) : k \in 1..lastId'
      BY <1>0, <1>2, <1>4
  <2> QED
      BY <1>3, <2>1
<1>8. /\ exporting'.at = exporting.at /\ exporting'.listed = exporting.listed
      /\ exporting' = [at |-> exporting'.at, owner |-> exporting'.owner,
                       listed |-> exporting'.listed, torn |-> exporting'.torn]
    BY <1>4, TornOnly
<1>9. /\ DOMAIN exporting'.listed \subseteq 1..lastId' /\ DOMAIN file'.items \subseteq 1..lastId'
      /\ DOMAIN stock' \subseteq 1..lastId'
    BY <1>4, <1>6, <1>8 DEF ExpBounds
<1> QED
    BY <1>4, <1>5, <1>6, <1>7, <1>8, <1>9 DEF ExpBounds, Owned

LEMMA ImportSavesBounded == ASSUME ExpBounds, NEW i \in importing.left, ImportSaves(i) PROVE ExpBounds'
<1>0. /\ i \in DOMAIN importing.ids /\ i \in DOMAIN file.items /\ importing.owner \in Owners
      /\ lastId \in Nat
    BY DEF ExpBounds
<1>1. /\ stock' = Has(importing.ids[i], Copy(file.items[i])) /\ UNCHANGED <<lastId, file>>
      /\ importing' = (IF importing.left \ {i} = {} THEN NoImport
                       ELSE [importing EXCEPT !.left = importing.left \ {i}])
      /\ Tears(importing.owner)
    BY DEF ImportSaves
<1>2. PICK row : row = Copy(file.items[i])
    OBVIOUS
<1>3. Owned(row)
  <2>1. file.items[i].kind \in RowKinds
      BY <1>0 DEF ExpBounds, Owned
  <2> QED
      BY <1>0, <1>2, <2>1 DEF Copy, Row, Owned
<1>4. /\ DOMAIN stock' = DOMAIN stock \cup {importing.ids[i]} /\ stock'[importing.ids[i]] = row
      /\ \A j \in DOMAIN stock : j # importing.ids[i] => stock'[j] = stock[j]
    BY <1>1, <1>2, HasShape
<1>5. importing.ids[i] \in 1..lastId
    BY <1>0 DEF ExpBounds
<1>6. DOMAIN stock' \subseteq 1..lastId /\ \A j \in DOMAIN stock' : Owned(stock'[j])
    BY <1>3, <1>4, <1>5 DEF ExpBounds
<1>7. PICK o, ids, left1 : importing = [owner |-> o, ids |-> ids, left |-> left1]
    BY DEF ExpBounds
<1>8. importing' = NoImport \/ importing' = [owner |-> o, ids |-> ids, left |-> left1 \ {i}]
    BY <1>1, <1>7
<1>9. /\ importing' = [owner |-> importing'.owner, ids |-> importing'.ids, left |-> importing'.left]
      /\ importing'.left \subseteq importing.left
      /\ importing'.left # {} => importing'.owner = importing.owner
      /\ DOMAIN importing'.ids = {} \/ importing'.ids = importing.ids
      /\ importing'.left = {} \/ importing'.ids = importing.ids
    BY <1>7, <1>8, NoImportShape DEF NoImport
<1>10. /\ exporting'.at = exporting.at /\ exporting'.listed = exporting.listed
       /\ exporting' = [at |-> exporting'.at, owner |-> exporting'.owner,
                        listed |-> exporting'.listed, torn |-> exporting'.torn]
    BY <1>1, TornOnly
<1>11. /\ importing'.left \subseteq DOMAIN importing'.ids \cap DOMAIN file'.items
       /\ importing'.left # {} => importing'.owner \in Owners
       /\ \A a \in DOMAIN importing'.ids : importing'.ids[a] \in 1..lastId'
  <2>1. CASE DOMAIN importing'.ids = {} /\ importing'.left = {}
      BY <2>1
  <2>2. CASE importing'.ids = importing.ids
      BY <1>0, <1>1, <1>9, <2>2 DEF ExpBounds
  <2> QED
      BY <1>9, <2>1, <2>2
<1> QED
    BY <1>1, <1>6, <1>9, <1>10, <1>11 DEF ExpBounds, Owned

LEMMA NextExpBounds == ASSUME ExpBounds, [ExpNext]_expVars PROVE ExpBounds'
<1>1. ASSUME NEW u \in Owners, AddsCompany(u) PROVE ExpBounds'
  <2>1. Owned(Row("company", u, None, None))
      BY DEF Owned, Row, RowKinds
  <2> QED
      BY <1>1, <2>1, AddsBounded DEF AddsCompany
<1>2. ASSUME NEW u \in Owners, Finds(u) PROVE ExpBounds'
  <2>1. \A c : Owned(Row("found", u, c, None))
      BY DEF Owned, Row, RowKinds
  <2> QED
      BY <1>2, <2>1, AddsBounded DEF Finds
<1>3. ASSUME NEW u \in Owners, ListsCompanies(u) PROVE ExpBounds'
    BY <1>3, ListsBounded DEF ListsCompanies
<1>4. CASE ListsFound \/ ListsImported
    BY <1>4, ListsBounded DEF ListsFound, ListsImported
<1>5. ASSUME NEW u \in Owners, ImportStarts(u) PROVE ExpBounds'
    BY <1>5, ImportStartsBounded
<1>6. ASSUME NEW d \in DOMAIN stock, ImportsJob(d) PROVE ExpBounds'
    BY <1>6, ImportsJobBounded
<1>7. ASSUME NEW c \in DOMAIN stock, DeletesCompany(c) PROVE ExpBounds'
  <2>1. PICK gone : stock' = Restrict(stock, DOMAIN stock \ gone) /\ Tears(stock[c].owner)
                    /\ UNCHANGED <<lastId, file, importing>>
      BY <1>7 DEF DeletesCompany
  <2>2. DOMAIN stock' \subseteq DOMAIN stock /\ \A i \in DOMAIN stock' : stock'[i] = stock[i]
      BY <2>1 DEF Restrict
  <2>3. lastId' = lastId /\ lastId \in 0..MaxIds /\ DOMAIN stock \subseteq 1..lastId
      BY <2>1 DEF ExpBounds
  <2>5. lastId' \in lastId..MaxIds /\ DOMAIN stock' \subseteq 1..lastId'
      BY <2>2, <2>3, ExportsAssumption
  <2>4. \A i \in DOMAIN stock' : Owned(stock'[i])
      BY <2>2 DEF ExpBounds
  <2> QED
      BY <2>1, <2>4, <2>5, StockGrows
<1>8. CASE WritesFile
  <2>1. PICK items : items = [i \in DOMAIN exporting.listed |->
                                IF i \in DOMAIN stock THEN stock[i] ELSE exporting.listed[i]]
      OBVIOUS
  <2>2. /\ file'.items = items /\ exporting' = NoExport /\ importing = NoImport
        /\ UNCHANGED <<stock, lastId, importing>>
      BY <1>8, <2>1 DEF WritesFile
  <2>3. DOMAIN items = DOMAIN exporting.listed /\ \A i \in DOMAIN items : Owned(items[i])
      BY <2>1 DEF ExpBounds
  <2>4. /\ exporting'.at = "none" /\ DOMAIN exporting'.listed = {}
        /\ exporting' = [at |-> exporting'.at, owner |-> exporting'.owner, listed |-> exporting'.listed,
                         torn |-> exporting'.torn]
      BY <2>2 DEF NoExport
  <2>5. importing'.left = {}
      BY <2>2, NoImportShape
  <2> QED
      BY <2>2, <2>3, <2>4, <2>5 DEF ExpBounds, Owned
<1>9. ASSUME NEW i \in importing.left, ImportSaves(i) PROVE ExpBounds'
    BY <1>9, ImportSavesBounded
<1>10. CASE ImportFails
  <2>1. importing' = NoImport /\ UNCHANGED <<stock, lastId, exporting, file>>
      BY <1>10 DEF ImportFails
  <2>2. /\ importing' = [owner |-> importing'.owner, ids |-> importing'.ids, left |-> importing'.left]
        /\ importing'.left = {} /\ DOMAIN importing'.ids = {}
      BY <2>1, NoImportShape DEF NoImport
  <2> QED
      BY <2>1, <2>2 DEF ExpBounds, Owned
<1>11. CASE UNCHANGED expVars
    BY <1>11 DEF expVars, ExpBounds, Owned
<1> QED
    BY <1>1, <1>2, <1>3, <1>4, <1>5, <1>6, <1>7, <1>8, <1>9, <1>10, <1>11 DEF ExpNext

LEMMA ExportsTyped == ExportsInv /\ ExpBounds => ExpTypeOK
BY DEF ExportsInv, ExpBounds, Owned, ExpTypeOK

MshBounds ==
    /\ agent \in Agents /\ lastEntry <= MaxTaken /\ hurt <= MaxHurt
    /\ signer \in Keys /\ keyFile \in Keys \cup {0} /\ credentials \cup rotated \subseteq Keys
    /\ statuses \in [Letters -> SUBSET Entries]
    /\ \A n \in DOMAIN book : book[n].entry \in 1..lastEntry

LEMMA MeshShapes ==
    ASSUME MeshInv, MshBounds
    PROVE  /\ book \in Seq(Intake) /\ lastEntry \in Nat /\ hurt \in Nat /\ MaxTaken \in Nat
           /\ MaxHurt \in Nat /\ 1..lastEntry \subseteq Entries
BY MeshAssumption DEF MeshInv, MshTyped, MshBounds, Entries

LEMMA TakesUpBounded ==
    ASSUME MeshInv, MshBounds, NEW t, NEW does,
           NEW kept, kept = <<>> \/ \E l \in Letters : kept = Kept(l), TakesUp(t, does, kept)
    PROVE  MshBounds'
<1>1. /\ lastEntry < MaxTaken /\ lastEntry' = lastEntry + 1 /\ book' = book \o kept
      /\ UNCHANGED <<agent, hurt, signer, keyFile, credentials, rotated, statuses>>
    BY DEF TakesUp, Keyring
<1>2. \A n \in DOMAIN book : book[n].entry \in 1..lastEntry'
    BY <1>1, MeshShapes DEF MshBounds
<1>3. \A n \in DOMAIN book' : book'[n].entry \in 1..lastEntry'
  <2>1. CASE kept = <<>>
    <3>1. book' = book
        BY <1>1, <2>1, MeshShapes
    <3> QED
        BY <1>2, <3>1
  <2>2. CASE \E l \in Letters : kept = Kept(l)
    <3>1. PICK l \in Letters : kept = Kept(l)
        BY <2>2
    <3>0. [entry |-> lastEntry + 1, letter |-> l] \in Intake
        BY MeshShapes DEF Intake
    <3>2. PICK new \in Intake : new = [entry |-> lastEntry + 1, letter |-> l]
        BY <3>0
    <3>3. kept = <<new>> /\ new.entry = lastEntry + 1
        BY <3>1, <3>2 DEF Kept
    <3>4. book' = Append(book, new)
        BY <1>1, <3>3, MeshShapes
    <3>5. \A n \in DOMAIN book' : book'[n] = new \/ (n \in DOMAIN book /\ book'[n] = book[n])
        BY <3>4, MeshShapes
    <3> QED
        BY <1>1, <1>2, <3>3, <3>5, MeshShapes
  <2> QED
      BY <2>1, <2>2
<1> QED
    BY <1>1, <1>3, MeshShapes DEF MshBounds

LEMMA StartsUpBounded ==
    ASSUME MeshInv, MshBounds, NEW lines, StartsUp(lines), hurt' \in {hurt, hurt + 1}, hurt' <= MaxHurt
    PROVE  MshBounds'
<1>1. /\ Loaded \in Keys /\ signer' = Loaded /\ keyFile' = Loaded /\ book' = <<>>
      /\ statuses' = [l \in Letters |-> {}] /\ UNCHANGED <<agent, lastEntry, credentials, rotated>>
    BY DEF StartsUp
<1> QED
    BY <1>1 DEF MshBounds

LEMMA NextMshBounds == ASSUME MeshInv, MshBounds, [MshNext]_mshVars PROVE MshBounds'
<1>1. ASSUME NEW t \in Servers, NEW l \in Letters, Intakes(t, l) \/ Decides(t, l) \/ Consumes(t, l)
      PROVE  MshBounds'
    BY <1>1, TakesUpBounded DEF Intakes, Decides, Consumes
<1>2. ASSUME NEW t \in Servers, Refuses(t) \/ Recommends(t) \/ Issues(t) PROVE MshBounds'
    BY <1>2, TakesUpBounded DEF Refuses, Recommends, Issues
<1>3. ASSUME NEW t \in Servers, Emits(t) PROVE MshBounds'
    BY <1>3 DEF Emits, Keyring, MshBounds
<1>4. ASSUME NEW t \in Servers, EmitFails(t) PROVE MshBounds'
  <2>1. /\ hurt < MaxHurt /\ hurt' = hurt + 1
        /\ UNCHANGED <<agent, book, lastEntry, signer, keyFile, rotated, credentials, statuses>>
      BY <1>4 DEF EmitFails, Keyring
  <2> QED
      BY <2>1, MeshShapes DEF MshBounds
<1>5. ASSUME NEW t \in Servers, DiesWriting(t) PROVE MshBounds'
  <2>1. hurt < MaxHurt /\ hurt' = hurt + 1 /\ StartsUp(log')
      BY <1>5 DEF DiesWriting
  <2>2. hurt' <= MaxHurt
      BY <2>1, MeshShapes
  <2> QED
      BY <2>1, <2>2, StartsUpBounded
<1>6. CASE Dies
  <2>1. hurt' = hurt /\ StartsUp(log)
      BY <1>6 DEF Dies
  <2>2. hurt' <= MaxHurt
      BY <2>1 DEF MshBounds
  <2> QED
      BY <2>1, <2>2, StartsUpBounded
<1>7. ASSUME NEW t \in Servers, NEW arrives \in BOOLEAN, Replies(t, arrives) PROVE MshBounds'
  <2>1. /\ credentials' \subseteq credentials \cup {signer}
        /\ UNCHANGED <<agent, book, lastEntry, signer, keyFile, rotated, statuses, hurt>>
      BY <1>7 DEF Replies, Keyring, Signed
  <2> QED
      BY <2>1 DEF MshBounds
<1>8. ASSUME NEW l \in Letters, LooksUp(l) PROVE MshBounds'
  <2>1. /\ \E n \in DOMAIN book : book[n].letter = l
        /\ statuses' = [statuses EXCEPT ![l] = @ \cup {book[FirstOf(l)].entry}]
        /\ UNCHANGED <<agent, book, lastEntry, signer, keyFile, rotated, credentials, hurt>>
      BY <1>8 DEF LooksUp, Keyring
  <2>2. FirstOf(l) \in DOMAIN book
      BY <2>1, FirstShape DEF MeshInv
  <2>3. book[FirstOf(l)].entry \in Entries
      BY <2>2, MeshShapes DEF MshBounds
  <2>4. statuses' \in [Letters -> SUBSET Entries]
      BY <2>1, <2>3 DEF MshBounds
  <2> QED
      BY <2>1, <2>4 DEF MshBounds
<1>9. CASE DeletesKey
  <2>1. /\ keyFile # 0 /\ keyFile' = 0 /\ rotated' = rotated \cup {keyFile}
        /\ UNCHANGED <<agent, book, lastEntry, signer, credentials, statuses, hurt>>
      BY <1>9 DEF DeletesKey
  <2> QED
      BY <2>1 DEF MshBounds
<1>10. CASE UNCHANGED mshVars
    BY <1>10 DEF mshVars, MshBounds
<1> QED
    BY <1>1, <1>2, <1>3, <1>4, <1>5, <1>6, <1>7, <1>8, <1>9, <1>10 DEF MshNext

LEMMA InitMshBounds == MshInit => MshBounds
<1> SUFFICES ASSUME MshInit PROVE MshBounds
    OBVIOUS
<1>1. 1 \in Keys /\ 0 <= MaxTaken /\ 0 <= MaxHurt
    BY MeshAssumption DEF Keys
<1> QED
    BY <1>1 DEF MshInit, MshBounds

LEMMA MeshTypes == MeshInv /\ MshBounds => MshTypeOK
<1> SUFFICES ASSUME MeshInv, MshBounds PROVE MshTypeOK
    OBVIOUS
<1>0. /\ log \in Seq(Line) /\ book \in Seq(Intake) /\ lastEntry \in 0..MaxTaken /\ hurt \in 0..MaxHurt
      /\ openEnd \in BOOLEAN /\ nextSeq \in Nat \ {0} /\ told \subseteq 1..lastEntry
    BY MeshAssumption DEF MeshInv, MshTyped, MshBounds
<1>1. log \in Seq([seq : Nat, entry : 0..MaxTaken])
  <2>1. ASSUME NEW n \in 1..Len(log) PROVE log[n] \in [seq : Nat, entry : 0..MaxTaken]
    <3>1. log[n] \in Line /\ log[n].entry <= lastEntry
        BY <1>0 DEF MeshInv, LogInOrder
    <3>2. log[n].entry \in 0..MaxTaken
        BY <1>0, <3>1, MeshAssumption DEF Line
    <3> QED
        BY <3>1, <3>2 DEF Line
  <2> QED
      BY <1>0, <2>1, SeqOfFewer
<1>2. book \in Seq([entry : Entries, letter : Letters])
  <2>1. ASSUME NEW n \in 1..Len(book) PROVE book[n] \in [entry : Entries, letter : Letters]
    <3>1. book[n] \in Intake /\ book[n].entry \in Entries
        BY <1>0, MeshShapes DEF MshBounds
    <3> QED
        BY <3>1 DEF Intake
  <2> QED
      BY <1>0, <2>1, SeqOfFewer
<1>3. told \subseteq Entries
    BY <1>0, MeshShapes
<1> QED
    BY <1>0, <1>1, <1>2, <1>3 DEF MshBounds, MshTypeOK

PrfBounds == switches \in 0..MaxSwitches /\ runs \in 0..MaxFits

LEMMA NextPrfBounds == ASSUME PrfBounds, [PrfNext]_prfVars PROVE PrfBounds'
<1>1. ASSUME NEW t \in Editing, NEW p \in Personas, Switches(t, p) PROVE PrfBounds'
  <2>1. switches < MaxSwitches /\ switches' = switches + 1 /\ runs' = runs
      BY <1>1 DEF Switches, NoFits
  <2> QED
      BY <2>1, ProfilesAssumption DEF PrfBounds
<1>2. ASSUME NEW f \in Fitting, NEW todo \in SUBSET Leads, BeginsFit(f, todo) PROVE PrfBounds'
  <2>1. runs < MaxFits /\ runs' = runs + 1 /\ switches' = switches
      BY <1>2 DEF BeginsFit, NoUpdates
  <2> QED
      BY <2>1, ProfilesAssumption DEF PrfBounds
<1>3. CASE UNCHANGED <<switches, runs>>
    BY <1>3 DEF PrfBounds
<1> QED
    BY <1>1, <1>2, <1>3 DEF PrfNext, DropsScore, SetsConsent, LogsConsent, Saves, RefusesField,
                            ChoosesProvider, ImportsFind, Prompts, Scores, PrfRestart, NoFits,
                            NoUpdates, prfVars

LEMMA ProfilesTyped == ProfilesInv /\ PrfBounds => PrfTypeOK
BY DEF ProfilesInv, PrfTyped, ProfileRow, PrfBounds, PrfTypeOK

OutBounds ==
    /\ cutOff \subseteq Files /\ tornLines <= MaxTornLines
    /\ outcomes \subseteq Tellers /\ metrics \subseteq [of : Tellers, what : Measure]
    /\ swallowed \subseteq Files \X (Tellers \cup [of : Tellers, what : Measure])

LEMMA NextOutBounds == ASSUME OutcomesInv, OutBounds, [OutNext]_outVars PROVE OutBounds'
<1>0. tornLines \in Nat
    BY DEF OutcomesInv, OutTyped
<1>1. ASSUME NEW c \in Tellers, RecordsOutcome(c) PROVE OutBounds'
    BY <1>1 DEF RecordsOutcome, Appends, OutBounds, Files
<1>2. ASSUME NEW c \in Tellers, RecordsMetric(c) PROVE OutBounds'
  <2>1. PICK line : line = [of |-> c, what |-> telling[c].at]
      OBVIOUS
  <2>2. line \in [of : Tellers, what : Measure]
      BY <1>2, <2>1 DEF RecordsMetric
  <2>3. Appends("metrics", metrics, line) /\ UNCHANGED <<outcomes, tornLines>>
      BY <1>2, <2>1 DEF RecordsMetric
  <2> QED
      BY <2>2, <2>3 DEF Appends, OutBounds, Files
<1>3. ASSUME NEW c \in Tellers, CallDies(c) PROVE OutBounds'
  <2>1. UNCHANGED <<outcomes, metrics, swallowed>>
      BY <1>3 DEF CallDies
  <2>2. CASE UNCHANGED <<cutOff, tornLines>>
      BY <2>1, <2>2 DEF OutBounds
  <2>3. CASE /\ tornLines < MaxTornLines /\ tornLines' = tornLines + 1
             /\ cutOff' = cutOff \cup {FileOf(telling[c].at)}
    <3>1. tornLines' <= MaxTornLines
        BY <1>0, <2>3, OutcomesAssumption
    <3>2. FileOf(telling[c].at) \in Files
        BY DEF FileOf, Files
    <3> QED
        BY <2>1, <2>3, <3>1, <3>2 DEF OutBounds
  <2> QED
      BY <1>3, <2>2, <2>3 DEF CallDies
<1>4. CASE OthersRecord
    BY <1>4 DEF OthersRecord, OutBounds
<1>5. CASE UNCHANGED <<outcomes, metrics, cutOff, swallowed, tornLines>>
    BY <1>5 DEF OutBounds
<1> QED
    BY <1>1, <1>2, <1>3, <1>4, <1>5 DEF OutNext, Telling, Calls, MetricFails, outVars

LEMMA OutcomesTyped == OutcomesInv /\ OutBounds => OutTypeOK
<1> SUFFICES ASSUME OutcomesInv, OutBounds PROVE OutTypeOK
    OBVIOUS
<1>1. OutTyped
    BY DEF OutcomesInv
<1>2. {"outcome", "answered", "dead", "rate", "fit"} = {"outcome", "answered", "dead"} \cup Measure
    BY DEF Measure
<1>3. tornLines \in 0..MaxTornLines
    BY <1>1, OutcomesAssumption DEF OutTyped, OutBounds
<1> QED
    BY <1>1, <1>2, <1>3 DEF OutTyped, Telltale, OutBounds, OutTypeOK

ViewBounds(v) ==
    /\ viewing[v].at = "listed" => viewing[v].listed \in 1..MaxFiles
    /\ viewing[v].at \in {"counted", "shown"} => viewing[v].count.on \in 1..MaxTime

DclBounds ==
    /\ tick \in 1..MaxTime /\ liveFile \in 1..MaxFiles /\ Len(trail) <= MaxLines
    /\ \A l \in DOMAIN trail : trail[l].at >= 1
    /\ \A k \in DOMAIN pageCache : pageCache[k].on \in 1..MaxTime
    /\ \A v \in Viewers : ViewBounds(v)

LEMMA InitDclBounds == DclInit => DclBounds
<1> SUFFICES ASSUME DclInit PROVE DclBounds
    OBVIOUS
<1>1. /\ tick = 1 /\ trail = <<>> /\ liveFile = 1 /\ pageCache = <<>>
      /\ \A v \in Viewers : viewing[v].at = "away"
    BY DEF DclInit, Away
<1>2. 1 \in 1..MaxTime /\ 1 \in 1..MaxFiles /\ 0 <= MaxLines
    BY DisclosuresAssumption
<1>3. Len(trail) = 0 /\ DOMAIN trail = {} /\ DOMAIN pageCache = {}
    BY <1>1
<1> QED
    BY <1>1, <1>2, <1>3 DEF DclBounds, ViewBounds

LEMMA OneViewBounded ==
    ASSUME DisclosuresInv, DclBounds, UNCHANGED Trail, NEW v \in Viewers, NEW task,
           viewing' = [viewing EXCEPT ![v] = task],
           \A k \in DOMAIN pageCache' : pageCache'[k].on \in 1..MaxTime,
           task.at = "listed" => task.listed \in 1..MaxFiles,
           task.at \in {"counted", "shown"} => task.count.on \in 1..MaxTime
    PROVE  DclBounds'
<1>1. tick' = tick /\ trail' = trail /\ liveFile' = liveFile
    BY DEF Trail
<1>2. viewing'[v] = task /\ \A w \in Viewers : w # v => viewing'[w] = viewing[w]
    BY DEF DisclosuresInv
<1>3. ViewBounds(v)'
    BY <1>2 DEF ViewBounds
<1>4. ASSUME NEW w \in Viewers, w # v PROVE ViewBounds(w)'
    BY <1>2, <1>4 DEF DclBounds, ViewBounds
<1> QED
    BY <1>1, <1>3, <1>4 DEF DclBounds

LEMMA NextDclBounds == ASSUME DisclosuresInv, DclBounds, [DclNext]_dclVars PROVE DclBounds'
<1>0. /\ TrailTyped /\ MaxTime \in Nat /\ MaxFiles \in Nat /\ MaxLines \in Nat
      /\ \A k \in DOMAIN pageCache : pageCache[k].on \in 1..MaxTime
    BY DisclosuresAssumption DEF DisclosuresInv, DclBounds
<1>1. CASE Emitted
  <2>1. PICK line \in [at : Nat, file : Nat] : line = [at |-> tick, file |-> liveFile]
      BY <1>0 DEF TrailTyped
  <2>2. /\ Len(trail) < MaxLines /\ trail' = Append(trail, line) /\ line.at = tick
        /\ UNCHANGED <<tick, liveFile, pageCache, viewing>>
      BY <1>1, <2>1 DEF Emitted
  <2>3. \A l \in DOMAIN trail' : (l \in DOMAIN trail /\ trail'[l] = trail[l]) \/ trail'[l] = line
      BY <1>0, <2>2, LinesAppended
  <2>4. Len(trail') <= MaxLines
      BY <1>0, <2>2 DEF TrailTyped
  <2>5. \A l \in DOMAIN trail' : trail'[l].at >= 1
      BY <2>2, <2>3 DEF DclBounds
  <2> QED
      BY <2>2, <2>4, <2>5 DEF DclBounds, ViewBounds
<1>2. CASE Rotates
  <2>1. /\ liveFile < MaxFiles /\ liveFile' = liveFile + 1
        /\ UNCHANGED <<tick, trail, pageCache, viewing>>
      BY <1>2 DEF Rotates
  <2>2. liveFile' \in 1..MaxFiles
      BY <1>0, <2>1 DEF DclBounds
  <2> QED
      BY <2>1, <2>2 DEF DclBounds, ViewBounds
<1>3. CASE Passes
  <2>1. tick < MaxTime /\ tick' = tick + 1 /\ UNCHANGED <<trail, liveFile, pageCache, viewing>>
      BY <1>3 DEF Passes
  <2>2. tick' \in 1..MaxTime
      BY <1>0, <2>1 DEF DclBounds
  <2> QED
      BY <2>1, <2>2 DEF DclBounds, ViewBounds
<1>4. ASSUME NEW v \in Viewers, Asks(v) PROVE DclBounds'
  <2>1. UNCHANGED Trail /\ pageCache' = pageCache
      BY <1>4 DEF Asks
  <2>2. PICK since : since = [minute |-> MinuteOf(tick) * BucketSpan, change |-> Changed]
      OBVIOUS
  <2>3. CASE KeyNow \in DOMAIN pageCache
    <3>1. PICK task : task = [at |-> "shown", since |-> since, count |-> pageCache[KeyNow]]
        OBVIOUS
    <3>2. viewing' = [viewing EXCEPT ![v] = task]
        BY <1>4, <2>2, <2>3, <3>1 DEF Asks, Views
    <3>3. task.at = "shown" /\ task.count.on \in 1..MaxTime
        BY <1>0, <2>3, <3>1
    <3> QED
        BY <1>0, <2>1, <3>2, <3>3, OneViewBounded
  <2>4. CASE KeyNow \notin DOMAIN pageCache
    <3>1. PICK task : task = [at |-> "missed", since |-> since, key |-> KeyNow]
        OBVIOUS
    <3>2. viewing' = [viewing EXCEPT ![v] = task] /\ task.at = "missed"
        BY <1>4, <2>2, <2>4, <3>1 DEF Asks, Views
    <3> QED
        BY <1>0, <2>1, <3>2, OneViewBounded
  <2> QED
      BY <2>3, <2>4
<1>5. ASSUME NEW v \in Viewers, ListsFiles(v) PROVE DclBounds'
  <2>1. PICK task : task = [at |-> "listed", since |-> viewing[v].since, key |-> viewing[v].key,
                            listed |-> liveFile]
      OBVIOUS
  <2>2. /\ viewing' = [viewing EXCEPT ![v] = task] /\ task.at = "listed" /\ task.listed = liveFile
        /\ UNCHANGED Trail /\ pageCache' = pageCache
      BY <1>5, <2>1 DEF ListsFiles, Views
  <2>3. task.listed \in 1..MaxFiles
      BY <2>2 DEF DclBounds
  <2> QED
      BY <1>0, <2>2, <2>3, OneViewBounded
<1>6. ASSUME NEW v \in Viewers, Counts(v) PROVE DclBounds'
  <2>1. PICK listed : listed = viewing[v].listed
      OBVIOUS
  <2>2. PICK read : read = LinesOf(1..(listed - 1) \cup {liveFile})
      OBVIOUS
  <2>3. PICK few \in BOOLEAN : few = (liveFile # listed \/ NewestOf(read) # read)
      OBVIOUS
  <2>4. PICK count : count = [uses |-> Aggregated(NewestOf(read)), on |-> tick, short |-> few]
      OBVIOUS
  <2>5. PICK task : task = [at |-> "counted", since |-> viewing[v].since, key |-> viewing[v].key,
                            count |-> count]
      OBVIOUS
  <2>6. viewing' = [viewing EXCEPT ![v] = task]
      BY <1>6, <2>1, <2>2, <2>3, <2>4, <2>5 DEF Counts, Views
  <2>7. /\ viewing' = [viewing EXCEPT ![v] = task]
        /\ task.at = "counted" /\ task.count = count /\ count.on = tick
      BY <2>4, <2>5, <2>6
  <2>8. UNCHANGED Trail /\ pageCache' = pageCache /\ tick \in 1..MaxTime
      BY <1>6 DEF Counts, DclBounds
  <2> QED
      BY <1>0, <2>7, <2>8, OneViewBounded
<1>7. ASSUME NEW v \in Viewers, Shares(v) PROVE DclBounds'
  <2>1. PICK count : count = viewing[v].count
      OBVIOUS
  <2>2. PICK task : task = [at |-> "shown", since |-> viewing[v].since, count |-> count]
      OBVIOUS
  <2>3. PICK old : old = IF Cardinality(DOMAIN pageCache) > CacheLimit THEN <<>> ELSE pageCache
      OBVIOUS
  <2>4. PICK key : key = viewing[v].key
      OBVIOUS
  <2>5. /\ pageCache' = [k \in DOMAIN old \cup {key} |-> IF k = key THEN count ELSE old[k]]
        /\ viewing' = [viewing EXCEPT ![v] = task] /\ UNCHANGED Trail /\ viewing[v].at = "counted"
      BY <1>7, <2>1, <2>2, <2>3, <2>4 DEF Shares, Views
  <2>6. task.at = "shown" /\ task.count = count /\ count.on \in 1..MaxTime
      BY <2>1, <2>2, <2>5 DEF DclBounds, ViewBounds
  <2>7. \A k \in DOMAIN old : k \in DOMAIN pageCache /\ old[k] = pageCache[k]
      BY <2>3
  <2>8. \A k \in DOMAIN pageCache' : pageCache'[k].on \in 1..MaxTime
      BY <1>0, <2>5, <2>6, <2>7
  <2> QED
      BY <2>5, <2>6, <2>8, OneViewBounded
<1>8. CASE UNCHANGED dclVars
    BY <1>8 DEF dclVars, DclBounds, ViewBounds
<1> QED
    BY <1>1, <1>2, <1>3, <1>4, <1>5, <1>6, <1>7, <1>8 DEF DclNext, Request

\* A minute is no later than the moment it begins at.
LEMMA MinuteBounded == ASSUME NEW m \in Nat, NEW t \in Nat, m * BucketSpan <= t PROVE m <= t
<1>1. BucketSpan \in Nat /\ BucketSpan >= 1
    BY DisclosuresAssumption
<1> QED
    BY <1>1, Z3

LEMMA DisclosuresTyped == DisclosuresInv /\ DclBounds => DclTypeOK
<1> SUFFICES ASSUME DisclosuresInv, DclBounds PROVE DclTypeOK
    OBVIOUS
<1>0. /\ TrailTyped /\ CacheHolds /\ MaxTime \in Nat /\ MaxLines \in Nat /\ MaxFiles \in Nat
      /\ tick \in Nat /\ tick <= MaxTime /\ liveFile \in 1..MaxFiles
    BY DisclosuresAssumption DEF DisclosuresInv, DclBounds
<1>1. DOMAIN trail \subseteq 1..MaxLines /\ trail \in Seq([at : Nat, file : Nat])
    BY <1>0 DEF TrailTyped, DclBounds
<1>2. trail \in Seq([at : 1..MaxTime, file : 1..MaxFiles])
  <2>1. ASSUME NEW l \in 1..Len(trail) PROVE trail[l] \in [at : 1..MaxTime, file : 1..MaxFiles]
    <3>1. l \in DOMAIN trail
        BY <1>1
    <3>2. PICK Lines : Lines = [at : Nat, file : Nat]
        OBVIOUS
    <3>3. trail \in Seq(Lines)
        BY <1>1, <3>2
    <3>4. trail[l] \in Lines
        BY <3>3
    <3>5. trail[l] \in [at : Nat, file : Nat]
        BY <3>2, <3>4
    <3>6. trail[l].at \in 1..MaxTime /\ trail[l].file \in 1..MaxFiles
        BY <1>0, <3>1, LineShape DEF TrailTyped, DclBounds
    <3> QED
        BY <3>5, <3>6
  <2> QED
      BY <1>1, <2>1, SeqOfFewer
<1>3. ASSUME NEW k \in LogKey, Bucket(k) <= tick, k.changed <= tick PROVE k \in KeyType
  <2>1. k.minute <= tick
      BY <1>0, <1>3, MinuteBounded DEF Bucket, LogKey
  <2> QED
      BY <1>0, <1>3, <2>1 DEF KeyType, LogKey
<1>4. ASSUME NEW count \in CountOf, count.on \in 1..MaxTime, count.uses \subseteq DOMAIN trail
      PROVE  count \in CountType
    BY <1>1, <1>4 DEF CountOf, CountType
<1>5. ASSUME NEW k \in DOMAIN pageCache PROVE k \in KeyType /\ pageCache[k] \in CountType
  <2>1. /\ k \in LogKey /\ pageCache[k] \in CountOf /\ Bucket(k) <= tick /\ k.changed <= tick
        /\ pageCache[k].uses \subseteq DOMAIN trail /\ pageCache[k].on \in 1..MaxTime
      BY <1>0 DEF CacheHolds, Fair, DclBounds
  <2> QED
      BY <1>3, <1>4, <2>1
<1>6. PICK Views_ : Views_ = {Away}
            \cup [at : {"missed"}, since : SinceType, key : KeyType]
            \cup [at : {"listed"}, since : SinceType, key : KeyType, listed : 1..MaxFiles]
            \cup [at : {"counted"}, since : SinceType, key : KeyType, count : CountType]
            \cup [at : {"shown"}, since : SinceType, count : CountType]
    OBVIOUS
<1>7. ASSUME NEW v \in Viewers PROVE viewing[v] \in Views_
  <2>0. viewing[v] \in ViewType /\ ViewHolds(v) /\ ViewBounds(v)
      BY DEF DisclosuresInv, DclBounds
  <2>1. viewing[v].at # "away" => viewing[v].since \in SinceType
    <3>1. viewing[v].at # "away" => /\ viewing[v].since \in Asked
                                    /\ viewing[v].since.minute <= tick
                                    /\ viewing[v].since.change <= tick
        BY <2>0, ViewShape DEF ViewHolds
    <3> QED
        BY <1>0, <3>1 DEF Asked, SinceType
  <2>2. viewing[v].at \in {"missed", "listed", "counted"} => viewing[v].key \in KeyType
    <3>1. viewing[v].at \in {"missed", "listed", "counted"} =>
              /\ viewing[v].key \in LogKey /\ Bucket(viewing[v].key) <= tick
              /\ viewing[v].key.changed <= tick
        BY <2>0, ViewShape DEF ViewHolds
    <3> QED
        BY <1>3, <3>1
  <2>3. viewing[v].at \in {"counted", "shown"} => viewing[v].count \in CountType
    <3>1. viewing[v].at \in {"counted", "shown"} =>
              /\ viewing[v].count \in CountOf /\ viewing[v].count.uses \subseteq DOMAIN trail
              /\ viewing[v].count.on \in 1..MaxTime
        BY <2>0, ViewShape DEF ViewHolds, Fair, ViewBounds
    <3> QED
        BY <1>4, <3>1
  <2>4. CASE viewing[v] = Away
      BY <1>6, <2>4
  <2>5. CASE viewing[v] \in [at : {"missed"}, since : Asked, key : LogKey]
      BY <1>6, <2>1, <2>2, <2>5
  <2>6. CASE viewing[v] \in [at : {"listed"}, since : Asked, key : LogKey, listed : Nat]
    <3>1. viewing[v].listed \in 1..MaxFiles
        BY <2>0, <2>6 DEF ViewBounds
    <3> QED
        BY <1>6, <2>1, <2>2, <2>6, <3>1
  <2>7. CASE viewing[v] \in [at : {"counted"}, since : Asked, key : LogKey, count : CountOf]
      BY <1>6, <2>1, <2>2, <2>3, <2>7
  <2>8. CASE viewing[v] \in [at : {"shown"}, since : Asked, count : CountOf]
      BY <1>6, <2>1, <2>3, <2>8
  <2> QED
      BY <2>0, <2>4, <2>5, <2>6, <2>7, <2>8 DEF ViewType
<1>8. viewing \in [Viewers -> Views_]
    BY <1>7 DEF DisclosuresInv
<1>9. DOMAIN pageCache \subseteq KeyType /\ \A k \in DOMAIN pageCache : pageCache[k] \in CountType
    BY <1>5
<1> QED
    BY <1>0, <1>2, <1>6, <1>8, <1>9 DEF DclBounds, DclTypeOK
-----------------------------------------------------------------------------
ServicesInv ==
    /\ LinksInv /\ FactorInv /\ WorkspaceInv /\ SignUpInv /\ PageInv /\ DraftsInv /\ DataInv

ServicesBounds ==
    /\ SfBounds /\ WsBounds /\ SuBounds /\ PgBounds /\ DfBounds
    /\ ExpBounds /\ MshBounds /\ PrfBounds /\ OutBounds /\ DclBounds

\* What each service keeps has its type and stays within its limits, and what it
\* refers to is there: a code is of a batch that was issued (two_factor.py), a
\* member of a row (app.py 3107-3330), a file's row of its source (3210-3466), an
\* entry of the log's own (mesh/common.py 82-160), a use of the log that was
\* counted (transparency.py 74-115).
THEOREM ServicesTyped == Spec => []ServicesTypeOK
<1>1. Init => ServicesInv /\ ServicesBounds
  <2>1. Init => ServicesInv
      BY InitLinks, InitFactor, InitWorkspace, InitSignUp, InitPage, InitDrafts, InitDisclosures,
         InitOutcomes, InitSamples, InitExports, InitMesh, InitProfiles
         DEF Init, ServicesInv, DataInv
  <2>2. SfInit => SfBounds
    <3>1. 0 \in 0..MaxBatches /\ FALSE \in BOOLEAN
        BY SecondFactorAssumption
    <3> QED
        BY <3>1 DEF SfInit, SfBounds
  <2>3. WsInit => WsBounds
      BY WorkspacesAssumption DEF WsInit, WsBounds
  <2>4. SuInit => SuBounds
    <3>1. 0 \in 0..MaxLogins /\ FALSE \in BOOLEAN
        BY SignUpAssumption
    <3>2. Len(<<>>) = 0 /\ DOMAIN <<>> = {}
        OBVIOUS
    <3>3. SuInit => Len(begun) <= MaxLogins /\ DOMAIN roster = {}
        BY <3>1, <3>2 DEF SuInit
    <3>4. SuInit => cookie \in [Browsers -> 0..MaxLogins]
        BY <3>1 DEF SuInit
    <3> QED
        BY <3>1, <3>3, <3>4 DEF SuInit, SuBounds
  <2>5. PgInit => PgBounds
      BY DEF PgInit, PgBounds
  <2>6. DfInit => DfBounds
      BY DEF DfInit, DfBounds
  <2>7. PrfInit => PrfBounds
      BY ProfilesAssumption DEF PrfInit, PrfBounds
  <2>8. OutInit => OutBounds
      BY OutcomesAssumption DEF OutInit, OutBounds
  <2> QED
      BY <2>1, <2>2, <2>3, <2>4, <2>5, <2>6, <2>7, <2>8, InitExpBounds, InitMshBounds,
         InitDclBounds DEF Init, ServicesBounds
<1>2. ServicesInv /\ ServicesBounds /\ [Next]_<<focus, lnkVars, lnkRest>>
          => ServicesInv' /\ ServicesBounds'
  <2> SUFFICES ASSUME ServicesInv, ServicesBounds, [Next]_<<focus, lnkVars, lnkRest>>
               PROVE  ServicesInv' /\ ServicesBounds'
      OBVIOUS
  <2>1. ServicesInv'
      BY StepOfOne, NextLinks, NextFactor, NextWorkspace, NextSignUp, NextPage, NextDrafts,
         NextDisclosures, NextOutcomes, NextSamples, NextExports, NextMesh, NextProfiles
         DEF ServicesInv, DataInv
  <2>2. ServicesBounds'
      BY StepOfOne, NextSfBounds, NextWsBounds, NextSuBounds, NextPgBounds, NextDfBounds,
         NextExpBounds, NextMshBounds, NextPrfBounds, NextOutBounds, NextDclBounds
         DEF ServicesInv, DataInv, ServicesBounds
  <2> QED
      BY <2>1, <2>2
<1>3. ServicesInv /\ ServicesBounds => ServicesTypeOK
    BY LinksTyped, FactorTyped, WorkspaceTyped, SignUpTyped, PageTypes, DraftTypes, ExportsTyped,
       MeshTypes, ProfilesTyped, OutcomesTyped, DisclosuresTyped
       DEF ServicesInv, DataInv, SamplesInv, ServicesBounds, ServicesTypeOK
<1> QED
    BY <1>1, <1>2, <1>3, PTL DEF Spec
=============================================================================
