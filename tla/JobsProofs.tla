----------------------------- MODULE JobsProofs -----------------------------
(***************************************************************************)
(* What becomes of a job, for any robots.txt, pages, threads, rows and     *)
(* requests: an application, the rows it came from, and the scan that read *)
(* them off a company's site.  One inductive invariant per module, its     *)
(* preservation action by action, and the promises it implies.             *)
(***************************************************************************)
EXTENDS Applications, Discoveries, Crawl, FiniteSetTheorems, WellFoundedInduction, TLAPS

\* Some natural numbers, one at least: one of them is the least.
LEMMA LeastOfNaturals ==
    ASSUME NEW S, S \subseteq Nat, S # {}
    PROVE  \E m \in S : \A n \in S : m <= n
<1>1. PICK F : F = {0..n : n \in S}
    OBVIOUS
<1>2. F \subseteq FiniteSubsetsOf(Nat) /\ F # {}
  <2>1. \A n \in S : 0..n \in SUBSET Nat /\ IsFiniteSet(0..n)
      BY FS_Interval
  <2> QED
      BY <1>1, <2>1 DEF FiniteSubsetsOf
<1>3. PICK U \in F : \A V \in F : ~ (<<V, U>> \in StrictSubsetOrdering(Nat))
    BY <1>2, FS_StrictSubsetOrderingWellFounded, WFMin
<1>4. PICK m \in S : U = 0..m
    BY <1>1, <1>3
<1>5. ASSUME NEW n \in S, n < m PROVE FALSE
  <2>1. 0..n \in F /\ 0..n \in SUBSET Nat /\ U \in SUBSET Nat
      BY <1>1, <1>4
  <2>2. 0..n \subseteq U /\ 0..n # U
      BY <1>4, <1>5
  <2> QED
      BY <1>3, <2>1, <2>2 DEF StrictSubsetOrdering
<1> QED
    BY <1>5

-----------------------------------------------------------------------------
(* Applications *)

AppTyped ==
    /\ record \in Applied /\ saved \in Applied /\ editor \in [Editors -> Editing]
    /\ refused \in BOOLEAN /\ shared \in BOOLEAN

\* At most one CV is credited with the reply, and none without one.
CreditedOnce(r) == \A i, j \in Credited(r) : i = j /\ r.replied

Updating(e) == editor[e].at \in {"status", "reply"}

\* As long as requests work one at a time and none was refused, what is saved
\* tells its status, the request that sets fields knows the status that was
\* told last, and nothing but its fields has not been saved.
AppSettled ==
    /\ \A e, f \in Editors : editor[e] # Away /\ editor[f] # Away => e = f
    /\ ~refused => /\ saved.told = saved.status
                   /\ \A e \in Editors : Updating(e) => record.told = editor[e].was
                   /\ (\A e \in Editors : ~Updating(e)) => record = saved

AppInv ==
    /\ AppTyped /\ CreditedOnce(record) /\ CreditedOnce(saved)
    /\ ~shared => AppSettled

LEMMA EditingShape ==
    ASSUME NEW d \in Editing
    PROVE  /\ d.at \in {"away", "status", "reply", "tailor"}
           /\ d.at = "away" <=> d = Away
           /\ d.at \in {"status", "reply"} => d.was \in Statuses /\ d = [at |-> d.at, was |-> d.was]
<1>1. Away.at = "away"
    BY DEF Away
<1>2. CASE d = Away
    BY <1>1, <1>2
<1>3. CASE d \in [at : {"status", "reply"}, was : Statuses]
    BY <1>1, <1>3
<1>4. CASE d \in [at : {"tailor"}]
    BY <1>1, <1>4
<1> QED
    BY <1>2, <1>3, <1>4 DEF Editing

LEMMA RecordShape ==
    ASSUME NEW r \in Applied
    PROVE  /\ r.status \in Statuses /\ r.told \in Statuses /\ r.replied \in BOOLEAN
           /\ r.variants \in UNION {[1..n -> BOOLEAN] : n \in 0..MaxVariants}
           /\ r = [status |-> r.status, told |-> r.told, replied |-> r.replied,
                   variants |-> r.variants]
           /\ r.variants \in Seq(BOOLEAN) /\ Len(r.variants) \in 0..MaxVariants
           /\ DOMAIN r.variants = 1..Len(r.variants)
<1>1. /\ r.status \in Statuses /\ r.told \in Statuses /\ r.replied \in BOOLEAN
      /\ r.variants \in UNION {[1..n -> BOOLEAN] : n \in 0..MaxVariants}
      /\ r = [status |-> r.status, told |-> r.told, replied |-> r.replied,
              variants |-> r.variants]
    BY DEF Applied
<1>2. PICK n \in 0..MaxVariants : r.variants \in [1..n -> BOOLEAN]
    BY <1>1
<1>3. n \in Nat
    BY <1>2, ApplicationsAssumption
<1>4. r.variants \in Seq(BOOLEAN) /\ Len(r.variants) = n
    BY <1>2, <1>3
<1> QED
    BY <1>1, <1>2, <1>4

LEMMA MakesRecord ==
    ASSUME NEW s \in Statuses, NEW t \in Statuses, NEW yes \in BOOLEAN,
           NEW v, v \in Seq(BOOLEAN), Len(v) <= MaxVariants
    PROVE  [status |-> s, told |-> t, replied |-> yes, variants |-> v] \in Applied
<1>1. Len(v) \in 0..MaxVariants /\ v \in [1..Len(v) -> BOOLEAN]
    BY ApplicationsAssumption
<1>2. v \in UNION {[1..n -> BOOLEAN] : n \in 0..MaxVariants}
    BY <1>1
<1> QED
    BY <1>2 DEF Applied

LEMMA FunctionAsSeq ==
    ASSUME NEW n \in Nat, NEW u \in [1..n -> BOOLEAN]
    PROVE  u \in Seq(BOOLEAN) /\ Len(u) = n /\ DOMAIN u = 1..n
OBVIOUS

LEMMA InitApplications == AppInit => AppInv
<1> SUFFICES ASSUME AppInit PROVE AppInv
    OBVIOUS
<1>1. Away \in Editing /\ NewRecord.replied \in BOOLEAN
    BY DEF Editing, NewRecord
<1>2. \A e \in Editors : editor[e] = Away
    BY DEF AppInit
<1>3. NewRecord \in Applied
  <2>1. FALSE \in BOOLEAN /\ <<>> \in Seq(BOOLEAN) /\ Len(<<>>) <= MaxVariants
      BY ApplicationsAssumption
  <2> QED
      BY <2>1, MakesRecord, ApplicationsAssumption DEF NewRecord
<1>4. Credited(NewRecord) = {}
    BY DEF Credited, NewRecord
<1>5. AppTyped
    BY <1>1, <1>3 DEF AppInit, AppTyped
<1>6. AppSettled
  <2>1. \A e \in Editors : ~Updating(e)
      BY <1>2, <1>1, EditingShape DEF Updating
  <2>2. NewRecord.told = NewRecord.status
      BY DEF NewRecord
  <2> QED
      BY <1>2, <2>1, <2>2 DEF AppInit, AppSettled
<1> QED
    BY <1>4, <1>5, <1>6 DEF AppInit, AppInv, CreditedOnce

\* A request begins to work on the record: if it is alone, what there is is saved.
LEMMA PicksUp ==
    ASSUME AppInv, NEW e \in Editors, NEW d \in Editing, d # Away, Picks(e, d)
    PROVE  /\ editor' \in [Editors -> Editing] /\ shared' \in BOOLEAN
           /\ ~shared' => /\ ~shared
                          /\ \A f \in Editors : f # e => editor'[f] = Away
                          /\ \A f \in Editors : ~Updating(f)
                          /\ editor'[e] = d
<1>1. /\ editor \in [Editors -> Editing] /\ shared \in BOOLEAN
      /\ editor[e] = Away /\ editor' = [editor EXCEPT ![e] = d]
      /\ shared' = (shared \/ \E f \in Editors \ {e} : editor[f] # Away)
    BY DEF AppInv, AppTyped, Picks
<1>2. shared' \in BOOLEAN
    BY <1>1
<1>3. ASSUME ~shared'
      PROVE  ~shared /\ \A f \in Editors : editor[f] = Away
    BY <1>1, <1>3
<1> QED
    BY <1>1, <1>2, <1>3, EditingShape DEF Updating

\* A request leaves the record.
LEMMA LetsGo ==
    ASSUME AppInv, NEW e \in Editors, editor' = [editor EXCEPT ![e] = Away],
           editor[e] # Away
    PROVE  /\ editor' \in [Editors -> Editing]
           /\ ~shared => \A f \in Editors : editor'[f] = Away /\ ~Updating(f)'
<1>1. Away \in Editing /\ Away.at = "away"
    BY DEF Editing, Away
<1>2. editor \in [Editors -> Editing]
    BY DEF AppInv, AppTyped
<1>3. ASSUME ~shared, NEW f \in Editors
      PROVE  editor'[f] = Away
    BY <1>2, <1>3 DEF AppInv, AppSettled
<1> QED
    BY <1>1, <1>2, <1>3 DEF Updating

LEMMA NextSetStatus ==
    ASSUME AppInv, NEW e \in Editors, NEW s \in Statuses, SetStatus(e, s)
    PROVE  AppInv'
<1> DEFINE d == [at |-> "status", was |-> record.status]
<1>1. /\ Picks(e, d) /\ saved' = saved /\ refused' = refused
      /\ record' = [record EXCEPT !.status = s]
    BY DEF SetStatus
<1>2. record \in Applied /\ saved \in Applied /\ refused \in BOOLEAN
    BY DEF AppInv, AppTyped
<1>3. d \in Editing /\ d # Away /\ d.at = "status" /\ d.was = record.status
    BY <1>2, RecordShape DEF Editing, Away
<1>4. /\ record' \in Applied /\ record'.told = record.told
      /\ record'.variants = record.variants /\ record'.replied = record.replied
    BY <1>1, <1>2, RecordShape DEF Applied
<1>5. /\ editor' \in [Editors -> Editing] /\ shared' \in BOOLEAN
      /\ ~shared' => /\ ~shared
                     /\ \A f \in Editors : f # e => editor'[f] = Away
                     /\ \A f \in Editors : ~Updating(f)
                     /\ editor'[e] = d
    BY <1>1, <1>3, PicksUp
<1>6. CreditedOnce(record)' /\ CreditedOnce(saved)'
    BY <1>1, <1>4 DEF AppInv, CreditedOnce, Credited
<1>7. ASSUME ~shared' PROVE AppSettled'
  <2>1. /\ \A f \in Editors : f # e => editor'[f] = Away
        /\ editor'[e] = d /\ ~shared /\ \A f \in Editors : ~Updating(f)
      BY <1>5, <1>7
  <2>2. ~refused => saved.told = saved.status /\ record = saved
      BY <2>1 DEF AppInv, AppSettled
  <2>3. \A f \in Editors : Updating(f)' => f = e
    <3>1. Away.at = "away"
        BY DEF Away
    <3> QED
        BY <2>1, <3>1 DEF Updating
  <2>4. Updating(e)'
      BY <1>3, <2>1 DEF Updating
  <2> QED
      BY <1>1, <1>3, <1>4, <2>1, <2>2, <2>3, <2>4 DEF AppSettled
<1> QED
    BY <1>1, <1>2, <1>4, <1>5, <1>6, <1>7 DEF AppInv, AppTyped

LEMMA NextRefuse ==
    ASSUME AppInv, NEW e \in Editors, Refuse(e)
    PROVE  AppInv'
<1>1. /\ Updating(e) /\ editor' = [editor EXCEPT ![e] = Away]
      /\ refused' = (refused \/ record # saved)
      /\ record' = record /\ saved' = saved /\ shared' = shared
    BY DEF Refuse, Updating
<1>2. editor[e] # Away
    BY <1>1 DEF Updating, Away
<1>3. /\ editor' \in [Editors -> Editing]
      /\ ~shared => \A f \in Editors : editor'[f] = Away /\ ~Updating(f)'
    BY <1>1, <1>2, LetsGo
<1>4. AppTyped' /\ CreditedOnce(record)' /\ CreditedOnce(saved)'
    BY <1>1, <1>3 DEF AppInv, AppTyped, CreditedOnce, Credited
<1>5. ASSUME ~shared' PROVE AppSettled'
    BY <1>1, <1>3, <1>5 DEF AppInv, AppTyped, AppSettled
<1> QED
    BY <1>4, <1>5 DEF AppInv

LEMMA NextSetReply ==
    ASSUME AppInv, NEW e \in Editors, NEW now \in BOOLEAN, SetReply(e, now)
    PROVE  AppInv'
<1> DEFINE v == record.variants
           n == Len(v)
           w == IF Credits(record.replied, now) /\ n > 0 THEN [v EXCEPT ![n] = TRUE]
                ELSE IF Uncredits(record.replied, now) THEN [i \in 1..n |-> FALSE]
                ELSE v
<1>1. /\ editor[e].at = "status" /\ editor' = [editor EXCEPT ![e].at = "reply"]
      /\ record' = [record EXCEPT !.replied = now, !.variants = w]
      /\ saved' = saved /\ refused' = refused /\ shared' = shared
    BY DEF SetReply
<1>2. /\ record \in Applied /\ saved \in Applied /\ refused \in BOOLEAN /\ shared \in BOOLEAN
      /\ editor \in [Editors -> Editing] /\ CreditedOnce(record)
    BY DEF AppInv, AppTyped
<1>3. /\ record.status \in Statuses /\ record.told \in Statuses /\ record.replied \in BOOLEAN
      /\ v \in Seq(BOOLEAN) /\ n \in 0..MaxVariants /\ DOMAIN v = 1..n
      /\ record = [status |-> record.status, told |-> record.told,
                   replied |-> record.replied, variants |-> v]
    BY <1>2, RecordShape
<1>4. /\ w \in Seq(BOOLEAN) /\ Len(w) = n
      /\ \A i, j \in 1..n : w[i] /\ w[j] => i = j /\ now
  <2>0. n \in Nat
      BY <1>3, ApplicationsAssumption
  <2>1. \A i, j \in 1..n : v[i] /\ v[j] => i = j /\ record.replied
      BY <1>2, <1>3 DEF CreditedOnce, Credited
  <2>2. CASE Credits(record.replied, now) /\ n > 0
    <3>1. w = [v EXCEPT ![n] = TRUE] /\ n \in 1..n /\ TRUE \in BOOLEAN
        BY <2>0, <2>2
    <3>2. w \in Seq(BOOLEAN) /\ Len(w) = n
      <4>1. w \in [1..n -> BOOLEAN]
          BY <1>3, <2>0, <3>1
      <4> QED
          BY <4>1, <2>0, FunctionAsSeq
    <3>3. ~record.replied /\ now
        BY <2>2 DEF Credits
    <3>4. \A i \in 1..n : w[i] => i = n
        BY <1>3, <2>1, <3>1, <3>3
    <3> QED
        BY <3>2, <3>3, <3>4
  <2>3. CASE ~(Credits(record.replied, now) /\ n > 0) /\ Uncredits(record.replied, now)
    <3>1. w = [i \in 1..n |-> FALSE]
        BY <2>3
    <3>2. w \in Seq(BOOLEAN) /\ Len(w) = n
      <4>1. w \in [1..n -> BOOLEAN]
          BY <3>1
      <4> QED
          BY <4>1, <2>0, FunctionAsSeq
    <3> QED
        BY <3>1, <3>2
  <2>4. CASE ~(Credits(record.replied, now) /\ n > 0) /\ ~Uncredits(record.replied, now)
    <3>1. w = v
        BY <2>4
    <3>2. CASE n = 0
      <4>1. 1..n = {}
          BY <3>2
      <4> QED
          BY <1>3, <3>1, <3>2, <4>1
    <3>3. CASE n > 0
      <4>1. ~Credits(record.replied, now) /\ ~Uncredits(record.replied, now)
          BY <2>4, <3>3
      <4>2. record.replied => now
          BY <4>1, Zenon DEF Uncredits
      <4> QED
          BY <1>3, <2>1, <3>1, <4>2
    <3> QED
        BY <2>0, <3>2, <3>3
  <2> QED
      BY <2>2, <2>3, <2>4
<1>5. record' = [status |-> record.status, told |-> record.told, replied |-> now, variants |-> w]
    BY <1>1, <1>3
<1>6. record' \in Applied
  <2>1. w \in Seq(BOOLEAN) /\ Len(w) <= MaxVariants
      BY <1>3, <1>4, ApplicationsAssumption
  <2> HIDE DEF w
  <2> QED
      BY <1>3, <1>5, <2>1, MakesRecord
<1>7. CreditedOnce(record)'
  <2>1. DOMAIN record'.variants = 1..n /\ record'.variants = w /\ record'.replied = now
      BY <1>4, <1>5
  <2> QED
      BY <1>4, <2>1 DEF CreditedOnce, Credited
<1>8. /\ editor' \in [Editors -> Editing]
      /\ editor'[e].at = "reply" /\ editor'[e].was = editor[e].was /\ editor'[e] # Away
      /\ \A f \in Editors : f # e => editor'[f] = editor[f]
  <2>1. editor[e].was \in Statuses /\ editor[e] = [at |-> "status", was |-> editor[e].was]
      BY <1>1, <1>2, EditingShape
  <2>2. editor' = [editor EXCEPT ![e] = [at |-> "reply", was |-> editor[e].was]]
    <3>1. [editor[e] EXCEPT !.at = "reply"] = [at |-> "reply", was |-> editor[e].was]
        BY <2>1
    <3> QED
        BY <1>1, <1>2, <3>1
  <2>3. [at |-> "reply", was |-> editor[e].was] \in Editing
      BY <2>1 DEF Editing
  <2> QED
      BY <1>2, <2>2, <2>3 DEF Away
<1>9. ASSUME ~shared' PROVE AppSettled'
  <2>1. /\ \A f \in Editors : Updating(f)' <=> Updating(f)
        /\ \A f \in Editors : Updating(f) => editor'[f].was = editor[f].was
        /\ \A f \in Editors : editor[f] = Away <=> editor'[f] = Away
        /\ Updating(e)
      BY <1>1, <1>8 DEF Updating, Away
  <2>2. record'.told = record.told
      BY <1>5
  <2> QED
      BY <1>1, <1>9, <2>1, <2>2 DEF AppInv, AppSettled
<1> QED
    BY <1>1, <1>2, <1>6, <1>7, <1>8, <1>9 DEF AppInv, AppTyped, CreditedOnce, Credited

LEMMA NextSaveUpdate ==
    ASSUME AppInv, NEW e \in Editors, SaveUpdate(e)
    PROVE  AppInv'
<1>1. /\ Updating(e) /\ editor' = [editor EXCEPT ![e] = Away]
      /\ record' = Timeline(editor[e].was, record) /\ saved' = record'
      /\ refused' = refused /\ shared' = shared
    BY DEF SaveUpdate, Updating
<1>2. editor[e] # Away
    BY <1>1 DEF Updating, Away
<1>3. /\ editor' \in [Editors -> Editing]
      /\ ~shared => \A f \in Editors : editor'[f] = Away /\ ~Updating(f)'
    BY <1>1, <1>2, LetsGo
<1>4. record \in Applied /\ CreditedOnce(record)
    BY DEF AppInv, AppTyped
<1>5. /\ record' \in Applied /\ record'.variants = record.variants
      /\ record'.replied = record.replied /\ record'.status = record.status
      /\ record'.told = IF editor[e].was # record.status THEN record.status ELSE record.told
    BY <1>1, <1>4, RecordShape DEF Timeline, Applied
<1>6. AppTyped' /\ CreditedOnce(record)' /\ CreditedOnce(saved)'
    BY <1>1, <1>3, <1>4, <1>5 DEF AppInv, AppTyped, CreditedOnce, Credited
<1>7. ASSUME ~shared' PROVE AppSettled'
    BY <1>1, <1>3, <1>5, <1>7 DEF AppInv, AppSettled
<1> QED
    BY <1>6, <1>7 DEF AppInv

LEMMA NextTailor ==
    ASSUME AppInv, NEW e \in Editors, BeginTailor(e) \/ EndTailor(e)
    PROVE  AppInv'
<1>1. CASE BeginTailor(e)
  <2> DEFINE d == [at |-> "tailor"]
  <2>1. /\ Picks(e, d) /\ record' = record /\ saved' = saved /\ refused' = refused
        /\ d \in Editing /\ d # Away /\ d.at = "tailor"
      BY <1>1 DEF BeginTailor, Editing, Away
  <2>2. /\ editor' \in [Editors -> Editing] /\ shared' \in BOOLEAN
        /\ ~shared' => /\ ~shared
                       /\ \A f \in Editors : f # e => editor'[f] = Away
                       /\ \A f \in Editors : ~Updating(f)
                       /\ editor'[e] = d
      BY <2>1, PicksUp
  <2>3. Away.at = "away"
      BY DEF Away
  <2>4. ASSUME ~shared' PROVE AppSettled'
    <3>1. \A f \in Editors : ~Updating(f)' /\ ~Updating(f)
        BY <2>1, <2>2, <2>3, <2>4 DEF Updating
    <3> QED
        BY <2>1, <2>2, <2>4, <3>1 DEF AppInv, AppSettled
  <2> QED
      BY <2>1, <2>2, <2>4 DEF AppInv, AppTyped, CreditedOnce, Credited
<1>2. CASE EndTailor(e)
  <2>1. /\ editor[e].at = "tailor" /\ editor' = [editor EXCEPT ![e] = Away]
        /\ refused' = refused /\ shared' = shared
      BY <1>2 DEF EndTailor
  <2>2. editor[e] # Away /\ record \in Applied
      BY <2>1 DEF Away, AppInv, AppTyped
  <2>3. /\ editor' \in [Editors -> Editing]
        /\ ~shared => \A f \in Editors : editor'[f] = Away /\ ~Updating(f)'
      BY <2>1, <2>2, LetsGo
  <2>4. ~shared => \A f \in Editors : ~Updating(f)
      BY <2>1, <2>2 DEF AppInv, AppSettled, Updating, Away
  <2>5. CASE UNCHANGED <<record, saved>>
      BY <2>1, <2>3, <2>4, <2>5 DEF AppInv, AppTyped, AppSettled, CreditedOnce, Credited
  <2>6. CASE /\ Len(record.variants) < MaxVariants /\ saved' = record'
             /\ record' = [record EXCEPT !.variants = Append(@, FALSE)]
    <3> DEFINE v == record.variants
    <3>1. /\ v \in Seq(BOOLEAN) /\ Len(v) \in 0..MaxVariants
          /\ record.status \in Statuses /\ record.told \in Statuses /\ record.replied \in BOOLEAN
          /\ record = [status |-> record.status, told |-> record.told,
                       replied |-> record.replied, variants |-> v]
          /\ DOMAIN v = 1..Len(v)
        BY <2>2, RecordShape
    <3>2. record' = [status |-> record.status, told |-> record.told,
                     replied |-> record.replied, variants |-> Append(v, FALSE)]
        BY <2>6, <3>1
    <3>3. /\ Append(v, FALSE) \in Seq(BOOLEAN) /\ Len(Append(v, FALSE)) = Len(v) + 1
          /\ \A i \in 1..Len(v) : Append(v, FALSE)[i] = v[i]
          /\ Append(v, FALSE)[Len(v) + 1] = FALSE
        BY <3>1
    <3>4. record' \in Applied
      <4> DEFINE u == Append(v, FALSE)
      <4>1. u \in Seq(BOOLEAN) /\ Len(u) <= MaxVariants
          BY <2>6, <3>1, <3>3, ApplicationsAssumption
      <4>2. record' = [status |-> record.status, told |-> record.told,
                       replied |-> record.replied, variants |-> u]
          BY <3>2
      <4> HIDE DEF u
      <4> QED
          BY <3>1, <4>1, <4>2, MakesRecord
    <3>5. CreditedOnce(record)' /\ CreditedOnce(saved)'
      <4>1. Credited(record)' = Credited(record)
        <5>1. DOMAIN record'.variants = 1..(Len(v) + 1) /\ record'.variants = Append(v, FALSE)
          <6> DEFINE u == Append(v, FALSE)
          <6>1. u \in Seq(BOOLEAN) /\ Len(u) = Len(v) + 1
              BY <3>3
          <6>2. DOMAIN u = 1..(Len(v) + 1)
              BY <6>1
          <6> QED
              BY <3>2, <6>2
        <5> QED
            BY <3>1, <3>3, <5>1 DEF Credited
      <4> QED
          BY <2>6, <3>2, <4>1 DEF AppInv, CreditedOnce, Credited
    <3>6. AppTyped'
        BY <2>1, <2>3, <2>6, <3>4 DEF AppInv, AppTyped
    <3>7. ASSUME ~shared' PROVE AppSettled'
      <4>1. record'.told = record.told /\ record'.status = record.status
          BY <3>2
      <4> QED
          BY <2>1, <2>3, <2>4, <2>6, <3>7, <4>1 DEF AppInv, AppSettled
    <3> QED
        BY <3>5, <3>6, <3>7 DEF AppInv
  <2> QED
      BY <1>2, <2>5, <2>6 DEF EndTailor
<1> QED
    BY <1>1, <1>2

LEMMA NextAppRestart == AppInv /\ AppRestart => AppInv'
<1> SUFFICES ASSUME AppInv, AppRestart PROVE AppInv'
    OBVIOUS
<1>1. /\ record' = saved /\ saved' = saved /\ editor' = [e \in Editors |-> Away]
      /\ shared' = (shared \/ \E e \in Editors : editor[e] # Away)
      /\ refused' = (refused /\ saved.told # saved.status)
    BY DEF AppRestart
<1>2. Away \in Editing /\ Away.at = "away"
    BY DEF Editing, Away
<1>3. AppTyped'
    BY <1>1, <1>2 DEF AppInv, AppTyped
<1>4. ASSUME ~shared' PROVE AppSettled'
  <2>1. \A e \in Editors : ~Updating(e)' /\ editor'[e] = Away
      BY <1>1, <1>2 DEF Updating
  <2>2. ~shared
      BY <1>1, <1>4
  <2> QED
      BY <1>1, <2>1, <2>2 DEF AppInv, AppTyped, AppSettled
<1> QED
    BY <1>1, <1>3, <1>4 DEF AppInv, CreditedOnce, Credited

LEMMA NextApplications == AppInv /\ [AppNext]_appVars => AppInv'
<1> SUFFICES ASSUME AppInv, [AppNext]_appVars PROVE AppInv'
    OBVIOUS
<1>1. CASE UNCHANGED appVars
    BY <1>1 DEF appVars, AppInv, AppTyped, AppSettled, CreditedOnce, Credited, Updating
<1> QED
    BY <1>1, NextAppRestart, NextSetStatus, NextSetReply, NextRefuse, NextSaveUpdate, NextTailor
    DEF AppNext

LEMMA ApplicationsKeep == AppInv => ApplicationHolds /\ AppTypeOK
<1> SUFFICES ASSUME AppInv PROVE ApplicationHolds /\ AppTypeOK
    OBVIOUS
<1>1. Cardinality(Credited(record)) <= (IF record.replied THEN 1 ELSE 0)
  <2>1. CASE Credited(record) = {}
      BY <2>1, FS_EmptySet
  <2>2. CASE Credited(record) # {}
    <3>1. PICK i \in Credited(record) : TRUE
        BY <2>2
    <3>2. Credited(record) = {i} /\ record.replied
        BY <3>1 DEF AppInv, CreditedOnce
    <3> QED
        BY <3>2, FS_Singleton, SMTT(60)
  <2> QED
      BY <2>1, <2>2
<1>2. ASSUME ~shared, ~refused, \A e \in Editors : editor[e] = Away
      PROVE  record = saved /\ record.told = record.status
  <2>1. \A e \in Editors : ~Updating(e)
      BY <1>2 DEF Updating, Away
  <2> QED
      BY <1>2, <2>1 DEF AppInv, AppSettled
<1> QED
    BY <1>1, <1>2 DEF ApplicationHolds, AppInv, AppTyped, AppTypeOK

-----------------------------------------------------------------------------
(* Discoveries *)

\* What a thread holds among the rows: the pages it is about to save and the
\* employer it is about to make.
HoldsIn(table, d) ==
    CASE d.at = "none"   -> {}
      [] d.at = "insert" -> {d.posting.page}
      [] d.at = "merge"  -> {d.posting.page, table[d.row].posting.page}
      [] d.at \in {"company", "create"} -> {table[d.row].posting.page, table[d.row].posting.host}
      [] d.at \in {"apply", "link"} -> {table[d.row].posting.page}

OfRow(d) == d.at \in {"merge", "company", "create", "apply", "link"}
AppRows  == [row : RowNos, company : 0..MaxCompanies]

DscTyped ==
    /\ seen \in Seq(FoundRows) /\ Len(seen) <= MaxFound /\ kept \subseteq 1..Len(seen)
    /\ apps \in Seq(AppRows) /\ Len(apps) <= MaxApps /\ appsKept \subseteq 1..Len(apps)
    /\ \A a \in 1..Len(apps) : apps[a].row \in 1..Len(seen)
    /\ firms \in Seq(Hosts \cup {"watched"}) /\ Len(firms) \in 1..MaxCompanies
    /\ firmsKept \subseteq 1..Len(firms)
    /\ hand \in [Hands -> Handing] /\ touched \subseteq Pages \cup Hosts
    /\ \A h \in Hands : /\ OfRow(hand[h]) => hand[h].row \in 1..Len(seen)
                        /\ hand[h].at = "link" => hand[h].app \in 1..Len(apps)

\* What two threads hold at once has been touched.
Apart == \A h, g \in Hands : h # g => HoldsIn(seen, hand[h]) \cap HoldsIn(seen, hand[g]) \subseteq touched

OneRow == \A i, j \in kept : i # j /\ Untouched(i) => seen[i].posting.page # seen[j].posting.page
OneFirm == \A c, e \in firmsKept : c # e /\ firms[c] = firms[e] => firms[c] \in touched

\* A row is at a company that is kept, its application is kept, and is for the
\* row at that company.
OwnApp(i, r) == r.app # 0 => apps[r.app].row = i /\ apps[r.app].company = r.company
RowWhole(i) == /\ seen[i].company \in firmsKept \cup {0}
               /\ seen[i].app \in appsKept \cup {0}
               /\ OwnApp(i, seen[i])

\* An application is the only one of a row that is kept, at the row's company,
\* and the row knows it, or will when the thread that made it links the two.
Linking(a) == \E h \in Hands : hand[h].at = "link" /\ hand[h].app = a /\ hand[h].row = apps[a].row
AppWhole(a) ==
    /\ apps[a].row \in kept /\ apps[a].company = seen[apps[a].row].company
    /\ seen[apps[a].row].app = a \/ Linking(a)
    /\ \A b \in appsKept : apps[b].row = apps[a].row => a = b

\* What a thread has looked up still holds.
InsertFits(p) == /\ \A i \in kept : seen[i].posting.page # p.page
                 /\ p.company \in firmsKept \cup {0}
RowFits(d) == /\ d.row \in kept
              /\ d.at \in {"company", "create", "apply"} => seen[d.row].app = 0
              /\ d.at = "link" => d.app \in appsKept /\ apps[d.app].row = d.row
HandFits(d) ==
    /\ d.at = "insert" /\ d.posting.page \notin touched => InsertFits(d.posting)
    /\ OfRow(d) /\ Untouched(d.row) => RowFits(d)
    /\ d.at = "create" /\ seen[d.row].posting.host \notin touched =>
          \A c \in firmsKept : firms[c] # seen[d.row].posting.host

DscInv ==
    /\ DscTyped /\ Apart /\ OneRow /\ OneFirm
    /\ \A i \in kept : Untouched(i) => RowWhole(i)
    /\ \A a \in appsKept : Untouched(apps[a].row) => AppWhole(a)
    /\ \A h \in Hands : HandFits(hand[h])

LEMMA HandingShape ==
    ASSUME NEW d \in Handing
    PROVE  /\ d.at \in {"none", "insert", "merge", "company", "create", "apply", "link"}
           /\ d.at = "none" <=> d = NoHand
           /\ d.at \in {"insert", "merge"} => d.posting \in Postings
           /\ OfRow(d) => d.row \in RowNos
           /\ d.at \in {"company", "create", "apply"} => d = [at |-> d.at, row |-> d.row]
           /\ d.at = "link" => d.app \in 1..MaxApps
<1>1. NoHand.at = "none"
    BY DEF NoHand
<1>2. CASE d = NoHand
    BY <1>1, <1>2 DEF OfRow
<1>3. CASE d \in [at : {"insert"}, posting : Postings]
    BY <1>1, <1>3 DEF OfRow
<1>4. CASE d \in [at : {"merge"}, row : RowNos, posting : Postings]
    BY <1>1, <1>4 DEF OfRow
<1>5. CASE d \in [at : {"company", "create", "apply"}, row : RowNos]
    BY <1>1, <1>5 DEF OfRow
<1>6. CASE d \in [at : {"link"}, row : RowNos, app : 1..MaxApps]
    BY <1>1, <1>6 DEF OfRow
<1> QED
    BY <1>2, <1>3, <1>4, <1>5, <1>6 DEF Handing

LEMMA MakesHanding ==
    /\ NoHand \in Handing
    /\ \A p \in Postings : [at |-> "insert", posting |-> p] \in Handing
    /\ \A p \in Postings, i \in RowNos : [at |-> "merge", row |-> i, posting |-> p] \in Handing
    /\ \A i \in RowNos : /\ [at |-> "company", row |-> i] \in Handing
                         /\ [at |-> "create", row |-> i] \in Handing
                         /\ [at |-> "apply", row |-> i] \in Handing
    /\ \A i \in RowNos, a \in 1..MaxApps : [at |-> "link", row |-> i, app |-> a] \in Handing
BY DEF Handing

LEMMA FoundRowShape ==
    ASSUME NEW r \in FoundRows
    PROVE  /\ r.posting \in Postings /\ r.company \in 0..MaxCompanies /\ r.app \in 0..MaxApps
           /\ r = [posting |-> r.posting, company |-> r.company, app |-> r.app]
           /\ r.posting.page \in Pages /\ r.posting.host \in Hosts
BY DEF FoundRows, Pages, Hosts

LEMMA HoldsCases ==
    ASSUME NEW table, NEW d \in Handing
    PROVE  /\ d.at = "none" => HoldsIn(table, d) = {}
           /\ d.at = "insert" => HoldsIn(table, d) = {d.posting.page}
           /\ d.at = "merge" => HoldsIn(table, d) = {d.posting.page, table[d.row].posting.page}
           /\ d.at \in {"company", "create"} =>
                 HoldsIn(table, d) = {table[d.row].posting.page, table[d.row].posting.host}
           /\ d.at \in {"apply", "link"} => HoldsIn(table, d) = {table[d.row].posting.page}
BY HandingShape DEF HoldsIn

\* The model's words for it say the same.
LEMMA HoldsIs ==
    ASSUME NEW d \in Handing
    PROVE  Holds(d) = HoldsIn(seen, d)
<1>1. d.at \in {"none", "insert", "merge", "company", "create", "apply", "link"}
    BY HandingShape
<1>2. CASE d.at = "none"
  <2>1. PagesOf(d) = {} /\ HostsOf(d) = {}
      BY <1>2 DEF PagesOf, HostsOf
  <2> QED
      BY <1>2, <2>1, HoldsCases DEF Holds
<1>3. CASE d.at = "insert"
  <2>1. PagesOf(d) = {d.posting.page} /\ HostsOf(d) = {}
      BY <1>3 DEF PagesOf, HostsOf
  <2> QED
      BY <1>3, <2>1, HoldsCases DEF Holds
<1>4. CASE d.at = "merge"
  <2>1. PagesOf(d) = {d.posting.page, seen[d.row].posting.page} /\ HostsOf(d) = {}
      BY <1>4 DEF PagesOf, HostsOf
  <2> QED
      BY <1>4, <2>1, HoldsCases DEF Holds
<1>5. CASE d.at \in {"company", "create"}
  <2>1. PagesOf(d) = {seen[d.row].posting.page} /\ HostsOf(d) = {seen[d.row].posting.host}
      BY <1>5 DEF PagesOf, HostsOf
  <2> QED
      BY <1>5, <2>1, HoldsCases DEF Holds
<1>6. CASE d.at \in {"apply", "link"}
  <2>1. PagesOf(d) = {seen[d.row].posting.page} /\ HostsOf(d) = {}
      BY <1>6 DEF PagesOf, HostsOf
  <2> QED
      BY <1>6, <2>1, HoldsCases DEF Holds
<1> QED
    BY <1>1, <1>2, <1>3, <1>4, <1>5, <1>6

LEMMA HeldIs ==
    ASSUME hand \in [Hands -> Handing], NEW hs \in SUBSET Hands
    PROVE  \A x : x \in Held(hs) <=> \E h \in hs : x \in HoldsIn(seen, hand[h])
BY HoldsIs DEF Held

\* A thread that works on a row holds its page, and no other thread does
\* unless the page is touched.
LEMMA HoldsItsPage ==
    ASSUME DscInv, NEW h \in Hands, OfRow(hand[h])
    PROVE  /\ hand[h].row \in 1..Len(seen)
           /\ seen[hand[h].row].posting.page \in HoldsIn(seen, hand[h])
<1>1. hand[h] \in Handing /\ hand[h].row \in 1..Len(seen)
    BY DEF DscInv, DscTyped
<1> QED
    BY <1>1, HoldsCases DEF OfRow

LEMMA OneHandOnly ==
    ASSUME DscInv, NEW h \in Hands, NEW g \in Hands, h # g, OfRow(hand[h]), OfRow(hand[g]),
           hand[h].row = hand[g].row
    PROVE  ~Untouched(hand[h].row)
BY HoldsItsPage DEF DscInv, Apart, Untouched

\* A row that has no application on record is no kept application's, unless a
\* thread is linking the two.
LEMMA NoneKept ==
    ASSUME DscInv, NEW i, Untouched(i), seen[i].app = 0,
           \A h \in Hands : hand[h].at = "link" => hand[h].row # i
    PROVE  \A a \in appsKept : apps[a].row # i
<1>1. \A a \in appsKept : a # 0
    BY DEF DscInv, DscTyped
<1> QED
    BY <1>1 DEF DscInv, AppWhole, Linking

\* The same of a row a thread is about to make an application for.
LEMMA NotYetThere ==
    ASSUME DscInv, NEW h \in Hands, hand[h].at \in {"company", "create", "apply"},
           Untouched(hand[h].row)
    PROVE  \A a \in appsKept : apps[a].row # hand[h].row
<1>1. OfRow(hand[h]) /\ seen[hand[h].row].app = 0
    BY DEF DscInv, HandFits, RowFits, OfRow
<1>2. \A g \in Hands : hand[g].at = "link" => hand[g].row # hand[h].row
    BY <1>1, OneHandOnly DEF OfRow
<1> QED
    BY <1>1, <1>2, NoneKept

LEMMA InitDiscoveries == DscInit => DscInv
<1> SUFFICES ASSUME DscInit PROVE DscInv
    OBVIOUS
<1>1. /\ seen = <<>> /\ kept = {} /\ apps = <<>> /\ appsKept = {} /\ touched = {}
      /\ firms = <<"watched">> /\ firmsKept = {1} /\ hand = [h \in Hands |-> NoHand]
    BY DEF DscInit
<1>2. \A h \in Hands : hand[h] = NoHand /\ hand[h].at = "none" /\ ~OfRow(hand[h])
    BY <1>1 DEF NoHand, OfRow
<1>3. DscTyped
    BY <1>1, <1>2, MakesHanding, DiscoveriesAssumption DEF DscTyped
<1>4. Apart
    BY <1>1, <1>2, MakesHanding, HoldsCases DEF Apart
<1>5. OneRow /\ OneFirm
    BY <1>1 DEF OneRow, OneFirm
<1>6. \A h \in Hands : HandFits(hand[h])
    BY <1>2 DEF HandFits
<1> QED
    BY <1>1, <1>3, <1>4, <1>5, <1>6 DEF DscInv


LEMMA HoldsSame ==
    ASSUME NEW table, NEW more, NEW d \in Handing,
           OfRow(d) => more[d.row].posting = table[d.row].posting
    PROVE  HoldsIn(more, d) = HoldsIn(table, d)
<1>1. OfRow(d) => more[d.row].posting.page = table[d.row].posting.page
                  /\ more[d.row].posting.host = table[d.row].posting.host
    OBVIOUS
<1>2. CASE d.at \in {"none", "insert"}
    BY <1>2, HoldsCases
<1>3. CASE d.at = "merge"
  <2>1. HoldsIn(more, d) = {d.posting.page, more[d.row].posting.page}
      BY <1>3, HoldsCases
  <2>2. HoldsIn(table, d) = {d.posting.page, table[d.row].posting.page}
      BY <1>3, HoldsCases
  <2>3. OfRow(d)
      BY <1>3 DEF OfRow
  <2> QED
      BY <1>1, <2>1, <2>2, <2>3
<1>4. CASE d.at \in {"company", "create"}
  <2>1. HoldsIn(more, d) = {more[d.row].posting.page, more[d.row].posting.host}
      BY <1>4, HoldsCases
  <2>2. HoldsIn(table, d) = {table[d.row].posting.page, table[d.row].posting.host}
      BY <1>4, HoldsCases
  <2>3. OfRow(d)
      BY <1>4 DEF OfRow
  <2> QED
      BY <1>1, <2>1, <2>2, <2>3
<1>5. CASE d.at \in {"apply", "link"}
  <2>1. HoldsIn(more, d) = {more[d.row].posting.page}
      BY <1>5, HoldsCases
  <2>2. HoldsIn(table, d) = {table[d.row].posting.page}
      BY <1>5, HoldsCases
  <2>3. OfRow(d)
      BY <1>5 DEF OfRow
  <2> QED
      BY <1>1, <2>1, <2>2, <2>3
<1> QED
    BY <1>2, <1>3, <1>4, <1>5, HandingShape

\* A thread takes up a posting or a row it has just looked at.
LEMMA Takes ==
    ASSUME DscInv, NEW h \in Hands, NEW d \in Handing, hand[h] = NoHand, Turns(h, d),
           UNCHANGED <<seen, kept, apps, appsKept, firms, firmsKept>>,
           OfRow(d) => d.row \in 1..Len(seen), d.at # "link", HandFits(d)
    PROVE  DscInv'
<1>1. /\ hand \in [Hands -> Handing] /\ hand' = [hand EXCEPT ![h] = d]
      /\ touched' = touched \cup (Holds(d) \cap Held(Hands \ {h}))
      /\ touched \subseteq Pages \cup Hosts
    BY DEF Turns, DscInv, DscTyped
<1>2. /\ hand' \in [Hands -> Handing] /\ hand'[h] = d
      /\ \A g \in Hands : g # h => hand'[g] = hand[g]
    BY <1>1
<1>3. /\ touched \subseteq touched'
      /\ \A g \in Hands : g # h => HoldsIn(seen, d) \cap HoldsIn(seen, hand[g]) \subseteq touched'
    BY <1>1, HoldsIs, HeldIs
<1>4. touched' \subseteq Pages \cup Hosts
  <2>1. HoldsIn(seen, d) \subseteq Pages \cup Hosts
    <3>1. d.at \in {"insert", "merge"} => d.posting.page \in Pages
        BY HandingShape DEF Pages
    <3>2. OfRow(d) => seen[d.row].posting.page \in Pages /\ seen[d.row].posting.host \in Hosts
      <4>1. OfRow(d) => seen[d.row] \in FoundRows
          BY DEF DscInv, DscTyped
      <4> QED
          BY <4>1, FoundRowShape
    <3> QED
        BY <3>1, <3>2, HandingShape, HoldsCases DEF OfRow
  <2> QED
      BY <1>1, <2>1, HoldsIs
<1>5. DscTyped'
    BY <1>2, <1>4 DEF DscInv, DscTyped
<1>6. Apart'
    BY <1>2, <1>3 DEF DscInv, Apart
<1>7. OneRow' /\ OneFirm'
    BY <1>3 DEF DscInv, OneRow, OneFirm, Untouched
<1>8. \A i \in kept' : Untouched(i)' => RowWhole(i)'
    BY <1>3 DEF DscInv, Untouched, RowWhole, OwnApp
<1>9. \A a \in appsKept' : Untouched(apps[a].row)' => AppWhole(a)'
  <2>1. \A g \in Hands : hand[g].at = "link" => g # h
      BY DEF NoHand
  <2> QED
      BY <1>2, <1>3, <2>1 DEF DscInv, Untouched, AppWhole, Linking
<1>10. \A g \in Hands : HandFits(hand[g])'
  <2>1. \A g \in Hands : HandFits(hand'[g])
      BY <1>2 DEF DscInv
  <2> QED
      BY <1>3, <2>1 DEF HandFits, InsertFits, RowFits, Untouched, OfRow
<1> QED
    BY <1>5, <1>6, <1>7, <1>8, <1>9, <1>10 DEF DscInv

LEMMA NextLookFor ==
    ASSUME DscInv, NEW h \in Hands, NEW p \in Postings, LookFor(h, p)
    PROVE  DscInv'
<1> DEFINE alike == {i \in kept : Duplicate(i, p)}
<1>1. /\ hand[h] = NoHand /\ p.company \in firmsKept \cup {0}
      /\ Turns(h, IF alike = {} THEN [at |-> "insert", posting |-> p]
                  ELSE [at |-> "merge", row |-> Min(alike), posting |-> p])
      /\ UNCHANGED <<seen, kept, apps, appsKept, firms, firmsKept>>
    BY DEF LookFor
<1>2. CASE alike = {}
  <2> DEFINE d == [at |-> "insert", posting |-> p]
  <2>1. d \in Handing /\ d.at = "insert" /\ d.posting = p /\ ~OfRow(d)
      BY MakesHanding DEF OfRow
  <2>2. \A i \in kept : seen[i].posting.page # p.page
      BY <1>2 DEF Duplicate
  <2>3. HandFits(d)
      BY <1>1, <2>1, <2>2 DEF HandFits, InsertFits
  <2>4. Turns(h, d)
      BY <1>1, <1>2
  <2> QED
      BY <1>1, <2>1, <2>3, <2>4, Takes
<1>3. CASE alike # {}
  <2> DEFINE d == [at |-> "merge", row |-> Min(alike), posting |-> p]
  <2>1. kept \subseteq 1..Len(seen) /\ Len(seen) \in Nat /\ Len(seen) <= MaxFound
      BY DEF DscInv, DscTyped
  <2>0. alike \subseteq kept
      OBVIOUS
  <2>2. Min(alike) \in alike
    <3> HIDE DEF alike
    <3>1. alike \subseteq Nat
        BY <2>0, <2>1
    <3> QED
        BY <1>3, <3>1, LeastOfNaturals DEF Min
  <2>3. Min(alike) \in kept /\ Min(alike) \in 1..Len(seen) /\ Min(alike) \in RowNos
    <3> HIDE DEF alike
    <3>1. Min(alike) \in 1..Len(seen)
        BY <2>0, <2>1, <2>2
    <3> QED
        BY <2>0, <2>1, <2>2, <3>1, DiscoveriesAssumption DEF RowNos
  <2>4. d \in Handing /\ d.at = "merge" /\ d.row = Min(alike)
      BY <2>3, MakesHanding
  <2>5. HandFits(d)
    <3>1. d.row \in kept
        BY <2>3, <2>4
    <3> QED
        BY <2>4, <3>1 DEF HandFits, RowFits
  <2>6. Turns(h, d)
      BY <1>1, <1>3
  <2> HIDE DEF d, alike
  <2> QED
      BY <1>1, <2>3, <2>4, <2>5, <2>6, Takes
<1> QED
    BY <1>2, <1>3

LEMMA NextBeginImport ==
    ASSUME DscInv, NEW h \in Hands, NEW i \in kept, BeginImport(h, i)
    PROVE  DscInv'
<1>1. /\ hand[h] = NoHand /\ NotImported(i)
      /\ UNCHANGED <<seen, kept, apps, appsKept, firms, firmsKept>>
      /\ Turns(h, [at |-> IF seen[i].company = 0 THEN "company" ELSE "apply", row |-> i])
    BY DEF BeginImport
<1>2. PICK at \in {"company", "apply"} : at = IF seen[i].company = 0 THEN "company" ELSE "apply"
    OBVIOUS
<1> DEFINE d == [at |-> at, row |-> i]
<1>3. i \in 1..Len(seen) /\ i \in RowNos
  <2>1. i \in 1..Len(seen) /\ Len(seen) \in Nat /\ Len(seen) <= MaxFound
      BY DEF DscInv, DscTyped
  <2> QED
      BY <2>1, DiscoveriesAssumption DEF RowNos
<1>4. d \in Handing /\ d.at = at /\ d.row = i
    BY <1>3, MakesHanding
<1>5. HandFits(d)
    BY <1>1, <1>4 DEF HandFits, RowFits, NotImported
<1>6. Turns(h, d)
    BY <1>1, <1>2
<1> HIDE DEF d
<1> QED
    BY <1>1, <1>3, <1>4, <1>5, <1>6, Takes

LEMMA NextInsertRow ==
    ASSUME DscInv, NEW h \in Hands, InsertRow(h)
    PROVE  DscInv'
<1>0. PICK p, n : p = hand[h].posting /\ n = Len(seen) + 1
    OBVIOUS
<1>1. /\ hand[h].at = "insert" /\ Len(seen) < MaxFound
      /\ seen' = Append(seen, Row(p)) /\ kept' = kept \cup {Len(seen')}
      /\ hand' = [hand EXCEPT ![h] = NoHand]
      /\ UNCHANGED <<apps, appsKept, firms, firmsKept, touched>>
    BY <1>0 DEF InsertRow
<1>2. /\ seen \in Seq(FoundRows) /\ kept \subseteq 1..Len(seen) /\ hand \in [Hands -> Handing]
      /\ \A a \in appsKept : apps[a].row \in 1..Len(seen)
      /\ \A g \in Hands : OfRow(hand[g]) => hand[g].row \in 1..Len(seen)
    BY DEF DscInv, DscTyped
<1>3. p \in Postings /\ HoldsIn(seen, hand[h]) = {p.page}
    BY <1>0, <1>1, <1>2, HandingShape, HoldsCases
<1>4. Row(p) \in FoundRows /\ Row(p).posting = p /\ Row(p).company = p.company /\ Row(p).app = 0
  <2>1. p.company \in 0..MaxCompanies /\ 0 \in 0..MaxApps
      BY <1>3, DiscoveriesAssumption
  <2> QED
      BY <1>3, <2>1 DEF Row, FoundRows
<1>5. /\ seen' \in Seq(FoundRows) /\ Len(seen') = n /\ n \in Nat /\ seen'[n] = Row(p)
      /\ \A i \in 1..Len(seen) : seen'[i] = seen[i] /\ i # n
      /\ kept' = kept \cup {n}
    BY <1>0, <1>1, <1>2, <1>4
<1>6. /\ hand' \in [Hands -> Handing] /\ hand'[h] = NoHand /\ ~OfRow(hand'[h])
      /\ hand'[h].at = "none"
      /\ \A g \in Hands : g # h => hand'[g] = hand[g]
    BY <1>1, <1>2, MakesHanding DEF NoHand, OfRow
<1>7. DscTyped'
  <2>1. Len(seen') <= MaxFound /\ kept' \subseteq 1..Len(seen')
    <3>1. Len(seen) \in Nat /\ n <= MaxFound
        BY <1>0, <1>1, <1>2, DiscoveriesAssumption
    <3>2. Len(seen') <= MaxFound
        BY <1>5, <3>1
    <3>3. 1..Len(seen) \subseteq 1..n /\ n \in 1..n
        BY <1>0, <3>1
    <3> QED
        BY <1>2, <1>5, <3>2, <3>3
  <2>2. \A a \in 1..Len(apps) : apps[a].row \in 1..Len(seen')
      BY <1>0, <1>1, <1>2, <1>5 DEF DscInv, DscTyped
  <2>3. \A g \in Hands : OfRow(hand'[g]) => hand'[g].row \in 1..Len(seen')
      BY <1>0, <1>2, <1>5, <1>6
  <2>4. \A g \in Hands : hand'[g].at = "link" => hand'[g].app \in 1..Len(apps)
      BY <1>6 DEF DscInv, DscTyped
  <2> QED
      BY <1>1, <1>5, <1>6, <2>1, <2>2, <2>3, <2>4 DEF DscInv, DscTyped
<1>8. \A g \in Hands : HoldsIn(seen', hand'[g]) \subseteq HoldsIn(seen, hand[g])
    BY <1>2, <1>5, <1>6, HoldsSame, HoldsCases
<1>9. Apart'
    BY <1>1, <1>8 DEF DscInv, Apart
<1>10. p.page \notin touched => InsertFits(p)
    BY <1>0, <1>1 DEF DscInv, HandFits
<1>11. \A i \in kept : Untouched(i)' <=> Untouched(i)
    BY <1>1, <1>2, <1>5 DEF Untouched
<1>12. Untouched(n)' => p.page \notin touched
    BY <1>1, <1>4, <1>5 DEF Untouched
<1>13. OneRow'
  <2> SUFFICES ASSUME NEW i \in kept', NEW j \in kept', i # j, Untouched(i)'
               PROVE  seen'[i].posting.page # seen'[j].posting.page
      BY DEF OneRow
  <2>1. CASE i \in kept /\ j \in kept
      BY <1>2, <1>5, <1>11, <2>1 DEF DscInv, OneRow
  <2>2. CASE i = n
      BY <1>2, <1>4, <1>5, <1>10, <1>12, <2>2 DEF InsertFits
  <2>3. CASE j = n /\ i \in kept
      BY <1>1, <1>2, <1>4, <1>5, <1>10, <2>3 DEF InsertFits, Untouched
  <2> QED
      BY <1>5, <2>1, <2>2, <2>3
<1>14. \A i \in kept' : Untouched(i)' => RowWhole(i)'
    BY <1>1, <1>2, <1>4, <1>5, <1>10, <1>11, <1>12 DEF DscInv, RowWhole, OwnApp, InsertFits
<1>15. \A a \in appsKept' : Untouched(apps[a].row)' => AppWhole(a)'
  <2> SUFFICES ASSUME NEW a \in appsKept, Untouched(apps[a].row)'
               PROVE  AppWhole(a)'
      BY <1>1
  <2>1. seen'[apps[a].row] = seen[apps[a].row]
      BY <1>2, <1>5
  <2>2. AppWhole(a)
      BY <1>1, <2>1 DEF DscInv, Untouched
  <2>3. Linking(a) => Linking(a)'
      BY <1>1, <1>6 DEF Linking
  <2> QED
      BY <1>1, <1>5, <2>1, <2>2, <2>3 DEF AppWhole
<1>16. \A g \in Hands : HandFits(hand[g])'
  <2> SUFFICES ASSUME NEW g \in Hands, g # h PROVE HandFits(hand[g])'
      BY <1>6 DEF HandFits
  <2>0. PICK d : d = hand[g]
      OBVIOUS
  <2>1. hand'[g] = d /\ HandFits(d) /\ d \in Handing
      BY <1>2, <1>6, <2>0 DEF DscInv
  <2>2. ASSUME d.at = "insert", d.posting.page \notin touched
        PROVE  \A i \in kept' : seen'[i].posting.page # d.posting.page
    <3>1. p.page # d.posting.page
        BY <1>0, <1>3, <2>0, <2>1, <2>2, HoldsCases DEF DscInv, Apart
    <3> QED
        BY <1>2, <1>4, <1>5, <2>1, <2>2, <3>1 DEF HandFits, InsertFits
  <2>3. OfRow(d) => seen'[d.row] = seen[d.row]
      BY <1>2, <1>5, <2>0
  <2>4. d.at = "create" => OfRow(d)
      BY DEF OfRow
  <2>5. d.at = "insert" /\ d.posting.page \notin touched => InsertFits(d.posting)'
      BY <1>1, <2>1, <2>2 DEF HandFits, InsertFits
  <2>6. OfRow(d) /\ Untouched(d.row)' => RowFits(d)'
    <3>1. ASSUME OfRow(d), Untouched(d.row)' PROVE RowFits(d)'
      <4>1. seen'[d.row] = seen[d.row] /\ Untouched(d.row)
          BY <1>1, <2>3, <3>1 DEF Untouched
      <4>2. RowFits(d)
          BY <2>1, <3>1, <4>1 DEF HandFits
      <4> QED
          BY <1>1, <1>5, <4>1, <4>2 DEF RowFits
    <3> QED
        BY <3>1
  <2>7. d.at = "create" /\ seen'[d.row].posting.host \notin touched =>
            \A c \in firmsKept : firms[c] # seen'[d.row].posting.host
      BY <2>1, <2>3, <2>4 DEF HandFits
  <2>8. HandFits(d)'
      BY <1>1, <2>5, <2>6, <2>7 DEF HandFits
  <2> QED
      BY <2>1, <2>8 DEF HandFits, InsertFits, RowFits, Untouched, OfRow
<1> QED
    BY <1>7, <1>9, <1>13, <1>14, <1>15, <1>16, <1>1 DEF DscInv, OneFirm


LEMMA HoldsStays ==
    ASSUME NEW d \in Handing, OfRow(d) => d.row \in 1..Len(seen),
           \A j \in 1..Len(seen) : seen'[j].posting = seen[j].posting
    PROVE  HoldsIn(seen', d) = HoldsIn(seen, d)
<1>1. PICK table, more : table = seen /\ more = seen'
    OBVIOUS
<1>2. OfRow(d) => more[d.row].posting = table[d.row].posting
    BY <1>1
<1> QED
    BY <1>1, <1>2, HoldsSame

\* A thread saves the row i it works on as r and goes on as d; companies may
\* have come, applications have not.
SavesRow(h, i, r, d) ==
    /\ OfRow(hand[h]) /\ i = hand[h].row /\ r.posting = seen[i].posting
    /\ seen' = [seen EXCEPT ![i] = r] /\ kept' = kept \cup {i}
    /\ hand' = [hand EXCEPT ![h] = d]
    /\ UNCHANGED <<apps, appsKept, touched>>
    /\ Untouched(i) => /\ r.company \in firmsKept' \cup {0} /\ r.app \in appsKept \cup {0}
                       /\ OwnApp(i, r)
FirmsCome ==
    /\ firms' \in Seq(Hosts \cup {"watched"}) /\ Len(firms') \in 1..MaxCompanies
    /\ firmsKept' \subseteq 1..Len(firms') /\ firmsKept \subseteq firmsKept' /\ OneFirm'

\* The other threads about to make a company still have reason to.
OthersMake(h) ==
    \A g \in Hands : g # h /\ hand[g].at = "create"
                       /\ seen[hand[g].row].posting.host \notin touched =>
        \A c \in firmsKept' : firms'[c] # seen[hand[g].row].posting.host

\* The row saved is as its application has it.
AsItsApp(h, i, r) ==
    \A a \in appsKept : apps[a].row = i /\ Untouched(i) =>
        /\ r.company = apps[a].company
        /\ \/ r.app = a
           \/ \E g \in Hands : /\ g # h /\ hand[g].at = "link" /\ hand[g].app = a
                               /\ hand[g].row = i

LEMMA RowSavedBy ==
    ASSUME DscInv, NEW h \in Hands, NEW i, NEW r \in FoundRows,
           NEW d \in Handing, OfRow(d) => d.row = i, d.at # "link",
           HoldsIn(seen, d) \subseteq HoldsIn(seen, hand[h]), HandFits(d)',
           SavesRow(h, i, r, d), FirmsCome, OthersMake(h), AsItsApp(h, i, r)
    PROVE  DscInv'
<1>0. /\ OfRow(hand[h]) /\ i = hand[h].row /\ r.posting = seen[i].posting
      /\ seen' = [seen EXCEPT ![i] = r] /\ kept' = kept \cup {i}
      /\ hand' = [hand EXCEPT ![h] = d]
      /\ apps' = apps /\ appsKept' = appsKept /\ touched' = touched
      /\ Untouched(i) => /\ r.company \in firmsKept' \cup {0} /\ r.app \in appsKept \cup {0}
                         /\ OwnApp(i, r)
      /\ firms' \in Seq(Hosts \cup {"watched"}) /\ Len(firms') \in 1..MaxCompanies
      /\ firmsKept' \subseteq 1..Len(firms') /\ firmsKept \subseteq firmsKept' /\ OneFirm'
    BY DEF SavesRow, FirmsCome
<1>1. /\ seen \in Seq(FoundRows) /\ kept \subseteq 1..Len(seen) /\ hand \in [Hands -> Handing]
      /\ i \in 1..Len(seen)
      /\ \A a \in appsKept : apps[a].row \in 1..Len(seen)
      /\ \A g \in Hands : OfRow(hand[g]) => hand[g].row \in 1..Len(seen)
    BY <1>0 DEF DscInv, DscTyped
<1>2. /\ seen' \in Seq(FoundRows) /\ Len(seen') = Len(seen) /\ seen'[i] = r
      /\ \A j \in 1..Len(seen) : j # i => seen'[j] = seen[j]
    BY <1>0, <1>1
<1>3. \A j \in 1..Len(seen) : seen'[j].posting = seen[j].posting
    BY <1>0, <1>2
<1>4. /\ hand' \in [Hands -> Handing] /\ hand'[h] = d
      /\ \A g \in Hands : g # h => hand'[g] = hand[g]
    BY <1>0, <1>1
<1>5. \A j \in 1..Len(seen) : Untouched(j)' <=> Untouched(j)
    BY <1>0, <1>3 DEF Untouched
<1>6. DscTyped'
  <2>1. /\ Len(seen') <= MaxFound /\ kept' \subseteq 1..Len(seen')
        /\ \A a \in 1..Len(apps) : apps[a].row \in 1..Len(seen')
      BY <1>0, <1>1, <1>2 DEF DscInv, DscTyped
  <2>2. \A g \in Hands : /\ OfRow(hand'[g]) => hand'[g].row \in 1..Len(seen')
                         /\ hand'[g].at = "link" => hand'[g].app \in 1..Len(apps)
      BY <1>0, <1>1, <1>2, <1>4 DEF DscInv, DscTyped
  <2> QED
      BY <1>0, <1>2, <1>4, <2>1, <2>2 DEF DscInv, DscTyped
<1>7. \A g \in Hands : HoldsIn(seen', hand'[g]) \subseteq HoldsIn(seen, hand[g])
  <2>1. HoldsIn(seen', d) = HoldsIn(seen, d)
    <3>1. OfRow(d) => d.row \in 1..Len(seen)
        BY <1>0, <1>1
    <3> QED
        BY <1>0, <1>3, <3>1, HoldsStays
  <2>2. \A g \in Hands : HoldsIn(seen', hand[g]) = HoldsIn(seen, hand[g])
    <3>1. TAKE g \in Hands
    <3>2. PICK e \in Handing : e = hand[g]
        BY <1>0, <1>1
    <3>3. OfRow(e) => e.row \in 1..Len(seen)
        BY <1>0, <1>1, <3>2
    <3>4. HoldsIn(seen', e) = HoldsIn(seen, e)
        BY <1>0, <1>3, <3>3, HoldsStays
    <3> QED
        BY <1>0, <3>2, <3>4
  <2> QED
      BY <1>0, <1>4, <2>1, <2>2
<1>8. Apart'
    BY <1>0, <1>7 DEF DscInv, Apart
<1>9. Untouched(i) => i \in kept
    BY <1>0 DEF DscInv, HandFits, RowFits
<1>10. OneRow'
  <2> SUFFICES ASSUME NEW k \in kept', NEW j \in kept', k # j, Untouched(k)'
               PROVE  seen'[k].posting.page # seen'[j].posting.page
      BY <1>0 DEF OneRow
  <2>1. k \in 1..Len(seen) /\ j \in 1..Len(seen)
      BY <1>0, <1>1
  <2>2. Untouched(k)
      BY <1>0, <1>5, <2>1
  <2>3. CASE Untouched(j)
      BY <1>0, <1>3, <1>9, <2>1, <2>2, <2>3 DEF DscInv, OneRow
  <2>4. CASE ~Untouched(j)
      BY <1>0, <1>3, <2>1, <2>2, <2>4 DEF Untouched
  <2> QED
      BY <1>0, <2>3, <2>4
<1>11. \A k \in kept' : Untouched(k)' => RowWhole(k)'
  <2> SUFFICES ASSUME NEW k \in kept', Untouched(k)' PROVE RowWhole(k)'
      OBVIOUS
  <2>1. k \in 1..Len(seen) /\ Untouched(k)
      BY <1>0, <1>1, <1>5
  <2>2. CASE k = i
      BY <1>0, <1>2, <2>1, <2>2 DEF RowWhole, OwnApp
  <2>3. CASE k # i
    <3>1. RowWhole(k) /\ seen'[k] = seen[k]
        BY <1>0, <1>2, <2>1, <2>3 DEF DscInv
    <3> QED
        BY <1>0, <3>1 DEF RowWhole, OwnApp
  <2> QED
      BY <1>0, <2>2, <2>3
<1>12. \A a \in appsKept' : Untouched(apps[a].row)' => AppWhole(a)'
  <2> SUFFICES ASSUME NEW a \in appsKept, Untouched(apps[a].row)' PROVE AppWhole(a)'
      BY <1>0
  <2>0. PICK j : j = apps[a].row
      OBVIOUS
  <2>1. j \in 1..Len(seen) /\ Untouched(j)
    <3>1. j \in 1..Len(seen)
        BY <1>0, <1>1, <2>0
    <3>2. Untouched(j)'
        BY <1>0, <2>0 DEF Untouched
    <3> QED
        BY <1>0, <1>5, <3>1, <3>2
  <2>2. AppWhole(a)
      BY <1>0, <2>0, <2>1 DEF DscInv
  <2>3. CASE j = i
    <3>1. seen'[j] = r /\ r.company = apps[a].company
        BY <1>0, <1>2, <2>0, <2>1, <2>3 DEF AsItsApp
    <3>2. r.app = a \/ Linking(a)'
      <4>1. ASSUME NEW g \in Hands, g # h, hand[g].at = "link", hand[g].app = a, hand[g].row = i
            PROVE  Linking(a)'
          BY <1>0, <1>4, <2>0, <2>3, <4>1 DEF Linking
      <4> QED
          BY <1>0, <2>0, <2>1, <2>3, <4>1 DEF AsItsApp
    <3> QED
        BY <1>0, <2>0, <2>2, <3>1, <3>2 DEF AppWhole
  <2>4. CASE j # i
    <3>1. seen'[j] = seen[j]
        BY <1>0, <1>2, <2>1, <2>4
    <3>2. Linking(a) => Linking(a)'
        BY <1>0, <1>4, <2>0, <2>4 DEF Linking
    <3> QED
        BY <1>0, <2>0, <2>2, <3>1, <3>2 DEF AppWhole
  <2> QED
      BY <1>0, <2>3, <2>4
<1>13. \A g \in Hands : HandFits(hand[g])'
  <2>1. HandFits(hand[h])'
      BY <1>0, <1>4 DEF HandFits, InsertFits, RowFits, Untouched, OfRow
  <2>2. ASSUME NEW g \in Hands, g # h PROVE HandFits(hand[g])'
    <3>0. PICK e : e = hand[g]
        OBVIOUS
    <3>1. hand'[g] = e /\ HandFits(e) /\ e \in Handing
        BY <1>0, <1>1, <1>4, <2>2, <3>0 DEF DscInv
    <3>2. ASSUME e.at = "insert", e.posting.page \notin touched
          PROVE  InsertFits(e.posting)'
      <4>1. seen[i].posting.page # e.posting.page
        <5>1. seen[i].posting.page \in HoldsIn(seen, hand[h])
            BY <1>0, HoldsItsPage
        <5>2. HoldsIn(seen, e) = {e.posting.page}
            BY <1>0, <3>1, <3>2, HoldsCases
        <5> QED
            BY <1>0, <2>2, <3>0, <3>2, <5>1, <5>2 DEF DscInv, Apart
      <4>2. InsertFits(e.posting)
          BY <1>0, <3>1, <3>2 DEF HandFits
      <4>3. \A j \in kept' : seen'[j].posting.page # e.posting.page
          BY <1>0, <1>1, <1>3, <4>1, <4>2 DEF InsertFits
      <4> QED
          BY <1>0, <4>2, <4>3 DEF InsertFits
    <3>3. ASSUME OfRow(e), Untouched(e.row)' PROVE RowFits(e)'
      <4>1. e.row \in 1..Len(seen) /\ Untouched(e.row)
        <5>1. e.row \in 1..Len(seen)
            BY <1>0, <1>1, <3>0, <3>3
        <5> QED
            BY <1>0, <1>5, <3>3, <5>1
      <4>2. e.row # i
          BY <1>0, <2>2, <3>0, <3>3, <4>1, OneHandOnly
      <4>3. RowFits(e) /\ seen'[e.row] = seen[e.row]
          BY <1>0, <1>2, <3>1, <3>3, <4>1, <4>2 DEF HandFits
      <4> QED
          BY <1>0, <4>3 DEF RowFits
    <3>4. ASSUME e.at = "create", seen'[e.row].posting.host \notin touched
          PROVE  \A c \in firmsKept' : firms'[c] # seen'[e.row].posting.host
      <4>1. e.row \in 1..Len(seen)
          BY <1>0, <1>1, <3>0, <3>4 DEF OfRow
      <4> QED
          BY <1>0, <1>3, <2>2, <3>0, <3>4, <4>1 DEF OthersMake
    <3>5. HandFits(e)'
        BY <1>0, <3>2, <3>3, <3>4 DEF HandFits
    <3> QED
        BY <1>0, <3>1, <3>5 DEF HandFits, InsertFits, RowFits, Untouched, OfRow
  <2> QED
      BY <1>0, <2>1, <2>2
<1> QED
    BY <1>0, <1>6, <1>8, <1>10, <1>11, <1>12, <1>13 DEF DscInv

LEMMA NextMergeRow ==
    ASSUME DscInv, NEW h \in Hands, MergeRow(h)
    PROVE  DscInv'
<1>0. PICK i : i = hand[h].row
    OBVIOUS
<1>1. /\ hand[h].at = "merge" /\ kept' = kept \cup {i} /\ hand' = [hand EXCEPT ![h] = NoHand]
      /\ UNCHANGED <<seen, apps, appsKept, firms, firmsKept, touched>> /\ OfRow(hand[h])
    BY <1>0 DEF MergeRow, OfRow
<1>2. /\ i \in 1..Len(seen) /\ seen \in Seq(FoundRows)
      /\ firms \in Seq(Hosts \cup {"watched"}) /\ Len(firms) \in 1..MaxCompanies
      /\ firmsKept \subseteq 1..Len(firms)
    BY <1>0, <1>1 DEF DscInv, DscTyped
<1>3. PICK r \in FoundRows : r = seen[i]
    BY <1>2
<1>4. NoHand \in Handing /\ NoHand.at = "none" /\ HoldsIn(seen, NoHand) = {} /\ ~OfRow(NoHand)
    BY MakesHanding, HoldsCases DEF NoHand, OfRow
<1>5. HandFits(NoHand)'
    BY <1>4 DEF HandFits
<1>6. Untouched(i) => i \in kept /\ RowWhole(i)
    BY <1>0, <1>1 DEF DscInv, HandFits, RowFits
<1>7. SavesRow(h, i, r, NoHand)
    BY <1>0, <1>1, <1>2, <1>3, <1>6 DEF SavesRow, RowWhole
<1>8. FirmsCome /\ OthersMake(h)
    BY <1>1, <1>2 DEF FirmsCome, OthersMake, DscInv, HandFits, OneFirm
<1>9. AsItsApp(h, i, r)
    BY <1>1, <1>3 DEF DscInv, AppWhole, Linking, AsItsApp
<1> QED
    BY <1>4, <1>5, <1>7, <1>8, <1>9, RowSavedBy


\* What a thread that has a row and is no more than its page holds.
LEMMA HoldsLess ==
    ASSUME NEW h \in Hands, hand[h] \in Handing, hand[h].at \in {"company", "create"},
           NEW d \in Handing, d.at \in {"create", "apply"}, d.row = hand[h].row
    PROVE  HoldsIn(seen, d) \subseteq HoldsIn(seen, hand[h])
BY HoldsCases

LEMMA NextFindPlaceholder ==
    ASSUME DscInv, NEW h \in Hands, FindPlaceholder(h)
    PROVE  DscInv'
<1>0. PICK i : i = hand[h].row
    OBVIOUS
<1> DEFINE known == {c \in firmsKept : firms[c] = seen[i].posting.host}
<1>1. /\ hand[h].at = "company" /\ OfRow(hand[h])
      /\ UNCHANGED <<apps, appsKept, firms, firmsKept, touched>>
      /\ IF known = {} THEN hand' = [hand EXCEPT ![h].at = "create"] /\ UNCHANGED <<seen, kept>>
         ELSE AtCompany(i, Min(known)) /\ hand' = [hand EXCEPT ![h].at = "apply"]
    BY <1>0 DEF FindPlaceholder, OfRow
<1>2. /\ i \in 1..Len(seen) /\ seen \in Seq(FoundRows) /\ hand \in [Hands -> Handing]
      /\ firms \in Seq(Hosts \cup {"watched"}) /\ Len(firms) \in 1..MaxCompanies
      /\ firmsKept \subseteq 1..Len(firms) /\ i \in RowNos
  <2>1. hand[h] \in Handing
      BY DEF DscInv, DscTyped
  <2> QED
      BY <1>0, <1>1, <2>1, HandingShape DEF DscInv, DscTyped
<1>3. hand[h] = [at |-> "company", row |-> i]
    BY <1>0, <1>1, <1>2, HandingShape
<1>4. FirmsCome /\ OthersMake(h)
    BY <1>1, <1>2 DEF FirmsCome, OthersMake, DscInv, HandFits, OneFirm
<1>5. Untouched(i) => /\ i \in kept /\ seen[i].app = 0 /\ RowWhole(i)
                      /\ \A a \in appsKept : apps[a].row # i
    BY <1>0, <1>1, NotYetThere DEF DscInv, HandFits, RowFits
<1>6. CASE known = {}
  <2> DEFINE d == [at |-> "create", row |-> i]
  <2>1. d \in Handing /\ d.at = "create" /\ d.row = i /\ OfRow(d)
      BY <1>2, MakesHanding DEF OfRow
  <2>2. hand' = [hand EXCEPT ![h] = d] /\ seen' = seen /\ kept' = kept
    <3>1. [hand[h] EXCEPT !.at = "create"] = d
        BY <1>3
    <3> QED
        BY <1>1, <1>2, <1>6, <3>1
  <2>3. kept' = kept \cup {i} \/ ~Untouched(i)
      BY <1>5, <2>2
  <2>4. \A c \in firmsKept : firms[c] # seen[i].posting.host
      BY <1>6
  <2>5. HandFits(d)'
      BY <1>1, <1>5, <2>1, <2>2, <2>4 DEF HandFits, RowFits, Untouched
  <2>6. \A g \in Hands : HoldsIn(seen', hand'[g]) \subseteq HoldsIn(seen, hand[g])
    <3>1. HoldsIn(seen, d) \subseteq HoldsIn(seen, hand[h])
        BY <1>0, <1>1, <1>2, <2>1, HoldsLess
    <3> QED
        BY <1>2, <2>2, <3>1
  <2>7. hand'[h] = d /\ hand' \in [Hands -> Handing] /\ \A g \in Hands : g # h => hand'[g] = hand[g]
      BY <1>2, <2>1, <2>2
  <2> HIDE DEF d
  <2>8. DscTyped'
      BY <1>1, <1>2, <2>1, <2>2, <2>7 DEF DscInv, DscTyped
  <2>9. Apart' /\ OneRow' /\ OneFirm'
      BY <1>1, <2>2, <2>6 DEF DscInv, Apart, OneRow, OneFirm, Untouched
  <2>10. \A k \in kept' : Untouched(k)' => RowWhole(k)'
      BY <1>1, <2>2 DEF DscInv, RowWhole, OwnApp, Untouched
  <2>11. \A a \in appsKept' : Untouched(apps[a].row)' => AppWhole(a)'
      BY <1>1, <2>2, <2>7 DEF DscInv, AppWhole, Linking, Untouched
  <2>12. \A g \in Hands : HandFits(hand[g])'
    <3>1. \A g \in Hands : g # h => HandFits(hand'[g])
        BY <2>7 DEF DscInv
    <3> QED
        BY <1>1, <2>2, <2>5, <2>7, <3>1 DEF HandFits, InsertFits, RowFits, Untouched, OfRow
  <2> QED
      BY <2>8, <2>9, <2>10, <2>11, <2>12 DEF DscInv
<1>7. CASE known # {}
  <2>1. Min(known) \in firmsKept /\ Min(known) \in 0..MaxCompanies
    <3>1. known \subseteq firmsKept
        OBVIOUS
    <3> HIDE DEF known
    <3>2. known \subseteq Nat
        BY <1>2, <3>1
    <3>3. Min(known) \in known
        BY <1>7, <3>2, LeastOfNaturals DEF Min
    <3>4. Min(known) \in firmsKept
        BY <3>1, <3>3
    <3>5. Min(known) \in 1..Len(firms)
        BY <1>2, <3>4
    <3> QED
        BY <1>2, <3>4, <3>5, DiscoveriesAssumption
  <2>2. PICK c : c = Min(known)
      OBVIOUS
  <2>3. PICK r \in FoundRows : r = [seen[i] EXCEPT !.company = c]
    <3>1. seen[i] \in FoundRows
        BY <1>2
    <3> QED
        BY <2>1, <2>2, <3>1 DEF FoundRows
  <2>4. r.posting = seen[i].posting /\ r.company = c /\ r.app = seen[i].app
    <3>1. seen[i] \in FoundRows
        BY <1>2
    <3> QED
        BY <2>3, <3>1, FoundRowShape
  <2> DEFINE d == [at |-> "apply", row |-> i]
  <2>5. d \in Handing /\ d.at = "apply" /\ d.row = i /\ OfRow(d)
      BY <1>2, MakesHanding DEF OfRow
  <2>6. /\ seen' = [seen EXCEPT ![i] = r] /\ kept' = kept \cup {i}
        /\ hand' = [hand EXCEPT ![h] = d]
    <3>1. [hand[h] EXCEPT !.at = "apply"] = d
        BY <1>3
    <3> HIDE DEF known
    <3> QED
        BY <1>1, <1>2, <1>7, <2>2, <2>3, <3>1 DEF AtCompany
  <2>7. HoldsIn(seen, d) \subseteq HoldsIn(seen, hand[h])
      BY <1>0, <1>1, <1>2, <2>5, HoldsLess
  <2> HIDE DEF d, known
  <2>8. HandFits(d)'
    <3>1. seen'[i] = r
        BY <1>2, <2>6
    <3> QED
        BY <1>1, <1>5, <2>4, <2>5, <2>6, <3>1 DEF HandFits, RowFits, Untouched
  <2>9. SavesRow(h, i, r, d)
      BY <1>0, <1>1, <1>5, <2>1, <2>2, <2>4, <2>6 DEF SavesRow, RowWhole, OwnApp
  <2>10. AsItsApp(h, i, r)
      BY <1>5 DEF AsItsApp
  <2> QED
      BY <1>4, <2>5, <2>7, <2>8, <2>9, <2>10, RowSavedBy
<1> QED
    BY <1>6, <1>7

LEMMA NextMakePlaceholder ==
    ASSUME DscInv, NEW h \in Hands, MakePlaceholder(h)
    PROVE  DscInv'
<1>0. PICK i, c : i = hand[h].row /\ c = Len(firms) + 1
    OBVIOUS
<1>1. /\ hand[h].at = "create" /\ OfRow(hand[h]) /\ Len(firms) < MaxCompanies
      /\ firms' = Append(firms, seen[i].posting.host)
      /\ firmsKept' = firmsKept \cup {Len(firms')} /\ AtCompany(i, Len(firms'))
      /\ hand' = [hand EXCEPT ![h].at = "apply"]
      /\ UNCHANGED <<apps, appsKept, touched>>
    BY <1>0 DEF MakePlaceholder, OfRow
<1>2. /\ i \in 1..Len(seen) /\ seen \in Seq(FoundRows) /\ hand \in [Hands -> Handing]
      /\ firms \in Seq(Hosts \cup {"watched"}) /\ Len(firms) \in 1..MaxCompanies
      /\ firmsKept \subseteq 1..Len(firms) /\ i \in RowNos
  <2>1. hand[h] \in Handing
      BY DEF DscInv, DscTyped
  <2> QED
      BY <1>0, <1>1, <2>1, HandingShape DEF DscInv, DscTyped
<1>3. hand[h] = [at |-> "create", row |-> i]
    BY <1>0, <1>1, <1>2, HandingShape
<1>4. seen[i] \in FoundRows /\ seen[i].posting.host \in Hosts
    BY <1>2, FoundRowShape
<1>5. /\ firms' \in Seq(Hosts \cup {"watched"}) /\ Len(firms') = c
      /\ c \in 1..MaxCompanies /\ c \notin 1..Len(firms)
      /\ firms'[c] = seen[i].posting.host
      /\ \A e \in 1..Len(firms) : firms'[e] = firms[e]
    BY <1>0, <1>1, <1>2, <1>4, DiscoveriesAssumption
<1>6. firmsKept' = firmsKept \cup {c} /\ firmsKept' \subseteq 1..Len(firms')
  <2>1. 1..Len(firms) \subseteq 1..c /\ c \in 1..c
      BY <1>0, <1>2
  <2> QED
      BY <1>1, <1>2, <1>5, <2>1
<1>7. seen[i].posting.host \notin touched => \A e \in firmsKept : firms[e] # seen[i].posting.host
    BY <1>0, <1>1 DEF DscInv, HandFits
<1>8. FirmsCome
  <2>1. OneFirm'
    <3> SUFFICES ASSUME NEW e \in firmsKept', NEW f \in firmsKept', e # f, firms'[e] = firms'[f]
                 PROVE  firms'[e] \in touched'
        BY DEF OneFirm
    <3>1. CASE e \in firmsKept /\ f \in firmsKept
        BY <1>1, <1>2, <1>5, <3>1 DEF DscInv, OneFirm
    <3>2. CASE e = c /\ f \in firmsKept
        BY <1>1, <1>2, <1>5, <1>7, <3>2
    <3>3. CASE f = c /\ e \in firmsKept
        BY <1>1, <1>2, <1>5, <1>7, <3>3
    <3> QED
        BY <1>6, <3>1, <3>2, <3>3
  <2> QED
      BY <1>5, <1>6, <2>1 DEF FirmsCome
<1>9. OthersMake(h)
  <2> SUFFICES ASSUME NEW g \in Hands, g # h, hand[g].at = "create",
                      seen[hand[g].row].posting.host \notin touched, NEW e \in firmsKept'
               PROVE  firms'[e] # seen[hand[g].row].posting.host
      BY DEF OthersMake
  <2>1. CASE e \in firmsKept
      BY <1>2, <1>5, <2>1 DEF DscInv, HandFits
  <2>2. CASE e = c
    <3>1. /\ seen[hand[g].row].posting.host \in HoldsIn(seen, hand[g])
          /\ seen[i].posting.host \in HoldsIn(seen, hand[h])
        BY <1>0, <1>1, <1>2, HoldsCases
    <3> QED
        BY <1>5, <2>2, <3>1 DEF DscInv, Apart
  <2> QED
      BY <1>6, <2>1, <2>2
<1>10. Untouched(i) => /\ i \in kept /\ seen[i].app = 0 /\ RowWhole(i)
                       /\ \A a \in appsKept : apps[a].row # i
    BY <1>0, <1>1, NotYetThere DEF DscInv, HandFits, RowFits
<1>11. PICK r \in FoundRows : r = [seen[i] EXCEPT !.company = c]
  <2>1. c \in 0..MaxCompanies
      BY <1>5
  <2> QED
      BY <1>4, <2>1 DEF FoundRows
<1>12. r.posting = seen[i].posting /\ r.company = c /\ r.app = seen[i].app
    BY <1>4, <1>11, FoundRowShape
<1> DEFINE d == [at |-> "apply", row |-> i]
<1>13. d \in Handing /\ d.at = "apply" /\ d.row = i /\ OfRow(d)
    BY <1>2, MakesHanding DEF OfRow
<1>14. /\ seen' = [seen EXCEPT ![i] = r] /\ kept' = kept \cup {i}
       /\ hand' = [hand EXCEPT ![h] = d]
  <2>1. [hand[h] EXCEPT !.at = "apply"] = d
      BY <1>3
  <2> QED
      BY <1>1, <1>2, <1>5, <1>11, <2>1 DEF AtCompany
<1>15. HoldsIn(seen, d) \subseteq HoldsIn(seen, hand[h])
    BY <1>0, <1>1, <1>2, <1>13, HoldsLess
<1> HIDE DEF d
<1>16. HandFits(d)'
  <2>1. seen'[i] = r
      BY <1>2, <1>14
  <2> QED
      BY <1>1, <1>10, <1>12, <1>13, <1>14, <2>1 DEF HandFits, RowFits, Untouched
<1>17. SavesRow(h, i, r, d)
    BY <1>0, <1>1, <1>6, <1>10, <1>12, <1>14 DEF SavesRow, RowWhole, OwnApp
<1>18. AsItsApp(h, i, r)
    BY <1>10 DEF AsItsApp
<1> QED
    BY <1>8, <1>9, <1>13, <1>15, <1>16, <1>17, <1>18, RowSavedBy

LEMMA NextLinkApp ==
    ASSUME DscInv, NEW h \in Hands, LinkApp(h)
    PROVE  DscInv'
<1>0. PICK i, b : i = hand[h].row /\ b = hand[h].app
    OBVIOUS
<1>1. /\ hand[h].at = "link" /\ OfRow(hand[h])
      /\ seen' = [seen EXCEPT ![i].app = b] /\ kept' = kept \cup {i}
      /\ hand' = [hand EXCEPT ![h] = NoHand]
      /\ UNCHANGED <<apps, appsKept, firms, firmsKept, touched>>
    BY <1>0 DEF LinkApp, OfRow
<1>2. /\ i \in 1..Len(seen) /\ seen \in Seq(FoundRows) /\ hand \in [Hands -> Handing]
      /\ firms \in Seq(Hosts \cup {"watched"}) /\ Len(firms) \in 1..MaxCompanies
      /\ firmsKept \subseteq 1..Len(firms) /\ b \in 1..MaxApps
  <2>1. hand[h] \in Handing
      BY DEF DscInv, DscTyped
  <2> QED
      BY <1>0, <1>1, <2>1, HandingShape DEF DscInv, DscTyped
<1>3. PICK r \in FoundRows : r = [seen[i] EXCEPT !.app = b]
  <2>1. seen[i] \in FoundRows /\ b \in 0..MaxApps
      BY <1>2, DiscoveriesAssumption
  <2> QED
      BY <2>1 DEF FoundRows
<1>4. r.posting = seen[i].posting /\ r.company = seen[i].company /\ r.app = b
  <2>1. seen[i] \in FoundRows
      BY <1>2
  <2> QED
      BY <1>3, <2>1, FoundRowShape
<1>5. NoHand \in Handing /\ NoHand.at = "none" /\ HoldsIn(seen, NoHand) = {} /\ ~OfRow(NoHand)
    BY MakesHanding, HoldsCases DEF NoHand, OfRow
<1>6. HandFits(NoHand)'
    BY <1>5 DEF HandFits
<1>7. Untouched(i) => /\ i \in kept /\ RowWhole(i) /\ b \in appsKept /\ apps[b].row = i
                      /\ apps[b].company = seen[i].company
    BY <1>0, <1>1 DEF DscInv, HandFits, RowFits, AppWhole
<1>8. SavesRow(h, i, r, NoHand)
  <2>1. seen' = [seen EXCEPT ![i] = r]
      BY <1>1, <1>2, <1>3
  <2> QED
      BY <1>0, <1>1, <1>4, <1>7, <2>1 DEF SavesRow, RowWhole, OwnApp
<1>9. FirmsCome /\ OthersMake(h)
    BY <1>1, <1>2 DEF FirmsCome, OthersMake, DscInv, HandFits, OneFirm
<1>10. AsItsApp(h, i, r)
    BY <1>4, <1>7 DEF DscInv, AppWhole, AsItsApp
<1> QED
    BY <1>5, <1>6, <1>8, <1>9, <1>10, RowSavedBy


LEMMA NextSaveApp ==
    ASSUME DscInv, NEW h \in Hands, SaveApp(h)
    PROVE  DscInv'
<1>0. PICK i, n : i = hand[h].row /\ n = Len(apps) + 1
    OBVIOUS
<1> DEFINE new == [row |-> i, company |-> seen[i].company]
<1>1. /\ hand[h].at = "apply" /\ OfRow(hand[h]) /\ Len(apps) < MaxApps
      /\ apps' = Append(apps, new) /\ appsKept' = appsKept \cup {Len(apps')}
      /\ hand' = [hand EXCEPT ![h] = [at |-> "link", row |-> i, app |-> Len(apps')]]
      /\ UNCHANGED <<seen, kept, firms, firmsKept, touched>>
    BY <1>0 DEF SaveApp, OfRow
<1>2. /\ i \in 1..Len(seen) /\ seen \in Seq(FoundRows) /\ hand \in [Hands -> Handing]
      /\ apps \in Seq(AppRows) /\ appsKept \subseteq 1..Len(apps) /\ i \in RowNos
      /\ \A a \in 1..Len(apps) : apps[a].row \in 1..Len(seen)
  <2>1. hand[h] \in Handing
      BY DEF DscInv, DscTyped
  <2> QED
      BY <1>0, <1>1, <2>1, HandingShape DEF DscInv, DscTyped
<1>3. new \in AppRows
  <2>1. seen[i].company \in 0..MaxCompanies
      BY <1>2, FoundRowShape
  <2> QED
      BY <1>2, <2>1 DEF AppRows
<1> DEFINE d == [at |-> "link", row |-> i, app |-> n]
<1>4. /\ apps' \in Seq(AppRows) /\ Len(apps') = n /\ n \in 1..MaxApps
      /\ n \notin 1..Len(apps) /\ apps'[n] = new /\ appsKept' = appsKept \cup {n}
      /\ \A a \in 1..Len(apps) : apps'[a] = apps[a] /\ a \in 1..n
      /\ n \in 1..n
  <2> HIDE DEF new
  <2> QED
      BY <1>0, <1>1, <1>2, <1>3, DiscoveriesAssumption
<1>5. apps'[n].row = i /\ apps'[n].company = seen[i].company
    BY <1>4
<1>6. d \in Handing /\ d.at = "link" /\ d.row = i /\ d.app = n /\ OfRow(d)
    BY <1>2, <1>4, MakesHanding DEF OfRow
<1>7. /\ hand' \in [Hands -> Handing] /\ hand'[h] = d
      /\ \A g \in Hands : g # h => hand'[g] = hand[g]
    BY <1>1, <1>2, <1>4, <1>6
<1> HIDE DEF d, new
<1>8. HoldsIn(seen, d) = HoldsIn(seen, hand[h])
  <2>1. hand[h] \in Handing
      BY <1>2
  <2>2. HoldsIn(seen, hand[h]) = {seen[i].posting.page}
      BY <1>0, <1>1, <2>1, HoldsCases
  <2>3. HoldsIn(seen, d) = {seen[i].posting.page}
      BY <1>6, HoldsCases
  <2> QED
      BY <2>2, <2>3
<1>9. Untouched(i) => i \in kept /\ \A a \in appsKept : apps[a].row # i
    BY <1>0, <1>1, NotYetThere DEF DscInv, HandFits, RowFits
<1>10. DscTyped'
  <2>1. /\ Len(apps') <= MaxApps /\ appsKept' \subseteq 1..Len(apps')
        /\ \A a \in 1..Len(apps') : apps'[a].row \in 1..Len(seen)
    <3>1. \A a \in 1..Len(apps') : a \in 1..Len(apps) \/ a = n
        BY <1>0, <1>2, <1>4
    <3>2. Len(apps') <= MaxApps
        BY <1>4, DiscoveriesAssumption
    <3> QED
        BY <1>2, <1>4, <1>5, <3>1, <3>2
  <2>2. \A g \in Hands : /\ OfRow(hand'[g]) => hand'[g].row \in 1..Len(seen)
                         /\ hand'[g].at = "link" => hand'[g].app \in 1..Len(apps')
      BY <1>2, <1>4, <1>6, <1>7 DEF DscInv, DscTyped
  <2> QED
      BY <1>1, <1>4, <1>7, <2>1, <2>2 DEF DscInv, DscTyped
<1>11. Apart' /\ OneRow' /\ OneFirm'
    BY <1>1, <1>7, <1>8 DEF DscInv, Apart, OneRow, OneFirm, Untouched
<1>12. \A k \in kept' : Untouched(k)' => RowWhole(k)'
  <2> SUFFICES ASSUME NEW k \in kept, Untouched(k) PROVE RowWhole(k)'
      BY <1>1 DEF Untouched
  <2>1. RowWhole(k) /\ (seen[k].app # 0 => seen[k].app \in 1..Len(apps))
      BY <1>2 DEF DscInv, RowWhole
  <2> QED
      BY <1>1, <1>4, <2>1 DEF RowWhole, OwnApp
<1>13. \A a \in appsKept' : Untouched(apps[a].row)' => AppWhole(a)'
  <2> SUFFICES ASSUME NEW a \in appsKept', NEW j, j = apps'[a].row, Untouched(j)
               PROVE  AppWhole(a)'
    <3>1. \A a \in appsKept' : \A j : j = apps'[a].row /\ Untouched(apps[a].row)' => Untouched(j)
        BY <1>1 DEF Untouched
    <3> QED
        BY <3>1
  <2>1. CASE a = n
    <3>1. j = i
        BY <1>5, <2>1
    <3>2. Linking(a)'
        BY <1>5, <1>6, <1>7, <2>1 DEF Linking
    <3>3. \A b \in appsKept' : apps'[b].row = i => b = n
        BY <1>2, <1>4, <1>9, <3>1
    <3> QED
        BY <1>1, <1>5, <1>9, <2>1, <3>1, <3>2, <3>3 DEF AppWhole
  <2>2. CASE a \in appsKept
    <3>1. apps'[a] = apps[a] /\ AppWhole(a)
        BY <1>2, <1>4, <2>2 DEF DscInv
    <3>2. Linking(a) => Linking(a)'
        BY <1>1, <1>7, <3>1 DEF Linking
    <3>3. j # i
        BY <1>9, <2>2, <3>1
    <3>4. \A b \in appsKept' : apps'[b].row = j => a = b
        BY <1>2, <1>4, <1>5, <3>1, <3>3 DEF AppWhole
    <3> QED
        BY <1>1, <3>1, <3>2, <3>4 DEF AppWhole
  <2> QED
      BY <1>4, <2>1, <2>2
<1>14. \A g \in Hands : HandFits(hand[g])'
  <2>1. HandFits(d)'
      BY <1>1, <1>4, <1>5, <1>6, <1>9 DEF HandFits, RowFits, Untouched
  <2>2. ASSUME NEW g \in Hands, g # h PROVE HandFits(hand[g])'
    <3>0. PICK e : e = hand[g]
        OBVIOUS
    <3>1. hand'[g] = e /\ HandFits(e) /\ (e.at = "link" => e.app \in 1..Len(apps))
        BY <1>7, <2>2, <3>0 DEF DscInv, DscTyped
    <3>2. HandFits(e)'
        BY <1>1, <1>4, <3>1 DEF HandFits, InsertFits, RowFits, Untouched
    <3> QED
        BY <3>1, <3>2 DEF HandFits, InsertFits, RowFits, Untouched, OfRow
  <2> QED
      BY <1>7, <2>1, <2>2 DEF HandFits, InsertFits, RowFits, Untouched, OfRow
<1> QED
    BY <1>10, <1>11, <1>12, <1>13, <1>14 DEF DscInv

LEMMA HeldTyped ==
    ASSUME DscInv
    PROVE  Held(Hands) \subseteq Pages \cup Hosts
<1>1. hand \in [Hands -> Handing]
    BY DEF DscInv, DscTyped
<1>2. ASSUME NEW h \in Hands PROVE HoldsIn(seen, hand[h]) \subseteq Pages \cup Hosts
  <2>1. hand[h] \in Handing
      BY <1>1
  <2>2. hand[h].at \in {"insert", "merge"} => hand[h].posting.page \in Pages
      BY <2>1, HandingShape DEF Pages
  <2>3. OfRow(hand[h]) => /\ seen[hand[h].row].posting.page \in Pages
                          /\ seen[hand[h].row].posting.host \in Hosts
    <3>1. OfRow(hand[h]) => seen[hand[h].row] \in FoundRows
        BY DEF DscInv, DscTyped
    <3> QED
        BY <3>1, FoundRowShape
  <2> QED
      BY <2>1, <2>2, <2>3, HandingShape, HoldsCases DEF OfRow
<1> QED
    BY <1>1, <1>2, HeldIs

LEMMA NextPurgeRow ==
    ASSUME DscInv, NEW i \in kept, PurgeRow(i)
    PROVE  DscInv'
<1>1. /\ seen[i].app = 0 /\ kept' = kept \ {i}
      /\ touched' = touched \cup ({seen[i].posting.page} \cap Held(Hands))
      /\ UNCHANGED <<seen, apps, appsKept, firms, firmsKept, hand>>
    BY DEF PurgeRow, Removes
<1>2. \A h \in Hands : OfRow(hand[h]) /\ hand[h].row = i => seen[i].posting.page \in touched'
  <2>1. hand \in [Hands -> Handing]
      BY DEF DscInv, DscTyped
  <2> QED
      BY <1>1, <2>1, HoldsItsPage, HeldIs
<1>3. touched \subseteq touched' /\ touched' \subseteq Pages \cup Hosts
    BY <1>1, HeldTyped DEF DscInv, DscTyped
<1>4. DscTyped'
    BY <1>1, <1>3 DEF DscInv, DscTyped
<1>5. Apart' /\ OneRow' /\ OneFirm'
    BY <1>1, <1>3 DEF DscInv, Apart, OneRow, OneFirm, Untouched
<1>6. \A k \in kept' : Untouched(k)' => RowWhole(k)'
    BY <1>1, <1>3 DEF DscInv, Untouched, RowWhole, OwnApp
<1>7. \A a \in appsKept' : Untouched(apps[a].row)' => AppWhole(a)'
  <2> SUFFICES ASSUME NEW a \in appsKept, Untouched(apps[a].row)' PROVE AppWhole(a)'
      BY <1>1
  <2>1. AppWhole(a) /\ a # 0
      BY <1>1, <1>3 DEF DscInv, DscTyped, Untouched
  <2>2. apps[a].row # i
    <3> SUFFICES ASSUME apps[a].row = i PROVE FALSE
        OBVIOUS
    <3>1. Linking(a)
        BY <1>1, <2>1 DEF AppWhole
    <3> QED
        BY <1>1, <1>2, <3>1 DEF Linking, OfRow, Untouched
  <2> QED
      BY <1>1, <2>1, <2>2 DEF AppWhole, Linking
<1>8. \A h \in Hands : HandFits(hand[h])'
  <2> SUFFICES ASSUME NEW h \in Hands PROVE HandFits(hand[h])'
      OBVIOUS
  <2>0. PICK d : d = hand[h]
      OBVIOUS
  <2>1. hand'[h] = d /\ HandFits(d)
      BY <1>1, <2>0 DEF DscInv
  <2>2. ASSUME OfRow(d), Untouched(d.row)' PROVE RowFits(d)'
    <3>1. d.row # i /\ Untouched(d.row)
        BY <1>1, <1>2, <1>3, <2>0, <2>2 DEF Untouched
    <3> QED
        BY <1>1, <2>1, <2>2, <3>1 DEF HandFits, RowFits
  <2>3. HandFits(d)'
      BY <1>1, <1>3, <2>1, <2>2 DEF HandFits, InsertFits
  <2> QED
      BY <2>1, <2>3 DEF HandFits, InsertFits, RowFits, Untouched, OfRow
<1> QED
    BY <1>4, <1>5, <1>6, <1>7, <1>8 DEF DscInv

\* Whatever a thread holds is touched: nothing is claimed of it.
LEMMA AllTouched ==
    ASSUME DscInv, touched' = touched \cup Held(Hands), seen' = seen, NEW h \in Hands,
           NEW d, d = hand[h]
    PROVE  HandFits(d)'
<1>1. hand \in [Hands -> Handing] /\ d \in Handing
    BY DEF DscInv, DscTyped
<1>2. \A x \in HoldsIn(seen, d) : x \in touched'
    BY <1>1, HeldIs
<1>3. d.at = "insert" => d.posting.page \in touched'
    BY <1>1, <1>2, HoldsCases
<1>4. OfRow(d) => seen'[d.row].posting.page \in touched'
    BY <1>2, HoldsItsPage
<1>5. d.at = "create" => seen'[d.row].posting.host \in touched'
    BY <1>1, <1>2, HoldsCases
<1> QED
    BY <1>3, <1>4, <1>5 DEF HandFits, Untouched

LEMMA NextDeleteCompany ==
    ASSUME DscInv, NEW c \in firmsKept, DeleteCompany(c)
    PROVE  DscInv'
<1>1. /\ firmsKept' = firmsKept \ {c} /\ kept' = {i \in kept : seen[i].company # c}
      /\ appsKept' = {a \in appsKept : apps[a].company # c}
      /\ touched' = touched \cup Held(Hands)
      /\ UNCHANGED <<seen, apps, firms, hand>>
    BY DEF DeleteCompany
<1>2. touched \subseteq touched' /\ touched' \subseteq Pages \cup Hosts
    BY <1>1, HeldTyped DEF DscInv, DscTyped
<1>3. DscTyped'
    BY <1>1, <1>2 DEF DscInv, DscTyped
<1>4. Apart' /\ OneRow' /\ OneFirm'
    BY <1>1, <1>2 DEF DscInv, Apart, OneRow, OneFirm, Untouched
<1>5. \A k \in kept' : Untouched(k)' => RowWhole(k)'
  <2> SUFFICES ASSUME NEW k \in kept', Untouched(k)' PROVE RowWhole(k)'
      OBVIOUS
  <2>1. k \in kept /\ RowWhole(k) /\ seen[k].company # c /\ Untouched(k)
      BY <1>1, <1>2 DEF DscInv, Untouched
  <2>2. ASSUME seen[k].app # 0 PROVE seen[k].app \in appsKept'
    <3>1. PICK a \in appsKept : a = seen[k].app
        BY <2>1, <2>2 DEF RowWhole
    <3> QED
        BY <1>1, <2>1, <2>2, <3>1 DEF RowWhole, OwnApp
  <2> QED
      BY <1>1, <2>1, <2>2 DEF RowWhole, OwnApp
<1>6. \A a \in appsKept' : Untouched(apps[a].row)' => AppWhole(a)'
  <2> SUFFICES ASSUME NEW a \in appsKept', Untouched(apps[a].row)' PROVE AppWhole(a)'
      OBVIOUS
  <2>1. a \in appsKept /\ apps[a].company # c /\ AppWhole(a)
      BY <1>1, <1>2 DEF DscInv, Untouched
  <2> QED
      BY <1>1, <2>1 DEF AppWhole, Linking
<1>7. \A h \in Hands : HandFits(hand[h])'
  <2> SUFFICES ASSUME NEW h \in Hands PROVE HandFits(hand[h])'
      OBVIOUS
  <2>1. PICK d : d = hand[h]
      OBVIOUS
  <2>2. HandFits(d)' /\ hand'[h] = d
      BY <1>1, <2>1, AllTouched
  <2> QED
      BY <2>2 DEF HandFits, InsertFits, RowFits, Untouched, OfRow
<1> QED
    BY <1>3, <1>4, <1>5, <1>6, <1>7 DEF DscInv

LEMMA NextDscRestart == DscInv /\ DscRestart => DscInv'
<1> SUFFICES ASSUME DscInv, DscRestart PROVE DscInv'
    OBVIOUS
<1>1. /\ hand' = [h \in Hands |-> NoHand] /\ touched' = touched \cup Held(Hands)
      /\ UNCHANGED <<seen, kept, apps, appsKept, firms, firmsKept>>
    BY DEF DscRestart
<1>2. touched \subseteq touched' /\ touched' \subseteq Pages \cup Hosts
    BY <1>1, HeldTyped DEF DscInv, DscTyped
<1>3. \A h \in Hands : hand'[h] = NoHand /\ hand'[h].at = "none" /\ ~OfRow(hand'[h])
    BY <1>1 DEF NoHand, OfRow
<1>4. DscTyped'
    BY <1>1, <1>2, <1>3, MakesHanding DEF DscInv, DscTyped
<1>5. Apart' /\ OneRow' /\ OneFirm'
  <2>1. \A h \in Hands : HoldsIn(seen', hand'[h]) = {}
      BY <1>3, MakesHanding, HoldsCases
  <2> QED
      BY <1>1, <1>2, <2>1 DEF DscInv, Apart, OneRow, OneFirm, Untouched
<1>6. \A k \in kept' : Untouched(k)' => RowWhole(k)'
    BY <1>1, <1>2 DEF DscInv, Untouched, RowWhole, OwnApp
<1>7. \A a \in appsKept' : Untouched(apps[a].row)' => AppWhole(a)'
  <2> SUFFICES ASSUME NEW a \in appsKept, Untouched(apps[a].row)' PROVE AppWhole(a)'
      BY <1>1
  <2>1. AppWhole(a)
      BY <1>1, <1>2 DEF DscInv, Untouched
  <2>2. ~Linking(a)
    <3> SUFFICES ASSUME Linking(a) PROVE FALSE
        OBVIOUS
    <3>1. PICK h \in Hands : hand[h].at = "link" /\ hand[h].row = apps[a].row
        BY DEF Linking
    <3>2. hand \in [Hands -> Handing] /\ seen[apps[a].row].posting.page \in HoldsIn(seen, hand[h])
        BY <3>1, HoldsItsPage DEF DscInv, DscTyped, OfRow
    <3>3. seen[apps[a].row].posting.page \in touched'
        BY <1>1, <3>2, HeldIs
    <3> QED
        BY <1>1, <3>3 DEF Untouched
  <2> QED
      BY <1>1, <2>1, <2>2 DEF AppWhole
<1>8. \A h \in Hands : HandFits(hand[h])'
    BY <1>3 DEF HandFits
<1> QED
    BY <1>4, <1>5, <1>6, <1>7, <1>8 DEF DscInv

LEMMA NextDiscoveries == DscInv /\ [DscNext]_dscVars => DscInv'
<1> SUFFICES ASSUME DscInv, [DscNext]_dscVars PROVE DscInv'
    OBVIOUS
<1>1. CASE UNCHANGED dscVars
  <2>1. UNCHANGED <<seen, kept, apps, appsKept, firms, firmsKept, hand, touched>>
      BY <1>1 DEF dscVars
  <2>2. DscTyped' /\ Apart' /\ OneRow' /\ OneFirm'
      BY <2>1 DEF DscInv, DscTyped, Apart, OneRow, OneFirm, Untouched
  <2>3. /\ \A i \in kept' : Untouched(i)' => RowWhole(i)'
        /\ \A a \in appsKept' : Untouched(apps[a].row)' => AppWhole(a)'
      BY <2>1 DEF DscInv, RowWhole, OwnApp, AppWhole, Linking, Untouched
  <2>4. \A h \in Hands : HandFits(hand[h])'
      BY <2>1 DEF DscInv, HandFits, InsertFits, RowFits, Untouched
  <2> QED
      BY <2>2, <2>3, <2>4 DEF DscInv
<1> QED
    BY <1>1, NextLookFor, NextInsertRow, NextMergeRow, NextBeginImport, NextFindPlaceholder,
       NextMakePlaceholder, NextSaveApp, NextLinkApp, NextDscRestart, NextPurgeRow,
       NextDeleteCompany
    DEF DscNext

LEMMA DiscoveriesKeep == DscInv => DiscoveriesHold /\ DscTypeOK
<1> SUFFICES ASSUME DscInv PROVE DiscoveriesHold /\ DscTypeOK
    OBVIOUS
<1>1. \A i, j \in kept : i # j /\ Untouched(i) => seen[i].posting.page # seen[j].posting.page
    BY DEF DscInv, OneRow
<1>2. \A i \in kept : Untouched(i) =>
         /\ seen[i].company \in firmsKept \cup {0}
         /\ seen[i].app \in appsKept \cup {0}
         /\ Cardinality({a \in appsKept : apps[a].row = i}) <= 1
  <2> SUFFICES ASSUME NEW i \in kept, Untouched(i)
               PROVE  Cardinality({a \in appsKept : apps[a].row = i}) <= 1
      BY DEF DscInv, RowWhole
  <2> DEFINE own == {a \in appsKept : apps[a].row = i}
  <2>1. CASE own = {}
      BY <2>1, FS_EmptySet
  <2>2. CASE own # {}
    <3>1. PICK a \in appsKept : apps[a].row = i
        BY <2>2
    <3>2. own = {a}
        BY <3>1 DEF DscInv, AppWhole
    <3>3. Cardinality({a}) = 1
        BY FS_Singleton
    <3>4. Cardinality(own) = 1
        BY <3>2, <3>3
    <3> QED
        BY <3>4
  <2> QED
      BY <2>1, <2>2
<1>3. /\ \A c, e \in firmsKept : c # e /\ firms[c] = firms[e] => firms[c] \in touched
      /\ \A a \in appsKept : Untouched(apps[a].row) => apps[a].row \in kept
    BY DEF DscInv, OneFirm, AppWhole
<1>4. DscTypeOK
  <2>1. DOMAIN seen = 1..Len(seen) /\ DOMAIN apps = 1..Len(apps) /\ DOMAIN firms = 1..Len(firms)
      BY DEF DscInv, DscTyped
  <2> QED
      BY <2>1 DEF DscInv, DscTyped, DscTypeOK
<1> QED
    BY <1>1, <1>2, <1>3, <1>4 DEF DiscoveriesHold

-----------------------------------------------------------------------------
(* Crawl: robots.txt *)

\* Steps that begin with a number of the first n and lead from each to the next
\* lead to all of them.
LEMMA StepByStep ==
    ASSUME NEW n \in Nat, NEW T, 0 \in T, \A i \in 1..n : i - 1 \in T => i \in T
    PROVE  0..n \subseteq T
<1> DEFINE missed == {i \in 0..n : i \notin T}
<1>1. SUFFICES ASSUME missed # {} PROVE FALSE
    OBVIOUS
<1>2. PICK m \in missed : \A k \in missed : m <= k
  <2>1. missed \subseteq Nat
      OBVIOUS
  <2> HIDE DEF missed
  <2> QED
      BY <1>1, <2>1, LeastOfNaturals
<1>3. m \in 1..n /\ m - 1 \in 0..n
    BY <1>2
<1>4. m - 1 \in T
    BY <1>2, <1>3
<1> QED
    BY <1>2, <1>3, <1>4

\* What reads a list from its beginning has a reading of every list: of a file
\* of robots.txt,
LEMMA ReadingIs ==
    ASSUME NEW file, Len(file) \in Nat
    PROVE  Reading(file) = [i \in 0..Len(file) |->
               IF i = 0 THEN Unread ELSE ReadLine(Reading(file)[i - 1], file[i])]
<1> DEFINE upTo(g, n) ==
               g = [i \in 0..n |-> IF i = 0 THEN Unread ELSE ReadLine(g[i - 1], file[i])]
           has == {n \in 0..Len(file) : \E g : upTo(g, n)}
<1>1. 0 \in has
  <2>1. upTo([i \in 0..0 |-> Unread], 0)
      OBVIOUS
  <2>2. \E g : upTo(g, 0)
      BY <2>1
  <2>3. 0 \in 0..Len(file)
      OBVIOUS
  <2> HIDE DEF upTo
  <2> QED
      BY <2>2, <2>3
<1>2. ASSUME NEW n \in 1..Len(file), n - 1 \in has PROVE n \in has
  <2>1. PICK g : upTo(g, n - 1)
      BY <1>2
  <2>2. PICK h : h = [i \in 0..n |-> IF i = n THEN ReadLine(g[n - 1], file[n]) ELSE g[i]]
      OBVIOUS
  <2>3. \A i \in 0..(n - 1) : h[i] = g[i] /\ i # n
      BY <2>2
  <2>4. ASSUME NEW i \in 0..n
        PROVE  h[i] = IF i = 0 THEN Unread ELSE ReadLine(h[i - 1], file[i])
    <3>1. CASE i = n
        BY <2>2, <2>3, <3>1
    <3>2. CASE i # n
      <4>1. i \in 0..(n - 1) /\ (i # 0 => i - 1 \in 0..(n - 1))
          BY <3>2
      <4> QED
          BY <2>1, <2>3, <4>1
    <3> QED
        BY <3>1, <3>2
  <2>5. upTo(h, n)
      BY <2>2, <2>4
  <2>6. n \in 0..Len(file)
      OBVIOUS
  <2> HIDE DEF upTo
  <2> QED
      BY <2>5, <2>6
<1>3. Len(file) \in has
  <2> HIDE DEF has
  <2>1. 0..Len(file) \subseteq has
      BY <1>1, <1>2, StepByStep
  <2> QED
      BY <2>1
<1> DEFINE P(g) == upTo(g, Len(file))
<1>4. PICK g : P(g)
    BY <1>3
<1>5. Reading(file) = CHOOSE f : P(f)
    BY DEF Reading
<1>6. P(CHOOSE f : P(f))
  <2> HIDE DEF P
  <2> QED
      BY <1>4, Zenon
<1> QED
    BY <1>5, <1>6

\* of the groups it has,
LEMMA CollectingIs ==
    ASSUME NEW groups, NEW who, Len(groups) \in Nat
    PROVE  Collecting(groups, who) = [i \in 0..Len(groups) |->
               IF i = 0 THEN <<>> ELSE Collected(Collecting(groups, who)[i - 1], groups[i], who)]
<1> DEFINE upTo(g, n) ==
               g = [i \in 0..n |-> IF i = 0 THEN <<>> ELSE Collected(g[i - 1], groups[i], who)]
           has == {n \in 0..Len(groups) : \E g : upTo(g, n)}
<1>1. 0 \in has
  <2>1. upTo([i \in 0..0 |-> <<>>], 0)
      OBVIOUS
  <2>2. \E g : upTo(g, 0)
      BY <2>1
  <2>3. 0 \in 0..Len(groups)
      OBVIOUS
  <2> HIDE DEF upTo
  <2> QED
      BY <2>2, <2>3
<1>2. ASSUME NEW n \in 1..Len(groups), n - 1 \in has PROVE n \in has
  <2>1. PICK g : upTo(g, n - 1)
      BY <1>2
  <2>2. PICK h : h = [i \in 0..n |-> IF i = n THEN Collected(g[n - 1], groups[n], who) ELSE g[i]]
      OBVIOUS
  <2>3. \A i \in 0..(n - 1) : h[i] = g[i] /\ i # n
      BY <2>2
  <2>4. ASSUME NEW i \in 0..n
        PROVE  h[i] = IF i = 0 THEN <<>> ELSE Collected(h[i - 1], groups[i], who)
    <3>1. CASE i = n
        BY <2>2, <2>3, <3>1
    <3>2. CASE i # n
      <4>1. i \in 0..(n - 1) /\ (i # 0 => i - 1 \in 0..(n - 1))
          BY <3>2
      <4> QED
          BY <2>1, <2>3, <4>1
    <3> QED
        BY <3>1, <3>2
  <2>5. upTo(h, n)
      BY <2>2, <2>4
  <2>6. n \in 0..Len(groups)
      OBVIOUS
  <2> HIDE DEF upTo
  <2> QED
      BY <2>5, <2>6
<1>3. Len(groups) \in has
  <2> HIDE DEF has
  <2>1. 0..Len(groups) \subseteq has
      BY <1>1, <1>2, StepByStep
  <2> QED
      BY <2>1
<1> DEFINE P(g) == upTo(g, Len(groups))
<1>4. PICK g : P(g)
    BY <1>3
<1>5. Collecting(groups, who) = CHOOSE f : P(f)
    BY DEF Collecting, Collected
<1>6. P(CHOOSE f : P(f))
  <2> HIDE DEF P
  <2> QED
      BY <1>4, Zenon
<1> QED
    BY <1>5, <1>6

\* and of the rules of a group.
LEMMA JudgingIs ==
    ASSUME NEW rules, NEW u, Len(rules) \in Nat
    PROVE  Judging(rules, u) = [i \in 0..Len(rules) |->
               IF i = 0 THEN NoBest ELSE Better(Judging(rules, u)[i - 1], rules[i], u)]
<1> DEFINE upTo(g, n) ==
               g = [i \in 0..n |-> IF i = 0 THEN NoBest ELSE Better(g[i - 1], rules[i], u)]
           has == {n \in 0..Len(rules) : \E g : upTo(g, n)}
<1>1. 0 \in has
  <2>1. upTo([i \in 0..0 |-> NoBest], 0)
      OBVIOUS
  <2>2. \E g : upTo(g, 0)
      BY <2>1
  <2>3. 0 \in 0..Len(rules)
      OBVIOUS
  <2> HIDE DEF upTo
  <2> QED
      BY <2>2, <2>3
<1>2. ASSUME NEW n \in 1..Len(rules), n - 1 \in has PROVE n \in has
  <2>1. PICK g : upTo(g, n - 1)
      BY <1>2
  <2>2. PICK h : h = [i \in 0..n |-> IF i = n THEN Better(g[n - 1], rules[n], u) ELSE g[i]]
      OBVIOUS
  <2>3. \A i \in 0..(n - 1) : h[i] = g[i] /\ i # n
      BY <2>2
  <2>4. ASSUME NEW i \in 0..n
        PROVE  h[i] = IF i = 0 THEN NoBest ELSE Better(h[i - 1], rules[i], u)
    <3>1. CASE i = n
        BY <2>2, <2>3, <3>1
    <3>2. CASE i # n
      <4>1. i \in 0..(n - 1) /\ (i # 0 => i - 1 \in 0..(n - 1))
          BY <3>2
      <4> QED
          BY <2>1, <2>3, <4>1
    <3> QED
        BY <3>1, <3>2
  <2>5. upTo(h, n)
      BY <2>2, <2>4
  <2>6. n \in 0..Len(rules)
      OBVIOUS
  <2> HIDE DEF upTo
  <2> QED
      BY <2>5, <2>6
<1>3. Len(rules) \in has
  <2> HIDE DEF has
  <2>1. 0..Len(rules) \subseteq has
      BY <1>1, <1>2, StepByStep
  <2> QED
      BY <2>1
<1> DEFINE P(g) == upTo(g, Len(rules))
<1>4. PICK g : P(g)
    BY <1>3
<1>5. Judging(rules, u) = CHOOSE f : P(f)
    BY DEF Judging
<1>6. P(CHOOSE f : P(f))
  <2> HIDE DEF P
  <2> QED
      BY <1>4, Zenon
<1> QED
    BY <1>5, <1>6

\* Agents a line may name, the lines that are rules, what a group is and what
\* the reading keeps.
LineAgents == {"us", "*", "other"}
RuleKinds  == [key : {"allow", "disallow"}, covers : SUBSET Urls, length : Nat]
Groups     == [agents : SUBSET LineAgents, rules : Seq(RuleKinds)]
ReadStates      == [groups : Seq(Groups), agents : SUBSET LineAgents, rules : Seq(RuleKinds)]

\* Who has which rule: in the groups closed so far, in the open one, in the file.
Lists(s, x) == \E l \in 1..Len(s) : s[l] = x
GroupsSay(groups, A, rule) ==
    \E j \in 1..Len(groups) : A = groups[j].agents /\ Lists(groups[j].rules, rule)
FileSays(file, i, A, rule) ==
    \E k \in 1..i : IsRule(file, k) /\ A = Named(file, k) /\ A # {} /\ rule = file[k]

ReadsWell(file, i, r) ==
    /\ r \in ReadStates
    /\ r.agents = Named(file, i)
    /\ r.rules # <<>> <=> i # 0 /\ IsRule(file, i) /\ Named(file, i) # {}
    /\ \A A, rule : GroupsSay(r.groups, A, rule) \/ (A = r.agents /\ Lists(r.rules, rule))
                    <=> FileSays(file, i, A, rule)

LEMMA LineIs ==
    ASSUME NEW line \in FileLines
    PROVE  /\ line.key = "agent" => line.agent \in LineAgents
           /\ line.key # "agent" => line \in RuleKinds
BY DEF FileLines, LineAgents, RuleKinds

\* The agents a rule is for, line by line.
LEMMA NamedByRule ==
    ASSUME NEW file \in Seq(FileLines), NEW i \in 1..Len(file), IsRule(file, i)
    PROVE  Named(file, i) = Named(file, i - 1)
<1>1. ASSUME NEW k \in Heads(file, i) PROVE k \in Heads(file, i - 1)
  <2>1. k \in 1..(i - 1) /\ ~IsRule(file, k)
      BY <1>1 DEF Heads
  <2>2. ASSUME NEW j \in k..(i - 1), IsRule(file, j), NEW l \in j..(i - 1) PROVE IsRule(file, l)
    <3>1. j \in k..i /\ l \in j..i
        BY <2>1, <2>2
    <3> QED
        BY <1>1, <2>2, <3>1 DEF Heads
  <2> QED
      BY <2>1, <2>2 DEF Heads
<1>2. ASSUME NEW k \in Heads(file, i - 1) PROVE k \in Heads(file, i)
  <2>1. k \in 1..i /\ ~IsRule(file, k)
      BY <1>2 DEF Heads
  <2>2. ASSUME NEW j \in k..i, IsRule(file, j), NEW l \in j..i PROVE IsRule(file, l)
    <3>1. CASE l = i
        BY <3>1
    <3>2. CASE l # i
      <4>1. j \in k..(i - 1) /\ l \in j..(i - 1)
          BY <2>1, <2>2, <3>2
      <4> QED
          BY <1>2, <2>2, <4>1 DEF Heads
    <3> QED
        BY <3>1, <3>2
  <2> QED
      BY <2>1, <2>2 DEF Heads
<1>3. Heads(file, i) = Heads(file, i - 1)
    BY <1>1, <1>2
<1> QED
    BY <1>3 DEF Named

LEMMA NamedAnew ==
    ASSUME NEW file \in Seq(FileLines), NEW i \in 1..Len(file), ~IsRule(file, i),
           i = 1 \/ IsRule(file, i - 1)
    PROVE  Named(file, i) = {file[i].agent}
<1>1. ASSUME NEW k \in Heads(file, i), k # i PROVE FALSE
  <2>1. k \in 1..(i - 1) /\ i # 1
      BY <1>1 DEF Heads
  <2>2. i - 1 \in k..i /\ i \in (i - 1)..i /\ IsRule(file, i - 1)
      BY <2>1
  <2> QED
      BY <1>1, <2>2 DEF Heads
<1>2. i \in Heads(file, i)
  <2>1. \A j \in i..i : j = i
      OBVIOUS
  <2> QED
      BY <2>1 DEF Heads
<1>3. Heads(file, i) = {i}
    BY <1>1, <1>2
<1> QED
    BY <1>3 DEF Named

LEMMA NamedAlso ==
    ASSUME NEW file \in Seq(FileLines), NEW i \in 2..Len(file), ~IsRule(file, i),
           ~IsRule(file, i - 1)
    PROVE  Named(file, i) = Named(file, i - 1) \cup {file[i].agent}
<1>1. ASSUME NEW k \in Heads(file, i), k # i PROVE k \in Heads(file, i - 1)
  <2>1. k \in 1..(i - 1) /\ ~IsRule(file, k)
      BY <1>1 DEF Heads
  <2>2. ASSUME NEW j \in k..(i - 1), IsRule(file, j) PROVE FALSE
    <3>1. j \in k..i /\ i \in j..i
        BY <2>1, <2>2
    <3> QED
        BY <1>1, <2>2, <3>1 DEF Heads
  <2> QED
      BY <2>1, <2>2 DEF Heads
<1>2. ASSUME NEW k \in Heads(file, i - 1) PROVE k \in Heads(file, i)
  <2>1. k \in 1..i /\ k \in 1..(i - 1) /\ ~IsRule(file, k)
      BY <1>2 DEF Heads
  <2>2. ASSUME NEW j \in k..i, IsRule(file, j) PROVE FALSE
    <3>1. j # i
        BY <2>2
    <3>2. j \in k..(i - 1) /\ i - 1 \in j..(i - 1)
        BY <2>1, <2>2, <3>1
    <3> QED
        BY <1>2, <2>2, <3>2 DEF Heads
  <2> QED
      BY <2>1, <2>2 DEF Heads
<1>3. i \in Heads(file, i)
  <2>1. \A j \in i..i : j = i
      OBVIOUS
  <2> QED
      BY <2>1 DEF Heads
<1>4. Heads(file, i) = Heads(file, i - 1) \cup {i}
    BY <1>1, <1>2, <1>3
<1> QED
    BY <1>4 DEF Named

\* A list with one more thing holds that and what it held.
LEMMA AppendHolds ==
    ASSUME NEW S, NEW s \in Seq(S), NEW y \in S, NEW x
    PROVE  Lists(Append(s, y), x) <=> Lists(s, x) \/ x = y
<1>1. /\ Len(Append(s, y)) = Len(s) + 1 /\ Append(s, y)[Len(s) + 1] = y /\ Len(s) \in Nat
      /\ \A l \in 1..Len(s) : Append(s, y)[l] = s[l]
    OBVIOUS
<1>2. \A l \in 1..(Len(s) + 1) : l \in 1..Len(s) \/ l = Len(s) + 1
    BY <1>1
<1>3. Len(s) + 1 \in 1..(Len(s) + 1) /\ \A l \in 1..Len(s) : l \in 1..(Len(s) + 1)
    BY <1>1
<1> QED
    BY <1>1, <1>2, <1>3 DEF Lists

LEMMA AppendSays ==
    ASSUME NEW groups \in Seq(Groups), NEW g \in Groups, NEW A, NEW rule
    PROVE  GroupsSay(Append(groups, g), A, rule)
           <=> GroupsSay(groups, A, rule) \/ (A = g.agents /\ Lists(g.rules, rule))
<1>1. /\ Len(Append(groups, g)) = Len(groups) + 1 /\ Append(groups, g)[Len(groups) + 1] = g
      /\ Len(groups) \in Nat
      /\ \A l \in 1..Len(groups) : Append(groups, g)[l] = groups[l]
    OBVIOUS
<1>2. \A l \in 1..(Len(groups) + 1) : l \in 1..Len(groups) \/ l = Len(groups) + 1
    BY <1>1
<1>3. /\ Len(groups) + 1 \in 1..(Len(groups) + 1)
      /\ \A l \in 1..Len(groups) : l \in 1..(Len(groups) + 1)
    BY <1>1
<1> QED
    BY <1>1, <1>2, <1>3 DEF GroupsSay

LEMMA NothingHeld ==
    ASSUME NEW x
    PROVE  ~Lists(<<>>, x)
BY DEF Lists

\* One line more is read as the book has it.
LEMMA FileSaysMore ==
    ASSUME NEW file, NEW i \in Nat \ {0}, NEW A, NEW rule
    PROVE  FileSays(file, i, A, rule)
           <=> \/ FileSays(file, i - 1, A, rule)
               \/ IsRule(file, i) /\ A = Named(file, i) /\ A # {} /\ rule = file[i]
<1>1. \A k \in 1..i : k \in 1..(i - 1) \/ k = i
    OBVIOUS
<1>2. i \in 1..i /\ \A k \in 1..(i - 1) : k \in 1..i
    OBVIOUS
<1> QED
    BY <1>1, <1>2 DEF FileSays

LEMMA ReadsOneMore ==
    ASSUME NEW file \in Seq(FileLines), NEW i \in 1..Len(file), NEW r,
           ReadsWell(file, i - 1, r)
    PROVE  ReadsWell(file, i, ReadLine(r, file[i]))
<1> DEFINE line == file[i]
           n == ReadLine(r, line)
<1> SUFFICES ReadsWell(file, i, n)
    OBVIOUS
<1>0. /\ line \in FileLines /\ i \in Nat \ {0} /\ i - 1 \in Nat
      /\ r \in ReadStates /\ r.agents = Named(file, i - 1)
      /\ r.groups \in Seq(Groups) /\ r.agents \in SUBSET LineAgents /\ r.rules \in Seq(RuleKinds)
      /\ r = [groups |-> r.groups, agents |-> r.agents, rules |-> r.rules]
    BY DEF ReadsWell, ReadStates
<1>1. /\ r.rules # <<>> <=> i - 1 # 0 /\ IsRule(file, i - 1) /\ Named(file, i - 1) # {}
      /\ \A A, rule : GroupsSay(r.groups, A, rule) \/ (A = r.agents /\ Lists(r.rules, rule))
                      <=> FileSays(file, i - 1, A, rule)
    BY DEF ReadsWell
<1>2. CASE line.key = "agent"
  <2>1. ~IsRule(file, i) /\ line.agent \in LineAgents
      BY <1>0, <1>2, LineIs DEF IsRule
  <2>2. \A A, rule : FileSays(file, i, A, rule) <=> FileSays(file, i - 1, A, rule)
      BY <1>0, <2>1, FileSaysMore
  <2>3. CASE r.agents # {} /\ r.rules # <<>>
    <3> DEFINE g == [agents |-> r.agents, rules |-> r.rules]
    <3>1. n = [groups |-> Append(r.groups, g), agents |-> {line.agent}, rules |-> <<>>]
        BY <1>2, <2>3 DEF ReadLine
    <3>2. g \in Groups /\ Append(r.groups, g) \in Seq(Groups)
      <4>1. g \in Groups
          BY <1>0 DEF Groups
      <4> HIDE DEF g
      <4> QED
          BY <1>0, <4>1
    <3>3. n \in ReadStates
        BY <3>1, <3>2, <2>1 DEF ReadStates
    <3>4. n.agents = Named(file, i)
      <4>1. IsRule(file, i - 1)
          BY <1>1, <2>3
      <4> QED
          BY <2>1, <3>1, <4>1, NamedAnew
    <3>5. \A A, rule : GroupsSay(n.groups, A, rule) \/ (A = n.agents /\ Lists(n.rules, rule))
                       <=> FileSays(file, i, A, rule)
      <4> TAKE A, rule
      <4>1. n.groups = Append(r.groups, g) /\ n.rules = <<>>
          BY <3>1
      <4>2. g.agents = r.agents /\ g.rules = r.rules
          OBVIOUS
      <4>3. GroupsSay(n.groups, A, rule)
            <=> GroupsSay(r.groups, A, rule) \/ (A = g.agents /\ Lists(g.rules, rule))
        <5> HIDE DEF g, n
        <5> QED
            BY <1>0, <3>2, <4>1, AppendSays
      <4>4. ~Lists(n.rules, rule)
          BY <4>1, NothingHeld
      <4> HIDE DEF g, n
      <4> QED
          BY <1>1, <2>2, <4>2, <4>3, <4>4
    <3>6. n.rules = <<>>
        BY <3>1
    <3> HIDE DEF n
    <3> QED
        BY <2>1, <3>3, <3>4, <3>5, <3>6 DEF ReadsWell
  <2>4. CASE ~(r.agents # {} /\ r.rules # <<>>)
    <3>1. r.rules = <<>>
        BY <1>0, <1>1, <2>4
    <3>2. n = [groups |-> r.groups, agents |-> r.agents \cup {line.agent}, rules |-> <<>>]
        BY <1>0, <1>2, <2>4, <3>1 DEF ReadLine
    <3>3. n \in ReadStates
        BY <1>0, <2>1, <3>2 DEF ReadStates
    <3>4. n.agents = Named(file, i)
      <4>1. CASE i = 1
        <5>1. Named(file, 0) = {}
            BY DEF Named, Heads
        <5>2. r.agents = {}
            BY <1>0, <4>1, <5>1
        <5> QED
            BY <2>1, <3>2, <4>1, <5>2, NamedAnew
      <4>2. CASE i # 1 /\ IsRule(file, i - 1)
        <5>1. r.agents = {}
            BY <1>0, <1>1, <3>1, <4>2
        <5> QED
            BY <2>1, <3>2, <4>2, <5>1, NamedAnew
      <4>3. CASE i # 1 /\ ~IsRule(file, i - 1)
        <5>1. i \in 2..Len(file)
            BY <4>3
        <5> QED
            BY <1>0, <2>1, <3>2, <4>3, <5>1, NamedAlso
      <4> QED
          BY <4>1, <4>2, <4>3
    <3>5. \A A, rule : GroupsSay(n.groups, A, rule) \/ (A = n.agents /\ Lists(n.rules, rule))
                       <=> FileSays(file, i, A, rule)
      <4> TAKE A, rule
      <4>1. n.groups = r.groups /\ n.rules = <<>>
          BY <3>2
      <4>2. ~Lists(n.rules, rule) /\ ~Lists(r.rules, rule)
          BY <3>1, <4>1, NothingHeld
      <4> HIDE DEF n
      <4> QED
          BY <1>1, <2>2, <4>1, <4>2
    <3>6. n.rules = <<>>
        BY <3>2
    <3> HIDE DEF n
    <3> QED
        BY <2>1, <3>3, <3>4, <3>5, <3>6 DEF ReadsWell
  <2> QED
      BY <2>3, <2>4
<1>3. CASE line.key # "agent"
  <2>1. IsRule(file, i) /\ line \in RuleKinds
      BY <1>0, <1>3, LineIs DEF IsRule
  <2>2. Named(file, i) = r.agents
      BY <1>0, <2>1, NamedByRule
  <2>3. CASE r.agents # {}
    <3>1. n = [groups |-> r.groups, agents |-> r.agents, rules |-> Append(r.rules, line)]
        BY <1>0, <1>3, <2>3 DEF ReadLine
    <3>2. Append(r.rules, line) \in Seq(RuleKinds) /\ Append(r.rules, line) # <<>>
        BY <1>0, <2>1, SMTT(60)
    <3>3. n \in ReadStates
        BY <1>0, <3>1, <3>2 DEF ReadStates
    <3>4. n.agents = Named(file, i) /\ n.rules # <<>>
        BY <2>2, <3>1, <3>2
    <3>5. \A A, rule : GroupsSay(n.groups, A, rule) \/ (A = n.agents /\ Lists(n.rules, rule))
                       <=> FileSays(file, i, A, rule)
      <4> TAKE A, rule
      <4>1. n.groups = r.groups /\ n.rules = Append(r.rules, line) /\ n.agents = r.agents
          BY <3>1
      <4>2. Lists(n.rules, rule) <=> Lists(r.rules, rule) \/ rule = line
        <5> HIDE DEF line, n
        <5> QED
            BY <1>0, <2>1, <4>1, AppendHolds
      <4>3. FileSays(file, i, A, rule)
            <=> FileSays(file, i - 1, A, rule) \/ (A = r.agents /\ A # {} /\ rule = line)
          BY <1>0, <2>1, <2>2, FileSaysMore
      <4> HIDE DEF n, line
      <4> QED
          BY <1>1, <2>3, <4>1, <4>2, <4>3
    <3> HIDE DEF n
    <3> QED
        BY <1>0, <2>1, <2>2, <2>3, <3>3, <3>4, <3>5 DEF ReadsWell
  <2>4. CASE r.agents = {}
    <3>1. n = r
        BY <1>3, <2>4 DEF ReadLine
    <3>2. r.rules = <<>>
        BY <1>0, <1>1, <2>4
    <3>3. \A A, rule : FileSays(file, i, A, rule) <=> FileSays(file, i - 1, A, rule)
        BY <1>0, <2>2, <2>4, FileSaysMore
    <3> HIDE DEF n
    <3> QED
        BY <1>0, <1>1, <2>2, <2>4, <3>1, <3>2, <3>3 DEF ReadsWell
  <2> QED
      BY <2>3, <2>4
<1> QED
    BY <1>2, <1>3

\* A file read to its end says what the book has it say.
LEMMA ReadWell ==
    ASSUME NEW file \in Seq(FileLines)
    PROVE  ReadsWell(file, Len(file), Reading(file)[Len(file)])
<1> DEFINE T == {i \in 0..Len(file) : ReadsWell(file, i, Reading(file)[i])}
<1>0. Len(file) \in Nat
    OBVIOUS
<1>1. Reading(file) = [i \in 0..Len(file) |->
               IF i = 0 THEN Unread ELSE ReadLine(Reading(file)[i - 1], file[i])]
    BY <1>0, ReadingIs
<1>2. 0 \in T
  <2>1. Reading(file)[0] = Unread
      BY <1>0, <1>1
  <2>2. Unread \in ReadStates /\ Unread.agents = {} /\ Unread.rules = <<>> /\ Unread.groups = <<>>
      BY DEF Unread, ReadStates
  <2>3. Named(file, 0) = {}
      BY DEF Named, Heads
  <2>4. \A A, rule : ~GroupsSay(<<>>, A, rule) /\ ~Lists(<<>>, rule) /\ ~FileSays(file, 0, A, rule)
      BY DEF GroupsSay, Lists, FileSays
  <2>5. ReadsWell(file, 0, Unread)
      BY <2>2, <2>3, <2>4 DEF ReadsWell
  <2> QED
      BY <1>0, <2>1, <2>5
<1>3. ASSUME NEW i \in 1..Len(file), i - 1 \in T PROVE i \in T
  <2>1. Reading(file)[i] = ReadLine(Reading(file)[i - 1], file[i])
      BY <1>0, <1>1
  <2>2. ReadsWell(file, i, ReadLine(Reading(file)[i - 1], file[i]))
      BY <1>3, ReadsOneMore
  <2> QED
      BY <2>1, <2>2
<1>4. 0..Len(file) \subseteq T
  <2> HIDE DEF T
  <2> QED
      BY <1>0, <1>2, <1>3, StepByStep
<1>5. Len(file) \in 0..Len(file)
    BY <1>0
<1> QED
    BY <1>4, <1>5

\* Two lists, one after the other, hold what either holds.
LEMMA JoinHolds ==
    ASSUME NEW S, NEW s \in Seq(S), NEW t \in Seq(S), NEW x
    PROVE  Lists(s \o t, x) <=> Lists(s, x) \/ Lists(t, x)
<1>1. /\ Len(s) \in Nat /\ Len(t) \in Nat /\ Len(s \o t) = Len(s) + Len(t)
      /\ \A l \in 1..Len(s) : (s \o t)[l] = s[l]
      /\ \A l \in 1..Len(t) : (s \o t)[Len(s) + l] = t[l]
    OBVIOUS
<1>2. ASSUME Lists(s \o t, x) PROVE Lists(s, x) \/ Lists(t, x)
  <2>1. PICK l \in 1..(Len(s) + Len(t)) : (s \o t)[l] = x
      BY <1>1, <1>2 DEF Lists
  <2>2. CASE l \in 1..Len(s)
      BY <1>1, <2>1, <2>2 DEF Lists
  <2>3. CASE l \notin 1..Len(s)
    <3>1. PICK d \in 1..Len(t) : l = Len(s) + d
      <4>1. l - Len(s) \in 1..Len(t) /\ l = Len(s) + (l - Len(s))
          BY <1>1, <2>1, <2>3
      <4> QED
          BY <4>1
    <3> QED
        BY <1>1, <2>1, <3>1 DEF Lists
  <2> QED
      BY <2>2, <2>3
<1>3. ASSUME Lists(s, x) PROVE Lists(s \o t, x)
  <2>1. PICK l \in 1..Len(s) : s[l] = x
      BY <1>3 DEF Lists
  <2>2. l \in 1..Len(s \o t) /\ (s \o t)[l] = x
      BY <1>1, <2>1
  <2> QED
      BY <2>2 DEF Lists
<1>4. ASSUME Lists(t, x) PROVE Lists(s \o t, x)
  <2>1. PICK l \in 1..Len(t) : t[l] = x
      BY <1>4 DEF Lists
  <2>2. Len(s) + l \in 1..Len(s \o t) /\ (s \o t)[Len(s) + l] = x
      BY <1>1, <2>1
  <2> QED
      BY <2>2 DEF Lists
<1> QED
    BY <1>2, <1>3, <1>4

\* The rules collected for who are those of the groups that are for who.
CollectsWell(groups, who, i, c) ==
    /\ c \in Seq(RuleKinds)
    /\ \A rule : Lists(c, rule)
                 <=> \E j \in 1..i : IsFor(groups[j].agents, who) /\ Lists(groups[j].rules, rule)

LEMMA CollectedWell ==
    ASSUME NEW groups \in Seq(Groups), NEW who
    PROVE  CollectsWell(groups, who, Len(groups), RulesOf(groups, who))
<1> DEFINE T == {i \in 0..Len(groups) :
                    CollectsWell(groups, who, i, Collecting(groups, who)[i])}
<1>0. Len(groups) \in Nat
    OBVIOUS
<1>1. Collecting(groups, who) = [i \in 0..Len(groups) |->
          IF i = 0 THEN <<>> ELSE Collected(Collecting(groups, who)[i - 1], groups[i], who)]
    BY <1>0, CollectingIs
<1>2. 0 \in T
  <2>1. Collecting(groups, who)[0] = <<>>
      BY <1>0, <1>1
  <2>2. CollectsWell(groups, who, 0, <<>>)
      BY NothingHeld DEF CollectsWell
  <2> QED
      BY <1>0, <2>1, <2>2
<1>3. ASSUME NEW i \in 1..Len(groups), i - 1 \in T PROVE i \in T
  <2>1. PICK c : c = Collecting(groups, who)[i - 1]
      OBVIOUS
  <2>2. PICK g : g = groups[i]
      OBVIOUS
  <2>3. PICK d : d = Collected(c, g, who)
      OBVIOUS
  <2>4. Collecting(groups, who)[i] = d
      BY <1>0, <1>1, <2>1, <2>2, <2>3
  <2>5. g \in Groups /\ g.rules \in Seq(RuleKinds)
    <3>1. groups[i] \in Groups
        OBVIOUS
    <3> QED
        BY <2>2, <3>1 DEF Groups
  <2>6. /\ c \in Seq(RuleKinds)
        /\ \A rule : Lists(c, rule)
              <=> \E j \in 1..(i - 1) : IsFor(groups[j].agents, who) /\ Lists(groups[j].rules, rule)
      BY <1>3, <2>1 DEF CollectsWell
  <2>7. d \in Seq(RuleKinds)
      BY <2>3, <2>5, <2>6 DEF Collected
  <2>8. \A rule : Lists(d, rule) <=> Lists(c, rule) \/ (IsFor(g.agents, who) /\ Lists(g.rules, rule))
    <3>1. CASE IsFor(g.agents, who)
      <4>1. d = c \o g.rules
          BY <2>3, <3>1 DEF Collected
      <4> QED
          BY <2>5, <2>6, <3>1, <4>1, JoinHolds
    <3>2. CASE ~IsFor(g.agents, who)
      <4>1. d = c
          BY <2>3, <3>2 DEF Collected
      <4> QED
          BY <3>2, <4>1
    <3> QED
        BY <3>1, <3>2
  <2>9. i \in 1..i /\ (\A j \in 1..i : j = i \/ j \in 1..(i - 1)) /\ (\A j \in 1..(i - 1) : j \in 1..i)
      BY <1>0
  <2>10. \A rule : Lists(d, rule)
            <=> \E j \in 1..i : IsFor(groups[j].agents, who) /\ Lists(groups[j].rules, rule)
      BY <2>2, <2>6, <2>8, <2>9
  <2>11. CollectsWell(groups, who, i, d)
      BY <2>7, <2>10 DEF CollectsWell
  <2>12. i \in 0..Len(groups)
      BY <1>0
  <2> QED
      BY <2>4, <2>11, <2>12
<1>4. 0..Len(groups) \subseteq T
  <2> HIDE DEF T
  <2> QED
      BY <1>0, <1>2, <1>3, StepByStep
<1>5. Len(groups) \in 0..Len(groups)
    BY <1>0
<1> QED
    BY <1>4, <1>5 DEF RulesOf

\* The rules of a file for who, by the book and as they are read.
LEMMA RulesAsWritten ==
    ASSUME NEW file \in Seq(FileLines), NEW who
    PROVE  /\ RulesOf(GroupsOf(file), who) \in Seq(RuleKinds)
           /\ \A rule : Lists(RulesOf(GroupsOf(file), who), rule)
                  <=> \E k \in 1..Len(file) : /\ IsRule(file, k) /\ IsFor(Named(file, k), who)
                                              /\ rule = file[k]
<1>1. PICK r : r = Reading(file)[Len(file)]
    OBVIOUS
<1>2. ReadsWell(file, Len(file), r)
    BY <1>1, ReadWell
<1>3. PICK g : g = [agents |-> r.agents, rules |-> r.rules]
    OBVIOUS
<1>4. PICK groups : groups = GroupsOf(file)
    OBVIOUS
<1>5. groups = Append(r.groups, g)
    BY <1>1, <1>3, <1>4 DEF GroupsOf
<1>6. r.groups \in Seq(Groups) /\ g \in Groups
    BY <1>2, <1>3 DEF ReadsWell, ReadStates, Groups
<1>7. groups \in Seq(Groups)
    BY <1>5, <1>6
<1>8. \A A, rule : GroupsSay(groups, A, rule) <=> FileSays(file, Len(file), A, rule)
  <2> TAKE A, rule
  <2>1. GroupsSay(groups, A, rule)
        <=> GroupsSay(r.groups, A, rule) \/ (A = g.agents /\ Lists(g.rules, rule))
      BY <1>5, <1>6, AppendSays
  <2>2. g.agents = r.agents /\ g.rules = r.rules
      BY <1>3
  <2> QED
      BY <1>2, <2>1, <2>2 DEF ReadsWell
<1>9. CollectsWell(groups, who, Len(groups), RulesOf(groups, who))
    BY <1>7, CollectedWell
<1>10. \A rule : Lists(RulesOf(groups, who), rule)
          <=> \E A : IsFor(A, who) /\ GroupsSay(groups, A, rule)
    BY <1>9 DEF CollectsWell, GroupsSay
<1>11. \A A : IsFor(A, who) => A # {}
    BY DEF IsFor
<1>12. \A rule : (\E A : IsFor(A, who) /\ FileSays(file, Len(file), A, rule))
          <=> \E k \in 1..Len(file) : IsRule(file, k) /\ IsFor(Named(file, k), who) /\ rule = file[k]
    BY <1>11 DEF FileSays
<1> QED
    BY <1>4, <1>8, <1>9, <1>10, <1>12 DEF CollectsWell

LEMMA RulesByTheBook ==
    ASSUME NEW file \in Seq(FileLines)
    PROVE  /\ RulesFor(file) \in Seq(RuleKinds)
           /\ \A rule : Lists(RulesFor(file), rule) <=> rule \in Ruling(file)
<1>1. PICK ours : ours = RulesOf(GroupsOf(file), "us")
    OBVIOUS
<1>2. PICK all : all = RulesOf(GroupsOf(file), "*")
    OBVIOUS
<1>3. DOMAIN file = 1..Len(file)
    OBVIOUS
<1>4. \A A : /\ IsFor(A, "us") <=> "us" \in A
             /\ IsFor(A, "*") <=> "*" \in A /\ "us" \notin A
    BY DEF IsFor
<1>5. /\ ours \in Seq(RuleKinds)
      /\ \A rule : Lists(ours, rule) <=> \E k \in RuleLines(file, "us") : rule = file[k]
    BY <1>1, <1>3, <1>4, RulesAsWritten DEF RuleLines
<1>6. /\ all \in Seq(RuleKinds)
      /\ \A rule : Lists(all, rule)
            <=> \E k \in RuleLines(file, "*") : rule = file[k] /\ k \notin RuleLines(file, "us")
    BY <1>2, <1>3, <1>4, RulesAsWritten DEF RuleLines
<1>7. CASE ours # <<>>
  <2>1. Lists(ours, ours[1])
    <3>1. Len(ours) \in Nat /\ Len(ours) # 0
        BY <1>5, <1>7
    <3> QED
        BY <3>1 DEF Lists
  <2>2. RuleLines(file, "us") # {}
      BY <1>5, <2>1
  <2>3. RulesFor(file) = ours
      BY <1>1, <1>7 DEF RulesFor
  <2> QED
      BY <1>5, <2>2, <2>3 DEF Ruling
<1>8. CASE ours = <<>>
  <2>1. RuleLines(file, "us") = {}
      BY <1>5, <1>8, NothingHeld
  <2>2. RulesFor(file) = all
      BY <1>1, <1>2, <1>8 DEF RulesFor
  <2> QED
      BY <1>6, <2>1, <2>2 DEF Ruling
<1> QED
    BY <1>7, <1>8

\* The best rule of those judged so far.
JudgesWell(rules, u, i, b) ==
    \/ b.key = "none" /\ \A l \in 1..i : u \notin rules[l].covers
    \/ /\ b.key \in {"allow", "disallow"} /\ b.length \in Nat
       /\ \E l \in 1..i : u \in rules[l].covers /\ rules[l].key = b.key /\ rules[l].length = b.length
       /\ \A l \in 1..i : u \in rules[l].covers =>
             /\ rules[l].length <= b.length
             /\ rules[l].length = b.length /\ rules[l].key = "allow" => b.key = "allow"

LEMMA JudgesOneMore ==
    ASSUME NEW rules \in Seq(RuleKinds), NEW u, NEW i \in 1..Len(rules), NEW b,
           JudgesWell(rules, u, i - 1, b)
    PROVE  JudgesWell(rules, u, i, Better(b, rules[i], u))
<1>1. PICK rule : rule = rules[i]
    OBVIOUS
<1>2. /\ rule \in RuleKinds /\ rule.key \in {"allow", "disallow"} /\ rule.length \in Nat
      /\ \A l \in 1..i : rules[l].length \in Nat
  <2>1. i \in 1..i /\ \A l \in 1..i : rules[l] \in RuleKinds
      OBVIOUS
  <2> QED
      BY <1>1, <2>1 DEF RuleKinds
<1>3. i \in 1..i /\ (\A l \in 1..i : l = i \/ l \in 1..(i - 1)) /\ (\A l \in 1..(i - 1) : l \in 1..i)
    OBVIOUS
<1>4. PICK n : n = Better(b, rule, u)
    OBVIOUS
<1>5. SUFFICES JudgesWell(rules, u, i, n)
    BY <1>1, <1>4
<1>6. CASE u \notin rule.covers
  <2>1. n = b
      BY <1>4, <1>6 DEF Better
  <2> QED
      BY <1>1, <1>3, <1>6, <2>1 DEF JudgesWell
<1>7. CASE u \in rule.covers /\ b.key = "none"
  <2>1. n.key = rule.key /\ n.length = rule.length
      BY <1>4, <1>7 DEF Better
  <2>2. \A l \in 1..(i - 1) : u \notin rules[l].covers
      BY <1>7 DEF JudgesWell
  <2> QED
      BY <1>1, <1>2, <1>3, <1>7, <2>1, <2>2 DEF JudgesWell
<1>8. CASE u \in rule.covers /\ b.key # "none"
  <2>1. /\ b.key \in {"allow", "disallow"} /\ b.length \in Nat
        /\ \E l \in 1..(i - 1) :
               u \in rules[l].covers /\ rules[l].key = b.key /\ rules[l].length = b.length
        /\ \A l \in 1..(i - 1) : u \in rules[l].covers =>
              /\ rules[l].length <= b.length
              /\ rules[l].length = b.length /\ rules[l].key = "allow" => b.key = "allow"
      BY <1>8 DEF JudgesWell
  <2>2. CASE rule.length > b.length \/ (rule.length = b.length /\ rule.key = "allow")
    <3>1. n.key = rule.key /\ n.length = rule.length
        BY <1>4, <1>8, <2>2 DEF Better
    <3>2. \A l \in 1..(i - 1) : u \in rules[l].covers =>
              /\ rules[l].length <= n.length
              /\ rules[l].length = n.length /\ rules[l].key = "allow" => n.key = "allow"
        BY <1>2, <1>3, <2>1, <2>2, <3>1
    <3> QED
        BY <1>1, <1>2, <1>3, <1>8, <3>1, <3>2 DEF JudgesWell
  <2>3. CASE ~(rule.length > b.length \/ (rule.length = b.length /\ rule.key = "allow"))
    <3>1. n = b
        BY <1>4, <1>8, <2>3 DEF Better
    <3>2. rule.length <= b.length /\ ~(rule.length = b.length /\ rule.key = "allow")
        BY <1>2, <2>1, <2>3
    <3> QED
        BY <1>1, <1>3, <2>1, <3>1, <3>2 DEF JudgesWell
  <2> QED
      BY <2>2, <2>3
<1> QED
    BY <1>6, <1>7, <1>8

LEMMA JudgedWell ==
    ASSUME NEW rules \in Seq(RuleKinds), NEW u
    PROVE  JudgesWell(rules, u, Len(rules), Judging(rules, u)[Len(rules)])
<1> DEFINE T == {i \in 0..Len(rules) : JudgesWell(rules, u, i, Judging(rules, u)[i])}
<1>0. Len(rules) \in Nat
    OBVIOUS
<1>1. Judging(rules, u) = [i \in 0..Len(rules) |->
          IF i = 0 THEN NoBest ELSE Better(Judging(rules, u)[i - 1], rules[i], u)]
    BY <1>0, JudgingIs
<1>2. 0 \in T
  <2>1. Judging(rules, u)[0] = NoBest
      BY <1>0, <1>1
  <2>2. JudgesWell(rules, u, 0, NoBest)
      BY DEF JudgesWell, NoBest
  <2> QED
      BY <1>0, <2>1, <2>2
<1>3. ASSUME NEW i \in 1..Len(rules), i - 1 \in T PROVE i \in T
  <2>1. Judging(rules, u)[i] = Better(Judging(rules, u)[i - 1], rules[i], u)
      BY <1>0, <1>1
  <2>2. JudgesWell(rules, u, i, Better(Judging(rules, u)[i - 1], rules[i], u))
      BY <1>3, JudgesOneMore
  <2> QED
      BY <2>1, <2>2
<1>4. 0..Len(rules) \subseteq T
  <2> HIDE DEF T
  <2> QED
      BY <1>0, <1>2, <1>3, StepByStep
<1>5. Len(rules) \in 0..Len(rules)
    BY <1>0
<1> QED
    BY <1>4, <1>5

\* What a file's reading comes to is what the file says by the book.
LEMMA ReadAsWritten ==
    ASSUME NEW file \in Seq(FileLines), NEW u
    PROVE  Allows(file, u) <=> Permits(file, u)
<1>1. PICK rules : rules = RulesFor(file)
    OBVIOUS
<1>2. PICK b : b = Judging(rules, u)[Len(rules)]
    OBVIOUS
<1>3. /\ rules \in Seq(RuleKinds)
      /\ \A rule : Lists(rules, rule) <=> rule \in Ruling(file)
    BY <1>1, RulesByTheBook
<1>4. JudgesWell(rules, u, Len(rules), b)
    BY <1>2, <1>3, JudgedWell
<1>5. Allows(file, u) <=> b.key # "disallow"
    BY <1>1, <1>2 DEF Allows
<1>6. \A l \in 1..Len(rules) : rules[l].length \in Nat /\ rules[l] \in Ruling(file)
  <2>1. \A l \in 1..Len(rules) : rules[l] \in RuleKinds
      BY <1>3
  <2>2. \A l \in 1..Len(rules) : Lists(rules, rules[l])
      BY DEF Lists
  <2> QED
      BY <1>3, <2>1, <2>2 DEF RuleKinds
<1>7. \A rule \in Ruling(file) : \E l \in 1..Len(rules) : rules[l] = rule
    BY <1>3 DEF Lists
<1>8. CASE b.key = "disallow"
  <2>1. PICK l \in 1..Len(rules) :
            u \in rules[l].covers /\ rules[l].key = "disallow" /\ rules[l].length = b.length
      BY <1>4, <1>8 DEF JudgesWell
  <2>2. b.length \in Nat /\ \A k \in 1..Len(rules) : u \in rules[k].covers =>
             /\ rules[k].length <= b.length
             /\ ~(rules[k].length = b.length /\ rules[k].key = "allow")
      BY <1>4, <1>8 DEF JudgesWell
  <2>3. \A k \in 1..Len(rules) : ~ (/\ rules[k].key = "allow" /\ u \in rules[k].covers
                                    /\ rules[k].length >= rules[l].length)
      BY <1>6, <2>1, <2>2
  <2>4. \A yes \in Ruling(file) : ~ (/\ yes.key = "allow" /\ u \in yes.covers
                                     /\ yes.length >= rules[l].length)
      BY <1>7, <2>3
  <2>5. rules[l] \in Ruling(file)
      BY <1>6
  <2>6. ~Permits(file, u)
      BY <2>1, <2>4, <2>5 DEF Permits
  <2> QED
      BY <1>5, <1>8, <2>6
<1>9. CASE b.key # "disallow"
  <2>1. ASSUME NEW no \in Ruling(file), no.key = "disallow", u \in no.covers
        PROVE  \E yes \in Ruling(file) :
                   yes.key = "allow" /\ u \in yes.covers /\ yes.length >= no.length
    <3>1. PICK k \in 1..Len(rules) : rules[k] = no
        BY <1>7
    <3>2. b.key = "allow" /\ b.length \in Nat /\ rules[k].length <= b.length
        BY <1>4, <1>9, <2>1, <3>1 DEF JudgesWell
    <3>3. PICK l \in 1..Len(rules) :
              u \in rules[l].covers /\ rules[l].key = "allow" /\ rules[l].length = b.length
        BY <1>4, <1>9, <2>1, <3>1 DEF JudgesWell
    <3>4. rules[l] \in Ruling(file) /\ rules[l].length >= no.length
        BY <1>6, <3>1, <3>2, <3>3
    <3> QED
        BY <3>3, <3>4
  <2> QED
      BY <1>5, <1>9, <2>1 DEF Permits
<1> QED
    BY <1>8, <1>9

LEMMA FilesAsWritten ==
    ASSUME NEW file \in Files \cup BookFiles \cup {NoFile}, NEW u
    PROVE  Allows(file, u) <=> Permits(file, u)
<1>1. file \in Seq(FileLines)
  <2>1. NoFile \in Seq(FileLines)
      BY DEF NoFile
  <2> QED
      BY <2>1, CrawlAssumption
<1> QED
    BY <1>1, ReadAsWritten

-----------------------------------------------------------------------------
(* Crawl: the scan *)

SiteJobs   == [url : Urls, data : BOOLEAN]
Careers    == {"none", "careers", "social", "board"}
CrawlKinds == [for : {"none", "find", "scan", "detail"},
               at : {"rest", "robots", "page", "details", "store"},
               url : Urls, hops : 0..MaxHops, job : Urls,
               todo : SUBSET SiteJobs, found : SUBSET SiteJobs, pages : 0..MaxPages,
               trouble : BOOLEAN, fresh : Nat, known : Nat]
RunStates  == {"none", "running", "missing", "restricted", "completed",
               "completed_with_errors", "blocked_by_robots", "unavailable", "failed"}

CrwTyped ==
    /\ career \in Careers /\ filtered \in BOOLEAN /\ rows \subseteq Urls
    /\ crawl \in CrawlKinds
    /\ run \in [status : RunStates, pages : 0..MaxPages, found : Nat]
    /\ heard \in [url : Urls, file : Files \cup {NoFile}]
    /\ shown \subseteq SiteJobs /\ swapped \subseteq SiteJobs
    /\ before \subseteq rows /\ scans \in 0..MaxScans

Scanning == crawl.for \in {"scan", "detail"}

\* Where the work can be, by what it is for.
CrwPlace ==
    /\ crawl.for = "none" => crawl = NoCrawl
    /\ crawl.for = "find" => crawl.at \in {"robots", "page"}
    /\ Scanning => crawl.at # "rest" /\ run.status = "running"
    /\ crawl.for = "scan" /\ crawl.at \in {"robots", "page"} => shown = {} /\ crawl.pages = 0
    /\ crawl.for = "detail" /\ crawl.at \in {"robots", "page"} => crawl.pages < MaxPages

\* Until it stores them, a scan has every job it was shown, and no row of its own.
CrwCollects ==
    Scanning /\ crawl.at # "store" =>
        /\ rows = before /\ crawl.fresh = 0 /\ crawl.known = 0
        /\ shown \ swapped \subseteq crawl.found \cup crawl.todo

CrwStores ==
    Scanning /\ crawl.at = "store" =>
        /\ crawl.fresh = Cardinality(rows \ before)
        /\ \A job \in shown \ swapped : Passes(job) => job \in crawl.todo \/ job.url \in rows

CrwInv == CrwTyped /\ CrwPlace /\ CrwCollects /\ CrwStores /\ RobotsObeyed /\ FoundIsKept

\* What a page shows are jobs.
LEMMA JobsOfPages ==
    ASSUME NEW u, NEW c \in Contents, NEW adapter
    PROVE  Extracted(u, c, adapter) \subseteq SiteJobs
<1>1. /\ c.postings \subseteq Urls /\ c.feed \subseteq Urls /\ c.links \subseteq Urls
    BY CrawlAssumption
<1>2. \A S \in SUBSET Urls, data \in BOOLEAN : JobsAt(S, data) \subseteq SiteJobs
    BY DEF JobsAt, JobAt, SiteJobs
<1>3. FromBoard(c, adapter) \subseteq SiteJobs
    BY <1>1, <1>2 DEF FromBoard, FeedOnly, FeedOrLinks
<1>4. FromSite(c) \subseteq SiteJobs
  <2>1. SitePostings(c) \subseteq Urls
      BY <1>1 DEF SitePostings
  <2>2. {u2 \in c.links : ~Restricted(u2)} \ SitePostings(c) \subseteq Urls
      BY <1>1
  <2> QED
      BY <1>2, <2>1, <2>2 DEF FromSite
<1> QED
    BY <1>3, <1>4 DEF Extracted

\* The bounds and the addresses the work begins with.
LEMMA CrawlBounds ==
    /\ MaxPages \in Nat /\ 1 <= MaxPages /\ MaxHops \in Nat /\ MaxScans \in Nat
    /\ {"home", "careers", "board", "social"} \subseteq Urls /\ NoCrawl \in CrawlKinds
<1>1. MaxPages \in Nat /\ 1 <= MaxPages /\ MaxHops \in Nat /\ MaxScans \in Nat
    BY CrawlAssumption
<1> QED
    BY <1>1 DEF Urls, NoCrawl, CrawlKinds

LEMMA InitCrawl == CrwInit => CrwInv
<1> SUFFICES ASSUME CrwInit PROVE CrwInv
    OBVIOUS
<1>1. CrwTyped
    BY CrawlBounds DEF CrwInit, CrwTyped, Careers, NoRun, RunStates, SiteJobs
<1>2. crawl = NoCrawl /\ run.status = "none" /\ crawl.for = "none" /\ crawl.at = "rest"
    BY DEF CrwInit, NoCrawl, NoRun
<1> QED
    BY <1>1, <1>2 DEF CrwInv, CrwPlace, CrwCollects, CrwStores, RobotsObeyed, FoundIsKept, Scanning

\* The work is over, and nothing else has changed but the run.
LEMMA CrawlEnds ==
    ASSUME CrwInv, crawl' = NoCrawl, FoundIsKept',
           CrwTyped'
    PROVE  CrwInv'
<1>1. crawl'.for = "none" /\ crawl'.at = "rest"
    BY DEF NoCrawl
<1> QED
    BY <1>1 DEF CrwInv, CrwPlace, CrwCollects, CrwStores, RobotsObeyed, Scanning

\* What was kept of a completed scan stays kept.
LEMMA ScanKeptStays ==
    ASSUME FoundIsKept, UNCHANGED <<filtered, run, rows, shown, swapped, before>>
    PROVE  FoundIsKept'
<1>1. UNCHANGED filtered /\ UNCHANGED run /\ UNCHANGED rows /\ UNCHANGED shown
      /\ UNCHANGED swapped /\ UNCHANGED before
    OBVIOUS
<1> QED
    BY <1>1 DEF FoundIsKept, Passes

LEMMA KeptVoid ==
    ASSUME run'.status \notin {"completed", "completed_with_errors"}
    PROVE  FoundIsKept'
BY DEF FoundIsKept

LEMMA NextFindPage == CrwInv /\ FindPage => CrwInv'
<1> SUFFICES ASSUME CrwInv, FindPage PROVE CrwInv'
    OBVIOUS
<1>1. /\ crawl' = [NoCrawl EXCEPT !.for = "find", !.at = "robots", !.url = "home",
                                  !.job = "home", !.hops = 0]
      /\ UNCHANGED <<career, filtered, run, rows, heard, shown, swapped, before, scans>>
    BY DEF FindPage, Fetches
<1>2. crawl' \in CrawlKinds /\ crawl'.for = "find" /\ crawl'.at = "robots"
    BY <1>1, CrawlBounds DEF NoCrawl, CrawlKinds
<1>3. CrwTyped'
    BY <1>1, <1>2 DEF CrwInv, CrwTyped
<1>4. FoundIsKept'
    BY <1>1, ScanKeptStays DEF CrwInv
<1> QED
    BY <1>2, <1>3, <1>4 DEF CrwInv, CrwPlace, CrwCollects, CrwStores, RobotsObeyed, Scanning

LEMMA NextScanPage == CrwInv /\ ScanPage => CrwInv'
<1> SUFFICES ASSUME CrwInv, ScanPage PROVE CrwInv'
    OBVIOUS
<1>1. /\ scans < MaxScans /\ scans' = scans + 1
      /\ shown' = {} /\ swapped' = {} /\ before' = rows
      /\ career' = career /\ filtered' = filtered /\ rows' = rows /\ heard' = heard
    BY DEF ScanPage
<1>2. scans' \in 0..MaxScans
    BY <1>1, CrawlBounds DEF CrwInv, CrwTyped
<1>3. ASSUME NEW status \in RunStates
      PROVE  [NoRun EXCEPT !.status = status] \in [status : RunStates, pages : 0..MaxPages, found : Nat]
    BY CrawlBounds DEF NoRun
<1>4. CASE crawl' = crawl /\ \E s \in {"missing", "restricted"} : run' = [NoRun EXCEPT !.status = s]
  <2>1. PICK s \in {"missing", "restricted"} : run' = [NoRun EXCEPT !.status = s]
      BY <1>4
  <2>2. run'.status = s /\ s \in RunStates
      BY <2>1 DEF NoRun, RunStates
  <2>3. run' \in [status : RunStates, pages : 0..MaxPages, found : Nat]
      BY <1>3, <2>1, <2>2
  <2>4. CrwTyped'
      BY <1>1, <1>2, <1>4, <2>3 DEF CrwInv, CrwTyped
  <2>5. crawl' = NoCrawl
      BY <1>4 DEF ScanPage
  <2> QED
      BY <2>2, <2>4, <2>5, KeptVoid, CrawlEnds
<1>5. CASE /\ crawl' = Fetches("scan", career, NoCrawl) /\ career # "none"
           /\ run' = [NoRun EXCEPT !.status = "running"]
  <2>1. run'.status = "running" /\ "running" \in RunStates
      BY <1>5 DEF NoRun, RunStates
  <2>2. run' \in [status : RunStates, pages : 0..MaxPages, found : Nat]
      BY <1>3, <1>5, <2>1
  <2>3. career \in Urls
      BY <1>5, CrawlBounds DEF CrwInv, CrwTyped, Careers
  <2>4. /\ crawl' \in CrawlKinds /\ crawl'.for = "scan" /\ crawl'.at = "robots"
        /\ crawl'.pages = 0 /\ crawl'.fresh = 0 /\ crawl'.known = 0
      BY <1>5, <2>3, CrawlBounds DEF Fetches, NoCrawl, CrawlKinds
  <2>5. CrwTyped'
      BY <1>1, <1>2, <2>2, <2>4 DEF CrwInv, CrwTyped
  <2> QED
      BY <1>1, <2>1, <2>4, <2>5, KeptVoid
      DEF CrwInv, CrwPlace, CrwCollects, CrwStores, RobotsObeyed, Scanning
<1> QED
    BY <1>4, <1>5 DEF ScanPage

\* Wherever the work is, this is what it is for and what it has so far.
LEMMA AtWork ==
    ASSUME CrwInv, crawl.at \in {"robots", "page"}
    PROVE  /\ crawl.for \in {"find", "scan", "detail"} /\ crawl \in CrawlKinds
           /\ crawl.for # "find" => Scanning
BY DEF CrwInv, CrwTyped, CrwPlace, Scanning, CrawlKinds, NoCrawl

\* No page: the search for one is over, a scan ends, a job is as it was.
LEMMA WithoutPageKeeps ==
    ASSUME CrwInv, crawl.at \in {"robots", "page"}, NEW forbidden \in BOOLEAN,
           WithoutPage(forbidden),
           heard' = heard \/ heard' \in [url : Urls, file : Files \cup {NoFile}],
           UNCHANGED <<career, filtered, rows, shown, swapped, before, scans>>
    PROVE  CrwInv'
<1>1. heard' \in [url : Urls, file : Files \cup {NoFile}]
    BY DEF CrwInv, CrwTyped
<1>2. CASE crawl.for = "find"
  <2>1. crawl' = NoCrawl /\ run' = run
      BY <1>2 DEF WithoutPage
  <2>2. CrwTyped'
      BY <1>1, <2>1, CrawlBounds DEF CrwInv, CrwTyped
  <2> QED
      BY <2>1, <2>2, ScanKeptStays, CrawlEnds DEF CrwInv
<1>3. CASE crawl.for = "scan"
  <2>1. PICK status \in {"blocked_by_robots", "unavailable"} : EndsRun(status)
      BY <1>3 DEF WithoutPage
  <2>2. /\ crawl' = NoCrawl /\ run' = [status |-> status, pages |-> crawl.pages, found |-> crawl.fresh]
      BY <2>1 DEF EndsRun
  <2>3. run' \in [status : RunStates, pages : 0..MaxPages, found : Nat] /\ run'.status = status
      BY <2>2 DEF CrwInv, CrwTyped, CrawlKinds, RunStates
  <2>4. CrwTyped'
      BY <1>1, <2>2, <2>3, CrawlBounds DEF CrwInv, CrwTyped
  <2> QED
      BY <2>2, <2>3, <2>4, KeptVoid, CrawlEnds
<1>4. CASE crawl.for = "detail"
  <2>1. PICK yes \in BOOLEAN : yes = TRUE
      OBVIOUS
  <2>2. run' = run /\ crawl' = [crawl EXCEPT !.at = "details", !.trouble = yes]
      BY <1>4, <2>1 DEF WithoutPage, GoesOn
  <2>3. /\ crawl' \in CrawlKinds /\ crawl'.for = "detail" /\ crawl'.at = "details"
        /\ crawl'.fresh = crawl.fresh /\ crawl'.known = crawl.known
        /\ crawl'.found = crawl.found /\ crawl'.todo = crawl.todo
      BY <1>4, <2>2 DEF CrwInv, CrwTyped, CrawlKinds
  <2>4. CrwTyped'
      BY <1>1, <2>2, <2>3 DEF CrwInv, CrwTyped
  <2>5. FoundIsKept'
      BY <2>2, ScanKeptStays DEF CrwInv
  <2>6. /\ run.status = "running" /\ rows = before /\ crawl.fresh = 0 /\ crawl.known = 0
        /\ shown \ swapped \subseteq crawl.found \cup crawl.todo
      BY <1>4 DEF CrwInv, CrwPlace, CrwCollects, Scanning
  <2> QED
      BY <2>2, <2>3, <2>4, <2>5, <2>6
      DEF CrwInv, CrwPlace, CrwCollects, CrwStores, RobotsObeyed, Scanning
<1> QED
    BY <1>2, <1>3, <1>4, AtWork

LEMMA NextRobots == CrwInv /\ Robots => CrwInv'
<1> SUFFICES ASSUME CrwInv, Robots PROVE CrwInv'
    OBVIOUS
<1>1. /\ crawl.at = "robots" /\ crawl \in CrawlKinds /\ crawl.url \in Urls
      /\ UNCHANGED <<career, filtered, rows, shown, swapped, before, scans>>
    BY DEF Robots, CrwInv, CrwTyped, CrawlKinds
<1>2. CASE WithoutPage(FALSE) /\ heard' = heard
    BY <1>1, <1>2, WithoutPageKeeps
<1>3. ASSUME NEW file \in Files \cup {NoFile}, ~Restricted(crawl.url),
             heard' = [url |-> crawl.url, file |-> file],
             IF Allows(file, crawl.url) THEN GoesOn([crawl EXCEPT !.at = "page"])
             ELSE WithoutPage(TRUE)
      PROVE  CrwInv'
  <2>1. heard' \in [url : Urls, file : Files \cup {NoFile}]
      BY <1>1, <1>3
  <2>2. CASE WithoutPage(TRUE)
      BY <1>1, <2>1, <2>2, WithoutPageKeeps
  <2>3. CASE Allows(file, crawl.url) /\ GoesOn([crawl EXCEPT !.at = "page"])
    <3>1. run' = run /\ crawl' = [crawl EXCEPT !.at = "page"]
        BY <2>3 DEF GoesOn
    <3>2. /\ crawl' \in CrawlKinds /\ crawl'.for = crawl.for /\ crawl'.at = "page"
          /\ crawl'.url = crawl.url /\ crawl'.pages = crawl.pages
          /\ crawl'.fresh = crawl.fresh /\ crawl'.known = crawl.known
          /\ crawl'.found = crawl.found /\ crawl'.todo = crawl.todo
        BY <1>1, <3>1 DEF CrawlKinds
    <3>3. CrwTyped'
        BY <1>1, <2>1, <3>1, <3>2 DEF CrwInv, CrwTyped
    <3>4. FoundIsKept'
        BY <1>1, <3>1, ScanKeptStays DEF CrwInv
    <3>5. Permits(file, crawl.url)
        BY <1>3, <2>3, FilesAsWritten
    <3>6. RobotsObeyed'
        BY <1>3, <3>2, <3>5 DEF RobotsObeyed
    <3>7. crawl.for \in {"find", "scan", "detail"}
        BY <1>1, AtWork
    <3> QED
        BY <1>1, <3>1, <3>2, <3>3, <3>4, <3>6, <3>7
        DEF CrwInv, CrwPlace, CrwCollects, CrwStores, Scanning
  <2> QED
      BY <1>3, <2>2, <2>3
<1> QED
    BY <1>2, <1>3 DEF Robots

LEMMA NextRedirected == CrwInv /\ Redirected => CrwInv'
<1> SUFFICES ASSUME CrwInv, Redirected PROVE CrwInv'
    OBVIOUS
<1>1. /\ crawl.at = "page" /\ crawl \in CrawlKinds
      /\ UNCHANGED <<career, filtered, rows, heard, shown, swapped, before, scans>>
    BY DEF Redirected, CrwInv, CrwTyped
<1>2. CASE WithoutPage(FALSE)
    BY <1>1, <1>2, WithoutPageKeeps
<1>3. ASSUME NEW u \in Urls, ~(crawl.hops >= MaxHops),
             GoesOn([RedirectTo(u) EXCEPT !.trouble = TRUE])
      PROVE  CrwInv'
  <2>1. PICK yes \in BOOLEAN : yes = TRUE
      OBVIOUS
  <2>2. PICK h : h = crawl.hops + 1
      OBVIOUS
  <2>3. crawl.hops \in 0..MaxHops
      BY <1>1 DEF CrawlKinds
  <2>4. h \in 0..MaxHops
      BY <1>3, <2>2, <2>3, CrawlBounds
  <2>5. /\ run' = run
        /\ crawl' = [crawl EXCEPT !.at = "robots", !.url = u, !.hops = h, !.trouble = yes]
      BY <1>1, <1>3, <2>1, <2>2 DEF GoesOn, RedirectTo, CrawlKinds
  <2>6. /\ crawl' \in CrawlKinds /\ crawl'.for = crawl.for /\ crawl'.at = "robots"
        /\ crawl'.pages = crawl.pages
        /\ crawl'.fresh = crawl.fresh /\ crawl'.known = crawl.known
        /\ crawl'.found = crawl.found /\ crawl'.todo = crawl.todo
      BY <1>1, <2>4, <2>5 DEF CrawlKinds
  <2>7. CrwTyped'
      BY <1>1, <2>5, <2>6 DEF CrwInv, CrwTyped
  <2>8. FoundIsKept'
      BY <1>1, <2>5, ScanKeptStays DEF CrwInv
  <2>9. crawl.for \in {"find", "scan", "detail"}
      BY <1>1, AtWork
  <2> QED
      BY <1>1, <2>5, <2>6, <2>7, <2>8, <2>9
      DEF CrwInv, CrwPlace, CrwCollects, CrwStores, RobotsObeyed, Scanning
<1> QED
    BY <1>2, <1>3 DEF Redirected

LEMMA NextHomeAnswered == CrwInv /\ HomeAnswered => CrwInv'
<1> SUFFICES ASSUME CrwInv, HomeAnswered PROVE CrwInv'
    OBVIOUS
<1>1. /\ crawl' = NoCrawl /\ career' \in Careers
      /\ UNCHANGED <<filtered, run, rows, heard, shown, swapped, before, scans>>
    BY DEF HomeAnswered, CrwInv, CrwTyped, Careers
<1>2. CrwTyped'
    BY <1>1, CrawlBounds DEF CrwInv, CrwTyped
<1> QED
    BY <1>1, <1>2, ScanKeptStays, CrawlEnds DEF CrwInv

LEMMA NextCareerAnswered == CrwInv /\ CareerAnswered => CrwInv'
<1> SUFFICES ASSUME CrwInv, CareerAnswered PROVE CrwInv'
    OBVIOUS
<1>1. /\ crawl.for = "scan" /\ crawl.at = "page" /\ crawl \in CrawlKinds
      /\ UNCHANGED <<career, filtered, rows, heard, swapped, before, scans>>
    BY DEF CareerAnswered, Doing, CrwInv, CrwTyped
<1>2. CASE /\ run' = [status |-> "unavailable", pages |-> 1, found |-> 0] /\ crawl' = NoCrawl
           /\ shown' = shown
  <2>1. run' \in [status : RunStates, pages : 0..MaxPages, found : Nat]
      BY <1>2, CrawlBounds DEF RunStates
  <2>2. CrwTyped'
      BY <1>1, <1>2, <2>1, CrawlBounds DEF CrwInv, CrwTyped
  <2>3. run'.status = "unavailable"
      BY <1>2
  <2> QED
      BY <1>2, <2>2, <2>3, KeptVoid, CrawlEnds
<1>3. ASSUME NEW c \in Contents, NEW adapter \in Adapters, NEW jobs,
             jobs = Extracted(career, c, adapter),
             GoesOn([crawl EXCEPT !.at = "details", !.todo = jobs, !.pages = 1]), shown' = jobs
      PROVE  CrwInv'
  <2>1. jobs \in SUBSET SiteJobs
      BY <1>3, JobsOfPages
  <2>2. run' = run /\ crawl' = [crawl EXCEPT !.at = "details", !.todo = jobs, !.pages = 1]
      BY <1>3 DEF GoesOn
  <2>3. 1 \in 0..MaxPages
      BY CrawlBounds
  <2>4. /\ crawl' \in CrawlKinds /\ crawl'.for = "scan" /\ crawl'.at = "details"
        /\ crawl'.fresh = crawl.fresh /\ crawl'.known = crawl.known /\ crawl'.todo = jobs
      BY <1>1, <2>1, <2>2, <2>3 DEF CrawlKinds
  <2>5. CrwTyped'
      BY <1>1, <1>3, <2>1, <2>2, <2>4 DEF CrwInv, CrwTyped
  <2>6. run.status = "running" /\ rows = before /\ crawl.fresh = 0 /\ crawl.known = 0
      BY <1>1 DEF CrwInv, CrwPlace, CrwCollects, Scanning
  <2>7. FoundIsKept'
      BY <2>2, <2>6, KeptVoid
  <2> QED
      BY <1>1, <1>3, <2>2, <2>4, <2>5, <2>6, <2>7
      DEF CrwInv, CrwPlace, CrwCollects, CrwStores, RobotsObeyed, Scanning
<1> QED
    BY <1>2, <1>3 DEF CareerAnswered

\* Still collecting: what the scan was shown is in what it found or has to do.
LEMMA StillCollects ==
    ASSUME CrwInv, Scanning, crawl.at # "store",
           UNCHANGED <<career, filtered, run, rows, heard, shown, before, scans>>,
           crawl' \in CrawlKinds, swapped' \subseteq SiteJobs,
           crawl'.for = "detail" \/ (crawl'.for = crawl.for /\ crawl'.at = "details"),
           crawl'.at \in {"robots", "details"},
           crawl'.at = "robots" => crawl'.pages < MaxPages,
           crawl'.fresh = crawl.fresh, crawl'.known = crawl.known,
           shown \ swapped' \subseteq crawl'.found \cup crawl'.todo
    PROVE  CrwInv'
<1>1. CrwTyped'
    BY DEF CrwInv, CrwTyped
<1>2. run.status = "running" /\ rows = before /\ crawl.fresh = 0 /\ crawl.known = 0
    BY DEF CrwInv, CrwPlace, CrwCollects, Scanning
<1>3. FoundIsKept'
    BY <1>2, KeptVoid
<1>4. Scanning'
    BY DEF Scanning
<1> QED
    BY <1>1, <1>2, <1>3, <1>4
    DEF CrwInv, CrwPlace, CrwCollects, CrwStores, RobotsObeyed, Scanning

LEMMA NextOpensJob == CrwInv /\ OpensJob => CrwInv'
<1> SUFFICES ASSUME CrwInv, OpensJob PROVE CrwInv'
    OBVIOUS
<1>1. /\ crawl.at = "details" /\ crawl \in CrawlKinds
      /\ UNCHANGED <<career, filtered, rows, heard, shown, swapped, before, scans>>
    BY DEF OpensJob, CrwInv, CrwTyped
<1>2. Scanning
    BY <1>1 DEF CrwInv, CrwTyped, CrwPlace, Scanning, CrawlKinds, NoCrawl
<1>3. swapped \subseteq SiteJobs /\ shown \ swapped \subseteq crawl.found \cup crawl.todo
    BY <1>1, <1>2 DEF CrwInv, CrwTyped, CrwCollects
<1>4. PICK job \in crawl.todo :
         LET rest == [crawl EXCEPT !.todo = @ \ {job}]
             as   == [rest EXCEPT !.found = @ \cup {job}]
         IN  IF crawl.pages >= MaxPages THEN GoesOn([as EXCEPT !.trouble = TRUE])
             ELSE IF job.data \/ HostOf(job.url) # HostOf(career) THEN GoesOn(as)
             ELSE GoesOn(Fetches("detail", job.url, as))
    BY DEF OpensJob
<1>5. PICK todo, got : todo = crawl.todo \ {job} /\ got = crawl.found \cup {job}
    OBVIOUS
<1>6. /\ todo \in SUBSET SiteJobs /\ got \in SUBSET SiteJobs /\ job.url \in Urls
      /\ shown \ swapped \subseteq got \cup todo
  <2>1. crawl.todo \in SUBSET SiteJobs /\ crawl.found \in SUBSET SiteJobs
      BY <1>1 DEF CrawlKinds
  <2>2. job \in SiteJobs
      BY <2>1
  <2>3. job.url \in Urls
      BY <2>2 DEF SiteJobs
  <2> QED
      BY <1>3, <1>5, <2>1, <2>2, <2>3
<1>7. PICK as : as = [crawl EXCEPT !.todo = todo, !.found = got]
    OBVIOUS
<1>8. as = [[crawl EXCEPT !.todo = @ \ {job}] EXCEPT !.found = @ \cup {job}]
    BY <1>1, <1>5, <1>7 DEF CrawlKinds
<1>9. /\ as \in CrawlKinds /\ as.for = crawl.for /\ as.at = "details" /\ as.pages = crawl.pages
      /\ as.fresh = crawl.fresh /\ as.known = crawl.known /\ as.found = got /\ as.todo = todo
    BY <1>1, <1>6, <1>7 DEF CrawlKinds
<1>10. CASE GoesOn(as)
  <2>1. crawl' = as /\ run' = run
      BY <1>10 DEF GoesOn
  <2> QED
      BY <1>1, <1>2, <1>3, <1>6, <1>9, <2>1, StillCollects
<1>11. CASE GoesOn([as EXCEPT !.trouble = TRUE])
  <2>1. PICK yes \in BOOLEAN : yes = TRUE
      OBVIOUS
  <2>2. crawl' = [as EXCEPT !.trouble = yes] /\ run' = run
      BY <1>11, <2>1 DEF GoesOn
  <2>3. /\ crawl' \in CrawlKinds /\ crawl'.for = crawl.for /\ crawl'.at = "details"
        /\ crawl'.fresh = crawl.fresh /\ crawl'.known = crawl.known
        /\ crawl'.found = got /\ crawl'.todo = todo
      BY <1>9, <2>2 DEF CrawlKinds
  <2> QED
      BY <1>1, <1>2, <1>3, <1>6, <2>2, <2>3, StillCollects
<1>12. CASE GoesOn(Fetches("detail", job.url, as)) /\ ~(crawl.pages >= MaxPages)
  <2>1. PICK u : u = job.url
      OBVIOUS
  <2>2. /\ run' = run
        /\ crawl' = [as EXCEPT !.for = "detail", !.at = "robots", !.url = u, !.job = u, !.hops = 0]
      BY <1>12, <2>1 DEF GoesOn, Fetches
  <2>3. /\ crawl' \in CrawlKinds /\ crawl'.for = "detail" /\ crawl'.at = "robots"
        /\ crawl'.fresh = crawl.fresh /\ crawl'.known = crawl.known /\ crawl'.pages = crawl.pages
        /\ crawl'.found = got /\ crawl'.todo = todo
    <3>1. 0 \in 0..MaxHops /\ u \in Urls
        BY <1>6, <2>1, CrawlBounds
    <3>2. crawl' \in CrawlKinds
        BY <1>9, <2>2, <3>1 DEF CrawlKinds
    <3> QED
        BY <1>9, <2>2, <3>2 DEF CrawlKinds
  <2>4. crawl'.pages < MaxPages
    <3>1. crawl.pages \in 0..MaxPages
        BY <1>1 DEF CrawlKinds
    <3> QED
        BY <1>12, <2>3, <3>1, CrawlBounds
  <2> QED
      BY <1>1, <1>2, <1>3, <1>6, <2>2, <2>3, <2>4, StillCollects
<1> QED
    BY <1>4, <1>8, <1>10, <1>11, <1>12

LEMMA NextDetailAnswered == CrwInv /\ DetailAnswered => CrwInv'
<1> SUFFICES ASSUME CrwInv, DetailAnswered PROVE CrwInv'
    OBVIOUS
<1>1. /\ crawl.for = "detail" /\ crawl.at = "page" /\ crawl \in CrawlKinds
      /\ UNCHANGED <<career, filtered, rows, heard, shown, before, scans>>
    BY DEF DetailAnswered, Doing, CrwInv, CrwTyped
<1>2. /\ Scanning /\ swapped \subseteq SiteJobs /\ crawl.pages < MaxPages
      /\ shown \ swapped \subseteq crawl.found \cup crawl.todo
    BY <1>1 DEF Scanning, CrwInv, CrwTyped, CrwPlace, CrwCollects
<1>3. PICK job : job = JobAt(crawl.job, FALSE)
    OBVIOUS
<1>4. job \in SiteJobs
    BY <1>1, <1>3 DEF JobAt, SiteJobs, CrawlKinds
<1>5. PICK p : p = crawl.pages + 1
    OBVIOUS
<1>6. p \in 0..MaxPages
  <2>1. crawl.pages \in 0..MaxPages
      BY <1>1 DEF CrawlKinds
  <2> QED
      BY <1>2, <1>5, <2>1, CrawlBounds
<1>7. PICK read : read = [crawl EXCEPT !.at = "details", !.pages = p]
    OBVIOUS
<1>8. read = [crawl EXCEPT !.at = "details", !.pages = @ + 1]
    BY <1>1, <1>5, <1>7 DEF CrawlKinds
<1>9. /\ read \in CrawlKinds /\ read.for = "detail" /\ read.at = "details"
      /\ read.fresh = crawl.fresh /\ read.known = crawl.known
      /\ read.found = crawl.found /\ read.todo = crawl.todo
    BY <1>1, <1>6, <1>7 DEF CrawlKinds
<1>10. CASE GoesOn(read) /\ swapped' = swapped
  <2>1. crawl' = read /\ run' = run
      BY <1>10 DEF GoesOn
  <2> QED
      BY <1>1, <1>2, <1>9, <1>10, <2>1, StillCollects
<1>11. CASE GoesOn([read EXCEPT !.trouble = TRUE]) /\ swapped' = swapped
  <2>1. PICK yes \in BOOLEAN : yes = TRUE
      OBVIOUS
  <2>2. crawl' = [read EXCEPT !.trouble = yes] /\ run' = run
      BY <1>11, <2>1 DEF GoesOn
  <2>3. /\ crawl' \in CrawlKinds /\ crawl'.for = "detail" /\ crawl'.at = "details"
        /\ crawl'.fresh = crawl.fresh /\ crawl'.known = crawl.known
        /\ crawl'.found = crawl.found /\ crawl'.todo = crawl.todo
      BY <1>9, <2>2 DEF CrawlKinds
  <2> QED
      BY <1>1, <1>2, <1>11, <2>2, <2>3, StillCollects
<1>12. ASSUME NEW c \in Contents, NEW adapter \in Adapters, NEW jobs,
              jobs = {j \in Extracted(crawl.job, c, adapter) : j.data},
              GoesOn([read EXCEPT !.found = (@ \ {job}) \cup jobs]), swapped' = swapped \cup {job}
       PROVE  CrwInv'
  <2>1. jobs \subseteq SiteJobs
      BY <1>12, JobsOfPages
  <2>2. PICK got : got = (crawl.found \ {job}) \cup jobs
      OBVIOUS
  <2>3. got \in SUBSET SiteJobs
    <3>1. crawl.found \in SUBSET SiteJobs
        BY <1>1 DEF CrawlKinds
    <3> QED
        BY <2>1, <2>2, <3>1
  <2>4. run' = run /\ crawl' = [read EXCEPT !.found = got]
      BY <1>9, <1>12, <2>2 DEF GoesOn, CrawlKinds
  <2>5. /\ crawl' \in CrawlKinds /\ crawl'.for = "detail" /\ crawl'.at = "details"
        /\ crawl'.fresh = crawl.fresh /\ crawl'.known = crawl.known
        /\ crawl'.found = got /\ crawl'.todo = crawl.todo
      BY <1>9, <2>3, <2>4 DEF CrawlKinds
  <2>6. shown \ swapped' \subseteq got \cup crawl.todo /\ swapped' \subseteq SiteJobs
      BY <1>2, <1>4, <1>12, <2>2
  <2> QED
      BY <1>1, <1>2, <2>4, <2>5, <2>6, StillCollects
<1> QED
    BY <1>3, <1>8, <1>10, <1>11, <1>12 DEF DetailAnswered

LEMMA NextFiltersFound == CrwInv /\ FiltersFound => CrwInv'
<1> SUFFICES ASSUME CrwInv, FiltersFound PROVE CrwInv'
    OBVIOUS
<1>1. /\ crawl.at = "details" /\ crawl.todo = {} /\ crawl \in CrawlKinds
      /\ UNCHANGED <<career, filtered, rows, heard, shown, swapped, before, scans>>
    BY DEF FiltersFound, CrwInv, CrwTyped
<1>2. Scanning
    BY <1>1 DEF CrwInv, CrwTyped, CrwPlace, Scanning, CrawlKinds, NoCrawl
<1>3. /\ run.status = "running" /\ rows = before /\ crawl.fresh = 0
      /\ shown \ swapped \subseteq crawl.found
    BY <1>1, <1>2 DEF CrwInv, CrwPlace, CrwCollects
<1>4. PICK todo : todo = {j \in crawl.found : Passes(j)}
    OBVIOUS
<1>5. todo \in SUBSET SiteJobs
    BY <1>1, <1>4 DEF CrawlKinds
<1>6. run' = run /\ crawl' = [crawl EXCEPT !.at = "store", !.todo = todo]
    BY <1>4 DEF FiltersFound, GoesOn
<1>7. /\ crawl' \in CrawlKinds /\ crawl'.for = crawl.for /\ crawl'.at = "store"
      /\ crawl'.fresh = crawl.fresh /\ crawl'.todo = todo
    BY <1>1, <1>5, <1>6 DEF CrawlKinds
<1>8. CrwTyped'
    BY <1>1, <1>6, <1>7 DEF CrwInv, CrwTyped
<1>9. FoundIsKept'
    BY <1>3, <1>6, KeptVoid
<1>10. CrwStores'
  <2>1. rows \ before = {}
      BY <1>3
  <2>2. Cardinality(rows \ before) = 0
      BY <2>1, FS_EmptySet
  <2>3. \A job \in shown \ swapped : Passes(job) => job \in todo
      BY <1>3, <1>4
  <2>4. \A job : Passes(job)' <=> Passes(job)
      BY <1>1 DEF Passes
  <2> QED
      BY <1>1, <1>3, <1>7, <2>2, <2>3, <2>4 DEF CrwStores
<1> QED
    BY <1>2, <1>3, <1>6, <1>7, <1>8, <1>9, <1>10
    DEF CrwInv, CrwPlace, CrwCollects, RobotsObeyed, Scanning

LEMMA UrlsFinite == IsFiniteSet(Urls)
<1>1. IsFiniteSet({}) /\ Urls = {} \cup {"home"} \cup {"careers"} \cup {"one"}
                                  \cup {"two"} \cup {"board"} \cup {"social"}
    BY FS_EmptySet DEF Urls
<1> QED
    BY <1>1, FS_AddElement

LEMMA NextStoresJob == CrwInv /\ StoresJob => CrwInv'
<1> SUFFICES ASSUME CrwInv, StoresJob PROVE CrwInv'
    OBVIOUS
<1>1. /\ crawl.at = "store" /\ crawl \in CrawlKinds
      /\ UNCHANGED <<career, filtered, heard, shown, swapped, before, scans>>
    BY DEF StoresJob, CrwInv, CrwTyped
<1>2. Scanning
    BY <1>1 DEF CrwInv, CrwTyped, CrwPlace, Scanning, CrawlKinds, NoCrawl
<1>3. /\ run.status = "running" /\ rows \subseteq Urls /\ before \subseteq rows
      /\ crawl.fresh = Cardinality(rows \ before)
      /\ \A job \in shown \ swapped : Passes(job) => job \in crawl.todo \/ job.url \in rows
    BY <1>1, <1>2 DEF CrwInv, CrwTyped, CrwPlace, CrwStores
<1>4. PICK job \in crawl.todo :
         /\ rows' = rows \cup {job.url}
         /\ GoesOn([crawl EXCEPT !.todo = @ \ {job},
                       !.fresh = @ + IF job.url \in rows THEN 0 ELSE 1,
                       !.known = @ + IF job.url \in rows THEN 1 ELSE 0])
    BY DEF StoresJob
<1>5. PICK todo, fresh, known :
          /\ todo = crawl.todo \ {job}
          /\ fresh = crawl.fresh + (IF job.url \in rows THEN 0 ELSE 1)
          /\ known = crawl.known + (IF job.url \in rows THEN 1 ELSE 0)
    OBVIOUS
<1>6. todo \in SUBSET SiteJobs /\ fresh \in Nat /\ known \in Nat /\ job.url \in Urls
  <2>1. crawl.todo \in SUBSET SiteJobs /\ crawl.fresh \in Nat /\ crawl.known \in Nat
      BY <1>1 DEF CrawlKinds
  <2>2. job.url \in Urls
      BY <2>1 DEF SiteJobs
  <2> QED
      BY <1>5, <2>1, <2>2
<1>7. run' = run /\ crawl' = [crawl EXCEPT !.todo = todo, !.fresh = fresh, !.known = known]
    BY <1>1, <1>4, <1>5 DEF GoesOn, CrawlKinds
<1>8. /\ crawl' \in CrawlKinds /\ crawl'.for = crawl.for /\ crawl'.at = "store"
      /\ crawl'.fresh = fresh /\ crawl'.todo = todo
    BY <1>1, <1>6, <1>7 DEF CrawlKinds
<1>9. CrwTyped'
    BY <1>1, <1>3, <1>4, <1>6, <1>7, <1>8 DEF CrwInv, CrwTyped
<1>10. FoundIsKept'
    BY <1>3, <1>7, KeptVoid
<1>11. fresh = Cardinality(rows' \ before)
  <2>1. CASE job.url \in rows
    <3>1. rows' = rows
        BY <1>4, <2>1
    <3>2. crawl.fresh \in Nat
        BY <1>1 DEF CrawlKinds
    <3> QED
        BY <1>3, <1>5, <2>1, <3>1, <3>2
  <2>2. CASE job.url \notin rows
    <3>1. rows' \ before = (rows \ before) \cup {job.url} /\ job.url \notin rows \ before
        BY <1>3, <1>4, <2>2
    <3>2. IsFiniteSet(rows \ before)
        BY <1>3, UrlsFinite, FS_Subset
    <3>3. Cardinality((rows \ before) \cup {job.url}) = Cardinality(rows \ before) + 1
        BY <3>1, <3>2, FS_AddElement
    <3> QED
        BY <1>3, <1>5, <2>2, <3>1, <3>3
  <2> QED
      BY <2>1, <2>2
<1>12. CrwStores'
  <2>1. \A j : Passes(j)' <=> Passes(j)
      BY <1>1 DEF Passes
  <2>2. \A j \in shown \ swapped : Passes(j) => j \in todo \/ j.url \in rows'
      BY <1>3, <1>4, <1>5
  <2> QED
      BY <1>1, <1>8, <1>11, <2>1, <2>2 DEF CrwStores
<1> QED
    BY <1>2, <1>3, <1>7, <1>8, <1>9, <1>10, <1>12
    DEF CrwInv, CrwPlace, CrwCollects, RobotsObeyed, Scanning

LEMMA NextCompletesScan == CrwInv /\ CompletesScan => CrwInv'
<1> SUFFICES ASSUME CrwInv, CompletesScan PROVE CrwInv'
    OBVIOUS
<1>1. /\ crawl.at = "store" /\ crawl.todo = {} /\ crawl \in CrawlKinds
      /\ UNCHANGED <<career, filtered, rows, heard, shown, swapped, before, scans>>
    BY DEF CompletesScan, CrwInv, CrwTyped
<1>2. Scanning
    BY <1>1 DEF CrwInv, CrwTyped, CrwPlace, Scanning, CrawlKinds, NoCrawl
<1>3. /\ rows \subseteq Urls /\ before \subseteq rows /\ crawl.fresh = Cardinality(rows \ before)
      /\ \A job \in shown \ swapped : Passes(job) => job.url \in rows
    BY <1>1, <1>2 DEF CrwInv, CrwTyped, CrwStores
<1>4. PICK status \in {"completed", "completed_with_errors"} :
          /\ EndsRun(status)
          /\ status = "completed_with_errors" => ~(crawl.fresh + crawl.known > 0)
  <2>1. CASE crawl.fresh + crawl.known > 0 \/ ~crawl.trouble
      BY <2>1 DEF CompletesScan
  <2>2. CASE ~(crawl.fresh + crawl.known > 0 \/ ~crawl.trouble)
      BY <2>2 DEF CompletesScan
  <2> QED
      BY <2>1, <2>2
<1>5. /\ crawl' = NoCrawl
      /\ run' = [status |-> status, pages |-> crawl.pages, found |-> crawl.fresh]
    BY <1>4 DEF EndsRun
<1>6. /\ run' \in [status : RunStates, pages : 0..MaxPages, found : Nat]
      /\ run'.status = status /\ run'.found = crawl.fresh
    BY <1>1, <1>5 DEF CrawlKinds, RunStates
<1>7. CrwTyped'
    BY <1>1, <1>5, <1>6, CrawlBounds DEF CrwInv, CrwTyped
<1>8. status = "completed_with_errors" => rows = before
  <2> SUFFICES ASSUME status = "completed_with_errors" PROVE rows = before
      OBVIOUS
  <2>1. crawl.fresh \in Nat /\ crawl.known \in Nat
      BY <1>1 DEF CrawlKinds
  <2>2. crawl.fresh = 0
      BY <1>4, <2>1
  <2>3. IsFiniteSet(rows \ before)
      BY <1>3, UrlsFinite, FS_Subset
  <2>4. rows \ before = {}
      BY <1>3, <2>2, <2>3, FS_EmptySet
  <2> QED
      BY <1>3, <2>4
<1>9. FoundIsKept'
  <2>1. \A j : Passes(j)' <=> Passes(j)
      BY <1>1 DEF Passes
  <2> QED
      BY <1>1, <1>3, <1>6, <1>8, <2>1 DEF FoundIsKept
<1> QED
    BY <1>5, <1>7, <1>9, CrawlEnds

LEMMA NextScanRaises == CrwInv /\ ScanRaises => CrwInv'
<1> SUFFICES ASSUME CrwInv, ScanRaises PROVE CrwInv'
    OBVIOUS
<1>1. /\ crawl' = NoCrawl
      /\ UNCHANGED <<career, filtered, rows, heard, shown, swapped, before, scans>>
    BY DEF ScanRaises
<1>2. CASE run' = run
  <2>1. CrwTyped'
      BY <1>1, <1>2, CrawlBounds DEF CrwInv, CrwTyped
  <2> QED
      BY <1>1, <1>2, <2>1, ScanKeptStays, CrawlEnds DEF CrwInv
<1>3. CASE run' = [run EXCEPT !.status = "failed"]
  <2>1. /\ run' \in [status : RunStates, pages : 0..MaxPages, found : Nat]
        /\ run'.status = "failed"
      BY <1>3 DEF CrwInv, CrwTyped, RunStates
  <2>2. CrwTyped'
      BY <1>1, <2>1, CrawlBounds DEF CrwInv, CrwTyped
  <2> QED
      BY <1>1, <2>1, <2>2, KeptVoid, CrawlEnds
<1> QED
    BY <1>2, <1>3 DEF ScanRaises

LEMMA NextCrawl == CrwInv /\ [CrwNext]_crwVars => CrwInv'
<1> SUFFICES ASSUME CrwInv, [CrwNext]_crwVars PROVE CrwInv'
    OBVIOUS
<1>1. CASE UNCHANGED crwVars
  <2>1. /\ UNCHANGED <<career, filtered, crawl, run>> /\ UNCHANGED <<rows, heard, shown>>
        /\ UNCHANGED <<swapped, before, scans>>
      BY <1>1 DEF crwVars
  <2>2. FoundIsKept' /\ CrwTyped'
      BY <2>1, ScanKeptStays DEF CrwInv, CrwTyped
  <2>3. \A j : Passes(j)' <=> Passes(j)
      BY <2>1 DEF Passes
  <2>4. CrwPlace' /\ CrwCollects' /\ RobotsObeyed'
      BY <2>1 DEF CrwInv, CrwPlace, CrwCollects, RobotsObeyed, Scanning
  <2>5. CrwStores'
      BY <2>1, <2>3 DEF CrwInv, CrwStores, Scanning
  <2> QED
      BY <2>2, <2>4, <2>5 DEF CrwInv
<1> QED
    BY <1>1, NextFindPage, NextScanPage, NextRobots, NextRedirected, NextHomeAnswered,
       NextCareerAnswered, NextOpensJob, NextDetailAnswered, NextFiltersFound, NextStoresJob,
       NextCompletesScan, NextScanRaises
    DEF CrwNext

LEMMA CrawlKeeps == CrwInv => CrawlHolds /\ CrwTypeOK
<1> SUFFICES ASSUME CrwInv PROVE CrawlHolds /\ CrwTypeOK
    OBVIOUS
<1>1. ByTheBook
  <2> SUFFICES ASSUME NEW file \in BookFiles, NEW u
               PROVE  Allows(file, u) = Permits(file, u)
      BY DEF ByTheBook
  <2>1. Allows(file, u) <=> Permits(file, u)
      BY FilesAsWritten
  <2>2. Allows(file, u) \in BOOLEAN /\ Permits(file, u) \in BOOLEAN
      BY DEF Allows, Permits
  <2> QED
      BY <2>1, <2>2
<1>2. crawl \in CrawlKinds /\ run.pages \in 0..MaxPages
    BY DEF CrwInv, CrwTyped
<1>3. PagesBounded
  <2>1. crawl.pages \in 0..MaxPages
      BY <1>2 DEF CrawlKinds
  <2> QED
      BY <1>2, <2>1, CrawlBounds DEF PagesBounded
<1>4. DOMAIN crawl = DOMAIN NoCrawl
    BY <1>2 DEF CrawlKinds, NoCrawl
<1>5. crawl.pages \in Nat /\ crawl.hops \in 0..MaxHops
  <2>1. crawl.pages \in 0..MaxPages /\ crawl.hops \in 0..MaxHops
      BY <1>2 DEF CrawlKinds
  <2> QED
      BY <2>1, CrawlBounds
<1>6. career \in Urls \cup {"none"}
    BY CrawlBounds DEF CrwInv, CrwTyped, Careers
<1>7. CrwTypeOK
    BY <1>4, <1>5, <1>6 DEF CrwTypeOK, CrwInv, CrwTyped, SiteJobs
<1> QED
    BY <1>1, <1>3, <1>7 DEF CrawlHolds, CrwInv
=============================================================================
