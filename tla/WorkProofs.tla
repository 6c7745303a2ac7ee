----------------------------- MODULE WorkProofs -----------------------------
(***************************************************************************)
(* What the services of MCWork promise, for any number of processes,       *)
(* users, jobs and rows: one inductive invariant per service, its          *)
(* preservation action by action, and the promise it implies (those of     *)
(* Applications, Discoveries and Crawl are in JobsProofs).  A step of      *)
(* MCWork is a step of one service that leaves the others alone.           *)
(***************************************************************************)
EXTENDS MCWork, JobsProofs, FiniteSetTheorems, WellFoundedInduction, TLAPS
-----------------------------------------------------------------------------
(* Migrations *)

Stages == [at : {"down", "between", "within", "up", "failed"}, ships : 0..LatestMigration,
           starting : 0..LatestMigration, next : Nat, staged : 0..Statements]

MigTyped ==
    /\ schema \subseteq (1..LatestMigration) \X (1..Statements)
    /\ version \in 0..LatestMigration /\ boots \in Nat /\ raced \in BOOLEAN
    /\ server \in [Servers -> Stages]

\* A server has come past migrations the file has, and past all its release
\* ships when it serves.
Passed(p) ==
    /\ server[p].at \in {"between", "within", "up"} =>
           /\ server[p].next \in Nat \ {0}
           /\ \A v \in 1..LatestMigration : v < server[p].next => HasMigration(v)
           /\ \A v \in 1..LatestMigration : v <= server[p].starting => HasMigration(v)
    /\ server[p].at = "within" => /\ server[p].next <= server[p].ships
                                  /\ server[p].next > server[p].starting
    /\ server[p].at = "up" => server[p].next > server[p].ships

\* One that migrates alone is where the version says.
Abreast(p) ==
    Migrating(p) => /\ \A q \in Servers : Migrating(q) => q = p
                    /\ version = IF server[p].next > server[p].starting
                                 THEN server[p].next - 1 ELSE server[p].starting

MigInv ==
    /\ MigTyped /\ NeverHalf /\ VersionTrue /\ NoneFails
    /\ \A p \in Servers : Passed(p) /\ (~raced => Abreast(p))

LEMMA StageShape ==
    ASSUME NEW s \in Stages
    PROVE  /\ s.at \in {"down", "between", "within", "up", "failed"}
           /\ s.ships \in 0..LatestMigration /\ s.starting \in 0..LatestMigration
           /\ s.next \in Nat /\ s.staged \in 0..Statements
BY DEF Stages

LEMMA InitMigrations == MigInit => MigInv
<1> SUFFICES ASSUME MigInit PROVE MigInv
    OBVIOUS
<1>0. LatestMigration \in Nat /\ Statements \in Nat \ {0}
    BY MigrationsAssumption
<1>1. NotRunning \in Stages /\ NotRunning.at = "down"
    BY <1>0 DEF NotRunning, Stages
<1>2. \A p \in Servers : server[p].at = "down"
    BY <1>1 DEF MigInit
<1>3. MigTyped
  <2>1. raced \in BOOLEAN
      BY DEF MigInit
  <2> QED
      BY <1>0, <1>1, <2>1 DEF MigInit, MigTyped
<1>4. VersionTrue
  <2>1. \A v : ~HasMigration(v)
    <3>1. \A v : <<v, 1>> \in {<<v, i>> : i \in 1..Statements} /\ <<v, 1>> \notin schema
        BY <1>0 DEF MigInit
    <3> QED
        BY <3>1 DEF HasMigration
  <2>2. version = 0
      BY DEF MigInit
  <2> QED
      BY <1>0, <2>1, <2>2 DEF VersionTrue
<1> QED
    BY <1>2, <1>3, <1>4 DEF MigInit, MigInv, NeverHalf, NoneFails, Passed, Abreast, Migrating

\* The file stays as it is, and one server goes where the file lets it.
LEMMA ServerMoves ==
    ASSUME MigInv, NEW p \in Servers, schema' = schema, version' = version,
           boots' \in Nat, raced' \in BOOLEAN, raced => raced',
           NEW s \in Stages, server' = [server EXCEPT ![p] = s],
           Passed(p)', ~raced' => Abreast(p)',
           s.at = "failed" => raced',
           ~raced' /\ s.at \in {"between", "within"} =>
               \A q \in Servers \ {p} : ~Migrating(q)
    PROVE  MigInv'
<1>0. /\ server \in [Servers -> Stages] /\ raced \in BOOLEAN
      /\ server'[p] = s /\ \A q \in Servers \ {p} : server'[q] = server[q]
    BY DEF MigInv, MigTyped
<1>1. MigTyped'
    BY DEF MigInv, MigTyped
<1>2. NeverHalf' /\ VersionTrue'
    BY DEF MigInv, NeverHalf, VersionTrue, HasMigration
<1>3. NoneFails'
    BY <1>0 DEF MigInv, NoneFails
<1>4. ASSUME NEW q \in Servers PROVE Passed(q)' /\ (~raced' => Abreast(q)')
  <2>1. CASE q = p
      BY <2>1
  <2>2. CASE q # p
    <3>1. Passed(q) /\ (~raced => Abreast(q)) /\ server'[q] = server[q]
        BY <1>0, <2>2 DEF MigInv
    <3>2. Passed(q)'
        BY <3>1 DEF Passed, HasMigration
    <3>3. ASSUME ~raced' PROVE Abreast(q)'
        BY <1>0, <2>2, <3>1, <3>3 DEF Abreast, Migrating
    <3> QED
        BY <3>2, <3>3
  <2> QED
      BY <2>1, <2>2
<1> QED
    BY <1>1, <1>2, <1>3, <1>4 DEF MigInv

LEMMA NextMigrations == MigInv /\ [MigNext]_migVars => MigInv'
<1> SUFFICES ASSUME MigInv, [MigNext]_migVars PROVE MigInv'
    OBVIOUS
<1>0. /\ LatestMigration \in Nat /\ Statements \in Nat \ {0}
      /\ schema \subseteq (1..LatestMigration) \X (1..Statements)
      /\ version \in 0..LatestMigration /\ boots \in Nat /\ raced \in BOOLEAN
      /\ server \in [Servers -> Stages]
    BY MigrationsAssumption DEF MigInv, MigTyped
<1>i. NotRunning \in Stages /\ NotRunning.at = "down"
    BY <1>0 DEF NotRunning, Stages
<1>f. /\ [NotRunning EXCEPT !.at = "failed"] \in Stages
      /\ [NotRunning EXCEPT !.at = "failed"].at = "failed"
    BY <1>i DEF Stages
<1>t. ASSUME NEW p \in Servers
      PROVE  /\ server[p] \in Stages
             /\ server[p].at \in {"down", "between", "within", "up", "failed"}
             /\ server[p].ships \in 0..LatestMigration
             /\ server[p].starting \in 0..LatestMigration
             /\ server[p].next \in Nat /\ server[p].staged \in 0..Statements
             /\ Passed(p) /\ (~raced => Abreast(p))
    BY <1>0, StageShape DEF MigInv
<1>1. ASSUME NEW p \in Servers, NEW ships \in 1..LatestMigration, BootReads(p, ships)
      PROVE  MigInv'
  <2>1. PICK s : s = [at |-> "between", ships |-> ships, starting |-> version, next |-> 1,
                      staged |-> 0]
      OBVIOUS
  <2>2. /\ s \in Stages /\ s.at = "between" /\ s.starting = version /\ s.next = 1
        /\ s.ships = ships
      BY <1>0, <2>1 DEF Stages
  <2>3. /\ server' = [server EXCEPT ![p] = s] /\ boots' = boots + 1
        /\ raced' = (raced \/ \E q \in Servers : Migrating(q)) /\ UNCHANGED <<schema, version>>
      BY <1>1, <2>1 DEF BootReads
  <2>4. server'[p] = s /\ \A q \in Servers \ {p} : server'[q] = server[q]
      BY <1>0, <2>3
  <2>5. Passed(p)'
    <3>1. \A v \in 1..version : HasMigration(v)
        BY DEF MigInv, VersionTrue
    <3> QED
        BY <1>0, <2>2, <2>3, <2>4, <3>1 DEF Passed, HasMigration
  <2>6. ~raced' => Abreast(p)'
    <3>1. ASSUME ~raced' PROVE \A q \in Servers : ~Migrating(q)
        BY <2>3, <3>1
    <3> QED
        BY <1>0, <2>2, <2>3, <2>4, <3>1 DEF Abreast, Migrating
  <2>7. /\ raced' \in BOOLEAN /\ raced => raced'
        /\ ~raced' => \A q \in Servers \ {p} : ~Migrating(q)
      BY <2>3
  <2>8. boots' \in Nat
      BY <1>0, <2>3
  <2> QED
      BY <2>2, <2>3, <2>5, <2>6, <2>7, <2>8, ServerMoves
<1>2. ASSUME NEW p \in Servers, AlreadyThere(p) PROVE MigInv'
  <2>1. PICK s : s = [server[p] EXCEPT !.next = @ + 1]
      OBVIOUS
  <2>2. /\ s \in Stages /\ s.at = "between" /\ s.starting = server[p].starting
        /\ s.next = server[p].next + 1 /\ s.ships = server[p].ships
      BY <1>t, <1>2, <2>1 DEF AlreadyThere, Stages
  <2>3. /\ server' = [server EXCEPT ![p] = s] /\ UNCHANGED <<schema, version, boots, raced>>
        /\ server[p].at = "between" /\ server[p].next <= server[p].starting
      BY <1>t, <1>2, <2>1 DEF AlreadyThere, IsPending
  <2>4. server'[p] = s /\ \A q \in Servers \ {p} : server'[q] = server[q]
      BY <1>0, <2>3
  <2>5. Passed(p)'
    <3>1. \A v \in 1..LatestMigration : v < s.next => v <= server[p].starting
        BY <1>t, <2>2, <2>3
    <3> QED
        BY <1>t, <2>2, <2>3, <2>4, <3>1 DEF Passed, HasMigration
  <2>6. ~raced' => Abreast(p)'
      BY <1>t, <2>2, <2>3, <2>4 DEF Abreast, Migrating
  <2>7. ~raced' => \A q \in Servers \ {p} : ~Migrating(q)
      BY <1>t, <2>3 DEF Abreast, Migrating
  <2> QED
      BY <1>0, <2>2, <2>3, <2>5, <2>6, <2>7, ServerMoves
<1>3. ASSUME NEW p \in Servers, BeginsMigration(p) PROVE MigInv'
  <2>1. PICK s : s = [server[p] EXCEPT !.at = "within"]
      OBVIOUS
  <2>2. /\ s \in Stages /\ s.at = "within" /\ s.starting = server[p].starting
        /\ s.next = server[p].next /\ s.ships = server[p].ships
      BY <1>t, <2>1 DEF Stages
  <2>3. /\ server' = [server EXCEPT ![p] = s] /\ UNCHANGED <<schema, version, boots, raced>>
        /\ server[p].at = "between" /\ server[p].next <= server[p].ships
        /\ server[p].next > server[p].starting
      BY <1>3, <2>1 DEF BeginsMigration, IsPending
  <2>4. server'[p] = s /\ \A q \in Servers \ {p} : server'[q] = server[q]
      BY <1>0, <2>3
  <2>5. Passed(p)'
      BY <1>t, <2>2, <2>3, <2>4 DEF Passed, HasMigration
  <2>6. ~raced' => Abreast(p)'
      BY <1>t, <2>2, <2>3, <2>4 DEF Abreast, Migrating
  <2>7. ~raced' => \A q \in Servers \ {p} : ~Migrating(q)
      BY <1>t, <2>3 DEF Abreast, Migrating
  <2> QED
      BY <1>0, <2>2, <2>3, <2>5, <2>6, <2>7, ServerMoves
<1>4. ASSUME NEW p \in Servers, RunsStatement(p) PROVE MigInv'
  <2>1. PICK s : s = [server[p] EXCEPT !.staged = @ + 1]
      OBVIOUS
  <2>2. /\ s \in Stages /\ s.at = "within" /\ s.starting = server[p].starting
        /\ s.next = server[p].next /\ s.ships = server[p].ships
      BY <1>0, <1>t, <1>4, <2>1 DEF RunsStatement, Stages
  <2>3. /\ server' = [server EXCEPT ![p] = s] /\ UNCHANGED <<schema, version, boots, raced>>
        /\ server[p].at = "within"
      BY <1>4, <2>1 DEF RunsStatement
  <2>4. server'[p] = s /\ \A q \in Servers \ {p} : server'[q] = server[q]
      BY <1>0, <2>3
  <2>5. Passed(p)'
      BY <1>t, <2>2, <2>3, <2>4 DEF Passed, HasMigration
  <2>6. ~raced' => Abreast(p)'
      BY <1>t, <2>2, <2>3, <2>4 DEF Abreast, Migrating
  <2>7. ~raced' => \A q \in Servers \ {p} : ~Migrating(q)
      BY <1>t, <2>3 DEF Abreast, Migrating
  <2> QED
      BY <1>0, <2>2, <2>3, <2>5, <2>6, <2>7, ServerMoves
<1>5. ASSUME NEW p \in Servers, CommitsMigration(p) PROVE MigInv'
  <2>1. PICK v : v = server[p].next
      OBVIOUS
  <2>2. PICK s : s = [server[p] EXCEPT !.at = "between", !.staged = 0, !.next = v + 1]
      OBVIOUS
  <2>3. /\ server[p].at = "within" /\ v \in 1..LatestMigration /\ v > server[p].starting
        /\ \A w \in 1..LatestMigration : w < v => HasMigration(w)
      BY <1>0, <1>t, <1>5, <2>1 DEF CommitsMigration, HasWriteLock, Passed
  <2>4. /\ s \in Stages /\ s.at = "between" /\ s.starting = server[p].starting
        /\ s.next = v + 1 /\ s.ships = server[p].ships
    <3>1. v + 1 \in Nat /\ 0 \in 0..Statements
        BY <1>0, <2>3
    <3> QED
        BY <1>t, <2>2, <3>1 DEF Stages
  <2>5. /\ server' = [server EXCEPT ![p] = s] /\ version' = v /\ UNCHANGED <<boots, raced>>
        /\ schema' = schema \cup {<<v, i>> : i \in 1..Statements}
      BY <1>5, <2>1, <2>2 DEF CommitsMigration
  <2>6. server'[p] = s /\ \A q \in Servers \ {p} : server'[q] = server[q]
      BY <1>0, <2>5
  <2>7. /\ HasMigration(v)' /\ \A w : HasMigration(w) => HasMigration(w)'
        /\ \A w \in 1..LatestMigration : w # v => \A i : <<w, i>> \in schema' <=> <<w, i>> \in schema
      BY <2>5 DEF HasMigration
  <2>8. MigTyped'
      BY <1>0, <2>3, <2>4, <2>5 DEF MigTyped
  <2>9. NeverHalf'
    <3> SUFFICES ASSUME NEW w \in 1..LatestMigration
                 PROVE  HasMigration(w)' \/ \A i \in 1..Statements : <<w, i>> \notin schema'
        BY DEF NeverHalf
    <3>1. HasMigration(w) \/ \A i \in 1..Statements : <<w, i>> \notin schema
        BY DEF MigInv, NeverHalf
    <3> QED
        BY <2>7, <3>1
  <2>10. ASSUME ~raced PROVE \A w \in (v + 1)..LatestMigration : ~HasMigration(w)'
    <3>1. version < v
        BY <1>0, <1>t, <2>1, <2>3, <2>10 DEF Abreast, Migrating
    <3>2. \A w \in (v + 1)..LatestMigration : ~HasMigration(w)
        BY <1>0, <2>3, <2>10, <3>1 DEF MigInv, VersionTrue
    <3> QED
        BY <1>0, <2>3, <2>7, <3>2 DEF HasMigration
  <2>11. VersionTrue'
    <3>1. \A w \in 1..v : HasMigration(w)'
        BY <1>0, <2>3, <2>7
    <3> QED
        BY <2>5, <2>10, <3>1 DEF VersionTrue
  <2>12. NoneFails'
      BY <1>t, <2>3, <2>4, <2>5, <2>6 DEF MigInv, NoneFails
  <2>13. ASSUME NEW q \in Servers PROVE Passed(q)'
    <3>1. Passed(q)
        BY <1>t
    <3>2. CASE q = p
      <4>1. \A w \in 1..LatestMigration : w < v + 1 => HasMigration(w)'
          BY <1>0, <2>3, <2>7
      <4>2. \A w \in 1..LatestMigration : w <= server[p].starting => HasMigration(w)'
          BY <1>t, <2>3, <2>7 DEF Passed
      <4> QED
          BY <2>3, <2>4, <2>6, <3>2, <4>1, <4>2 DEF Passed
    <3>3. CASE q # p
        BY <2>6, <2>7, <3>1, <3>3 DEF Passed
    <3> QED
        BY <3>2, <3>3
  <2>14. ASSUME NEW q \in Servers, ~raced' PROVE Abreast(q)'
    <3>1. Abreast(p) /\ Migrating(p)
        BY <1>t, <2>3, <2>5, <2>14 DEF Migrating
    <3>2. \A r \in Servers : Migrating(r)' => r = p
        BY <2>6, <3>1 DEF Abreast, Migrating
    <3>3. version' = IF s.next > s.starting THEN s.next - 1 ELSE s.starting
        BY <1>t, <2>3, <2>4, <2>5
    <3> QED
        BY <2>6, <3>2, <3>3 DEF Abreast
  <2> QED
      BY <2>8, <2>9, <2>11, <2>12, <2>13, <2>14 DEF MigInv
<1>6. ASSUME NEW p \in Servers, StatementFails(p) PROVE MigInv'
  <2>1. PICK s : s = [NotRunning EXCEPT !.at = "failed"]
      OBVIOUS
  <2>2. /\ server' = [server EXCEPT ![p] = s] /\ UNCHANGED <<schema, version, boots, raced>>
        /\ server[p].at = "within" /\ server[p].staged < Statements
        /\ \/ <<server[p].next, server[p].staged + 1>> \in schema
           \/ \E q \in Servers \ {p} : Migrating(q)
      BY <1>6, <2>1 DEF StatementFails, RolledBack
  <2>3. server'[p] = s /\ s.at = "failed" /\ s \in Stages
      BY <1>0, <1>f, <2>1, <2>2
  <2>4. raced
    <3> SUFFICES ASSUME ~raced PROVE FALSE
        BY <1>0
    <3>1. /\ \A q \in Servers : Migrating(q) => q = p
          /\ version < server[p].next /\ server[p].next \in 1..LatestMigration
        BY <1>0, <1>t, <2>2 DEF Abreast, Passed, Migrating
    <3>2. <<server[p].next, server[p].staged + 1>> \in schema
        BY <2>2, <3>1
    <3>3. HasMigration(server[p].next)
        BY <1>0, <1>t, <2>2, <3>1, <3>2 DEF MigInv, NeverHalf
    <3> QED
        BY <1>0, <3>1, <3>3 DEF MigInv, VersionTrue
  <2>5. Passed(p)' /\ Abreast(p)'
      BY <2>3 DEF Passed, Abreast, Migrating
  <2> QED
      BY <1>0, <2>2, <2>3, <2>4, <2>5, ServerMoves
<1>7. ASSUME NEW p \in Servers, StartsServing(p) PROVE MigInv'
  <2>1. PICK s : s = [server[p] EXCEPT !.at = "up"]
      OBVIOUS
  <2>2. /\ s \in Stages /\ s.at = "up" /\ s.starting = server[p].starting
        /\ s.next = server[p].next /\ s.ships = server[p].ships
      BY <1>t, <2>1 DEF Stages
  <2>3. /\ server' = [server EXCEPT ![p] = s] /\ UNCHANGED <<schema, version, boots, raced>>
        /\ server[p].at = "between" /\ server[p].next > server[p].ships
      BY <1>7, <2>1 DEF StartsServing
  <2>4. server'[p] = s
      BY <1>0, <2>3
  <2>5. Passed(p)' /\ Abreast(p)'
    <3>1. Passed(p)'
        BY <1>t, <2>2, <2>3, <2>4 DEF Passed, HasMigration
    <3> QED
        BY <2>2, <2>4, <3>1 DEF Abreast, Migrating
  <2> QED
      BY <1>0, <2>2, <2>3, <2>5, ServerMoves
<1>8. ASSUME NEW p \in Servers, ServerStopped(p) PROVE MigInv'
  <2>1. PICK s : s = NotRunning
      OBVIOUS
  <2>2. /\ server' = [server EXCEPT ![p] = s] /\ UNCHANGED <<schema, version, boots, raced>>
        /\ s \in Stages /\ s.at = "down"
      BY <1>i, <1>8, <2>1 DEF ServerStopped, RolledBack
  <2>3. server'[p] = s
      BY <1>0, <2>2
  <2>4. Passed(p)' /\ Abreast(p)'
      BY <2>2, <2>3 DEF Passed, Abreast, Migrating
  <2> QED
      BY <1>0, <2>2, <2>4, ServerMoves
<1>9. CASE UNCHANGED migVars
  <2>1. /\ schema' = schema /\ version' = version /\ server' = server /\ boots' = boots
        /\ raced' = raced
      BY <1>9 DEF migVars
  <2>2. MigTyped' /\ NeverHalf' /\ VersionTrue' /\ NoneFails'
      BY <2>1 DEF MigInv, MigTyped, NeverHalf, VersionTrue, NoneFails, HasMigration
  <2>3. ASSUME NEW p \in Servers PROVE Passed(p)' /\ (~raced' => Abreast(p)')
      BY <1>t, <2>1 DEF Passed, Abreast, HasMigration, Migrating
  <2> QED
      BY <2>2, <2>3 DEF MigInv
<1> QED
    BY <1>1, <1>2, <1>3, <1>4, <1>5, <1>6, <1>7, <1>8, <1>9 DEF MigNext

LEMMA MigrationsKeep == MigInv => MigrationsHold
<1> SUFFICES ASSUME MigInv PROVE MigrationsHold
    OBVIOUS
<1>1. ServesWhole
  <2> SUFFICES ASSUME NEW p \in Servers, server[p].at = "up", NEW v \in 1..server[p].ships
               PROVE  HasMigration(v)
      BY DEF ServesWhole
  <2>1. Passed(p) /\ server[p] \in Stages
      BY DEF MigInv, MigTyped
  <2>2. /\ LatestMigration \in Nat /\ server[p].ships \in 0..LatestMigration
        /\ server[p].next \in Nat
      BY <2>1, StageShape, MigrationsAssumption
  <2> QED
      BY <2>1, <2>2 DEF Passed
<1> QED
    BY <1>1 DEF MigInv, MigrationsHold
-----------------------------------------------------------------------------
(* Stores *)

StTyped ==
    /\ backend \in {"none", "file", "server"} /\ aborted \in BOOLEAN
    /\ disk \in [{"file", "server"} -> [RowKinds -> Nat]]
    /\ copy \in [Views -> [RowKinds -> Nat]] /\ writes \in Nat

\* Before the web server is started nothing is written and nobody erased.
BeforeStart ==
    backend = "none" =>
        /\ ~wiped
        /\ \A k \in RowKinds : copy["web"][k] = 0 /\ \A s \in {"file", "server"} : disk[s][k] = 0

\* No referral gets into a table, and none into the web server's memory.
NoReferrals ==
    /\ \A s \in {"file", "server"} : disk[s]["referral"] = 0
    /\ copy["web"]["referral"] = 0

StInv == StTyped /\ BeforeStart /\ NoReferrals /\ WebAgrees /\ ErasedLeavesNoRow

LEMMA InitStores == StInit => StInv
<1> SUFFICES ASSUME StInit PROVE StInv
    OBVIOUS
<1>1. NoRows \in [RowKinds -> Nat] /\ \A k \in RowKinds : NoRows[k] = 0
    BY DEF NoRows
<1>2. StTyped
  <2>1. aborted \in BOOLEAN /\ backend = "none"
      BY DEF StInit
  <2> QED
      BY <1>1, <2>1 DEF StInit, StTyped
<1>3. /\ \A k \in RowKinds : copy["web"][k] = 0 /\ \A s \in {"file", "server"} : disk[s][k] = 0
      /\ ~wiped /\ backend = "none"
    BY <1>1 DEF StInit, Views
<1> QED
    BY <1>2, <1>3 DEF StInv, BeforeStart, NoReferrals, WebAgrees, ErasedLeavesNoRow, RowKinds

\* One row is written, in memory and in the table unless that fails.
LEMMA RowSaved ==
    ASSUME StInv, NEW v \in Views, NEW k \in RowKinds, Save(v, k),
           v = "web" => k # "referral"
    PROVE  StInv'
<1>0. /\ backend \in {"file", "server"}
      /\ disk \in [{"file", "server"} -> [RowKinds -> Nat]]
      /\ copy \in [Views -> [RowKinds -> Nat]] /\ writes \in Nat
      /\ StoreOf(v) \in {"file", "server"} /\ (v # "web" => StoreOf(v) = "file")
      /\ (v = "web" => StoreOf(v) = backend)
    BY DEF StInv, StTyped, Save, StoreOf
<1>a. aborted \in BOOLEAN
    BY DEF StInv, StTyped
<1>1. PICK n \in Nat : n = writes + 1
    BY <1>0
<1>2. PICK s \in {"file", "server"} : s = StoreOf(v)
    BY <1>0
<1>3. /\ copy' = [copy EXCEPT ![v] = [copy[v] EXCEPT ![k] = n]] /\ writes' = n
      /\ backend' = backend /\ ~wiped'
    BY <1>1 DEF Save
<1>4. copy' \in [Views -> [RowKinds -> Nat]]
    BY <1>0, <1>3
<1>5. /\ disk' = disk \/ disk' = [disk EXCEPT ![s] = [disk[s] EXCEPT ![k] = n]]
      /\ aborted' \in BOOLEAN
  <2>1. aborted' = aborted \/ aborted' = (aborted \/ s = "server")
      BY <1>2 DEF Save, SaveFails
  <2>2. disk' = disk \/ disk' = [disk EXCEPT ![s] = [disk[s] EXCEPT ![k] = n]]
      BY <1>1, <1>2 DEF Save, SaveFails, Upserted
  <2> QED
      BY <1>a, <2>1, <2>2
<1>6. disk' \in [{"file", "server"} -> [RowKinds -> Nat]]
    BY <1>0, <1>5
<1>7. StTyped'
    BY <1>0, <1>3, <1>4, <1>5, <1>6 DEF StTyped
<1>8. BeforeStart' /\ ErasedLeavesNoRow'
    BY <1>0, <1>3 DEF BeforeStart, ErasedLeavesNoRow
<1>9. /\ \A j \in RowKinds \ {k} : disk'[backend][j] = disk[backend][j]
      /\ \A j \in RowKinds \ {k} : copy'["web"][j] = copy["web"][j]
    BY <1>0, <1>3, <1>5 DEF Views
<1>10. \A j \in RowKinds : v # "web" => copy'["web"][j] = copy["web"][j]
    BY <1>0, <1>3 DEF Views
<1>11. NoReferrals'
  <2>1. NoReferrals
      BY DEF StInv
  <2>2. CASE k = "referral"
    <3>1. v # "web" /\ s = "file"
        BY <1>0, <1>2, <2>2
    <3>2. disk' = disk
        BY <1>2, <2>2, <3>1 DEF Save, SaveFails, Upserted, HasTable
    <3> QED
        BY <1>10, <2>1, <3>1, <3>2 DEF NoReferrals, RowKinds
  <2>3. CASE k # "referral"
    <3>1. \A t \in {"file", "server"} : disk'[t]["referral"] = disk[t]["referral"]
        BY <1>0, <1>5, <2>3 DEF RowKinds
    <3> QED
        BY <1>9, <2>1, <2>3, <3>1 DEF NoReferrals, RowKinds
  <2> QED
      BY <2>2, <2>3
<1>12. WebAgrees'
  <2> SUFFICES ASSUME NEW j \in RowKinds \ (foreign' \cup torn')
               PROVE  copy'["web"][j] = disk'[backend][j]
      BY <1>3 DEF WebAgrees
  <2>1. j \in RowKinds \ (foreign \cup torn) => copy["web"][j] = disk[backend][j]
      BY <1>0 DEF StInv, WebAgrees
  <2>2. CASE j # k
    <3>1. j \in RowKinds \ (foreign \cup torn)
        BY <2>2 DEF Save, SaveFails
    <3> QED
        BY <1>9, <2>1, <2>2, <3>1
  <2>3. CASE j = k /\ v = "web"
    <3>1. k \notin torn' /\ k # "referral"
        BY <2>3
    <3>2. disk' = Upserted(s, k, writes + 1)
        BY <1>2, <2>3, <3>1 DEF Save
    <3>3. disk' = [disk EXCEPT ![s][k] = n] /\ s = backend
        BY <1>0, <1>1, <1>2, <2>3, <3>1, <3>2 DEF Upserted, HasTable
    <3> QED
        BY <1>0, <1>3, <2>3, <3>3 DEF Views
  <2>4. CASE j = k /\ v # "web"
    <3>1. torn' = torn
        BY <2>4 DEF Save
    <3>2. CASE backend = "file"
      <4>1. foreign' = foreign \/ foreign' = foreign \cup {k}
          BY <2>4, <3>2 DEF Save, SaveFails, Meddles
      <4>2. foreign' = foreign /\ disk' = disk
          BY <2>4, <3>2, <4>1 DEF Save, SaveFails, Meddles
      <4> QED
          BY <1>10, <2>1, <2>4, <3>1, <4>2
    <3>3. CASE backend = "server"
      <4>1. foreign' = foreign
          BY <2>4, <3>3 DEF Save, SaveFails, Meddles
      <4>2. disk'[backend] = disk[backend]
          BY <1>0, <1>2, <1>5, <2>4, <3>3
      <4> QED
          BY <1>10, <2>1, <2>4, <3>1, <4>1, <4>2
    <3> QED
        BY <1>0, <3>2, <3>3
  <2> QED
      BY <2>2, <2>3, <2>4
<1> QED
    BY <1>7, <1>8, <1>11, <1>12 DEF StInv

\* Rows are removed by the web server, from memory and from the tables unless
\* that fails; nobody is taken to be erased who has a row left.
LEMMA RowsRemoved ==
    ASSUME StInv, NEW kinds \in SUBSET RowKinds, NEW ok \in BOOLEAN, NEW left \in [RowKinds -> Nat],
           RemoveAll(kinds, [disk EXCEPT ![backend] = left], ok),
           \A k \in RowKinds : left[k] = IF k \in kinds /\ k # "referral" THEN 0
                                         ELSE disk[backend][k],
           \/ wiped' = wiped
           \/ wiped' = ok /\ UserScoped \subseteq kinds
    PROVE  StInv'
<1>0. /\ backend \in {"file", "server"} /\ backend' = backend
      /\ disk \in [{"file", "server"} -> [RowKinds -> Nat]]
      /\ copy \in [Views -> [RowKinds -> Nat]] /\ writes \in Nat /\ writes' = writes
    BY DEF StInv, StTyped, RemoveAll
<1>a. aborted \in BOOLEAN
    BY DEF StInv, StTyped
<1>1. PICK web \in [RowKinds -> Nat] :
          web = [k \in RowKinds |-> IF k \in kinds THEN 0 ELSE copy["web"][k]]
    BY <1>0 DEF Views
<1>2. copy' = [copy EXCEPT !["web"] = web]
    BY <1>0, <1>1 DEF RemoveAll, Views
<1>3. copy' \in [Views -> [RowKinds -> Nat]] /\ copy'["web"] = web
    BY <1>0, <1>2 DEF Views
<1>4. /\ \/ ok /\ disk' = [disk EXCEPT ![backend] = left]
               /\ foreign' = foreign \ kinds /\ torn' = torn \ kinds
         \/ ~ok /\ disk' = disk /\ foreign' = foreign /\ torn' = torn \cup kinds
    BY DEF RemoveAll, SaveFails
<1>5. aborted' \in BOOLEAN
    BY <1>a DEF RemoveAll, SaveFails
<1>6. disk' \in [{"file", "server"} -> [RowKinds -> Nat]]
    BY <1>0, <1>4
<1>7. StTyped'
    BY <1>0, <1>3, <1>5, <1>6 DEF StTyped
<1>8. BeforeStart'
    BY <1>0 DEF BeforeStart
<1>9. NoReferrals'
  <2>1. NoReferrals /\ "referral" \in RowKinds
      BY DEF StInv, RowKinds
  <2>2. \A t \in {"file", "server"} : disk'[t]["referral"] = 0
      BY <1>0, <1>4, <2>1 DEF NoReferrals
  <2> QED
      BY <1>1, <1>3, <2>1, <2>2 DEF NoReferrals
<1>10. WebAgrees'
  <2> SUFFICES ASSUME NEW j \in RowKinds \ (foreign' \cup torn')
               PROVE  copy'["web"][j] = disk'[backend][j]
      BY <1>0 DEF WebAgrees
  <2>1. j \in RowKinds \ (foreign \cup torn) => copy["web"][j] = disk[backend][j]
      BY <1>0 DEF StInv, WebAgrees
  <2>2. disk[backend]["referral"] = 0
      BY <1>0 DEF StInv, NoReferrals
  <2>3. CASE j \in kinds
      BY <1>0, <1>1, <1>3, <1>4, <2>2, <2>3
  <2>4. CASE j \notin kinds
    <3>1. j \in RowKinds \ (foreign \cup torn)
        BY <1>4, <2>4
    <3> QED
        BY <1>0, <1>1, <1>3, <1>4, <2>1, <2>4, <3>1
  <2> QED
      BY <2>3, <2>4
<1>11. ErasedLeavesNoRow'
  <2> SUFFICES ASSUME wiped', NEW j \in UserScoped PROVE disk'[backend][j] = 0
      BY <1>0 DEF ErasedLeavesNoRow
  <2>1. j \in RowKinds /\ j # "referral"
      BY DEF UserScoped, RowKinds
  <2>2. CASE wiped' = wiped
    <3>1. disk[backend][j] = 0
        BY <2>2 DEF StInv, ErasedLeavesNoRow
    <3> QED
        BY <1>0, <1>4, <2>1, <3>1
  <2>3. CASE wiped' = ok /\ UserScoped \subseteq kinds
      BY <1>0, <1>4, <2>1, <2>3
  <2> QED
      BY <2>2, <2>3
<1> QED
    BY <1>7, <1>8, <1>9, <1>10, <1>11 DEF StInv

LEMMA NextStores == StInv /\ [StNext]_stVars => StInv'
<1> SUFFICES ASSUME StInv, [StNext]_stVars PROVE StInv'
    OBVIOUS
<1>0. /\ backend \in {"none", "file", "server"}
      /\ disk \in [{"file", "server"} -> [RowKinds -> Nat]]
      /\ copy \in [Views -> [RowKinds -> Nat]] /\ writes \in Nat
      /\ NoReferrals
    BY DEF StInv, StTyped
<1>a. aborted \in BOOLEAN
    BY DEF StInv, StTyped
<1>k. /\ ToolKinds \subseteq RowKinds /\ "referral" \notin ToolKinds /\ "referral" \in RowKinds
      /\ "web" \in Views /\ "agent" \in Views /\ "call" \in Views
    BY DEF ToolKinds, RowKinds, Views
<1>1. CASE StartWeb
  <2>1. /\ backend = "none" /\ backend' \in {"file", "server"}
        /\ UNCHANGED <<disk, copy, aborted, writes, foreign, torn, wiped>>
      BY <1>1, StoresAssumption DEF StartWeb
  <2>2. /\ ~wiped
        /\ \A k \in RowKinds : copy["web"][k] = 0 /\ \A s \in {"file", "server"} : disk[s][k] = 0
      BY <2>1 DEF StInv, BeforeStart
  <2>3. StTyped'
      BY <1>0, <1>a, <2>1 DEF StTyped
  <2>4. WebAgrees' /\ ErasedLeavesNoRow' /\ BeforeStart' /\ NoReferrals'
      BY <1>0, <2>1, <2>2 DEF WebAgrees, ErasedLeavesNoRow, BeforeStart, NoReferrals
  <2> QED
      BY <2>3, <2>4 DEF StInv
<1>2. ASSUME NEW ok \in BOOLEAN, RemoveCompany(ok) PROVE StInv'
  <2>1. PICK left \in [RowKinds -> Nat] :
            left = [disk[backend] EXCEPT !.company = 0, !.found = 0]
      BY <1>0, <1>2 DEF RemoveCompany, RemoveAll, RowKinds
  <2>2. RemoveAll({"company", "found"}, [disk EXCEPT ![backend] = left], ok) /\ wiped' = wiped
      BY <1>0, <1>2, <2>1 DEF RemoveCompany, RemoveAll, Dropped
  <2>3. \A k \in RowKinds : left[k] = IF k \in {"company", "found"} /\ k # "referral" THEN 0
                                      ELSE disk[backend][k]
      BY <1>0, <2>1, <2>2 DEF RowKinds, RemoveAll
  <2> QED
      BY <2>2, <2>3, RowsRemoved DEF RowKinds
<1>3. ASSUME NEW ok \in BOOLEAN, DeleteOwn(ok) PROVE StInv'
  <2>1. PICK left \in [RowKinds -> Nat] : left = [disk[backend] EXCEPT !.own = 0]
      BY <1>0, <1>3 DEF DeleteOwn, RemoveAll, RowKinds
  <2>2. RemoveAll({"own"}, [disk EXCEPT ![backend] = left], ok) /\ wiped' = wiped
      BY <1>0, <1>3, <2>1 DEF DeleteOwn, RemoveAll
  <2>3. \A k \in RowKinds : left[k] = IF k \in {"own"} /\ k # "referral" THEN 0
                                      ELSE disk[backend][k]
      BY <1>0, <2>1, <2>2 DEF RowKinds, RemoveAll
  <2> QED
      BY <2>2, <2>3, RowsRemoved DEF RowKinds
<1>4. ASSUME NEW ok \in BOOLEAN, Erase(ok) PROVE StInv'
  <2>1. PICK left \in [RowKinds -> Nat] :
            left = [k \in RowKinds |-> IF k \in UserScoped THEN 0 ELSE disk[backend][k]]
      BY <1>0, <1>4 DEF Erase, RemoveAll
  <2>2. RemoveAll(RowKinds, [disk EXCEPT ![backend] = left], ok) /\ wiped' = ok
      BY <1>0, <1>4, <2>1 DEF Erase, RemoveAll
  <2>3. \A k \in RowKinds : left[k] = IF k \in RowKinds /\ k # "referral" THEN 0
                                      ELSE disk[backend][k]
      BY <2>1 DEF RowKinds, UserScoped
  <2> QED
      BY <2>2, <2>3, RowsRemoved DEF UserScoped, RowKinds
<1>5. ASSUME NEW k \in ToolKinds, NEW v \in Views, Save(v, k) PROVE StInv'
    BY <1>5, <1>k, RowSaved
<1>6. ASSUME NEW v \in {"agent", "call"}, Proposes(v) PROVE StInv'
    BY <1>6, <1>k, RowSaved DEF Proposes
<1>7. ASSUME NEW v \in {"web", "agent"}, Advances(v) PROVE StInv'
  <2>1. v # "web"
      BY <1>7, <1>0 DEF Advances, NoReferrals
  <2> QED
      BY <1>7, <1>k, <2>1, RowSaved DEF Advances
<1>8. ASSUME NEW v \in Views, Connects(v) PROVE StInv'
  <2>1. /\ backend \in {"file", "server"} /\ backend' = backend /\ disk' = disk
        /\ writes' = writes /\ wiped' = wiped
        /\ StoreOf(v) \in {"file", "server"} /\ (v = "web" => StoreOf(v) = backend)
        /\ copy' = [copy EXCEPT ![v] = disk[StoreOf(v)]]
      BY <1>0, <1>8 DEF Connects, Reload, StoreOf
  <2>2. copy' \in [Views -> [RowKinds -> Nat]]
      BY <1>0, <2>1
  <2>3. aborted' \in BOOLEAN
      BY <1>a, <1>8 DEF Connects
  <2>4. StTyped'
      BY <1>0, <2>1, <2>2, <2>3 DEF StTyped
  <2>5. copy'["web"] = IF v = "web" THEN disk[backend] ELSE copy["web"]
      BY <1>0, <2>1 DEF Views
  <2>6. NoReferrals' /\ BeforeStart' /\ ErasedLeavesNoRow'
      BY <1>0, <2>1, <2>5 DEF NoReferrals, BeforeStart, ErasedLeavesNoRow, StInv
  <2>7. WebAgrees'
    <3>1. CASE v = "web"
        BY <2>1, <2>5, <3>1 DEF WebAgrees
    <3>2. CASE v # "web"
      <4>1. foreign' = foreign /\ torn' = torn
          BY <1>8, <3>2 DEF Connects
      <4> QED
          BY <2>1, <2>5, <3>2, <4>1 DEF WebAgrees, StInv
    <3> QED
        BY <3>1, <3>2
  <2> QED
      BY <2>4, <2>6, <2>7 DEF StInv
<1>9. CASE UNCHANGED stVars
  <2>1. /\ backend' = backend /\ disk' = disk /\ copy' = copy /\ aborted' = aborted
        /\ writes' = writes /\ foreign' = foreign /\ torn' = torn /\ wiped' = wiped
      BY <1>9 DEF stVars
  <2>2. StTyped'
      BY <1>0, <1>a, <2>1 DEF StTyped
  <2> QED
      BY <2>1, <2>2 DEF StInv, BeforeStart, NoReferrals, WebAgrees, ErasedLeavesNoRow
<1> QED
    BY <1>1, <1>2, <1>3, <1>4, <1>5, <1>6, <1>7, <1>8, <1>9, <1>k DEF StNext, Agent, ToolCall

LEMMA StoresKeep == StInv => StoresHold
BY DEF StInv, StoresHold
-----------------------------------------------------------------------------
(* Alerts *)

AltTyped ==
    /\ found \in Seq(Jobs) /\ pinged \in Seq(Jobs)
    /\ mark \in Nat /\ mark <= Len(found)
    /\ subs \subseteq Subs
    /\ sender \in [Senders -> Sending]
    /\ received \in [Jobs \X Subs -> Nat] /\ slacked \in [Jobs -> Nat]

\* A job is discovered once.
FoundOnce == \A i, k \in DOMAIN found : found[i] = found[k] => i = k

\* What lies behind the mark was accounted for, and while a listing is sent
\* everything is: whatever comes meanwhile is late.
Accounted(i) == found[i] \in tried \cup cut \cup late \cup imported
Marked ==
    /\ \A i \in DOMAIN found : i <= mark => Accounted(i)
    /\ Pushing => \A i \in DOMAIN found : Accounted(i)

Awake(s)  == sender[s].does # "sleep"
Alone     == \A s, t \in Senders : Awake(s) /\ Awake(t) => s = t
Behind(p) == \E i \in DOMAIN found : found[i] = p[1] /\ i <= mark
Notified(p)   == /\ \E i \in DOMAIN found : found[i] = p[1]
             /\ \E s \in Senders : sender[s].does = "push" /\ sender[s].told
PushedOnce ==
    /\ \A p \in Jobs \X Subs : received[p] <= 1 /\ (received[p] > 0 => Behind(p) \/ Notified(p))
    /\ \A s \in Senders : sender[s].does = "push" =>
         \A p \in sender[s].todo : /\ received[p] = 0
                                   /\ \E i \in DOMAIN found : found[i] = p[1]

\* As long as Slack's memory holds all jobs there are, it forgets none.
Few == Len(found) <= SlackKept
PingedOnce ==
    /\ \A i, k \in DOMAIN pinged : pinged[i] = pinged[k] => i = k
    /\ ToSet(pinged) \subseteq ToSet(found)
    /\ \A j \in Jobs : slacked[j] <= 1 /\ (slacked[j] > 0 => j \in ToSet(pinged))
    /\ \A s \in Senders : sender[s].does = "ping" =>
         /\ sender[s].seen = pinged
         /\ sender[s].job \in ToSet(found) \ ToSet(pinged)

AltInv ==
    /\ AltTyped /\ FoundOnce /\ Marked
    /\ ~twice => Alone /\ PushedOnce
    /\ ~twice /\ Few => PingedOnce

LEMMA SenderShape ==
    ASSUME NEW d \in Sending
    PROVE  /\ d.does \in {"sleep", "push", "ping"}
           /\ d.does = "sleep" <=> d = Asleep
           /\ d.does = "push" => /\ d.todo \in SUBSET (Jobs \X Subs)
                                 /\ d = [does |-> "push", todo |-> d.todo, told |-> d.told]
           /\ d.does = "ping" => d.job \in Jobs /\ d.seen \in Seq(Jobs)
<1>1. CASE d = Asleep
    BY <1>1 DEF Asleep
<1>2. CASE d \in [does : {"push"}, todo : SUBSET (Jobs \X Subs), told : BOOLEAN]
    BY <1>2 DEF Asleep
<1>3. CASE d \in [does : {"ping"}, job : Jobs, seen : Seq(Jobs)]
    BY <1>3 DEF Asleep
<1> QED
    BY <1>1, <1>2, <1>3 DEF Sending

LEMMA PushShape ==
    ASSUME NEW todo \in SUBSET (Jobs \X Subs), NEW told \in BOOLEAN
    PROVE  [does |-> "push", todo |-> todo, told |-> told] \in Sending
BY DEF Sending

LEMMA PingShape ==
    ASSUME NEW j \in Jobs, NEW known \in Seq(Jobs)
    PROVE  [does |-> "ping", job |-> j, seen |-> known] \in Sending
BY DEF Sending

\* A sequence without repetitions is as long as its elements are many.
LEMMA CountOfInjective ==
    ASSUME NEW S, NEW s \in Seq(S), \A i, k \in DOMAIN s : s[i] = s[k] => i = k
    PROVE  IsFiniteSet(ToSet(s)) /\ Cardinality(ToSet(s)) = Len(s)
<1>1. Len(s) \in Nat /\ DOMAIN s = 1..Len(s)
    OBVIOUS
<1>2. IsFiniteSet(1..Len(s)) /\ Cardinality(1..Len(s)) = Len(s)
    BY <1>1, FS_Interval
<1>3. s \in Surjection(1..Len(s), ToSet(s)) /\ s \in Injection(1..Len(s), ToSet(s))
  <2>1. s \in [1..Len(s) -> ToSet(s)]
      BY <1>1 DEF ToSet
  <2> QED
      BY <1>1, <2>1 DEF Surjection, Injection, IsInjective, ToSet
<1> QED
    BY <1>2, <1>3, FS_Surjection

\* One that leaves an element out of a finite set is shorter than the set.
LEMMA ShorterThanSet ==
    ASSUME NEW S, NEW s \in Seq(S), \A i, k \in DOMAIN s : s[i] = s[k] => i = k,
           NEW T, IsFiniteSet(T), ToSet(s) \subseteq T, NEW j \in T \ ToSet(s)
    PROVE  Len(s) < Cardinality(T)
<1>1. IsFiniteSet(ToSet(s)) /\ Cardinality(ToSet(s)) = Len(s)
    BY CountOfInjective
<1>2. IsFiniteSet(T \ {j}) /\ Cardinality(T \ {j}) = Cardinality(T) - 1
    BY FS_RemoveElement
<1>3. Cardinality(ToSet(s)) <= Cardinality(T \ {j})
    BY <1>2, FS_Subset
<1>4. Cardinality(T) \in Nat /\ Len(s) \in Nat
    BY FS_CardinalityType
<1> QED
    BY <1>1, <1>2, <1>3, <1>4

LEMMA InitAlerts == AltInit => AltInv
<1> SUFFICES ASSUME AltInit PROVE AltInv
    OBVIOUS
<1>1. Asleep \in Sending /\ Asleep.does = "sleep"
    BY DEF Asleep, Sending
<1>2. /\ found = <<>> /\ pinged = <<>> /\ mark = 0 /\ \A s \in Senders : sender[s].does = "sleep"
      /\ \A p \in Jobs \X Subs : received[p] = 0
      /\ \A j \in Jobs : slacked[j] = 0
    BY <1>1 DEF AltInit
<1>3. AltTyped
    BY <1>1 DEF AltInit, AltTyped
<1> QED
    BY <1>2, <1>3 DEF AltInv, FoundOnce, Marked, Pushing, Alone, Awake, PushedOnce, PingedOnce,
                      ToSet

\* What holds of the jobs, the marks and the messages does not depend on who
\* has subscribed, and gets no weaker when more is accounted for.
LEMMA AlertsKept ==
    ASSUME AltInv, UNCHANGED <<found, mark, pinged, sender, received, slacked, twice>>,
           subs' \subseteq Subs,
           tried \subseteq tried', cut \subseteq cut', late \subseteq late', imported \subseteq imported'
    PROVE  AltInv'
<1>1. AltTyped' /\ FoundOnce'
    BY DEF AltInv, AltTyped, FoundOnce
<1>2. Marked'
    BY DEF AltInv, Marked, Accounted, Pushing
<1>3. ~twice' => Alone' /\ PushedOnce'
    BY DEF AltInv, Alone, Awake, PushedOnce, Behind, Notified
<1>4. ~twice' /\ Few' => PingedOnce'
    BY DEF AltInv, Few, PingedOnce
<1> QED
    BY <1>1, <1>2, <1>3, <1>4 DEF AltInv

LEMMA NextAlerts == AltInv /\ [AltNext]_altVars => AltInv'
<1> SUFFICES ASSUME AltInv, [AltNext]_altVars PROVE AltInv'
    OBVIOUS
<1>0. /\ found \in Seq(Jobs) /\ pinged \in Seq(Jobs)
      /\ mark \in Nat /\ mark <= Len(found) /\ Len(found) \in Nat
      /\ subs \subseteq Subs
      /\ sender \in [Senders -> Sending]
      /\ received \in [Jobs \X Subs -> Nat] /\ slacked \in [Jobs -> Nat]
      /\ SlackKept \in Nat
    BY AlertsAssumption DEF AltInv, AltTyped
<1>a. Asleep \in Sending /\ Asleep.does = "sleep"
    BY DEF Asleep, Sending
<1>m. Marked /\ FoundOnce
    BY DEF AltInv
<1>1. ASSUME NEW j \in Jobs, Discover(j) PROVE AltInv'
  <2>1. /\ found' = Append(found, j) /\ \A i \in DOMAIN found : found[i] # j
        /\ UNCHANGED <<imported, mark, subs, pinged, sender, received, tried, cut, slacked, twice>>
        /\ late' = IF Pushing THEN late \cup {j} ELSE late
      BY <1>1 DEF Discover, ToSet
  <2>2. /\ found' \in Seq(Jobs) /\ Len(found') = Len(found) + 1 /\ found'[Len(found) + 1] = j
        /\ DOMAIN found = 1..Len(found) /\ DOMAIN found' = 1..(Len(found) + 1)
        /\ \A i \in DOMAIN found : found'[i] = found[i]
      BY <1>0, <2>1
  <2>3. AltTyped'
      BY <1>0, <2>1, <2>2 DEF AltTyped
  <2>4. FoundOnce'
      BY <1>0, <1>m, <2>1, <2>2 DEF FoundOnce
  <2>5. Marked'
    <3>1. \A i \in DOMAIN found : Accounted(i) => Accounted(i)'
        BY <2>1, <2>2 DEF Accounted
    <3>n. PICK n \in Nat : n = Len(found) + 1
        BY <1>0
    <3>2. Pushing => Accounted(n)'
      <4>1. found'[n] = j
          BY <2>2, <3>n
      <4> QED
          BY <2>1, <4>1 DEF Accounted
    <3>3. Pushing' <=> Pushing
        BY <2>1 DEF Pushing
    <3>4. \A i \in DOMAIN found' : i \in DOMAIN found \/ i = n
        BY <1>0, <2>2, <3>n
    <3>5. \A i \in DOMAIN found' : i <= mark' => Accounted(i)'
      <4>1. mark' = mark /\ mark \in 0..Len(found)
          BY <1>0, <2>1
      <4>2. ~(n <= mark)
          BY <1>0, <3>n, <4>1
      <4> QED
          BY <1>m, <3>1, <3>4, <4>1, <4>2 DEF Marked
    <3>6. Pushing' => \A i \in DOMAIN found' : Accounted(i)'
        BY <1>m, <3>1, <3>2, <3>3, <3>4 DEF Marked
    <3> QED
        BY <3>5, <3>6 DEF Marked
  <2>6. ASSUME ~twice PROVE Alone' /\ PushedOnce'
    <3>1. Alone /\ PushedOnce
        BY <2>6 DEF AltInv
    <3>2. Alone'
        BY <2>1, <3>1 DEF Alone, Awake
    <3>3. \A p \in Jobs \X Subs : (Behind(p) => Behind(p)') /\ (Notified(p) => Notified(p)')
        BY <2>1, <2>2 DEF Behind, Notified
    <3> QED
        BY <2>1, <2>2, <3>1, <3>2, <3>3 DEF PushedOnce
  <2>7. ASSUME ~twice, Few' PROVE PingedOnce'
    <3>1. Few
        BY <1>0, <2>2, <2>7 DEF Few
    <3>2. PingedOnce /\ ToSet(found) \subseteq ToSet(found')
        BY <2>2, <2>7, <3>1 DEF AltInv, ToSet
    <3> QED
        BY <2>1, <3>2 DEF PingedOnce
  <2> QED
      BY <2>1, <2>3, <2>4, <2>5, <2>6, <2>7 DEF AltInv
<1>2. ASSUME NEW j \in Jobs, Import(j) PROVE AltInv'
    BY <1>0, <1>2, AlertsKept DEF Import
<1>3. ASSUME NEW b \in Subs, Subscribe(b) PROVE AltInv'
    BY <1>0, <1>3, AlertsKept DEF Subscribe
<1>4. ASSUME NEW s \in Senders, BeginPush(s) PROVE AltInv'
  <2>1. /\ \A j \in Listed : \E i \in Unannounced : found[i] = j
        /\ Unannounced \subseteq DOMAIN found /\ Listed \subseteq Jobs
        /\ Listed \X subs \in SUBSET (Jobs \X Subs)
    <3>1. Unannounced \subseteq DOMAIN found /\ \A i \in DOMAIN found : found[i] \in Jobs
        BY <1>0 DEF Unannounced
    <3>2. \A j \in Listed : \E i \in Unannounced : found[i] = j
        BY DEF Listed
    <3>3. Listed \subseteq Jobs
        BY <3>1, <3>2
    <3> QED
        BY <1>0, <3>1, <3>2, <3>3
  <2>2. PICK d \in Sending : d = [does |-> "push", todo |-> Listed \X subs, told |-> FALSE]
      BY <2>1, PushShape
  <2>3. d.does = "push" /\ d.todo = Listed \X subs /\ ~ d.told
      BY <2>2
  <2>4. /\ sender[s].does = "sleep" /\ sender' = [sender EXCEPT ![s] = d]
        /\ twice' = (twice \/ Others(s)) /\ tried' = tried \cup Listed
        /\ cut' = cut \cup ({found[i] : i \in Unannounced} \ Listed)
        /\ UNCHANGED <<found, imported, mark, subs, pinged, received, late, slacked>>
      BY <1>4, <1>a, <2>2 DEF BeginPush, Wakes
  <2>5. sender'[s] = d /\ \A t \in Senders \ {s} : sender'[t] = sender[t]
      BY <1>0, <2>4
  <2>6. AltTyped' /\ FoundOnce'
      BY <1>0, <1>m, <2>4 DEF AltTyped, FoundOnce
  <2>7. Marked'
    <3>1. \A i \in DOMAIN found : i <= mark => Accounted(i)
        BY <1>m DEF Marked
    <3>2. ASSUME NEW i \in DOMAIN found PROVE Accounted(i)'
      <4>1. CASE i \in Unannounced
          BY <2>4, <4>1 DEF Accounted
      <4>2. CASE found[i] \in imported
          BY <2>4, <4>2 DEF Accounted
      <4>3. CASE i <= mark
          BY <2>4, <3>1, <4>3 DEF Accounted
      <4> QED
          BY <1>0, <4>1, <4>2, <4>3 DEF Unannounced
    <3> QED
        BY <2>4, <3>2 DEF Marked
  <2>8. ASSUME ~twice' PROVE Alone' /\ PushedOnce'
    <3>1. ~twice /\ Alone /\ PushedOnce /\ \A t \in Senders : ~ Awake(t)
        BY <1>a, <2>4, <2>8 DEF AltInv, Others, Awake
    <3>2. Alone'
        BY <2>5, <3>1 DEF Alone, Awake
    <3>3. ASSUME NEW p \in Jobs \X Subs
          PROVE  received'[p] <= 1 /\ (received'[p] > 0 => Behind(p)')
      <4>1. ~ Notified(p)
          BY <3>1 DEF Notified, Awake
      <4> QED
          BY <2>4, <3>1, <4>1 DEF PushedOnce, Behind
    <3>4. ASSUME NEW p \in Listed \X subs
          PROVE  received'[p] = 0 /\ \E i \in DOMAIN found : found[i] = p[1]
      <4>1. p \in Jobs \X Subs /\ p[1] \in Listed
          BY <2>1
      <4>2. PICK i \in Unannounced : found[i] = p[1]
          BY <2>1, <4>1
      <4>3. i \in DOMAIN found /\ i > mark
          BY <2>1 DEF Unannounced
      <4>4. ~ Behind(p)
          BY <1>m, <1>0, <4>2, <4>3 DEF Behind, FoundOnce
      <4>5. received[p] \in Nat /\ ~(received[p] > 0)
          BY <1>0, <2>4, <3>3, <4>1, <4>4 DEF Behind
      <4> QED
          BY <2>4, <4>2, <4>3, <4>5
    <3>5. ASSUME NEW t \in Senders, sender'[t].does = "push" PROVE sender'[t] = d
        BY <2>5, <3>1, <3>5 DEF Awake
    <3> QED
        BY <2>3, <2>4, <3>2, <3>3, <3>4, <3>5 DEF PushedOnce
  <2>9. ASSUME ~twice', Few' PROVE PingedOnce'
    <3>1. PingedOnce
        BY <2>4, <2>9 DEF AltInv, Few
    <3> QED
        BY <2>3, <2>4, <2>5, <3>1 DEF PingedOnce
  <2> QED
      BY <2>6, <2>7, <2>8, <2>9 DEF AltInv
<1>5. ASSUME NEW s \in Senders, PushUnavailable(s) PROVE AltInv'
  <2>1. /\ sender[s].does = "push" /\ ~ sender[s].told
        /\ sender' = [sender EXCEPT ![s] = Asleep]
        /\ UNCHANGED <<found, imported, mark, subs, pinged, received, tried, cut, late, slacked,
                       twice>>
      BY <1>5 DEF PushUnavailable, Sleeps
  <2>2. sender'[s] = Asleep /\ \A t \in Senders \ {s} : sender'[t] = sender[t]
      BY <1>0, <2>1
  <2>3. AltTyped' /\ FoundOnce'
      BY <1>0, <1>a, <1>m, <2>1 DEF AltTyped, FoundOnce
  <2>4. Marked'
    <3>1. Pushing' => Pushing
        BY <1>a, <2>2 DEF Pushing
    <3> QED
        BY <1>m, <2>1, <3>1 DEF Marked, Accounted
  <2>5. ASSUME ~twice PROVE Alone' /\ PushedOnce'
    <3>1. Alone /\ PushedOnce
        BY <2>5 DEF AltInv
    <3>2. Alone'
        BY <1>a, <2>2, <3>1 DEF Alone, Awake
    <3>3. \A p \in Jobs \X Subs : (Behind(p) => Behind(p)') /\ (Notified(p) => Notified(p)')
        BY <2>1, <2>2 DEF Behind, Notified
    <3> QED
        BY <1>a, <2>1, <2>2, <3>1, <3>2, <3>3 DEF PushedOnce
  <2>6. ASSUME ~twice, Few' PROVE PingedOnce'
    <3>1. PingedOnce
        BY <2>1, <2>6 DEF AltInv, Few
    <3> QED
        BY <1>a, <2>1, <2>2, <3>1 DEF PingedOnce
  <2> QED
      BY <2>1, <2>3, <2>4, <2>5, <2>6 DEF AltInv
<1>6. ASSUME NEW s \in Senders, EndPush(s) PROVE AltInv'
  <2>1. /\ sender[s].does = "push" /\ mark' = Len(found)
        /\ sender' = [sender EXCEPT ![s] = Asleep]
        /\ UNCHANGED <<found, imported, subs, pinged, received, tried, cut, late, slacked, twice>>
      BY <1>6 DEF EndPush, Sleeps, NewMark
  <2>2. sender'[s] = Asleep /\ \A t \in Senders \ {s} : sender'[t] = sender[t]
      BY <1>0, <2>1
  <2>3. AltTyped' /\ FoundOnce'
      BY <1>0, <1>a, <1>m, <2>1 DEF AltTyped, FoundOnce
  <2>4. Marked'
    <3>1. \A i \in DOMAIN found : Accounted(i)
        BY <1>m, <2>1 DEF Marked, Pushing
    <3> QED
        BY <2>1, <3>1 DEF Marked, Accounted
  <2>5. ASSUME ~twice PROVE Alone' /\ PushedOnce'
    <3>1. Alone /\ PushedOnce
        BY <2>5 DEF AltInv
    <3>2. Alone'
        BY <1>a, <2>2, <3>1 DEF Alone, Awake
    <3>3. \A p \in Jobs \X Subs : Behind(p) \/ Notified(p) => Behind(p)'
        BY <1>0, <2>1 DEF Behind, Notified
    <3> QED
        BY <1>a, <2>1, <2>2, <3>1, <3>2, <3>3 DEF PushedOnce
  <2>6. ASSUME ~twice, Few' PROVE PingedOnce'
    <3>1. PingedOnce
        BY <2>1, <2>6 DEF AltInv, Few
    <3> QED
        BY <1>a, <2>1, <2>2, <3>1 DEF PingedOnce
  <2> QED
      BY <2>1, <2>3, <2>4, <2>5, <2>6 DEF AltInv
<1>7. ASSUME NEW s \in Senders, EndPing(s) PROVE AltInv'
  <2>1. PICK j \in Jobs : j = sender[s].job
      BY <1>0, <1>7, SenderShape DEF EndPing
  <2>2. PICK known \in Seq(Jobs) : known = sender[s].seen
      BY <1>0, <1>7, SenderShape DEF EndPing
  <2>3. /\ sender[s].does = "ping" /\ sender' = [sender EXCEPT ![s] = Asleep]
        /\ UNCHANGED <<found, imported, mark, subs, received, tried, cut, late, twice>>
      BY <1>7 DEF EndPing, Sleeps
  <2>4. \/ slacked' = [slacked EXCEPT ![j] = @ + 1] /\ pinged' = Remembered(known, j)
        \/ slacked' = slacked /\ pinged' = pinged
      BY <1>7, <2>1, <2>2 DEF EndPing
  <2>5. sender'[s] = Asleep /\ \A t \in Senders \ {s} : sender'[t] = sender[t]
      BY <1>0, <2>3
  <2>6. Remembered(known, j) \in Seq(Jobs)
    <3>0. Append(known, j) \in Seq(Jobs)
        BY <2>1, <2>2
    <3>1. PICK all \in Seq(Jobs) : all = Append(known, j)
        BY <3>0
    <3>l. Len(all) \in Nat
        BY <3>1
    <3>i. (IF Len(all) > SlackKept THEN Len(all) - SlackKept + 1 ELSE 1) \in Nat \ {0}
        BY <1>0, <3>l
    <3>2. PICK from \in Nat \ {0} :
              from = IF Len(all) > SlackKept THEN Len(all) - SlackKept + 1 ELSE 1
        BY <3>i
    <3>3. SubSeq(all, from, Len(all)) \in Seq(Jobs)
        BY <3>1, <3>2, <3>l
    <3> QED
        BY <3>1, <3>2, <3>3 DEF Remembered
  <2>7. AltTyped' /\ FoundOnce'
      BY <1>0, <1>a, <1>m, <2>3, <2>4, <2>6 DEF AltTyped, FoundOnce
  <2>8. Marked'
    <3>1. Pushing' => Pushing
        BY <1>a, <2>5 DEF Pushing
    <3> QED
        BY <1>m, <2>3, <3>1 DEF Marked, Accounted
  <2>9. ASSUME ~twice PROVE Alone' /\ PushedOnce'
    <3>1. Alone /\ PushedOnce
        BY <2>9 DEF AltInv
    <3>2. Alone'
        BY <1>a, <2>5, <3>1 DEF Alone, Awake
    <3>3. \A p \in Jobs \X Subs : (Behind(p) => Behind(p)') /\ (Notified(p) => Notified(p)')
        BY <2>3, <2>5 DEF Behind, Notified
    <3> QED
        BY <1>a, <2>3, <2>5, <3>1, <3>2, <3>3 DEF PushedOnce
  <2>10. ASSUME ~twice, Few' PROVE PingedOnce'
    <3>1. PingedOnce /\ Alone
        BY <2>3, <2>10 DEF AltInv, Few
    <3>2. known = pinged /\ j \in ToSet(found) \ ToSet(pinged)
        BY <2>1, <2>2, <2>3, <3>1 DEF PingedOnce
    <3>3. \A t \in Senders : sender'[t].does # "ping"
        BY <1>a, <2>3, <2>5, <3>1 DEF Alone, Awake
    <3>4. CASE slacked' = slacked /\ pinged' = pinged
        BY <2>3, <3>1, <3>3, <3>4 DEF PingedOnce
    <3>5. CASE slacked' = [slacked EXCEPT ![j] = @ + 1] /\ pinged' = Remembered(known, j)
      <4>1. Len(pinged) < Len(found)
        <5>1. \A i, k \in DOMAIN pinged : pinged[i] = pinged[k] => i = k
            BY <3>1 DEF PingedOnce
        <5>2. IsFiniteSet(ToSet(found)) /\ Cardinality(ToSet(found)) = Len(found)
            BY <1>0, <1>m, CountOfInjective DEF FoundOnce
        <5>3. ToSet(pinged) \subseteq ToSet(found)
            BY <3>1 DEF PingedOnce
        <5>4. Len(pinged) < Cardinality(ToSet(found))
          <6>1. PICK T : T = ToSet(found)
              OBVIOUS
          <6>2. Len(pinged) < Cardinality(T)
              BY <1>0, <3>2, <5>1, <5>2, <5>3, <6>1, ShorterThanSet
          <6> QED
              BY <6>1, <6>2
        <5> QED
            BY <5>2, <5>4
      <4>2. Len(pinged) + 1 <= SlackKept
          BY <1>0, <2>3, <2>10, <4>1 DEF Few
      <4>3. Remembered(pinged, j) = Append(pinged, j)
        <5>0. Append(pinged, j) \in Seq(Jobs)
            BY <1>0, <2>1
        <5>1. PICK all \in Seq(Jobs) : all = Append(pinged, j)
            BY <5>0
        <5>2. Len(all) <= SlackKept /\ Len(all) \in Nat
            BY <1>0, <2>1, <4>2, <5>1
        <5>3. SubSeq(all, 1, Len(all)) = all
            BY <5>1
        <5>4. ~(Len(all) > SlackKept)
            BY <1>0, <5>2
        <5> QED
            BY <5>1, <5>3, <5>4 DEF Remembered
      <4>4. pinged' = Append(pinged, j)
          BY <3>2, <3>5, <4>3
      <4>5. /\ DOMAIN pinged = 1..Len(pinged) /\ DOMAIN pinged' = 1..(Len(pinged) + 1)
            /\ pinged'[Len(pinged) + 1] = j
            /\ \A i \in DOMAIN pinged : pinged'[i] = pinged[i] /\ pinged[i] # j
          BY <1>0, <3>2, <4>4 DEF ToSet
      <4>l. Len(pinged) \in Nat
          BY <1>0
      <4>6. \A i, k \in DOMAIN pinged' : pinged'[i] = pinged'[k] => i = k
          BY <3>1, <4>l, <4>5 DEF PingedOnce
      <4>7. ToSet(pinged') = ToSet(pinged) \cup {j}
        <5>1. DOMAIN pinged' = DOMAIN pinged \cup {Len(pinged) + 1}
            BY <4>l, <4>5
        <5>2. ToSet(pinged') \subseteq ToSet(pinged) \cup {j}
            BY <4>5, <5>1 DEF ToSet
        <5>3. ToSet(pinged) \cup {j} \subseteq ToSet(pinged')
            BY <4>5, <5>1 DEF ToSet
        <5> QED
            BY <5>2, <5>3
      <4>8. \A x \in Jobs : slacked'[x] <= 1 /\ (slacked'[x] > 0 => x \in ToSet(pinged'))
          BY <1>0, <3>1, <3>2, <3>5, <4>7 DEF PingedOnce
      <4>9. ToSet(pinged') \subseteq ToSet(found')
          BY <2>3, <3>1, <3>2, <4>7 DEF PingedOnce
      <4> QED
          BY <3>3, <4>6, <4>8, <4>9 DEF PingedOnce
    <3> QED
        BY <2>4, <3>4, <3>5
  <2> QED
      BY <2>3, <2>7, <2>8, <2>9, <2>10 DEF AltInv
<1>8. ASSUME NEW s \in Senders, NEW p \in Jobs \X Subs, PushOne(s, p) PROVE AltInv'
  <2>1. /\ sender[s].does = "push" /\ sender[s] \in Sending
        /\ sender[s].todo \in SUBSET (Jobs \X Subs) /\ p \in sender[s].todo
      BY <1>0, <1>8, SenderShape DEF PushOne
  <2>2. PICK left \in SUBSET (Jobs \X Subs) : left = sender[s].todo \ {p}
      BY <2>1
  <2>3. PICK d \in Sending : d = [does |-> "push", todo |-> left, told |-> TRUE]
      BY PushShape
  <2>4. d.does = "push" /\ d.todo = left /\ d.told
      BY <2>3
  <2>5. /\ sender' = [sender EXCEPT ![s] = d]
        /\ received' = [received EXCEPT ![p] = @ + 1] \/ received' = received
        /\ subs' \subseteq Subs
        /\ UNCHANGED <<found, imported, mark, pinged, tried, cut, late, slacked, twice>>
      BY <1>0, <1>8, <2>2, <2>3 DEF PushOne
  <2>6. sender'[s] = d /\ \A t \in Senders \ {s} : sender'[t] = sender[t]
      BY <1>0, <2>5
  <2>7. AltTyped' /\ FoundOnce'
      BY <1>0, <1>m, <2>5 DEF AltTyped, FoundOnce
  <2>8. Marked'
    <3>1. Pushing
        BY <2>1 DEF Pushing
    <3> QED
        BY <1>m, <2>5, <3>1 DEF Marked, Accounted
  <2>9. ASSUME ~twice PROVE Alone' /\ PushedOnce'
    <3>1. Alone /\ PushedOnce
        BY <2>9 DEF AltInv
    <3>2. Alone' /\ \A t \in Senders : sender'[t].does = "push" => t = s
        BY <2>1, <2>6, <3>1 DEF Alone, Awake
    <3>3. received[p] = 0 /\ \E i \in DOMAIN found : found[i] = p[1]
        BY <2>1, <3>1 DEF PushedOnce
    <3>4. Notified(p)'
        BY <2>4, <2>5, <2>6, <3>3 DEF Notified
    <3>5. \A q \in Jobs \X Subs : (Behind(q) => Behind(q)') /\ (Notified(q) => Notified(q)')
        BY <2>4, <2>5, <2>6 DEF Behind, Notified
    <3>6. \A q \in Jobs \X Subs : q # p => received'[q] = received[q]
        BY <1>0, <2>5
    <3>7. received'[p] \in {0, 1}
        BY <1>0, <2>5, <3>3
    <3>8. \A q \in Jobs \X Subs : received'[q] <= 1 /\ (received'[q] > 0 => Behind(q)' \/ Notified(q)')
        BY <3>1, <3>4, <3>5, <3>6, <3>7 DEF PushedOnce
    <3>9. \A q \in left : received'[q] = 0 /\ \E i \in DOMAIN found : found[i] = q[1]
        BY <2>1, <2>2, <3>1, <3>6 DEF PushedOnce
    <3> QED
        BY <2>4, <2>5, <2>6, <3>2, <3>8, <3>9 DEF PushedOnce
  <2>10. ASSUME ~twice, Few' PROVE PingedOnce'
    <3>1. PingedOnce
        BY <2>5, <2>10 DEF AltInv, Few
    <3> QED
        BY <2>4, <2>5, <2>6, <3>1 DEF PingedOnce
  <2> QED
      BY <2>5, <2>7, <2>8, <2>9, <2>10 DEF AltInv
<1>9. ASSUME NEW s \in Senders, NEW j \in Jobs, BeginPing(s, j) PROVE AltInv'
  <2>1. PICK d \in Sending : d = [does |-> "ping", job |-> j, seen |-> pinged]
      BY <1>0, PingShape
  <2>2. d.does = "ping" /\ d.job = j /\ d.seen = pinged
      BY <2>1
  <2>3. /\ sender[s].does = "sleep" /\ sender' = [sender EXCEPT ![s] = d]
        /\ twice' = (twice \/ Others(s)) /\ j \in ToSet(found) \ ToSet(pinged)
        /\ UNCHANGED <<found, imported, mark, subs, pinged, received, tried, cut, late, slacked>>
      BY <1>9, <1>a, <2>1 DEF BeginPing, Wakes
  <2>4. sender'[s] = d /\ \A t \in Senders \ {s} : sender'[t] = sender[t]
      BY <1>0, <2>3
  <2>5. AltTyped' /\ FoundOnce'
      BY <1>0, <1>m, <2>3 DEF AltTyped, FoundOnce
  <2>6. Marked'
    <3>1. Pushing' => Pushing
        BY <2>2, <2>4 DEF Pushing
    <3> QED
        BY <1>m, <2>3, <3>1 DEF Marked, Accounted
  <2>7. ASSUME ~twice' PROVE Alone' /\ PushedOnce'
    <3>1. ~twice /\ Alone /\ PushedOnce /\ \A t \in Senders : ~ Awake(t)
        BY <1>a, <2>3, <2>7 DEF AltInv, Others, Awake
    <3>2. Alone' /\ \A t \in Senders : sender'[t].does # "push"
        BY <2>2, <2>4, <3>1 DEF Alone, Awake
    <3>3. \A p \in Jobs \X Subs : ~ Notified(p) /\ (Behind(p) => Behind(p)')
        BY <2>3, <3>1 DEF Notified, Behind, Awake
    <3> QED
        BY <2>3, <3>1, <3>2, <3>3 DEF PushedOnce
  <2>8. ASSUME ~twice', Few' PROVE PingedOnce'
    <3>1. PingedOnce /\ \A t \in Senders : ~ Awake(t)
        BY <1>a, <2>3, <2>8 DEF AltInv, Few, Others, Awake
    <3>2. \A t \in Senders : sender'[t].does = "ping" => t = s
        BY <2>4, <3>1 DEF Awake
    <3> QED
        BY <2>2, <2>3, <2>4, <3>1, <3>2 DEF PingedOnce
  <2> QED
      BY <2>5, <2>6, <2>7, <2>8 DEF AltInv
<1>10. CASE AltRestart
  <2>1. /\ sender' = [t \in Senders |-> Asleep] /\ twice'
        /\ UNCHANGED <<found, imported, mark, subs, pinged, received, tried, cut, late, slacked>>
      BY <1>10 DEF AltRestart
  <2>2. AltTyped' /\ FoundOnce'
      BY <1>0, <1>a, <1>m, <2>1 DEF AltTyped, FoundOnce
  <2>3. Marked'
    <3>1. ~ Pushing'
        BY <1>a, <2>1 DEF Pushing
    <3> QED
        BY <1>m, <2>1, <3>1 DEF Marked, Accounted
  <2> QED
      BY <2>1, <2>2, <2>3 DEF AltInv
<1>11. CASE UNCHANGED altVars
    BY <1>0, <1>11, AlertsKept DEF altVars
<1> QED
    BY <1>1, <1>2, <1>3, <1>4, <1>5, <1>6, <1>7, <1>8, <1>9, <1>10, <1>11 DEF AltNext

LEMMA AlertsKeep == AltInv => AlertsHold
<1> SUFFICES ASSUME AltInv PROVE AlertsHold
    OBVIOUS
<1>1. /\ found \in Seq(Jobs) /\ DOMAIN found = 1..Len(found) /\ mark \in Nat /\ mark <= Len(found)
      /\ SlackKept \in Nat /\ Len(found) \in Nat
    BY AlertsAssumption DEF AltInv, AltTyped
<1>2. \A i \in 1..mark : found[i] \in tried \cup cut \cup late \cup imported
    BY <1>1 DEF AltInv, Marked, Accounted
<1>3. ~twice => \A p \in Jobs \X Subs : received[p] <= 1
    BY DEF AltInv, PushedOnce
<1>4. ~twice /\ ~(Cardinality(ToSet(found)) > SlackKept) => \A j \in Jobs : slacked[j] <= 1
  <2>1. Cardinality(ToSet(found)) = Len(found)
      BY <1>1, CountOfInjective DEF AltInv, FoundOnce
  <2> QED
      BY <1>1, <2>1 DEF AltInv, Few, PingedOnce
<1> QED
    BY <1>2, <1>3, <1>4 DEF AlertsHold
-----------------------------------------------------------------------------
(* Search *)

\* A finite set of numbers has a greatest: of the finite sets of those no
\* smaller than one of them, a minimal one belongs to it.
LEMMA GreatestOfFinite ==
    ASSUME NEW S, IsFiniteSet(S), S \subseteq Nat, S # {}
    PROVE  \E m \in S : \A n \in S : n <= m
<1> DEFINE Above(n) == {k \in S : k >= n}
<1>1. PICK F : F = {Above(n) : n \in S}
    OBVIOUS
<1>2. F \subseteq FiniteSubsetsOf(S) /\ F # {}
  <2>1. \A n \in S : Above(n) \in SUBSET S /\ IsFiniteSet(Above(n))
      BY FS_Subset
  <2> QED
      BY <1>1, <2>1 DEF FiniteSubsetsOf
<1>3. PICK U \in F : \A V \in F : ~ (<<V, U>> \in StrictSubsetOrdering(S))
    BY <1>2, FS_StrictSubsetOrderingWellFounded, WFMin
<1>4. PICK m \in S : U = Above(m)
    BY <1>1, <1>3
<1>5. ASSUME NEW n \in S, n > m PROVE FALSE
  <2>1. Above(n) \in F /\ Above(n) \in SUBSET S /\ U \in SUBSET S
      BY <1>1, <1>4
  <2>2. Above(n) \subseteq U /\ Above(n) # U
    <3>1. m \in U /\ m \notin Above(n) /\ m \in Nat /\ n \in Nat
        BY <1>4, <1>5
    <3>2. ASSUME NEW k \in Above(n) PROVE k \in U
      <4>1. k \in S /\ k \in Nat /\ k >= n
          OBVIOUS
      <4> QED
          BY <1>4, <1>5, <3>1, <4>1
    <3> QED
        BY <3>1, <3>2
  <2>3. <<Above(n), U>> \in StrictSubsetOrdering(S)
      BY <2>1, <2>2 DEF StrictSubsetOrdering
  <2> QED
      BY <1>3, <2>1, <2>3
<1> QED
    BY <1>5

LEMMA AdShape ==
    ASSUME NEW a \in Ads
    PROVE  a.page \in Nat /\ a.text \in Nat
BY SearchAssumption

\* Every ad is covered by a longest one of its page.
LEMMA LongestCovers ==
    ASSUME NEW ads \in SUBSET Ads, NEW a \in ads
    PROVE  \E c \in Longest(ads) : c.page = a.page /\ c.text >= a.text
<1>1. PICK P : P = {c \in ads : c.page = a.page}
    OBVIOUS
<1>2. IsFiniteSet(P) /\ a \in P /\ P \subseteq Ads
    BY <1>1, SearchAssumption, FS_Subset
<1>3. PICK T : T = {c.text : c \in P}
    OBVIOUS
<1>4. T \subseteq Nat /\ a.text \in T
    BY <1>2, <1>3, AdShape
<1>5. IsFiniteSet(T)
  <2>1. [c \in P |-> c.text] \in Surjection(P, T)
      BY <1>3 DEF Surjection
  <2> QED
      BY <1>2, <2>1, FS_Surjection
<1>6. PICK m \in T : \A n \in T : n <= m
    BY <1>4, <1>5, GreatestOfFinite
<1>7. PICK c \in P : c.text = m
    BY <1>3
<1>8. c.page = a.page /\ c \in ads /\ c.text >= a.text
    BY <1>1, <1>4, <1>6, <1>7
<1>9. ASSUME NEW o \in ads, o.page = c.page, o.text > c.text PROVE FALSE
  <2>1. o \in P
      BY <1>1, <1>8, <1>9
  <2>2. o.text <= c.text
      BY <1>3, <1>6, <1>7, <2>1
  <2>3. o.text \in Nat /\ c.text \in Nat
      BY <1>2, <1>7, <2>1, AdShape
  <2> QED
      BY <1>9, <2>2, <2>3
<1> QED
    BY <1>8, <1>9 DEF Longest

OnePerPage(ads) == \A a, c \in ads : a.page = c.page => a = c

\* What is merged has one ad of a page and covers all that went in.
LEMMA MergeRight ==
    ASSUME NEW old \in SUBSET Ads, NEW new \in SUBSET Ads, OnePerPage(old)
    PROVE  /\ Merge(old, new) \subseteq old \cup new
           /\ OnePerPage(Merge(old, new))
           /\ \A a \in old \cup new : \E c \in Merge(old, new) : c.page = a.page /\ c.text >= a.text
<1> DEFINE staying == old \cap Longest(old \cup new)
          fresh   == {a \in Longest(new) : ~\E k \in staying : k.page = a.page}
<1>1. Merge(old, new) = staying \cup {a \in fresh : a = FirstOn(a.page, fresh)}
    BY DEF Merge
<1>2. staying \subseteq old /\ fresh \subseteq new /\ \A a \in fresh, k \in staying : k.page # a.page
    BY DEF Longest
<1>3. staying \subseteq Longest(old \cup new) /\ fresh \subseteq Longest(new)
    OBVIOUS
<1>c. \A c \in Longest(new) : (~\E k \in staying : k.page = c.page) => c \in fresh
    OBVIOUS
<1>k. \A c \in old : c \in Longest(old \cup new) => c \in staying
    OBVIOUS
<1> HIDE DEF staying, fresh
<1>4. OnePerPage(Merge(old, new))
  <2> SUFFICES ASSUME NEW a \in Merge(old, new), NEW c \in Merge(old, new), a.page = c.page
               PROVE  a = c
      BY DEF OnePerPage
  <2>1. CASE a \in staying /\ c \in staying
      BY <1>2, <2>1 DEF OnePerPage
  <2>2. CASE a \notin staying /\ c \notin staying
    <3>1. a = FirstOn(a.page, fresh) /\ c = FirstOn(c.page, fresh)
        BY <1>1, <2>2
    <3> QED
        BY <3>1
  <2> QED
      BY <1>1, <1>2, <2>1, <2>2
<1>5. ASSUME NEW a \in old \cup new
      PROVE  \E c \in Merge(old, new) : c.page = a.page /\ c.text >= a.text
  <2>1. PICK c \in Longest(old \cup new) : c.page = a.page /\ c.text >= a.text
      BY LongestCovers
  <2>2. c \in old \cup new /\ a.text \in Nat /\ c.text \in Nat
      BY AdShape DEF Longest
  <2>3. CASE c \in old
      BY <1>1, <1>k, <2>1, <2>3
  <2>4. CASE c \notin old /\ \E k \in staying : k.page = c.page
    <3>1. PICK k \in staying : k.page = c.page
        BY <2>4
    <3>2. k \in Longest(old \cup new) /\ k \in Ads
        BY <1>2, <1>3
    <3>3. ~ (c.text > k.text) /\ k.text \in Nat
        BY <2>2, <3>1, <3>2, AdShape DEF Longest
    <3>4. k.text >= a.text
        BY <2>1, <2>2, <3>3
    <3> QED
        BY <1>1, <2>1, <3>1, <3>4
  <2>5. CASE c \notin old /\ ~\E k \in staying : k.page = c.page
    <3>1. c \in new /\ c \in Longest(new)
        BY <2>1, <2>2, <2>5 DEF Longest
    <3>2. c \in fresh
        BY <1>c, <2>5, <3>1
    <3>3. PICK f : f = FirstOn(c.page, fresh)
        OBVIOUS
    <3>4. f \in fresh /\ f.page = c.page
        BY <3>2, <3>3 DEF FirstOn
    <3>5. f \in Merge(old, new)
        BY <1>1, <3>3, <3>4
    <3>6. ~ (c.text > f.text) /\ f.text \in Nat
        BY <1>2, <1>3, <3>1, <3>4, AdShape DEF Longest
    <3>7. f.text >= a.text
        BY <2>1, <2>2, <3>6
    <3> QED
        BY <2>1, <3>4, <3>5, <3>7
  <2> QED
      BY <2>3, <2>4, <2>5
<1> QED
    BY <1>1, <1>2, <1>4, <1>5

CacheEntries == {Absent} \cup [kept : {TRUE}, age : Nat, ads : SUBSET Ads]
IndexRows    == {Absent} \cup [kept : {TRUE}, age : Nat, ad : Ads]
Searches == {NotSeeking}
    \cup [at : {"asking", "found"}, where : Wheres, todo : SUBSET Boards, missed : SUBSET Boards,
          fate : UNION {[bs -> Fates] : bs \in SUBSET Boards}, ads : SUBSET Ads]

SrTyped ==
    /\ boards \subseteq Boards /\ offline \in [Ads -> Nat]
    /\ boardCache \in [boards -> [Wheres -> CacheEntries]]
    /\ jobIndex \in [{a.page : a \in Ads} -> IndexRows]
    /\ seeker \in [Seekers -> Searches]

\* What the cache has of a board has been its answer, and nothing the board
\* would answer now is missing.
FreshRow(b, w) ==
    boardCache[b][w].kept =>
        /\ w # "" => b \notin RemoteOnly
        /\ Answer(b, w) \subseteq boardCache[b][w].ads
        /\ \A a \in boardCache[b][w].ads :
             /\ BoardTakes(b, a, w)
             /\ boardCache[b][w].age < CacheAge => offline[a] <= boardCache[b][w].age + 1

Indexing(p) ==
    jobIndex[p].kept =>
        /\ jobIndex[p].ad.page = p
        /\ jobIndex[p].age < IndexAge => offline[jobIndex[p].ad] <= CacheAge + jobIndex[p].age

Suits(a, w) == InPlace(a, w) /\ a.level /\ a.family

\* Each board of a search is still asked or has its fate; what the cache gave
\* is covered, though it be written again by another search.
Sought(s) ==
    seeker[s] # NotSeeking =>
        /\ seeker[s].todo \subseteq boards /\ seeker[s].missed \subseteq boards
        /\ seeker[s].todo \cap seeker[s].missed = {}
        /\ DOMAIN seeker[s].fate = boards \ (seeker[s].todo \cup seeker[s].missed)
        /\ (seeker[s].todo \cup seeker[s].missed) \cap Skips(seeker[s].where) = {}
        /\ seeker[s].at = "found" => seeker[s].todo = {} /\ seeker[s].missed = {}
        /\ \A a \in seeker[s].ads : Suits(a, seeker[s].where) /\ offline[a] <= CacheAge
        /\ OnePerPage(seeker[s].ads)

Covers(ads, more) == \A a \in more : \E c \in ads : c.page = a.page /\ c.text >= a.text
Answered(s) ==
    seeker[s] # NotSeeking =>
        \A b \in DOMAIN seeker[s].fate : seeker[s].fate[b] = "cached" =>
            /\ boardCache[b][seeker[s].where].kept
            /\ Covers(seeker[s].ads, boardCache[b][seeker[s].where].ads)

SrInv ==
    /\ SrTyped
    /\ boards = {} => \A s \in Seekers : seeker[s] = NotSeeking
    /\ \A b \in boards, w \in Wheres : FreshRow(b, w)
    /\ \A p \in DOMAIN jobIndex : Indexing(p)
    /\ \A s \in Seekers : Sought(s) /\ Answered(s)

LEMMA EntryShape ==
    ASSUME NEW e \in CacheEntries, e.kept
    PROVE  e.age \in Nat /\ e.ads \in SUBSET Ads /\ e = [kept |-> TRUE, age |-> e.age, ads |-> e.ads]
<1>1. e # Absent
    BY DEF Absent
<1>2. e \in [kept : {TRUE}, age : Nat, ads : SUBSET Ads]
    BY <1>1 DEF CacheEntries
<1> QED
    BY <1>2

LEMMA RowShape ==
    ASSUME NEW e \in IndexRows, e.kept
    PROVE  e.age \in Nat /\ e.ad \in Ads
<1>1. e # Absent
    BY DEF Absent
<1>2. e \in [kept : {TRUE}, age : Nat, ad : Ads]
    BY <1>1 DEF IndexRows
<1> QED
    BY <1>2

\* Growing older changes the age only.
LEMMA AgedEntry ==
    ASSUME NEW e \in CacheEntries, NEW most \in Nat
    PROVE  /\ Aged(e, most) \in CacheEntries
           /\ Aged(e, most).kept = e.kept
           /\ e.kept => /\ Aged(e, most).ads = e.ads
                        /\ Aged(e, most).age = IF e.age < most THEN e.age + 1 ELSE e.age
<1>1. CASE e = Absent
  <2>1. ~ e.kept
      BY <1>1 DEF Absent
  <2> QED
      BY <2>1 DEF Aged
<1>2. CASE e \in [kept : {TRUE}, age : Nat, ads : SUBSET Ads]
  <2>1. e.age \in Nat /\ e.kept
      BY <1>2
  <2>2. CASE e.age < most
    <3>1. Aged(e, most) = [e EXCEPT !.age = e.age + 1]
        BY <2>1, <2>2 DEF Aged
    <3>2. [e EXCEPT !.age = e.age + 1] \in [kept : {TRUE}, age : Nat, ads : SUBSET Ads]
      <4>1. PICK n \in Nat : n = e.age + 1
          BY <2>1
      <4>2. [e EXCEPT !.age = n] \in [kept : {TRUE}, age : Nat, ads : SUBSET Ads]
          BY <1>2
      <4> QED
          BY <4>1, <4>2
    <3>3. /\ [e EXCEPT !.age = e.age + 1].kept = e.kept
          /\ [e EXCEPT !.age = e.age + 1].ads = e.ads
          /\ [e EXCEPT !.age = e.age + 1].age = e.age + 1
        BY <1>2, <2>1
    <3> QED
        BY <2>2, <3>1, <3>2, <3>3 DEF CacheEntries
  <2>3. CASE ~(e.age < most)
      BY <2>3 DEF Aged
  <2> QED
      BY <2>2, <2>3
<1> QED
    BY <1>1, <1>2 DEF CacheEntries

LEMMA AgedRow ==
    ASSUME NEW e \in IndexRows, NEW most \in Nat
    PROVE  /\ Aged(e, most) \in IndexRows
           /\ Aged(e, most).kept = e.kept
           /\ e.kept => /\ Aged(e, most).ad = e.ad
                        /\ Aged(e, most).age = IF e.age < most THEN e.age + 1 ELSE e.age
<1>1. CASE e = Absent
  <2>1. ~ e.kept
      BY <1>1 DEF Absent
  <2> QED
      BY <2>1 DEF Aged
<1>2. CASE e \in [kept : {TRUE}, age : Nat, ad : Ads]
  <2>1. e.age \in Nat /\ e.kept
      BY <1>2
  <2>2. CASE e.age < most
    <3>1. Aged(e, most) = [e EXCEPT !.age = e.age + 1]
        BY <2>1, <2>2 DEF Aged
    <3>2. [e EXCEPT !.age = e.age + 1] \in [kept : {TRUE}, age : Nat, ad : Ads]
      <4>1. PICK n \in Nat : n = e.age + 1
          BY <2>1
      <4>2. [e EXCEPT !.age = n] \in [kept : {TRUE}, age : Nat, ad : Ads]
          BY <1>2
      <4> QED
          BY <4>1, <4>2
    <3>3. /\ [e EXCEPT !.age = e.age + 1].kept = e.kept
          /\ [e EXCEPT !.age = e.age + 1].ad = e.ad
          /\ [e EXCEPT !.age = e.age + 1].age = e.age + 1
        BY <1>2, <2>1
    <3> QED
        BY <2>2, <3>1, <3>2, <3>3 DEF IndexRows
  <2>3. CASE ~(e.age < most)
      BY <2>3 DEF Aged
  <2> QED
      BY <2>2, <2>3
<1> QED
    BY <1>1, <1>2 DEF IndexRows

LEMMA SearchShape ==
    ASSUME NEW r \in Searches, r # NotSeeking
    PROVE  /\ r.at \in {"asking", "found"} /\ r.where \in Wheres
           /\ r.todo \in SUBSET Boards /\ r.missed \in SUBSET Boards /\ r.ads \in SUBSET Ads
           /\ r.fate \in [DOMAIN r.fate -> Fates] /\ DOMAIN r.fate \in SUBSET Boards
           /\ r = [at |-> r.at, where |-> r.where, todo |-> r.todo, missed |-> r.missed,
                   fate |-> r.fate, ads |-> r.ads]
BY DEF Searches

LEMMA MakesSearch ==
    ASSUME NEW at \in {"asking", "found"}, NEW where \in Wheres,
           NEW todo \in SUBSET Boards, NEW missed \in SUBSET Boards,
           NEW fate, DOMAIN fate \in SUBSET Boards, fate \in [DOMAIN fate -> Fates],
           NEW ads \in SUBSET Ads
    PROVE  [at |-> at, where |-> where, todo |-> todo, missed |-> missed, fate |-> fate,
            ads |-> ads] \in Searches
BY DEF Searches

\* What a board takes suits the place it was asked for, if it is asked at all.
LEMMA TakesSuit ==
    ASSUME NEW b \in Boards, NEW a \in Ads, NEW w \in Wheres, BoardTakes(b, a, w),
           w # "" => b \notin RemoteOnly
    PROVE  Suits(a, w)
<1>1. CASE w = ""
    BY <1>1 DEF Boards, BoardTakes, ArbeitnowTakes, MuseTakes, HnTakes, RemotiveTakes, WwrTakes,
                BundesTakes, AdzunaTakes, LevelFits, FamilyFits, InPlace, Suits
<1>2. CASE w # ""
    BY <1>2 DEF Boards, BoardTakes, ArbeitnowTakes, MuseTakes, HnTakes, BundesTakes, AdzunaTakes,
                LevelFits, FamilyFits, InPlace, ServedFor, RemoteOnly, Suits
<1> QED
    BY <1>1, <1>2

LEMMA InitSearch == SrInit => SrInv
<1> SUFFICES ASSUME SrInit PROVE SrInv
    OBVIOUS
<1>1. boards = {} /\ \A s \in Seekers : seeker[s] = NotSeeking
    BY DEF SrInit
<1>2. ~ Absent.kept
    BY DEF Absent
<1>3. \A p \in DOMAIN jobIndex : jobIndex[p] = Absent
    BY DEF SrInit
<1>4. SrTyped
    BY DEF SrInit, SrTyped, CacheEntries, IndexRows, Searches
<1> QED
    BY <1>1, <1>2, <1>3, <1>4 DEF SrInv, Indexing, Sought, Answered

\* What a search sees of the cache may only become less of the same boards.
CacheShrinks ==
    \A b \in boards, w \in Wheres : boardCache[b][w].kept =>
        /\ boardCache'[b][w].kept
        /\ boardCache'[b][w].ads \subseteq boardCache[b][w].ads

LEMMA OthersAnswered ==
    ASSUME SrInv, CacheShrinks, boards' = boards, offline' = offline,
           NEW t \in Seekers, seeker'[t] = seeker[t]
    PROVE  Sought(t)' /\ Answered(t)'
<1>1. Sought(t) /\ Answered(t) /\ seeker[t] \in Searches
    BY DEF SrInv, SrTyped
<1>2. Sought(t)'
    BY <1>1 DEF Sought, Skips
<1>3. Answered(t)'
  <2> SUFFICES ASSUME seeker[t] # NotSeeking, NEW b \in DOMAIN seeker[t].fate,
                      seeker[t].fate[b] = "cached"
               PROVE  /\ boardCache'[b][seeker[t].where].kept
                      /\ Covers(seeker[t].ads, boardCache'[b][seeker[t].where].ads)
      BY DEF Answered
  <2>1. /\ boardCache[b][seeker[t].where].kept
        /\ Covers(seeker[t].ads, boardCache[b][seeker[t].where].ads)
      BY <1>1 DEF Answered
  <2>2. b \in boards /\ seeker[t].where \in Wheres
      BY <1>1, SearchShape DEF Sought
  <2>3. /\ boardCache'[b][seeker[t].where].kept
        /\ boardCache'[b][seeker[t].where].ads \subseteq boardCache[b][seeker[t].where].ads
      BY <2>1, <2>2 DEF CacheShrinks
  <2> QED
      BY <2>1, <2>3 DEF Covers
<1> QED
    BY <1>2, <1>3

\* A board's answer is taken into the search that asked for it.
LEMMA ArrivesRight ==
    ASSUME SrInv, NEW s \in Seekers, NEW b \in boards, NEW fate \in Fates,
           NEW ads \in SUBSET Ads, seeker[s].at = "asking",
           b \in seeker[s].todo \cup seeker[s].missed, Arrives(s, b, fate, ads),
           \A a \in ads : Suits(a, seeker[s].where) /\ offline[a] <= CacheAge,
           boards' = boards, offline' = offline, CacheShrinks,
           fate = "cached" => /\ boardCache'[b][seeker[s].where].kept
                              /\ boardCache'[b][seeker[s].where].ads = ads
    PROVE  /\ seeker' \in [Seekers -> Searches]
           /\ \A t \in Seekers : Sought(t)' /\ Answered(t)'
<1>1. /\ seeker \in [Seekers -> Searches] /\ boards \subseteq Boards
      /\ Sought(s) /\ Answered(s)
    BY DEF SrInv, SrTyped
<1>2. seeker[s] # NotSeeking /\ seeker[s] \in Searches
    BY <1>1 DEF NotSeeking
<1>3. PICK w, todo, missed, old, got :
          /\ w = seeker[s].where /\ todo = seeker[s].todo /\ missed = seeker[s].missed
          /\ old = seeker[s].fate /\ got = seeker[s].ads
    OBVIOUS
<1>4. /\ w \in Wheres /\ todo \in SUBSET Boards /\ missed \in SUBSET Boards
      /\ got \in SUBSET Ads /\ old \in [DOMAIN old -> Fates] /\ DOMAIN old \in SUBSET Boards
      /\ seeker[s] = [at |-> "asking", where |-> w, todo |-> todo, missed |-> missed,
                      fate |-> old, ads |-> got]
    BY <1>2, <1>3, SearchShape
<1>5. PICK now : now = [c \in DOMAIN old \cup {b} |-> IF c = b THEN fate ELSE old[c]]
    OBVIOUS
<1>6. /\ DOMAIN now = DOMAIN old \cup {b} /\ now \in [DOMAIN now -> Fates]
      /\ DOMAIN now \in SUBSET Boards
      /\ now[b] = fate /\ \A c \in DOMAIN old \ {b} : now[c] = old[c]
    BY <1>1, <1>4, <1>5
<1>7. PICK all : all = Merge(got, ads)
    OBVIOUS
<1>8. OnePerPage(got) /\ \A a \in got : Suits(a, w) /\ offline[a] <= CacheAge
    BY <1>1, <1>2, <1>3 DEF Sought
<1>9. /\ all \subseteq got \cup ads /\ OnePerPage(all)
      /\ \A a \in got \cup ads : \E c \in all : c.page = a.page /\ c.text >= a.text
    BY <1>4, <1>7, <1>8, MergeRight
<1>10. PICK r : r = [at |-> "asking", where |-> w, todo |-> todo \ {b}, missed |-> missed \ {b},
                     fate |-> now, ads |-> all]
    OBVIOUS
<1>11. r \in Searches /\ r # NotSeeking
  <2>1. todo \ {b} \in SUBSET Boards /\ missed \ {b} \in SUBSET Boards /\ all \in SUBSET Ads
      BY <1>4, <1>9
  <2>2. r \in Searches
      BY <1>4, <1>6, <1>10, <2>1, MakesSearch
  <2> QED
      BY <1>10, <2>2 DEF NotSeeking
<1>12. seeker' = [seeker EXCEPT ![s] = r]
    BY <1>3, <1>5, <1>7, <1>10 DEF Arrives
<1>13. seeker'[s] = r /\ \A t \in Seekers \ {s} : seeker'[t] = seeker[t]
    BY <1>1, <1>12
<1>14. seeker' \in [Seekers -> Searches]
    BY <1>1, <1>11, <1>12
<1>15. /\ r.where = w /\ r.todo = todo \ {b} /\ r.missed = missed \ {b} /\ r.fate = now
       /\ r.ads = all /\ r.at = "asking"
    BY <1>10
<1>16. Sought(s)'
  <2>1. /\ todo \subseteq boards /\ missed \subseteq boards /\ todo \cap missed = {}
        /\ DOMAIN old = boards \ (todo \cup missed)
        /\ (todo \cup missed) \cap Skips(w) = {}
      BY <1>1, <1>2, <1>3 DEF Sought
  <2>2. /\ r.todo \subseteq boards /\ r.missed \subseteq boards /\ r.todo \cap r.missed = {}
        /\ (r.todo \cup r.missed) \cap Skips(w) = {}
      BY <1>15, <2>1
  <2>3. DOMAIN r.fate = boards \ (r.todo \cup r.missed)
      BY <1>3, <1>6, <1>15, <2>1
  <2>4. \A a \in r.ads : Suits(a, w) /\ offline[a] <= CacheAge
      BY <1>3, <1>8, <1>9, <1>15
  <2> QED
      BY <1>9, <1>13, <1>15, <2>2, <2>3, <2>4 DEF Sought, Skips
<1>17. Answered(s)'
  <2> SUFFICES ASSUME NEW c \in DOMAIN now, now[c] = "cached"
               PROVE  boardCache'[c][w].kept /\ Covers(all, boardCache'[c][w].ads)
      BY <1>13, <1>15 DEF Answered
  <2>1. CASE c = b
      BY <1>3, <1>6, <1>9, <2>1 DEF Covers
  <2>2. CASE c # b
    <3>1. boardCache[c][w].kept /\ Covers(got, boardCache[c][w].ads) /\ c \in boards
        BY <1>1, <1>2, <1>3, <1>6, <2>2 DEF Answered, Sought
    <3>2. boardCache'[c][w].kept /\ boardCache'[c][w].ads \subseteq boardCache[c][w].ads
        BY <1>4, <3>1 DEF CacheShrinks
    <3>3. boardCache[c][w].ads \in SUBSET Ads
        BY <1>4, <3>1, EntryShape DEF SrInv, SrTyped
    <3>4. Covers(all, boardCache'[c][w].ads)
      <4> SUFFICES ASSUME NEW a \in boardCache'[c][w].ads
                   PROVE  \E f \in all : f.page = a.page /\ f.text >= a.text
          BY DEF Covers
      <4>1. PICK e \in got : e.page = a.page /\ e.text >= a.text
          BY <3>1, <3>2 DEF Covers
      <4>2. PICK f \in all : f.page = e.page /\ f.text >= e.text
          BY <1>9
      <4>3. a \in Ads /\ e \in Ads /\ f \in Ads
          BY <1>4, <1>9, <3>2, <3>3
      <4> QED
          BY <4>1, <4>2, <4>3, AdShape
    <3> QED
        BY <3>2, <3>4
  <2> QED
      BY <2>1, <2>2
<1> QED
    BY <1>13, <1>14, <1>16, <1>17, OthersAnswered

LEMMA NextSearch == SrInv /\ [SrNext]_srVars => SrInv'
<1> SUFFICES ASSUME SrInv, [SrNext]_srVars PROVE SrInv'
    OBVIOUS
<1>0. /\ boards \subseteq Boards /\ offline \in [Ads -> Nat]
      /\ boardCache \in [boards -> [Wheres -> CacheEntries]]
      /\ jobIndex \in [{a.page : a \in Ads} -> IndexRows]
      /\ seeker \in [Seekers -> Searches]
    BY DEF SrInv, SrTyped
<1>c. CacheAge \in Nat \ {0} /\ IndexAge \in Nat
    BY SearchAssumption
<1>i. NotSeeking \in Searches /\ Absent \in CacheEntries /\ ~ Absent.kept /\ NotSeeking.at = "idle"
    BY DEF Searches, CacheEntries, Absent, NotSeeking
<1>s. ASSUME NEW s \in Seekers, seeker[s].at = "asking"
      PROVE  /\ seeker[s] # NotSeeking /\ seeker[s] \in Searches
             /\ seeker[s].where \in Wheres /\ seeker[s].todo \subseteq boards
             /\ seeker[s].missed \subseteq boards /\ Sought(s) /\ Answered(s)
             /\ boards # {}
  <2>1. seeker[s] # NotSeeking
      BY <1>s, <1>i
  <2> QED
      BY <1>0, <2>1, SearchShape DEF SrInv, Sought
<1>e. ASSUME NEW b \in boards, NEW w \in Wheres, boardCache[b][w].kept
      PROVE  boardCache[b][w].age \in Nat /\ boardCache[b][w].ads \in SUBSET Ads /\ b \in Boards
    BY <1>0, <1>e, EntryShape
<1>1. ASSUME NEW bs \in Wirings, WireBoards(bs) PROVE SrInv'
  <2>1. /\ boards = {} /\ boards' = bs /\ bs \subseteq Boards /\ bs # {}
        /\ boardCache' = [b \in bs |-> [w \in Wheres |-> Absent]]
        /\ UNCHANGED <<offline, jobIndex, seeker>>
      BY <1>1, SearchAssumption DEF WireBoards
  <2>2. \A s \in Seekers : seeker'[s] = NotSeeking
      BY <2>1 DEF SrInv
  <2>3. SrTyped'
      BY <1>0, <1>i, <2>1 DEF SrTyped
  <2>4. \A b \in boards', w \in Wheres : FreshRow(b, w)'
      BY <1>i, <2>1 DEF FreshRow
  <2>5. \A p \in DOMAIN jobIndex' : Indexing(p)'
      BY <2>1 DEF SrInv, Indexing
  <2> QED
      BY <2>1, <2>2, <2>3, <2>4, <2>5 DEF SrInv, Sought, Answered
<1>2. ASSUME NEW s \in Seekers, NEW w \in Wheres, StartSearch(s, w) PROVE SrInv'
  <2>1. PICK r : r = [at |-> "asking", where |-> w, todo |-> boards \ Skips(w), missed |-> {},
                      fate |-> [b \in Skips(w) |-> "skipped"], ads |-> {}]
      OBVIOUS
  <2>2. Skips(w) \subseteq boards
      BY DEF Skips
  <2>3. /\ r.at = "asking" /\ r.where = w /\ r.todo = boards \ Skips(w) /\ r.missed = {}
        /\ DOMAIN r.fate = Skips(w) /\ r.ads = {}
        /\ \A b \in Skips(w) : r.fate[b] = "skipped"
      BY <2>1
  <2>4. r \in Searches /\ r # NotSeeking
    <3>1. PICK f : f = [b \in Skips(w) |-> "skipped"]
        OBVIOUS
    <3>2. f \in [DOMAIN f -> Fates] /\ DOMAIN f \in SUBSET Boards
        BY <1>0, <2>2, <3>1 DEF Fates
    <3>3. boards \ Skips(w) \in SUBSET Boards /\ {} \in SUBSET Boards /\ {} \in SUBSET Ads
        BY <1>0
    <3>4. r \in Searches
        BY <2>1, <3>1, <3>2, <3>3, MakesSearch
    <3> QED
        BY <1>i, <2>3, <3>4
  <2>5. /\ seeker' = [o \in Seekers |-> IF o = s THEN r
                                        ELSE IF o \in Seeking THEN seeker[o] ELSE NotSeeking]
        /\ UNCHANGED <<boards, offline, boardCache, jobIndex>> /\ boards # {}
      BY <1>2, <2>1 DEF StartSearch
  <2>6. seeker' \in [Seekers -> Searches]
      BY <1>0, <1>i, <2>4, <2>5
  <2>7. SrTyped'
      BY <1>0, <2>5, <2>6 DEF SrTyped
  <2>8. ASSUME NEW t \in Seekers PROVE Sought(t)' /\ Answered(t)'
    <3>1. CASE t = s
      <4>1. seeker'[t] = r
          BY <2>5, <3>1
      <4>2. Sought(t)'
          BY <2>2, <2>3, <2>5, <4>1 DEF Sought, Skips, OnePerPage
      <4>3. Answered(t)'
          BY <2>3, <4>1 DEF Answered
      <4> QED
          BY <4>2, <4>3
    <3>2. CASE t # s /\ t \in Seeking
      <4>1. seeker'[t] = seeker[t] /\ CacheShrinks
          BY <2>5, <3>2 DEF CacheShrinks
      <4> QED
          BY <2>5, <4>1, OthersAnswered
    <3>3. CASE t # s /\ t \notin Seeking
        BY <2>5, <3>3 DEF Sought, Answered
    <3> QED
        BY <3>1, <3>2, <3>3
  <2>9. /\ \A b \in boards', c \in Wheres : FreshRow(b, c)'
        /\ \A p \in DOMAIN jobIndex' : Indexing(p)'
      BY <2>5 DEF SrInv, FreshRow, Answer, Indexing
  <2> QED
      BY <2>5, <2>7, <2>8, <2>9 DEF SrInv
<1>f. ASSUME UNCHANGED <<offline, boardCache, boards, jobIndex>>
      PROVE  /\ \A b \in boards', c \in Wheres : FreshRow(b, c)'
             /\ \A p \in DOMAIN jobIndex' : Indexing(p)'
             /\ CacheShrinks
    BY <1>f DEF SrInv, FreshRow, Answer, Indexing, CacheShrinks
<1>3. ASSUME NEW s \in Seekers, NEW b \in boards, FromCache(s, b) PROVE SrInv'
  <2>1. PICK w : w = seeker[s].where
      OBVIOUS
  <2>2. PICK ads : ads = boardCache[b][w].ads
      OBVIOUS
  <2>3. /\ seeker[s].at = "asking" /\ b \in seeker[s].todo /\ Arrives(s, b, "cached", ads)
        /\ boardCache[b][w].kept /\ boardCache[b][w].age < CacheAge
        /\ UNCHANGED <<boards, offline, boardCache, jobIndex>>
      BY <1>3, <2>1, <2>2 DEF FromCache, Hit, Cached, CacheKey
  <2>4. w \in Wheres /\ Sought(s) /\ seeker[s] # NotSeeking
      BY <1>s, <2>1, <2>3
  <2>5. /\ boardCache[b][w].age \in Nat /\ ads \in SUBSET Ads /\ b \in Boards
        /\ FreshRow(b, w)
      BY <1>e, <2>2, <2>3, <2>4 DEF SrInv
  <2>6. \A a \in ads : Suits(a, w) /\ offline[a] <= CacheAge
    <3> SUFFICES ASSUME NEW a \in ads PROVE Suits(a, w) /\ offline[a] <= CacheAge
        OBVIOUS
    <3>1. /\ BoardTakes(b, a, w) /\ offline[a] <= boardCache[b][w].age + 1
          /\ w # "" => b \notin RemoteOnly
        BY <2>2, <2>3, <2>5 DEF FreshRow
    <3>2. offline[a] \in Nat /\ a \in Ads
        BY <1>0, <2>5
    <3>3. Suits(a, w)
        BY <2>4, <2>5, <3>1, <3>2, TakesSuit
    <3>4. PICK x, n : x = offline[a] /\ n = boardCache[b][w].age
        OBVIOUS
    <3>5. x \in Nat /\ n \in Nat /\ n < CacheAge
        BY <2>3, <2>5, <3>2, <3>4
    <3>6. x <= n + 1
        BY <3>1, <3>4
    <3>7. x <= CacheAge
        BY <1>c, <3>5, <3>6
    <3> QED
        BY <3>3, <3>4, <3>7
  <2>7. "cached" \in Fates
      BY DEF Fates
  <2>8. seeker' \in [Seekers -> Searches] /\ \A t \in Seekers : Sought(t)' /\ Answered(t)'
      BY <1>f, <2>1, <2>2, <2>3, <2>5, <2>6, <2>7, ArrivesRight
  <2>9. SrTyped'
      BY <1>0, <2>3, <2>8 DEF SrTyped
  <2> QED
      BY <1>f, <2>3, <2>8, <2>9 DEF SrInv
<1>4. ASSUME NEW s \in Seekers, NEW b \in boards, Misses(s, b) PROVE SrInv'
  <2>1. /\ seeker[s].at = "asking" /\ b \in seeker[s].todo
        /\ UNCHANGED <<boards, offline, boardCache, jobIndex>>
      BY <1>4 DEF Misses
  <2>2. PICK w, todo, missed, old, got :
            /\ w = seeker[s].where /\ todo = seeker[s].todo /\ missed = seeker[s].missed
            /\ old = seeker[s].fate /\ got = seeker[s].ads
      OBVIOUS
  <2>3. /\ w \in Wheres /\ todo \in SUBSET Boards /\ missed \in SUBSET Boards
        /\ got \in SUBSET Ads /\ old \in [DOMAIN old -> Fates] /\ DOMAIN old \in SUBSET Boards
        /\ seeker[s] = [at |-> "asking", where |-> w, todo |-> todo, missed |-> missed,
                        fate |-> old, ads |-> got]
      BY <1>s, <2>1, <2>2, SearchShape
  <2>4. PICK r : r = [at |-> "asking", where |-> w, todo |-> todo \ {b},
                      missed |-> missed \cup {b}, fate |-> old, ads |-> got]
      OBVIOUS
  <2>5. todo \ {b} \in SUBSET Boards /\ missed \cup {b} \in SUBSET Boards
      BY <1>0, <2>3
  <2>6. r \in Searches
      BY <2>3, <2>4, <2>5, MakesSearch
  <2>7. seeker' = [seeker EXCEPT ![s] = r]
      BY <1>4, <2>2, <2>4 DEF Misses
  <2>8. seeker'[s] = r /\ \A t \in Seekers \ {s} : seeker'[t] = seeker[t]
      BY <1>0, <2>7
  <2>9. /\ r.at = "asking" /\ r.where = w /\ r.todo = todo \ {b} /\ r.missed = missed \cup {b}
        /\ r.fate = old /\ r.ads = got
      BY <2>4
  <2>10. Sought(s)' /\ Answered(s)'
    <3>1. Sought(s) /\ Answered(s) /\ seeker[s] # NotSeeking
        BY <1>s, <2>1
    <3>2. /\ todo \subseteq boards /\ missed \subseteq boards /\ todo \cap missed = {}
          /\ DOMAIN old = boards \ (todo \cup missed)
          /\ (todo \cup missed) \cap Skips(w) = {}
          /\ \A a \in got : Suits(a, w) /\ offline[a] <= CacheAge
          /\ OnePerPage(got)
        BY <2>2, <3>1 DEF Sought
    <3>3. b \in todo
        BY <2>1, <2>2
    <3>4. /\ r.todo \subseteq boards /\ r.missed \subseteq boards /\ r.todo \cap r.missed = {}
          /\ r.todo \cup r.missed = todo \cup missed
        BY <2>9, <3>2, <3>3
    <3>5. Sought(s)'
        BY <2>1, <2>8, <2>9, <3>2, <3>4 DEF Sought, Skips
    <3>6. Answered(s)'
        BY <2>1, <2>2, <2>8, <2>9, <3>1 DEF Answered
    <3> QED
        BY <3>5, <3>6
  <2>11. SrTyped'
      BY <1>0, <2>1, <2>6, <2>7 DEF SrTyped
  <2>12. ASSUME NEW t \in Seekers PROVE Sought(t)' /\ Answered(t)'
      BY <1>f, <2>1, <2>8, <2>10, OthersAnswered
  <2>13. boards' # {}
      BY <2>1
  <2> QED
      BY <1>f, <2>1, <2>11, <2>12, <2>13 DEF SrInv
<1>5. ASSUME NEW s \in Seekers, NEW b \in boards, FetchFails(s, b) PROVE SrInv'
  <2>1. /\ seeker[s].at = "asking" /\ b \in seeker[s].missed /\ Arrives(s, b, "failed", {})
        /\ UNCHANGED <<boards, offline, boardCache, jobIndex>>
      BY <1>5 DEF FetchFails
  <2>2. "failed" \in Fates /\ {} \in SUBSET Ads
      BY DEF Fates
  <2>3. seeker' \in [Seekers -> Searches] /\ \A t \in Seekers : Sought(t)' /\ Answered(t)'
    <3>1. PICK f \in Fates : f = "failed"
        BY <2>2
    <3>2. PICK none \in SUBSET Ads : none = {}
        BY <2>2
    <3> QED
        BY <1>f, <2>1, <3>1, <3>2, ArrivesRight
  <2>4. SrTyped'
      BY <1>0, <2>1, <2>3 DEF SrTyped
  <2> QED
      BY <1>f, <2>1, <2>3, <2>4 DEF SrInv
<1>6. ASSUME NEW s \in Seekers, NEW b \in boards, NEW ads \in SUBSET Ads, Fetched(s, b, ads)
      PROVE  SrInv'
  <2>1. PICK w : w = seeker[s].where
      OBVIOUS
  <2>2. /\ seeker[s].at = "asking" /\ b \in seeker[s].missed /\ ads \in {Answer(b, w), {}}
        /\ Put(b, w, ads) /\ Arrives(s, b, "answered", ads)
        /\ UNCHANGED <<boards, offline, jobIndex>>
      BY <1>6, <2>1 DEF Fetched
  <2>3. /\ w \in Wheres /\ Sought(s) /\ seeker[s] # NotSeeking /\ b \in Boards
        /\ w # "" => b \notin RemoteOnly
    <3>1. w \in Wheres /\ Sought(s) /\ seeker[s] # NotSeeking /\ b \in Boards
        BY <1>0, <1>s, <2>1, <2>2
    <3> QED
        BY <2>1, <2>2, <3>1 DEF Sought, Skips
  <2>4. \A a \in ads : BoardTakes(b, a, w) /\ Suits(a, w) /\ offline[a] = 0
      BY <2>2, <2>3, TakesSuit DEF Answer
  <2>5. PICK e : e = [kept |-> TRUE, age |-> 0, ads |-> ads]
      OBVIOUS
  <2>6. e \in CacheEntries /\ e.kept /\ e.age = 0 /\ e.ads = ads
      BY <2>5 DEF CacheEntries
  <2>7. \/ boardCache' = boardCache
        \/ /\ boardCache' = [boardCache EXCEPT ![b] = [boardCache[b] EXCEPT ![w] = e]]
           /\ ads = Answer(b, w)
      BY <1>0, <2>2, <2>5 DEF Put, CacheKey
  <2>e. PICK row : row = [boardCache[b] EXCEPT ![w] = e]
      OBVIOUS
  <2>r. /\ row \in [Wheres -> CacheEntries] /\ row[w] = e
        /\ \A v \in Wheres \ {w} : row[v] = boardCache[b][v]
    <3>1. boardCache[b] \in [Wheres -> CacheEntries]
        BY <1>0
    <3> QED
        BY <2>3, <2>6, <2>e, <3>1
  <2>t. \/ boardCache' = boardCache
        \/ boardCache' = [boardCache EXCEPT ![b] = row] /\ ads = Answer(b, w)
      BY <2>7, <2>e
  <2>8. boardCache' \in [boards -> [Wheres -> CacheEntries]]
      BY <1>0, <2>r, <2>t
  <2>9. ASSUME NEW c \in boards, NEW v \in Wheres, ~ (c = b /\ v = w)
        PROVE  boardCache'[c][v] = boardCache[c][v]
      BY <1>0, <2>r, <2>t, <2>9
  <2>10. boardCache'[b][w] = boardCache[b][w] \/ (boardCache'[b][w] = e /\ ads = Answer(b, w))
      BY <1>0, <2>r, <2>t
  <2>11. CacheShrinks
    <3> SUFFICES ASSUME NEW c \in boards, NEW v \in Wheres, boardCache[c][v].kept
                 PROVE  /\ boardCache'[c][v].kept
                        /\ boardCache'[c][v].ads \subseteq boardCache[c][v].ads
        BY DEF CacheShrinks
    <3>1. Answer(c, v) \subseteq boardCache[c][v].ads
        BY DEF SrInv, FreshRow
    <3> QED
        BY <2>6, <2>9, <2>10, <3>1
  <2>12. ASSUME NEW c \in boards, NEW v \in Wheres PROVE FreshRow(c, v)'
    <3>1. FreshRow(c, v)
        BY DEF SrInv
    <3>2. CASE boardCache'[c][v] = boardCache[c][v]
        BY <2>2, <3>1, <3>2 DEF FreshRow, Answer
    <3>3. CASE c = b /\ v = w /\ boardCache'[b][w] = e /\ ads = Answer(b, w)
      <4>1. Answer(b, w)' = ads
          BY <2>2, <3>3 DEF Answer
      <4>2. \A a \in ads : offline'[a] <= 0 + 1
          BY <2>2, <2>4
      <4> QED
          BY <2>3, <2>4, <2>6, <3>3, <4>1, <4>2 DEF FreshRow
    <3> QED
        BY <2>9, <2>10, <3>2, <3>3
  <2>13. "answered" \in Fates
      BY DEF Fates
  <2>14. \A a \in ads : Suits(a, seeker[s].where) /\ offline[a] <= CacheAge
      BY <1>c, <2>1, <2>4
  <2>15. seeker' \in [Seekers -> Searches] /\ \A t \in Seekers : Sought(t)' /\ Answered(t)'
    <3>1. PICK f \in Fates : f = "answered"
        BY <2>13
    <3> QED
        BY <2>2, <2>11, <2>14, <3>1, ArrivesRight
  <2>16. SrTyped'
      BY <1>0, <2>2, <2>8, <2>15 DEF SrTyped
  <2>17. \A p \in DOMAIN jobIndex' : Indexing(p)'
      BY <2>2 DEF SrInv, Indexing
  <2> QED
      BY <2>2, <2>12, <2>15, <2>16, <2>17 DEF SrInv
<1>7. ASSUME NEW s \in Seekers, NEW written \in BOOLEAN, FinishSearch(s, written) PROVE SrInv'
  <2>1. /\ seeker[s].at = "asking" /\ seeker[s].todo = {} /\ seeker[s].missed = {}
        /\ jobIndex' = IF written THEN Indexed(seeker[s].ads) ELSE jobIndex
        /\ seeker' = [seeker EXCEPT ![s].at = "found"]
        /\ UNCHANGED <<boards, offline, boardCache>>
      BY <1>7 DEF FinishSearch
  <2>2. PICK w, todo, missed, old, got :
            /\ w = seeker[s].where /\ todo = seeker[s].todo /\ missed = seeker[s].missed
            /\ old = seeker[s].fate /\ got = seeker[s].ads
      OBVIOUS
  <2>3. /\ w \in Wheres /\ todo \in SUBSET Boards /\ missed \in SUBSET Boards
        /\ got \in SUBSET Ads /\ old \in [DOMAIN old -> Fates] /\ DOMAIN old \in SUBSET Boards
        /\ seeker[s] = [at |-> "asking", where |-> w, todo |-> todo, missed |-> missed,
                        fate |-> old, ads |-> got]
      BY <1>s, <2>1, <2>2, SearchShape
  <2>4. PICK r : r = [at |-> "found", where |-> w, todo |-> todo, missed |-> missed,
                      fate |-> old, ads |-> got]
      OBVIOUS
  <2>5. r \in Searches
      BY <2>3, <2>4, MakesSearch
  <2>6. seeker' = [seeker EXCEPT ![s] = r]
    <3>1. [seeker[s] EXCEPT !.at = "found"] = r
        BY <2>3, <2>4
    <3> QED
        BY <1>0, <2>1, <3>1
  <2>7. seeker'[s] = r /\ \A t \in Seekers \ {s} : seeker'[t] = seeker[t]
      BY <1>0, <2>6
  <2>8. /\ r.at = "found" /\ r.where = w /\ r.todo = todo /\ r.missed = missed
        /\ r.fate = old /\ r.ads = got
      BY <2>4
  <2>9. Sought(s) /\ Answered(s) /\ seeker[s] # NotSeeking
      BY <1>s, <2>1
  <2>10. Sought(s)' /\ Answered(s)'
    <3>1. Sought(s)'
        BY <2>1, <2>2, <2>7, <2>8, <2>9 DEF Sought, Skips
    <3>2. Answered(s)'
        BY <2>1, <2>2, <2>7, <2>8, <2>9 DEF Answered
    <3> QED
        BY <3>1, <3>2
  <2>11. CacheShrinks
      BY <2>1 DEF CacheShrinks
  <2>12. ASSUME NEW t \in Seekers PROVE Sought(t)' /\ Answered(t)'
      BY <2>1, <2>7, <2>10, <2>11, OthersAnswered
  <2>13. ASSUME NEW p \in DOMAIN jobIndex
         PROVE  \/ jobIndex'[p] = jobIndex[p]
                \/ \E a \in got : a.page = p /\ jobIndex'[p] = [kept |-> TRUE, age |-> 0, ad |-> a]
    <3>1. CASE jobIndex' = jobIndex
        BY <3>1
    <3>2. CASE jobIndex' = Indexed(got) /\ ~ \E a \in got : a.page = p
        BY <3>2 DEF Indexed
    <3>3. CASE jobIndex' = Indexed(got) /\ \E a \in got : a.page = p
      <4>1. PICK a : a = FirstOn(p, got)
          OBVIOUS
      <4>2. a \in got /\ a.page = p
          BY <3>3, <4>1 DEF FirstOn
      <4>3. jobIndex'[p] = [kept |-> TRUE, age |-> 0, ad |-> a]
          BY <3>3, <4>1 DEF Indexed
      <4> QED
          BY <4>2, <4>3
    <3> QED
        BY <2>1, <2>2, <3>1, <3>2, <3>3
  <2>14. ASSUME NEW p \in DOMAIN jobIndex PROVE jobIndex'[p] \in IndexRows /\ Indexing(p)'
    <3>1. CASE jobIndex'[p] = jobIndex[p]
        BY <1>0, <2>1, <3>1 DEF SrInv, Indexing
    <3>2. ASSUME NEW a \in got, a.page = p, jobIndex'[p] = [kept |-> TRUE, age |-> 0, ad |-> a]
          PROVE  jobIndex'[p] \in IndexRows /\ Indexing(p)'
      <4>1. a \in Ads /\ offline[a] \in Nat /\ offline[a] <= CacheAge
          BY <1>0, <2>2, <2>3, <2>9 DEF Sought
      <4>2. jobIndex'[p] \in IndexRows
          BY <3>2, <4>1 DEF IndexRows
      <4>3. jobIndex'[p].ad = a /\ jobIndex'[p].age = 0
          BY <3>2
      <4> QED
          BY <1>c, <2>1, <3>2, <4>1, <4>2, <4>3 DEF Indexing
    <3> QED
        BY <2>13, <3>1, <3>2
  <2>15. jobIndex' \in [{a.page : a \in Ads} -> IndexRows] /\ DOMAIN jobIndex' = DOMAIN jobIndex
    <3>1. jobIndex' = [p \in DOMAIN jobIndex |-> jobIndex'[p]]
        BY <1>0, <2>1 DEF Indexed
    <3> QED
        BY <1>0, <2>14, <3>1
  <2>16. SrTyped'
      BY <1>0, <2>1, <2>5, <2>6, <2>15 DEF SrTyped
  <2>17. \A b \in boards', c \in Wheres : FreshRow(b, c)'
      BY <2>1 DEF SrInv, FreshRow, Answer
  <2>18. boards' # {}
      BY <1>s, <2>1
  <2> QED
      BY <2>12, <2>14, <2>15, <2>16, <2>17, <2>18 DEF SrInv
<1>8. ASSUME NEW a \in Ads, WithdrawAd(a) PROVE SrInv'
  <2>1. /\ \A o \in Ads : offline[o] = 0
        /\ offline' = [offline EXCEPT ![a] = 1]
        /\ UNCHANGED <<boards, boardCache, jobIndex, seeker>>
      BY <1>8 DEF WithdrawAd
  <2>2. offline' \in [Ads -> Nat] /\ \A o \in Ads : offline'[o] \in Nat /\ offline'[o] <= 1
      BY <1>0, <2>1
  <2>3. SrTyped'
      BY <1>0, <2>1, <2>2 DEF SrTyped
  <2>4. ASSUME NEW b \in boards, NEW w \in Wheres PROVE FreshRow(b, w)'
    <3> SUFFICES ASSUME boardCache[b][w].kept
                 PROVE  FreshRow(b, w)'
        BY <2>1 DEF FreshRow
    <3>1. FreshRow(b, w)
        BY DEF SrInv
    <3>2. Answer(b, w)' \subseteq Answer(b, w)
        BY <2>1 DEF Answer
    <3>3. \A o \in boardCache[b][w].ads : offline'[o] <= boardCache[b][w].age + 1
        BY <1>e, <2>2
    <3> QED
        BY <2>1, <3>1, <3>2, <3>3 DEF FreshRow
  <2>5. ASSUME NEW p \in DOMAIN jobIndex PROVE Indexing(p)'
    <3> SUFFICES ASSUME jobIndex[p].kept
                 PROVE  Indexing(p)'
        BY <2>1 DEF Indexing
    <3>1. jobIndex[p].ad \in Ads /\ jobIndex[p].age \in Nat
        BY <1>0, RowShape
    <3>2. offline'[jobIndex[p].ad] <= CacheAge + jobIndex[p].age
        BY <1>c, <2>2, <3>1
    <3>3. jobIndex[p].ad.page = p
        BY DEF SrInv, Indexing
    <3> QED
        BY <2>1, <3>2, <3>3 DEF Indexing
  <2>6. ASSUME NEW t \in Seekers PROVE Sought(t)' /\ Answered(t)'
    <3>1. Sought(t) /\ Answered(t)
        BY DEF SrInv
    <3>2. Answered(t)'
        BY <2>1, <3>1 DEF Answered
    <3>3. Sought(t)'
      <4> SUFFICES ASSUME seeker[t] # NotSeeking PROVE Sought(t)'
          BY <2>1 DEF Sought
      <4>1. seeker[t].ads \in SUBSET Ads
          BY <1>0, SearchShape
      <4>2. \A o \in seeker[t].ads : offline'[o] <= CacheAge
          BY <1>c, <2>2, <4>1
      <4> QED
          BY <2>1, <3>1, <4>2 DEF Sought, Skips
    <3> QED
        BY <3>2, <3>3
  <2> QED
      BY <2>1, <2>3, <2>4, <2>5, <2>6 DEF SrInv
<1>9. ASSUME SearchTick PROVE SrInv'
  <2>1. /\ offline' = [a \in Ads |-> IF offline[a] \in 1..LongAgo THEN offline[a] + 1 ELSE offline[a]]
        /\ boardCache' = [b \in boards |-> [w \in Wheres |-> Aged(boardCache[b][w], CacheAge)]]
        /\ jobIndex' = [p \in DOMAIN jobIndex |-> Aged(jobIndex[p], IndexAge)]
        /\ seeker' = [s \in Seekers |-> NotSeeking] /\ boards' = boards
      BY <1>9 DEF SearchTick
  <2>2. \A a \in Ads : /\ offline'[a] \in Nat /\ offline'[a] <= offline[a] + 1
                       /\ offline'[a] = 0 => offline[a] = 0
    <3> SUFFICES ASSUME NEW a \in Ads
                 PROVE  /\ offline'[a] \in Nat /\ offline'[a] <= offline[a] + 1
                        /\ offline'[a] = 0 => offline[a] = 0
        OBVIOUS
    <3>1. offline[a] \in Nat
        BY <1>0
    <3>2. offline'[a] = offline[a] + 1 \/ offline'[a] = offline[a]
        BY <2>1
    <3> QED
        BY <3>1, <3>2
  <2>3. offline' \in [Ads -> Nat]
    <3>1. offline' = [a \in Ads |-> offline'[a]]
        BY <2>1
    <3> QED
        BY <2>2, <3>1
  <2>4. \A b \in boards, w \in Wheres : boardCache'[b][w] = Aged(boardCache[b][w], CacheAge)
      BY <2>1
  <2>5. boardCache' \in [boards -> [Wheres -> CacheEntries]]
    <3>1. \A b \in boards, w \in Wheres : Aged(boardCache[b][w], CacheAge) \in CacheEntries
        BY <1>0, <1>c, AgedEntry
    <3> QED
        BY <2>1, <3>1
  <2>6. jobIndex' \in [{a.page : a \in Ads} -> IndexRows]
      BY <1>0, <1>c, <2>1, AgedRow
  <2>7. SrTyped'
      BY <1>0, <1>i, <2>1, <2>3, <2>5, <2>6 DEF SrTyped
  <2>8. ASSUME NEW b \in boards, NEW w \in Wheres PROVE FreshRow(b, w)'
    <3>1. PICK e, n : e = boardCache[b][w] /\ n = boardCache'[b][w]
        OBVIOUS
    <3>2. /\ e \in CacheEntries /\ n.kept = e.kept
          /\ e.kept => /\ n.ads = e.ads
                       /\ n.age = IF e.age < CacheAge THEN e.age + 1 ELSE e.age
        BY <1>0, <1>c, <2>4, <3>1, AgedEntry
    <3> SUFFICES ASSUME e.kept PROVE FreshRow(b, w)'
        BY <3>1, <3>2 DEF FreshRow
    <3>3. e.age \in Nat /\ e.ads \in SUBSET Ads
        BY <3>2, EntryShape
    <3>4. FreshRow(b, w)
        BY DEF SrInv
    <3>5. Answer(b, w)' \subseteq Answer(b, w)
        BY <2>2 DEF Answer
    <3>6. ASSUME NEW a \in e.ads, n.age < CacheAge PROVE offline'[a] <= n.age + 1
      <4>1. e.age < CacheAge /\ n.age = e.age + 1
          BY <1>c, <3>2, <3>3, <3>6
      <4>2. offline[a] <= e.age + 1
          BY <3>1, <3>4, <4>1 DEF FreshRow
      <4>3. offline[a] \in Nat /\ offline'[a] \in Nat /\ offline'[a] <= offline[a] + 1
          BY <1>0, <2>2, <3>3
      <4> QED
          BY <3>3, <4>1, <4>2, <4>3
    <3> QED
        BY <3>1, <3>2, <3>4, <3>5, <3>6 DEF FreshRow
  <2>9. ASSUME NEW p \in DOMAIN jobIndex PROVE Indexing(p)'
    <3>1. PICK e, n : e = jobIndex[p] /\ n = jobIndex'[p]
        OBVIOUS
    <3>2. /\ e \in IndexRows /\ n.kept = e.kept
          /\ e.kept => /\ n.ad = e.ad
                       /\ n.age = IF e.age < IndexAge THEN e.age + 1 ELSE e.age
        BY <1>0, <1>c, <2>1, <3>1, AgedRow
    <3> SUFFICES ASSUME e.kept PROVE Indexing(p)'
        BY <3>1, <3>2 DEF Indexing
    <3>3. e.age \in Nat /\ e.ad \in Ads
        BY <3>2, RowShape
    <3>4. e.ad.page = p /\ (e.age < IndexAge => offline[e.ad] <= CacheAge + e.age)
        BY <3>1 DEF SrInv, Indexing
    <3>5. ASSUME n.age < IndexAge PROVE offline'[n.ad] <= CacheAge + n.age
      <4>1. e.age < IndexAge /\ n.age = e.age + 1 /\ n.ad = e.ad
          BY <1>c, <3>2, <3>3, <3>5
      <4>2. /\ offline[e.ad] \in Nat /\ offline'[e.ad] \in Nat
            /\ offline'[e.ad] <= offline[e.ad] + 1
          BY <1>0, <2>2, <3>3
      <4> QED
          BY <1>c, <3>3, <3>4, <4>1, <4>2
    <3> QED
        BY <3>1, <3>2, <3>4, <3>5 DEF Indexing
  <2>10. DOMAIN jobIndex' = DOMAIN jobIndex
      BY <2>1
  <2>11. \A s \in Seekers : seeker'[s] = NotSeeking
      BY <2>1
  <2> QED
      BY <2>1, <2>7, <2>8, <2>9, <2>10, <2>11 DEF SrInv, Sought, Answered
<1>10. CASE UNCHANGED srVars
    BY <1>10 DEF srVars, SrInv, SrTyped, FreshRow, Answer, Indexing, Sought, Skips, Answered
<1> QED
    BY <1>1, <1>2, <1>3, <1>4, <1>5, <1>6, <1>7, <1>8, <1>9, <1>10 DEF SrNext

LEMMA SearchKeep == SrInv => SearchHolds
<1> SUFFICES ASSUME SrInv PROVE SearchHolds
    OBVIOUS
<1>0. /\ boards \subseteq Boards /\ offline \in [Ads -> Nat]
      /\ boardCache \in [boards -> [Wheres -> CacheEntries]]
      /\ jobIndex \in [{a.page : a \in Ads} -> IndexRows]
      /\ seeker \in [Seekers -> Searches]
      /\ CacheAge \in Nat \ {0} /\ IndexAge \in Nat
    BY SearchAssumption DEF SrInv, SrTyped
<1>1. ASSUME NEW s \in Seekers, Found(s), NEW r, r = seeker[s]
      PROVE  /\ DOMAIN r.fate = boards
             /\ \A a \in r.ads : InPlace(a, r.where) /\ a.level /\ a.family /\ offline[a] <= CacheAge
             /\ \A a, c \in r.ads : a.page = c.page => a = c
             /\ \A b \in boards : r.fate[b] = "cached" =>
                  \A a \in Cached(b, r.where).ads :
                    \E c \in r.ads : c.page = a.page /\ c.text >= a.text
  <2>1. r # NotSeeking /\ r.at = "found" /\ Sought(s) /\ Answered(s)
      BY <1>1 DEF Found, NotSeeking, SrInv
  <2>2. DOMAIN r.fate = boards
      BY <1>1, <2>1 DEF Sought
  <2>3. \A a \in r.ads : InPlace(a, r.where) /\ a.level /\ a.family /\ offline[a] <= CacheAge
      BY <1>1, <2>1 DEF Sought, Suits
  <2>4. \A a, c \in r.ads : a.page = c.page => a = c
      BY <1>1, <2>1 DEF Sought, OnePerPage
  <2>5. \A b \in boards : r.fate[b] = "cached" =>
          \A a \in Cached(b, r.where).ads : \E c \in r.ads : c.page = a.page /\ c.text >= a.text
      BY <1>1, <2>1, <2>2 DEF Answered, Covers, Cached, CacheKey
  <2> QED
      BY <2>2, <2>3, <2>4, <2>5
<1>2. ASSUME NEW w \in Wheres, NEW p \in Diagnosed(w)
      PROVE  \E a \in Ads : a.page = p /\ InPlace(a, w) /\ offline[a] <= CacheAge + IndexAge
  <2>1. CASE p \in IndexCounts(w)
    <3>1. /\ p \in DOMAIN jobIndex /\ jobIndex[p].kept /\ jobIndex[p].age < IndexAge
          /\ InPlace(jobIndex[p].ad, w)
        BY <2>1 DEF IndexCounts
    <3>2. /\ jobIndex[p].ad \in Ads /\ jobIndex[p].age \in Nat
          /\ jobIndex[p].ad.page = p /\ offline[jobIndex[p].ad] <= CacheAge + jobIndex[p].age
        BY <1>0, <3>1, RowShape DEF SrInv, Indexing
    <3>3. offline[jobIndex[p].ad] \in Nat
        BY <1>0, <3>2
    <3>4. offline[jobIndex[p].ad] <= CacheAge + IndexAge
        BY <1>0, <3>1, <3>2, <3>3
    <3> QED
        BY <3>1, <3>2, <3>4
  <2>2. CASE p \in CacheCounts(w)
    <3>1. PICK b \in boards : Hit(b, w) /\ p \in {a.page : a \in Cached(b, w).ads}
        BY <2>2 DEF CacheCounts
    <3>2. PICK a \in Cached(b, w).ads : a.page = p
        BY <3>1
    <3>3. /\ boardCache[b][w].kept /\ boardCache[b][w].age < CacheAge
          /\ a \in boardCache[b][w].ads /\ FreshRow(b, w)
        BY <3>1, <3>2 DEF SrInv, Hit, Cached, CacheKey
    <3>4. a \in Ads /\ boardCache[b][w].age \in Nat /\ b \in Boards
        BY <1>0, <3>3, EntryShape
    <3>5. /\ BoardTakes(b, a, w) /\ offline[a] <= boardCache[b][w].age + 1
          /\ w # "" => b \notin RemoteOnly
        BY <3>3 DEF FreshRow
    <3>6. InPlace(a, w)
        BY <3>4, <3>5, TakesSuit DEF Suits
    <3>7. offline[a] \in Nat
        BY <1>0, <3>4
    <3>8. PICK x, n : x = offline[a] /\ n = boardCache[b][w].age
        OBVIOUS
    <3>9. x \in Nat /\ n \in Nat /\ n < CacheAge
        BY <3>3, <3>4, <3>7, <3>8
    <3>10. x <= n + 1
        BY <3>5, <3>8
    <3>11. x <= CacheAge + IndexAge
        BY <1>0, <3>9, <3>10
    <3> QED
        BY <3>2, <3>4, <3>6, <3>8, <3>11
  <2> QED
      BY <2>1, <2>2 DEF Diagnosed
<1> QED
    BY <1>1, <1>2 DEF SearchHolds
-----------------------------------------------------------------------------
(* Routing *)

\* The command kept for a message, or in hand for it, is the message's own.
Fitting(m) == {NoCommand, Command(m)}

RtInv ==
    /\ routeCache \in [Messages -> Entries] /\ DOMAIN asker = Askers /\ DOMAIN delivered = Askers
    /\ \A m \in Messages : routeCache[m] = Nothing \/ routeCache[m] \in Fitting(m)
    /\ \A a \in Askers :
          /\ asker[a].at \in {"look", "ask", "stash", "args"} => asker[a].of \in Messages
          /\ asker[a].at = "args" => asker[a].command \in Fitting(asker[a].of)
    /\ CommandFits

LEMMA RoutingShapes ==
    /\ Nothing \in Entries /\ NoCommand \in Entries /\ Nothing # NoCommand /\ NotAsking.at = "idle"
    /\ \A m \in Messages : /\ Command(m) \in Entries /\ Command(m) # NoCommand
                           /\ Command(m) # Nothing /\ Command(m).of = m
<1>1. Nothing.kept = "absent" /\ NoCommand.kept = "none" /\ NotAsking.at = "idle"
    BY DEF Nothing, NoCommand, NotAsking
<1>2. \A m \in Messages : Command(m).kept = "command" /\ Command(m).of = m
    BY DEF Command
<1>3. Nothing \in Entries /\ NoCommand \in Entries /\ \A m \in Messages : Command(m) \in Entries
    BY DEF Entries, Command
<1> QED
    BY <1>1, <1>2, <1>3

\* A request goes from one place to another, and what it leaves in the cache
\* fits the message.
LEMMA RoutingStep ==
    ASSUME RtInv, NEW a \in Askers, NEW r, asker' = [asker EXCEPT ![a] = r],
           routeCache' \in [Messages -> Entries],
           \A m \in Messages : routeCache'[m] \in {routeCache[m], Nothing} \cup Fitting(m),
           r.at \in {"look", "ask", "stash", "args"} => r.of \in Messages,
           r.at = "args" => r.command \in Fitting(r.of),
           DOMAIN delivered' = Askers, CommandFits'
    PROVE  RtInv'
<1>1. DOMAIN asker' = Askers /\ asker'[a] = r /\ \A b \in Askers : b # a => asker'[b] = asker[b]
    BY DEF RtInv
<1>2. \A m \in Messages : routeCache'[m] = Nothing \/ routeCache'[m] \in Fitting(m)
    BY DEF RtInv
<1>3. ASSUME NEW b \in Askers
      PROVE  /\ asker'[b].at \in {"look", "ask", "stash", "args"} => asker'[b].of \in Messages
             /\ asker'[b].at = "args" => asker'[b].command \in Fitting(asker'[b].of)
  <2>1. CASE b = a
      BY <1>1, <2>1
  <2>2. CASE b # a
      BY <1>1, <2>2 DEF RtInv
  <2> QED
      BY <2>1, <2>2
<1>4. \A m : Fitting(m)' = Fitting(m)
    BY DEF Fitting
<1> QED
    BY <1>1, <1>2, <1>3 DEF RtInv, Fitting

LEMMA InitRouting == RtInit => RtInv
<1> SUFFICES ASSUME RtInit PROVE RtInv
    OBVIOUS
<1>1. /\ routeCache = [m \in Messages |-> Nothing] /\ asker = [a \in Askers |-> NotAsking]
      /\ delivered = [a \in Askers |-> <<>>]
    BY DEF RtInit
<1> QED
    BY <1>1, RoutingShapes DEF RtInv, CommandFits

LEMMA NextRouting == RtInv /\ [RtNext]_rtVars => RtInv'
<1> SUFFICES ASSUME RtInv, [RtNext]_rtVars PROVE RtInv'
    OBVIOUS
<1>0. /\ CommandFits /\ routeCache \in [Messages -> Entries] /\ DOMAIN delivered = Askers
      /\ UNCHANGED delivered => CommandFits'
    BY DEF RtInv, CommandFits
<1>1. ASSUME NEW a \in Askers, NEW m \in Messages, RouteMessage(a, m) PROVE RtInv'
  <2>1. PICK r : r = [at |-> "look", of |-> m]
      OBVIOUS
  <2>2. r.at = "look" /\ r.of = m
      BY <2>1
  <2> QED
      BY <1>0, <1>1, <2>1, <2>2, RoutingStep DEF RouteMessage, Does
<1>2. ASSUME NEW a \in Askers, Look(a) PROVE RtInv'
  <2>1. PICK m \in Messages : m = asker[a].of
      BY <1>2 DEF Look, RtInv
  <2>2. CASE Kept(m) # Nothing /\ Does(a, [at |-> "args", of |-> m, command |-> Kept(m)])
             /\ UNCHANGED <<routeCache, delivered>>
    <3>1. PICK r : r = [at |-> "args", of |-> m, command |-> Kept(m)]
        OBVIOUS
    <3>2. r.at = "args" /\ r.of = m /\ r.command \in Fitting(m)
        BY <2>2, <3>1 DEF Kept, Key, RtInv
    <3> QED
        BY <1>0, <2>2, <3>1, <3>2, RoutingStep DEF Does
  <2>3. CASE Keep(m, NoCommand) /\ Does(a, NotAsking) /\ UNCHANGED delivered
    <3>1. /\ routeCache' = [routeCache EXCEPT ![m] = NoCommand]
        BY <2>3 DEF Keep, Key
    <3>2. /\ routeCache' \in [Messages -> Entries]
          /\ \A n \in Messages : routeCache'[n] \in {routeCache[n], NoCommand}
        BY <1>0, <3>1, RoutingShapes
    <3> QED
        BY <1>0, <2>3, <3>2, RoutingShapes, RoutingStep DEF Does, Fitting
  <2>4. CASE Does(a, NotAsking) /\ UNCHANGED <<routeCache, delivered>>
      BY <1>0, <2>4, RoutingShapes, RoutingStep DEF Does
  <2>5. CASE Does(a, [at |-> "ask", of |-> m]) /\ UNCHANGED <<routeCache, delivered>>
    <3>1. PICK r : r = [at |-> "ask", of |-> m]
        OBVIOUS
    <3>2. r.at = "ask" /\ r.of = m
        BY <3>1
    <3> QED
        BY <1>0, <2>5, <3>1, <3>2, RoutingStep DEF Does
  <2> QED
      BY <1>2, <2>1, <2>2, <2>3, <2>4, <2>5 DEF Look
<1>3. ASSUME NEW a \in Askers, AskFails(a) PROVE RtInv'
  <2>1. PICK m \in Messages : m = asker[a].of
      BY <1>3 DEF AskFails, RtInv
  <2>2. routeCache' = [routeCache EXCEPT ![m] = NoCommand]
      BY <1>3, <2>1 DEF AskFails, Keep, Key
  <2>3. /\ routeCache' \in [Messages -> Entries]
        /\ \A n \in Messages : routeCache'[n] \in {routeCache[n], NoCommand}
      BY <1>0, <2>2, RoutingShapes
  <2> QED
      BY <1>0, <1>3, <2>3, RoutingShapes, RoutingStep DEF AskFails, Does, Fitting
<1>4. ASSUME NEW a \in Askers, AskAnswers(a) PROVE RtInv'
  <2>1. PICK r : r = [at |-> "stash", of |-> asker[a].of]
      OBVIOUS
  <2>2. r.at = "stash" /\ r.of \in Messages
      BY <1>4, <2>1 DEF AskAnswers, RtInv
  <2> QED
      BY <1>0, <1>4, <2>1, <2>2, RoutingStep DEF AskAnswers, Does
<1>5. ASSUME NEW a \in Askers, Stash(a) PROVE RtInv'
  <2>1. PICK m \in Messages : m = asker[a].of
      BY <1>5 DEF Stash, RtInv
  <2>2. PICK r : r = [at |-> "args", of |-> m, command |-> Command(m)]
      OBVIOUS
  <2>3. r.at = "args" /\ r.of = m /\ r.command \in Fitting(m)
      BY <2>2 DEF Fitting
  <2>4. routeCache' = [routeCache EXCEPT ![m] = Command(m)]
      BY <1>5, <2>1 DEF Stash, Keep, Key
  <2>5. /\ routeCache' \in [Messages -> Entries]
        /\ \A n \in Messages : routeCache'[n] \in {routeCache[n]} \cup Fitting(n)
      BY <1>0, <2>4, RoutingShapes DEF Fitting
  <2>6. asker' = [asker EXCEPT ![a] = r] /\ UNCHANGED delivered
      BY <1>5, <2>1, <2>2 DEF Stash, Does
  <2> QED
      BY <1>0, <2>3, <2>5, <2>6, RoutingStep
<1>6. ASSUME NEW a \in Askers, ReadArgs(a) PROVE RtInv'
  <2>1. PICK m \in Messages : m = asker[a].of /\ asker[a].command \in Fitting(m)
      BY <1>6 DEF ReadArgs, RtInv
  <2>2. PICK c : c = asker[a].command
      OBVIOUS
  <2>3. c # NoCommand => c.of = m
      BY <2>1, <2>2, RoutingShapes DEF Fitting
  <2>4. CASE c = NoCommand
    <3>1. UNCHANGED delivered
        BY <1>6, <2>2, <2>4 DEF ReadArgs
    <3> QED
        BY <1>0, <1>6, <3>1, RoutingShapes, RoutingStep DEF ReadArgs, Does
  <2>5. CASE c # NoCommand
    <3>1. delivered' = [delivered EXCEPT ![a] = <<m, m, Arguments(m)>>]
        BY <1>6, <2>1, <2>2, <2>3, <2>5 DEF ReadArgs
    <3>2. DOMAIN delivered' = Askers /\ CommandFits'
        BY <1>0, <3>1 DEF CommandFits
    <3> QED
        BY <1>0, <1>6, <3>2, RoutingShapes, RoutingStep DEF ReadArgs, Does
  <2> QED
      BY <2>4, <2>5
<1>7. ASSUME NEW m \in Messages, CacheForgets(m) PROVE RtInv'
  <2>1. /\ routeCache' \in [Messages -> Entries] /\ UNCHANGED <<asker, delivered>>
        /\ \A n \in Messages : routeCache'[n] \in {routeCache[n], Nothing}
      BY <1>0, <1>7, RoutingShapes DEF CacheForgets
  <2> QED
      BY <1>0, <2>1 DEF RtInv, Fitting
<1>8. ASSUME UNCHANGED <<routeCache, asker, delivered>> PROVE RtInv'
    BY <1>0, <1>8 DEF RtInv, Fitting
<1> QED
    BY <1>1, <1>2, <1>3, <1>4, <1>5, <1>6, <1>7, <1>8 DEF RtNext, MinutePasses, rtVars
-----------------------------------------------------------------------------
(* Streams *)

PageKinds == {"find", "letter", "tailor"}
Heards    == {"nothing", "lost", "cut", "ended", "error", "no", "cap", "ai", "plain"}
PageRow   == [kind : {"none"} \cup PageKinds,
              at : {"none", "reading", "waiting", "answered", "failed"}, heard : Heards]
TaskRow   == [at : {"none", "asked", "open", "over", "killed"}, ran : BOOLEAN,
              text : {"none", "part", "all"}]
BookRow   == [audits : Seq({"ok", "error"}), paid : {"none", "part", "all"}, receipts : Nat]
Events    == {"token", "ai", "plain", "no", "cap", "error"}

StrTyped ==
    /\ page \in [Asks -> PageRow] /\ pipe \in [Asks -> Seq(Events)]
    /\ task \in [Asks \X Ways -> TaskRow] /\ ledger \in [Asks \X Ways -> BookRow]
    /\ mixed \in BOOLEAN

\* A run that is over is in the books as it was, or as one that sent nothing if
\* its reader was gone; one that is not over is in none.
Booked(k, text) ==
    /\ k.audits = <<AuditOutcome(text)>> /\ k.paid = text
    /\ k.receipts = IF text = "none" THEN 0 ELSE 1
TaskFits(t, k, kind, dropped) ==
    /\ t.at \in {"none", "asked"} => ~t.ran
    /\ ~t.ran => t.text = "none"
    /\ t.at = "open" => (t.ran <=> kind # "find") /\ t.text # "all"
    /\ t.at = "over" => IF t.ran THEN Booked(k, t.text) \/ (dropped /\ Booked(k, "none")) ELSE k = NoBook
    /\ t.at # "over" => k = NoBook

\* A page that reads has not asked again and is heard; what it will take for
\* the text of a run is booked.
PageFits(p, q, s, j, k, dropped) ==
    /\ p.at = "none" => p = NoPage /\ q = <<>> /\ s = NoTask /\ j = NoTask /\ ~dropped
    /\ p.at # "none" => p.kind \in PageKinds
    /\ p.at = "reading" => p.heard = "nothing" /\ j = NoTask /\ ~dropped
    /\ p.at = "reading" /\ (\E i \in DOMAIN q : q[i] = "ai") => k.paid # "none"
    /\ p.heard \in {"ai", "plain", "cap"} => j = NoTask
    /\ p.heard = "ai" => k.paid # "none"

\* A search that nobody lost: its stream is under way, or its jobs are kept and
\* on their way to the page, or it is done with.
FindFits(a, p, q, s, j, dropped) ==
    p.kind = "find" =>
        /\ j = NoTask /\ ~dropped
        /\ \/ p.at = "reading" /\ s.at \in {"asked", "open", "killed"} /\ q = <<>> /\ stored = onView
           \/ p.at = "reading" /\ s.at = "over" /\ q = <<"plain">> /\ stored = a
           \/ p.at = "reading" /\ s.at = "over" /\ q = <<"error">> /\ stored = onView
           \/ p.at \in {"answered", "failed"} /\ s.at \notin {"asked", "open"}

Finding(a) == Kind(a) = "find" /\ page[a].at = "reading"
Fits(a) ==
    LET s == task[<<a, "stream">>]  j == task[<<a, "json">>]  dropped == a \in broken
    IN  /\ TaskFits(s, ledger[<<a, "stream">>], Kind(a), dropped)
        /\ TaskFits(j, ledger[<<a, "json">>], Kind(a), dropped)
        /\ PageFits(page[a], pipe[a], s, j, ledger[<<a, "stream">>], dropped)
Finds(a) ==
    FindFits(a, page[a], pipe[a], task[<<a, "stream">>], task[<<a, "json">>], a \in broken)
SearchesAgree ==
    ~mixed => /\ \A a \in Asks : Finds(a)
              /\ \A a, b \in Asks : Finding(a) /\ Finding(b) => a = b
              /\ (\A a \in Asks : ~Finding(a)) => stored = onView

StreamsInv == StrTyped /\ (\A a \in Asks : Fits(a)) /\ SearchesAgree

LEMMA StreamRows ==
    /\ NoPage \in PageRow /\ NoPage.at = "none" /\ NoPage.kind = "none" /\ NoPage.heard = "nothing"
    /\ NoTask \in TaskRow /\ NoTask.at = "none" /\ ~NoTask.ran /\ NoTask.text = "none"
    /\ NoBook \in BookRow /\ NoBook.audits = <<>> /\ NoBook.paid = "none" /\ NoBook.receipts = 0
BY DEF NoPage, NoTask, NoBook, PageRow, TaskRow, BookRow, PageKinds, Heards

LEMMA StreamsKeep == StreamsInv => StreamsHold
<1> SUFFICES ASSUME StreamsInv PROVE StreamsHold
    OBVIOUS
<1>1. ASSUME NEW h \in Asks \X Ways, task[h].at = "over"
      PROVE  /\ Len(ledger[h].audits) = IF task[h].ran THEN 1 ELSE 0
             /\ h[1] \notin broken => /\ ledger[h].paid = task[h].text
                                      /\ task[h].text = "all" <=> ledger[h].audits = <<"ok">>
             /\ ledger[h].receipts = IF ledger[h].paid = "none" THEN 0 ELSE 1
  <2>1. PICK t, k, dropped : t = task[h] /\ k = ledger[h] /\ dropped = (h[1] \in broken)
      OBVIOUS
  <2>2. TaskFits(t, k, Kind(h[1]), dropped) /\ dropped \in BOOLEAN
    <3>1. PICK a \in Asks, w \in Ways : h = <<a, w>>
        OBVIOUS
    <3>2. Fits(a) /\ h[1] = a /\ (w = "stream" \/ w = "json")
        BY <3>1 DEF StreamsInv, Ways
    <3> QED
        BY <2>1, <3>1, <3>2 DEF Fits
  <2>3. CASE t.ran
    <3>1. PICK x : x \in {t.text, "none"} /\ Booked(k, x) /\ (~dropped => x = t.text)
        BY <1>1, <2>1, <2>2, <2>3 DEF TaskFits
    <3>2. /\ Len(k.audits) = 1 /\ k.paid = x /\ k.receipts = (IF x = "none" THEN 0 ELSE 1)
          /\ x = "all" <=> k.audits = <<"ok">>
        BY <3>1 DEF Booked, AuditOutcome
    <3> QED
        BY <2>1, <2>3, <3>1, <3>2
  <2>4. CASE ~t.ran
    <3>1. k = NoBook /\ t.text = "none"
        BY <1>1, <2>1, <2>2, <2>4 DEF TaskFits
    <3> QED
        BY <2>1, <2>4, <3>1, StreamRows
  <2> QED
      BY <2>3, <2>4, <2>1 DEF StreamsInv, StrTyped, TaskRow
<1>2. BooksBalance
    BY <1>1 DEF BooksBalance
<1>3. AskedOnce
    BY DEF AskedOnce, StreamsInv, Fits, PageFits
<1>4. ShownIsStored
  <2> SUFFICES ASSUME ~mixed, \A a \in Asks : ~Under(a) PROVE onView = stored
      BY DEF ShownIsStored
  <2>1. \A a \in Asks : ~Finding(a)
      BY DEF Under, Finding
  <2> QED
      BY <2>1 DEF StreamsInv, SearchesAgree
<1> QED
    BY <1>2, <1>3, <1>4 DEF StreamsHold

LEMMA InitStreams == StrInit => StreamsInv
<1> SUFFICES ASSUME StrInit PROVE StreamsInv
    OBVIOUS
<1>1. StrTyped
  <2>1. <<>> \in Seq(Events)
      OBVIOUS
  <2> QED
      BY <2>1, StreamRows DEF StrInit, StrTyped
<1>2. ASSUME NEW a \in Asks PROVE Fits(a) /\ Finds(a) /\ ~Finding(a)
  <2>1. /\ page[a] = NoPage /\ pipe[a] = <<>> /\ task[<<a, "stream">>] = NoTask
        /\ task[<<a, "json">>] = NoTask /\ ledger[<<a, "stream">>] = NoBook
        /\ ledger[<<a, "json">>] = NoBook /\ a \notin broken
      BY DEF StrInit, Ways
  <2> QED
      BY <2>1, StreamRows DEF Fits, Finds, Finding, TaskFits, PageFits, FindFits, Kind
<1>3. SearchesAgree
    BY <1>2 DEF SearchesAgree, StrInit
<1> QED
    BY <1>1, <1>2, <1>3 DEF StreamsInv

\* What is done for one ask is nothing to the others.
OthersStay(a) ==
    \A b \in Asks \ {a} :
        /\ page'[b] = page[b] /\ pipe'[b] = pipe[b] /\ (b \in broken' <=> b \in broken)
        /\ \A w \in Ways : task'[<<b, w>>] = task[<<b, w>>] /\ ledger'[<<b, w>>] = ledger[<<b, w>>]

LEMMA AskMoves ==
    ASSUME StreamsInv, NEW a \in Asks, StrTyped', OthersStay(a), Fits(a)', mixed => mixed',
           ~mixed' =>
              \/ Kind(a) # "find" /\ page'[a].kind # "find" /\ UNCHANGED <<stored, onView>>
              \/ /\ \A b \in Asks \ {a} : ~Finding(b)
                 /\ Finds(a)' /\ (Finding(a)' \/ stored' = onView')
    PROVE  StreamsInv'
<1>1. ASSUME NEW b \in Asks \ {a}
      PROVE  /\ Fits(b)' /\ (Finding(b)' <=> Finding(b))
             /\ Finds(b) /\ (UNCHANGED <<stored, onView>> \/ ~Finding(b)) => Finds(b)'
  <2>1. /\ page'[b] = page[b] /\ pipe'[b] = pipe[b] /\ (b \in broken' <=> b \in broken)
        /\ task'[<<b, "stream">>] = task[<<b, "stream">>] /\ task'[<<b, "json">>] = task[<<b, "json">>]
        /\ ledger'[<<b, "stream">>] = ledger[<<b, "stream">>]
        /\ ledger'[<<b, "json">>] = ledger[<<b, "json">>]
      BY DEF OthersStay, Ways
  <2>2. Fits(b)
      BY DEF StreamsInv
  <2>3. Fits(b)'
      BY <2>1, <2>2 DEF Fits, TaskFits, PageFits, Kind
  <2>4. Finding(b)' <=> Finding(b)
      BY <2>1 DEF Finding, Kind
  <2>5. Finds(b) /\ (UNCHANGED <<stored, onView>> \/ ~Finding(b)) => Finds(b)'
      BY <2>1 DEF Finds, FindFits, Finding, Kind
  <2> QED
      BY <2>3, <2>4, <2>5
<1>2. \A b \in Asks : Fits(b)'
    BY <1>1
<1>3. SearchesAgree'
  <2> SUFFICES ASSUME ~mixed'
               PROVE  /\ \A b \in Asks : Finds(b)'
                      /\ \A b, c \in Asks : Finding(b)' /\ Finding(c)' => b = c
                      /\ (\A b \in Asks : ~Finding(b)') => stored' = onView'
      BY DEF SearchesAgree
  <2>1. /\ \A b \in Asks : Finds(b)
        /\ \A b, c \in Asks : Finding(b) /\ Finding(c) => b = c
        /\ (\A b \in Asks : ~Finding(b)) => stored = onView
      BY DEF StreamsInv, SearchesAgree
  <2>2. CASE Kind(a) # "find" /\ page'[a].kind # "find" /\ UNCHANGED <<stored, onView>>
    <3>1. ~Finding(a) /\ ~Finding(a)' /\ Finds(a)'
        BY <2>2 DEF Finding, Finds, FindFits, Kind
    <3> QED
        BY <1>1, <2>1, <2>2, <3>1
  <2>3. CASE /\ \A b \in Asks \ {a} : ~Finding(b)
             /\ Finds(a)' /\ (Finding(a)' \/ stored' = onView')
      BY <1>1, <2>1, <2>3
  <2> QED
      BY <2>2, <2>3
<1> QED
    BY <1>2, <1>3 DEF StreamsInv

\* A handler of a moves from a row that is under way to another, and may write.
LEMMA TaskMoves ==
    ASSUME StreamsInv, NEW a \in Asks, NEW w \in Ways, NEW t \in TaskRow, NEW k \in BookRow,
           NEW ev \in Seq(Events), task[<<a, w>>].at \in {"asked", "open"},
           task' = [task EXCEPT ![<<a, w>>] = t], ledger' = [ledger EXCEPT ![<<a, w>>] = k],
           pipe' = pipe \/ Writes(<<a, w>>, ev), UNCHANGED <<page, broken, mixed>>,
           TaskFits(t, k, Kind(a), a \in broken), t.at # "none",
           w = "json" \/ k.paid # "none" \/ \A i \in DOMAIN ev : ev[i] # "ai"
    PROVE  StrTyped' /\ OthersStay(a) /\ Fits(a)'
<1> DEFINE s == task[<<a, "stream">>]  j == task[<<a, "json">>]  b == ledger[<<a, "stream">>]
<1> USE DEF Ways
<1>1. /\ task \in [Asks \X Ways -> TaskRow] /\ ledger \in [Asks \X Ways -> BookRow]
      /\ pipe \in [Asks -> Seq(Events)] /\ page \in [Asks -> PageRow] /\ mixed \in BOOLEAN
    BY DEF StreamsInv, StrTyped
<1>2. pipe' = pipe \/ pipe' = [pipe EXCEPT ![a] = pipe[a] \o ev]
    BY <1>1 DEF Writes
<1>3. pipe[a] \o ev \in Seq(Events)
    BY <1>1
<1>4. StrTyped'
    BY <1>1, <1>2, <1>3 DEF StrTyped
<1>5. OthersStay(a)
    BY <1>1, <1>2 DEF OthersStay
<1>6. /\ TaskFits(s, b, Kind(a), a \in broken)
      /\ TaskFits(j, ledger[<<a, "json">>], Kind(a), a \in broken)
      /\ PageFits(page[a], pipe[a], s, j, b, a \in broken)
    BY DEF StreamsInv, Fits
<1>7. /\ task'[<<a, w>>] = t /\ ledger'[<<a, w>>] = k /\ Kind(a)' = Kind(a)
      /\ \A v \in Ways \ {w} : task'[<<a, v>>] = task[<<a, v>>] /\ ledger'[<<a, v>>] = ledger[<<a, v>>]
    BY <1>1 DEF Kind
<1>8. PageFits(page[a], pipe'[a], s', j', b', a \in broken)
  <2>1. page[a].at # "none"
      BY <1>6, StreamRows DEF PageFits
  <2>2. CASE w = "json"
    <3>1. s' = s /\ b' = b /\ j # NoTask
        BY <1>7, <2>2, StreamRows
    <3>2. page[a].at # "reading" /\ page[a].heard \notin {"ai", "plain", "cap"}
        BY <1>6, <3>1 DEF PageFits
    <3> QED
        BY <1>6, <2>1, <3>1, <3>2 DEF PageFits
  <2>3. CASE w = "stream"
    <3>1. j' = j /\ b' = k /\ b = NoBook
        BY <1>6, <1>7, <2>3 DEF TaskFits
    <3>2. /\ page[a].heard # "ai"
          /\ page[a].at = "reading" => \A i \in DOMAIN pipe[a] : pipe[a][i] # "ai"
        BY <1>6, <3>1, StreamRows DEF PageFits
    <3>3. page[a].at = "reading" /\ (\E i \in DOMAIN pipe'[a] : pipe'[a][i] = "ai") => k.paid # "none"
      <4> SUFFICES ASSUME page[a].at = "reading", NEW i \in DOMAIN pipe'[a], pipe'[a][i] = "ai",
                          k.paid = "none"
                   PROVE  FALSE
          OBVIOUS
      <4>1. pipe'[a] = pipe[a] \/ pipe'[a] = pipe[a] \o ev
          BY <1>1, <1>2
      <4>2. \A n \in DOMAIN ev : ev[n] # "ai"
          BY <2>3
      <4>3. CASE pipe'[a] = pipe[a] \o ev
        <5>1. pipe[a] \in Seq(Events) /\ ev \in Seq(Events)
            BY <1>1
        <5>2. /\ DOMAIN (pipe[a] \o ev) = 1..(Len(pipe[a]) + Len(ev))
              /\ (pipe[a] \o ev)[i] = IF i <= Len(pipe[a]) THEN pipe[a][i] ELSE ev[i - Len(pipe[a])]
            BY <4>3, <5>1
        <5> QED
            BY <3>2, <4>2, <4>3, <5>1, <5>2
      <4> QED
          BY <3>2, <4>1, <4>3
    <3> QED
        BY <1>6, <2>1, <3>1, <3>2, <3>3 DEF PageFits
  <2> QED
      BY <2>2, <2>3
<1>9. TaskFits(s', b', Kind(a), a \in broken) /\ TaskFits(j', ledger'[<<a, "json">>], Kind(a), a \in broken)
    BY <1>6, <1>7
<1>10. Fits(a)'
    BY <1>7, <1>8, <1>9 DEF Fits
<1> QED
    BY <1>4, <1>5, <1>10

LEMMA EventLists ==
    \A ev \in {<<"no">>, <<"ai">>, <<"token", "plain">>, <<"plain">>, <<"cap">>, <<"token">>, <<>>} :
        ev \in Seq(Events) /\ (ev # <<"ai">> => \A i \in DOMAIN ev : ev[i] # "ai")
<1>1. /\ <<"no">> \in Seq(Events) /\ <<"ai">> \in Seq(Events) /\ <<"token", "plain">> \in Seq(Events)
      /\ <<"plain">> \in Seq(Events) /\ <<"cap">> \in Seq(Events) /\ <<"token">> \in Seq(Events)
      /\ <<>> \in Seq(Events)
    BY DEF Events
<1>2. \A i \in DOMAIN <<"token", "plain">> : <<"token", "plain">>[i] # "ai"
    OBVIOUS
<1>3. \A x \in Events \ {"ai"} : \A i \in DOMAIN <<x>> : <<x>>[i] # "ai"
    OBVIOUS
<1>4. \A i \in DOMAIN <<>> : <<>>[i] # "ai"
    OBVIOUS
<1>5. {"no", "plain", "cap", "token"} \subseteq Events \ {"ai"}
    BY DEF Events
<1> QED
    BY <1>1, <1>2, <1>3, <1>4, <1>5

\* While nothing is mixed up, a search under way is the only one, and is read.
LEMMA OneSearch ==
    ASSUME StreamsInv, NEW a \in Asks, NEW w \in Ways, task[<<a, w>>].at \in {"asked", "open"},
           Kind(a) = "find", ~mixed
    PROVE  /\ w = "stream" /\ page[a].at = "reading" /\ pipe[a] = <<>> /\ stored = onView
           /\ a \notin broken /\ task[<<a, "json">>] = NoTask
           /\ Finding(a) /\ \A b \in Asks \ {a} : ~Finding(b)
<1>1. Finds(a) /\ \A b, c \in Asks : Finding(b) /\ Finding(c) => b = c
    BY DEF StreamsInv, SearchesAgree
<1>2. task[<<a, "json">>] = NoTask
    BY <1>1 DEF Finds, FindFits, Kind
<1>3. w = "stream"
    BY <1>2, StreamRows DEF Ways
<1>4. /\ page[a].at = "reading" /\ pipe[a] = <<>> /\ stored = onView /\ a \notin broken
    BY <1>1, <1>3 DEF Finds, FindFits, Kind
<1> QED
    BY <1>1, <1>2, <1>3, <1>4 DEF Finding

LEMMA UnderWay ==
    ASSUME StreamsInv, NEW a \in Asks, NEW w \in Ways, task[<<a, w>>].at \in {"asked", "open"}
    PROVE  /\ task[<<a, w>>] \in TaskRow /\ ledger[<<a, w>>] = NoBook /\ page[a].at # "none"
           /\ Kind(a) \in PageKinds /\ TaskFits(task[<<a, w>>], NoBook, Kind(a), a \in broken)
           /\ ledger = [ledger EXCEPT ![<<a, w>>] = NoBook]
<1>1. /\ TaskFits(task[<<a, w>>], ledger[<<a, w>>], Kind(a), a \in broken)
      /\ page[a].at # "none" /\ Kind(a) \in PageKinds
    BY StreamRows DEF StreamsInv, Fits, PageFits, Kind, Ways
<1>2. ledger[<<a, w>>] = NoBook
    BY <1>1 DEF TaskFits
<1>3. task \in [Asks \X Ways -> TaskRow] /\ ledger \in [Asks \X Ways -> BookRow]
    BY DEF StreamsInv, StrTyped
<1> QED
    BY <1>1, <1>2, <1>3

LEMMA NextDeclines ==
    ASSUME StreamsInv, NEW a \in Asks, NEW w \in Ways, Declines(<<a, w>>) \/ GoesWithout(<<a, w>>)
    PROVE  StreamsInv'
<1>1. task[<<a, w>>].at = "asked" /\ Kind(a) # "find"
    BY DEF Declines, GoesWithout
<1>2. /\ task[<<a, w>>] \in TaskRow /\ TaskFits(task[<<a, w>>], NoBook, Kind(a), a \in broken)
      /\ ledger = [ledger EXCEPT ![<<a, w>>] = NoBook]
    BY <1>1, UnderWay
<1> DEFINE t == [task[<<a, w>>] EXCEPT !.at = "over"]
<1>3. PICK ev \in {<<"no">>, <<"token", "plain">>, <<"plain">>, <<"cap">>} : Writes(<<a, w>>, ev)
  <2>1. CASE Declines(<<a, w>>)
      BY <2>1 DEF Declines
  <2>2. CASE GoesWithout(<<a, w>>)
    <3>1. Kind(a) = "letter" => Result(<<a, w>>, "none", TRUE) \in {<<"token", "plain">>, <<"plain">>}
        BY DEF Result, LetterStream, LetterPlain, Ways
    <3> QED
        BY <2>2, <3>1 DEF GoesWithout
  <2> QED
      BY <2>1, <2>2
<1>4. ev \in Seq(Events) /\ \A i \in DOMAIN ev : ev[i] # "ai"
  <2>1. ev # <<"ai">>
      OBVIOUS
  <2> QED
      BY <2>1, EventLists
<1>5. t \in TaskRow /\ t.at = "over" /\ t.ran = FALSE /\ t.text = "none"
    BY <1>1, <1>2 DEF TaskRow, TaskFits
<1>6. TaskFits(t, NoBook, Kind(a), a \in broken)
    BY <1>5 DEF TaskFits
<1>7. /\ task' = [task EXCEPT ![<<a, w>>] = t] /\ ledger' = [ledger EXCEPT ![<<a, w>>] = NoBook]
      /\ UNCHANGED <<page, broken, mixed, stored, onView>>
  <2>1. task' = [task EXCEPT ![<<a, w>>].at = "over"]
      BY DEF Declines, GoesWithout, Ends
  <2>2. task \in [Asks \X Ways -> TaskRow]
      BY DEF StreamsInv, StrTyped
  <2> QED
      BY <1>2, <2>1, <2>2 DEF Declines, GoesWithout
<1>8. StrTyped' /\ OthersStay(a) /\ Fits(a)'
    BY <1>1, <1>3, <1>4, <1>5, <1>6, <1>7, TaskMoves, StreamRows
<1> QED
    BY <1>1, <1>7, <1>8, AskMoves DEF Kind

LEMMA NextOpensRun ==
    ASSUME StreamsInv, NEW a \in Asks, NEW w \in Ways, OpensRun(<<a, w>>) \/ SendsPart(<<a, w>>)
    PROVE  StreamsInv'
<1>1. task[<<a, w>>].at \in {"asked", "open"}
    BY DEF OpensRun, SendsPart
<1>2. /\ task[<<a, w>>] \in TaskRow /\ TaskFits(task[<<a, w>>], NoBook, Kind(a), a \in broken)
      /\ ledger = [ledger EXCEPT ![<<a, w>>] = NoBook]
    BY <1>1, UnderWay
<1>3. /\ task \in [Asks \X Ways -> TaskRow] /\ UNCHANGED <<page, ledger, broken, mixed, stored, onView>>
    BY DEF StreamsInv, StrTyped, OpensRun, SendsPart
<1>4. PICK t \in TaskRow, ev \in {<<"token">>} :
         /\ task' = [task EXCEPT ![<<a, w>>] = t]
         /\ pipe' = pipe \/ Writes(<<a, w>>, ev)
         /\ TaskFits(t, NoBook, Kind(a), a \in broken) /\ t.at = "open"
         /\ Kind(a) # "find" \/ pipe' = pipe
  <2>1. CASE OpensRun(<<a, w>>)
    <3> DEFINE t == [task[<<a, w>>] EXCEPT !.at = "open", !.ran = Kind(a) # "find"]
    <3>1. t \in TaskRow /\ t.at = "open" /\ (t.ran <=> Kind(a) # "find") /\ t.text = "none"
        BY <1>2, <2>1 DEF TaskRow, TaskFits, OpensRun
    <3>2. TaskFits(t, NoBook, Kind(a), a \in broken)
        BY <3>1 DEF TaskFits
    <3>3. task' = [task EXCEPT ![<<a, w>>] = t] /\ pipe' = pipe
        BY <1>3, <2>1 DEF OpensRun
    <3> QED
        BY <3>1, <3>2, <3>3
  <2>2. CASE SendsPart(<<a, w>>)
    <3> DEFINE t == [task[<<a, w>>] EXCEPT !.text = "part"]
    <3>0. task[<<a, w>>].at = "open" /\ Kind(a) # "find"
        BY <2>2 DEF SendsPart
    <3>1. t \in TaskRow /\ t.at = "open" /\ t.ran /\ t.text = "part"
        BY <1>2, <3>0 DEF TaskRow, TaskFits
    <3>2. TaskFits(t, NoBook, Kind(a), a \in broken)
        BY <3>0, <3>1 DEF TaskFits
    <3>3. task' = [task EXCEPT ![<<a, w>>] = t] /\ Writes(<<a, w>>, <<"token">>)
        BY <1>3, <2>2 DEF SendsPart
    <3> QED
        BY <3>0, <3>1, <3>2, <3>3
  <2> QED
      BY <2>1, <2>2
<1>5. ev \in Seq(Events) /\ \A i \in DOMAIN ev : ev[i] # "ai"
  <2>1. ev = <<"token">> /\ ev # <<"ai">>
      OBVIOUS
  <2> QED
      BY <2>1, EventLists
<1>6. StrTyped' /\ OthersStay(a) /\ Fits(a)'
  <2>1. ledger' = [ledger EXCEPT ![<<a, w>>] = NoBook] /\ NoBook \in BookRow
      BY <1>2, <1>3, StreamRows
  <2>2. pipe' = pipe \/ Writes(<<a, w>>, ev)
      BY <1>4
  <2>3. /\ task' = [task EXCEPT ![<<a, w>>] = t] /\ t.at = "open"
        /\ TaskFits(t, NoBook, Kind(a), a \in broken)
      BY <1>4
  <2> QED
      BY <1>1, <1>3, <1>5, <2>1, <2>2, <2>3, TaskMoves
<1>7. CASE Kind(a) = "find" /\ ~mixed
  <2>1. /\ w = "stream" /\ page[a].at = "reading" /\ pipe[a] = <<>> /\ stored = onView
        /\ a \notin broken /\ task[<<a, "json">>] = NoTask
        /\ Finding(a) /\ \A b \in Asks \ {a} : ~Finding(b)
      BY <1>1, <1>7, OneSearch
  <2>2. pipe' = pipe /\ task'[<<a, "stream">>].at = "open" /\ task'[<<a, "json">>] = NoTask
    <3>1. task' = [task EXCEPT ![<<a, "stream">>] = t] /\ t.at = "open" /\ pipe' = pipe
        BY <1>4, <1>7, <2>1
    <3> QED
        BY <1>3, <2>1, <3>1 DEF Ways
  <2>3. Finds(a)' /\ Finding(a)'
      BY <1>3, <2>1, <2>2 DEF Finds, FindFits, Finding, Kind
  <2> QED
      BY <1>3, <1>6, <2>1, <2>3, AskMoves
<1> QED
    BY <1>3, <1>6, <1>7, AskMoves DEF Kind

LEMMA NextAbandoned ==
    ASSUME StreamsInv, NEW a \in Asks, NEW w \in Ways, Abandoned(<<a, w>>)
    PROVE  StreamsInv'
<1>1. task[<<a, w>>].at = "open" /\ w = "stream" /\ a \in broken
    BY DEF Abandoned
<1>2. /\ task[<<a, w>>] \in TaskRow /\ TaskFits(task[<<a, w>>], NoBook, Kind(a), TRUE)
      /\ ledger[<<a, w>>] = NoBook /\ ledger = [ledger EXCEPT ![<<a, w>>] = NoBook]
    BY <1>1, UnderWay
<1>3. /\ task \in [Asks \X Ways -> TaskRow] /\ ledger \in [Asks \X Ways -> BookRow]
      /\ UNCHANGED <<page, pipe, broken, mixed, stored, onView>>
    BY DEF StreamsInv, StrTyped, Abandoned
<1> DEFINE t == [task[<<a, w>>] EXCEPT !.at = "over"]
<1>4. /\ t \in TaskRow /\ t.at = "over" /\ (t.ran <=> Kind(a) # "find") /\ (~t.ran => t.text = "none")
      /\ task' = [task EXCEPT ![<<a, w>>] = t]
    BY <1>1, <1>2, <1>3 DEF TaskRow, TaskFits, Abandoned, Ends
<1>5. PICK k \in BookRow : /\ ledger' = [ledger EXCEPT ![<<a, w>>] = k] /\ k.paid = "none"
                           /\ IF Kind(a) = "find" THEN k = NoBook ELSE Booked(k, "none")
  <2>1. CASE Kind(a) = "find"
      BY <1>2, <2>1, StreamRows DEF Abandoned
  <2>2. CASE Kind(a) # "find"
    <3> DEFINE k == [audits |-> Append(<<>>, "error"), paid |-> "none", receipts |-> 0 + 0]
    <3>1. Append(<<>>, "error") = <<"error">> /\ <<"error">> \in Seq({"ok", "error"})
        OBVIOUS
    <3>2. k \in BookRow /\ Booked(k, "none")
        BY <3>1 DEF BookRow, Booked, AuditOutcome
    <3>3. ledger' = [ledger EXCEPT ![<<a, w>>] = k]
        BY <1>2, <1>3, <2>2, StreamRows DEF Abandoned, Book, AuditOutcome
    <3> QED
        BY <2>2, <3>2, <3>3
  <2> QED
      BY <2>1, <2>2
<1>6. TaskFits(t, k, Kind(a), a \in broken)
    BY <1>1, <1>4, <1>5 DEF TaskFits
<1>7. <<>> \in Seq(Events) /\ \A i \in DOMAIN <<>> : <<>>[i] # "ai"
    BY EventLists
<1>8. StrTyped' /\ OthersStay(a) /\ Fits(a)'
    BY <1>1, <1>3, <1>4, <1>5, <1>6, <1>7, TaskMoves
<1>9. mixed \/ Kind(a) # "find"
    BY <1>1, OneSearch
<1> QED
    BY <1>3, <1>8, <1>9, AskMoves DEF Kind

LEMMA NextFinishes ==
    ASSUME StreamsInv, NEW a \in Asks, NEW w \in Ways, NEW whole \in BOOLEAN, NEW fits \in BOOLEAN,
           Finishes(<<a, w>>, whole, fits)
    PROVE  StreamsInv'
<1>1. task[<<a, w>>].at = "open" /\ Kind(a) # "find"
    BY DEF Finishes
<1>2. /\ task[<<a, w>>] \in TaskRow /\ TaskFits(task[<<a, w>>], NoBook, Kind(a), a \in broken)
      /\ ledger[<<a, w>>] = NoBook /\ Kind(a) \in PageKinds
    BY <1>1, UnderWay
<1>3. /\ task \in [Asks \X Ways -> TaskRow] /\ ledger \in [Asks \X Ways -> BookRow]
      /\ UNCHANGED <<page, broken, mixed, stored, onView>>
    BY DEF StreamsInv, StrTyped, Finishes
<1>4. PICK text \in {"none", "part", "all"} : text = IF whole THEN "all" ELSE task[<<a, w>>].text
    BY <1>2 DEF TaskRow
<1> DEFINE t == [task[<<a, w>>] EXCEPT !.at = "over", !.text = text]
           k == [audits |-> <<AuditOutcome(text)>>, paid |-> text,
                 receipts |-> IF text = "none" THEN 0 ELSE 1]
<1>5. /\ t \in TaskRow /\ t.at = "over" /\ t.ran /\ t.text = text
      /\ task' = [task EXCEPT ![<<a, w>>] = t]
    BY <1>1, <1>2, <1>3, <1>4 DEF TaskRow, TaskFits, Finishes
<1>6. k \in BookRow /\ Booked(k, text)
  <2>1. <<AuditOutcome(text)>> \in Seq({"ok", "error"})
      BY DEF AuditOutcome
  <2> QED
      BY <2>1 DEF BookRow, Booked
<1>7. ledger' = [ledger EXCEPT ![<<a, w>>] = k]
  <2>1. Append(<<>>, AuditOutcome(text)) = <<AuditOutcome(text)>>
      OBVIOUS
  <2>2. 0 + (IF text = "none" THEN 0 ELSE 1) = IF text = "none" THEN 0 ELSE 1
      OBVIOUS
  <2>3. Book(<<a, w>>, text)
      BY <1>4 DEF Finishes, Captured
  <2> QED
      BY <1>2, <1>3, <2>1, <2>2, <2>3, StreamRows DEF Book
<1>8. TaskFits(t, k, Kind(a), a \in broken)
    BY <1>5, <1>6 DEF TaskFits
<1>9. PICK ev : ev = Result(<<a, w>>, text, fits) /\ Writes(<<a, w>>, ev)
    BY <1>4 DEF Finishes
<1>10. /\ ev \in Seq(Events)
       /\ w = "json" \/ text # "none" \/ \A i \in DOMAIN ev : ev[i] # "ai"
  <2>1. /\ ev \in {<<"ai">>, <<"token", "plain">>, <<"plain">>, <<"no">>}
        /\ w = "json" \/ text # "none" \/ ev # <<"ai">>
      BY <1>1, <1>2, <1>9 DEF Result, LetterStream, LetterPlain, TailorStream, TailorPlain,
                              PageKinds, Ways
  <2> QED
      BY <2>1, EventLists
<1>11. StrTyped' /\ OthersStay(a) /\ Fits(a)'
    BY <1>1, <1>3, <1>5, <1>6, <1>7, <1>8, <1>9, <1>10, TaskMoves
<1> QED
    BY <1>1, <1>3, <1>11, AskMoves DEF Kind

LEMMA NextFinds ==
    ASSUME StreamsInv, NEW a \in Asks, NEW w \in Ways, FindsJobs(<<a, w>>) \/ FindBreaks(<<a, w>>)
    PROVE  StreamsInv'
<1>1. task[<<a, w>>].at = "open" /\ Kind(a) = "find"
    BY DEF FindsJobs, FindBreaks
<1>2. /\ task[<<a, w>>] \in TaskRow /\ TaskFits(task[<<a, w>>], NoBook, Kind(a), a \in broken)
      /\ ledger = [ledger EXCEPT ![<<a, w>>] = NoBook]
    BY <1>1, UnderWay
<1>3. /\ task \in [Asks \X Ways -> TaskRow] /\ pipe \in [Asks -> Seq(Events)]
      /\ UNCHANGED <<page, ledger, broken, mixed, onView>>
    BY DEF StreamsInv, StrTyped, FindsJobs, FindBreaks
<1> DEFINE t == [task[<<a, w>>] EXCEPT !.at = "over"]
<1>4. t \in TaskRow /\ t.at = "over" /\ ~t.ran /\ task' = [task EXCEPT ![<<a, w>>] = t]
    BY <1>1, <1>2, <1>3 DEF TaskRow, TaskFits, FindsJobs, FindBreaks, Ends
<1>5. TaskFits(t, NoBook, Kind(a), a \in broken)
    BY <1>2, <1>4 DEF TaskFits
<1>6. PICK x \in {"plain", "error"} :
         /\ Writes(<<a, w>>, <<x>>)
         /\ IF x = "plain" THEN stored' = a ELSE stored' = stored
    BY DEF FindsJobs, FindBreaks, Keeps
<1>7. <<x>> \in Seq(Events) /\ \A i \in DOMAIN <<x>> : <<x>>[i] # "ai"
    BY DEF Events
<1>8. StrTyped' /\ OthersStay(a) /\ Fits(a)'
    BY <1>1, <1>2, <1>3, <1>4, <1>5, <1>6, <1>7, TaskMoves, StreamRows
<1>9. CASE ~mixed
  <2>1. /\ w = "stream" /\ page[a].at = "reading" /\ pipe[a] = <<>> /\ stored = onView
        /\ a \notin broken /\ task[<<a, "json">>] = NoTask
        /\ Finding(a) /\ \A b \in Asks \ {a} : ~Finding(b)
      BY <1>1, <1>9, OneSearch
  <2>2. /\ task'[<<a, "stream">>].at = "over" /\ task'[<<a, "json">>] = NoTask
      BY <1>3, <1>4, <2>1 DEF Ways
  <2>3. pipe'[a] = <<x>>
    <3>1. pipe' = [pipe EXCEPT ![a] = pipe[a] \o <<x>>]
        BY <1>6, <2>1 DEF Writes
    <3>2. <<>> \o <<x>> = <<x>>
        OBVIOUS
    <3> QED
        BY <1>3, <2>1, <3>1, <3>2
  <2>4. Finds(a)' /\ Finding(a)'
      BY <1>3, <1>6, <2>1, <2>2, <2>3 DEF Finds, FindFits, Finding, Kind
  <2> QED
      BY <1>3, <1>8, <2>1, <2>4, AskMoves
<1> QED
    BY <1>3, <1>8, <1>9, AskMoves
-----------------------------------------------------------------------------
\* The page's own moves.
LEMMA NextAsk ==
    ASSUME StreamsInv, NEW a \in Asks, NEW kind \in PageKinds, Ask(a, kind)
    PROVE  StreamsInv'
<1> DEFINE p == [kind |-> kind, at |-> "reading", heard |-> "nothing"]
           s == [at |-> "asked", ran |-> FALSE, text |-> "none"]
<1> USE DEF Ways
<1>1. /\ page \in [Asks -> PageRow] /\ task \in [Asks \X Ways -> TaskRow] /\ mixed \in BOOLEAN
      /\ UNCHANGED <<pipe, broken, ledger, stored, onView>> /\ (mixed => mixed')
    BY DEF StreamsInv, StrTyped, Ask
<1>2. /\ page[a] = NoPage /\ pipe[a] = <<>> /\ task[<<a, "stream">>] = NoTask
      /\ task[<<a, "json">>] = NoTask /\ ledger[<<a, "stream">>] = NoBook
      /\ ledger[<<a, "json">>] = NoBook
  <2>1. page[a] = NoPage
      BY DEF Ask
  <2>2. pipe[a] = <<>> /\ task[<<a, "stream">>] = NoTask /\ task[<<a, "json">>] = NoTask
      BY <2>1, StreamRows DEF StreamsInv, Fits, PageFits
  <2> QED
      BY <2>1, <2>2, StreamRows DEF StreamsInv, Fits, TaskFits
<1>3. page' = [page EXCEPT ![a] = p] /\ task' = [task EXCEPT ![<<a, "stream">>] = s]
    BY <1>1, <1>2 DEF Ask, NoPage, NoTask
<1>4. p \in PageRow /\ s \in TaskRow
    BY DEF PageRow, TaskRow, PageKinds, Heards
<1>5. StrTyped'
  <2>1. mixed' \in BOOLEAN
    <3>1. (mixed \/ (kind = "find" /\ \E b \in Asks : Kind(b) = "find" /\ Under(b))) \in BOOLEAN
        OBVIOUS
    <3> QED
        BY <3>1 DEF Ask
  <2> QED
      BY <1>1, <1>3, <1>4, <2>1 DEF StreamsInv, StrTyped
<1>6. OthersStay(a)
    BY <1>1, <1>3 DEF OthersStay
<1>7. /\ page'[a] = p /\ pipe'[a] = <<>> /\ task'[<<a, "stream">>] = s
      /\ task'[<<a, "json">>] = NoTask /\ ledger'[<<a, "stream">>] = NoBook
      /\ ledger'[<<a, "json">>] = NoBook /\ (a \in broken' <=> a \in broken)
    BY <1>1, <1>2, <1>3
<1>8. Fits(a)'
  <2>1. a \notin broken
      BY <1>2, StreamRows DEF StreamsInv, Fits, PageFits
  <2> QED
      BY <1>7, <2>1, StreamRows DEF Fits, TaskFits, PageFits, Kind
<1> QED
  <2>1. CASE mixed'
      BY <1>1, <1>5, <1>6, <1>8, <2>1, AskMoves
  <2>2. CASE kind # "find"
    <3>1. Kind(a) # "find" /\ page'[a].kind # "find"
        BY <1>2, <1>7, <2>2, StreamRows DEF Kind
    <3> QED
        BY <1>1, <1>5, <1>6, <1>8, <3>1, AskMoves
  <2>3. CASE ~mixed' /\ kind = "find"
    <3>1. ~mixed /\ \A b \in Asks : ~(Kind(b) = "find" /\ Under(b))
        BY <2>3 DEF Ask
    <3>2. \A b \in Asks : ~Finding(b)
        BY <3>1 DEF Under, Finding
    <3>3. stored = onView
        BY <3>1, <3>2 DEF StreamsInv, SearchesAgree
    <3>4. a \notin broken
        BY <1>2, StreamRows DEF StreamsInv, Fits, PageFits
    <3>5. Finds(a)' /\ Finding(a)'
        BY <1>1, <1>7, <2>3, <3>3, <3>4 DEF Finds, FindFits, Finding, Kind
    <3> QED
        BY <1>1, <1>5, <1>6, <1>8, <3>2, <3>5, AskMoves
  <2> QED
      BY <2>1, <2>2, <2>3

\* The stream of a has come to an end, as Heard says.
LEMMA HeardMoves ==
    ASSUME StreamsInv, NEW a \in Asks, NEW e \in Heards, e # "nothing", page[a].at = "reading",
           Heard(a, e), broken' = broken \/ broken' = broken \cup {a}, UNCHANGED ledger,
           mixed' \in BOOLEAN, e = "ai" => ledger[<<a, "stream">>].paid # "none",
           \/ task' = AsksAgain(a)
           \/ /\ task[<<a, "stream">>].at = "asked"
              /\ task' = [AsksAgain(a) EXCEPT ![<<a, "stream">>] = NoTask]
    PROVE  /\ StrTyped' /\ OthersStay(a) /\ Fits(a)'
           /\ page'[a].kind = Kind(a) /\ page'[a].at # "reading"
           /\ page'[a].at \in {"answered", "failed"} \/ FallsBack(Kind(a), e)
           /\ FallsBack(Kind(a), e) \/ task'[<<a, "json">>] = task[<<a, "json">>]
<1> USE DEF Ways
<1> DEFINE s == task[<<a, "stream">>]  j == task[<<a, "json">>]
           b == ledger[<<a, "stream">>]  f == FallsBack(Kind(a), e)
           asked == [NoTask EXCEPT !.at = "asked"]
<1>1. /\ page \in [Asks -> PageRow] /\ pipe \in [Asks -> Seq(Events)]
      /\ task \in [Asks \X Ways -> TaskRow] /\ ledger \in [Asks \X Ways -> BookRow]
    BY DEF StreamsInv, StrTyped
<1>2. /\ TaskFits(s, b, Kind(a), a \in broken)
      /\ TaskFits(j, ledger[<<a, "json">>], Kind(a), a \in broken)
      /\ PageFits(page[a], pipe[a], s, j, b, a \in broken)
    BY DEF StreamsInv, Fits
<1>3. j = NoTask /\ ledger[<<a, "json">>] = NoBook /\ Kind(a) \in PageKinds
  <2>1. j = NoTask /\ Kind(a) \in PageKinds
      BY <1>2 DEF PageFits, Kind
  <2> QED
      BY <1>2, <2>1, StreamRows DEF TaskFits
<1>4. PICK p \in PageRow :
         /\ page' = [page EXCEPT ![a] = p] /\ p.kind = Kind(a) /\ p.heard = e
         /\ p.at \in {"waiting", "answered", "failed"}
         /\ IF f THEN p.at = "waiting" ELSE p.at \in {"answered", "failed"}
  <2> DEFINE p == [kind |-> Kind(a), heard |-> e,
                   at |-> IF f THEN "waiting"
                          ELSE IF Answers(Kind(a), e) THEN "answered" ELSE "failed"]
  <2>1. p \in PageRow
      BY <1>3 DEF PageRow
  <2>2. page[a] = [kind |-> Kind(a), at |-> page[a].at, heard |-> page[a].heard]
      BY <1>1 DEF PageRow, Kind
  <2>3. page' = [page EXCEPT ![a] = p]
      BY <1>1, <2>2 DEF Heard
  <2> QED
      BY <2>1, <2>3
<1>5. pipe' = [pipe EXCEPT ![a] = <<>>]
    BY DEF Heard
<1>6. page'[a] = p /\ pipe'[a] = <<>> /\ Kind(a)' = Kind(a)
    BY <1>1, <1>4, <1>5 DEF Kind
<1>7. AsksAgain(a) = IF f THEN [task EXCEPT ![<<a, "json">>] = asked] ELSE task
  <2>1. FallsBack(Kind(a), page'[a].heard) <=> f
      BY <1>4, <1>6
  <2>2. [task EXCEPT ![<<a, "json">>].at = "asked"] = [task EXCEPT ![<<a, "json">>] = asked]
      BY <1>3
  <2> QED
      BY <2>1, <2>2 DEF AsksAgain
<1>75. asked \in TaskRow /\ asked.at = "asked" /\ ~asked.ran /\ asked.text = "none"
    BY StreamRows DEF TaskRow
<1>8. PICK s1 \in TaskRow, j1 \in TaskRow :
         /\ task' = [[task EXCEPT ![<<a, "json">>] = j1] EXCEPT ![<<a, "stream">>] = s1]
         /\ j1 = IF f THEN asked ELSE NoTask
         /\ s1 = s \/ (s.at = "asked" /\ s1 = NoTask)
  <2>1. asked \in TaskRow /\ NoTask \in TaskRow /\ s \in TaskRow
      BY <1>1, <1>75, StreamRows
  <2>2. PICK j1 \in TaskRow : j1 = IF f THEN asked ELSE NoTask
      BY <2>1
  <2>3. AsksAgain(a) = [task EXCEPT ![<<a, "json">>] = j1]
      BY <1>1, <1>3, <1>7, <2>2
  <2>4. AsksAgain(a) = [AsksAgain(a) EXCEPT ![<<a, "stream">>] = s]
      BY <1>1, <2>3
  <2> QED
      BY <2>1, <2>2, <2>3, <2>4
<1>9. task'[<<a, "stream">>] = s1 /\ task'[<<a, "json">>] = j1
    BY <1>1, <1>8
<1>10. StrTyped'
  <2>1. page' \in [Asks -> PageRow]
      BY <1>1, <1>4
  <2>2. pipe' \in [Asks -> Seq(Events)]
      BY <1>1, <1>5
  <2>3. task' \in [Asks \X Ways -> TaskRow]
      BY <1>1, <1>8
  <2> QED
      BY <1>1, <2>1, <2>2, <2>3 DEF StrTyped
<1>11. OthersStay(a)
    BY <1>1, <1>4, <1>5, <1>8 DEF OthersStay
<1>12. TaskFits(s1, b, Kind(a), a \in broken')
  <2>1. CASE s1 = s
      BY <1>2, <2>1 DEF TaskFits
  <2>2. CASE s.at = "asked" /\ s1 = NoTask
      BY <1>2, <2>2, StreamRows DEF TaskFits
  <2> QED
      BY <1>8, <2>1, <2>2
<1>13. TaskFits(j1, ledger[<<a, "json">>], Kind(a), a \in broken')
    BY <1>3, <1>75, <1>8, StreamRows DEF TaskFits
<1>14. f => e \notin {"ai", "plain", "cap"}
    BY DEF FallsBack
<1>15. PageFits(p, <<>>, s1, j1, b, a \in broken')
  <2>1. e \in {"ai", "plain", "cap"} => j1 = NoTask
      BY <1>8, <1>14
  <2> QED
      BY <1>3, <1>4, <2>1 DEF PageFits
<1>16. Fits(a)'
    BY <1>6, <1>9, <1>12, <1>13, <1>15 DEF Fits
<1> QED
    BY <1>3, <1>4, <1>6, <1>8, <1>9, <1>10, <1>11, <1>16

LEMMA NextLost ==
    ASSUME StreamsInv, NEW a \in Asks,
           CutOff(a) \/ EndsShort(a) \/ \E arrived \in BOOLEAN : NotOpened(a, arrived)
    PROVE  StreamsInv'
<1>1. /\ page[a].at = "reading" /\ Loses(a) /\ UNCHANGED <<ledger, stored, onView>>
      /\ broken' = broken \/ broken' = broken \cup {a}
    BY DEF CutOff, EndsShort, NotOpened
<1>2. PICK e \in {"cut", "ended", "lost"} : Heard(a, e)
    BY DEF CutOff, EndsShort, NotOpened
<1>3. \/ task' = AsksAgain(a)
      \/ /\ task[<<a, "stream">>].at = "asked"
         /\ task' = [AsksAgain(a) EXCEPT ![<<a, "stream">>] = NoTask]
    BY DEF CutOff, EndsShort, NotOpened
<1>4. mixed' \in BOOLEAN /\ (mixed => mixed') /\ (~mixed' => Kind(a) # "find")
  <2>1. (mixed \/ Kind(a) = "find") \in BOOLEAN
      OBVIOUS
  <2> QED
      BY <1>1, <2>1 DEF Loses
<1>5. e \in Heards /\ e # "nothing" /\ e # "ai"
    BY DEF Heards
<1>6. StrTyped' /\ OthersStay(a) /\ Fits(a)' /\ page'[a].kind = Kind(a)
    BY <1>1, <1>2, <1>3, <1>4, <1>5, HeardMoves
<1> QED
    BY <1>1, <1>4, <1>6, AskMoves

\* StreamsInv says nothing of the cap.
LEMMA StreamsStay ==
    ASSUME StreamsInv, UNCHANGED <<page, task, pipe, broken, ledger, stored, onView, mixed>>
    PROVE  StreamsInv'
<1>1. StrTyped'
    BY DEF StreamsInv, StrTyped
<1>2. \A a \in Asks : Fits(a)'
    BY DEF StreamsInv, Fits, Kind
<1>3. \A a \in Asks : (Finding(a)' <=> Finding(a)) /\ (Finds(a)' <=> Finds(a))
    BY DEF Finding, Finds, FindFits, Kind
<1>4. SearchesAgree'
    BY <1>3 DEF StreamsInv, SearchesAgree
<1> QED
    BY <1>1, <1>2, <1>4 DEF StreamsInv

LEMMA NextReads ==
    ASSUME StreamsInv, NEW a \in Asks, Reads(a)
    PROVE  StreamsInv'
<1> DEFINE q == pipe[a]  s == task[<<a, "stream">>]
<1>1. /\ page[a].at = "reading" /\ q # <<>> /\ UNCHANGED <<broken, ledger, stored, mixed>>
    BY DEF Reads
<1>2. /\ page \in [Asks -> PageRow] /\ pipe \in [Asks -> Seq(Events)] /\ mixed \in BOOLEAN
      /\ task \in [Asks \X Ways -> TaskRow] /\ ledger \in [Asks \X Ways -> BookRow]
    BY DEF StreamsInv, StrTyped
<1>3. /\ Head(q) \in Events /\ Tail(q) \in Seq(Events) /\ Head(q) = q[1] /\ 1 \in DOMAIN q
      /\ \A i \in DOMAIN Tail(q) : i + 1 \in DOMAIN q /\ Tail(q)[i] = q[i + 1]
    BY <1>1, <1>2
<1>4. CASE Head(q) = "token"
  <2>1. pipe' = [pipe EXCEPT ![a] = Tail(q)] /\ UNCHANGED <<page, task, onView>>
      BY <1>4 DEF Reads
  <2>2. StrTyped' /\ OthersStay(a) /\ pipe'[a] = Tail(q)
      BY <1>1, <1>2, <1>3, <2>1 DEF StrTyped, OthersStay
  <2>3. Fits(a)'
    <3>1. PageFits(page[a], q, s, task[<<a, "json">>], ledger[<<a, "stream">>], a \in broken)
        BY DEF StreamsInv, Fits
    <3>2. (\E i \in DOMAIN Tail(q) : Tail(q)[i] = "ai") => \E i \in DOMAIN q : q[i] = "ai"
        BY <1>3
    <3>3. PageFits(page[a], Tail(q), s, task[<<a, "json">>], ledger[<<a, "stream">>], a \in broken)
        BY <1>1, <3>1, <3>2 DEF PageFits
    <3> QED
        BY <1>1, <2>1, <2>2, <3>3 DEF Fits, Kind, StreamsInv
  <2>4. mixed \/ Kind(a) # "find"
    <3>1. Head(<<"plain">>) = "plain" /\ Head(<<"error">>) = "error"
        OBVIOUS
    <3> QED
        BY <1>1, <1>4, <3>1 DEF StreamsInv, SearchesAgree, Finds, FindFits, Kind
  <2> QED
      BY <1>1, <2>1, <2>2, <2>3, <2>4, AskMoves DEF Kind
<1>5. CASE Head(q) # "token"
  <2>1. /\ Heard(a, Head(q)) /\ task' = AsksAgain(a) /\ onView' = Viewed(a, Head(q))
      BY <1>5 DEF Reads
  <2>2. Head(q) \in Heards /\ Head(q) # "nothing"
      BY <1>3, <1>5 DEF Events, Heards
  <2>3. Head(q) = "ai" => ledger[<<a, "stream">>].paid # "none"
      BY <1>1, <1>3 DEF StreamsInv, Fits, PageFits
  <2>4. /\ StrTyped' /\ OthersStay(a) /\ Fits(a)' /\ page'[a].kind = Kind(a)
        /\ page'[a].at # "reading"
        /\ page'[a].at \in {"answered", "failed"} \/ FallsBack(Kind(a), Head(q))
        /\ FallsBack(Kind(a), Head(q)) \/ task'[<<a, "json">>] = task[<<a, "json">>]
      BY <1>1, <1>2, <2>1, <2>2, <2>3, HeardMoves
  <2>5. CASE Kind(a) # "find"
      BY <1>1, <2>1, <2>4, <2>5, AskMoves DEF Viewed
  <2>6. CASE mixed
      BY <1>1, <2>4, <2>6, AskMoves
  <2>7. CASE ~mixed /\ Kind(a) = "find"
    <3>1. /\ Finds(a) /\ Finding(a) /\ \A b \in Asks \ {a} : ~Finding(b)
        BY <1>1, <2>7 DEF StreamsInv, SearchesAgree, Finding
    <3>2. /\ a \notin broken /\ s.at = "over" /\ task[<<a, "json">>] = NoTask
          /\ (q = <<"plain">> /\ stored = a) \/ (q = <<"error">> /\ stored = onView)
        BY <1>1, <2>7, <3>1 DEF Finds, FindFits, Kind
    <3>3. (Head(q) = "plain" /\ stored = a) \/ (Head(q) = "error" /\ stored = onView)
      <4>1. Head(<<"plain">>) = "plain" /\ Head(<<"error">>) = "error"
          OBVIOUS
      <4> QED
          BY <3>2, <4>1
    <3>4. stored' = onView'
        BY <1>1, <2>1, <2>7, <3>3 DEF Viewed
    <3>5. /\ ~FallsBack(Kind(a), Head(q)) /\ task'[<<a, "json">>] = task[<<a, "json">>]
          /\ task'[<<a, "stream">>] = s
      <4>1. ~FallsBack(Kind(a), Head(q))
          BY <2>7, <3>3 DEF FallsBack
      <4>2. task'[<<a, "stream">>] = s
          BY <1>2, <2>1 DEF AsksAgain, Ways
      <4> QED
          BY <2>4, <4>1, <4>2
    <3>6. Finds(a)'
        BY <1>1, <2>4, <3>2, <3>5 DEF Finds, FindFits
    <3> QED
        BY <1>1, <2>4, <3>1, <3>4, <3>6, AskMoves
  <2> QED
      BY <2>5, <2>6, <2>7
<1> QED
    BY <1>4, <1>5

\* The page is done with it, in one way or the other.
LEMMA NextReceives ==
    ASSUME StreamsInv, NEW a \in Asks, Receives(a) \/ GivesUp(a)
    PROVE  StreamsInv'
<1>1. /\ page \in [Asks -> PageRow] /\ pipe \in [Asks -> Seq(Events)] /\ mixed \in BOOLEAN
      /\ task \in [Asks \X Ways -> TaskRow] /\ ledger \in [Asks \X Ways -> BookRow]
    BY DEF StreamsInv, StrTyped
<1>2. /\ page[a].at \in {"reading", "waiting"} /\ UNCHANGED <<task, ledger, stored>>
      /\ broken' = broken \/ broken' = broken \cup {a}
      /\ pipe' = [pipe EXCEPT ![a] = <<>>]
    BY DEF Receives, GivesUp
<1>3. PICK x \in {"answered", "failed"} : page' = [page EXCEPT ![a].at = x]
    BY DEF Receives, GivesUp
<1>4. PICK p \in PageRow : /\ page' = [page EXCEPT ![a] = p] /\ p.kind = Kind(a) /\ p.at = x
                           /\ p.heard = page[a].heard
  <2> DEFINE p == [page[a] EXCEPT !.at = x]
  <2>1. p \in PageRow /\ p.kind = Kind(a) /\ p.at = x /\ p.heard = page[a].heard
      BY <1>1 DEF PageRow, Kind
  <2>2. page' = [page EXCEPT ![a] = p]
      BY <1>1, <1>3
  <2> QED
      BY <2>1, <2>2
<1>5. mixed' \in BOOLEAN /\ (mixed => mixed')
  <2>1. (mixed \/ Kind(a) = "find") \in BOOLEAN
      OBVIOUS
  <2> QED
      BY <1>1, <2>1 DEF Receives, GivesUp, Loses
<1>6. StrTyped' /\ OthersStay(a) /\ page'[a] = p /\ pipe'[a] = <<>>
    BY <1>1, <1>2, <1>4, <1>5 DEF StrTyped, OthersStay
<1>7. Fits(a)'
  <2>1. Fits(a)
      BY DEF StreamsInv
  <2>2. PageFits(p, <<>>, task[<<a, "stream">>], task[<<a, "json">>], ledger[<<a, "stream">>],
                 a \in broken')
      BY <1>2, <1>4, <2>1 DEF Fits, PageFits, Kind
  <2>3. /\ TaskFits(task[<<a, "stream">>], ledger[<<a, "stream">>], Kind(a), a \in broken')
        /\ TaskFits(task[<<a, "json">>], ledger[<<a, "json">>], Kind(a), a \in broken')
      BY <1>2, <2>1 DEF Fits, TaskFits
  <2> QED
      BY <1>2, <1>4, <1>6, <2>2, <2>3 DEF Fits, Kind
<1>8. ~mixed' => Kind(a) # "find"
  <2>1. CASE Receives(a)
      BY <2>1 DEF Receives, StreamsInv, SearchesAgree, Finds, FindFits, Kind
  <2>2. CASE GivesUp(a)
      BY <2>2 DEF GivesUp, Loses
  <2> QED
      BY <2>1, <2>2
<1>9. ~mixed' => UNCHANGED onView
    BY <1>8 DEF Receives, GivesUp, Viewed
<1> QED
    BY <1>2, <1>4, <1>5, <1>6, <1>7, <1>8, <1>9, AskMoves

LEMMA NextServerStops == StreamsInv /\ ServerStops => StreamsInv'
<1> SUFFICES ASSUME StreamsInv, ServerStops PROVE StreamsInv'
    OBVIOUS
<1>1. /\ task \in [Asks \X Ways -> TaskRow]
      /\ UNCHANGED <<page, pipe, broken, ledger, stored, onView, mixed>>
    BY DEF StreamsInv, StrTyped, ServerStops
<1>2. ASSUME NEW a \in Asks, NEW w \in Ways
      PROVE  /\ task'[<<a, w>>] \in TaskRow
             /\ IF task[<<a, w>>].at \in {"asked", "open"}
                THEN /\ task'[<<a, w>>].at = "killed" /\ task'[<<a, w>>].ran = task[<<a, w>>].ran
                     /\ task'[<<a, w>>].text = task[<<a, w>>].text
                ELSE task'[<<a, w>>] = task[<<a, w>>]
  <2>1. task[<<a, w>>] \in TaskRow
      BY <1>1
  <2>2. task'[<<a, w>>] = IF task[<<a, w>>].at \in {"asked", "open"}
                          THEN [task[<<a, w>>] EXCEPT !.at = "killed"] ELSE task[<<a, w>>]
      BY DEF ServerStops
  <2> QED
      BY <2>1, <2>2 DEF TaskRow
<1>3. StrTyped'
  <2>1. task' \in [Asks \X Ways -> TaskRow]
    <3>1. ASSUME NEW h \in Asks \X Ways PROVE task'[h] \in TaskRow
        BY <1>2
    <3>2. task' = [h \in Asks \X Ways |-> task'[h]]
        BY DEF ServerStops
    <3> QED
        BY <3>1, <3>2
  <2> QED
      BY <1>1, <2>1 DEF StreamsInv, StrTyped
<1>4. ASSUME NEW a \in Asks PROVE Fits(a)'
  <2> DEFINE s == task[<<a, "stream">>]  j == task[<<a, "json">>]
  <2>0. /\ TaskFits(s, ledger[<<a, "stream">>], Kind(a), a \in broken)
        /\ TaskFits(j, ledger[<<a, "json">>], Kind(a), a \in broken)
        /\ PageFits(page[a], pipe[a], s, j, ledger[<<a, "stream">>], a \in broken)
      BY DEF StreamsInv, Fits
  <2>1. /\ TaskFits(s', ledger[<<a, "stream">>], Kind(a), a \in broken)
        /\ s = NoTask => s' = NoTask
      BY <1>2, <2>0, StreamRows DEF TaskFits, Ways
  <2>2. /\ TaskFits(j', ledger[<<a, "json">>], Kind(a), a \in broken)
        /\ j = NoTask => j' = NoTask
      BY <1>2, <2>0, StreamRows DEF TaskFits, Ways
  <2>3. PageFits(page[a], pipe[a], s', j', ledger[<<a, "stream">>], a \in broken)
      BY <2>0, <2>1, <2>2 DEF PageFits
  <2> QED
      BY <1>1, <2>1, <2>2, <2>3 DEF Fits, Kind
<1>5. ASSUME NEW a \in Asks, Finds(a) PROVE Finds(a)'
  <2>1. task[<<a, "json">>] = NoTask => task'[<<a, "json">>] = NoTask
      BY <1>2, StreamRows DEF Ways
  <2>2. \/ task'[<<a, "stream">>] = task[<<a, "stream">>]
        \/ task[<<a, "stream">>].at \in {"asked", "open"} /\ task'[<<a, "stream">>].at = "killed"
      BY <1>2 DEF Ways
  <2> QED
      BY <1>1, <1>5, <2>1, <2>2 DEF Finds, FindFits
<1>6. \A a \in Asks : Finding(a)' <=> Finding(a)
    BY <1>1 DEF Finding, Kind
<1>7. SearchesAgree'
    BY <1>1, <1>5, <1>6 DEF StreamsInv, SearchesAgree
<1> QED
    BY <1>3, <1>4, <1>7 DEF StreamsInv

LEMMA NextStreams == StreamsInv /\ [StrNext]_strVars => StreamsInv'
<1> SUFFICES ASSUME StreamsInv, [StrNext]_strVars PROVE StreamsInv'
    OBVIOUS
<1>1. CASE StrNext
  <2>1. ASSUME NEW a \in Asks, NEW kind \in {"find", "letter", "tailor"}, Ask(a, kind)
        PROVE  StreamsInv'
      BY <2>1, NextAsk DEF PageKinds
  <2>2. ASSUME NEW a \in Asks,
               \/ CutOff(a) \/ EndsShort(a) \/ \E arrived \in BOOLEAN : NotOpened(a, arrived)
               \/ Reads(a) \/ Receives(a) \/ GivesUp(a)
        PROVE  StreamsInv'
      BY <2>2, NextLost, NextReads, NextReceives
  <2>3. ASSUME NEW a \in Asks, NEW w \in Ways,
               \/ Declines(<<a, w>>) \/ GoesWithout(<<a, w>>) \/ OpensRun(<<a, w>>)
               \/ SendsPart(<<a, w>>) \/ Abandoned(<<a, w>>)
               \/ FindsJobs(<<a, w>>) \/ FindBreaks(<<a, w>>)
        PROVE  StreamsInv'
      BY <2>3, NextDeclines, NextOpensRun, NextAbandoned, NextFinds
  <2>4. ASSUME NEW a \in Asks, NEW w \in Ways, NEW whole \in BOOLEAN, NEW fits \in BOOLEAN,
               Finishes(<<a, w>>, whole, fits)
        PROVE  StreamsInv'
      BY <2>4, NextFinishes
  <2>5. CASE ServerStops
      BY <2>5, NextServerStops
  <2>6. CASE MonthSpent
      BY <2>6, StreamsStay DEF MonthSpent
  <2> QED
      BY <1>1, <2>1, <2>2, <2>3, <2>4, <2>5, <2>6 DEF StrNext
<1>2. CASE UNCHANGED strVars
    BY <1>2, StreamsStay DEF strVars
<1> QED
    BY <1>1, <1>2
-----------------------------------------------------------------------------
(* Builder *)

Places    == SectionIds \cup {"none"}
EntryRow  == [text : Nat, form : {"ai", "raw"}]
KeptRow   == [SectionIds -> Seq(EntryRow)]
SessRow   == [at : Places, kept : KeptRow]
WizRow    == [s : Nat, at : Places, some : BOOLEAN]
ClickRow  == [op : {"none", "show", "start", "save", "skip", "finish"}, tab : Tabs \cup {"none"},
              sec : Places, stay : BOOLEAN, of : Nat, text : Nat, s : Nat, at : Places,
              some : BOOLEAN, step : {"none", "sent", "formatting", "assembled", "done"}]
FiledRow  == [text : Nat, sec : SectionIds, s : Nat, late : BOOLEAN]

BldTyped ==
    /\ sessions \in Seq(SessRow) /\ current \in 0..Len(sessions)
    /\ wizard \in [Tabs -> WizRow] /\ click \in [Clicks -> ClickRow]
    /\ cv \in [of : Nat, kept : KeptRow] /\ answered \in Nat
    /\ filed \subseteq FiledRow

\* What has to be filled when a session has come to sec.
FilledTo(book, sec) ==
    /\ sec # "education" => book["education"] # <<>>
    /\ sec \in {"projects", "none"} => book["skills"] # <<>>
Begun(s) == sessions[s].at # "none" \/ FilledTo(sessions[s].kept, "none")

\* A session that no page of another one has changed, and what a page shows of
\* it.
SessionFits(s) ==
    s \notin astray =>
        \/ FilledTo(sessions[s].kept, sessions[s].at)
        \/ sessions[s].at = "none" /\ \A sec \in SectionIds : sessions[s].kept[sec] = <<>>
ShowFits(s, at, some) ==
    /\ s \in 0..Len(sessions)
    /\ s # 0 /\ s \notin astray =>
          /\ at # "none" => Begun(s) /\ FilledTo(sessions[s].kept, at)
          /\ at = "none" /\ some => FilledTo(sessions[s].kept, "none")
ClickFits(k) ==
    /\ k.of \in 0..Len(sessions)
    /\ k.step = "sent" /\ k.op \in {"save", "skip"} => k.sec # "none" /\ ShowFits(k.of, k.sec, FALSE)
    /\ k.step = "sent" /\ k.op = "skip" => k.sec \in Skippable
    /\ k.step = "sent" /\ k.op = "finish" => ShowFits(k.of, "none", TRUE)
    /\ k.step = "formatting" => /\ k.op = "save" /\ k.sec # "none" /\ k.s \in 1..Len(sessions)
                                /\ k.s \in astray \/ ShowFits(k.s, k.sec, FALSE)
    /\ k.step = "done" => ShowFits(k.s, k.at, k.some)
CvFits ==
    /\ cv.of \in 0..Len(sessions)
    /\ cv.of # 0 /\ cv.of \notin astray => FilledTo(cv.kept, "none")
WholeInv ==
    /\ \A s \in 1..Len(sessions) : SessionFits(s)
    /\ \A t \in Tabs : ShowFits(wizard[t].s, wizard[t].at, wizard[t].some)
    /\ \A c \in Clicks : ClickFits(click[c])
    /\ CvFits

\* An answer that is typed and not yet in a session.
Writing(k) == k.op = "save" /\ k.step \in {"sent", "formatting"}
Once(a, book) ==
    IF a.sec \in Repeatable
    THEN \E i \in DOMAIN book[a.sec] :
            /\ book[a.sec][i].text = a.text
            /\ \A j \in DOMAIN book[a.sec] : book[a.sec][j].text = a.text => j = i
    ELSE Len(book[a.sec]) = 1
OfSession(book, s) ==
    \A sec \in SectionIds : \A i \in DOMAIN book[sec] :
        \E a \in filed : a.text = book[sec][i].text /\ a.s = s
EntriesInv ==
    /\ \A s \in 1..Len(sessions) : OfSession(sessions[s].kept, s)
    /\ cv.of # 0 => OfSession(cv.kept, cv.of)
    /\ \A a \in filed : /\ a.s \in 1..Len(sessions) /\ Once(a, sessions[a.s].kept)
                        /\ a.s = cv.of /\ ~a.late => Once(a, cv.kept)
                        /\ a.text <= answered
    /\ \A c \in Clicks : Writing(click[c]) =>
          /\ click[c].text <= answered /\ \A a \in filed : a.text # click[c].text
          /\ \A d \in Clicks \ {c} : Writing(click[d]) => click[d].text # click[c].text

BuilderInv == BldTyped /\ WholeInv /\ EntriesInv

LEMMA NextSections ==
    /\ NextSection("none") = "education" /\ NextSection("education") = "skills"
    /\ NextSection("skills") = "projects" /\ NextSection("projects") = "none"
    /\ \A sec \in Places : NextSection(sec) \in Places
<1>1. SectionOrder[1] = "education" /\ SectionOrder[2] = "skills" /\ SectionOrder[3] = "projects"
    BY DEF SectionOrder
<1>2. Place("education") = 1 /\ Place("skills") = 2 /\ Place("projects") = 3
  <2>1. \A i \in 1..3 : i = 1 \/ i = 2 \/ i = 3
      OBVIOUS
  <2>2. /\ 1 \in 1..3 /\ 2 \in 1..3 /\ 3 \in 1..3
      OBVIOUS
  <2>3. Place("education") = 1
      BY <1>1, <2>1, <2>2 DEF Place
  <2>4. Place("skills") = 2
      BY <1>1, <2>1, <2>2 DEF Place
  <2>5. Place("projects") = 3
      BY <1>1, <2>1, <2>2 DEF Place
  <2> QED
      BY <2>3, <2>4, <2>5
<1>3. /\ NextSection("none") = "education" /\ NextSection("education") = "skills"
      /\ NextSection("skills") = "projects" /\ NextSection("projects") = "none"
    BY <1>1, <1>2 DEF NextSection
<1> QED
    BY <1>3 DEF Places, SectionIds

LEMMA BldRows ==
    /\ NoAnswers \in KeptRow /\ \A sec \in SectionIds : NoAnswers[sec] = <<>>
    /\ NewSession \in SessRow /\ NewSession.at = "none" /\ NewSession.kept = NoAnswers
    /\ Fresh \in SessRow /\ Fresh.at = "education" /\ Fresh.kept = NoAnswers
    /\ Blank \in WizRow /\ Blank.s = 0
    /\ NoClick \in ClickRow /\ NoClick.step = "none" /\ NoClick.of = 0 /\ NoClick.op = "none"
<1>1. NoAnswers \in KeptRow /\ \A sec \in SectionIds : NoAnswers[sec] = <<>>
  <2>1. <<>> \in Seq(EntryRow)
      OBVIOUS
  <2> QED
      BY <2>1 DEF NoAnswers, KeptRow
<1>2. NewSession \in SessRow /\ NewSession.at = "none" /\ NewSession.kept = NoAnswers
    BY <1>1 DEF NewSession, SessRow, Places
<1>3. Fresh \in SessRow /\ Fresh.at = "education" /\ Fresh.kept = NoAnswers
    BY <1>1, NextSections DEF Fresh, SessRow, Places, SectionIds
<1>4. Blank \in WizRow /\ Blank.s = 0
    BY DEF Blank, WizRow, Places
<1>5. NoClick \in ClickRow /\ NoClick.step = "none" /\ NoClick.of = 0 /\ NoClick.op = "none"
    BY DEF NoClick, ClickRow, Places
<1> QED
    BY <1>1, <1>2, <1>3, <1>4, <1>5

LEMMA OnceCounted ==
    ASSUME NEW a \in FiledRow, NEW book \in KeptRow, Once(a, book)
    PROVE  IsIn(a, book)
<1>1. CASE a.sec \in Repeatable
  <2>1. PICK i \in DOMAIN book[a.sec] :
           /\ book[a.sec][i].text = a.text
           /\ \A j \in DOMAIN book[a.sec] : book[a.sec][j].text = a.text => j = i
      BY <1>1 DEF Once
  <2>2. {j \in DOMAIN book[a.sec] : book[a.sec][j].text = a.text} = {i}
      BY <2>1
  <2>3. Cardinality({i}) = 1
      BY FS_Singleton
  <2> QED
      BY <1>1, <2>2, <2>3 DEF IsIn
<1>2. CASE a.sec \notin Repeatable
    BY <1>2 DEF Once, IsIn
<1> QED
    BY <1>1, <1>2

LEMMA BuilderKeep == BuilderInv => BuilderHolds
<1> SUFFICES ASSUME BuilderInv PROVE BuilderHolds
    OBVIOUS
<1>1. CvIsWhole
    BY DEF CvIsWhole, BuilderInv, WholeInv, CvFits, FilledTo, SectionIds, Skippable
<1>2. AnswersArrive
  <2> SUFFICES ASSUME NEW a \in filed
               PROVE  /\ a.s = current => IsIn(a, sessions[current].kept)
                      /\ a.s = cv.of /\ ~a.late => IsIn(a, cv.kept)
      BY DEF AnswersArrive
  <2>1. /\ a \in FiledRow /\ a.s \in 1..Len(sessions) /\ Once(a, sessions[a.s].kept)
        /\ a.s = cv.of /\ ~a.late => Once(a, cv.kept)
      BY DEF BuilderInv, BldTyped, EntriesInv
  <2>2. sessions[a.s].kept \in KeptRow /\ cv.kept \in KeptRow
    <3>1. sessions \in Seq(SessRow) /\ cv.kept \in KeptRow
        BY DEF BuilderInv, BldTyped
    <3>2. sessions[a.s] \in SessRow
        BY <2>1, <3>1
    <3> QED
        BY <3>1, <3>2 DEF SessRow
  <2> QED
      BY <2>1, <2>2, OnceCounted
<1>3. NothingOld
    BY DEF NothingOld, BuilderInv, EntriesInv, OfSession
<1> QED
    BY <1>1, <1>2, <1>3 DEF BuilderHolds

LEMMA InitBuilder == BldInit => BuilderInv
<1> SUFFICES ASSUME BldInit PROVE BuilderInv
    OBVIOUS
<1>1. /\ sessions = <<>> /\ Len(sessions) = 0 /\ current = 0 /\ cv.of = 0 /\ filed = {} /\ answered = 0
      /\ \A t \in Tabs : wizard[t] = Blank
      /\ \A c \in Clicks : click[c] = NoClick
    BY DEF BldInit
<1>2. BldTyped
    BY <1>1, BldRows DEF BldInit, BldTyped
<1>3. \A c \in Clicks : ClickFits(click[c]) /\ ~Writing(click[c])
  <2>1. 0 \in 0..Len(sessions)
      BY <1>1
  <2> QED
      BY <1>1, <2>1, BldRows DEF ClickFits, Writing
<1>4. \A t \in Tabs : ShowFits(wizard[t].s, wizard[t].at, wizard[t].some)
    BY <1>1, BldRows DEF ShowFits
<1>5. WholeInv
    BY <1>1, <1>3, <1>4 DEF WholeInv, CvFits
<1>6. EntriesInv
    BY <1>1, <1>3 DEF EntriesInv
<1> QED
    BY <1>2, <1>5, <1>6 DEF BuilderInv

\* Sessions are added and filled, never emptied, and one that has begun has.
Grows ==
    /\ Len(sessions) \in Nat /\ Len(sessions') \in Nat /\ Len(sessions) <= Len(sessions')
    /\ astray \subseteq astray'
    /\ \A s \in 1..Len(sessions) : s \notin astray' =>
          /\ \A sec \in SectionIds : sessions[s].kept[sec] # <<>> => sessions'[s].kept[sec] # <<>>
          /\ Begun(s) => Begun(s)'

LEMMA ShowStays ==
    ASSUME Grows, NEW s, NEW at, NEW some, ShowFits(s, at, some)
    PROVE  ShowFits(s, at, some)'
<1>1. s \in 0..Len(sessions')
    BY DEF Grows, ShowFits
<1>2. ASSUME s # 0, s \notin astray'
      PROVE  /\ at # "none" => Begun(s)' /\ FilledTo(sessions'[s].kept, at)
             /\ at = "none" /\ some => FilledTo(sessions'[s].kept, "none")
  <2>1. s \in 1..Len(sessions) /\ s \notin astray
      BY <1>2 DEF Grows, ShowFits
  <2>2. /\ at # "none" => Begun(s) /\ FilledTo(sessions[s].kept, at)
        /\ at = "none" /\ some => FilledTo(sessions[s].kept, "none")
      BY <1>2, <2>1 DEF ShowFits
  <2>3. /\ sessions[s].kept["education"] # <<>> => sessions'[s].kept["education"] # <<>>
        /\ sessions[s].kept["skills"] # <<>> => sessions'[s].kept["skills"] # <<>>
        /\ Begun(s) => Begun(s)'
      BY <1>2, <2>1 DEF Grows, SectionIds
  <2> QED
      BY <2>2, <2>3 DEF FilledTo
<1> QED
    BY <1>1, <1>2 DEF ShowFits

LEMMA ClickStays ==
    ASSUME Grows, NEW k, ClickFits(k)
    PROVE  ClickFits(k)'
<1>1. \A s, at, some : ShowFits(s, at, some) => ShowFits(s, at, some)'
    BY ShowStays
<1>2. k.of \in 0..Len(sessions') /\ (k.s \in 1..Len(sessions) => k.s \in 1..Len(sessions'))
      /\ (k.s \in astray => k.s \in astray')
    BY DEF Grows, ClickFits
<1> QED
    BY <1>1, <1>2 DEF ClickFits

LEMMA WholeMoves ==
    ASSUME WholeInv, Grows, \A s \in 1..Len(sessions') : SessionFits(s)',
           \A c \in Clicks : click'[c] = click[c] \/ ClickFits(click[c])',
           \A t \in Tabs : wizard'[t] = wizard[t] \/ ShowFits(wizard[t].s, wizard[t].at, wizard[t].some)',
           cv' = cv \/ CvFits'
    PROVE  WholeInv'
<1>1. ASSUME NEW c \in Clicks PROVE ClickFits(click[c])'
  <2>1. PICK k : k = click[c]
      OBVIOUS
  <2>2. ClickFits(k)'
      BY <2>1, ClickStays DEF WholeInv
  <2> QED
      BY <2>1, <2>2 DEF ClickFits, ShowFits
<1>2. ASSUME NEW t \in Tabs PROVE ShowFits(wizard[t].s, wizard[t].at, wizard[t].some)'
  <2>1. PICK r : r = wizard[t]
      OBVIOUS
  <2>2. ShowFits(r.s, r.at, r.some)'
      BY <2>1, ShowStays DEF WholeInv
  <2> QED
      BY <2>1, <2>2 DEF ShowFits
<1>3. CvFits'
    BY DEF WholeInv, CvFits, Grows
<1> QED
    BY <1>1, <1>2, <1>3 DEF WholeInv

KeptStays ==
    /\ \A s \in 1..Len(sessions) : s \in 1..Len(sessions') /\ sessions'[s].kept = sessions[s].kept
    /\ \A s \in 1..Len(sessions') : s \in 1..Len(sessions) \/ sessions'[s].kept = NoAnswers

LEMMA EntriesStay ==
    ASSUME BldTyped, EntriesInv, KeptStays, filed' = filed, answered' = answered,
           \A c \in Clicks : Writing(click'[c]) => Writing(click[c]) /\ click'[c].text = click[c].text,
           \/ cv' = cv
           \/ \E s \in 1..Len(sessions') : cv' = [of |-> s, kept |-> sessions'[s].kept]
    PROVE  EntriesInv'
<1>1. ASSUME NEW s \in 1..Len(sessions') PROVE OfSession(sessions'[s].kept, s)
  <2>1. CASE s \in 1..Len(sessions)
      BY <2>1 DEF EntriesInv, KeptStays
  <2>2. CASE s \notin 1..Len(sessions)
    <3>1. sessions'[s].kept = NoAnswers
        BY <2>2 DEF KeptStays
    <3>2. \A sec \in SectionIds : DOMAIN NoAnswers[sec] = {}
        BY BldRows
    <3> QED
        BY <3>1, <3>2 DEF OfSession
  <2> QED
      BY <2>1, <2>2
<1>2. cv'.of # 0 => OfSession(cv'.kept, cv'.of)
    BY <1>1 DEF EntriesInv
<1>3. ASSUME NEW a \in filed
      PROVE  /\ a.s \in 1..Len(sessions') /\ Once(a, sessions'[a.s].kept)
             /\ a.s = cv'.of /\ ~a.late => Once(a, cv'.kept)
             /\ a.text <= answered
  <2>1. /\ a.s \in 1..Len(sessions) /\ Once(a, sessions[a.s].kept)
        /\ a.s = cv.of /\ ~a.late => Once(a, cv.kept)
        /\ a.text <= answered
      BY DEF EntriesInv
  <2>2. a.s \in 1..Len(sessions') /\ Once(a, sessions'[a.s].kept)
      BY <2>1 DEF KeptStays
  <2> QED
      BY <2>1, <2>2
<1>4. \A s \in 1..Len(sessions') : OfSession(sessions[s].kept, s)'
    BY <1>1 DEF OfSession
<1>5. (cv.of # 0 => OfSession(cv.kept, cv.of))'
    BY <1>2 DEF OfSession
<1>6. \A c \in Clicks : Writing(click[c]) =>
          /\ click[c].text <= answered /\ \A a \in filed : a.text # click[c].text
          /\ \A d \in Clicks \ {c} : Writing(click[d]) => click[d].text # click[c].text
    BY DEF EntriesInv
<1>7. \A c \in Clicks : Writing(click'[c]) =>
          /\ click'[c].text <= answered /\ \A a \in filed : a.text # click'[c].text
          /\ \A d \in Clicks \ {c} : Writing(click'[d]) => click'[d].text # click'[c].text
    BY <1>6
<1>8. \A a \in filed : Once(a, sessions'[a.s].kept) <=> Once(a, sessions[a.s].kept)'
    BY DEF Once
<1> QED
    BY <1>3, <1>4, <1>5, <1>7 DEF EntriesInv, Once, Writing

\* The sessions as a handler finds them.
LEMMA StateForIs ==
    ASSUME BldTyped
    PROVE  /\ StateFor \in Seq(SessRow) /\ Live \in 1..Len(StateFor) /\ Len(sessions) <= Len(StateFor)
           /\ \A s \in 1..Len(sessions) : s \in 1..Len(StateFor) /\ StateFor[s] = sessions[s]
           /\ \A s \in 1..Len(StateFor) :
                 s \in 1..Len(sessions) \/ (StateFor[s] = NewSession /\ s = Live)
<1>1. sessions \in Seq(SessRow) /\ current \in 0..Len(sessions) /\ NewSession \in SessRow
      /\ Len(sessions) \in Nat
    BY BldRows DEF BldTyped
<1>2. CASE current # 0
    BY <1>1, <1>2 DEF StateFor, Live
<1>3. CASE current = 0
  <2>1. StateFor = Append(sessions, NewSession) /\ Live = Len(sessions) + 1
      BY <1>3 DEF StateFor, Live
  <2>2. /\ Append(sessions, NewSession) \in Seq(SessRow)
        /\ Len(Append(sessions, NewSession)) = Len(sessions) + 1
        /\ \A s \in 1..Len(sessions) : Append(sessions, NewSession)[s] = sessions[s]
        /\ Append(sessions, NewSession)[Len(sessions) + 1] = NewSession
      BY <1>1
  <2>3. \A s \in 1..(Len(sessions) + 1) : s \in 1..Len(sessions) \/ s = Len(sessions) + 1
      BY <1>1
  <2> QED
      BY <1>1, <2>1, <2>2, <2>3
<1> QED
    BY <1>2, <1>3

\* A request leaves a page: of the session and the section the page shows.
LEMMA PressKeeps ==
    ASSUME BuilderInv, NEW c \in Clicks, NEW t \in Tabs,
           NEW op \in {"show", "start", "save", "skip", "finish"}, NEW sec \in Places,
           NEW stay \in BOOLEAN, Presses(c, t, op, sec, stay),
           answered' = IF op = "save" THEN answered + 1 ELSE answered,
           op \in {"save", "skip"} => wizard[t].at = sec /\ sec # "none",
           op = "skip" => sec \in Skippable,
           op = "finish" => wizard[t].at = "none" /\ wizard[t].some
    PROVE  BuilderInv'
<1> DEFINE w == wizard[t]
           k == [NoClick EXCEPT !.op = op, !.tab = t, !.sec = sec, !.stay = stay,
                                !.of = w.s, !.text = answered', !.step = "sent"]
<1>1. /\ BldTyped /\ WholeInv /\ EntriesInv /\ w \in WizRow /\ answered \in Nat /\ answered' \in Nat
      /\ click \in [Clicks -> ClickRow] /\ ShowFits(w.s, w.at, w.some)
      /\ UNCHANGED <<sessions, current, wizard, cv, filed, astray>>
    BY DEF BuilderInv, BldTyped, WholeInv, Presses
<1>2. click' = [click EXCEPT ![c] = k]
    BY DEF Presses
<1>3. /\ k \in ClickRow /\ k.op = op /\ k.sec = sec /\ k.of = w.s /\ k.text = answered'
      /\ k.step = "sent"
    BY <1>1, BldRows DEF ClickRow, WizRow
<1> HIDE DEF k
<1>4. BldTyped'
    BY <1>1, <1>2, <1>3 DEF BldTyped
<1>5. click'[c] = k /\ \A d \in Clicks \ {c} : click'[d] = click[d]
    BY <1>1, <1>2
<1>6. WholeInv'
  <2>1. Grows
      BY <1>1 DEF Grows, Begun, BldTyped
  <2>2. w.s \in 0..Len(sessions)
      BY <1>1 DEF ShowFits
  <2>3. op \in {"save", "skip"} => ShowFits(w.s, sec, FALSE)
      BY <1>1 DEF ShowFits
  <2>4. op = "finish" => ShowFits(w.s, "none", TRUE)
      BY <1>1 DEF ShowFits
  <2>5. ClickFits(k)
      BY <1>3, <2>2, <2>3, <2>4 DEF ClickFits
  <2>6. \A d \in Clicks : click'[d] = click[d] \/ ClickFits(click[d])'
      BY <1>1, <1>5, <2>5 DEF ClickFits, ShowFits, Begun
  <2>7. \A s \in 1..Len(sessions') : SessionFits(s)'
      BY <1>1 DEF WholeInv, SessionFits
  <2> QED
      BY <1>1, <2>1, <2>6, <2>7, WholeMoves
<1>7. EntriesInv'
  <2>1. \A d \in Clicks : Writing(click'[d]) =>
          /\ click'[d].text <= answered' /\ \A a \in filed : a.text # click'[d].text
          /\ \A e \in Clicks \ {d} : Writing(click'[e]) => click'[e].text # click'[d].text
    <3>1. CASE op # "save"
      <4>1. ~Writing(k)
          BY <1>3, <3>1 DEF Writing
      <4> QED
          BY <1>1, <1>5, <3>1, <4>1 DEF EntriesInv
    <3>2. CASE op = "save"
      <4>1. k.text = answered + 1 /\ answered' = answered + 1
          BY <1>3, <3>2
      <4>2. \A a \in filed : a.text \in Nat /\ a.text <= answered
          BY <1>1 DEF EntriesInv, BldTyped, FiledRow
      <4>3. \A d \in Clicks : Writing(click[d]) => click[d].text \in Nat /\ click[d].text <= answered
          BY <1>1 DEF EntriesInv, ClickRow
      <4>4. \A d \in Clicks \ {c} : Writing(click[d]) =>
              /\ \A a \in filed : a.text # click[d].text
              /\ \A e \in Clicks \ {d} : Writing(click[e]) => click[e].text # click[d].text
          BY <1>1 DEF EntriesInv
      <4> QED
          BY <1>1, <1>5, <4>1, <4>2, <4>3, <4>4
    <3> QED
        BY <3>1, <3>2
  <2>2. \A a \in filed :
           /\ a.s \in 1..Len(sessions) /\ Once(a, sessions[a.s].kept)
           /\ a.s = cv.of /\ ~a.late => Once(a, cv.kept)
           /\ a.text <= answered'
    <3>1. \A a \in filed : a.text \in Nat /\ a.text <= answered
        BY <1>1 DEF EntriesInv, BldTyped, FiledRow
    <3>2. answered <= answered'
        BY <1>1
    <3> QED
        BY <1>1, <3>1, <3>2 DEF EntriesInv
  <2>3. (\A s \in 1..Len(sessions) : OfSession(sessions[s].kept, s)) /\ (cv.of # 0 => OfSession(cv.kept, cv.of))
      BY <1>1 DEF EntriesInv
  <2> QED
    <3>1. (\A s \in 1..Len(sessions) : OfSession(sessions[s].kept, s))'
          /\ (cv.of # 0 => OfSession(cv.kept, cv.of))'
        BY <1>1, <2>3 DEF OfSession
    <3>2. \A a \in filed' :
             /\ a.s \in 1..Len(sessions') /\ Once(a, sessions'[a.s].kept)
             /\ a.s = cv'.of /\ ~a.late => Once(a, cv'.kept)
             /\ a.text <= answered'
      <4>1. sessions' = sessions /\ cv' = cv /\ filed' = filed
          BY <1>1
      <4> HIDE DEF w
      <4> QED
          BY <2>2, <4>1
    <3>3. \A d \in Clicks : Writing(click'[d]) =>
             /\ click'[d].text <= answered' /\ \A a \in filed' : a.text # click'[d].text
             /\ \A e \in Clicks \ {d} : Writing(click'[e]) => click'[e].text # click'[d].text
        BY <1>1, <2>1
    <3> QED
        BY <3>1, <3>2, <3>3 DEF EntriesInv, Once, Writing
<1> QED
    BY <1>4, <1>6, <1>7 DEF BuilderInv

LEMMA NextPress ==
    ASSUME BuilderInv, NEW c \in Clicks, NEW t \in Tabs,
           \/ Opens(c, t) \/ PressesStart(c, t) \/ PressesSkip(c, t) \/ PressesFinish(c, t)
           \/ \E stay \in BOOLEAN : PressesSave(c, t, stay)
    PROVE  BuilderInv'
<1>1. wizard[t].at \in Places /\ "none" \in Places
    BY DEF BuilderInv, BldTyped, WizRow, Places
<1>2. CASE Opens(c, t)
    BY <1>1, <1>2, PressKeeps DEF Opens
<1>3. CASE PressesStart(c, t)
    BY <1>1, <1>3, PressKeeps DEF PressesStart
<1>4. CASE PressesSkip(c, t)
  <2>1. wizard[t].at # "none" /\ wizard[t].at \in Skippable
      BY <1>4 DEF PressesSkip, Skippable
  <2> QED
      BY <1>1, <1>4, <2>1, PressKeeps DEF PressesSkip
<1>5. CASE PressesFinish(c, t)
    BY <1>1, <1>5, PressKeeps DEF PressesFinish
<1>6. CASE \E stay \in BOOLEAN : PressesSave(c, t, stay)
    BY <1>1, <1>6, PressKeeps DEF PressesSave
<1> QED
    BY <1>2, <1>3, <1>4, <1>5, <1>6

\* Nothing but the requests and the pages changes.
LEMMA PageKeeps ==
    ASSUME BuilderInv, UNCHANGED <<sessions, cv, answered, filed, astray>>,
           current' \in 0..Len(sessions),
           NEW cs \in [Clicks -> ClickRow], click' = cs, NEW ws \in [Tabs -> WizRow], wizard' = ws,
           \A c \in Clicks : cs[c] = click[c] \/ (ClickFits(cs[c]) /\ ~Writing(cs[c])),
           \A t \in Tabs : ws[t] = wizard[t] \/ ShowFits(ws[t].s, ws[t].at, ws[t].some)
    PROVE  BuilderInv'
<1>1. BldTyped'
    BY DEF BuilderInv, BldTyped
<1>2. Grows
    BY DEF Grows, Begun, BuilderInv, BldTyped
<1>3. \A s \in 1..Len(sessions') : SessionFits(s)'
    BY DEF BuilderInv, WholeInv, SessionFits
<1>4. \A c \in Clicks : click'[c] = click[c] \/ ClickFits(click[c])'
    BY DEF ClickFits, ShowFits, Begun
<1>5. \A t \in Tabs : wizard'[t] = wizard[t] \/ ShowFits(wizard[t].s, wizard[t].at, wizard[t].some)'
    BY DEF ShowFits, Begun
<1>6. WholeInv'
    BY <1>2, <1>3, <1>4, <1>5, WholeMoves DEF BuilderInv
<1>7. KeptStays
    BY DEF KeptStays
<1>8. EntriesInv'
    BY <1>7, EntriesStay DEF BuilderInv
<1> QED
    BY <1>1, <1>6, <1>8 DEF BuilderInv

LEMMA NextShown ==
    ASSUME BuilderInv, NEW c \in Clicks, Shown(c) \/ FormatFails(c) \/ Finish(c)
    PROVE  BuilderInv'
<1>1. /\ click \in [Clicks -> ClickRow] /\ wizard \in [Tabs -> WizRow] /\ click[c] \in ClickRow
      /\ ClickFits(click[c]) /\ current \in 0..Len(sessions) /\ Len(sessions) \in Nat
    BY DEF BuilderInv, BldTyped, WholeInv
<1>2. UNCHANGED <<sessions, cv, answered, filed, astray>>
    BY DEF Shown, FormatFails, Finish
<1>3. ClickFits(NoClick) /\ ~Writing(NoClick) /\ NoClick \in ClickRow
  <2>1. 0 \in 0..Len(sessions)
      BY <1>1
  <2> QED
      BY <2>1, BldRows DEF ClickFits, Writing
<1>4. CASE Shown(c)
  <2> DEFINE r == [s |-> click[c].s, at |-> click[c].at, some |-> click[c].some]
             ws == [wizard EXCEPT ![click[c].tab] = r]
             cs == [click EXCEPT ![c] = NoClick]
  <2>1. r \in WizRow /\ ShowFits(r.s, r.at, r.some)
      BY <1>1, <1>4 DEF WizRow, ClickRow, ClickFits, Shown
  <2>2. ws \in [Tabs -> WizRow] /\ \A t \in Tabs : ws[t] = wizard[t] \/ ShowFits(ws[t].s, ws[t].at, ws[t].some)
      BY <1>1, <2>1
  <2>3. cs \in [Clicks -> ClickRow] /\ \A d \in Clicks : cs[d] = click[d] \/ (ClickFits(cs[d]) /\ ~Writing(cs[d]))
      BY <1>1, <1>3
  <2>4. wizard' = ws /\ click' = cs /\ current' = current
      BY <1>4 DEF Shown
  <2> HIDE DEF ws, cs
  <2> QED
      BY <1>1, <1>2, <2>2, <2>3, <2>4, PageKeeps
<1>5. CASE FormatFails(c)
  <2> DEFINE cs == [click EXCEPT ![c] = NoClick]
  <2>3. cs \in [Clicks -> ClickRow] /\ \A d \in Clicks : cs[d] = click[d] \/ (ClickFits(cs[d]) /\ ~Writing(cs[d]))
      BY <1>1, <1>3
  <2>4. wizard' = wizard /\ click' = cs /\ current' = current
      BY <1>5 DEF FormatFails
  <2> HIDE DEF cs
  <2> QED
      BY <1>1, <1>2, <2>3, <2>4, PageKeeps
<1>6. CASE Finish(c)
  <2> DEFINE k == [click[c] EXCEPT !.s = 0, !.at = "none", !.some = FALSE, !.step = "done"]
             cs == [click EXCEPT ![c] = k]
  <2>1. k \in ClickRow /\ k.s = 0 /\ k.step = "done" /\ k.of = click[c].of
      BY <1>1 DEF ClickRow, Places
  <2>2. ClickFits(k) /\ ~Writing(k)
    <3>1. k.of \in 0..Len(sessions) /\ ShowFits(0, k.at, k.some)
        BY <1>1, <2>1 DEF ClickFits, ShowFits
    <3> QED
        BY <2>1, <3>1 DEF ClickFits, Writing
  <2>3. cs \in [Clicks -> ClickRow] /\ \A d \in Clicks : cs[d] = click[d] \/ (ClickFits(cs[d]) /\ ~Writing(cs[d]))
      BY <1>1, <2>1, <2>2
  <2>4. wizard' = wizard /\ current' \in 0..Len(sessions)
      BY <1>1, <1>6 DEF Finish
  <2>5. click' = cs
      BY <1>1, <1>6 DEF Finish
  <2> HIDE DEF cs
  <2> QED
      BY <1>1, <1>2, <2>3, <2>4, <2>5, PageKeeps
<1> QED
    BY <1>4, <1>5, <1>6

LEMMA NextStops == BuilderInv /\ Stops => BuilderInv'
<1> SUFFICES ASSUME BuilderInv, Stops PROVE BuilderInv'
    OBVIOUS
<1>1. /\ wizard \in [Tabs -> WizRow] /\ 0 \in 0..Len(sessions)
    BY DEF BuilderInv, BldTyped
<1> DEFINE cs == [c \in Clicks |-> NoClick]
<1>2. ClickFits(NoClick) /\ ~Writing(NoClick) /\ NoClick \in ClickRow
    BY <1>1, BldRows DEF ClickFits, Writing
<1>3. cs \in [Clicks -> ClickRow] /\ \A d \in Clicks : cs[d] = click[d] \/ (ClickFits(cs[d]) /\ ~Writing(cs[d]))
    BY <1>2
<1>4. wizard' = wizard /\ click' = cs /\ current' = 0 /\ UNCHANGED <<sessions, cv, answered, filed, astray>>
    BY DEF Stops
<1> HIDE DEF cs
<1> QED
    BY <1>1, <1>3, <1>4, PageKeeps

\* A handler adds a session or moves one on; what is kept stays.
LEMMA HandlerKeeps ==
    ASSUME BuilderInv, NEW c \in Clicks, NEW ss \in Seq(SessRow), sessions' = ss,
           current' \in 0..Len(ss), NEW k \in ClickRow, click' = [click EXCEPT ![c] = k],
           UNCHANGED <<wizard, answered, filed>>, astray \subseteq astray', KeptStays,
           \A s \in 1..Len(sessions) : s \notin astray' /\ Begun(s) => Begun(s)',
           \A s \in 1..Len(ss) : SessionFits(s)',
           ClickFits(k)', Writing(k) => Writing(click[c]) /\ k.text = click[c].text,
           \/ cv' = cv
           \/ CvFits' /\ \E s \in 1..Len(ss) : cv' = [of |-> s, kept |-> ss[s].kept]
    PROVE  BuilderInv'
<1>1. /\ BldTyped /\ WholeInv /\ EntriesInv /\ sessions \in Seq(SessRow)
      /\ click \in [Clicks -> ClickRow] /\ Len(sessions) \in Nat /\ Len(ss) \in Nat
    BY DEF BuilderInv, BldTyped
<1>2. click'[c] = k /\ \A d \in Clicks \ {c} : click'[d] = click[d]
    BY <1>1
<1>3. BldTyped'
  <2>1. cv' \in [of : Nat, kept : KeptRow]
    <3>1. ASSUME NEW s \in 1..Len(ss), cv' = [of |-> s, kept |-> ss[s].kept]
          PROVE  cv' \in [of : Nat, kept : KeptRow]
      <4>1. ss[s] \in SessRow /\ s \in Nat
          BY <1>1
      <4> QED
          BY <3>1, <4>1 DEF SessRow
    <3> QED
        BY <1>1, <3>1 DEF BldTyped
  <2>2. click' \in [Clicks -> ClickRow]
      BY <1>1
  <2> QED
      BY <1>1, <2>1, <2>2 DEF BldTyped
<1>4. Len(sessions) <= Len(ss)
  <2>1. CASE Len(sessions) = 0
      BY <1>1, <2>1
  <2>2. CASE Len(sessions) # 0
    <3>1. Len(sessions) \in 1..Len(sessions)
        BY <1>1, <2>2
    <3>2. Len(sessions) \in 1..Len(ss)
        BY <3>1 DEF KeptStays
    <3> QED
        BY <1>1, <3>2
  <2> QED
      BY <2>1, <2>2
<1>5. Grows
  <2>1. \A s \in 1..Len(sessions) : sessions'[s].kept = sessions[s].kept
      BY DEF KeptStays
  <2> QED
      BY <1>1, <1>4, <2>1 DEF Grows
<1>6. \A d \in Clicks : click'[d] = click[d] \/ ClickFits(click[d])'
    BY <1>2 DEF ClickFits, ShowFits
<1>7. WholeInv'
    BY <1>1, <1>5, <1>6, WholeMoves
<1>8. EntriesInv'
  <2>1. \A d \in Clicks : Writing(click'[d]) => Writing(click[d]) /\ click'[d].text = click[d].text
      BY <1>2
  <2> QED
      BY <1>1, <2>1, EntriesStay
<1> QED
    BY <1>3, <1>7, <1>8 DEF BuilderInv

LEMMA ReplyFits ==
    ASSUME NEW c \in Clicks, click \in [Clicks -> ClickRow], NEW s \in 1..Len(sessions'),
           sessions'[s] \in SessRow, SessionFits(s)', Replies(c, s), Len(sessions') \in Nat,
           click[c].of \in 0..Len(sessions')
    PROVE  \E k \in ClickRow : /\ click' = [click EXCEPT ![c] = k] /\ ~Writing(k)
                               /\ ClickFits(k)'
<1>1. PICK some \in BOOLEAN : some = \E sec \in SectionIds : sessions'[s].kept[sec] # <<>>
  <2>1. (\E sec \in SectionIds : sessions'[s].kept[sec] # <<>>) \in BOOLEAN
      OBVIOUS
  <2> QED
      BY <2>1
<1>2. PICK at \in Places : at = sessions'[s].at
    BY DEF SessRow
<1>3. PICK k : k = [click[c] EXCEPT !.s = s, !.step = "done", !.at = at, !.some = some]
    OBVIOUS
<1>4. /\ k \in ClickRow /\ k.s = s /\ k.step = "done" /\ k.at = at /\ k.some = some
      /\ k.of = click[c].of /\ s \in 0..Len(sessions')
  <2>1. s \in Nat /\ s \in 0..Len(sessions') /\ click[c] \in ClickRow
      OBVIOUS
  <2> QED
      BY <1>3, <2>1 DEF ClickRow
<1>5. click' = [click EXCEPT ![c] = k]
    BY <1>1, <1>2, <1>3 DEF Replies
<1>6. ShowFits(s, at, some)'
  <2> SUFFICES ASSUME s \notin astray'
               PROVE  /\ at # "none" => Begun(s)' /\ FilledTo(sessions'[s].kept, at)
                      /\ at = "none" /\ some => FilledTo(sessions'[s].kept, "none")
      BY <1>4 DEF ShowFits
  <2>1. \/ FilledTo(sessions'[s].kept, at)
        \/ at = "none" /\ \A sec \in SectionIds : sessions'[s].kept[sec] = <<>>
      BY <1>2 DEF SessionFits
  <2> QED
      BY <1>1, <1>2, <2>1 DEF Begun
<1>7. ClickFits(k)'
    BY <1>4, <1>6 DEF ClickFits
<1> QED
    BY <1>4, <1>5, <1>7 DEF Writing

\* What the handlers share: the session found or made, and the others.
LEMMA FoundFits ==
    ASSUME BuilderInv, Room
    PROVE  /\ \A s \in 1..Len(StateFor) : StateFor[s] \in SessRow
           /\ \A s \in 1..Len(StateFor) :
                 s \notin astray =>
                    \/ FilledTo(StateFor[s].kept, StateFor[s].at)
                    \/ StateFor[s].at = "none" /\ \A sec \in SectionIds : StateFor[s].kept[sec] = <<>>
<1>1. /\ StateFor \in Seq(SessRow)
      /\ \A s \in 1..Len(sessions) : StateFor[s] = sessions[s]
      /\ \A s \in 1..Len(StateFor) : s \in 1..Len(sessions) \/ StateFor[s] = NewSession
    BY StateForIs DEF BuilderInv
<1>2. \A s \in 1..Len(sessions) : SessionFits(s)
    BY DEF BuilderInv, WholeInv
<1> QED
    BY <1>1, <1>2, BldRows DEF SessionFits

LEMMA NextShow ==
    ASSUME BuilderInv, NEW c \in Clicks, Show(c)
    PROVE  BuilderInv'
<1>1. /\ Room /\ sessions' = StateFor /\ current' = Live /\ Replies(c, Live)
      /\ UNCHANGED <<wizard, cv, answered, filed, astray>>
    BY DEF Show
<1>2. /\ StateFor \in Seq(SessRow) /\ Live \in 1..Len(StateFor) /\ Len(sessions) <= Len(StateFor)
      /\ \A s \in 1..Len(sessions) : s \in 1..Len(StateFor) /\ StateFor[s] = sessions[s]
      /\ \A s \in 1..Len(StateFor) : s \in 1..Len(sessions) \/ (StateFor[s] = NewSession /\ s = Live)
    BY StateForIs DEF BuilderInv
<1>3. \A s \in 1..Len(StateFor) : SessionFits(s)'
    BY <1>1, FoundFits DEF SessionFits
<1>4. /\ click \in [Clicks -> ClickRow] /\ Len(sessions) \in Nat /\ Len(StateFor) \in Nat
      /\ click[c].of \in 0..Len(StateFor)
  <2>1. /\ click \in [Clicks -> ClickRow] /\ Len(sessions) \in Nat /\ Len(StateFor) \in Nat
      BY <1>2 DEF BuilderInv, BldTyped
  <2>2. click[c].of \in 0..Len(sessions)
      BY DEF BuilderInv, WholeInv, ClickFits
  <2> QED
      BY <1>2, <2>1, <2>2
<1>5. PICK k \in ClickRow : click' = [click EXCEPT ![c] = k] /\ ~Writing(k) /\ ClickFits(k)'
  <2>1. StateFor[Live] \in SessRow
      BY <1>2
  <2> QED
      BY <1>1, <1>2, <1>3, <1>4, <2>1, ReplyFits
<1>6. KeptStays
    BY <1>1, <1>2, BldRows DEF KeptStays
<1>7. \A s \in 1..Len(sessions) : s \notin astray' /\ Begun(s) => Begun(s)'
    BY <1>1, <1>2 DEF Begun
<1>8. PICK ss : ss = StateFor
    OBVIOUS
<1> QED
  <2>1. current' \in 0..Len(ss)
      BY <1>1, <1>2, <1>4, <1>8
  <2> QED
      BY <1>1, <1>2, <1>3, <1>5, <1>6, <1>7, <1>8, <2>1, HandlerKeeps

LEMMA NextStart ==
    ASSUME BuilderInv, NEW c \in Clicks, Start(c)
    PROVE  BuilderInv'
<1>1. PICK ss : ss = Append(sessions, Fresh)
    OBVIOUS
<1>2. /\ sessions' = ss /\ current' = Len(sessions) + 1 /\ Replies(c, Len(sessions) + 1)
      /\ UNCHANGED <<wizard, cv, answered, filed, astray>>
    BY <1>1 DEF Start
<1>3. sessions \in Seq(SessRow) /\ Len(sessions) \in Nat /\ click \in [Clicks -> ClickRow]
    BY DEF BuilderInv, BldTyped
<1>4. /\ ss \in Seq(SessRow) /\ Len(ss) = Len(sessions) + 1
      /\ \A s \in 1..Len(sessions) : s \in 1..Len(ss) /\ ss[s] = sessions[s]
      /\ \A s \in 1..Len(ss) : s \in 1..Len(sessions) \/ s = Len(sessions) + 1
      /\ ss[Len(sessions) + 1] = Fresh
    BY <1>1, <1>3, BldRows
<1>5. ASSUME NEW s \in 1..Len(ss) PROVE SessionFits(s)'
  <2>1. CASE s \in 1..Len(sessions)
      BY <1>2, <1>4, <2>1 DEF BuilderInv, WholeInv, SessionFits
  <2>2. CASE s = Len(sessions) + 1
    <3>1. FilledTo(ss[s].kept, ss[s].at)
        BY <1>4, <2>2, BldRows DEF FilledTo
    <3> QED
        BY <1>2, <3>1 DEF SessionFits
  <2> QED
      BY <1>4, <2>1, <2>2
<1>6. click[c].of \in 0..Len(ss)
  <2>1. click[c].of \in 0..Len(sessions)
      BY DEF BuilderInv, WholeInv, ClickFits
  <2> QED
      BY <1>3, <1>4, <2>1
<1>7. PICK k \in ClickRow : click' = [click EXCEPT ![c] = k] /\ ~Writing(k) /\ ClickFits(k)'
  <2>1. Len(sessions) + 1 \in 1..Len(ss) /\ ss[Len(sessions) + 1] \in SessRow /\ Len(ss) \in Nat
      BY <1>3, <1>4, BldRows
  <2>2. Len(sessions') = Len(ss)
      BY <1>2
  <2> QED
      BY <1>2, <1>3, <1>5, <1>6, <2>1, <2>2, ReplyFits
<1>8. KeptStays
    BY <1>2, <1>4, BldRows DEF KeptStays
<1>9. \A s \in 1..Len(sessions) : s \notin astray' /\ Begun(s) => Begun(s)'
    BY <1>2, <1>4 DEF Begun
<1> QED
  <2>1. current' \in 0..Len(ss)
      BY <1>2, <1>3, <1>4
  <2> QED
      BY <1>2, <1>4, <1>5, <1>7, <1>8, <1>9, <2>1, HandlerKeeps

LEMMA NextSaveTakes ==
    ASSUME BuilderInv, NEW c \in Clicks, SaveTakes(c)
    PROVE  BuilderInv'
<1>1. /\ Room /\ sessions' = StateFor /\ current' = Live /\ Strays(c, Live)
      /\ click' = [click EXCEPT ![c].s = Live, ![c].step = "formatting"]
      /\ click[c].step = "sent" /\ click[c].op = "save"
      /\ UNCHANGED <<wizard, cv, answered, filed>>
    BY DEF SaveTakes, Sent
<1>2. /\ StateFor \in Seq(SessRow) /\ Live \in 1..Len(StateFor) /\ Len(sessions) <= Len(StateFor)
      /\ \A s \in 1..Len(sessions) : s \in 1..Len(StateFor) /\ StateFor[s] = sessions[s]
      /\ \A s \in 1..Len(StateFor) : s \in 1..Len(sessions) \/ (StateFor[s] = NewSession /\ s = Live)
    BY StateForIs DEF BuilderInv
<1>3. PICK ss, s0 : ss = StateFor /\ s0 = Live
    OBVIOUS
<1>4. /\ click \in [Clicks -> ClickRow] /\ Len(sessions) \in Nat /\ Len(ss) \in Nat
      /\ s0 \in 1..Len(ss) /\ s0 \in Nat
    BY <1>2, <1>3 DEF BuilderInv, BldTyped
<1>5. /\ click[c].of \in 0..Len(sessions) /\ click[c].sec # "none"
      /\ ShowFits(click[c].of, click[c].sec, FALSE)
    BY <1>1 DEF BuilderInv, WholeInv, ClickFits
<1>6. astray \subseteq astray' /\ (click[c].of # s0 => s0 \in astray')
    BY <1>1, <1>3 DEF Strays
<1>7. \A s \in 1..Len(ss) : SessionFits(s)'
    BY <1>1, <1>3, <1>6, FoundFits DEF SessionFits
<1>8. PICK k : k = [click[c] EXCEPT !.s = s0, !.step = "formatting"]
    OBVIOUS
<1>9. /\ k \in ClickRow /\ k.s = s0 /\ k.step = "formatting" /\ k.of = click[c].of
      /\ k.op = "save" /\ k.sec = click[c].sec /\ k.text = click[c].text
    BY <1>1, <1>4, <1>8 DEF ClickRow
<1>10. click' = [click EXCEPT ![c] = k]
    BY <1>1, <1>3, <1>4, <1>8
<1>11. ClickFits(k)'
  <2>1. k.of \in 0..Len(ss) /\ k.s \in 1..Len(ss)
      BY <1>2, <1>3, <1>4, <1>5, <1>9
  <2>2. k.s \in astray' \/ ShowFits(k.s, k.sec, FALSE)'
    <3> SUFFICES ASSUME s0 \notin astray' PROVE ShowFits(s0, k.sec, FALSE)'
        BY <1>9
    <3>1. s0 = k.of /\ s0 \in 1..Len(sessions) /\ s0 \notin astray
        BY <1>4, <1>5, <1>6, <1>9
    <3>2. Begun(s0) /\ FilledTo(sessions[s0].kept, k.sec)
        BY <1>5, <1>9, <3>1 DEF ShowFits
    <3>3. sessions'[s0] = sessions[s0]
        BY <1>1, <1>2, <3>1
    <3>4. s0 \in 0..Len(sessions')
        BY <1>1, <1>3, <1>4
    <3> QED
        BY <1>5, <1>9, <3>2, <3>3, <3>4 DEF ShowFits, Begun
  <2> QED
      BY <1>1, <1>3, <1>5, <1>9, <2>1, <2>2 DEF ClickFits
<1>12. KeptStays
    BY <1>1, <1>2, BldRows DEF KeptStays
<1>13. \A s \in 1..Len(sessions) : s \notin astray' /\ Begun(s) => Begun(s)'
    BY <1>1, <1>2 DEF Begun
<1>14. Writing(click[c]) /\ current' \in 0..Len(ss) /\ ss \in Seq(SessRow) /\ sessions' = ss
    BY <1>1, <1>2, <1>3, <1>4 DEF Writing
<1> QED
    BY <1>1, <1>6, <1>7, <1>9, <1>10, <1>11, <1>12, <1>13, <1>14, HandlerKeeps

LEMMA NextSkip ==
    ASSUME BuilderInv, NEW c \in Clicks, Skip(c)
    PROVE  BuilderInv'
<1>1. /\ Room /\ sessions' = [StateFor EXCEPT ![Live].at = NextSection(click[c].sec)]
      /\ current' = Live /\ Strays(c, Live) /\ Replies(c, Live)
      /\ click[c].step = "sent" /\ click[c].op = "skip"
      /\ UNCHANGED <<wizard, cv, answered, filed>>
    BY DEF Skip, Sent
<1>2. /\ StateFor \in Seq(SessRow) /\ Live \in 1..Len(StateFor) /\ Len(sessions) <= Len(StateFor)
      /\ \A s \in 1..Len(sessions) : s \in 1..Len(StateFor) /\ StateFor[s] = sessions[s]
      /\ \A s \in 1..Len(StateFor) : s \in 1..Len(sessions) \/ (StateFor[s] = NewSession /\ s = Live)
    BY StateForIs DEF BuilderInv
<1>3. PICK s0 : s0 = Live
    OBVIOUS
<1>4. /\ click \in [Clicks -> ClickRow] /\ Len(sessions) \in Nat /\ Len(StateFor) \in Nat
      /\ s0 \in 1..Len(StateFor) /\ s0 \in Nat
    BY <1>2, <1>3 DEF BuilderInv, BldTyped
<1>5. /\ click[c].of \in 0..Len(sessions) /\ click[c].sec = "projects"
      /\ ShowFits(click[c].of, "projects", FALSE)
    BY <1>1 DEF BuilderInv, WholeInv, ClickFits, Skippable
<1>6. astray \subseteq astray' /\ (click[c].of # s0 => s0 \in astray')
    BY <1>1, <1>3 DEF Strays
<1>7. PICK ss, r : ss = [StateFor EXCEPT ![s0] = r] /\ r = [StateFor[s0] EXCEPT !.at = "none"]
    OBVIOUS
<1>8. StateFor[s0] \in SessRow /\ r \in SessRow /\ r.at = "none" /\ r.kept = StateFor[s0].kept
  <2>1. StateFor[s0] \in SessRow
      BY <1>2, <1>4
  <2> QED
      BY <1>7, <2>1 DEF SessRow, Places
<1>9. /\ sessions' = ss /\ ss \in Seq(SessRow) /\ Len(ss) = Len(StateFor) /\ ss[s0] = r
      /\ \A s \in 1..Len(ss) : s # s0 => ss[s] = StateFor[s]
  <2>1. sessions' = ss
      BY <1>1, <1>3, <1>5, <1>7, NextSections
  <2>2. PICK sf \in Seq(SessRow) : sf = StateFor
      BY <1>2
  <2>3. s0 \in 1..Len(sf) /\ ss = [sf EXCEPT ![s0] = r] /\ r \in SessRow
      BY <1>4, <1>7, <1>8, <2>2
  <2>4. /\ ss \in Seq(SessRow) /\ Len(ss) = Len(sf) /\ ss[s0] = r
        /\ \A s \in 1..Len(ss) : s # s0 => ss[s] = sf[s]
      BY <2>3
  <2> QED
      BY <2>1, <2>2, <2>4
<1>10. s0 \notin astray' => FilledTo(r.kept, "none")
  <2> SUFFICES ASSUME s0 \notin astray' PROVE FilledTo(r.kept, "none")
      OBVIOUS
  <2>1. s0 = click[c].of /\ s0 \in 1..Len(sessions) /\ s0 \notin astray
      BY <1>4, <1>5, <1>6
  <2>2. FilledTo(sessions[s0].kept, "projects")
      BY <1>5, <2>1 DEF ShowFits
  <2> QED
      BY <1>2, <1>8, <2>1, <2>2 DEF FilledTo
<1>11. \A s \in 1..Len(ss) : SessionFits(s)'
  <2> TAKE s \in 1..Len(ss)
  <2>1. CASE s = s0
      BY <1>8, <1>9, <1>10, <2>1 DEF SessionFits
  <2>2. CASE s # s0
    <3>1. sessions'[s] = StateFor[s] /\ s \in 1..Len(StateFor)
        BY <1>9, <2>2
    <3>2. s \notin astray =>
             \/ FilledTo(StateFor[s].kept, StateFor[s].at)
             \/ StateFor[s].at = "none" /\ \A sec \in SectionIds : StateFor[s].kept[sec] = <<>>
        BY <1>1, <3>1, FoundFits
    <3> QED
        BY <1>6, <3>1, <3>2 DEF SessionFits
  <2> QED
      BY <2>1, <2>2
<1>12. PICK k \in ClickRow : click' = [click EXCEPT ![c] = k] /\ ~Writing(k) /\ ClickFits(k)'
  <2>1. /\ s0 \in 1..Len(sessions') /\ sessions'[s0] \in SessRow /\ Len(sessions') \in Nat
        /\ click[c].of \in 0..Len(sessions') /\ Replies(c, s0)
      BY <1>1, <1>2, <1>3, <1>4, <1>5, <1>8, <1>9
  <2>2. SessionFits(s0)'
      BY <1>9, <1>11, <2>1
  <2> QED
      BY <1>4, <2>1, <2>2, ReplyFits
<1>13. KeptStays
  <2>1. \A s \in 1..Len(sessions) : s \in 1..Len(ss) /\ ss[s].kept = sessions[s].kept
      BY <1>2, <1>8, <1>9
  <2>2. \A s \in 1..Len(ss) : s \in 1..Len(sessions) \/ ss[s].kept = NoAnswers
      BY <1>2, <1>3, <1>8, <1>9, BldRows
  <2> QED
      BY <1>9, <2>1, <2>2 DEF KeptStays
<1>14. \A s \in 1..Len(sessions) : s \notin astray' /\ Begun(s) => Begun(s)'
  <2> TAKE s \in 1..Len(sessions)
  <2>1. CASE s = s0
      BY <1>9, <1>10, <2>1 DEF Begun
  <2>2. CASE s # s0
      BY <1>2, <1>9, <2>2 DEF Begun
  <2> QED
      BY <2>1, <2>2
<1>15. current' \in 0..Len(ss)
    BY <1>1, <1>3, <1>4, <1>9
<1> QED
    BY <1>1, <1>6, <1>9, <1>11, <1>12, <1>13, <1>14, <1>15, HandlerKeeps

LEMMA NextAssembles ==
    ASSUME BuilderInv, NEW c \in Clicks, Assembles(c)
    PROVE  BuilderInv'
<1>1. /\ Room /\ sessions' = StateFor /\ current' = Live /\ Strays(c, Live)
      /\ cv' = [of |-> Live, kept |-> StateFor[Live].kept]
      /\ click' = [click EXCEPT ![c].s = Live, ![c].step = "assembled"]
      /\ click[c].step = "sent" /\ click[c].op = "finish"
      /\ UNCHANGED <<wizard, answered, filed>>
    BY DEF Assembles, Sent
<1>2. /\ StateFor \in Seq(SessRow) /\ Live \in 1..Len(StateFor) /\ Len(sessions) <= Len(StateFor)
      /\ \A s \in 1..Len(sessions) : s \in 1..Len(StateFor) /\ StateFor[s] = sessions[s]
      /\ \A s \in 1..Len(StateFor) : s \in 1..Len(sessions) \/ (StateFor[s] = NewSession /\ s = Live)
    BY StateForIs DEF BuilderInv
<1>3. PICK ss, s0 : ss = StateFor /\ s0 = Live
    OBVIOUS
<1>4. /\ click \in [Clicks -> ClickRow] /\ Len(sessions) \in Nat /\ Len(ss) \in Nat
      /\ s0 \in 1..Len(ss) /\ s0 \in Nat
    BY <1>2, <1>3 DEF BuilderInv, BldTyped
<1>5. /\ click[c].of \in 0..Len(sessions) /\ ShowFits(click[c].of, "none", TRUE)
    BY <1>1 DEF BuilderInv, WholeInv, ClickFits
<1>6. astray \subseteq astray' /\ (click[c].of # s0 => s0 \in astray')
    BY <1>1, <1>3 DEF Strays
<1>7. \A s \in 1..Len(ss) : SessionFits(s)'
    BY <1>1, <1>3, <1>6, FoundFits DEF SessionFits
<1>8. PICK k : k = [click[c] EXCEPT !.s = s0, !.step = "assembled"]
    OBVIOUS
<1>9. /\ k \in ClickRow /\ k.step = "assembled" /\ k.of = click[c].of
    BY <1>1, <1>4, <1>8 DEF ClickRow
<1>10. click' = [click EXCEPT ![c] = k]
    BY <1>1, <1>3, <1>4, <1>8
<1>11. ClickFits(k)' /\ ~Writing(k)
  <2>1. k.of \in 0..Len(ss)
      BY <1>2, <1>3, <1>4, <1>5, <1>9
  <2> QED
      BY <1>1, <1>3, <1>9, <2>1 DEF ClickFits, Writing
<1>12. CvFits' /\ \E s \in 1..Len(ss) : cv' = [of |-> s, kept |-> ss[s].kept]
  <2>1. cv' = [of |-> s0, kept |-> ss[s0].kept]
      BY <1>1, <1>3
  <2>2. s0 \notin astray' => FilledTo(ss[s0].kept, "none")
    <3> SUFFICES ASSUME s0 \notin astray' PROVE FilledTo(ss[s0].kept, "none")
        OBVIOUS
    <3>1. s0 = click[c].of /\ s0 \in 1..Len(sessions) /\ s0 \notin astray
        BY <1>4, <1>5, <1>6
    <3>2. FilledTo(sessions[s0].kept, "none")
        BY <1>5, <3>1 DEF ShowFits
    <3> QED
        BY <1>2, <1>3, <3>1, <3>2
  <2>3. s0 \in 0..Len(sessions')
      BY <1>1, <1>3, <1>4
  <2> QED
      BY <1>4, <2>1, <2>2, <2>3 DEF CvFits
<1>13. KeptStays
    BY <1>1, <1>2, BldRows DEF KeptStays
<1>14. \A s \in 1..Len(sessions) : s \notin astray' /\ Begun(s) => Begun(s)'
    BY <1>1, <1>2 DEF Begun
<1>15. current' \in 0..Len(ss) /\ ss \in Seq(SessRow) /\ sessions' = ss
    BY <1>1, <1>2, <1>3, <1>4
<1> QED
    BY <1>1, <1>6, <1>7, <1>9, <1>10, <1>11, <1>12, <1>13, <1>14, <1>15, HandlerKeeps

LEMMA StoredOnce ==
    ASSUME NEW book \in KeptRow, NEW sec \in SectionIds, NEW entry \in EntryRow,
           NEW new, new = Stored(book, sec, entry)
    PROVE  /\ new \in KeptRow /\ new[sec] # <<>>
           /\ \A x \in SectionIds : book[x] # <<>> => new[x] # <<>>
           /\ \A x \in SectionIds : \A i \in DOMAIN new[x] :
                 (\E j \in DOMAIN book[x] : new[x][i] = book[x][j]) \/ (x = sec /\ new[x][i] = entry)
           /\ \A a : a.sec \in SectionIds /\ Once(a, book) /\ a.text # entry.text => Once(a, new)
           /\ \A a : /\ a.sec = sec /\ a.text = entry.text
                     /\ \A j \in DOMAIN book[sec] : book[sec][j].text # a.text
                     => Once(a, new)
<1>1. PICK old : old = book[sec] /\ old \in Seq(EntryRow)
    BY DEF KeptRow
<1>2. PICK list : list = IF sec \in Repeatable THEN Append(old, entry) ELSE <<entry>>
    OBVIOUS
<1>3. new = [book EXCEPT ![sec] = list]
    BY <1>1, <1>2 DEF Stored
<1>4. /\ Append(old, entry) \in Seq(EntryRow) /\ Len(Append(old, entry)) = Len(old) + 1
      /\ DOMAIN Append(old, entry) = 1..(Len(old) + 1) /\ DOMAIN old = 1..Len(old) /\ Len(old) \in Nat
      /\ \A i \in 1..Len(old) : Append(old, entry)[i] = old[i]
      /\ Append(old, entry)[Len(old) + 1] = entry
    BY <1>1
<1>5. /\ <<entry>> \in Seq(EntryRow) /\ Len(<<entry>>) = 1 /\ DOMAIN <<entry>> = {1}
      /\ <<entry>>[1] = entry /\ <<entry>> # <<>>
    OBVIOUS
<1>6. list \in Seq(EntryRow) /\ list # <<>>
    BY <1>1, <1>2, <1>4, <1>5
<1>7. /\ new \in KeptRow /\ new[sec] = list /\ \A x \in SectionIds \ {sec} : new[x] = book[x]
    BY <1>3, <1>6 DEF KeptRow
<1>8. \A i \in DOMAIN list : (\E j \in DOMAIN old : list[i] = old[j]) \/ list[i] = entry
    BY <1>2, <1>4, <1>5
<1>9. \A x \in SectionIds : \A i \in DOMAIN new[x] :
         (\E j \in DOMAIN book[x] : new[x][i] = book[x][j]) \/ (x = sec /\ new[x][i] = entry)
    BY <1>1, <1>7, <1>8
<1>10. ASSUME NEW a, a.sec \in SectionIds, Once(a, book), a.text # entry.text PROVE Once(a, new)
  <2>1. CASE a.sec # sec
      BY <1>7, <1>10, <2>1 DEF Once
  <2>2. CASE a.sec = sec /\ sec \in Repeatable
    <3>1. PICK i \in DOMAIN old : old[i].text = a.text /\ \A j \in DOMAIN old : old[j].text = a.text => j = i
        BY <1>1, <1>10, <2>2 DEF Once
    <3>2. i \in DOMAIN list /\ list[i].text = a.text
        BY <1>2, <1>4, <2>2, <3>1
    <3>3. \A j \in DOMAIN list : list[j].text = a.text => j = i
      <4> SUFFICES ASSUME NEW j \in DOMAIN list, list[j].text = a.text PROVE j = i
          OBVIOUS
      <4>1. j \in 1..Len(old) \/ j = Len(old) + 1
          BY <1>2, <1>4, <2>2
      <4>2. j # Len(old) + 1
          BY <1>2, <1>4, <1>10, <2>2
      <4> QED
          BY <1>2, <1>4, <2>2, <3>1, <4>1, <4>2
    <3> QED
        BY <1>7, <2>2, <3>2, <3>3 DEF Once
  <2>3. CASE a.sec = sec /\ sec \notin Repeatable
      BY <1>2, <1>5, <1>7, <2>3 DEF Once
  <2> QED
      BY <2>1, <2>2, <2>3
<1>11. ASSUME NEW a, a.sec = sec, a.text = entry.text,
              \A j \in DOMAIN book[sec] : book[sec][j].text # a.text
       PROVE  Once(a, new)
  <2>1. CASE sec \in Repeatable
    <3>1. Len(old) + 1 \in DOMAIN list /\ list[Len(old) + 1].text = a.text
        BY <1>2, <1>4, <1>11, <2>1
    <3>2. \A j \in DOMAIN list : list[j].text = a.text => j = Len(old) + 1
      <4> SUFFICES ASSUME NEW j \in DOMAIN list, list[j].text = a.text, j # Len(old) + 1 PROVE FALSE
          OBVIOUS
      <4>1. j \in 1..Len(old) /\ list[j] = old[j]
          BY <1>2, <1>4, <2>1
      <4> QED
          BY <1>1, <1>4, <1>11, <4>1
    <3> QED
        BY <1>7, <1>11, <2>1, <3>1, <3>2 DEF Once
  <2>2. CASE sec \notin Repeatable
      BY <1>2, <1>5, <1>7, <1>11, <2>2 DEF Once
  <2> QED
      BY <2>1, <2>2
<1>12. \A x \in SectionIds : book[x] # <<>> => new[x] # <<>>
    BY <1>6, <1>7
<1> QED
    BY <1>6, <1>7, <1>9, <1>10, <1>11, <1>12

LEMMA NextSaveWrites ==
    ASSUME BuilderInv, NEW c \in Clicks, NEW outcome \in {"none", "grounded", "invented"},
           SaveWrites(c, outcome)
    PROVE  BuilderInv'
<1>1. PICK k, s0, sec, entry, r, new :
         /\ k = click[c] /\ s0 = k.s /\ sec = k.sec
         /\ entry = [text |-> k.text, form |-> Formatted(outcome)]
         /\ new = Stored(sessions[s0].kept, sec, entry)
         /\ r = [at |-> IF k.stay THEN sessions[s0].at ELSE NextSection(sec), kept |-> new]
    OBVIOUS
<1>2. /\ sessions \in Seq(SessRow) /\ Len(sessions) \in Nat /\ click \in [Clicks -> ClickRow]
      /\ k \in ClickRow /\ answered \in Nat /\ filed \subseteq FiledRow
    BY <1>1 DEF BuilderInv, BldTyped
<1>3. /\ k.step = "formatting" /\ UNCHANGED <<current, wizard, cv, answered, astray>>
      /\ Replies(c, s0)
    BY <1>1 DEF SaveWrites
<1>4. /\ k.op = "save" /\ sec # "none" /\ s0 \in 1..Len(sessions) /\ k.of \in 0..Len(sessions)
      /\ s0 \in astray \/ ShowFits(s0, sec, FALSE)
    BY <1>1, <1>3 DEF BuilderInv, WholeInv, ClickFits
<1>5. /\ sec \in SectionIds /\ entry \in EntryRow /\ sessions[s0] \in SessRow
      /\ sessions[s0].kept \in KeptRow /\ entry.text = k.text
  <2>1. sessions[s0] \in SessRow
      BY <1>2, <1>4
  <2>2. Formatted(outcome) \in {"ai", "raw"}
      BY DEF Formatted
  <2> QED
      BY <1>1, <1>2, <1>4, <2>1, <2>2 DEF ClickRow, Places, EntryRow, SessRow
<1>6. /\ new \in KeptRow /\ new[sec] # <<>>
      /\ \A x \in SectionIds : sessions[s0].kept[x] # <<>> => new[x] # <<>>
      /\ \A x \in SectionIds : \A i \in DOMAIN new[x] :
            \/ \E j \in DOMAIN sessions[s0].kept[x] : new[x][i] = sessions[s0].kept[x][j]
            \/ x = sec /\ new[x][i] = entry
      /\ \A a : a.sec \in SectionIds /\ Once(a, sessions[s0].kept) /\ a.text # entry.text => Once(a, new)
      /\ \A a : /\ a.sec = sec /\ a.text = entry.text
                /\ \A j \in DOMAIN sessions[s0].kept[sec] : sessions[s0].kept[sec][j].text # a.text
                => Once(a, new)
  <2>1. PICK book : book = sessions[s0].kept
      OBVIOUS
  <2>2. book \in KeptRow /\ new = Stored(book, sec, entry)
      BY <1>1, <1>5, <2>1
  <2>3. /\ new \in KeptRow /\ new[sec] # <<>>
        /\ \A x \in SectionIds : book[x] # <<>> => new[x] # <<>>
        /\ \A x \in SectionIds : \A i \in DOMAIN new[x] :
              (\E j \in DOMAIN book[x] : new[x][i] = book[x][j]) \/ (x = sec /\ new[x][i] = entry)
        /\ \A a : a.sec \in SectionIds /\ Once(a, book) /\ a.text # entry.text => Once(a, new)
        /\ \A a : /\ a.sec = sec /\ a.text = entry.text
                  /\ \A j \in DOMAIN book[sec] : book[sec][j].text # a.text
                  => Once(a, new)
      BY <1>5, <2>2, StoredOnce
  <2> QED
      BY <2>1, <2>3
<1>7. r \in SessRow /\ r.kept = new /\ r.at = IF k.stay THEN sessions[s0].at ELSE NextSection(sec)
    BY <1>1, <1>5, <1>6, NextSections DEF SessRow, Places
<1>8. PICK ss \in Seq(SessRow) :
         /\ sessions' = ss /\ Len(ss) = Len(sessions) /\ ss[s0] = r
         /\ \A s \in 1..Len(sessions) : s # s0 => ss[s] = sessions[s]
  <2>1. [[sessions EXCEPT ![s0].kept = new] EXCEPT ![s0].at = r.at] = [sessions EXCEPT ![s0] = r]
    <3>1. [[sessions[s0] EXCEPT !.kept = new] EXCEPT !.at = r.at] = r
        BY <1>1, <1>5, <1>7 DEF SessRow
    <3> QED
        BY <1>2, <1>4, <3>1
  <2>2. sessions' = [[sessions EXCEPT ![s0].kept = new] EXCEPT ![s0].at = r.at]
    <3>1. sessions' = [[sessions EXCEPT ![s0].kept = new]
                          EXCEPT ![s0].at = IF k.stay THEN sessions[s0].at ELSE NextSection(sec)]
        BY <1>1, <1>2, <1>4, <1>5 DEF SaveWrites, SessRow
    <3> QED
        BY <1>7, <3>1
  <2>3. [sessions EXCEPT ![s0] = r] \in Seq(SessRow)
      BY <1>2, <1>4, <1>7
  <2>4. PICK ss : ss = [sessions EXCEPT ![s0] = r]
      OBVIOUS
  <2>5. ss \in Seq(SessRow) /\ sessions' = ss
      BY <2>1, <2>2, <2>3, <2>4
  <2>6. Len(ss) = Len(sessions) /\ ss[s0] = r
      BY <1>2, <1>4, <2>4
  <2>7. \A s \in 1..Len(sessions) : s # s0 => ss[s] = sessions[s]
      BY <1>2, <1>4, <2>4
  <2> QED
      BY <2>5, <2>6, <2>7
<1>9. s0 \notin astray => Begun(s0) /\ FilledTo(sessions[s0].kept, sec) /\ SessionFits(s0)
  <2>1. SessionFits(s0)
      BY <1>4 DEF BuilderInv, WholeInv
  <2> QED
      BY <1>2, <1>4, <2>1 DEF ShowFits
<1>10. s0 \notin astray => FilledTo(new, r.at)
  <2> SUFFICES ASSUME s0 \notin astray PROVE FilledTo(new, r.at)
      OBVIOUS
  <2>1. /\ sessions[s0].kept["education"] # <<>> => new["education"] # <<>>
        /\ sessions[s0].kept["skills"] # <<>> => new["skills"] # <<>>
      BY <1>6 DEF SectionIds
  <2>2. CASE k.stay
    <3>1. r.at = sessions[s0].at /\ FilledTo(sessions[s0].kept, sessions[s0].at)
        BY <1>7, <1>9, <2>2 DEF SessionFits, Begun
    <3> QED
        BY <2>1, <3>1 DEF FilledTo
  <2>3. CASE ~k.stay
    <3>1. r.at = NextSection(sec) /\ FilledTo(sessions[s0].kept, sec)
        BY <1>7, <1>9, <2>3
    <3>2. sec = "education" \/ sec = "skills" \/ sec = "projects"
        BY <1>5 DEF SectionIds
    <3> QED
        BY <1>6, <2>1, <3>1, <3>2, NextSections DEF FilledTo
  <2> QED
      BY <2>2, <2>3
<1>11. Grows
  <2>1. ASSUME NEW s \in 1..Len(sessions), s \notin astray'
        PROVE  /\ \A x \in SectionIds : sessions[s].kept[x] # <<>> => sessions'[s].kept[x] # <<>>
               /\ Begun(s) => Begun(s)'
    <3>1. CASE s = s0
        BY <1>3, <1>6, <1>7, <1>8, <1>10, <2>1, <3>1 DEF Begun, FilledTo
    <3>2. CASE s # s0
        BY <1>8, <3>2 DEF Begun
    <3> QED
        BY <3>1, <3>2
  <2> QED
      BY <1>2, <1>3, <1>8, <2>1 DEF Grows
<1>12. \A s \in 1..Len(sessions') : SessionFits(s)'
  <2> TAKE s \in 1..Len(sessions')
  <2>1. s \in 1..Len(sessions)
      BY <1>8
  <2>2. CASE s = s0
      BY <1>3, <1>7, <1>8, <1>10, <2>2 DEF SessionFits
  <2>3. CASE s # s0
      BY <1>3, <1>8, <2>1, <2>3 DEF BuilderInv, WholeInv, SessionFits
  <2> QED
      BY <2>2, <2>3
<1>13. PICK k1 \in ClickRow : click' = [click EXCEPT ![c] = k1] /\ ~Writing(k1) /\ ClickFits(k1)'
  <2>1. /\ s0 \in 1..Len(sessions') /\ sessions'[s0] \in SessRow /\ Len(sessions') \in Nat
        /\ click[c].of \in 0..Len(sessions')
      BY <1>1, <1>2, <1>4, <1>7, <1>8
  <2>2. SessionFits(s0)'
      BY <1>12, <2>1
  <2> QED
      BY <1>2, <1>3, <2>1, <2>2, ReplyFits
<1>14. click'[c] = k1 /\ \A d \in Clicks \ {c} : click'[d] = click[d]
    BY <1>2, <1>13
<1>15. WholeInv'
  <2>1. \A d \in Clicks : click'[d] = click[d] \/ ClickFits(click[d])'
      BY <1>13, <1>14 DEF ClickFits, ShowFits
  <2> QED
      BY <1>3, <1>11, <1>12, <2>1, WholeMoves DEF BuilderInv
<1>16. PICK b \in FiledRow :
          /\ filed' = filed \cup {b} /\ b.text = k.text /\ b.sec = sec /\ b.s = s0
          /\ b.late = ReadOut(s0)
  <2> DEFINE b == [text |-> k.text, sec |-> sec, s |-> s0, late |-> ReadOut(s0)]
  <2>1. ReadOut(s0) \in BOOLEAN
      BY DEF ReadOut
  <2>2. b \in FiledRow
      BY <1>1, <1>2, <1>4, <1>5, <2>1 DEF FiledRow, ClickRow
  <2>3. filed' = filed \cup {b}
      BY <1>1 DEF SaveWrites
  <2> QED
      BY <2>2, <2>3
<1>17. BldTyped'
  <2>1. current \in 0..Len(ss)
      BY <1>8 DEF BuilderInv, BldTyped
  <2>2. click' \in [Clicks -> ClickRow]
      BY <1>2, <1>13
  <2>3. filed' \subseteq FiledRow
      BY <1>2, <1>16
  <2> QED
      BY <1>3, <1>8, <2>1, <2>2, <2>3 DEF BuilderInv, BldTyped
<1>18. /\ \A a \in filed : a.text # k.text
       /\ k.text <= answered /\ k.text \in Nat
       /\ \A d \in Clicks \ {c} : Writing(click[d]) => click[d].text # k.text
  <2>1. Writing(click[c])
      BY <1>1, <1>3, <1>4 DEF Writing
  <2> QED
      BY <1>1, <1>2, <2>1 DEF BuilderInv, EntriesInv, ClickRow
<1>19. ASSUME NEW s \in 1..Len(sessions) 
       PROVE  \A x \in SectionIds : \A i \in DOMAIN sessions'[s].kept[x] :
                 \E a \in filed' : a.text = sessions'[s].kept[x][i].text /\ a.s = s
  <2>1. OfSession(sessions[s].kept, s)
      BY DEF BuilderInv, EntriesInv
  <2>2. ASSUME NEW x \in SectionIds, NEW i \in DOMAIN sessions'[s].kept[x]
        PROVE  \E a \in filed' : a.text = sessions'[s].kept[x][i].text /\ a.s = s
    <3>1. CASE s # s0
        BY <1>8, <1>16, <2>1, <2>2, <3>1 DEF OfSession
    <3>2. CASE s = s0
      <4>1. sessions'[s].kept = new
          BY <1>7, <1>8, <3>2
      <4>2. CASE \E j \in DOMAIN sessions[s0].kept[x] : new[x][i] = sessions[s0].kept[x][j]
          BY <1>16, <2>1, <3>2, <4>1, <4>2 DEF OfSession
      <4>3. CASE x = sec /\ new[x][i] = entry
          BY <1>5, <1>16, <3>2, <4>1, <4>3
      <4> QED
          BY <1>6, <2>2, <4>1, <4>2, <4>3
    <3> QED
        BY <3>1, <3>2
  <2> QED
      BY <2>2
<1>20. (cv.of # 0 => OfSession(cv.kept, cv.of))'
  <2>1. cv.of # 0 => OfSession(cv.kept, cv.of)
      BY DEF BuilderInv, EntriesInv
  <2> QED
      BY <1>3, <1>16, <2>1 DEF OfSession
<1>21. ASSUME NEW a \in filed'
       PROVE  /\ a.s \in 1..Len(sessions') /\ Once(a, sessions'[a.s].kept)
              /\ a.s = cv'.of /\ ~a.late => Once(a, cv'.kept)
              /\ a.text <= answered'
  <2>1. CASE a \in filed
    <3>1. /\ a.s \in 1..Len(sessions) /\ Once(a, sessions[a.s].kept)
          /\ a.s = cv.of /\ ~a.late => Once(a, cv.kept)
          /\ a.text <= answered /\ a.sec \in SectionIds
        BY <1>2, <2>1 DEF BuilderInv, EntriesInv, FiledRow
    <3>2. Once(a, sessions'[a.s].kept)
      <4>1. CASE a.s = s0
          BY <1>5, <1>6, <1>7, <1>8, <1>18, <2>1, <3>1, <4>1
      <4>2. CASE a.s # s0
          BY <1>8, <3>1, <4>2
      <4> QED
          BY <4>1, <4>2
    <3> QED
        BY <1>3, <1>8, <3>1, <3>2
  <2>2. CASE a = b
    <3>1. \A j \in DOMAIN sessions[s0].kept[sec] : sessions[s0].kept[sec][j].text # a.text
      <4>1. OfSession(sessions[s0].kept, s0)
          BY <1>4 DEF BuilderInv, EntriesInv
      <4> QED
          BY <1>5, <1>16, <1>18, <2>2, <4>1 DEF OfSession
    <3>2. Once(a, new)
        BY <1>5, <1>6, <1>16, <2>2, <3>1
    <3>3. a.s = cv.of => a.late
        BY <1>16, <2>2 DEF ReadOut
    <3> QED
        BY <1>3, <1>4, <1>7, <1>8, <1>16, <1>18, <2>2, <3>2, <3>3
  <2> QED
      BY <1>16, <2>1, <2>2
<1>22. \A d \in Clicks : Writing(click'[d]) =>
          /\ click'[d].text <= answered' /\ \A a \in filed' : a.text # click'[d].text
          /\ \A e \in Clicks \ {d} : Writing(click'[e]) => click'[e].text # click'[d].text
  <2>1. \A d \in Clicks : Writing(click'[d]) => d # c /\ click'[d] = click[d]
      BY <1>13, <1>14
  <2>2. \A d \in Clicks : Writing(click[d]) =>
          /\ click[d].text <= answered /\ \A a \in filed : a.text # click[d].text
          /\ \A e \in Clicks \ {d} : Writing(click[e]) => click[e].text # click[d].text
      BY DEF BuilderInv, EntriesInv
  <2>3. \A a \in filed' : a \in filed \/ a.text = k.text
      BY <1>16
  <2> QED
      BY <1>3, <1>18, <2>1, <2>2, <2>3
<1>23. EntriesInv'
  <2>1. \A s \in 1..Len(sessions') : OfSession(sessions[s].kept, s)'
      BY <1>8, <1>19 DEF OfSession
  <2> QED
      BY <1>20, <1>21, <1>22, <2>1 DEF EntriesInv, Once, Writing
<1> QED
    BY <1>15, <1>17, <1>23 DEF BuilderInv

LEMMA NextBuilder == BuilderInv /\ [BldNext]_bldVars => BuilderInv'
<1> SUFFICES ASSUME BuilderInv, [BldNext]_bldVars PROVE BuilderInv'
    OBVIOUS
<1>1. CASE BldNext
  <2>1. ASSUME NEW c \in Clicks,
               \/ Shown(c) \/ Show(c) \/ Start(c) \/ SaveTakes(c) \/ FormatFails(c)
               \/ Skip(c) \/ Assembles(c) \/ Finish(c)
        PROVE  BuilderInv'
      BY <2>1, NextShown, NextShow, NextStart, NextSaveTakes, NextSkip, NextAssembles
  <2>2. ASSUME NEW c \in Clicks, NEW outcome \in {"none", "grounded", "invented"},
               SaveWrites(c, outcome)
        PROVE  BuilderInv'
      BY <2>2, NextSaveWrites
  <2>3. ASSUME NEW c \in Clicks, NEW t \in Tabs,
               \/ Opens(c, t) \/ PressesStart(c, t) \/ PressesSkip(c, t) \/ PressesFinish(c, t)
               \/ \E stay \in BOOLEAN : PressesSave(c, t, stay)
        PROVE  BuilderInv'
      BY <2>3, NextPress
  <2> QED
      BY <1>1, <2>1, <2>2, <2>3, NextStops DEF BldNext
<1>2. CASE UNCHANGED bldVars
  <2>1. UNCHANGED <<sessions, current, wizard, click, cv, answered, filed, astray>>
      BY <1>2 DEF bldVars
  <2>2. PICK cs, ws : cs = click /\ ws = wizard
      OBVIOUS
  <2>3. cs \in [Clicks -> ClickRow] /\ ws \in [Tabs -> WizRow] /\ current' \in 0..Len(sessions)
      BY <2>1, <2>2 DEF BuilderInv, BldTyped
  <2> QED
      BY <2>1, <2>2, <2>3, PageKeeps
<1> QED
    BY <1>1, <1>2
-----------------------------------------------------------------------------
(* Commands *)

Words == {"", "yes", "no", "a", "applied", "wish", "slash", Unset, Skipped}
Params(cmd) == ToSet(ParamsOf[cmd])
PendRow   == [cmd : CommandNames \cup {"none"}, args : [DOMAIN NoArgs -> Words],
              awaiting : DOMAIN NoArgs \cup {"none"}, confirm : BOOLEAN]
PromptRow == [kind : {"ask", "confirm", "nothing", "unsure", "stale"}, p : PendRow]
WinRow    == [at : {"idle", "routing", "executing"}, cmd : CommandNames \cup {"none"},
              args : [DOMAIN NoArgs -> Words], agreed : BOOLEAN, left : BOOLEAN,
              crossed : BOOLEAN, gone : BOOLEAN]

\* What a parameter may hold, and what it must before the command runs.
Given(x, value) == ValidFor(x, value) \/ (x \in Skippables /\ value = Skipped)
WellGiven(q) == \A x \in Params(q.cmd) : q.args[x] = Unset \/ Given(x, q.args[x])
Full(cmd, args) == \A x \in Params(cmd) : args[x] # Unset /\ Given(x, args[x])

PendFits(q) ==
    /\ q \in PendRow /\ (q.cmd = "none" => q = NoneYet) /\ (q.cmd # "none" => WellGiven(q))
    /\ q.awaiting # "none" => q.cmd # "none" /\ ~q.confirm /\ q.awaiting = NextMissing(q)
    /\ q.confirm => q.cmd # "none" /\ Full(q.cmd, q.args)

\* A command that was left as it ran.
Filled(q) == q.cmd # "none" /\ ~q.confirm /\ q.awaiting = "none"
Busy      == \E w \in Windows : IsExecuting(w) /\ ~window[w].gone

WindowFits(w) ==
    /\ IsExecuting(w) => /\ window[w].cmd # "none" /\ Full(window[w].cmd, window[w].args)
                         /\ window[w].cmd \in NeedsYes => window[w].agreed \/ window[w].crossed
                         /\ window[w].left => window[w].crossed
    /\ window[w].gone => window[w].at # "idle" /\ prompt[w] = Stale

\* What a window was told is so, or others have spoken since.
Agrees(w) ==
    /\ prompt[w].kind = "ask" => prompt[w].p = pending /\ pending.awaiting # "none"
    /\ prompt[w].kind = "confirm" => prompt[w].p = pending /\ pending.confirm
    /\ prompt[w].kind \in {"nothing", "unsure"} => pending = NoneYet
    /\ prompt[w].kind = "stale" => prompt[w] = Stale
    /\ window[w].at = "routing" => prompt[w] = Stale \/ pending = NoneYet

CmdTyped ==
    /\ window \in [Windows -> WinRow] /\ prompt \in [Windows -> PromptRow] /\ cutOff \in BOOLEAN
    /\ PendFits(pending) /\ PendFits(keptOf)
CmdSettled ==
    ~cutOff => /\ ~Busy => keptOf = pending /\ ~Filled(pending)
               /\ \A w \in Windows : ~IsExecuting(w) => Agrees(w)
CmdInv == CmdTyped /\ (\A w \in Windows : WindowFits(w)) /\ CmdSettled

LEMMA ParamFacts ==
    /\ CommandNames = {"mark", "show", "help"} /\ "none" \notin CommandNames
    /\ \A cmd \in CommandNames :
         /\ ParamsOf[cmd] \in Seq(DOMAIN NoArgs) /\ Params(cmd) \subseteq DOMAIN NoArgs
         /\ Params(cmd) = {ParamsOf[cmd][i] : i \in DOMAIN ParamsOf[cmd]}
    /\ DOMAIN NoArgs = {"id", "status", "replied", "target"} /\ NoArgs \in [DOMAIN NoArgs -> Words]
    /\ \A x \in DOMAIN NoArgs : NoArgs[x] = Unset
<1>1. CommandNames = {"mark", "show", "help"}
    BY DEF CommandNames, ParamsOf
<1>2. DOMAIN NoArgs = {"id", "status", "replied", "target"}
    BY DEF NoArgs
<1>3. /\ ParamsOf["mark"] = <<"id", "status", "replied">> /\ ParamsOf["show"] = <<"target">>
      /\ ParamsOf["help"] = <<>>
    BY DEF ParamsOf
<1>4. /\ <<"id", "status", "replied">> \in Seq(DOMAIN NoArgs) /\ <<"target">> \in Seq(DOMAIN NoArgs)
      /\ <<>> \in Seq(DOMAIN NoArgs)
    BY <1>2
<1>5. \A cmd \in CommandNames : ParamsOf[cmd] \in Seq(DOMAIN NoArgs)
    BY <1>1, <1>3, <1>4
<1>6. \A cmd \in CommandNames : /\ Params(cmd) = {ParamsOf[cmd][i] : i \in DOMAIN ParamsOf[cmd]}
                                /\ Params(cmd) \subseteq DOMAIN NoArgs
    BY <1>5 DEF Params, ToSet
<1>7. NoArgs \in [DOMAIN NoArgs -> Words] /\ \A x \in DOMAIN NoArgs : NoArgs[x] = Unset
  <2>1. NoArgs = [x \in DOMAIN NoArgs |-> Unset] /\ Unset \in Words
      BY <1>2 DEF NoArgs, Words
  <2> QED
      BY <2>1
<1> QED
    BY <1>1, <1>2, <1>5, <1>6, <1>7

LEMMA MissingFacts ==
    ASSUME NEW q, q.cmd \in CommandNames
    PROVE  /\ NextMissing(q) = "none" => \A x \in Params(q.cmd) : q.args[x] # Unset
           /\ NextMissing(q) # "none" => NextMissing(q) \in Params(q.cmd)
<1> DEFINE params   == ParamsOf[q.cmd]
           Lacks(S) == {i \in DOMAIN params : params[i] \in S /\ q.args[params[i]] = Unset}
           Foremost(I) == params[CHOOSE i \in I : \A j \in I : i <= j]
<1>1. /\ params \in Seq(DOMAIN NoArgs) /\ "none" \notin DOMAIN NoArgs
      /\ Params(q.cmd) = {params[i] : i \in DOMAIN params}
    BY ParamFacts
<1>2. ASSUME NEW I, I \subseteq DOMAIN params, I # {}
      PROVE  Foremost(I) \in Params(q.cmd) /\ Foremost(I) # "none"
  <2>1. I \subseteq Nat
      BY <1>1, <1>2
  <2>2. PICK i \in I : \A j \in I : i <= j
      BY <1>2, <2>1, LeastOfNaturals
  <2>3. PICK k : k = CHOOSE n \in I : \A j \in I : n <= j
      OBVIOUS
  <2>4. k \in I /\ Foremost(I) = params[k]
      BY <2>2, <2>3
  <2>5. params[k] \in Params(q.cmd) /\ params[k] \in DOMAIN NoArgs
    <3>1. k \in DOMAIN params
        BY <1>2, <2>4
    <3>2. params[k] \in DOMAIN NoArgs
        BY <1>1, <3>1
    <3> QED
        BY <1>1, <3>1, <3>2
  <2> QED
      BY <1>1, <2>4, <2>5
<1>3. PICK R, O : R = Lacks(DOMAIN NoArgs \ Skippables) /\ O = Lacks(Skippables)
    OBVIOUS
<1>4. NextMissing(q) = IF R # {} THEN Foremost(R) ELSE IF O # {} THEN Foremost(O) ELSE "none"
    BY <1>3 DEF NextMissing
<1>5. R \subseteq DOMAIN params /\ O \subseteq DOMAIN params
    BY <1>3
<1>6. ASSUME R = {}, O = {} PROVE \A x \in Params(q.cmd) : q.args[x] # Unset
  <2>1. SUFFICES ASSUME NEW i \in DOMAIN params, q.args[params[i]] = Unset PROVE FALSE
      BY <1>1
  <2>2. params[i] \in DOMAIN NoArgs
      BY <1>1
  <2> QED
      BY <1>3, <1>6, <2>1, <2>2
<1> HIDE DEF Foremost, Lacks
<1>7. /\ R # {} => Foremost(R) \in Params(q.cmd) /\ Foremost(R) # "none"
      /\ O # {} => Foremost(O) \in Params(q.cmd) /\ Foremost(O) # "none"
    BY <1>2, <1>5
<1> QED
    BY <1>4, <1>6, <1>7

LEMMA MissingSame ==
    ASSUME NEW q, NEW r, q.cmd = r.cmd, q.args = r.args
    PROVE  NextMissing(q) = NextMissing(r)
BY DEF NextMissing

LEMMA CmdRows ==
    /\ NoneYet \in PendRow /\ NoneYet.cmd = "none" /\ NoneYet.args = NoArgs
    /\ NoneYet.awaiting = "none" /\ NoneYet.confirm = FALSE
    /\ PendFits(NoneYet) /\ ~Filled(NoneYet)
    /\ Idling \in WinRow /\ Idling.at = "idle" /\ Idling.gone = FALSE
    /\ \A kind \in {"ask", "confirm", "nothing", "unsure", "stale"}, p \in PendRow :
          Told(kind, p) \in PromptRow /\ Told(kind, p).kind = kind /\ Told(kind, p).p = p
    /\ NothingWaits = Told("nothing", NoneYet) /\ Unsure = Told("unsure", NoneYet)
    /\ Stale = Told("stale", NoneYet)
<1>1. NoneYet \in PendRow /\ NoneYet.cmd = "none" /\ NoneYet.args = NoArgs
      /\ NoneYet.awaiting = "none" /\ NoneYet.confirm = FALSE
  <2>1. NoArgs \in [DOMAIN NoArgs -> Words]
      BY ParamFacts
  <2> QED
      BY <2>1 DEF NoneYet, PendRow
<1>2. PendFits(NoneYet) /\ ~Filled(NoneYet)
    BY <1>1 DEF PendFits, Filled
<1>3. Idling \in WinRow /\ Idling.at = "idle" /\ Idling.gone = FALSE
    BY ParamFacts DEF Idling, WinRow
<1>4. \A kind \in {"ask", "confirm", "nothing", "unsure", "stale"}, p \in PendRow :
          Told(kind, p) \in PromptRow /\ Told(kind, p).kind = kind /\ Told(kind, p).p = p
    BY DEF Told, PromptRow
<1> QED
    BY <1>1, <1>2, <1>3, <1>4 DEF NothingWaits, Unsure, Stale

LEMMA CommandsKeep == CmdInv => CommandsHold
<1> SUFFICES ASSUME CmdInv PROVE CommandsHold
    OBVIOUS
<1>1. YesMeansThis
  <2> SUFFICES ASSUME NEW w \in Windows, IsExecuting(w), window[w].cmd \in NeedsYes
               PROVE  /\ window[w].agreed \/ window[w].crossed
                      /\ \A x \in ToSet(ParamsOf[window[w].cmd]) :
                            \/ ValidFor(x, window[w].args[x]) /\ window[w].args[x] # Unset
                            \/ x \in Skippables /\ window[w].args[x] = Skipped
      BY DEF YesMeansThis
  <2>1. /\ Full(window[w].cmd, window[w].args)
        /\ window[w].agreed \/ window[w].crossed
      BY DEF CmdInv, WindowFits
  <2> QED
      BY DEF CmdInv, WindowFits, Full, Given, Params
<1>2. NothingUnasked
    BY DEF NothingUnasked, CmdInv, WindowFits
<1>3. PromptAgrees
  <2> SUFFICES ASSUME NEW w \in Windows, window[w].at = "idle", ~cutOff
               PROVE  /\ prompt[w].kind = "ask" => /\ prompt[w].p = pending
                                                   /\ pending.awaiting = NextMissing(pending)
                      /\ prompt[w].kind = "confirm" => prompt[w].p = pending /\ pending.confirm
                      /\ prompt[w].kind = "nothing" => pending = NoneYet
      BY DEF PromptAgrees
  <2>1. Agrees(w) /\ PendFits(pending)
      BY DEF CmdInv, CmdSettled, CmdTyped, IsExecuting
  <2> QED
      BY <2>1 DEF Agrees, PendFits
<1>4. KeptAsIs
    BY DEF KeptAsIs, CmdInv, CmdSettled, Busy, IsExecuting
<1> QED
    BY <1>1, <1>2, <1>3, <1>4 DEF CommandsHold

LEMMA InitCommands == CmdInit => CmdInv
<1> SUFFICES ASSUME CmdInit PROVE CmdInv
    OBVIOUS
<1>1. /\ pending = NoneYet /\ keptOf = NoneYet /\ cutOff = FALSE
      /\ \A w \in Windows : window[w] = Idling /\ prompt[w] = NothingWaits
      /\ window \in [Windows -> WinRow] /\ prompt \in [Windows -> PromptRow]
    BY CmdRows DEF CmdInit
<1>2. \A w \in Windows : /\ window[w].at = "idle" /\ ~window[w].gone
                         /\ prompt[w].kind = "nothing" /\ prompt[w].p = NoneYet
    BY <1>1, CmdRows
<1>3. CmdTyped
    BY <1>1, CmdRows DEF CmdTyped
<1>4. \A w \in Windows : WindowFits(w) /\ Agrees(w)
    BY <1>1, <1>2 DEF WindowFits, Agrees, IsExecuting
<1>5. CmdSettled
    BY <1>1, <1>4, CmdRows DEF CmdSettled
<1> QED
    BY <1>3, <1>4, <1>5 DEF CmdInv

LEMMA TellsKeeps ==
    ASSUME CmdInv, NEW w \in Windows, NEW what \in PromptRow, Tells(w, what), cutOff' = FALSE,
           keptOf' = pending', PendFits(pending'), ~Filled(pending'), what.kind # "stale",
           what.kind = "ask" => what.p = pending' /\ pending'.awaiting # "none",
           what.kind = "confirm" => what.p = pending' /\ pending'.confirm,
           what.kind \in {"nothing", "unsure"} => pending' = NoneYet
    PROVE  CmdInv'
<1>1. window \in [Windows -> WinRow] /\ prompt \in [Windows -> PromptRow] /\ PendFits(NoneYet)
    BY CmdRows DEF CmdInv, CmdTyped
<1>2. /\ window' = [window EXCEPT ![w] = Idling]
      /\ prompt' = [v \in Windows |-> IF v = w THEN what ELSE Stale]
    BY DEF Tells
<1>3. Stale \in PromptRow /\ Stale.kind = "stale"
    BY CmdRows
<1>4. /\ window'[w] = Idling /\ prompt'[w] = what
      /\ \A v \in Windows \ {w} : window'[v] = window[v] /\ prompt'[v] = Stale
    BY <1>1, <1>2
<1>5. CmdTyped'
  <2>1. window' \in [Windows -> WinRow]
      BY <1>1, <1>2, CmdRows
  <2>2. prompt' \in [Windows -> PromptRow]
      BY <1>2, <1>3
  <2> QED
      BY <2>1, <2>2 DEF CmdTyped
<1>6. ASSUME NEW v \in Windows PROVE WindowFits(v)' /\ Agrees(v)'
  <2>1. CASE v = w
      BY <1>4, <2>1, CmdRows DEF WindowFits, Agrees, IsExecuting
  <2>2. CASE v # w
    <3>1. WindowFits(v)
        BY DEF CmdInv
    <3> QED
        BY <1>3, <1>4, <2>2, <3>1 DEF WindowFits, Agrees, IsExecuting
  <2> QED
      BY <2>1, <2>2
<1>7. CmdSettled'
    BY <1>6 DEF CmdSettled
<1> QED
    BY <1>5, <1>6, <1>7 DEF CmdInv

Crossed(w) == prompt[w] = Stale \/ cutOff \/ \E v \in Windows \ {w} : IsExecuting(v)

LEMMA ExecutesKeeps ==
    ASSUME CmdInv, NEW w \in Windows, NEW p, NEW left \in BOOLEAN, Executes(w, p, left),
           PendFits(p), p.cmd # "none", Full(p.cmd, p.args), left => Crossed(w),
           p.cmd \in NeedsYes => prompt[w] = Told("confirm", p) \/ Crossed(w)
    PROVE  CmdInv'
<1>1. /\ window \in [Windows -> WinRow] /\ prompt \in [Windows -> PromptRow]
      /\ cutOff \in BOOLEAN /\ PendFits(keptOf) /\ p \in PendRow
    BY DEF CmdInv, CmdTyped, PendFits
<1> DEFINE r == [at |-> "executing", cmd |-> p.cmd, args |-> p.args, gone |-> FALSE, left |-> left,
                 agreed |-> prompt[w] = Told("confirm", p), crossed |-> Crossed(w)]
<1>2. /\ window' = [window EXCEPT ![w] = r] /\ pending' = p /\ UNCHANGED <<keptOf, cutOff>>
      /\ prompt' = [v \in Windows |-> IF v = w THEN prompt[w] ELSE Stale]
    BY DEF Executes, Crossed
<1>3. r \in WinRow
  <2>1. Crossed(w) \in BOOLEAN /\ (prompt[w] = Told("confirm", p)) \in BOOLEAN
      BY <1>1 DEF Crossed
  <2> QED
      BY <1>1, <2>1 DEF WinRow, PendRow
<1>4. Stale \in PromptRow /\ Stale.kind = "stale"
    BY CmdRows
<1>5. /\ window'[w] = r /\ \A v \in Windows \ {w} : window'[v] = window[v] /\ prompt'[v] = Stale
    BY <1>1, <1>2
<1>6. CmdTyped'
  <2>1. window' \in [Windows -> WinRow]
      BY <1>1, <1>2, <1>3
  <2>2. prompt' \in [Windows -> PromptRow]
      BY <1>1, <1>2, <1>4
  <2> QED
      BY <1>1, <1>2, <2>1, <2>2 DEF CmdTyped
<1>7. IsExecuting(w)' /\ ~window'[w].gone
    BY <1>5 DEF IsExecuting
<1>8. WindowFits(w)'
  <2>1. /\ window'[w].cmd = p.cmd /\ window'[w].args = p.args /\ window'[w].left = left
        /\ window'[w].agreed = (prompt[w] = Told("confirm", p)) /\ window'[w].crossed = Crossed(w)
      BY <1>5
  <2> QED
      BY <1>7, <2>1 DEF WindowFits
<1>9. ASSUME NEW v \in Windows \ {w} PROVE WindowFits(v)' /\ Agrees(v)'
  <2>1. WindowFits(v)
      BY DEF CmdInv
  <2> QED
      BY <1>4, <1>5, <2>1 DEF WindowFits, Agrees, IsExecuting
<1>10. CmdSettled'
    BY <1>7, <1>9 DEF CmdSettled, Busy
<1> QED
    BY <1>6, <1>8, <1>9, <1>10 DEF CmdInv

LEMMA ProceedsKeeps ==
    ASSUME CmdInv, NEW w \in Windows, NEW p \in PendRow, NEW left \in BOOLEAN,
           Proceeds(w, p, left), p.cmd # "none", WellGiven(p), p.awaiting = "none",
           ~p.confirm, left => Crossed(w)
    PROVE  CmdInv'
<1> DEFINE x == NextMissing(p)
           asking == [p EXCEPT !.awaiting = x]
           ready == [p EXCEPT !.awaiting = "none", !.confirm = TRUE]
<1>1. p.cmd \in CommandNames /\ Params(p.cmd) \subseteq DOMAIN NoArgs
    BY ParamFacts DEF PendRow
<1>2. /\ x = "none" => Full(p.cmd, p.args)
      /\ x # "none" => x \in DOMAIN NoArgs
    BY <1>1, MissingFacts DEF Full, WellGiven
<1>3. CASE x # "none"
  <2>1. /\ asking \in PendRow /\ asking.awaiting = x /\ asking.cmd = p.cmd /\ asking.args = p.args
        /\ asking.confirm = FALSE
      BY <1>2, <1>3 DEF PendRow
  <2>2. PendFits(asking) /\ ~Filled(asking)
    <3>1. NextMissing(asking) = x
        BY <2>1, MissingSame
    <3> QED
        BY <1>3, <2>1, <3>1 DEF PendFits, WellGiven, Filled
  <2>3. /\ pending' = asking /\ keptOf' = pending' /\ Tells(w, Told("ask", asking))
        /\ cutOff' = FALSE
      BY <1>3 DEF Proceeds, PersistsSession
  <2>4. /\ Told("ask", asking) \in PromptRow /\ Told("ask", asking).kind = "ask"
        /\ Told("ask", asking).p = asking
      BY <2>1, CmdRows
  <2> QED
      BY <1>3, <2>1, <2>2, <2>3, <2>4, TellsKeeps
<1>4. CASE x = "none" /\ p.cmd \notin NeedsYes
  <2>1. Executes(w, p, left)
      BY <1>4 DEF Proceeds
  <2>2. PendFits(p)
      BY DEF PendFits
  <2> QED
      BY <1>2, <1>4, <2>1, <2>2, ExecutesKeeps
<1>5. CASE x = "none" /\ p.cmd \in NeedsYes
  <2>1. /\ ready \in PendRow /\ ready.awaiting = "none" /\ ready.cmd = p.cmd /\ ready.args = p.args
        /\ ready.confirm = TRUE
      BY DEF PendRow
  <2>2. PendFits(ready) /\ ~Filled(ready)
      BY <1>2, <1>5, <2>1 DEF PendFits, WellGiven, Filled
  <2>3. /\ pending' = ready /\ keptOf' = pending' /\ Tells(w, Told("confirm", ready))
        /\ cutOff' = FALSE
      BY <1>5 DEF Proceeds, PersistsSession
  <2>4. /\ Told("confirm", ready) \in PromptRow /\ Told("confirm", ready).kind = "confirm"
        /\ Told("confirm", ready).p = ready
      BY <2>1, CmdRows
  <2> QED
      BY <2>1, <2>2, <2>3, <2>4, TellsKeeps
<1> QED
    BY <1>3, <1>4, <1>5

LEMMA NextSaysYes ==
    ASSUME CmdInv, NEW w \in Windows, SaysYes(w)
    PROVE  CmdInv'
<1>1. PendFits(pending) /\ pending.confirm /\ window[w].at = "idle" /\ Executes(w, pending, FALSE)
    BY DEF CmdInv, CmdTyped, SaysYes, Hears
<1>2. pending.cmd # "none" /\ Full(pending.cmd, pending.args)
    BY <1>1 DEF PendFits
<1>3. prompt[w] = Told("confirm", pending) \/ Crossed(w)
  <2> SUFFICES ASSUME ~cutOff, prompt[w] # Stale PROVE prompt[w] = Told("confirm", pending)
      BY DEF Crossed
  <2>1. Agrees(w) /\ prompt[w] \in PromptRow
      BY <1>1 DEF CmdInv, CmdSettled, CmdTyped, IsExecuting
  <2>2. pending # NoneYet /\ pending.awaiting = "none"
      BY <1>1, <1>2, CmdRows DEF PendFits
  <2>3. prompt[w].kind = "confirm" /\ prompt[w].p = pending
      BY <2>1, <2>2 DEF Agrees, PromptRow
  <2> QED
      BY <2>1, <2>3 DEF Told, PromptRow
<1> QED
    BY <1>1, <1>2, <1>3, ExecutesKeeps

LEMMA NextSaysNo ==
    ASSUME CmdInv, NEW w \in Windows, SaysNo(w)
    PROVE  CmdInv'
<1>1. /\ pending' = NoneYet /\ keptOf' = pending' /\ Tells(w, NothingWaits) /\ cutOff' = FALSE
    BY DEF SaysNo, PersistsSession
<1>2. /\ NothingWaits \in PromptRow /\ NothingWaits.kind = "nothing" /\ PendFits(NoneYet)
      /\ ~Filled(NoneYet)
    BY CmdRows
<1> QED
    BY <1>1, <1>2, TellsKeeps

LEMMA NextNeither ==
    ASSUME CmdInv, NEW w \in Windows, NEW m \in Sayings, Neither(w, m) \/ LeftOver(w, m)
    PROVE  CmdInv'
<1>1. PendFits(pending) /\ window[w].at = "idle"
    BY DEF CmdInv, CmdTyped, Neither, LeftOver, Hears
<1>2. CASE Neither(w, m)
  <2> DEFINE p == [pending EXCEPT !.confirm = FALSE]
  <2>1. pending.confirm /\ Proceeds(w, p, FALSE)
      BY <1>2 DEF Neither
  <2>2. /\ p \in PendRow /\ p.cmd # "none" /\ p.awaiting = "none" /\ p.confirm = FALSE
        /\ p.cmd = pending.cmd /\ p.args = pending.args
      BY <1>1, <2>1 DEF PendFits, PendRow
  <2>3. WellGiven(p)
      BY <1>1, <2>1, <2>2 DEF PendFits, WellGiven, Full
  <2> QED
      BY <2>1, <2>2, <2>3, ProceedsKeeps
<1>3. CASE LeftOver(w, m)
  <2>1. Filled(pending) /\ Proceeds(w, pending, TRUE)
      BY <1>3 DEF LeftOver, Filled
  <2>2. Crossed(w)
      BY <1>1, <2>1 DEF CmdInv, CmdSettled, Busy, Crossed, IsExecuting
  <2>3. pending \in PendRow /\ WellGiven(pending)
      BY <1>1, <2>1 DEF PendFits, Filled
  <2> QED
      BY <2>1, <2>2, <2>3, ProceedsKeeps DEF Filled
<1> QED
    BY <1>2, <1>3

LEMMA SayingShapes ==
    \A m \in Sayings : /\ m.word \in Words /\ m.cmd \in CommandNames \cup {"none"}
                       /\ m.word = "slash" => m.cmd # "none" /\ m.rest \in Seq(Words)
<1>1. /\ Silence.word = "" /\ Silence.cmd = "none"
      /\ \A word : Word(word).word = word /\ Word(word).cmd = "none"
    BY DEF Silence, Word
<1>s. \A cmd, rest : /\ Slash(cmd, rest).word = "slash" /\ Slash(cmd, rest).cmd = cmd
                    /\ Slash(cmd, rest).rest = rest
    BY DEF Slash
<1>2. /\ <<>> \in Seq(Words) /\ <<"a", "wish">> \in Seq(Words)
      /\ <<"a", "applied", "no">> \in Seq(Words)
    BY DEF Words
<1>3. {"mark", "show", "help"} = CommandNames /\ "none" \notin CommandNames
    BY ParamFacts
<1> SUFFICES ASSUME NEW m \in Sayings
             PROVE  /\ m.word \in Words /\ m.cmd \in CommandNames \cup {"none"}
                    /\ m.word = "slash" => m.cmd # "none" /\ m.rest \in Seq(Words)
    OBVIOUS
<1>4. CASE \/ m = Silence \/ m = Word("yes") \/ m = Word("no") \/ m = Word("a")
           \/ m = Word("applied") \/ m = Word("wish")
  <2>1. m.word \in {"", "yes", "no", "a", "applied", "wish"} /\ m.cmd = "none"
      BY <1>1, <1>4
  <2> QED
      BY <2>1 DEF Words
<1>5. CASE \E cmd \in CommandNames, rest \in Seq(Words) : m = Slash(cmd, rest)
  <2>1. PICK cmd \in CommandNames, rest \in Seq(Words) : m = Slash(cmd, rest)
      BY <1>5
  <2>2. m.word = "slash" /\ m.cmd = cmd /\ m.rest = rest
      BY <1>s, <2>1
  <2>3. "slash" \in Words
      BY DEF Words
  <2> QED
      BY <1>3, <2>2, <2>3
<1> QED
  <2>1. \/ m = Silence \/ m = Word("yes") \/ m = Word("no") \/ m = Word("a")
        \/ m = Word("applied") \/ m = Word("wish")
        \/ m = Slash("mark", <<>>) \/ m = Slash("mark", <<"a", "wish">>)
        \/ m = Slash("mark", <<"a", "applied", "no">>)
        \/ m = Slash("show", <<>>) \/ m = Slash("help", <<>>)
      BY DEF Sayings
  <2> QED
      BY <1>2, <1>3, <1>4, <1>5, <2>1

LEMMA NextGivesValue ==
    ASSUME CmdInv, NEW w \in Windows, NEW m \in Sayings, GivesValue(w, m)
    PROVE  CmdInv'
<1> DEFINE x == pending.awaiting
           value == IF m = Silence THEN Skipped ELSE m.word
<1>1. /\ PendFits(pending) /\ pending \in PendRow /\ x # "none" /\ ~pending.confirm
      /\ window[w].at = "idle" /\ (m = Silence => x \in Skippables)
    BY DEF CmdInv, CmdTyped, PendFits, GivesValue, Hears, Accepted
<1>2. pending.cmd # "none" /\ WellGiven(pending) /\ x \in DOMAIN NoArgs
  <2>1. pending.cmd # "none" /\ WellGiven(pending)
      BY <1>1 DEF PendFits
  <2> QED
      BY <1>1, <2>1 DEF PendRow
<1>3. CASE m = Silence \/ ValidFor(x, m.word)
  <2> DEFINE p == [pending EXCEPT !.args[x] = value, !.awaiting = "none"]
             args == [pending.args EXCEPT ![x] = value]
  <2>1. Proceeds(w, p, FALSE)
      BY <1>3 DEF GivesValue
  <2>2. value \in Words /\ Given(x, value)
      BY <1>1, <1>3, SayingShapes DEF Given, Words
  <2>3. args \in [DOMAIN NoArgs -> Words] /\ args[x] = value
        /\ \A y \in DOMAIN NoArgs \ {x} : args[y] = pending.args[y]
      BY <1>1, <1>2, <2>2 DEF PendRow
  <2>4. /\ p \in PendRow /\ p.cmd = pending.cmd /\ p.args = args /\ p.awaiting = "none"
        /\ p.confirm = pending.confirm
      BY <1>1, <2>3 DEF PendRow
  <2>5. WellGiven(p)
    <3> SUFFICES ASSUME NEW y \in Params(p.cmd) PROVE p.args[y] = Unset \/ Given(y, p.args[y])
        BY DEF WellGiven
    <3>1. y \in DOMAIN NoArgs
        BY <1>1, <1>2, <2>4, ParamFacts DEF PendRow
    <3> QED
        BY <1>2, <2>2, <2>3, <2>4, <3>1 DEF WellGiven
  <2> QED
      BY <1>1, <1>2, <2>1, <2>4, <2>5, ProceedsKeeps
<1>4. CASE ~(m = Silence \/ ValidFor(x, m.word))
  <2>1. /\ pending' = pending /\ keptOf' = pending' /\ Tells(w, Told("ask", pending))
        /\ cutOff' = FALSE
      BY <1>4 DEF GivesValue, PersistsSession
  <2>2. /\ Told("ask", pending) \in PromptRow /\ Told("ask", pending).kind = "ask"
        /\ Told("ask", pending).p = pending
      BY <1>1, CmdRows
  <2>3. ~Filled(pending)
      BY <1>1 DEF Filled
  <2> QED
      BY <1>1, <2>1, <2>2, <2>3, TellsKeeps
<1> QED
    BY <1>3, <1>4

\* A command that is named begins with what the message gives.
LEMMA NamedKeeps ==
    ASSUME CmdInv, NEW w \in Windows, NEW cmd \in CommandNames, NEW args \in [DOMAIN NoArgs -> Words],
           \A x \in Params(cmd) : args[x] = Unset \/ Given(x, args[x]), PendingWith(w, cmd, args)
    PROVE  CmdInv'
<1> DEFINE p == [NoneYet EXCEPT !.cmd = cmd, !.args = args]
<1>1. /\ p \in PendRow /\ p.cmd = cmd /\ p.args = args /\ p.awaiting = "none" /\ p.confirm = FALSE
    BY CmdRows DEF PendRow
<1>2. WellGiven(p) /\ p.cmd # "none"
    BY <1>1, ParamFacts DEF WellGiven
<1>3. Proceeds(w, p, FALSE)
    BY DEF PendingWith
<1> QED
    BY <1>1, <1>2, <1>3, ProceedsKeeps

LEMMA NextTypesCommand ==
    ASSUME CmdInv, NEW w \in Windows, NEW m \in Sayings, TypesCommand(w, m)
    PROVE  CmdInv'
<1>1. m.cmd \in CommandNames /\ m.rest \in Seq(Words)
    BY SayingShapes DEF TypesCommand
<1> DEFINE args == Inline(m.cmd, m.rest)
<1>2. ASSUME NEW x \in DOMAIN NoArgs
      PROVE  args[x] \in Words /\ (args[x] = Unset \/ Given(x, args[x]))
  <2> DEFINE params == ParamsOf[m.cmd]
             given == {i \in DOMAIN m.rest : i <= Len(params) /\ params[i] = x}
  <2>1. args[x] = IF \E i \in given : ValidFor(x, m.rest[i])
                  THEN m.rest[CHOOSE i \in given : TRUE] ELSE Unset
      BY DEF Inline
  <2>2. \A i, j \in given : i = j
    <3>1. m.cmd = "mark" \/ m.cmd = "show" \/ m.cmd = "help"
        BY <1>1, ParamFacts
    <3>2. given \subseteq 1..Len(params)
        BY <1>1
    <3>3. CASE m.cmd = "mark"
      <4>1. params = <<"id", "status", "replied">>
          BY <3>3 DEF ParamsOf
      <4>2. Len(params) = 3 /\ params[1] = "id" /\ params[2] = "status" /\ params[3] = "replied"
          BY <4>1
      <4>3. given \subseteq {1, 2, 3}
          BY <3>2, <4>2
      <4> QED
          BY <4>2, <4>3
    <3>4. CASE m.cmd = "show"
      <4>1. params = <<"target">>
          BY <3>4 DEF ParamsOf
      <4>2. Len(params) = 1
          BY <4>1
      <4> QED
          BY <3>2, <4>2
    <3>5. CASE m.cmd = "help"
      <4>1. params = <<>>
          BY <3>5 DEF ParamsOf
      <4>2. Len(params) = 0
          BY <4>1
      <4> QED
          BY <3>2, <4>2
    <3> QED
        BY <3>1, <3>3, <3>4, <3>5
  <2>3. CASE \E i \in given : ValidFor(x, m.rest[i])
    <3>1. PICK i \in given : ValidFor(x, m.rest[i])
        BY <2>3
    <3>2. PICK k : k = CHOOSE n \in given : TRUE
        OBVIOUS
    <3>3. k \in given
        BY <3>1, <3>2
    <3>4. k = i
        BY <2>2, <3>1, <3>3
    <3>5. args[x] = m.rest[i] /\ m.rest[i] \in Words
      <4>1. args[x] = m.rest[k]
          BY <2>1, <2>3, <3>2
      <4>2. i \in DOMAIN m.rest
          OBVIOUS
      <4>3. m.rest[i] \in Words
          BY <1>1, <4>2
      <4> QED
          BY <3>4, <4>1, <4>3
    <3> QED
        BY <3>1, <3>5 DEF Given
  <2>4. CASE ~(\E i \in given : ValidFor(x, m.rest[i]))
      BY <2>1, <2>4 DEF Words
  <2> QED
      BY <2>3, <2>4
<1>3. args \in [DOMAIN NoArgs -> Words]
  <2>1. args = [x \in DOMAIN NoArgs |-> args[x]]
      BY DEF Inline
  <2> QED
      BY <1>2, <2>1
<1>4. \A x \in Params(m.cmd) : args[x] = Unset \/ Given(x, args[x])
    BY <1>1, <1>2, ParamFacts
<1> QED
    BY <1>1, <1>3, <1>4, NamedKeeps DEF TypesCommand

LEMMA NextModelNames ==
    ASSUME CmdInv, NEW w \in Windows, NEW cmd \in CommandNames, NEW guess \in Guesses,
           ModelNames(w, cmd, guess)
    PROVE  CmdInv'
<1> DEFINE args == Guessed(cmd, guess)
<1>1. guess \in [DOMAIN NoArgs -> Words]
  <2>1. NoArgs \in [DOMAIN NoArgs -> Words] /\ "a" \in Words /\ "slash" \in Words
      BY ParamFacts DEF Words
  <2>2. guess = NoArgs \/ guess = [NoArgs EXCEPT !.id = "a", !.status = "slash"]
      BY DEF Guesses
  <2> QED
      BY <2>1, <2>2
<1>2. ASSUME NEW x \in DOMAIN NoArgs
      PROVE  args[x] \in Words /\ (args[x] = Unset \/ Given(x, args[x]))
  <2>1. args[x] = IF x \in ToSet(ParamsOf[cmd]) /\ ValidFor(x, guess[x]) /\ guess[x] # Unset
                  THEN guess[x] ELSE Unset
      BY DEF Guessed
  <2>2. guess[x] \in Words /\ Unset \in Words
      BY <1>1 DEF Words
  <2> QED
      BY <2>1, <2>2 DEF Given
<1>3. args \in [DOMAIN NoArgs -> Words]
  <2>1. args = [x \in DOMAIN NoArgs |-> args[x]]
      BY DEF Guessed
  <2> QED
      BY <1>2, <2>1
<1>4. \A x \in Params(cmd) : args[x] = Unset \/ Given(x, args[x])
    BY <1>2, ParamFacts
<1> QED
    BY <1>3, <1>4, NamedKeeps DEF ModelNames

LEMMA NextAsksModel ==
    ASSUME CmdInv, NEW w \in Windows, NEW m \in Sayings, AsksModel(w, m)
    PROVE  CmdInv'
<1>1. /\ window \in [Windows -> WinRow] /\ window[w].at = "idle" /\ pending = NoneYet
      /\ UNCHANGED <<pending, keptOf, prompt, cutOff>>
    BY DEF CmdInv, CmdTyped, PendFits, AsksModel, Hears
<1> DEFINE r == [window[w] EXCEPT !.at = "routing"]
<1>2. r \in WinRow /\ r.at = "routing" /\ r.gone = window[w].gone
    BY <1>1 DEF WinRow
<1>3. window' = [window EXCEPT ![w] = r]
    BY <1>1 DEF AsksModel
<1>4. window'[w] = r /\ \A v \in Windows \ {w} : window'[v] = window[v]
    BY <1>1, <1>3
<1>5. CmdTyped'
    BY <1>1, <1>2, <1>3 DEF CmdInv, CmdTyped
<1>6. ~window[w].gone
    BY <1>1 DEF CmdInv, WindowFits
<1>7. ASSUME NEW v \in Windows
      PROVE  /\ WindowFits(v)' /\ (IsExecuting(v)' <=> IsExecuting(v))
             /\ (IsExecuting(v) => window'[v] = window[v]) /\ (Agrees(v) => Agrees(v)')
  <2>1. WindowFits(v)
      BY DEF CmdInv
  <2>2. CASE v = w
      BY <1>1, <1>2, <1>4, <1>6, <2>2 DEF WindowFits, IsExecuting, Agrees
  <2>3. CASE v # w
      BY <1>1, <1>4, <2>1, <2>3 DEF WindowFits, IsExecuting, Agrees
  <2> QED
      BY <2>2, <2>3
<1>8. CmdSettled'
    BY <1>1, <1>7 DEF CmdInv, CmdSettled, Busy
<1> QED
    BY <1>5, <1>7, <1>8 DEF CmdInv

\* w is told nothing of the session, which stays; before, it was heard or gone.
LEMMA UnknowingKeeps ==
    ASSUME CmdInv, NEW w \in Windows, Unknowing(w), pending' = pending, keptOf' = pending',
           window[w].at = "routing" \/ window[w].gone
    PROVE  CmdInv'
<1>1. window \in [Windows -> WinRow] /\ prompt \in [Windows -> PromptRow] /\ PendFits(pending)
      /\ UNCHANGED cutOff
    BY DEF CmdInv, CmdTyped, Unknowing
<1> DEFINE t == IF prompt[w] = Stale THEN Stale ELSE Unsure
<1>2. /\ window' = [window EXCEPT ![w] = Idling] /\ prompt' = [prompt EXCEPT ![w] = t]
    BY <1>1 DEF Unknowing
<1>3. /\ window'[w] = Idling /\ prompt'[w] = t
      /\ \A v \in Windows \ {w} : window'[v] = window[v] /\ prompt'[v] = prompt[v]
    BY <1>1, <1>2
<1>4. t \in PromptRow /\ Stale.kind = "stale" /\ Unsure.kind = "unsure"
    BY CmdRows
<1>5. CmdTyped'
  <2>1. window' \in [Windows -> WinRow] /\ prompt' \in [Windows -> PromptRow]
      BY <1>1, <1>2, <1>4, CmdRows
  <2> QED
      BY <1>1, <2>1 DEF CmdInv, CmdTyped
<1>6. ASSUME NEW v \in Windows PROVE WindowFits(v)' /\ (Agrees(v) /\ v # w => Agrees(v)')
  <2>1. WindowFits(v)
      BY DEF CmdInv
  <2> QED
      BY <1>3, <2>1, CmdRows DEF WindowFits, Agrees, IsExecuting
<1>7. CmdSettled'
  <2> SUFFICES ASSUME ~cutOff
               PROVE  /\ ~Busy' => keptOf' = pending' /\ ~Filled(pending')
                      /\ \A v \in Windows : ~IsExecuting(v)' => Agrees(v)'
      BY <1>1 DEF CmdSettled
  <2>1. Busy' <=> Busy
    <3>1. ~(IsExecuting(w) /\ ~window[w].gone) /\ ~IsExecuting(w)'
        BY <1>3, CmdRows DEF IsExecuting
    <3>2. \A v \in Windows \ {w} : (IsExecuting(v)' <=> IsExecuting(v)) /\ window'[v].gone = window[v].gone
        BY <1>3 DEF IsExecuting
    <3> QED
        BY <3>1, <3>2 DEF Busy
  <2>2. Agrees(w)'
    <3>1. prompt[w] = Stale \/ pending = NoneYet
      <4>1. CASE window[w].at = "routing"
          BY <4>1 DEF CmdInv, CmdSettled, Agrees, IsExecuting
      <4>2. CASE window[w].gone
          BY <4>2 DEF CmdInv, WindowFits
      <4> QED
          BY <4>1, <4>2
    <3> QED
        BY <1>3, <1>4, <3>1, CmdRows DEF Agrees
  <2>3. \A v \in Windows \ {w} : IsExecuting(v)' <=> IsExecuting(v)
      BY <1>3 DEF IsExecuting
  <2> QED
      BY <1>6, <2>1, <2>2, <2>3 DEF CmdInv, CmdSettled
<1> QED
    BY <1>5, <1>6, <1>7 DEF CmdInv

LEMMA NextExecuted ==
    ASSUME CmdInv, NEW w \in Windows, Executed(w)
    PROVE  CmdInv'
<1>1. CASE window[w].gone
    BY <1>1, UnknowingKeeps DEF Executed, AfterRun, PersistsSession
<1>2. CASE ~window[w].gone
  <2>1. /\ pending' = NoneYet /\ keptOf' = pending' /\ Tells(w, NothingWaits) /\ cutOff' = FALSE
      BY <1>2 DEF Executed, AfterRun, PersistsSession
  <2>2. /\ NothingWaits \in PromptRow /\ NothingWaits.kind = "nothing" /\ PendFits(NoneYet)
        /\ ~Filled(NoneYet)
      BY CmdRows
  <2> QED
      BY <2>1, <2>2, TellsKeeps
<1> QED
    BY <1>1, <1>2

LEMMA NextRaises ==
    ASSUME CmdInv, NEW w \in Windows, ExecutionRaises(w)
    PROVE  CmdInv'
<1>1. /\ window \in [Windows -> WinRow] /\ prompt \in [Windows -> PromptRow]
      /\ cutOff' = TRUE /\ UNCHANGED <<pending, keptOf>>
    BY DEF CmdInv, CmdTyped, ExecutionRaises
<1>2. PICK t \in PromptRow :
         /\ window' = [window EXCEPT ![w] = Idling] /\ prompt' = [prompt EXCEPT ![w] = t]
         /\ prompt[w] = Stale => t = Stale
  <2>1. Stale \in PromptRow /\ Unsure \in PromptRow
      BY CmdRows
  <2> QED
      BY <1>1, <2>1 DEF ExecutionRaises
<1>3. CmdTyped'
    BY <1>1, <1>2, CmdRows DEF CmdInv, CmdTyped
<1>4. ASSUME NEW v \in Windows PROVE WindowFits(v)'
  <2>1. WindowFits(v)
      BY DEF CmdInv
  <2>2. v = w => window'[v] = Idling
      BY <1>1, <1>2
  <2>3. v # w => window'[v] = window[v] /\ prompt'[v] = prompt[v]
      BY <1>1, <1>2
  <2> QED
      BY <2>1, <2>2, <2>3, CmdRows DEF WindowFits, IsExecuting
<1> QED
    BY <1>1, <1>3, <1>4 DEF CmdInv, CmdSettled

LEMMA NextReset ==
    ASSUME CmdInv, NEW w \in Windows, ChatReset(w)
    PROVE  CmdInv'
<1>1. /\ window \in [Windows -> WinRow] /\ window[w].at = "idle"
      /\ pending' = NoneYet /\ keptOf' = NoneYet /\ cutOff' = FALSE
    BY DEF CmdInv, CmdTyped, ChatReset, PersistsSession
<1>2. /\ NothingWaits \in PromptRow /\ NothingWaits.kind = "nothing"
      /\ Stale \in PromptRow /\ Stale.kind = "stale"
    BY CmdRows
<1>3. ASSUME NEW v \in Windows
      PROVE  /\ prompt'[v] = IF v = w THEN NothingWaits ELSE Stale
             /\ window'[v] \in WinRow
             /\ window'[v].at = window[v].at /\ window'[v].cmd = window[v].cmd
             /\ window'[v].args = window[v].args /\ window'[v].agreed = window[v].agreed
             /\ window'[v].crossed = window[v].crossed /\ window'[v].left = window[v].left
             /\ window'[v].gone => v # w
  <2>1. window'[v] = IF window[v].at = "idle" THEN window[v] ELSE [window[v] EXCEPT !.gone = TRUE]
      BY DEF ChatReset
  <2>2. window[v] \in WinRow /\ WindowFits(v)
      BY <1>1 DEF CmdInv
  <2>3. prompt'[v] = IF v = w THEN NothingWaits ELSE Stale
      BY DEF ChatReset
  <2> QED
      BY <1>1, <2>1, <2>2, <2>3 DEF WinRow, WindowFits
<1>4. CmdTyped'
  <2>1. window' \in [Windows -> WinRow]
    <3>1. window' = [v \in Windows |-> window'[v]]
        BY DEF ChatReset
    <3> QED
        BY <1>3, <3>1
  <2>2. prompt' \in [Windows -> PromptRow]
      BY <1>2 DEF ChatReset
  <2> QED
      BY <1>1, <2>1, <2>2, CmdRows DEF CmdTyped
<1>5. ASSUME NEW v \in Windows PROVE WindowFits(v)' /\ Agrees(v)'
  <2>1. WindowFits(v)
      BY DEF CmdInv
  <2>2. WindowFits(v)'
    <3>1. window'[v].gone => window[v].at # "idle"
        BY <2>1 DEF ChatReset, WindowFits
    <3> QED
        BY <1>3, <2>1, <3>1 DEF WindowFits, IsExecuting
  <2> QED
      BY <1>1, <1>2, <1>3, <2>2 DEF Agrees
<1>6. CmdSettled'
    BY <1>1, <1>5, CmdRows DEF CmdSettled
<1> QED
    BY <1>4, <1>5, <1>6 DEF CmdInv

LEMMA NextRehydrates == CmdInv /\ Rehydrates => CmdInv'
<1> SUFFICES ASSUME CmdInv, Rehydrates PROVE CmdInv'
    OBVIOUS
<1>1. /\ pending' = keptOf /\ keptOf' = keptOf /\ prompt' = prompt
      /\ window' = [v \in Windows |-> Idling] /\ cutOff' \in BOOLEAN
      /\ ~cutOff' => ~cutOff /\ \A v \in Windows : ~IsExecuting(v)
  <2>1. (cutOff \/ \E v \in Windows : IsExecuting(v)) \in BOOLEAN
      BY DEF CmdInv, CmdTyped
  <2> QED
      BY <2>1 DEF Rehydrates
<1>2. CmdTyped'
    BY <1>1, CmdRows DEF CmdInv, CmdTyped
<1>3. \A v \in Windows : WindowFits(v)' /\ window'[v].at = "idle"
    BY <1>1, CmdRows DEF WindowFits, IsExecuting
<1>4. CmdSettled'
  <2> SUFFICES ASSUME ~cutOff'
               PROVE  /\ keptOf' = pending' /\ ~Filled(pending')
                      /\ \A v \in Windows : Agrees(v)'
      BY DEF CmdSettled
  <2>1. keptOf = pending /\ ~Filled(pending) /\ \A v \in Windows : Agrees(v)
      BY <1>1 DEF CmdInv, CmdSettled, Busy
  <2> QED
      BY <1>1, <1>3, <2>1 DEF Agrees
<1> QED
    BY <1>2, <1>3, <1>4 DEF CmdInv

LEMMA NextCommands == CmdInv /\ [CmdNext]_cmdVars => CmdInv'
<1> SUFFICES ASSUME CmdInv, [CmdNext]_cmdVars PROVE CmdInv'
    OBVIOUS
<1>1. CASE CmdNext
  <2>1. ASSUME NEW w \in Windows,
               \/ SaysYes(w) \/ SaysNo(w) \/ ModelShrugs(w)
               \/ Executed(w) \/ ExecutionRaises(w) \/ ChatReset(w)
        PROVE  CmdInv'
    <3>1. ModelShrugs(w) => CmdInv'
        BY UnknowingKeeps DEF ModelShrugs, PersistsSession
    <3> QED
        BY <2>1, <3>1, NextSaysYes, NextSaysNo, NextExecuted, NextRaises, NextReset
  <2>2. ASSUME NEW w \in Windows, NEW m \in Sayings,
               \/ Neither(w, m) \/ GivesValue(w, m) \/ LeftOver(w, m)
               \/ TypesCommand(w, m) \/ AsksModel(w, m)
        PROVE  CmdInv'
      BY <2>2, NextNeither, NextGivesValue, NextTypesCommand, NextAsksModel
  <2>3. ASSUME NEW w \in Windows, NEW cmd \in CommandNames, NEW guess \in Guesses,
               ModelNames(w, cmd, guess)
        PROVE  CmdInv'
      BY <2>3, NextModelNames
  <2> QED
      BY <1>1, <2>1, <2>2, <2>3, NextRehydrates DEF CmdNext
<1>2. CASE UNCHANGED cmdVars
  <2>1. UNCHANGED <<pending, keptOf, window, prompt, cutOff>>
      BY <1>2 DEF cmdVars
  <2>2. CmdTyped'
      BY <2>1 DEF CmdInv, CmdTyped
  <2>3. \A w \in Windows : WindowFits(w)' /\ (Agrees(w)' <=> Agrees(w))
      BY <2>1 DEF CmdInv, WindowFits, Agrees, IsExecuting
  <2>4. CmdSettled'
      BY <2>1, <2>3 DEF CmdInv, CmdSettled, Busy, IsExecuting
  <2> QED
      BY <2>2, <2>3, <2>4 DEF CmdInv
<1> QED
    BY <1>1, <1>2
-----------------------------------------------------------------------------
(* All services together *)

\* Whatever the services do, each of them makes a step of its own or none.
LEMMA StepOfOne ==
    ASSUME [Next]_<<focus, altVars, altRest>>
    PROVE  /\ [AltNext]_altVars /\ [SrNext]_srVars /\ [StNext]_stVars /\ [MigNext]_migVars
           /\ [RtNext]_rtVars /\ [StrNext]_strVars /\ [BldNext]_bldVars /\ [CmdNext]_cmdVars
           /\ [CrwNext]_crwVars /\ [DscNext]_dscVars /\ [AppNext]_appVars
<1>1. CASE On("alerts", AltNext, altRest)
    BY <1>1 DEF On, altRest
<1>2. CASE On("discoveries", DscNext, dscRest)
    BY <1>2 DEF On, dscRest
<1>3. CASE On("application", AppNext, appRest)
    BY <1>3 DEF On, appRest
<1>4. CASE On("routing", RtNext, rtRest)
    BY <1>4 DEF On, rtRest
<1>5. CASE On("search", SrNext, srRest)
    BY <1>5 DEF On, srRest
<1>6. CASE On("stores", StNext, stRest)
    BY <1>6 DEF On, stRest
<1>7. CASE On("streams", StrNext, strRest)
    BY <1>7 DEF On, strRest
<1>8. CASE On("builder", BldNext, bldRest)
    BY <1>8 DEF On, bldRest
<1>9. CASE On("crawl", CrwNext, crwRest)
    BY <1>9 DEF On, crwRest
<1>10. CASE On("commands", CmdNext, cmdRest)
    BY <1>10 DEF On, cmdRest
<1>11. CASE On("migrations", MigNext, migRest)
    BY <1>11 DEF On, migRest
<1>12. CASE UNCHANGED <<focus, altVars, altRest>>
    BY <1>12 DEF altRest
<1> QED
    BY <1>1, <1>2, <1>3, <1>4, <1>5, <1>6, <1>7, <1>8, <1>9, <1>10, <1>11, <1>12 DEF Next

\* Everybody is told of a match once, by the way they chose and while they want
\* it, whichever processes poll at once (app.py 2680-3040,
\* saved_search_alerts.py, push_transport.py).
THEOREM MatchesToldRightly == Spec => []AlertsHold
<1>1. Init => AltInv
    BY InitAlerts DEF Init
<1>2. AltInv /\ [Next]_<<focus, altVars, altRest>> => AltInv'
    BY StepOfOne, NextAlerts
<1>3. AltInv => AlertsHold
    BY AlertsKeep
<1> QED
    BY <1>1, <1>2, <1>3, PTL DEF Spec

\* The tables have what memory has but for the rows others wrote or a write that
\* failed, nothing of an erased account stays, and a schema is never left
\* between two of its versions (repository.py, sqlite_repository.py,
\* postgres_repository.py, migrations.py 150-290).
THEOREM FilesKept == Spec => []FilesHold
<1>1. Init => StInv /\ MigInv
    BY InitStores, InitMigrations DEF Init
<1>2. StInv /\ MigInv /\ [Next]_<<focus, altVars, altRest>> => StInv' /\ MigInv'
    BY StepOfOne, NextStores, NextMigrations
<1>3. StInv /\ MigInv => FilesHold
    BY StoresKeep, MigrationsKeep DEF FilesHold
<1> QED
    BY <1>1, <1>2, <1>3, PTL DEF Spec

\* A search answers for every board once and gives only ads that suit it and
\* were online an hour ago, whoever searched for what before; the diagnosis
\* counts none withdrawn longer than the index keeps its rows (aggregators.py
\* 589-1150, diagnostic_engine.py).
THEOREM SearchesServed == Spec => []SearchHolds
<1>1. Init => SrInv
    BY InitSearch DEF Init
<1>2. SrInv /\ [Next]_<<focus, altVars, altRest>> => SrInv'
    BY StepOfOne, NextSearch
<1>3. SrInv => SearchHolds
    BY SearchKeep
<1> QED
    BY <1>1, <1>2, <1>3, PTL DEF Spec

ChatWorkInv == RtInv /\ CmdInv /\ StreamsInv /\ BuilderInv

\* A message goes to the command it names, the command runs with what the user
\* gave it and only once they said yes, its work is on the books however the
\* stream ends, and a CV built in answers keeps every one of them (app.py
\* 4723-4890, 10398-10493, 10998-11160; analysis.py 759-975, 1237-1418).
THEOREM ChatWorkKept == Spec => []ChatWorkHolds
<1>1. Init => ChatWorkInv
    BY InitRouting, InitCommands, InitStreams, InitBuilder DEF Init, ChatWorkInv
<1>2. ChatWorkInv /\ [Next]_<<focus, altVars, altRest>> => ChatWorkInv'
    BY StepOfOne, NextRouting, NextCommands, NextStreams, NextBuilder DEF ChatWorkInv
<1>3. ChatWorkInv => ChatWorkHolds
  <2>1. RtInv => CommandFits
      BY DEF RtInv
  <2> QED
      BY <2>1, CommandsKeep, StreamsKeep, BuilderKeep DEF ChatWorkInv, ChatWorkHolds
<1> QED
    BY <1>1, <1>2, <1>3, PTL DEF Spec

JobsInv == CrwInv /\ DscInv /\ AppInv

\* A robots.txt means what it says by the book whatever the order of its lines,
\* a scan obeys it and keeps what it was shown; a job found again is the same
\* row, and has one application; what is shown of an application is what is
\* saved (service.py 293-1134, app.py 6860-6990).
THEOREM JobsKept == Spec => []JobsHold
<1>1. Init => JobsInv
    BY InitCrawl, InitDiscoveries, InitApplications DEF Init, JobsInv
<1>2. JobsInv /\ [Next]_<<focus, altVars, altRest>> => JobsInv'
    BY StepOfOne, NextCrawl, NextDiscoveries, NextApplications DEF JobsInv
<1>3. JobsInv => JobsHold
    BY CrawlKeeps, DiscoveriesKeep, ApplicationsKeep DEF JobsInv, JobsHold
<1> QED
    BY <1>1, <1>2, <1>3, PTL DEF Spec
-----------------------------------------------------------------------------
(* The types of what the services keep *)

AltBounds == imported \subseteq ToSet(found) /\ Len(pinged) <= SlackKept

LEMMA NextAltBounds ==
    ASSUME AltInv, AltBounds, [AltNext]_altVars
    PROVE  AltBounds'
<1>0. found \in Seq(Jobs) /\ pinged \in Seq(Jobs) /\ sender \in [Senders -> Sending]
    BY DEF AltInv, AltTyped
<1>1. ASSUME NEW j \in Jobs, Discover(j) PROVE AltBounds'
  <2>1. found' = Append(found, j) /\ UNCHANGED <<imported, pinged>>
      BY <1>1 DEF Discover
  <2>2. ToSet(found) \subseteq ToSet(found')
      BY <1>0, <2>1 DEF ToSet
  <2> QED
      BY <2>1, <2>2 DEF AltBounds
<1>2. ASSUME NEW j \in Jobs, Import(j) PROVE AltBounds'
    BY <1>2 DEF Import, AltBounds
<1>3. ASSUME NEW s \in Senders, EndPing(s) PROVE AltBounds'
  <2>1. UNCHANGED <<found, imported>>
      BY <1>3 DEF EndPing
  <2>2. CASE pinged' = Remembered(sender[s].seen, sender[s].job)
    <3>1. sender[s].seen \in Seq(Jobs) /\ sender[s].job \in Jobs
        BY <1>0, <1>3, SenderShape DEF EndPing
    <3>a. Append(sender[s].seen, sender[s].job) \in Seq(Jobs)
        BY <3>1
    <3>2. PICK all \in Seq(Jobs) : all = Append(sender[s].seen, sender[s].job)
        BY <3>a
    <3>3. PICK n \in Nat : n = Len(all)
        BY <3>2
    <3>4. pinged' = SubSeq(all, IF n > SlackKept THEN n - SlackKept + 1 ELSE 1, n)
        BY <2>2, <3>2, <3>3 DEF Remembered
    <3>5. Len(pinged') <= SlackKept
      <4>1. CASE n > SlackKept
        <5>1. PICK m \in Nat : m = n - SlackKept + 1 /\ m \in 1..n
            BY <4>1, AlertsAssumption
        <5>2. pinged' = SubSeq(all, m, n)
            BY <3>4, <4>1, <5>1
        <5>3. Len(pinged') = n - m + 1
            BY <3>2, <3>3, <5>1, <5>2
        <5> QED
            BY <5>1, <5>3, AlertsAssumption
      <4>2. CASE ~ (n > SlackKept)
        <5>1. pinged' = SubSeq(all, 1, n)
            BY <3>4, <4>2
        <5>2. Len(pinged') = n
            BY <3>2, <3>3, <5>1
        <5> QED
            BY <4>2, <5>2, AlertsAssumption
      <4> QED
          BY <4>1, <4>2
    <3> QED
        BY <2>1, <3>5 DEF AltBounds
  <2>3. CASE UNCHANGED pinged
      BY <2>1, <2>3 DEF AltBounds
  <2> QED
      BY <1>3, <2>2, <2>3 DEF EndPing
<1>4. CASE UNCHANGED <<found, imported, pinged>>
    BY <1>4 DEF AltBounds
<1> QED
    BY <1>1, <1>2, <1>3, <1>4 DEF AltNext, Subscribe, BeginPush, PushUnavailable, EndPush,
                                  PushOne, BeginPing, AltRestart, altVars

LEMMA AlertsTyped == AltInv /\ AltBounds => AltTypeOK
<1> SUFFICES ASSUME AltInv, AltBounds PROVE AltTypeOK
    OBVIOUS
<1>1. found \in Seq(Jobs) /\ \A i, k \in DOMAIN found : found[i] = found[k] => i = k
    BY DEF AltInv, AltTyped, FoundOnce
<1>2. Len(found) = Cardinality(ToSet(found))
    BY <1>1, CountOfInjective
<1>3. mark \in 0..Len(found)
    BY DEF AltInv, AltTyped
<1> QED
    BY <1>1, <1>2, <1>3 DEF AltInv, AltTyped, AltBounds, AltTypeOK

\* As long as no reply was kept, no command came of one.
NoReplyYet ==
    /\ \A m \in Messages : routeCache[m] \in {Nothing, NoCommand}
    /\ \A a \in Askers : /\ asker[a].at # "stash"
                         /\ asker[a].at = "args" => asker[a].command = NoCommand
RtBounds == RtTypeOK /\ (lastRaw \in Messages \/ NoReplyYet)

LEMMA AskerDoings ==
    /\ NotAsking \in Doings
    /\ \A m \in Messages : /\ [at |-> "look", of |-> m] \in Doings
                           /\ [at |-> "ask", of |-> m] \in Doings
                           /\ [at |-> "stash", of |-> m] \in Doings
                           /\ \A c \in Entries : [at |-> "args", of |-> m, command |-> c] \in Doings
BY DEF Doings

\* What one request does, when it puts no command in the cache.
LEMMA AskerMoves ==
    ASSUME RtBounds, NEW a \in Askers, NEW r \in Doings, asker' = [asker EXCEPT ![a] = r],
           routeCache' \in [Messages -> Entries],
           \A m \in Messages : routeCache'[m] \in {routeCache[m], NoCommand},
           lastRaw' = lastRaw, routed' \in [Askers -> 0..RouteLimit],
           \A b \in Askers : delivered'[b] \in {<<>>} \cup (Messages \X Messages \X Messages),
           lastRaw \in Messages \/ (r.at # "stash" /\ (r.at = "args" => r.command = NoCommand))
    PROVE  RtBounds'
<1>1. asker \in [Askers -> Doings] /\ lastRaw \in Messages \cup {NoMessage}
    BY DEF RtBounds, RtTypeOK
<1>2. asker' \in [Askers -> Doings] /\ \A b \in Askers : asker'[b] = r \/ asker'[b] = asker[b]
    BY <1>1
<1>3. RtTypeOK'
    BY <1>1, <1>2 DEF RtTypeOK
<1>4. CASE lastRaw \in Messages
    BY <1>3, <1>4 DEF RtBounds
<1>5. CASE lastRaw \notin Messages
  <2>1. NoReplyYet
      BY <1>5 DEF RtBounds
  <2>2. NoReplyYet'
    <3>1. ASSUME NEW b \in Askers
          PROVE  asker'[b].at # "stash" /\ (asker'[b].at = "args" => asker'[b].command = NoCommand)
      <4>1. CASE asker'[b] = r
          BY <1>5, <4>1
      <4>2. CASE asker'[b] = asker[b]
          BY <2>1, <4>2 DEF NoReplyYet
      <4> QED
          BY <1>2, <4>1, <4>2
    <3>2. \A m \in Messages : routeCache'[m] \in {Nothing, NoCommand}
        BY <2>1 DEF NoReplyYet
    <3> QED
        BY <3>1, <3>2 DEF NoReplyYet
  <2> QED
      BY <1>3, <2>2 DEF RtBounds
<1> QED
    BY <1>4, <1>5

LEMMA InitRtBounds == RtInit => RtBounds
<1> SUFFICES ASSUME RtInit PROVE RtBounds
    OBVIOUS
<1>1. /\ NotAsking \in Doings /\ NotAsking.at = "idle" /\ Nothing \in Entries
      /\ 0 \in 0..RouteLimit
    BY AskerDoings, RoutingShapes, RoutingAssumption
<1>2. RtTypeOK
    BY <1>1 DEF RtInit, RtTypeOK
<1>3. NoReplyYet
    BY <1>1 DEF RtInit, NoReplyYet
<1> QED
    BY <1>2, <1>3 DEF RtBounds

LEMMA NextRtBounds ==
    ASSUME RtInv, RtBounds, [RtNext]_rtVars
    PROVE  RtBounds'
<1>0. /\ routeCache \in [Messages -> Entries] /\ lastRaw \in Messages \cup {NoMessage}
      /\ asker \in [Askers -> Doings] /\ routed \in [Askers -> 0..RouteLimit]
      /\ \A a \in Askers : delivered[a] \in {<<>>} \cup (Messages \X Messages \X Messages)
      /\ lastRaw \in Messages \/ NoReplyYet
    BY DEF RtBounds, RtTypeOK
<1>d. /\ NotAsking \in Doings /\ NotAsking.at = "idle" /\ NoCommand \in Entries
      /\ UNCHANGED delivered =>
           \A b \in Askers : delivered'[b] \in {<<>>} \cup (Messages \X Messages \X Messages)
    BY <1>0, AskerDoings, RoutingShapes
<1>1. ASSUME NEW a \in Askers, NEW m \in Messages, RouteMessage(a, m) PROVE RtBounds'
  <2>1. PICK r \in Doings : r = [at |-> "look", of |-> m] /\ r.at = "look"
      BY AskerDoings
  <2> QED
      BY <1>0, <1>d, <1>1, <2>1, AskerMoves DEF RouteMessage, Does
<1>2. ASSUME NEW a \in Askers, Look(a) PROVE RtBounds'
  <2>1. PICK m \in Messages : m = asker[a].of
      BY <1>2 DEF Look, RtInv
  <2>2. CASE Kept(m) # Nothing /\ Does(a, [at |-> "args", of |-> m, command |-> Kept(m)])
             /\ UNCHANGED <<routeCache, routed, lastRaw, delivered>>
    <3>1. Kept(m) \in Entries /\ (lastRaw \in Messages \/ Kept(m) = NoCommand)
        BY <1>0, <2>2 DEF Kept, Key, NoReplyYet
    <3>2. PICK r \in Doings : r = [at |-> "args", of |-> m, command |-> Kept(m)]
                              /\ r.at = "args" /\ r.command = Kept(m)
        BY <3>1, AskerDoings
    <3> QED
        BY <1>0, <1>d, <2>2, <3>1, <3>2, AskerMoves DEF Does
  <2>3. CASE Keep(m, NoCommand) /\ Does(a, NotAsking) /\ UNCHANGED <<routed, lastRaw, delivered>>
    <3>1. routeCache' = [routeCache EXCEPT ![m] = NoCommand]
        BY <2>3 DEF Keep, Key
    <3>2. /\ routeCache' \in [Messages -> Entries]
          /\ \A n \in Messages : routeCache'[n] \in {routeCache[n], NoCommand}
        BY <1>0, <1>d, <3>1
    <3> QED
        BY <1>0, <1>d, <2>3, <3>2, AskerMoves DEF Does
  <2>4. CASE Does(a, NotAsking) /\ UNCHANGED <<routeCache, routed, lastRaw, delivered>>
      BY <1>0, <1>d, <2>4, AskerMoves DEF Does
  <2>5. CASE /\ ~ (routed[a] >= RouteLimit) /\ routed' = [routed EXCEPT ![a] = @ + 1]
             /\ Does(a, [at |-> "ask", of |-> m]) /\ UNCHANGED <<routeCache, lastRaw, delivered>>
    <3>1. PICK r \in Doings : r = [at |-> "ask", of |-> m] /\ r.at = "ask"
        BY AskerDoings
    <3>2. routed[a] + 1 \in 0..RouteLimit
        BY <1>0, <2>5, RoutingAssumption
    <3>3. routed' \in [Askers -> 0..RouteLimit]
        BY <1>0, <2>5, <3>2
    <3> QED
        BY <1>0, <1>d, <2>5, <3>1, <3>3, AskerMoves DEF Does
  <2> QED
      BY <1>2, <2>1, <2>2, <2>3, <2>4, <2>5 DEF Look
<1>3. ASSUME NEW a \in Askers, AskFails(a) PROVE RtBounds'
  <2>1. PICK m \in Messages : m = asker[a].of
      BY <1>3 DEF AskFails, RtInv
  <2>2. routeCache' = [routeCache EXCEPT ![m] = NoCommand]
      BY <1>3, <2>1 DEF AskFails, Keep, Key
  <2>3. /\ routeCache' \in [Messages -> Entries]
        /\ \A n \in Messages : routeCache'[n] \in {routeCache[n], NoCommand}
      BY <1>0, <1>d, <2>2
  <2> QED
      BY <1>0, <1>d, <1>3, <2>3, AskerMoves DEF AskFails, Does
<1>4. ASSUME NEW a \in Askers, AskAnswers(a) PROVE RtBounds'
  <2>1. PICK m \in Messages : m = asker[a].of
      BY <1>4 DEF AskAnswers, RtInv
  <2>2. PICK r \in Doings : r = [at |-> "stash", of |-> m]
      BY AskerDoings
  <2>3. asker' = [asker EXCEPT ![a] = r] /\ lastRaw' = m /\ UNCHANGED <<routeCache, routed, delivered>>
      BY <1>4, <2>1, <2>2 DEF AskAnswers, Does
  <2>4. asker' \in [Askers -> Doings]
      BY <1>0, <2>3
  <2> QED
      BY <1>0, <1>d, <2>3, <2>4 DEF RtBounds, RtTypeOK
<1>5. ASSUME NEW a \in Askers, Stash(a) PROVE RtBounds'
  <2>1. PICK m \in Messages : m = asker[a].of
      BY <1>5 DEF Stash, RtInv
  <2>2. lastRaw \in Messages
      BY <1>0, <1>5 DEF Stash, NoReplyYet
  <2>3. PICK c \in Entries : c = Command(m)
      BY RoutingShapes
  <2>4. PICK r \in Doings : r = [at |-> "args", of |-> m, command |-> c]
      BY AskerDoings
  <2>5. /\ asker' = [asker EXCEPT ![a] = r] /\ routeCache' = [routeCache EXCEPT ![m] = c]
        /\ UNCHANGED <<lastRaw, routed, delivered>>
      BY <1>5, <2>1, <2>3, <2>4 DEF Stash, Does, Keep, Key
  <2>6. asker' \in [Askers -> Doings] /\ routeCache' \in [Messages -> Entries]
      BY <1>0, <2>5
  <2> QED
      BY <1>0, <1>d, <2>2, <2>5, <2>6 DEF RtBounds, RtTypeOK
<1>6. ASSUME NEW a \in Askers, ReadArgs(a) PROVE RtBounds'
  <2>1. PICK m \in Messages : m = asker[a].of /\ asker[a].command \in Fitting(m)
      BY <1>6 DEF ReadArgs, RtInv
  <2>2. PICK c : c = asker[a].command
      OBVIOUS
  <2>3. c = NoCommand \/ (c # NoCommand /\ c.of = m /\ lastRaw \in Messages)
    <3>1. c # NoCommand => c.of = m
        BY <2>1, <2>2, RoutingShapes DEF Fitting
    <3> QED
        BY <1>0, <1>6, <2>2, <3>1 DEF ReadArgs, NoReplyYet
  <2>4. CASE c = NoCommand
    <3>1. UNCHANGED delivered
        BY <1>6, <2>2, <2>4 DEF ReadArgs
    <3> QED
        BY <1>0, <1>d, <1>6, <3>1, AskerMoves DEF ReadArgs, Does
  <2>5. CASE c # NoCommand
    <3>1. delivered' = [delivered EXCEPT ![a] = <<m, m, lastRaw>>]
        BY <1>6, <2>1, <2>2, <2>3, <2>5 DEF ReadArgs, Arguments
    <3>2. <<m, m, lastRaw>> \in Messages \X Messages \X Messages
        BY <2>3, <2>5
    <3>3. DOMAIN delivered = Askers
        BY DEF RtInv
    <3>4. \A b \in Askers : delivered'[b] \in {<<>>} \cup (Messages \X Messages \X Messages)
        BY <1>0, <3>1, <3>2, <3>3
    <3> QED
        BY <1>0, <1>d, <1>6, <3>4, AskerMoves DEF ReadArgs, Does
  <2> QED
      BY <2>4, <2>5
<1>7. ASSUME NEW m \in Messages, CacheForgets(m) PROVE RtBounds'
  <2>1. /\ routeCache' \in [Messages -> Entries] /\ UNCHANGED <<lastRaw, asker, routed, delivered>>
        /\ \A n \in Messages : routeCache'[n] \in {routeCache[n], Nothing}
      BY <1>0, <1>7, RoutingShapes DEF CacheForgets
  <2>2. NoReplyYet => NoReplyYet'
      BY <2>1 DEF NoReplyYet
  <2> QED
      BY <1>0, <2>1, <2>2 DEF RtBounds, RtTypeOK
<1>8. ASSUME MinutePasses PROVE RtBounds'
  <2>1. 0 \in 0..RouteLimit
      BY RoutingAssumption
  <2>2. routed' \in [Askers -> 0..RouteLimit] /\ UNCHANGED <<routeCache, lastRaw, asker, delivered>>
      BY <1>8, <2>1 DEF MinutePasses
  <2> QED
      BY <1>0, <2>2 DEF RtBounds, RtTypeOK, NoReplyYet
<1>9. ASSUME UNCHANGED rtVars PROVE RtBounds'
    BY <1>0, <1>9 DEF RtBounds, RtTypeOK, NoReplyYet, rtVars
<1> QED
    BY <1>1, <1>2, <1>3, <1>4, <1>5, <1>6, <1>7, <1>8, <1>9 DEF RtNext


\* Ages and the times an ad is gone are counted no further than they matter.
SrBounds ==
    /\ \A a \in Ads : offline[a] <= LongAgo + 1
    /\ \A b \in boards, w \in Wheres : boardCache[b][w].kept => boardCache[b][w].age <= CacheAge
    /\ \A p \in DOMAIN jobIndex : jobIndex[p].kept => jobIndex[p].age <= IndexAge

LEMMA InitSrBounds == SrInit => SrBounds
<1> SUFFICES ASSUME SrInit PROVE SrBounds
    OBVIOUS
<1>1. ~ Absent.kept /\ 0 <= LongAgo + 1
    BY SearchAssumption DEF Absent, LongAgo
<1>2. /\ \A a \in Ads : offline[a] = 0
      /\ boards = {} /\ \A p \in DOMAIN jobIndex : jobIndex[p] = Absent
    BY DEF SrInit
<1> QED
    BY <1>1, <1>2 DEF SrBounds

LEMMA NextSrBounds ==
    ASSUME SrInv, SrBounds, [SrNext]_srVars
    PROVE  SrBounds'
<1>0. /\ boards \subseteq Boards /\ offline \in [Ads -> Nat]
      /\ boardCache \in [boards -> [Wheres -> CacheEntries]]
      /\ jobIndex \in [{a.page : a \in Ads} -> IndexRows]
      /\ CacheAge \in Nat /\ IndexAge \in Nat /\ LongAgo \in Nat
    BY SearchAssumption DEF SrInv, SrTyped, LongAgo
<1>1. ASSUME NEW bs \in Wirings, WireBoards(bs) PROVE SrBounds'
  <2>1. /\ boards' = bs /\ UNCHANGED <<offline, jobIndex>>
        /\ \A b \in bs, w \in Wheres : boardCache'[b][w] = Absent
      BY <1>1 DEF WireBoards
  <2>2. ~ Absent.kept
      BY DEF Absent
  <2> QED
      BY <2>1, <2>2 DEF SrBounds
<1>2. ASSUME NEW s \in Seekers, NEW b \in boards, NEW ads \in SUBSET Ads, Fetched(s, b, ads)
      PROVE  SrBounds'
  <2>1. UNCHANGED <<boards, offline, jobIndex>> /\ Put(b, seeker[s].where, ads)
      BY <1>2 DEF Fetched
  <2>2. CASE ads = {}
      BY <2>1, <2>2 DEF Put, SrBounds
  <2>3. CASE ads # {}
    <3>1. PICK fresh : fresh = [kept |-> TRUE, age |-> 0, ads |-> ads]
        OBVIOUS
    <3>2. fresh.age = 0
        BY <3>1
    <3>3. boardCache' = [boardCache EXCEPT ![b][seeker[s].where] = fresh]
        BY <2>1, <2>3, <3>1 DEF Put, CacheKey
    <3>4. \A c \in boards, w \in Wheres :
              boardCache'[c][w] = boardCache[c][w] \/ boardCache'[c][w] = fresh
        BY <1>0, <3>3
    <3>5. \A c \in boards, w \in Wheres :
              boardCache'[c][w].kept => boardCache'[c][w].age <= CacheAge
        BY <1>0, <3>2, <3>4 DEF SrBounds
    <3> QED
        BY <2>1, <3>5 DEF SrBounds
  <2> QED
      BY <2>2, <2>3
<1>3. ASSUME NEW s \in Seekers, NEW does \in BOOLEAN, FinishSearch(s, does) PROVE SrBounds'
  <2>1. UNCHANGED <<boards, offline, boardCache>>
        /\ (jobIndex' = jobIndex \/ jobIndex' = Indexed(seeker[s].ads))
      BY <1>3 DEF FinishSearch
  <2>2. CASE jobIndex' = jobIndex
      BY <2>1, <2>2 DEF SrBounds
  <2>3. CASE jobIndex' = Indexed(seeker[s].ads)
    <3>1. /\ DOMAIN jobIndex' = DOMAIN jobIndex
          /\ \A p \in DOMAIN jobIndex : jobIndex'[p].age = 0 \/ jobIndex'[p] = jobIndex[p]
        BY <2>3 DEF Indexed
    <3> QED
        BY <1>0, <2>1, <3>1 DEF SrBounds
  <2> QED
      BY <2>1, <2>2, <2>3
<1>4. ASSUME NEW a \in Ads, WithdrawAd(a) PROVE SrBounds'
  <2>1. UNCHANGED <<boards, boardCache, jobIndex>> /\ offline' = [offline EXCEPT ![a] = 1]
      BY <1>4 DEF WithdrawAd
  <2>2. \A c \in Ads : offline'[c] = 1 \/ offline'[c] = offline[c]
      BY <1>0, <2>1
  <2> QED
      BY <1>0, <2>1, <2>2 DEF SrBounds
<1>5. ASSUME SearchTick PROVE SrBounds'
  <2>1. /\ offline' = [a \in Ads |-> IF offline[a] \in 1..LongAgo THEN offline[a] + 1 ELSE offline[a]]
        /\ \A b \in boards, w \in Wheres : boardCache'[b][w] = Aged(boardCache[b][w], CacheAge)
        /\ DOMAIN jobIndex' = DOMAIN jobIndex
        /\ \A p \in DOMAIN jobIndex : jobIndex'[p] = Aged(jobIndex[p], IndexAge)
        /\ UNCHANGED boards
      BY <1>5 DEF SearchTick
  <2>2. \A a \in Ads : offline'[a] <= LongAgo + 1
      BY <1>0, <2>1 DEF SrBounds
  <2>3. ASSUME NEW b \in boards, NEW w \in Wheres, boardCache'[b][w].kept
        PROVE  boardCache'[b][w].age <= CacheAge
    <3>1. PICK e \in CacheEntries : e = boardCache[b][w]
        BY <1>0
    <3>2. e.kept /\ boardCache'[b][w].age = (IF e.age < CacheAge THEN e.age + 1 ELSE e.age)
        BY <1>0, <2>1, <2>3, <3>1, AgedEntry
    <3>3. e.age \in Nat /\ e.age <= CacheAge
        BY <3>1, <3>2, EntryShape DEF SrBounds
    <3> QED
        BY <1>0, <3>2, <3>3
  <2>4. ASSUME NEW p \in DOMAIN jobIndex, jobIndex'[p].kept PROVE jobIndex'[p].age <= IndexAge
    <3>1. PICK e \in IndexRows : e = jobIndex[p]
        BY <1>0
    <3>a. jobIndex'[p] = Aged(e, IndexAge)
        BY <2>1, <3>1
    <3>2. e.kept /\ jobIndex'[p].age = (IF e.age < IndexAge THEN e.age + 1 ELSE e.age)
        BY <1>0, <2>4, <3>a, AgedRow
    <3>3. e.age \in Nat /\ e.age <= IndexAge
        BY <3>1, <3>2, RowShape DEF SrBounds
    <3> QED
        BY <1>0, <3>2, <3>3
  <2> QED
      BY <2>1, <2>2, <2>3, <2>4 DEF SrBounds
<1>6. ASSUME UNCHANGED <<boards, offline, boardCache, jobIndex>> PROVE SrBounds'
    BY <1>6 DEF SrBounds
<1> QED
    BY <1>1, <1>2, <1>3, <1>4, <1>5, <1>6
       DEF SrNext, StartSearch, FromCache, Misses, FetchFails, srVars

LEMMA SearchTyped == SrInv /\ SrBounds => SrTypeOK
<1> SUFFICES ASSUME SrInv, SrBounds PROVE SrTypeOK
    OBVIOUS
<1>0. /\ boards \subseteq Boards /\ offline \in [Ads -> Nat]
      /\ boardCache \in [boards -> [Wheres -> CacheEntries]]
      /\ jobIndex \in [{a.page : a \in Ads} -> IndexRows] /\ seeker \in [Seekers -> Searches]
      /\ CacheAge \in Nat /\ IndexAge \in Nat /\ LongAgo \in Nat
    BY SearchAssumption DEF SrInv, SrTyped, LongAgo
<1>1. offline \in [Ads -> 0..LongAgo + 1]
    BY <1>0 DEF SrBounds
<1>2. ASSUME NEW b \in boards, NEW w \in Wheres, boardCache[b][w].kept
      PROVE  boardCache[b][w].age \in 0..CacheAge /\ boardCache[b][w].ads \subseteq Ads
  <2>1. boardCache[b][w].age \in Nat /\ boardCache[b][w].ads \subseteq Ads
      BY <1>0, <1>2, EntryShape
  <2>2. boardCache[b][w].age <= CacheAge
      BY <1>2 DEF SrBounds
  <2> QED
      BY <1>0, <2>1, <2>2
<1>3. ASSUME NEW p \in DOMAIN jobIndex, jobIndex[p].kept PROVE jobIndex[p].age \in 0..IndexAge
  <2>1. jobIndex[p].age \in Nat
      BY <1>0, <1>3, RowShape
  <2>2. jobIndex[p].age <= IndexAge
      BY <1>3 DEF SrBounds
  <2> QED
      BY <1>0, <2>1, <2>2
<1>4. \A s \in Seekers : seeker[s] # NotSeeking =>
         seeker[s].ads \subseteq Ads /\ seeker[s].fate \in [DOMAIN seeker[s].fate -> Fates]
    BY <1>0, SearchShape
<1> QED
    BY <1>0, <1>1, <1>2, <1>3, <1>4 DEF SrTypeOK

\* A row holds the number of the write it comes from.
StBounds ==
    /\ backend \in Backends \cup {"none"} /\ wiped \in BOOLEAN /\ writes \in 0..MaxWrites
    /\ \A s \in {"file", "server"}, k \in RowKinds : disk[s][k] <= writes
    /\ \A v \in Views, k \in RowKinds : copy[v][k] <= writes
    /\ foreign \subseteq RowKinds /\ torn \subseteq RowKinds

LEMMA InitStBounds == StInit => StBounds
<1> SUFFICES ASSUME StInit PROVE StBounds
    OBVIOUS
<1>1. \A k \in RowKinds : NoRows[k] = 0
    BY DEF NoRows
<1>2. wiped = FALSE /\ writes = 0 /\ backend = "none" /\ foreign = {} /\ torn = {}
    BY DEF StInit
<1>3. /\ \A s \in {"file", "server"}, k \in RowKinds : disk[s][k] = 0
      /\ \A v \in Views, k \in RowKinds : copy[v][k] = 0
    BY <1>1 DEF StInit
<1>4. 0 \in 0..MaxWrites
    BY StoresAssumption
<1>5. /\ \A s \in {"file", "server"}, k \in RowKinds : disk[s][k] <= writes
      /\ \A v \in Views, k \in RowKinds : copy[v][k] <= writes
    BY <1>2, <1>3
<1>6. wiped \in BOOLEAN /\ writes \in 0..MaxWrites
    BY <1>2, <1>4
<1> QED
    BY <1>2, <1>5, <1>6 DEF StBounds

\* What a step leaves in memory and tables was there, or nothing.
LEMMA RowsBounded ==
    ASSUME StInv, StBounds, writes' = writes, backend' \in Backends \cup {"none"}, wiped' \in BOOLEAN,
           foreign' \subseteq foreign, torn' \subseteq RowKinds,
           \A s \in {"file", "server"}, k \in RowKinds : disk'[s][k] \in {0, disk[s][k]},
           \A v \in Views, k \in RowKinds :
               copy'[v][k] \in {0, copy[v][k]} \cup {disk[s][k] : s \in {"file", "server"}}
    PROVE  StBounds'
<1>1. /\ disk \in [{"file", "server"} -> [RowKinds -> Nat]]
      /\ copy \in [Views -> [RowKinds -> Nat]] /\ writes \in Nat
    BY DEF StInv, StTyped
<1>2. \A s \in {"file", "server"}, k \in RowKinds : disk'[s][k] <= writes
    BY <1>1 DEF StBounds
<1>3. ASSUME NEW v \in Views, NEW k \in RowKinds PROVE copy'[v][k] <= writes
    BY <1>1 DEF StBounds
<1> QED
    BY <1>2, <1>3 DEF StBounds

LEMMA NextStBounds ==
    ASSUME StInv, StBounds, [StNext]_stVars
    PROVE  StBounds'
<1>0. /\ backend \in {"none", "file", "server"} /\ backend \in Backends \cup {"none"}
      /\ disk \in [{"file", "server"} -> [RowKinds -> Nat]]
      /\ copy \in [Views -> [RowKinds -> Nat]] /\ writes \in 0..MaxWrites /\ MaxWrites \in Nat
      /\ wiped \in BOOLEAN /\ foreign \subseteq RowKinds /\ torn \subseteq RowKinds
    BY StoresAssumption DEF StInv, StTyped, StBounds
<1>k. /\ ToolKinds \subseteq RowKinds /\ "referral" \in RowKinds /\ "company" \in RowKinds
      /\ "found" \in RowKinds /\ "own" \in RowKinds
      /\ "web" \in Views /\ "agent" \in Views /\ "call" \in Views
    BY DEF ToolKinds, RowKinds, Views
<1>1. CASE StartWeb
    BY <1>0, <1>1, RowsBounded DEF StartWeb
<1>2. ASSUME NEW kinds \in SUBSET RowKinds, NEW left, NEW ok \in BOOLEAN, RemoveAll(kinds, left, ok),
             backend # "none" =>
                \A s \in {"file", "server"}, k \in RowKinds : left[s][k] \in {0, disk[s][k]},
             wiped' \in BOOLEAN
      PROVE  StBounds'
  <2>1. /\ backend # "none" /\ UNCHANGED <<backend, writes>>
        /\ copy' = [copy EXCEPT !["web"] = [k \in RowKinds |-> IF k \in kinds THEN 0 ELSE @[k]]]
        /\ disk' = left \/ disk' = disk
        /\ foreign' \subseteq foreign /\ torn' \subseteq RowKinds
      BY <1>0, <1>2 DEF RemoveAll, SaveFails
  <2>2. \A v \in Views, k \in RowKinds : copy'[v][k] \in {0, copy[v][k]}
      BY <1>0, <1>k, <2>1
  <2>3. \A s \in {"file", "server"}, k \in RowKinds : disk'[s][k] \in {0, disk[s][k]}
      BY <1>2, <2>1
  <2> QED
      BY <1>0, <1>2, <2>1, <2>2, <2>3, RowsBounded
<1>3. ASSUME NEW ok \in BOOLEAN, RemoveCompany(ok) PROVE StBounds'
  <2>1. /\ RemoveAll({"company", "found"}, Dropped(backend), ok) /\ wiped' = wiped
      BY <1>3 DEF RemoveCompany
  <2>2. backend # "none" =>
           \A s \in {"file", "server"}, k \in RowKinds : Dropped(backend)[s][k] \in {0, disk[s][k]}
      BY <1>0, <1>k DEF Dropped
  <2> QED
      BY <1>0, <1>k, <1>2, <2>1, <2>2
<1>4. ASSUME NEW ok \in BOOLEAN, DeleteOwn(ok) PROVE StBounds'
  <2>1. PICK left : left = [disk EXCEPT ![backend].own = 0]
      OBVIOUS
  <2>2. RemoveAll({"own"}, left, ok) /\ wiped' = wiped
      BY <1>4, <2>1 DEF DeleteOwn
  <2>3. backend # "none" =>
           \A s \in {"file", "server"}, k \in RowKinds : left[s][k] \in {0, disk[s][k]}
      BY <1>0, <1>k, <2>1
  <2> QED
      BY <1>0, <1>k, <1>2, <2>2, <2>3
<1>5. ASSUME NEW ok \in BOOLEAN, Erase(ok) PROVE StBounds'
  <2>1. PICK left : left = [disk EXCEPT ![backend] =
                               [k \in RowKinds |-> IF k \in UserScoped THEN 0 ELSE @[k]]]
      OBVIOUS
  <2>2. RemoveAll(RowKinds, left, ok) /\ wiped' = ok
      BY <1>5, <2>1 DEF Erase
  <2>3. backend # "none" =>
           \A s \in {"file", "server"}, k \in RowKinds : left[s][k] \in {0, disk[s][k]}
      BY <1>0, <2>1
  <2> QED
      BY <1>0, <1>2, <2>2, <2>3
<1>6. ASSUME NEW v \in Views, NEW k \in RowKinds, Save(v, k) PROVE StBounds'
  <2>1. PICK n \in Nat : n = writes + 1 /\ n <= MaxWrites
      BY <1>0, <1>6 DEF Save
  <2>2. /\ writes' = n /\ copy' = [copy EXCEPT ![v][k] = n] /\ UNCHANGED backend /\ wiped' = FALSE
        /\ foreign' \subseteq RowKinds /\ torn' \subseteq RowKinds
      BY <1>0, <1>6, <2>1 DEF Save, SaveFails
  <2>3. disk' = disk \/ disk' = [disk EXCEPT ![StoreOf(v)][k] = n]
      BY <1>6, <2>1 DEF Save, SaveFails, Upserted
  <2>4. StoreOf(v) \in {"file", "server"}
      BY <1>0, <1>6 DEF Save, StoreOf
  <2>5. \A s \in {"file", "server"}, x \in RowKinds : disk'[s][x] \in {n, disk[s][x]}
      BY <1>0, <2>3, <2>4
  <2>6. \A u \in Views, x \in RowKinds : copy'[u][x] \in {n, copy[u][x]}
      BY <1>0, <2>2
  <2>7. \A s \in {"file", "server"}, x \in RowKinds : disk'[s][x] <= n
    <3> SUFFICES ASSUME NEW s \in {"file", "server"}, NEW x \in RowKinds PROVE disk'[s][x] <= n
        OBVIOUS
    <3>1. disk[s][x] \in Nat /\ disk[s][x] <= writes
        BY <1>0 DEF StBounds
    <3> QED
        BY <1>0, <2>1, <2>5, <3>1
  <2>8. \A u \in Views, x \in RowKinds : copy'[u][x] <= n
    <3> SUFFICES ASSUME NEW u \in Views, NEW x \in RowKinds PROVE copy'[u][x] <= n
        OBVIOUS
    <3>1. copy[u][x] \in Nat /\ copy[u][x] <= writes
        BY <1>0 DEF StBounds
    <3> QED
        BY <1>0, <2>1, <2>6, <3>1
  <2>9. writes' \in 0..MaxWrites
      BY <1>0, <2>1, <2>2
  <2> QED
      BY <1>0, <2>2, <2>7, <2>8, <2>9 DEF StBounds
<1>7. ASSUME NEW v \in Views, Connects(v) PROVE StBounds'
  <2>1. /\ backend # "none" /\ copy' = [copy EXCEPT ![v] = disk[StoreOf(v)]]
        /\ UNCHANGED <<backend, disk, writes, wiped>>
        /\ foreign' \subseteq foreign /\ torn' \subseteq RowKinds
      BY <1>0, <1>7 DEF Connects, Reload
  <2>2. StoreOf(v) \in {"file", "server"}
      BY <1>0, <2>1 DEF StoreOf
  <2>3. \A u \in Views, k \in RowKinds :
            copy'[u][k] \in {copy[u][k]} \cup {disk[s][k] : s \in {"file", "server"}}
      BY <1>0, <2>1, <2>2
  <2> QED
      BY <1>0, <2>1, <2>3, RowsBounded
<1>8. CASE UNCHANGED stVars
    BY <1>0, <1>8, RowsBounded DEF stVars
<1> QED
    BY <1>k, <1>1, <1>3, <1>4, <1>5, <1>6, <1>7, <1>8
       DEF StNext, Agent, ToolCall, Proposes, Advances

LEMMA StoresTyped == StInv /\ StBounds => StTypeOK
<1> SUFFICES ASSUME StInv, StBounds PROVE StTypeOK
    OBVIOUS
<1>0. /\ disk \in [{"file", "server"} -> [RowKinds -> Nat]] /\ aborted \in BOOLEAN
      /\ copy \in [Views -> [RowKinds -> Nat]] /\ writes \in 0..MaxWrites /\ MaxWrites \in Nat
    BY StoresAssumption DEF StInv, StTyped, StBounds
<1>1. ASSUME NEW n \in Nat, n <= writes PROVE n \in 0..MaxWrites
    BY <1>0, <1>1
<1>2. disk \in [{"file", "server"} -> [RowKinds -> 0..MaxWrites]]
  <2>1. \A s \in {"file", "server"} : disk[s] \in [RowKinds -> 0..MaxWrites]
      BY <1>0, <1>1 DEF StBounds
  <2> QED
      BY <1>0, <2>1
<1>3. copy \in [Views -> [RowKinds -> 0..MaxWrites]]
  <2>1. \A v \in Views : copy[v] \in [RowKinds -> 0..MaxWrites]
      BY <1>0, <1>1 DEF StBounds
  <2> QED
      BY <1>0, <2>1
<1> QED
    BY <1>0, <1>2, <1>3 DEF StBounds, StTypeOK


StrBounds ==
    broken \subseteq Asks /\ stored \in Asks \cup {NoAsk} /\ onView \in Asks \cup {NoAsk}
    /\ capped \in BOOLEAN

LEMMA InitStrBounds == StrInit => StrBounds
BY DEF StrInit, StrBounds

LEMMA NextStrBounds ==
    ASSUME StrBounds, [StrNext]_strVars
    PROVE  StrBounds'
<1>1. ASSUME NEW a \in Asks, UNCHANGED <<stored, capped>>,
             broken' = broken \/ broken' = broken \cup {a}, onView' \in {onView, a}
      PROVE  StrBounds'
    BY <1>1 DEF StrBounds
<1>2. ASSUME NEW a \in Asks,
             \/ \E kind \in {"find", "letter", "tailor"} : Ask(a, kind)
             \/ \E arrived \in BOOLEAN : NotOpened(a, arrived)
             \/ CutOff(a) \/ Reads(a) \/ EndsShort(a) \/ Receives(a) \/ GivesUp(a)
      PROVE  StrBounds'
    BY <1>1, <1>2 DEF Ask, NotOpened, CutOff, Reads, EndsShort, Receives, GivesUp, Viewed
<1>3. ASSUME NEW a \in Asks, NEW w \in Ways,
             \/ Declines(<<a, w>>) \/ GoesWithout(<<a, w>>) \/ OpensRun(<<a, w>>)
             \/ SendsPart(<<a, w>>) \/ Abandoned(<<a, w>>) \/ FindBreaks(<<a, w>>)
             \/ \E whole, fits \in BOOLEAN : Finishes(<<a, w>>, whole, fits)
      PROVE  StrBounds'
    BY <1>3 DEF Declines, GoesWithout, OpensRun, SendsPart, Abandoned, FindBreaks, Finishes,
                StrBounds
<1>4. ASSUME NEW a \in Asks, NEW w \in Ways, FindsJobs(<<a, w>>) PROVE StrBounds'
  <2>1. stored' = a /\ UNCHANGED <<broken, capped, onView>>
      BY <1>4 DEF FindsJobs, Keeps
  <2> QED
      BY <2>1 DEF StrBounds
<1>5. CASE ServerStops
    BY <1>5 DEF ServerStops, StrBounds
<1>6. CASE MonthSpent
    BY <1>6 DEF MonthSpent, StrBounds
<1>7. CASE UNCHANGED strVars
    BY <1>7 DEF strVars, StrBounds
<1> QED
    BY <1>2, <1>3, <1>4, <1>5, <1>6, <1>7 DEF StrNext

LEMMA StreamsTyped == StreamsInv /\ StrBounds => StrTypeOK
<1> SUFFICES ASSUME StreamsInv, StrBounds PROVE StrTypeOK
    OBVIOUS
<1>1. ASSUME NEW h \in Asks \X Ways PROVE Len(ledger[h].audits) <= 1
  <2>1. PICK a \in Asks, w \in Ways : h = <<a, w>>
      OBVIOUS
  <2>2. PICK t, k, kind, dropped : TaskFits(t, k, kind, dropped) /\ k = ledger[h]
      BY <2>1 DEF StreamsInv, Fits, Ways
  <2>3. k = NoBook \/ \E x : k.audits = <<AuditOutcome(x)>>
      BY <2>2 DEF TaskFits, Booked
  <2>4. Len(k.audits) <= 1
    <3>1. CASE k = NoBook
        BY <3>1, StreamRows
    <3>2. ASSUME NEW x, k.audits = <<AuditOutcome(x)>> PROVE Len(k.audits) <= 1
        BY <3>2
    <3> QED
        BY <2>3, <3>1, <3>2
  <2> QED
      BY <2>2, <2>4
<1>2. /\ page \in [Asks -> PageRow] /\ task \in [Asks \X Ways -> TaskRow] /\ mixed \in BOOLEAN
    BY DEF StreamsInv, StrTyped
<1>3. PageRow = [kind : {"none", "find", "letter", "tailor"},
                 at : {"none", "reading", "waiting", "answered", "failed"}, heard : Heards]
  <2>1. {"none"} \cup PageKinds = {"none", "find", "letter", "tailor"}
      BY DEF PageKinds
  <2> QED
      BY <2>1 DEF PageRow
<1> QED
    BY <1>1, <1>2, <1>3 DEF StrBounds, StrTypeOK, TaskRow, Heards

BldBounds ==
    Len(sessions) <= MaxSessions /\ answered <= MaxAnswers /\ astray \subseteq 1..Len(sessions)

LEMMA InitBldBounds == BldInit => BldBounds
BY BuilderAssumption DEF BldInit, BldBounds

\* The session a request gets is one there is, or a new one if there is room.
LEMMA StateForBounded ==
    ASSUME BldTyped, BldBounds, Room, Len(sessions') = Len(StateFor), answered' = answered,
           astray' \subseteq astray \cup {Live}
    PROVE  BldBounds'
<1>1. /\ sessions \in Seq(SessRow) /\ Len(sessions) \in Nat /\ current \in 0..Len(sessions)
      /\ NewSession \in SessRow /\ MaxSessions \in Nat
    BY BldRows, BuilderAssumption DEF BldTyped
<1>2. CASE current # 0
    BY <1>1, <1>2 DEF StateFor, Live, BldBounds
<1>3. CASE current = 0
  <2>1. Len(StateFor) = Len(sessions) + 1 /\ Live = Len(sessions) + 1 /\ Len(sessions) < MaxSessions
      BY <1>1, <1>3 DEF StateFor, Live, Room
  <2> QED
      BY <1>1, <2>1 DEF BldBounds
<1> QED
    BY <1>2, <1>3

LEMMA NextBldBounds ==
    ASSUME BuilderInv, BldBounds, [BldNext]_bldVars
    PROVE  BldBounds'
<1>0. /\ BldTyped /\ sessions \in Seq(SessRow) /\ Len(sessions) \in Nat
      /\ current \in 0..Len(sessions)
      /\ NewSession \in SessRow /\ Fresh \in SessRow
    BY BldRows DEF BuilderInv, BldTyped
<1>1. ASSUME NEW c \in Clicks, Show(c) \/ SaveTakes(c) \/ Assembles(c) PROVE BldBounds'
    BY <1>0, <1>1, StateForBounded DEF Show, SaveTakes, Assembles, Strays
<1>2. ASSUME NEW c \in Clicks, Skip(c) PROVE BldBounds'
  <2>1. /\ Room /\ sessions' = [StateFor EXCEPT ![Live].at = NextSection(click[c].sec)]
        /\ answered' = answered /\ astray' \subseteq astray \cup {Live}
      BY <1>2 DEF Skip, Strays
  <2>2. StateFor \in Seq(SessRow)
      BY <1>0 DEF StateFor
  <2>3. Len(sessions') = Len(StateFor)
      BY <2>1, <2>2
  <2> QED
      BY <1>0, <2>1, <2>3, StateForBounded
<1>3. ASSUME NEW c \in Clicks, Start(c) PROVE BldBounds'
  <2>1. /\ sessions' = Append(sessions, Fresh) /\ UNCHANGED <<answered, astray>>
        /\ Len(sessions) < MaxSessions
      BY <1>3 DEF Start
  <2>2. Len(sessions') = Len(sessions) + 1
      BY <1>0, <2>1
  <2> QED
      BY <1>0, <2>1, <2>2, BuilderAssumption DEF BldBounds
<1>4. ASSUME NEW c \in Clicks, NEW outcome, SaveWrites(c, outcome) PROVE BldBounds'
  <2>1. Len(sessions') = Len(sessions) /\ UNCHANGED <<answered, astray>>
      BY <1>0, <1>4 DEF SaveWrites
  <2> QED
      BY <2>1 DEF BldBounds
<1>5. ASSUME NEW c \in Clicks, NEW t \in Tabs, NEW stay \in BOOLEAN, PressesSave(c, t, stay)
      PROVE  BldBounds'
  <2>1. UNCHANGED <<sessions, astray>> /\ answered' = answered + 1 /\ answered < MaxAnswers
      BY <1>5 DEF PressesSave, Presses
  <2>2. answered \in Nat
      BY <1>0 DEF BldTyped
  <2> QED
      BY <2>1, <2>2, BuilderAssumption DEF BldBounds
<1>6. CASE UNCHANGED <<sessions, answered, astray>>
    BY <1>6 DEF BldBounds
<1> QED
    BY <1>1, <1>2, <1>3, <1>4, <1>5, <1>6
       DEF BldNext, Stops, Shown, FormatFails, Finish, Opens, PressesStart, PressesSkip,
           PressesFinish, Presses, bldVars

LEMMA BuilderTyped == BuilderInv /\ BldBounds => BldTypeOK
<1> SUFFICES ASSUME BuilderInv, BldBounds PROVE BldTypeOK
    OBVIOUS
<1>0. /\ sessions \in Seq(SessRow) /\ current \in 0..Len(sessions)
      /\ wizard \in [Tabs -> WizRow] /\ click \in [Clicks -> ClickRow] /\ answered \in Nat
      /\ NoClick \in ClickRow /\ Blank \in WizRow
    BY BldRows DEF BuilderInv, BldTyped
<1>1. ASSUME NEW i \in DOMAIN sessions
      PROVE  sessions[i].at \in SectionIds \cup {"none"} /\ DOMAIN sessions[i].kept = SectionIds
  <2>1. sessions[i] \in SessRow
      BY <1>0, <1>1
  <2> QED
      BY <2>1 DEF SessRow, Places, KeptRow
<1>2. \A k \in ClickRow : DOMAIN k = {"op", "tab", "sec", "stay", "of", "text", "s", "at", "some", "step"}
    BY DEF ClickRow
<1>3. \A k \in WizRow : DOMAIN k = {"s", "at", "some"}
    BY DEF WizRow
<1>4. \A c \in Clicks : DOMAIN click[c] = DOMAIN NoClick
    BY <1>0, <1>2
<1>5. \A t \in Tabs : DOMAIN wizard[t] = DOMAIN Blank
    BY <1>0, <1>3
<1>6. cv.of \in 0..Len(sessions)
    BY DEF BuilderInv, WholeInv, CvFits
<1>7. answered \in 0..MaxAnswers
    BY <1>0, BuilderAssumption DEF BldBounds
<1> QED
    BY <1>0, <1>1, <1>4, <1>5, <1>6, <1>7 DEF BldBounds, BldTypeOK

MigBounds == boots <= MaxBoots

LEMMA NextMigBounds ==
    ASSUME MigInv, MigBounds, [MigNext]_migVars
    PROVE  MigBounds'
<1>1. boots' = boots \/ (boots < MaxBoots /\ boots' = boots + 1)
    BY DEF MigNext, BootReads, AlreadyThere, BeginsMigration, RunsStatement, CommitsMigration,
           StatementFails, StartsServing, ServerStopped, migVars
<1>2. boots \in Nat /\ MaxBoots \in Nat
    BY MigrationsAssumption DEF MigInv, MigTyped
<1> QED
    BY <1>1, <1>2 DEF MigBounds

LEMMA MigrationsTyped == MigInv /\ MigBounds => MigTypeOK
<1> SUFFICES ASSUME MigInv, MigBounds PROVE MigTypeOK
    OBVIOUS
<1>1. \A p \in Servers : server[p] \in Stages
    BY DEF MigInv, MigTyped
<1>2. \A p \in Servers : /\ server[p].staged \in 0..Statements
                         /\ server[p].at \in {"down", "between", "within", "up", "failed"}
    BY <1>1, StageShape
<1>3. boots \in 0..MaxBoots
    BY MigrationsAssumption DEF MigInv, MigTyped, MigBounds
<1> QED
    BY <1>2, <1>3 DEF MigInv, MigTyped, MigTypeOK

LEMMA CommandsTyped == CmdInv => CmdTypeOK
BY DEF CmdInv, CmdTyped, CmdTypeOK, PendFits, PendRow, WinRow
-----------------------------------------------------------------------------
ProductInv == AltInv /\ SrInv /\ StInv /\ MigInv /\ ChatWorkInv /\ JobsInv
Bounds     == /\ AltBounds /\ RtBounds /\ SrBounds /\ StBounds /\ StrBounds /\ BldBounds
              /\ MigBounds

\* Every service keeps what it keeps within its types and its limits: no cache,
\* list or counter outgrows what the code allows it (Slack's memory of
\* app.py 4118, the minute's calls of 4790, the ages of aggregators.py and
\* job_index.py), and every reference is to something there is.
THEOREM WorkTyped == Spec => []WorkTypeOK
<1>1. Init => ProductInv /\ Bounds
  <2>1. Init => ProductInv
      BY InitAlerts, InitSearch, InitStores, InitMigrations, InitRouting, InitCommands,
         InitStreams, InitBuilder, InitCrawl, InitDiscoveries, InitApplications
         DEF Init, ProductInv, ChatWorkInv, JobsInv
  <2>2. AltInit => AltBounds
    <3>1. ToSet(<<>>) = {} /\ Len(<<>>) = 0
        BY DEF ToSet
    <3> QED
        BY <3>1, AlertsAssumption DEF AltInit, AltBounds
  <2>3. MigInit => MigBounds
      BY MigrationsAssumption DEF MigInit, MigBounds
  <2> QED
      BY <2>1, <2>2, <2>3, InitRtBounds, InitSrBounds, InitStBounds, InitStrBounds, InitBldBounds
         DEF Init, Bounds
<1>2. ProductInv /\ Bounds /\ [Next]_<<focus, altVars, altRest>> => ProductInv' /\ Bounds'
  <2> SUFFICES ASSUME ProductInv, Bounds, [Next]_<<focus, altVars, altRest>>
               PROVE  ProductInv' /\ Bounds'
      OBVIOUS
  <2>1. ProductInv'
      BY StepOfOne, NextAlerts, NextSearch, NextStores, NextMigrations, NextRouting, NextCommands,
         NextStreams, NextBuilder, NextCrawl, NextDiscoveries, NextApplications
         DEF ProductInv, ChatWorkInv, JobsInv
  <2>2. Bounds'
      BY StepOfOne, NextAltBounds, NextRtBounds, NextSrBounds, NextStBounds, NextStrBounds,
         NextBldBounds, NextMigBounds DEF ProductInv, ChatWorkInv, Bounds
  <2> QED
      BY <2>1, <2>2
<1>3. ProductInv /\ Bounds => WorkTypeOK
  <2>1. RtBounds => RtTypeOK
      BY DEF RtBounds
  <2> QED
      BY <2>1, AlertsTyped, SearchTyped, StoresTyped, StreamsTyped, BuilderTyped, MigrationsTyped,
         CommandsTyped, CrawlKeeps, DiscoveriesKeep, ApplicationsKeep
         DEF ProductInv, ChatWorkInv, JobsInv, Bounds, WorkTypeOK
<1> QED
    BY <1>1, <1>2, <1>3, PTL DEF Spec
=============================================================================
