----------------------------- MODULE Migrations -----------------------------
(***************************************************************************)
(* The runner of the schema's migrations (migrations.py).  The web server  *)
(* and the MCP server open the same file, each runs it when it starts, and *)
(* a release may ship more migrations than the one before.                 *)
(***************************************************************************)
EXTENDS Naturals, FiniteSets

CONSTANTS
    Servers,        \* processes that open the file
    LatestMigration,         \* the last migration there is
    Statements,          \* how many statements one has
    Repeating,      \* those that may be run again: IF NOT EXISTS
    MaxBoots        \* bound on the starts of servers

ASSUME MigrationsAssumption ==
    /\ LatestMigration \in Nat /\ Statements \in Nat \ {0} /\ MaxBoots \in Nat
    /\ Repeating \subseteq 1..LatestMigration

VARIABLES
    schema,     \* the statements in the file: <<migration, number>>
    version,    \* PRAGMA user_version of the file
    server,     \* what each process is doing
    boots,      \* starts so far
    raced       \* history: two servers were migrating at once

migVars == <<schema, version, server, boots, raced>>

\* ships: the release's last migration; starting: the version it read;
\* next: the migration it is at; staged: the statements of its transaction.
NotRunning == [at |-> "down", ships |-> 0, starting |-> 0, next |-> 0, staged |-> 0]

MigInit ==
    /\ schema = {} /\ version = 0 /\ boots = 0 /\ raced = FALSE
    /\ server = [p \in Servers |-> NotRunning]

-----------------------------------------------------------------------------
Migrating(p) == server[p].at \in {"between", "within"}

\* The transaction of p has the write lock.
HasWriteLock(p) == server[p].at = "within" /\ server[p].staged > 0

\* A release starts: it reads where the file stands, once.
BootReads(p, ships) ==
    /\ server[p].at = "down" /\ boots < MaxBoots /\ boots' = boots + 1
    /\ server' = [server EXCEPT ![p] =
          [at |-> "between", ships |-> ships, starting |-> version, next |-> 1, staged |-> 0]]
    /\ raced' = (raced \/ \E q \in Servers : Migrating(q))
    /\ UNCHANGED <<schema, version>>

\* Later than the file was when p started.
IsPending(p) == server[p].next > server[p].starting

AlreadyThere(p) ==
    /\ server[p].at = "between" /\ server[p].next <= server[p].ships /\ ~IsPending(p)
    /\ server' = [server EXCEPT ![p].next = @ + 1]
    /\ UNCHANGED <<schema, version, boots, raced>>

BeginsMigration(p) ==
    /\ server[p].at = "between" /\ server[p].next <= server[p].ships /\ IsPending(p)
    /\ server' = [server EXCEPT ![p].at = "within"]
    /\ UNCHANGED <<schema, version, boots, raced>>

\* The next statement runs; the first waits for the lock.
RunsStatement(p) ==
    /\ server[p].at = "within" /\ server[p].staged < Statements
    /\ \A q \in Servers \ {p} : ~HasWriteLock(q)
    /\ \/ server[p].next \in Repeating
       \/ <<server[p].next, server[p].staged + 1>> \notin schema
    /\ server' = [server EXCEPT ![p].staged = @ + 1]
    /\ UNCHANGED <<schema, version, boots, raced>>

\* The version is set in the same transaction.
CommitsMigration(p) ==
    LET v == server[p].next
    IN  /\ HasWriteLock(p) /\ server[p].staged = Statements
        /\ schema' = schema \cup {<<v, i>> : i \in 1..Statements}
        /\ version' = v
        /\ server' = [server EXCEPT ![p].at = "between", ![p].staged = 0, ![p].next = v + 1]
        /\ UNCHANGED <<boots, raced>>

\* What is left of the transaction of p if it is not committed.
RolledBack(p) == schema

\* A statement fails: it was run before, or another connection has the lock or
\* has written since p began.  The server does not start.
StatementFails(p) ==
    /\ server[p].at = "within" /\ server[p].staged < Statements
    /\ \/ /\ server[p].next \notin Repeating
          /\ <<server[p].next, server[p].staged + 1>> \in schema
       \/ \E q \in Servers \ {p} : Migrating(q)
    /\ schema' = RolledBack(p)
    /\ server' = [server EXCEPT ![p] = [NotRunning EXCEPT !.at = "failed"]]
    /\ UNCHANGED <<version, boots, raced>>

StartsServing(p) ==
    /\ server[p].at = "between" /\ server[p].next > server[p].ships
    /\ server' = [server EXCEPT ![p].at = "up"]
    /\ UNCHANGED <<schema, version, boots, raced>>

\* It is stopped, or killed in the middle.
ServerStopped(p) ==
    /\ server[p].at # "down"
    /\ schema' = RolledBack(p) /\ server' = [server EXCEPT ![p] = NotRunning]
    /\ UNCHANGED <<version, boots, raced>>

MigNext ==
    \E p \in Servers :
        \/ \E ships \in 1..LatestMigration : BootReads(p, ships)
        \/ AlreadyThere(p) \/ BeginsMigration(p) \/ RunsStatement(p) \/ CommitsMigration(p)
        \/ StatementFails(p) \/ StartsServing(p) \/ ServerStopped(p)

MigSpec == MigInit /\ [][MigNext]_migVars

-----------------------------------------------------------------------------
MigTypeOK ==
    /\ schema \subseteq (1..LatestMigration) \X (1..Statements)
    /\ version \in 0..LatestMigration
    /\ boots \in 0..MaxBoots /\ raced \in BOOLEAN
    /\ \A p \in Servers : /\ server[p].staged \in 0..Statements
                          /\ server[p].at \in {"down", "between", "within", "up", "failed"}

HasMigration(v) == {<<v, i>> : i \in 1..Statements} \subseteq schema

\* A migration is in the file with all its statements or with none, whatever
\* was killed and when (migrations.py 31-33).
NeverHalf ==
    \A v \in 1..LatestMigration :
       HasMigration(v) \/ \A i \in 1..Statements : <<v, i>> \notin schema

\* The version says what the file has: every migration up to it and, unless two
\* servers migrated at once (the slower sets the version back), no later one.
VersionTrue ==
    /\ \A v \in 1..version : HasMigration(v)
    /\ ~raced => \A v \in (version + 1)..LatestMigration : ~HasMigration(v)

\* A server that serves has all its release needs.
ServesWhole ==
    \A p \in Servers : server[p].at = "up" => \A v \in 1..server[p].ships : HasMigration(v)

\* A server whose schema is not to be had is one that raced another; alone,
\* every release starts, an older one too, after any stop.
NoneFails == (\E p \in Servers : server[p].at = "failed") => raced

MigrationsHold == NeverHalf /\ VersionTrue /\ ServesWhole /\ NoneFails
=============================================================================
