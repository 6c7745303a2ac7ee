------------------------------- MODULE Stores -------------------------------
(***************************************************************************)
(* The rows of one user in the repository (sqlite_repository.py,           *)
(* postgres_repository.py): each process reads them once, at its start,    *)
(* answers from memory and writes every change through.  Beside the web    *)
(* server there are the MCP server, a process of its own with a copy of    *)
(* its own, and the tool calls of the REST interface, each of which reads  *)
(* a copy, works on it and drops it.  Those two always use the SQLite file *)
(* (mcp_server.py 124), also when the web server is on Postgres.           *)
(***************************************************************************)
EXTENDS Naturals, FiniteSets

CONSTANTS
    MaxWrites,      \* bound on the writes
    Backends        \* "file" and "server": SQLite, Postgres

ASSUME StoresAssumption == MaxWrites \in Nat /\ Backends \subseteq {"file", "server"}

VARIABLES
    backend,        \* what the web server is started on; "none" before that
    disk,           \* store -> kind of row -> what is written, 0 for no row
    copy,           \* view -> kind of row -> what it has in memory
    aborted,        \* Postgres: is the transaction of the connection aborted?
    writes,         \* the number of the last write
    foreign,        \* history: kinds another view wrote since the web server read them
    torn,           \* history: kinds a failed write left in the web server's memory
    wiped           \* history: has the user been erased, and nothing been saved since?

stVars == <<backend, disk, copy, aborted, writes, foreign, torn, wiped>>

Views    == {"web", "agent", "call"}
\* A company; what is found for it; what is the user's own; a referral.
RowKinds    == {"company", "found", "own", "referral"}
NoRows  == [k \in RowKinds |-> 0]
StInit ==
    /\ backend = "none" /\ disk = [s \in {"file", "server"} |-> NoRows]
    /\ copy = [v \in Views |-> NoRows] /\ aborted = FALSE /\ writes = 0
    /\ foreign = {} /\ torn = {} /\ wiped = FALSE

StoreOf(v) == IF v = "web" THEN backend ELSE "file"
\* Only Postgres has a table for referrals.
HasTable(s, k) == s = "server" \/ k # "referral"
\* Two views on the one file.
Meddles(v) == v # "web" /\ backend = "file"

StartWeb ==
    /\ backend = "none"
    /\ \E b \in Backends : backend' = b
    /\ UNCHANGED <<disk, copy, aborted, writes, foreign, torn, wiped>>

\* One row, in whole.
Upserted(s, k, n) == IF HasTable(s, k) THEN [disk EXCEPT ![s][k] = n] ELSE disk

\* A file that stays locked, or any error of the server, whose transaction is
\* aborted with it and never rolled back.
SaveFails(s) == aborted' = (aborted \/ s = "server") /\ UNCHANGED <<disk, foreign>>

\* save_*: the memory first, then the row.
Save(v, k) ==
    LET s == StoreOf(v)
    IN  /\ backend # "none" /\ writes < MaxWrites
        /\ writes' = writes + 1
        /\ copy' = [copy EXCEPT ![v][k] = writes + 1]
        /\ \/ /\ s = "server" => ~aborted
              /\ disk' = Upserted(s, k, writes + 1)
              /\ foreign' = IF Meddles(v) THEN foreign \cup {k}
                            ELSE IF v = "web" THEN foreign \ {k} ELSE foreign
              /\ torn' = IF v = "web" THEN torn \ {k} ELSE torn
              /\ UNCHANGED aborted
           \/ /\ SaveFails(s)
              /\ torn' = IF v = "web" THEN torn \cup {k} ELSE torn
        /\ wiped' = FALSE
        /\ UNCHANGED backend

\* mutant of Dropped: what was found for the company stays in its table
DroppedAlone(s) == [disk EXCEPT ![s].company = 0]

\* The rows delete_company takes from the tables.
Dropped(s) == [disk EXCEPT ![s].company = 0, ![s].found = 0]

\* The web server's removals: the memory, then the tables.
RemoveAll(kinds, left, ok) ==
    /\ backend # "none"
    /\ copy' = [copy EXCEPT !["web"] = [k \in RowKinds |-> IF k \in kinds THEN 0 ELSE @[k]]]
    /\ \/ /\ ok /\ (backend = "server" => ~aborted)
          /\ disk' = left
          /\ foreign' = foreign \ kinds /\ torn' = torn \ kinds
          /\ UNCHANGED aborted
       \/ /\ ~ok /\ SaveFails(backend)
          /\ torn' = torn \cup kinds
    /\ UNCHANGED <<backend, writes>>

RemoveCompany(ok) ==
    /\ copy["web"].company # 0
    /\ RemoveAll({"company", "found"}, Dropped(backend), ok)
    /\ UNCHANGED wiped

DeleteOwn(ok) ==
    /\ copy["web"].own # 0
    /\ RemoveAll({"own"}, [disk EXCEPT ![backend].own = 0], ok)
    /\ UNCHANGED wiped

\* _USER_SCOPED_TABLES, the same list for both.
UserScoped == {"company", "found", "own"}

\* delete_all_user_data, whether or not the web server has read the rows.
Erase(ok) ==
    /\ RemoveAll(RowKinds, [disk EXCEPT ![backend] =
                         [k \in RowKinds |-> IF k \in UserScoped THEN 0 ELSE @[k]]], ok)
    /\ wiped' = ok

\* What a process reads at its start.
Reload(v) == copy' = [copy EXCEPT ![v] = disk[StoreOf(v)]]

\* A view starts again: the web server with a new connection.
Connects(v) ==
    /\ backend # "none"
    /\ Reload(v)
    /\ aborted' = IF v = "web" THEN FALSE ELSE aborted
    /\ foreign' = IF v = "web" THEN {} ELSE foreign
    /\ torn' = IF v = "web" THEN {} ELSE torn
    /\ UNCHANGED <<backend, disk, writes, wiped>>

\* What the other tools save: companies, scans and jobs, applications.
ToolKinds == {"company", "found", "own"}
Proposes(v) == Save(v, "referral")
\* update_referral_status, as a tool or by PATCH /api/referrals, finds the row in
\* the memory of its own view only: the web server has none.
Advances(v) == copy[v].referral # 0 /\ Save(v, "referral")

\* tools/call, on the copy the MCP server keeps.
Agent ==
    \/ \E k \in ToolKinds : Save("agent", k)
    \/ Proposes("agent")

\* POST /api/v1/tools/<name>, on a copy read for the call and dropped after it.
ToolCall ==
    \/ \E k \in ToolKinds : Save("call", k)
    \/ Proposes("call")

StNext ==
    \/ StartWeb
    \/ \E ok \in BOOLEAN : RemoveCompany(ok) \/ DeleteOwn(ok) \/ Erase(ok)
    \/ \E k \in ToolKinds : Save("web", k)
    \/ Agent \/ ToolCall
    \/ \E v \in {"web", "agent"} : Advances(v)
    \/ \E v \in Views : Connects(v)

StSpec == StInit /\ [][StNext]_stVars

StTypeOK ==
    /\ backend \in Backends \cup {"none"} /\ aborted \in BOOLEAN /\ wiped \in BOOLEAN
    /\ disk \in [{"file", "server"} -> [RowKinds -> 0..MaxWrites]]
    /\ copy \in [Views -> [RowKinds -> 0..MaxWrites]] /\ writes \in 0..MaxWrites
    /\ foreign \subseteq RowKinds /\ torn \subseteq RowKinds

\* What the web server shows is what it will show after a restart, whatever
\* else works on the file, except where another process wrote a row or a
\* write failed since it started (sqlite_repository.py 78-86: one change of
\* the memory and the tables).
WebAgrees ==
    \A k \in RowKinds \ (foreign \cup torn) :
        backend # "none" => copy["web"][k] = disk[backend][k]

\* Until something is saved for them again an erased user has no row, also of
\* kinds and numbers the web server had never read (repository.py 122-126).
ErasedLeavesNoRow == wiped => \A k \in UserScoped : disk[backend][k] = 0

StoresHold == WebAgrees /\ ErasedLeavesNoRow
=============================================================================
