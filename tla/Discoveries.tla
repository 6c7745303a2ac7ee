----------------------------- MODULE Discoveries -----------------------------
(***************************************************************************)
(* The jobs found for one user, service.py 712-888 and app.py 3517-3621:   *)
(* scans, runs of a saved search, captured pages and forwarded mails look  *)
(* each posting up among the rows and then insert it or note it on the row *)
(* it matches; the user imports rows as applications.  The rows are shared *)
(* objects in a dictionary, saved under their id, so that saving one that  *)
(* has been removed brings it back.  Nothing locks a look to the save that *)
(* follows it.                                                             *)
(***************************************************************************)
EXTENDS Naturals, Sequences, FiniteSets, FiniteSetsExt

CONSTANTS
    Postings,       \* [page, title, place, company, host]; company 0: unknown
    Unplaced,       \* the place of a posting that names none
    Hands,          \* threads
    MaxFound,       \* bounds on the rows, applications and companies ever made
    MaxApps,
    MaxCompanies,
    MaxTouched      \* bound on what is ever worked on at once

ASSUME DiscoveriesAssumption ==
    /\ \A p \in Postings : p.company \in {0, 1}
    /\ MaxFound \in Nat /\ MaxApps \in Nat /\ MaxCompanies \in Nat \ {0}
    /\ MaxTouched \in Nat

VARIABLES
    seen,           \* every row made: what was found, its company, its application
    kept,           \* ids of the rows in the dictionary
    apps, appsKept, \* applications made: the row and company of each; those kept
    firms, firmsKept, \* companies made, by name: the first is watched; those kept
    hand,           \* what each thread is doing
    touched         \* history: pages and names two threads worked on at once, or
                    \* a thread died on

dscVars == <<seen, kept, apps, appsKept, firms, firmsKept, hand, touched>>

NoHand  == [at |-> "none"]
Pages   == {p.page : p \in Postings}
Hosts   == {p.host : p \in Postings}
Row(p)  == [posting |-> p, company |-> p.company, app |-> 0]
FoundRows   == [posting : Postings, company : 0..MaxCompanies, app : 0..MaxApps]
RowNos  == 1..MaxFound
Handing == {NoHand}
    \cup [at : {"insert"}, posting : Postings]
    \cup [at : {"merge"}, row : RowNos, posting : Postings]
    \cup [at : {"company", "create", "apply"}, row : RowNos]
    \cup [at : {"link"}, row : RowNos, app : 1..MaxApps]

DscInit ==
    /\ seen = <<>> /\ kept = {}
    /\ apps = <<>> /\ appsKept = {}
    /\ firms = <<"watched">> /\ firmsKept = {1}
    /\ hand = [h \in Hands |-> NoHand]
    /\ touched = {}

\* The pages a thread is about to save, and the name of the company it is
\* about to make.
PagesOf(d) ==
    CASE d.at = "none"   -> {}
      [] d.at = "insert" -> {d.posting.page}
      [] d.at = "merge"  -> {d.posting.page, seen[d.row].posting.page}
      [] OTHER           -> {seen[d.row].posting.page}
HostsOf(d) == IF d.at \in {"company", "create"} THEN {seen[d.row].posting.host} ELSE {}
Holds(d)   == PagesOf(d) \cup HostsOf(d)
Held(hs)   == UNION {Holds(hand[h]) : h \in hs}

Turns(h, d) ==
    /\ hand' = [hand EXCEPT ![h] = d]
    /\ touched' = touched \cup (Holds(d) \cap Held(Hands \ {h}))

(***************************************************************************)
(* Finding.                                                                *)
(***************************************************************************)

\* find_duplicate: the page; the title at the same company, and no company is
\* the same as no company; the title and a place that is known.
Duplicate(i, p) ==
    LET q == seen[i].posting
    IN  \/ q.page = p.page
        \/ /\ q.title = p.title
           /\ seen[i].company = p.company \/ (q.place = p.place /\ p.place # Unplaced)

\* One posting of what a source returned: a career page of the watched company,
\* or a source that knows no company.  The next one is looked up after it.
LookFor(h, p) ==
    LET alike == {i \in kept : Duplicate(i, p)}
    IN  /\ hand[h] = NoHand /\ p.company \in firmsKept \cup {0}
        /\ Turns(h, IF alike = {} THEN [at |-> "insert", posting |-> p]
                    ELSE [at |-> "merge", row |-> Min(alike), posting |-> p])
        /\ UNCHANGED <<seen, kept, apps, appsKept, firms, firmsKept>>

InsertRow(h) ==
    /\ hand[h].at = "insert" /\ Len(seen) < MaxFound
    /\ seen' = Append(seen, Row(hand[h].posting))
    /\ kept' = kept \cup {Len(seen')}
    /\ hand' = [hand EXCEPT ![h] = NoHand]
    /\ UNCHANGED <<apps, appsKept, firms, firmsKept, touched>>

\* also_seen_at takes the sighting, and the row is saved.
MergeRow(h) ==
    /\ hand[h].at = "merge"
    /\ kept' = kept \cup {hand[h].row}
    /\ hand' = [hand EXCEPT ![h] = NoHand]
    /\ UNCHANGED <<seen, apps, appsKept, firms, firmsKept, touched>>

(***************************************************************************)
(* import_discovered_job.                                                  *)
(***************************************************************************)
\* mutant of NotImported: a row may be imported again
NotImportedEver(i) == TRUE

NotImported(i) == seen[i].app = 0

BeginImport(h, i) ==
    /\ hand[h] = NoHand /\ i \in kept /\ NotImported(i)
    /\ seen[i].company \in firmsKept \cup {0}
    /\ Turns(h, [at |-> IF seen[i].company = 0 THEN "company" ELSE "apply", row |-> i])
    /\ UNCHANGED <<seen, kept, apps, appsKept, firms, firmsKept>>

AtCompany(i, c) == /\ seen' = [seen EXCEPT ![i].company = c]
                   /\ kept' = kept \cup {i}

\* _placeholder_company_for: the company of that name, or a new one.
FindPlaceholder(h) ==
    LET i     == hand[h].row
        known == {c \in firmsKept : firms[c] = seen[i].posting.host}
    IN  /\ hand[h].at = "company"
        /\ IF known = {}
           THEN /\ hand' = [hand EXCEPT ![h].at = "create"]
                /\ UNCHANGED <<seen, kept>>
           ELSE /\ AtCompany(i, Min(known))
                /\ hand' = [hand EXCEPT ![h].at = "apply"]
        /\ UNCHANGED <<apps, appsKept, firms, firmsKept, touched>>

MakePlaceholder(h) ==
    LET i == hand[h].row
    IN  /\ hand[h].at = "create" /\ Len(firms) < MaxCompanies
        /\ firms' = Append(firms, seen[i].posting.host)
        /\ firmsKept' = firmsKept \cup {Len(firms')}
        /\ AtCompany(i, Len(firms'))
        /\ hand' = [hand EXCEPT ![h].at = "apply"]
        /\ UNCHANGED <<apps, appsKept, touched>>

SaveApp(h) ==
    LET i == hand[h].row
    IN  /\ hand[h].at = "apply" /\ Len(apps) < MaxApps
        /\ apps' = Append(apps, [row |-> i, company |-> seen[i].company])
        /\ appsKept' = appsKept \cup {Len(apps')}
        /\ hand' = [hand EXCEPT ![h] = [at |-> "link", row |-> i, app |-> Len(apps')]]
        /\ UNCHANGED <<seen, kept, firms, firmsKept, touched>>

LinkApp(h) ==
    LET d == hand[h]
    IN  /\ d.at = "link"
        /\ seen' = [seen EXCEPT ![d.row].app = d.app]
        /\ kept' = kept \cup {d.row}
        /\ hand' = [hand EXCEPT ![h] = NoHand]
        /\ UNCHANGED <<apps, appsKept, firms, firmsKept, touched>>

(***************************************************************************)
(* Removing.                                                               *)
(***************************************************************************)
Removes(ids) == /\ kept' = kept \ ids
                /\ touched' = touched \cup ({seen[i].posting.page : i \in ids} \cap Held(Hands))

\* The retention purge spares what was imported.
PurgeRow(i) ==
    /\ i \in kept /\ seen[i].app = 0
    /\ Removes({i})
    /\ UNCHANGED <<seen, apps, appsKept, firms, firmsKept, hand>>

\* delete_company takes its rows and applications along.
DeleteCompany(c) ==
    /\ c \in firmsKept
    /\ firmsKept' = firmsKept \ {c}
    /\ kept' = {i \in kept : seen[i].company # c}
    /\ appsKept' = {a \in appsKept : apps[a].company # c}
    /\ touched' = touched \cup Held(Hands)
    /\ UNCHANGED <<seen, apps, firms, hand>>

DscRestart ==
    /\ \E h \in Hands : hand[h] # NoHand
    /\ hand' = [h \in Hands |-> NoHand]
    /\ touched' = touched \cup Held(Hands)
    /\ UNCHANGED <<seen, kept, apps, appsKept, firms, firmsKept>>

DscNext ==
  /\ \/ \E h \in Hands :
          \/ \E p \in Postings : LookFor(h, p)
          \/ InsertRow(h) \/ MergeRow(h)
          \/ \E i \in kept : BeginImport(h, i)
          \/ FindPlaceholder(h) \/ MakePlaceholder(h) \/ SaveApp(h) \/ LinkApp(h)
     \/ DscRestart
     \/ \E i \in kept : PurgeRow(i)
     \/ \E c \in firmsKept : DeleteCompany(c)
  /\ Cardinality(touched') <= MaxTouched

DscSpec == DscInit /\ [][DscNext]_dscVars

\* Every record is well formed.
DscTypeOK ==
    /\ seen \in Seq(FoundRows) /\ kept \subseteq DOMAIN seen
    /\ \A a \in DOMAIN apps : apps[a].row \in DOMAIN seen
    /\ appsKept \subseteq DOMAIN apps /\ firmsKept \subseteq DOMAIN firms
    /\ \A h \in Hands : hand[h] \in Handing
    /\ touched \subseteq Pages \cup Hosts

Untouched(i) == seen[i].posting.page \notin touched

\* However often a page is found it has one row, a row one application and
\* one company, and what is removed stays removed: unless two threads worked
\* on the same page or the same employer at once, or one died on it, for then
\* a look and the save after it come apart (service.py 714, 812, 847).
DiscoveriesHold ==
    /\ \A i, j \in kept : i # j /\ Untouched(i) => seen[i].posting.page # seen[j].posting.page
    /\ \A i \in kept : Untouched(i) =>
         /\ seen[i].company \in firmsKept \cup {0}
         /\ seen[i].app \in appsKept \cup {0}
         /\ Cardinality({a \in appsKept : apps[a].row = i}) <= 1
    /\ \A c, e \in firmsKept : c # e /\ firms[c] = firms[e] => firms[c] \in touched
    /\ \A a \in appsKept : Untouched(apps[a].row) => apps[a].row \in kept
=============================================================================
