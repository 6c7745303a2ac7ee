------------------------------- MODULE Exports ------------------------------
(***************************************************************************)
(* Taking one's data along: the export reads one list after the other and  *)
(* the rows themselves when it is written out (app.py 3210-3386), while    *)
(* other requests work; the import saves a copy of each row under a new    *)
(* id, one by one (3388-3466).                                             *)
(***************************************************************************)
EXTENDS Naturals, FiniteSets, Functions

CONSTANTS
    Owners,             \* users
    MaxOwn, MaxIds      \* bounds: ids for own rows, ids with the copies

ASSUME ExportsAssumption == MaxIds \in Nat /\ MaxOwn \in 0..MaxIds

VARIABLES
    stock,      \* id -> the row: companies, jobs found and jobs imported
    lastId,     \* ids are new_id
    exporting,  \* what the export has listed so far
    file,       \* the file of the last export
    importing,  \* what the import has still to save
    copied,     \* history: the last import that came to its end
    disturbed   \* history: a torn file was imported, or rows were deleted meanwhile

expVars == <<stock, lastId, exporting, file, importing, copied, disturbed>>

None == 0
RowKinds == {"company", "found", "imported"}
\* of: the company; pair: the imported job of a found one, and the other way.
Row(kind, u, of, pair) == [kind |-> kind, owner |-> u, of |-> of, pair |-> pair]

NoExport == [at |-> "none", owner |-> "none", listed |-> <<>>, torn |-> FALSE]
NoFile   == [owner |-> "none", items |-> <<>>, torn |-> FALSE]
NoImport == [owner |-> "none", ids |-> <<>>, left |-> {}]
NoCopy   == [owner |-> "none", ids |-> <<>>, of |-> NoFile]

ExpInit ==
    /\ stock = <<>> /\ lastId = 0 /\ exporting = NoExport /\ file = NoFile
    /\ importing = NoImport /\ copied = NoCopy /\ disturbed = FALSE

OfKind(kind, u) == {i \in DOMAIN stock : stock[i].kind = kind /\ stock[i].owner = u}

Has(i, row) == [j \in DOMAIN stock \cup {i} |-> IF j = i THEN row ELSE stock[j]]

-----------------------------------------------------------------------------
(* What else the user does. *)

\* A change while an export is being made.
Tears(u) == exporting' = IF exporting.owner = u THEN [exporting EXCEPT !.torn = TRUE] ELSE exporting

Adds(row) ==
    /\ lastId < MaxOwn /\ lastId' = lastId + 1 /\ stock' = Has(lastId + 1, row)
    /\ Tears(row.owner) /\ UNCHANGED <<file, importing, copied, disturbed>>

AddsCompany(u) == Adds(Row("company", u, None, None))
Finds(u) == \E c \in OfKind("company", u) \cup {None} : Adds(Row("found", u, c, None))

\* The company of a found job, or for one of no company an earlier one of the
\* name or a new one.
ImportsJob(d) ==
    LET r == stock[d] IN
    \E c \in IF r.of # None THEN {r.of} \cap OfKind("company", r.owner)
             ELSE OfKind("company", r.owner) \cup {lastId + 1} :
        LET new == IF c \in DOMAIN stock THEN stock ELSE Has(c, Row("company", r.owner, None, None))
            i == IF c \in DOMAIN stock THEN lastId + 1 ELSE c + 1
        IN  /\ r.kind = "found" /\ r.pair = None
            /\ i <= MaxOwn /\ lastId' = i
            /\ stock' = [j \in DOMAIN new \cup {i} |->
                           CASE j = i -> Row("imported", r.owner, c, d)
                             [] j = d -> Row("found", r.owner, c, i)
                             [] OTHER -> new[j]]
            /\ Tears(r.owner) /\ UNCHANGED <<file, importing, copied, disturbed>>

\* With all that is of the company.
DeletesCompany(c) ==
    LET u == stock[c].owner
        gone == {i \in DOMAIN stock : i = c \/ (stock[i].of = c /\ stock[i].owner = u)}
    IN  /\ stock[c].kind = "company"
        /\ stock' = Restrict(stock, DOMAIN stock \ gone) /\ Tears(u)
        /\ copied' = IF copied.owner = u THEN NoCopy ELSE copied
        /\ disturbed' = (disturbed \/ importing.owner = u)
        /\ UNCHANGED <<lastId, file, importing>>

-----------------------------------------------------------------------------
Lists(u, kind, at) ==
    /\ exporting' = [exporting EXCEPT !.owner = u, !.at = at, 
                      !.listed = [i \in DOMAIN @ \cup OfKind(kind, u) |->
                                    IF i \in DOMAIN @ THEN @[i] ELSE stock[i]]]
    /\ UNCHANGED <<stock, lastId, file, importing, copied, disturbed>>

\* Bound: one file.
ListsCompanies(u) == exporting.at = "none" /\ file = NoFile /\ Lists(u, "company", "found")
ListsFound    == exporting.at = "found" /\ Lists(exporting.owner, "found", "imported")
ListsImported == exporting.at = "imported" /\ Lists(exporting.owner, "imported", "write")

\* The rows that were listed are written as they are by now; one that was
\* deleted since is written too.  The file an import reads is not replaced.
WritesFile ==
    /\ exporting.at = "write" /\ importing = NoImport
    /\ file' = [owner |-> exporting.owner, torn |-> exporting.torn,
                items |-> [i \in DOMAIN exporting.listed |->
                              IF i \in DOMAIN stock THEN stock[i] ELSE exporting.listed[i]]]
    /\ exporting' = NoExport
    /\ UNCHANGED <<stock, lastId, importing, copied, disturbed>>

-----------------------------------------------------------------------------
\* Every item gets a new id before the first is saved.
ImportStarts(u) ==
    LET n == Cardinality(DOMAIN file.items)
    IN  /\ importing = NoImport /\ n > 0 /\ lastId + n <= MaxIds /\ lastId' = lastId + n
        /\ \E ids \in [DOMAIN file.items -> (lastId + 1)..(lastId + n)] :
              /\ \A i, j \in DOMAIN ids : i < j => ids[i] < ids[j]
              /\ importing' = [owner |-> u, ids |-> ids, left |-> DOMAIN ids]
        /\ copied' = NoCopy /\ disturbed' = (disturbed \/ file.torn)
        /\ Tears(u) /\ UNCHANGED <<stock, file>>

\* A reference to an item of the file, one that is not in it kept or dropped.
Mapped(i)  == IF i \in DOMAIN importing.ids THEN importing.ids[i] ELSE i
\* mutant of Dropped: the id is taken as it stands
DroppedKept(i) == i
Dropped(i) == IF i \in DOMAIN importing.ids THEN importing.ids[i] ELSE None

Copy(item) ==
    Row(item.kind, importing.owner, Mapped(item.of),
        IF item.kind = "found" THEN Dropped(item.pair) ELSE Mapped(item.pair))

Order == [kind \in RowKinds |-> CASE kind = "company" -> 1 [] kind = "found" -> 2 [] OTHER -> 3]

\* The next item, companies first; after the last the import is over.
ImportSaves(i) ==
    LET left == importing.left \ {i}
    IN  /\ i \in importing.left
        /\ \A j \in importing.left : Order[file.items[i].kind] <= Order[file.items[j].kind]
        /\ stock' = Has(importing.ids[i], Copy(file.items[i]))
        /\ importing' = IF left = {} THEN NoImport ELSE [importing EXCEPT !.left = left]
        /\ copied' = IF left = {} THEN [owner |-> importing.owner, ids |-> importing.ids,
                                         of |-> file] ELSE copied
        /\ Tears(importing.owner) /\ UNCHANGED <<lastId, file, disturbed>>

\* An item is no row of this release, or a save fails, or the server stops:
\* what is saved stays.
ImportFails ==
    /\ importing # NoImport /\ importing' = NoImport
    /\ disturbed' = TRUE
    /\ UNCHANGED <<stock, lastId, exporting, file, copied>>

ExpNext ==
    \/ ListsFound \/ ListsImported \/ WritesFile \/ ImportFails
    \/ \E u \in Owners : AddsCompany(u) \/ Finds(u) \/ ListsCompanies(u) \/ ImportStarts(u)
    \/ \E i \in DOMAIN stock : ImportsJob(i) \/ DeletesCompany(i)
    \/ \E i \in importing.left : ImportSaves(i)

ExpSpec == ExpInit /\ [][ExpNext]_expVars

-----------------------------------------------------------------------------
ExpTypeOK ==
    /\ lastId \in 0..MaxIds /\ DOMAIN stock \subseteq 1..lastId
    /\ \A i \in DOMAIN stock : stock[i].kind \in RowKinds /\ stock[i].owner \in Owners
    /\ exporting.at \in {"none", "found", "imported", "write"} /\ disturbed \in BOOLEAN

\* What a row refers to is there and of the same user, unless an import was of
\* a file that was not of one moment, or was cut off or met a deletion.
ReferencesHold ==
    importing = NoImport /\ ~disturbed =>
        \A i \in DOMAIN stock : \A j \in {stock[i].of, stock[i].pair} \ {None} :
            j \in DOMAIN stock /\ stock[j].owner = stock[i].owner

\* The two halves of an imported job name each other.
PairsAgree ==
    importing = NoImport /\ ~disturbed =>
        \A i \in DOMAIN stock : stock[i].pair # None => stock[stock[i].pair].pair = i

\* An export nobody disturbed has all it refers to.
FileClosed ==
    ~file.torn /\ ~disturbed => \A i \in DOMAIN file.items :
        {file.items[i].of, file.items[i].pair} \subseteq DOMAIN file.items \cup {None}

\* An import that came to its end has made every row of the file anew, of the
\* user who imported it, and the copies refer to each other as the rows did.
CopiesWhole ==
    copied # NoCopy /\ ~disturbed =>
        \A i \in DOMAIN copied.ids :
            LET n == copied.ids[i] r == copied.of.items[i]
            IN  /\ n \in DOMAIN stock /\ stock[n].kind = r.kind /\ stock[n].owner = copied.owner
                /\ r.of # None => stock[n].of = copied.ids[r.of]
                /\ r.pair # None => stock[n].pair = copied.ids[r.pair]

ExportsHold == ReferencesHold /\ PairsAgree /\ FileClosed /\ CopiesWhole
=============================================================================
