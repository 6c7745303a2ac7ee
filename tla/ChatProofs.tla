----------------------------- MODULE ChatProofs -----------------------------
(***************************************************************************)
(* Proofs about the chat (module Chat), for any number of request threads, *)
(* whatever messages the user sends by each: types, that no journey ends   *)
(* unless the user or a search of theirs ended it, that the next message   *)
(* is taken to answer what the last reply asked, and that auto-relax does  *)
(* not repeat itself.  The first half is about what one message does to    *)
(* the record (module Journey), the second about the interleavings.        *)
(***************************************************************************)
EXTENDS Chat, TLAPS

Results == [journey : Journeys, persist : BOOLEAN, search : BOOLEAN, cv : BOOLEAN,
            located : BOOLEAN]

\* Auto-relax always has a suggestion in mind while it waits for an answer.
Sound(j) == j \in Journeys /\ (j.sub = "auto_relax_offering" => j.offered \in Widenings)

\* The reply shows what the record will be read by.
Tied(j) == Shows(j) = Reads(j)

\* Before the first search of a journey nothing has been suggested.
Early(j) == j.phase \in {"greet", "discover", "cv_check", "inspire", "preferences", "search"}

\* Records with which the answers of the user are forgotten.
Wiped(j) == j.phase = "greet" \/ j.results # {} \/ j.step # "done"

\* What the record remembers of the answers: what was done, what was declined,
\* and the roles that are being chosen from.
Justified(j) == j.applied \cup j.declined
                  \cup (IF j.sub = "laterals_offered" THEN {TryLaterals} ELSE {})

\* The record of r accounts for the answers in A.
Explained(A, r) ==
    \/ A = {}
    \/ Wiped(r.journey)
    \/ r.journey.phase = "done" /\ ~r.search
    \/ /\ ~Early(r.journey)
       /\ A \subseteq (IF r.search THEN r.journey.applied \cup r.journey.declined
                       ELSE Justified(r.journey))

\* The suggestion that msg answers when it is read by j.
Meant(j, msg) ==
    IF /\ j.phase = "review" /\ j.sub = "auto_relax_offering"
       /\ msg \in AutoAdvanceTokens \cup AutoDeclineTokens
    THEN {j.offered} ELSE {}

\* What every message does to every record j: r is sound, shows what is stored,
\* and forgets no answer.
Outcome(j, msg, r) ==
    /\ r \in Results /\ Sound(r.journey)
    /\ r.persist => /\ ~r.search => Tied(r.journey)
                    /\ Early(j) \/ j.phase = "done" \/ Explained(Justified(j) \cup Meant(j, msg), r)
                    /\ j.phase = "done" => Explained(Widenings, r)
    /\ ~r.persist => /\ ~r.search
                     /\ r.journey.applied = j.applied /\ r.journey.declined = j.declined

-----------------------------------------------------------------------------
(* Records and replies *)

LEMMA FieldsOf ==
    ASSUME NEW j \in Journeys
    PROVE  /\ j.phase \in Phases /\ j.step \in {"role", "location", "years", "langs", "done"}
           /\ j.role \in Roles /\ j.bucket \in BOOLEAN /\ j.matched \in BOOLEAN
           /\ j.located \in BOOLEAN /\ j.typo \in BOOLEAN
           /\ j.cv \in {"unknown", "building", "uploaded"} /\ j.build \in 0..BuildSteps
           /\ j.laterals \in SUBSET Laterals /\ j.primary \in Roles \cup {"absent"}
           /\ j.extra \in SUBSET Laterals /\ j.results \in SUBSET Categories
           /\ j.picked \in Categories \cup {""}
           /\ j.sub \in {"", "empty", "laterals_offered", "auto_relax_offering"}
           /\ j.constrained \in BOOLEAN /\ j.applied \in SUBSET Widenings
           /\ j.proposed \in Seq(Laterals) /\ j.active \in BOOLEAN
           /\ j.declined \in SUBSET Widenings /\ j.offered \in Widenings \cup {""}
    BY DEF Journeys

LEMMA Replies ==
    ASSUME NEW k \in Journeys
    PROVE  /\ Saved(k) \in Results /\ Saved(k).journey = k
           /\ Saved(k).persist /\ ~Saved(k).search
           /\ Search(k) \in Results /\ Search(k).journey = k
           /\ Search(k).persist /\ Search(k).search
           /\ Unsaved(k) \in Results /\ Unsaved(k).journey = k
           /\ ~Unsaved(k).persist /\ ~Unsaved(k).search
<1>1. PICK yes \in BOOLEAN, no \in BOOLEAN : yes = TRUE /\ no = FALSE
    OBVIOUS
<1>2. PICK s : s = [journey |-> k, persist |-> yes, search |-> no, cv |-> no, located |-> no]
    OBVIOUS
<1>3. PICK q : q = [s EXCEPT !.search = yes]
    OBVIOUS
<1>4. PICK u : u = [s EXCEPT !.persist = no]
    OBVIOUS
<1>5. Saved(k) = s /\ Search(k) = q /\ Unsaved(k) = u
    BY <1>1, <1>2, <1>3, <1>4, Zenon DEF Saved, Search, Unsaved
<1>6. s \in Results /\ s.journey = k /\ s.persist = yes /\ s.search = no
    BY <1>2 DEF Results
<1>7. q \in Results /\ q.journey = k /\ q.persist = yes /\ q.search = yes
    BY <1>3, <1>6 DEF Results
<1>8. u \in Results /\ u.journey = k /\ u.persist = no /\ u.search = no
    BY <1>4, <1>6 DEF Results
<1> QED
    BY <1>1, <1>5, <1>6, <1>7, <1>8

\* A reply may also write the CV or the place into the profile.
LEMMA AlsoWrites ==
    ASSUME NEW j, NEW msg, NEW r, Outcome(j, msg, r), NEW yes \in BOOLEAN
    PROVE  Outcome(j, msg, [r EXCEPT !.cv = yes]) /\ Outcome(j, msg, [r EXCEPT !.located = yes])
<1>1. ASSUME NEW q \in Results, q.journey = r.journey, q.persist = r.persist,
             q.search = r.search
      PROVE  Outcome(j, msg, q)
    BY <1>1 DEF Outcome, Explained
<1>2. r \in Results
    BY DEF Outcome
<1>3. PICK q : q = [r EXCEPT !.cv = yes]
    OBVIOUS
<1>4. PICK p : p = [r EXCEPT !.located = yes]
    OBVIOUS
<1>5. q \in Results /\ q.journey = r.journey /\ q.persist = r.persist /\ q.search = r.search
    BY <1>2, <1>3 DEF Results
<1>6. p \in Results /\ p.journey = r.journey /\ p.persist = r.persist /\ p.search = r.search
    BY <1>2, <1>4 DEF Results
<1>7. Outcome(j, msg, q) /\ Outcome(j, msg, p)
    BY <1>1, <1>5, <1>6
<1> QED
    BY <1>3, <1>4, <1>7

LEMMA NotSuggesting ==
    ASSUME NEW j \in Journeys, j.phase # "review" \/ j.sub # "auto_relax_offering"
    PROVE  Asks(j) # "suggestion" /\ Tied(j)
<1>1. Asks(j) # "suggestion"
  <2>1. CASE j.phase # "review"
    <3>1. j.step \in {"role", "location", "years", "langs", "done"}
        BY FieldsOf
    <3> QED
        BY <2>1, <3>1 DEF Asks
  <2>2. CASE j.phase = "review" /\ j.sub # "auto_relax_offering"
      BY <2>2 DEF Asks
  <2> QED
      BY <2>1, <2>2
<1> QED
    BY <1>1 DEF Tied, Shows, Reads

-----------------------------------------------------------------------------
(* Before the first search *)

\* Whatever a message does before the first search, nothing of what was
\* suggested changes.
Same(j, k) == k.sub = j.sub /\ k.offered = j.offered /\ k.applied = j.applied
              /\ k.declined = j.declined

LEMMA EarlyOutcome ==
    ASSUME NEW j, Sound(j), Early(j), NEW k \in Journeys, Same(j, k), k.phase # "review", NEW msg
    PROVE  Outcome(j, msg, Saved(k)) /\ Outcome(j, msg, Search(k)) /\ Outcome(j, msg, Unsaved(k))
<1>1. Sound(k) /\ Tied(k)
    BY NotSuggesting DEF Sound, Same
<1>2. j.phase # "done"
    BY DEF Early
<1> QED
    BY <1>1, <1>2, Replies DEF Outcome, Same

LEMMA EarlyFor ==
    ASSUME NEW j, NEW k, Sound(j), Early(j), Same(j, k), NEW msg, NEW word, NEW r, Outcome(k, word, r)
    PROVE  Outcome(j, msg, r)
<1>1. j.phase # "done"
    BY DEF Early
<1> QED
    BY <1>1 DEF Outcome, Same

LEMMA DiscoverOutcome ==
    ASSUME NEW j, Sound(j), j.phase = "discover", NEW msg \in Messages \cup {""}
    PROVE  Outcome(j, msg, Discover(j, msg))
<1>1. j \in Journeys /\ Early(j)
    BY DEF Sound, Early
<1>2. ASSUME NEW k \in Journeys, Same(j, k), k.phase # "review"
      PROVE  Outcome(j, msg, Saved(k)) /\ Outcome(j, msg, Unsaved(k))
    BY <1>1, <1>2, EarlyOutcome
<1>3. Outcome(j, msg, Unsaved(j))
    BY <1>1, <1>2 DEF Same
<1>y. PICK yes \in BOOLEAN : yes = TRUE
    OBVIOUS
<1>z. yes \in BOOLEAN
    BY <1>y
<1>4. CASE j.step = "role" /\ msg # ""
  <2>1. PICK r \in Roles : r = RoleOf(msg)
      BY DEF RoleOf, Roles
  <2>2. PICK b \in BOOLEAN : b = (j.bucket \/ msg \in Bucketed)
      OBVIOUS
  <2>3. PICK m \in BOOLEAN : m = (j.matched \/ msg \in Bucketed)
      OBVIOUS
  <2>4. PICK k : k = [j EXCEPT !.role = r, !.step = "location", !.bucket = b, !.matched = m]
      OBVIOUS
  <2>5. k \in Journeys /\ Same(j, k) /\ k.phase = "discover"
      BY <1>1, <2>4 DEF Journeys, Same
  <2>6. Discover(j, msg) = Saved(k)
      BY <1>4, <2>1, <2>2, <2>3, <2>4 DEF Discover
  <2> QED
      BY <1>2, <2>5, <2>6
<1>5. CASE j.step = "location" /\ msg # "" /\ msg = Typo /\ ~j.typo
  <2>1. PICK k : k = [j EXCEPT !.typo = TRUE]
      OBVIOUS
  <2>2. k \in Journeys /\ Same(j, k) /\ k.phase = "discover"
      BY <1>1, <2>1 DEF Journeys, Same
  <2>3. Discover(j, msg) = Saved(k)
      BY <1>5, <2>1 DEF Discover
  <2> QED
      BY <1>2, <2>2, <2>3
<1>6. CASE j.step = "location" /\ msg # "" /\ ~(msg = Typo /\ ~j.typo)
  <2>1. PICK k : k = [j EXCEPT !.located = TRUE, !.typo = FALSE, !.step = "years"]
      OBVIOUS
  <2>2. k \in Journeys /\ Same(j, k) /\ k.phase = "discover"
      BY <1>1, <2>1 DEF Journeys, Same
  <2>3. PICK r : r = Saved(k)
      OBVIOUS
  <2>4. Discover(j, msg) = [r EXCEPT !.located = yes]
      BY <1>6, <1>y, <2>1, <2>3 DEF Discover
  <2>5. Outcome(j, msg, r)
      BY <1>2, <2>2, <2>3
  <2>6. Outcome(j, msg, [r EXCEPT !.located = yes])
      BY <2>5, <1>z, AlsoWrites
  <2> QED
      BY <2>4, <2>6
<1>7. CASE j.step = "years"
  <2>1. PICK k : k = [j EXCEPT !.step = "langs"]
      OBVIOUS
  <2>2. k \in Journeys /\ Same(j, k) /\ k.phase = "discover"
      BY <1>1, <2>1 DEF Journeys, Same
  <2>3. Discover(j, msg) = Saved(k)
      BY <1>7, <2>1 DEF Discover
  <2> QED
      BY <1>2, <2>2, <2>3
<1>8. CASE j.step = "langs"
  <2>1. PICK k : k = [j EXCEPT !.step = "done", !.phase = "cv_check"]
      OBVIOUS
  <2>2. k \in Journeys /\ Same(j, k) /\ k.phase = "cv_check"
      BY <1>1, <2>1 DEF Journeys, Same, Phases
  <2>3. Discover(j, msg) = Saved(k)
      BY <1>8, <2>1 DEF Discover
  <2> QED
      BY <1>2, <2>2, <2>3
<1>9. CASE j.step = "done"
  <2>1. PICK k : k = [j EXCEPT !.step = "role"]
      OBVIOUS
  <2>2. k \in Journeys /\ Same(j, k) /\ k.phase = "discover"
      BY <1>1, <2>1 DEF Journeys, Same
  <2>3. Discover(j, msg) = Saved(k)
      BY <1>9, <2>1 DEF Discover
  <2> QED
      BY <1>2, <2>2, <2>3
<1>10. CASE j.step \in {"role", "location"} /\ msg = ""
  <2>1. Discover(j, msg) = Unsaved(j)
      BY <1>10 DEF Discover
  <2> QED
      BY <1>3, <2>1
<1> QED
    BY <1>1, <1>4, <1>5, <1>6, <1>7, <1>8, <1>9, <1>10, FieldsOf

LEMMA SuggestedIs == ASSUME NEW j \in Journeys PROVE Suggested(j) \in Laterals
<1>1. PICK r \in Roles : r = IF j.bucket THEN "nurse" ELSE IF j.role = "" THEN "job" ELSE j.role
  <2>1. "nurse" \in Roles /\ "job" \in Roles /\ j.role \in Roles
      BY FieldsOf DEF Roles, RoleMessages
  <2> QED
      BY <2>1
<1> QED
    BY <1>1 DEF Suggested, Laterals

LEMMA InspireOutcome ==
    ASSUME NEW j, Sound(j), j.phase = "inspire", NEW msg, NEW ai \in BOOLEAN
    PROVE  Outcome(j, msg, Inspire(j, msg, ai))
<1>1. j \in Journeys /\ Early(j)
    BY DEF Sound, Early
<1>2. ASSUME NEW k \in Journeys, Same(j, k), k.phase # "review"
      PROVE  Outcome(j, msg, Saved(k)) /\ Outcome(j, msg, Unsaved(k))
    BY <1>1, <1>2, EarlyOutcome
<1>3. Outcome(j, msg, Unsaved(j))
    BY <1>1, <1>2 DEF Same
<1>4. CASE j.laterals = {}
  <2>1. PICK l \in SUBSET Laterals : l = IF ai THEN {<<"ai", j.role>>} ELSE {Suggested(j)}
    <3>1. <<"ai", j.role>> \in Laterals /\ Suggested(j) \in Laterals
        BY <1>1, FieldsOf, SuggestedIs DEF Laterals
    <3> QED
        BY <3>1
  <2>2. PICK k : k = [j EXCEPT !.laterals = l]
      OBVIOUS
  <2>3. k \in Journeys /\ Same(j, k) /\ k.phase = "inspire"
      BY <1>1, <2>2 DEF Journeys, Same
  <2>4. Inspire(j, msg, ai) = Saved(k)
      BY <1>4, <2>1, <2>2 DEF Inspire
  <2> QED
      BY <1>2, <2>3, <2>4
<1>5. ASSUME NEW others, others = j.laterals \/ others = {}
      PROVE  Outcome(j, msg, Saved([j EXCEPT !.phase = "preferences",
                                             !.primary = IF j.matched THEN "nurse" ELSE j.role,
                                             !.extra = others]))
  <2>1. PICK p \in Roles \cup {"absent"} : p = IF j.matched THEN "nurse" ELSE j.role
    <3>1. "nurse" \in Roles /\ j.role \in Roles
        BY <1>1, FieldsOf DEF Roles, RoleMessages
    <3> QED
        BY <3>1
  <2>2. PICK e \in SUBSET Laterals : e = others
      BY <1>1, <1>5, FieldsOf
  <2>3. PICK k : k = [j EXCEPT !.phase = "preferences", !.primary = p, !.extra = e]
      OBVIOUS
  <2>4. k \in Journeys /\ Same(j, k) /\ k.phase = "preferences"
      BY <1>1, <2>3 DEF Journeys, Same, Phases
  <2> QED
      BY <1>2, <2>1, <2>2, <2>3, <2>4
<1>6. CASE j.laterals # {}
    BY <1>3, <1>5, <1>6 DEF Inspire
<1> QED
    BY <1>4, <1>6

LEMMA BuildIs ==
    /\ 0 \in 0..BuildSteps /\ ~(BuildSteps < BuildSteps) /\ BuildSteps + 1 # BuildSteps
    /\ \A n \in 0..BuildSteps : n # BuildSteps => n < BuildSteps /\ n + 1 \in 0..BuildSteps
    BY BuildStepsAssumption

LEMMA CvOutcome ==
    ASSUME NEW j, Sound(j), j.phase = "cv_check", NEW msg, NEW hasCv
    PROVE  Outcome(j, msg, CvCheck(j, msg, hasCv))
<1>1. j \in Journeys /\ Early(j)
    BY DEF Sound, Early
<1>2. ASSUME NEW k \in Journeys, Same(j, k), k.phase # "review"
      PROVE  Outcome(j, msg, Saved(k)) /\ Outcome(j, msg, Unsaved(k))
    BY <1>1, <1>2, EarlyOutcome
<1>3. Outcome(j, msg, Unsaved(j))
    BY <1>1, <1>2 DEF Same
<1>y. PICK yes \in BOOLEAN : yes = TRUE
    OBVIOUS
<1>z. yes \in BOOLEAN
    BY <1>y
<1>4. ASSUME NEW k \in Journeys, Same(j, k), k.phase = "inspire"
      PROVE  Outcome(j, msg, Inspire(k, "", FALSE))
  <2>1. Sound(k)
      BY <1>4 DEF Sound, Same
  <2>2. Outcome(k, "", Inspire(k, "", FALSE))
      BY <1>4, <2>1, InspireOutcome
  <2> QED
      BY <1>1, <1>4, <2>2, EarlyFor
<1>5. Outcome(j, msg, Inspire([j EXCEPT !.phase = "inspire", !.cv = "uploaded"], "", FALSE))
  <2>1. PICK k : k = [j EXCEPT !.phase = "inspire", !.cv = "uploaded"]
      OBVIOUS
  <2>2. k \in Journeys /\ Same(j, k) /\ k.phase = "inspire"
      BY <1>1, <2>1 DEF Journeys, Same, Phases
  <2> QED
      BY <1>4, <2>1, <2>2
<1>6. Outcome(j, msg, Saved([j EXCEPT !.cv = "building", !.build = 0]))
  <2>1. PICK k : k = [j EXCEPT !.cv = "building", !.build = 0]
      OBVIOUS
  <2>2. 0 \in 0..BuildSteps
      BY BuildIs
  <2>3. k \in Journeys /\ Same(j, k) /\ k.phase = "cv_check"
      BY <1>1, <2>1, <2>2 DEF Journeys, Same
  <2> QED
      BY <1>2, <2>1, <2>3
<1>7. Outcome(j, msg, Saved([j EXCEPT !.phase = "inspire"]))
  <2>1. PICK k : k = [j EXCEPT !.phase = "inspire"]
      OBVIOUS
  <2>2. k \in Journeys /\ Same(j, k) /\ k.phase = "inspire"
      BY <1>1, <2>1 DEF Journeys, Same, Phases
  <2> QED
      BY <1>2, <2>1, <2>2
<1>8. CASE j.cv = "unknown"
  <2>1. CASE hasCv /\ msg \in {"reuse", "yes"}
    <3>1. CvCheck(j, msg, hasCv) =
              Inspire([j EXCEPT !.phase = "inspire", !.cv = "uploaded"], "", FALSE)
        BY <1>8, <2>1 DEF CvCheck, CvPaste
    <3> QED
        BY <1>5, <3>1
  <2>2. CASE ~(hasCv /\ msg \in {"reuse", "yes"}) /\ msg \in {"build", "no"}
    <3>1. CvCheck(j, msg, hasCv) = Saved([j EXCEPT !.cv = "building", !.build = 0])
        BY <1>8, <2>2 DEF CvCheck, CvPaste
    <3> QED
        BY <1>6, <3>1
  <2>3. CASE msg \in CvPaste
    <3>1. msg \notin {"reuse", "yes", "build", "no"}
        BY <2>3 DEF CvPaste
    <3>2. PICK r : r = Inspire([j EXCEPT !.phase = "inspire", !.cv = "uploaded"], "", FALSE)
        OBVIOUS
    <3>3. CvCheck(j, msg, hasCv) = [r EXCEPT !.cv = yes]
        BY <1>8, <1>y, <2>3, <3>1, <3>2 DEF CvCheck
    <3>4. Outcome(j, msg, r)
        BY <1>5, <3>2
    <3>5. Outcome(j, msg, [r EXCEPT !.cv = yes])
        BY <3>4, <1>z, AlsoWrites
    <3> QED
        BY <3>3, <3>5
  <2>4. CASE ~(hasCv /\ msg \in {"reuse", "yes"}) /\ msg \notin {"build", "no"} \cup CvPaste
      BY <1>3, <1>8, <2>4 DEF CvCheck
  <2> QED
      BY <2>1, <2>2, <2>3, <2>4
<1>9. CASE j.cv = "building"
  <2>1. CASE j.build = BuildSteps
    <3>1. ~(j.build < BuildSteps) /\ j.build + 1 # BuildSteps
        BY <2>1, BuildIs
    <3>2. PICK r : r = Saved([j EXCEPT !.phase = "inspire"])
        OBVIOUS
    <3>3. CvCheck(j, msg, hasCv) = [r EXCEPT !.cv = yes]
        BY <1>9, <1>y, <2>1, <3>1, <3>2 DEF CvCheck
    <3>4. Outcome(j, msg, r)
        BY <1>7, <3>2
    <3>5. Outcome(j, msg, [r EXCEPT !.cv = yes])
        BY <3>4, <1>z, AlsoWrites
    <3> QED
        BY <3>3, <3>5
  <2>2. CASE j.build # BuildSteps /\ msg = ""
    <3>1. j.build < BuildSteps
        BY <1>1, <2>2, FieldsOf, BuildIs
    <3>2. CvCheck(j, msg, hasCv) = Unsaved(j)
        BY <1>9, <2>2, <3>1 DEF CvCheck
    <3> QED
        BY <1>3, <3>2
  <2>3. CASE j.build # BuildSteps /\ msg # ""
    <3>1. PICK n \in 0..BuildSteps : n = j.build + 1
        BY <1>1, <2>3, FieldsOf, BuildIs
    <3>2. PICK k : k = [j EXCEPT !.build = n]
        OBVIOUS
    <3>3. k \in Journeys /\ Same(j, k) /\ k.phase = "cv_check"
        BY <1>1, <3>2 DEF Journeys, Same
    <3>4. PICK m : m = [k EXCEPT !.phase = "inspire"]
        OBVIOUS
    <3>5. m \in Journeys /\ Same(j, m) /\ m.phase = "inspire"
        BY <3>3, <3>4 DEF Journeys, Same, Phases
    <3>6. CASE n = BuildSteps
      <4>1. PICK r : r = Inspire(m, "", FALSE)
          OBVIOUS
      <4>2. CvCheck(j, msg, hasCv) = [r EXCEPT !.cv = yes]
          BY <1>9, <1>y, <2>3, <3>1, <3>2, <3>4, <3>6, <4>1 DEF CvCheck
      <4>3. Outcome(j, msg, r)
          BY <1>4, <3>5, <4>1
      <4>4. Outcome(j, msg, [r EXCEPT !.cv = yes])
          BY <4>3, <1>z, AlsoWrites
      <4> QED
          BY <4>2, <4>4
    <3>7. CASE n # BuildSteps
      <4>1. CvCheck(j, msg, hasCv) = Saved(k)
          BY <1>9, <2>3, <3>1, <3>2, <3>7 DEF CvCheck
      <4> QED
          BY <1>2, <3>3, <4>1
    <3> QED
        BY <3>6, <3>7
  <2> QED
      BY <2>1, <2>2, <2>3
<1>10. CASE j.cv = "uploaded"
    BY <1>7, <1>10 DEF CvCheck
<1> QED
    BY <1>1, <1>8, <1>9, <1>10, FieldsOf

LEMMA PrefsOutcome ==
    ASSUME NEW j, Sound(j), j.phase = "preferences", NEW msg
    PROVE  Outcome(j, msg, Prefs(j, msg))
<1>1. j \in Journeys /\ Early(j)
    BY DEF Sound, Early
<1>2. PICK k : k = [j EXCEPT !.phase = "search"]
    OBVIOUS
<1>3. k \in Journeys /\ Same(j, k) /\ k.phase = "search" /\ Same(j, j)
    BY <1>1, <1>2 DEF Journeys, Same, Phases
<1>4. Outcome(j, msg, Search(k)) /\ Outcome(j, msg, Unsaved(j))
    BY <1>1, <1>3, EarlyOutcome
<1> QED
    BY <1>2, <1>4 DEF Prefs

-----------------------------------------------------------------------------
(* Suggestions *)

\* The first suggestion is one that was neither done nor declined.
LEMMA SuggestionIsNew ==
    ASSUME NEW j, Suggestion(j) # <<>>
    PROVE  Head(Suggestion(j)) \in Widenings \ (j.applied \cup j.declined)
<1>1. PICK a \in Widenings, b \in Widenings, c \in Widenings : Order(j) = <<a, b, c>>
    BY DEF Order, Widenings
<1>2. PICK A, B, C :
          /\ A = IF a \notin j.applied \cup j.declined /\ Eligible(j, a) THEN <<a>> ELSE <<>>
          /\ B = IF b \notin j.applied \cup j.declined /\ Eligible(j, b) THEN <<b>> ELSE <<>>
          /\ C = IF c \notin j.applied \cup j.declined /\ Eligible(j, c) THEN <<c>> ELSE <<>>
    OBVIOUS
<1>3. Suggestion(j) = A \o B \o C
  <2>1. PICK order : order = Order(j)
      OBVIOUS
  <2>2. order[1] = a /\ order[2] = b /\ order[3] = c
      BY <1>1, <2>1
  <2> QED
      BY <1>2, <2>1, <2>2 DEF Suggestion, Affordances, Among
<1>4. /\ (A = <<a>> /\ a \notin j.applied \cup j.declined) \/ A = <<>>
      /\ (B = <<b>> /\ b \notin j.applied \cup j.declined) \/ B = <<>>
      /\ (C = <<c>> /\ c \notin j.applied \cup j.declined) \/ C = <<>>
    BY <1>2
<1>5. ASSUME NEW x, NEW y, NEW z
      PROVE  /\ <<>> \o <<>> \o <<>> = <<>> /\ Head(<<>> \o <<>> \o <<z>>) = z
             /\ Head(<<>> \o <<y>> \o <<>>) = y /\ Head(<<>> \o <<y>> \o <<z>>) = y
             /\ Head(<<x>> \o <<>> \o <<>>) = x /\ Head(<<x>> \o <<>> \o <<z>>) = x
             /\ Head(<<x>> \o <<y>> \o <<>>) = x /\ Head(<<x>> \o <<y>> \o <<z>>) = x
    OBVIOUS
<1>6. CASE A # <<>>
    BY <1>3, <1>4, <1>5, <1>6
<1>7. CASE A = <<>> /\ B # <<>>
    BY <1>3, <1>4, <1>5, <1>7
<1>8. CASE A = <<>> /\ B = <<>>
    BY <1>3, <1>4, <1>5, <1>8
<1> QED
    BY <1>6, <1>7, <1>8

\* What is suggested does not depend on what was suggested last.
LEMMA SuggestionFrom ==
    ASSUME NEW j, NEW k,
           k.constrained = j.constrained, k.applied = j.applied, k.declined = j.declined,
           k.located = j.located, k.primary = j.primary, k.role = j.role,
           k.bucket = j.bucket, k.extra = j.extra
    PROVE  Suggestion(k) = Suggestion(j)
<1>1. Order(k) = Order(j)
    BY DEF Order
<1>2. Suggested(k) = Suggested(j)
    BY DEF Suggested
<1>3. NewLaterals(k) = NewLaterals(j)
    BY <1>2 DEF NewLaterals
<1>4. \A a : Eligible(k, a) = Eligible(j, a)
    BY <1>3, Zenon DEF Eligible
<1> QED
    BY <1>1, <1>4, Zenon DEF Suggestion, Affordances, Among

\* What a suggestion leaves alone.
Kin(j, k) ==
    /\ k.phase = j.phase /\ k.step = j.step /\ k.results = j.results
    /\ k.applied = j.applied /\ k.declined = j.declined

LEMMA ToMenuIs ==
    ASSUME NEW j \in Journeys
    PROVE  \E k \in Journeys : /\ k = ToMenu(j) /\ Kin(j, k) /\ k.sub = "empty" /\ k.offered = ""
                               /\ Sound(k) /\ Tied(k)
<1>1. PICK k : k = [j EXCEPT !.active = FALSE, !.offered = "", !.sub = "empty"]
    OBVIOUS
<1>2. k \in Journeys /\ Kin(j, k) /\ k.sub = "empty" /\ k.offered = ""
    BY <1>1 DEF Journeys, Kin
<1>3. Sound(k) /\ Tied(k)
    BY <1>2, NotSuggesting DEF Sound
<1> QED
    BY <1>1, <1>2, <1>3 DEF ToMenu

LEMMA SuggestsIs ==
    ASSUME NEW j \in Journeys, Suggestion(j) # <<>>,
           NEW active \in BOOLEAN,
           NEW k, k = [j EXCEPT !.offered = Head(Suggestion(j)), !.active = active,
                                !.sub = "auto_relax_offering"]
    PROVE  k \in Journeys /\ Kin(j, k) /\ k.sub = "auto_relax_offering" /\ Sound(k) /\ Tied(k)
<1>1. PICK a \in Widenings : a = Head(Suggestion(j))
    BY SuggestionIsNew
<1>2. k = [j EXCEPT !.offered = a, !.active = active, !.sub = "auto_relax_offering"]
    BY <1>1
<1>3. k \in Journeys /\ Kin(j, k) /\ k.sub = "auto_relax_offering" /\ k.offered = a
    BY <1>2, ZenonT(60) DEF Journeys, Kin
<1>4. /\ k.constrained = j.constrained /\ k.applied = j.applied /\ k.declined = j.declined
      /\ k.located = j.located /\ k.primary = j.primary /\ k.role = j.role
      /\ k.bucket = j.bucket /\ k.extra = j.extra
    BY <1>2 DEF Journeys
<1>5. Suggestion(k) = Suggestion(j)
    BY <1>4, SuggestionFrom
<1>6. Tied(k)
    BY <1>1, <1>3, <1>5 DEF Tied, Shows, Reads
<1> QED
    BY <1>1, <1>3, <1>6 DEF Sound

LEMMA ProposeIs ==
    ASSUME NEW j \in Journeys, j.sub = "auto_relax_offering"
    PROVE  \E k \in Journeys : /\ k = Propose(j) /\ Kin(j, k) /\ Sound(k) /\ Tied(k)
                               /\ k.sub \in {"empty", "auto_relax_offering"}
<1>1. CASE Suggestion(j) = <<>>
    BY <1>1, ToMenuIs DEF Propose
<1>2. CASE Suggestion(j) # <<>>
  <2>1. PICK active \in BOOLEAN : active = j.active
      BY FieldsOf
  <2>2. PICK k : k = [j EXCEPT !.offered = Head(Suggestion(j)), !.active = active,
                               !.sub = "auto_relax_offering"]
      OBVIOUS
  <2>3. k \in Journeys /\ Kin(j, k) /\ k.sub = "auto_relax_offering" /\ Sound(k) /\ Tied(k)
      BY <1>2, <2>2, SuggestsIs
  <2>4. PICK a : a = Head(Suggestion(j))
      OBVIOUS
  <2>5. [j EXCEPT !.offered = a, !.active = active, !.sub = "auto_relax_offering"]
            = [j EXCEPT !.offered = a]
      BY <2>1 DEF Journeys
  <2>6. k = Propose(j)
      BY <1>2, <2>2, <2>4, <2>5 DEF Propose
  <2> QED
      BY <2>3, <2>6
<1> QED
    BY <1>1, <1>2

LEMMA SuggestingIs ==
    ASSUME NEW j \in Journeys
    PROVE  \E k \in Journeys : /\ k = Suggesting(j) /\ Kin(j, k) /\ Sound(k) /\ Tied(k)
                               /\ k.sub \in {"empty", "auto_relax_offering"}
<1>1. CASE Suggestion(j) = <<>>
    BY <1>1, ToMenuIs DEF Suggesting
<1>2. CASE Suggestion(j) # <<>>
  <2>1. PICK active \in BOOLEAN : active = TRUE
      OBVIOUS
  <2>2. PICK k : k = [j EXCEPT !.offered = Head(Suggestion(j)), !.active = active,
                               !.sub = "auto_relax_offering"]
      OBVIOUS
  <2>3. active \in BOOLEAN
      BY <2>1
  <2>4. k \in Journeys /\ Kin(j, k) /\ k.sub = "auto_relax_offering" /\ Sound(k) /\ Tied(k)
      BY <1>2, <2>2, <2>3, SuggestsIs
  <2>5. PICK a : a = Head(Suggestion(j))
      OBVIOUS
  <2>6. [[j EXCEPT !.offered = a] EXCEPT !.active = active, !.sub = "auto_relax_offering"]
            = [j EXCEPT !.offered = a, !.active = active, !.sub = "auto_relax_offering"]
      BY DEF Journeys
  <2>7. Suggesting(j) = [[j EXCEPT !.offered = a] EXCEPT !.active = active,
                                                         !.sub = "auto_relax_offering"]
      BY <1>2, <2>1, <2>5 DEF Suggesting, Propose
  <2>8. k = Suggesting(j)
      BY <2>2, <2>5, <2>6, <2>7
  <2> QED
      BY <2>4, <2>8
<1> QED
    BY <1>1, <1>2

-----------------------------------------------------------------------------
(* From the first search on *)

LEMMA ExplainedLess ==
    ASSUME NEW A, NEW B, A \subseteq B, NEW r, Explained(B, r) PROVE Explained(A, r)
    BY DEF Explained

LEMMA LateOutcome ==
    ASSUME NEW j, Sound(j), NEW msg, NEW k \in Journeys, Sound(k)
    PROVE  /\ Tied(k) /\ j.phase # "done" /\ Explained(Justified(j) \cup Meant(j, msg), Saved(k))
                => Outcome(j, msg, Saved(k))
           /\ j.phase # "done" /\ Explained(Justified(j) \cup Meant(j, msg), Search(k))
                => Outcome(j, msg, Search(k))
           /\ k.phase = "done" => Outcome(j, msg, Saved(k))
           /\ k.applied = j.applied /\ k.declined = j.declined => Outcome(j, msg, Unsaved(k))
<1>1. k.phase = "done" => Tied(k)
    BY NotSuggesting
<1>2. k.phase = "done" => \A A : Explained(A, Saved(k))
    BY Replies DEF Explained
<1> QED
    BY <1>1, <1>2, Replies DEF Outcome

\* A change that accounts for the answers: it goes on from a search or leaves
\* the suggestions as they are.
LEMMA StaysOutcome ==
    ASSUME NEW j, Sound(j), ~Early(j), j.phase # "done", NEW msg, Meant(j, msg) = {},
           NEW k \in Journeys, Same(j, k), ~Early(k), k.phase # "review"
    PROVE  Outcome(j, msg, Saved(k))
<1>1. Sound(k) /\ Tied(k)
    BY NotSuggesting DEF Sound, Same
<1>2. Justified(k) = Justified(j)
    BY DEF Justified, Same
<1>3. Explained(Justified(j) \cup Meant(j, msg), Saved(k))
    BY <1>2, Replies DEF Explained
<1> QED
    BY <1>1, <1>3, LateOutcome

LEMMA FreshIs ==
    /\ Fresh \in Journeys /\ Sound(Fresh) /\ Tied(Fresh) /\ Early(Fresh) /\ Fresh.phase = "greet"
    /\ Fresh.sub = "" /\ Fresh.results = {}
<1>1. <<>> \in Seq(Laterals) /\ 0 \in 0..BuildSteps /\ "" \in Roles
    BY BuildIs DEF Roles
<1>2. {} \in SUBSET Laterals /\ {} \in SUBSET Widenings /\ {} \in SUBSET Categories
    OBVIOUS
<1>3. PICK no \in BOOLEAN : no = FALSE
    OBVIOUS
<1>4. PICK lat \in SUBSET Laterals, wid \in SUBSET Widenings, cat \in SUBSET Categories,
           list \in Seq(Laterals), role \in Roles, n \in 0..BuildSteps :
          /\ lat = {} /\ wid = {} /\ cat = {} /\ list = <<>> /\ role = "" /\ n = 0
    BY <1>1, <1>2
<1>5. Fresh = [phase |-> "greet", step |-> "role", role |-> role, bucket |-> no,
               matched |-> no, located |-> no, typo |-> no, cv |-> "unknown",
               build |-> n, laterals |-> lat, primary |-> "absent", extra |-> lat,
               results |-> cat, picked |-> "", sub |-> "", constrained |-> no,
               applied |-> wid, proposed |-> list, active |-> no, declined |-> wid,
               offered |-> ""]
    BY <1>3, <1>4 DEF Fresh
<1>6. no \in BOOLEAN /\ lat \in SUBSET Laterals /\ wid \in SUBSET Widenings
      /\ cat \in SUBSET Categories /\ list \in Seq(Laterals) /\ role \in Roles /\ n \in 0..BuildSteps
    BY <1>3, <1>4
<1>7. Fresh \in Journeys
    BY <1>5, <1>6 DEF Journeys, Phases
<1>8. Fresh.phase = "greet" /\ Fresh.sub = "" /\ Fresh.results = {}
    BY DEF Fresh
<1> QED
    BY <1>7, <1>8, NotSuggesting DEF Sound, Early

LEMMA ApplyIs ==
    ASSUME NEW j, Sound(j), j.phase = "review", NEW a \in Widenings
    PROVE  /\ Apply(j, a) \in Results /\ Sound(Apply(j, a).journey) /\ Apply(j, a).persist
           /\ ~Apply(j, a).search => Tied(Apply(j, a).journey)
           /\ Explained(j.applied \cup j.declined \cup {a}, Apply(j, a))
<1>1. j \in Journeys
    BY DEF Sound
<1>2. PICK done \in SUBSET Widenings : done = j.applied \cup {a}
    BY <1>1, FieldsOf
<1>3. ASSUME NEW k \in Journeys, k.phase = "review", k.applied = done, k.declined = j.declined,
             k.sub = j.sub, k.offered = j.offered, Apply(j, a) = Search(k)
      PROVE  /\ Apply(j, a) \in Results /\ Sound(Apply(j, a).journey) /\ Apply(j, a).persist
             /\ ~Apply(j, a).search => Tied(Apply(j, a).journey)
             /\ Explained(j.applied \cup j.declined \cup {a}, Apply(j, a))
  <2>1. Sound(k) /\ ~Early(k) /\ j.applied \cup j.declined \cup {a} \subseteq k.applied \cup k.declined
      BY <1>2, <1>3 DEF Sound, Early
  <2> QED
      BY <1>3, <2>1, Replies DEF Explained
<1>4. CASE a = WidenLocation
  <2>1. PICK k : k = [j EXCEPT !.located = FALSE, !.applied = done]
      OBVIOUS
  <2>2. /\ k \in Journeys /\ k.phase = "review" /\ k.applied = done /\ k.declined = j.declined
        /\ k.sub = j.sub /\ k.offered = j.offered
      BY <1>1, <1>2, <2>1, ZenonT(60) DEF Journeys
  <2>3. Apply(j, a) = Search(k)
      BY <1>2, <1>4, <2>1 DEF Apply, WidenLocation, DropSeniority, TryLaterals
  <2> QED
      BY <1>3, <2>2, <2>3
<1>5. CASE a = DropSeniority
  <2>1. PICK p \in Roles \cup {"absent"} : p = Strip(j.primary)
    <3>1. "clerk" \in Roles /\ j.primary \in Roles \cup {"absent"}
        BY <1>1, FieldsOf DEF Roles
    <3> QED
        BY <3>1 DEF Strip
  <2>2. PICK r \in Roles : r = Strip(j.role)
    <3>1. "clerk" \in Roles /\ j.role \in Roles
        BY <1>1, FieldsOf DEF Roles
    <3> QED
        BY <3>1 DEF Strip
  <2>3. PICK k : k = [j EXCEPT !.primary = p, !.role = r, !.applied = done]
      OBVIOUS
  <2>4. /\ k \in Journeys /\ k.phase = "review" /\ k.applied = done /\ k.declined = j.declined
        /\ k.sub = j.sub /\ k.offered = j.offered
      BY <1>1, <1>2, <2>1, <2>2, <2>3 DEF Journeys
  <2>5. Apply(j, a) = Search(k)
      BY <1>2, <1>5, <2>1, <2>2, <2>3 DEF Apply, WidenLocation, DropSeniority, TryLaterals
  <2> QED
      BY <1>3, <2>4, <2>5
<1>6. CASE a = TryLaterals
  <2>1. PICK list \in Seq(Laterals) : list = NewLaterals(j)
    <3>1. <<>> \in Seq(Laterals) /\ <<Suggested(j)>> \in Seq(Laterals)
        BY <1>1, SuggestedIs
    <3> QED
        BY <3>1 DEF NewLaterals
  <2>2. PICK k : k = [j EXCEPT !.proposed = list, !.sub = "laterals_offered"]
      OBVIOUS
  <2>3. /\ k \in Journeys /\ k.phase = "review" /\ k.applied = j.applied /\ k.declined = j.declined
        /\ k.sub = "laterals_offered"
      BY <1>1, <2>1, <2>2 DEF Journeys
  <2>4. Apply(j, a) = Saved(k)
      BY <1>6, <2>1, <2>2 DEF Apply, WidenLocation, DropSeniority, TryLaterals
  <2>5. Sound(k) /\ Tied(k) /\ ~Early(k)
      BY <2>3, NotSuggesting DEF Sound, Early
  <2>6. Justified(k) = j.applied \cup j.declined \cup {a}
      BY <1>6, <2>3 DEF Justified
  <2> QED
      BY <2>3, <2>4, <2>5, <2>6, Replies DEF Explained
<1> QED
    BY <1>4, <1>5, <1>6 DEF Widenings

LEMMA ApplyOutcome ==
    ASSUME NEW j, Sound(j), j.phase = "review", NEW a \in Widenings, NEW msg,
           Justified(j) \cup Meant(j, msg) \subseteq j.applied \cup j.declined \cup {a}
    PROVE  Outcome(j, msg, Apply(j, a))
<1>1. PICK r : r = Apply(j, a)
    OBVIOUS
<1>2. /\ r \in Results /\ Sound(r.journey) /\ r.persist /\ (~r.search => Tied(r.journey))
      /\ Explained(j.applied \cup j.declined \cup {a}, r)
    BY <1>1, ApplyIs
<1>3. Explained(Justified(j) \cup Meant(j, msg), r)
    BY <1>2, ExplainedLess
<1> QED
    BY <1>1, <1>2, <1>3 DEF Outcome

LEMMA EndedIs ==
    ASSUME NEW j \in Journeys
    PROVE  Ended(j) \in Journeys /\ Ended(j).phase = "done" /\ Ended(j).sub = ""
<1>1. PICK wid \in SUBSET Widenings, list \in Seq(Laterals) : wid = {} /\ list = <<>>
  <2>1. {} \in SUBSET Widenings /\ <<>> \in Seq(Laterals)
      OBVIOUS
  <2> QED
      BY <2>1
<1>2. PICK k : k = [j EXCEPT !.phase = "done", !.sub = "", !.applied = wid, !.proposed = list]
    OBVIOUS
<1>3. k \in Journeys /\ k.phase = "done" /\ k.sub = ""
    BY <1>1, <1>2, ZenonT(60) DEF Journeys, Phases
<1>4. Ended(j) = k
    BY <1>1, <1>2 DEF Ended
<1> QED
    BY <1>3, <1>4

LEMMA EmptyOutcome ==
    ASSUME NEW j, Sound(j), j.phase = "review", j.sub = "empty", NEW msg
    PROVE  Outcome(j, msg, Empty(j, msg))
<1>1. j \in Journeys /\ ~Early(j) /\ j.phase # "done" /\ Meant(j, msg) = {}
      /\ Justified(j) = j.applied \cup j.declined
    BY DEF Sound, Early, Meant, Justified
<1>2. PICK option : option = IF msg \in GiveUpTokens THEN "give up" ELSE Option(j, msg)
    OBVIOUS
<1>3. Outcome(j, msg, Saved(Ended(j)))
  <2>1. Sound(Ended(j)) /\ Ended(j) \in Journeys /\ Ended(j).phase = "done"
      BY <1>1, EndedIs DEF Sound
  <2> QED
      BY <2>1, LateOutcome
<1>4. option \in Widenings => Outcome(j, msg, Apply(j, option))
    BY <1>1, ApplyOutcome
<1>5. Outcome(j, msg, Saved(ResetForFresh(j)))
  <2>1. PICK cv \in {"unknown", "building", "uploaded"}, n \in 0..BuildSteps, c \in BOOLEAN :
            cv = j.cv /\ n = j.build /\ c = j.constrained
      BY <1>1, FieldsOf
  <2>2. PICK k : k = [Fresh EXCEPT !.phase = "discover", !.cv = cv, !.build = n, !.constrained = c]
      OBVIOUS
  <2>3. k \in Journeys /\ k.phase = "discover" /\ k.sub = Fresh.sub /\ k.step = Fresh.step
      BY <2>1, <2>2, FreshIs, ZenonT(60) DEF Journeys, Phases
  <2>4. Fresh.step = "role"
      BY DEF Fresh
  <2>5. Sound(k) /\ Tied(k) /\ Wiped(k)
      BY <2>3, <2>4, FreshIs, NotSuggesting DEF Sound, Wiped
  <2>6. ResetForFresh(j) = k
      BY <2>1, <2>2 DEF ResetForFresh
  <2>7. Explained(Justified(j) \cup Meant(j, msg), Saved(k))
      BY <2>3, <2>5, Replies DEF Explained
  <2> QED
      BY <1>1, <2>3, <2>5, <2>6, <2>7, LateOutcome
<1>6. Outcome(j, msg, Saved(Suggesting(j)))
  <2>1. PICK k \in Journeys : /\ k = Suggesting(j) /\ Kin(j, k) /\ Sound(k) /\ Tied(k)
                              /\ k.sub \in {"empty", "auto_relax_offering"}
      BY <1>1, SuggestingIs
  <2>2. Explained(Justified(j) \cup Meant(j, msg), Saved(k))
      BY <1>1, <2>1, Replies DEF Explained, Justified, Kin, Early
  <2>3. k \in Journeys
      BY <2>1
  <2> QED
      BY <1>1, <2>1, <2>2, <2>3, LateOutcome
<1>7. Outcome(j, msg, Search(j))
  <2>1. Explained(Justified(j) \cup Meant(j, msg), Search(j))
      BY <1>1, Replies DEF Explained
  <2> QED
      BY <1>1, <2>1, LateOutcome
<1>8. Outcome(j, msg, Unsaved(j))
    BY <1>1, LateOutcome
<1>9. Empty(j, msg) \in {Saved(Ended(j)), Saved(ResetForFresh(j)), Saved(Suggesting(j)), Search(j),
                         Unsaved(j)}
      \/ (option \in Widenings /\ Empty(j, msg) = Apply(j, option))
  <2>1. CASE option \in Widenings
      BY <1>2, <2>1 DEF Empty, Widenings, WidenLocation, DropSeniority, TryLaterals
  <2>2. CASE option \notin Widenings
      BY <1>2, <2>2 DEF Empty
  <2> QED
      BY <2>1, <2>2
<1> QED
    BY <1>3, <1>4, <1>5, <1>6, <1>7, <1>8, <1>9

LEMMA LateralsOutcome ==
    ASSUME NEW j, Sound(j), j.phase = "review", j.sub = "laterals_offered", NEW msg
    PROVE  Outcome(j, msg, LateralsOffered(j, msg))
<1>1. j \in Journeys /\ ~Early(j) /\ j.phase # "done" /\ Meant(j, msg) = {}
      /\ Justified(j) = j.applied \cup j.declined \cup {TryLaterals}
    BY DEF Sound, Early, Meant, Justified
<1>2. PICK picked : picked = {j.proposed[i] :
                      i \in {n \in DOMAIN j.proposed : msg \in Numbers /\ Value(msg) = n}}
    OBVIOUS
<1>3. PICK chosen : chosen = IF msg \in LateralYesTokens THEN Range(j.proposed) ELSE picked
    OBVIOUS
<1>4. PICK list \in Seq(Laterals) : list = <<>>
  <2>1. <<>> \in Seq(Laterals)
      OBVIOUS
  <2> QED
      BY <2>1
<1>5. CASE msg \in LateralNoTokens
  <2>1. PICK k : k = [j EXCEPT !.proposed = list, !.sub = "empty"]
      OBVIOUS
  <2>2. k \in Journeys /\ k.sub = "empty" /\ k.applied = j.applied /\ k.declined = j.declined
      BY <1>1, <1>4, <2>1 DEF Journeys
  <2>3. LateralsOffered(j, msg) = Unsaved(k)
      BY <1>4, <1>5, <2>1 DEF LateralsOffered
  <2>4. Sound(k)
      BY <2>2 DEF Sound
  <2> QED
      BY <2>2, <2>3, <2>4, LateOutcome
<1>6. CASE msg \notin LateralNoTokens /\ chosen = {}
  <2>1. LateralsOffered(j, msg) = Unsaved(j)
      BY <1>2, <1>3, <1>6 DEF LateralsOffered
  <2> QED
      BY <1>1, <2>1, LateOutcome
<1>7. CASE msg \notin LateralNoTokens /\ chosen # {}
  <2>1. PICK extra \in SUBSET Laterals : extra = j.extra \cup chosen
    <3>1. j.proposed \in Seq(Laterals) /\ j.extra \in SUBSET Laterals
        BY <1>1, FieldsOf
    <3>2. PICK s \in Seq(Laterals) : s = j.proposed
        BY <3>1
    <3>3. \A i \in DOMAIN s : s[i] \in Laterals
        BY <3>2
    <3>4. chosen \subseteq Laterals
        BY <1>2, <1>3, <3>2, <3>3 DEF Range
    <3> QED
        BY <3>1, <3>4
  <2>2. PICK done \in SUBSET Widenings : done = j.applied \cup {TryLaterals}
      BY <1>1, FieldsOf DEF Widenings
  <2>3. PICK k : k = [j EXCEPT !.extra = extra, !.applied = done, !.proposed = list, !.sub = "empty"]
      OBVIOUS
  <2>4. k \in Journeys /\ k.sub = "empty" /\ k.applied = done /\ k.declined = j.declined
        /\ k.phase = "review"
      BY <1>1, <1>4, <2>1, <2>2, <2>3 DEF Journeys
  <2>5. LateralsOffered(j, msg) = Search(k)
      BY <1>2, <1>3, <1>4, <1>7, <2>1, <2>2, <2>3 DEF LateralsOffered
  <2>6. Sound(k) /\ ~Early(k)
      BY <2>4 DEF Sound, Early
  <2>7. Justified(j) \cup Meant(j, msg) \subseteq k.applied \cup k.declined
      BY <1>1, <2>2, <2>4
  <2>8. Explained(Justified(j) \cup Meant(j, msg), Search(k))
      BY <2>4, <2>6, <2>7, Replies DEF Explained
  <2> QED
      BY <1>1, <2>4, <2>5, <2>6, <2>8, LateOutcome
<1> QED
    BY <1>5, <1>6, <1>7

LEMMA AutoOutcome ==
    ASSUME NEW j, Sound(j), j.phase = "review", j.sub = "auto_relax_offering", NEW msg
    PROVE  Outcome(j, msg, AutoRelax(j, msg))
<1>1. j \in Journeys /\ ~Early(j) /\ j.phase # "done" /\ Meant(j, msg) \subseteq {j.offered}
      /\ Justified(j) = j.applied \cup j.declined /\ j.offered \in Widenings
    BY DEF Sound, Early, Meant, Justified
<1>2. PICK wid \in SUBSET Widenings, no \in BOOLEAN : wid = {} /\ no = FALSE
  <2>1. {} \in SUBSET Widenings /\ FALSE \in BOOLEAN
      OBVIOUS
  <2> QED
      BY <2>1
<1>3. Outcome(j, msg, Saved([Ended(j) EXCEPT !.active = no, !.declined = wid, !.offered = ""]))
  <2>1. PICK e : e = Ended(j)
      OBVIOUS
  <2>2. e \in Journeys /\ e.phase = "done" /\ e.sub = ""
      BY <1>1, <2>1, EndedIs
  <2>3. no \in BOOLEAN /\ wid \in SUBSET Widenings
      BY <1>2
  <2>4. PICK k : k = [e EXCEPT !.active = no, !.declined = wid, !.offered = ""]
      OBVIOUS
  <2>5. k \in Journeys /\ k.phase = "done" /\ k.sub = ""
      BY <2>2, <2>3, <2>4 DEF Journeys
  <2>6. Sound(k)
      BY <2>5 DEF Sound
  <2>7. Outcome(j, msg, Saved(k))
      BY <2>5, <2>6, LateOutcome
  <2> QED
      BY <2>1, <2>4, <2>7
<1>4. Outcome(j, msg, Unsaved(ToMenu(j)))
  <2>1. PICK k \in Journeys : k = ToMenu(j) /\ Kin(j, k) /\ Sound(k)
      BY <1>1, ToMenuIs
  <2>2. k \in Journeys /\ k.applied = j.applied /\ k.declined = j.declined
      BY <2>1 DEF Kin
  <2> QED
      BY <2>1, <2>2, LateOutcome
<1>5. PICK refused \in SUBSET Widenings : refused = j.declined \cup ({j.offered} \ {""})
    BY <1>1, FieldsOf
<1>6. Outcome(j, msg, Saved(Propose([j EXCEPT !.declined = refused, !.offered = ""])))
  <2>1. PICK d : d = [j EXCEPT !.declined = refused, !.offered = ""]
      OBVIOUS
  <2>2. d \in Journeys /\ d.sub = "auto_relax_offering" /\ d.phase = "review"
        /\ d.applied = j.applied /\ d.declined = refused
      BY <1>1, <1>5, <2>1 DEF Journeys
  <2>3. PICK k \in Journeys : /\ k = Propose(d) /\ Kin(d, k) /\ Sound(k) /\ Tied(k)
                              /\ k.sub \in {"empty", "auto_relax_offering"}
      BY <2>2, ProposeIs
  <2>4. k \in Journeys /\ ~Early(k) /\ k.applied = j.applied /\ k.declined = refused
      BY <2>2, <2>3 DEF Kin, Early
  <2>5. j.offered # ""
      BY <1>1 DEF Widenings, WidenLocation, DropSeniority, TryLaterals
  <2>6. Justified(j) \cup Meant(j, msg) \subseteq Justified(k)
      BY <1>1, <1>5, <2>4, <2>5 DEF Justified
  <2>7. Explained(Justified(j) \cup Meant(j, msg), Saved(k))
      BY <2>4, <2>6, Replies DEF Explained
  <2>8. Outcome(j, msg, Saved(k))
      BY <1>1, <2>3, <2>4, <2>7, LateOutcome
  <2> QED
      BY <2>1, <2>3, <2>8
<1>7. Outcome(j, msg, Apply(j, j.offered))
    BY <1>1, ApplyOutcome
<1>8. Outcome(j, msg, Unsaved(Propose(j)))
  <2>1. PICK k \in Journeys : k = Propose(j) /\ Kin(j, k) /\ Sound(k)
      BY <1>1, ProposeIs
  <2>2. k \in Journeys /\ k.applied = j.applied /\ k.declined = j.declined
      BY <2>1 DEF Kin
  <2> QED
      BY <2>1, <2>2, LateOutcome
<1>9. AutoRelax(j, msg) \in
        {Saved([Ended(j) EXCEPT !.active = no, !.declined = wid, !.offered = ""]),
         Unsaved(ToMenu(j)), Saved(Propose([j EXCEPT !.declined = refused, !.offered = ""])),
         Apply(j, j.offered), Unsaved(Propose(j))}
    BY <1>2, <1>5 DEF AutoRelax
<1> QED
    BY <1>3, <1>4, <1>6, <1>7, <1>8, <1>9

LEMMA ReviewOutcome ==
    ASSUME NEW j, Sound(j), j.phase = "review", NEW msg
    PROVE  Outcome(j, msg, Review(j, msg))
<1>1. j \in Journeys /\ ~Early(j) /\ j.phase # "done"
    BY DEF Sound, Early
<1>2. CASE j.sub = "laterals_offered"
    BY <1>2, LateralsOutcome DEF Review
<1>3. CASE j.sub = "auto_relax_offering"
    BY <1>3, AutoOutcome DEF Review
<1>4. CASE j.sub = "empty"
    BY <1>4, EmptyOutcome DEF Review
<1>5. CASE j.sub = "" /\ j.results = {}
  <2>1. PICK e : e = [j EXCEPT !.sub = "empty"]
      OBVIOUS
  <2>2. /\ e \in Journeys /\ e.phase = "review" /\ e.sub = "empty" /\ e.applied = j.applied
        /\ e.declined = j.declined
      BY <1>1, <2>1 DEF Journeys
  <2>3. Sound(e) /\ Justified(e) = Justified(j) /\ Meant(e, msg) = Meant(j, msg) /\ ~Early(e)
      BY <1>5, <2>2 DEF Sound, Justified, Meant, Early
  <2>4. PICK r : r = Empty(e, msg)
      OBVIOUS
  <2>5. Outcome(e, msg, r)
      BY <2>2, <2>3, <2>4, EmptyOutcome
  <2>6. Outcome(j, msg, r)
      BY <1>1, <2>2, <2>3, <2>5 DEF Outcome
  <2>7. Review(j, msg) = r
      BY <1>5, <2>1, <2>4 DEF Review
  <2> QED
      BY <2>6, <2>7
<1>6. CASE j.sub = "" /\ j.results # {} /\ msg \in j.results
  <2>1. msg \in Categories \cup {""}
      BY <1>1, <1>6, FieldsOf
  <2>2. PICK k : k = [j EXCEPT !.picked = msg, !.phase = "drill"]
      OBVIOUS
  <2>3. k \in Journeys /\ Same(j, k) /\ k.phase = "drill"
      BY <1>1, <2>1, <2>2 DEF Journeys, Same, Phases
  <2>4. Review(j, msg) = Saved(k)
      BY <1>6, <2>2 DEF Review
  <2>5. Meant(j, msg) = {}
      BY <1>6 DEF Meant
  <2>6. ~Early(k)
      BY <2>3 DEF Early
  <2> QED
      BY <1>1, <2>3, <2>4, <2>5, <2>6, StaysOutcome
<1>7. CASE j.sub = "" /\ j.results # {} /\ msg \notin j.results
  <2>1. Review(j, msg) = Unsaved(j)
      BY <1>7 DEF Review
  <2> QED
      BY <1>1, <2>1, LateOutcome
<1> QED
    BY <1>1, <1>2, <1>3, <1>4, <1>5, <1>6, <1>7, FieldsOf

\* The later phases only move on.
LEMMA Moves ==
    ASSUME NEW j, Sound(j), NEW p \in Phases, p # "review", NEW k, k = [j EXCEPT !.phase = p]
    PROVE  k \in Journeys /\ Same(j, k) /\ k.phase = p /\ Sound(k)
<1>1. j \in Journeys
    BY DEF Sound
<1>2. k \in Journeys /\ Same(j, k) /\ k.phase = p
    BY <1>1 DEF Journeys, Same
<1> QED
    BY <1>2 DEF Sound, Same

LEMMA LaterOutcome ==
    ASSUME NEW j, Sound(j), j.phase \in {"drill", "tailor", "letter", "cv_consult"}, NEW msg
    PROVE  /\ \A p \in {"tailor", "letter", "cv_consult", "done"} :
                 Outcome(j, msg, Saved([j EXCEPT !.phase = p]))
           /\ Outcome(j, msg, Unsaved(j))
<1>1. j \in Journeys /\ ~Early(j) /\ j.phase # "done" /\ Meant(j, msg) = {}
    BY DEF Sound, Early, Meant
<1>2. ASSUME NEW p \in {"tailor", "letter", "cv_consult", "done"}
      PROVE  Outcome(j, msg, Saved([j EXCEPT !.phase = p]))
  <2>1. p \in Phases /\ p # "review"
      BY <1>2 DEF Phases
  <2>2. PICK k : k = [j EXCEPT !.phase = p]
      OBVIOUS
  <2>3. k \in Journeys /\ Same(j, k) /\ k.phase = p /\ Sound(k)
      BY <2>1, <2>2, Moves
  <2>4. ~Early(k)
      BY <1>2, <2>3 DEF Early
  <2>5. Outcome(j, msg, Saved(k))
      BY <1>1, <2>1, <2>3, <2>4, StaysOutcome
  <2> QED
      BY <2>2, <2>5
<1>3. Outcome(j, msg, Unsaved(j))
    BY <1>1, LateOutcome
<1> QED
    BY <1>2, <1>3

LEMMA DrillOutcome ==
    ASSUME NEW j, Sound(j), j.phase = "drill", NEW msg
    PROVE  Outcome(j, msg, Drill(j, msg))
<1>1. Drill(j, msg) \in {Saved([j EXCEPT !.phase = "done"]), Saved([j EXCEPT !.phase = "tailor"]),
                         Unsaved(j)}
    BY DEF Drill
<1> QED
    BY <1>1, LaterOutcome

LEMMA TailorOutcome ==
    ASSUME NEW j, Sound(j), j.phase = "tailor", NEW msg
    PROVE  Outcome(j, msg, Tailor(j, msg))
<1>1. Tailor(j, msg) \in {Saved([j EXCEPT !.phase = "letter"]), Saved([j EXCEPT !.phase = "cv_consult"]),
                          Saved([j EXCEPT !.phase = "done"]), Unsaved(j)}
    BY DEF Tailor
<1> QED
    BY <1>1, LaterOutcome

LEMMA WrapUpOutcome ==
    ASSUME NEW j, Sound(j), j.phase \in {"letter", "cv_consult"}, NEW msg
    PROVE  Outcome(j, msg, WrapUp(j, msg))
<1>1. WrapUp(j, msg) \in {Saved([j EXCEPT !.phase = "letter"]), Saved([j EXCEPT !.phase = "cv_consult"]),
                          Saved([j EXCEPT !.phase = "done"]), Unsaved(j)}
    BY DEF WrapUp
<1> QED
    BY <1>1, LaterOutcome

\* Every message, in every phase.
LEMMA AdvanceOutcome ==
    ASSUME NEW j, Sound(j), NEW msg \in Messages \cup {""}, NEW hasCv, NEW ai \in BOOLEAN
    PROVE  Outcome(j, msg, Advance(j, msg, hasCv, ai))
<1>1. j \in Journeys /\ j.phase \in Phases
    BY FieldsOf DEF Sound
<1>2. Outcome(j, msg, Unsaved(j))
    BY <1>1, LateOutcome
<1>3. Outcome(j, msg, Saved([j EXCEPT !.phase = "done"]))
  <2>1. PICK k : k = [j EXCEPT !.phase = "done"]
      OBVIOUS
  <2>2. k \in Journeys /\ k.phase = "done" /\ Sound(k)
      BY <2>1, Moves, ZenonT(60) DEF Phases
  <2>3. Outcome(j, msg, Saved(k))
      BY <2>2, LateOutcome
  <2> QED
      BY <2>1, <2>3
<1>4. CASE msg \in CancelTokens /\ ~Defers(j, msg)
    BY <1>3, <1>4 DEF Advance
<1>5. CASE /\ ~(msg \in CancelTokens /\ ~Defers(j, msg))
           /\ \/ msg \in HelpTokens /\ j.phase # "greet"
              \/ msg \in OffTopic /\ j.phase = "discover" /\ j.step # "done"
    BY <1>2, <1>5 DEF Advance
<1>6. CASE /\ ~(msg \in CancelTokens /\ ~Defers(j, msg))
           /\ ~(\/ msg \in HelpTokens /\ j.phase # "greet"
                \/ msg \in OffTopic /\ j.phase = "discover" /\ j.step # "done")
  <2>1. CASE j.phase = "greet"
    <3>1. PICK k : k = [j EXCEPT !.phase = "discover", !.step = "role"]
        OBVIOUS
    <3>2. k \in Journeys /\ Same(j, k) /\ k.phase = "discover"
        BY <1>1, <3>1 DEF Journeys, Same, Phases
    <3>3. Outcome(j, msg, Saved(k))
        BY <2>1, <3>2, EarlyOutcome DEF Early
    <3>4. Advance(j, msg, hasCv, ai) = Saved(k)
        BY <1>6, <2>1, <3>1 DEF Advance
    <3> QED
        BY <3>3, <3>4
  <2>2. CASE j.phase = "discover"
      BY <1>6, <2>2, DiscoverOutcome DEF Advance
  <2>3. CASE j.phase = "cv_check"
      BY <1>6, <2>3, CvOutcome DEF Advance
  <2>4. CASE j.phase = "inspire"
      BY <1>6, <2>4, InspireOutcome DEF Advance
  <2>5. CASE j.phase = "preferences"
      BY <1>6, <2>5, PrefsOutcome DEF Advance
  <2>6. CASE j.phase = "search"
    <3>1. PICK k : k = [j EXCEPT !.phase = "greet"]
        OBVIOUS
    <3>2. k \in Journeys /\ Same(j, k) /\ k.phase = "greet"
        BY <3>1, Moves, ZenonT(60) DEF Phases
    <3>3. Outcome(j, msg, Saved(k))
        BY <2>6, <3>2, EarlyOutcome DEF Early
    <3>4. Advance(j, msg, hasCv, ai) = Saved(k)
        BY <1>6, <2>6, <3>1 DEF Advance
    <3> QED
        BY <3>3, <3>4
  <2>7. CASE j.phase = "review"
      BY <1>6, <2>7, ReviewOutcome DEF Advance
  <2>8. CASE j.phase = "drill"
      BY <1>6, <2>8, DrillOutcome DEF Advance
  <2>9. CASE j.phase = "tailor"
      BY <1>6, <2>9, TailorOutcome DEF Advance
  <2>10. CASE j.phase \in {"letter", "cv_consult"}
    <3>1. Advance(j, msg, hasCv, ai) = WrapUp(j, msg)
        BY <1>6, <2>10 DEF Advance
    <3> QED
        BY <2>10, <3>1, WrapUpOutcome
  <2>11. CASE j.phase = "done"
    <3>1. Advance(j, msg, hasCv, ai) = Unsaved(j)
        BY <1>6, <2>11 DEF Advance
    <3> QED
        BY <1>2, <3>1
  <2> QED
      BY <1>1, <2>1, <2>2, <2>3, <2>4, <2>5, <2>6, <2>7, <2>8, <2>9, <2>10, <2>11 DEF Phases
<1> QED
    BY <1>4, <1>5, <1>6

-----------------------------------------------------------------------------
(* What a search makes of the record *)

LEMMA FoundIs ==
    ASSUME NEW j, Sound(j), NEW q \in Roles, NEW l \in BOOLEAN, NEW results \in SUBSET Categories
    PROVE  \E k \in Journeys : /\ k = Found(j, q, l, results) /\ Sound(k) /\ ~Early(k)
                               /\ k.phase = (IF results = {} THEN "done" ELSE "review")
                               /\ k.results = results /\ k.sub = j.sub
                               /\ k.applied = j.applied /\ k.declined = j.declined
<1>1. j \in Journeys
    BY DEF Sound
<1>2. PICK b \in BOOLEAN, m \in BOOLEAN, p \in {"done", "review"} :
          /\ b = (q \in Bucketed) /\ m = (j.located \/ l)
          /\ p = IF results = {} THEN "done" ELSE "review"
  <2>1. PICK p \in {"done", "review"} : p = IF results = {} THEN "done" ELSE "review"
      OBVIOUS
  <2>2. PICK b \in BOOLEAN : b = (q \in Bucketed)
    <3>1. (q \in Bucketed) \in BOOLEAN
        OBVIOUS
    <3> QED
        BY <3>1, Zenon
  <2>3. PICK m \in BOOLEAN : m = (j.located \/ l)
      OBVIOUS
  <2> QED
      BY <2>1, <2>2, <2>3
<1>3. PICK k : k = [j EXCEPT !.role = q, !.bucket = b, !.located = m, !.results = results, !.phase = p]
    OBVIOUS
<1>4. p \in {"done", "review"} /\ b \in BOOLEAN /\ m \in BOOLEAN
    BY <1>2
<1>5. k \in Journeys /\ k.phase = p /\ k.results = results /\ k.sub = j.sub
      /\ k.applied = j.applied /\ k.declined = j.declined /\ k.offered = j.offered
    BY <1>1, <1>3, <1>4, ZenonT(60) DEF Journeys, Phases
<1>6. Sound(k) /\ ~Early(k)
    BY <1>4, <1>5 DEF Sound, Early
<1>7. k = Found(j, q, l, results)
    BY <1>2, <1>3 DEF Found
<1> QED
    BY <1>2, <1>5, <1>6, <1>7

LEMMA LandedIs ==
    ASSUME NEW j, Sound(j), NEW results \in SUBSET Categories, NEW c \in BOOLEAN
    PROVE  \E k \in Journeys : /\ k = Landed(j, results, c) /\ Sound(k) /\ k.phase = "review"
                               /\ k.results = results
                               /\ results = {} => k.applied = j.applied /\ k.declined = j.declined
                                                  /\ k.sub \in {"empty", "auto_relax_offering"}
                               /\ results # {} \/ ~j.active \/ j.constrained = c => Tied(k)
<1>1. j \in Journeys
    BY DEF Sound
<1>2. PICK r : r = [j EXCEPT !.results = results, !.phase = "review"]
    OBVIOUS
<1>3. /\ r \in Journeys /\ r.phase = "review" /\ r.results = results /\ r.applied = j.applied
      /\ r.declined = j.declined /\ r.active = j.active /\ r.constrained = j.constrained
    BY <1>1, <1>2 DEF Journeys, Phases
<1>4. CASE results # {}
  <2>1. PICK wid \in SUBSET Widenings, list \in Seq(Laterals), no \in BOOLEAN :
            wid = {} /\ list = <<>> /\ no = FALSE
    <3>1. {} \in SUBSET Widenings /\ <<>> \in Seq(Laterals) /\ FALSE \in BOOLEAN
        OBVIOUS
    <3> QED
        BY <3>1
  <2>2. wid \in SUBSET Widenings /\ list \in Seq(Laterals) /\ no \in BOOLEAN
      BY <2>1
  <2>3. PICK k : k = [r EXCEPT !.sub = "", !.applied = wid, !.proposed = list,
                               !.active = no, !.declined = wid, !.offered = ""]
      OBVIOUS
  <2>4. k \in Journeys /\ k.phase = "review" /\ k.results = results /\ k.sub = ""
      BY <1>3, <2>2, <2>3, ZenonT(60) DEF Journeys
  <2>5. Sound(k) /\ Tied(k)
      BY <2>4, NotSuggesting DEF Sound
  <2>6. k = Landed(j, results, c)
      BY <1>2, <1>4, <2>1, <2>3 DEF Landed
  <2> QED
      BY <1>4, <2>4, <2>5, <2>6
<1>5. ASSUME results = {},
             NEW m \in Journeys, Kin(r, m), Sound(m), m.sub \in {"empty", "auto_relax_offering"},
             ~j.active \/ j.constrained = m.constrained, ~j.active => m.sub = "empty",
             Tied(m), Landed(j, results, c) = [m EXCEPT !.constrained = c]
      PROVE  \E k \in Journeys : /\ k = Landed(j, results, c) /\ Sound(k) /\ k.phase = "review"
                                 /\ k.results = results
                                 /\ results = {} => k.applied = j.applied /\ k.declined = j.declined
                                                    /\ k.sub \in {"empty", "auto_relax_offering"}
                                 /\ results # {} \/ ~j.active \/ j.constrained = c => Tied(k)
  <2>1. PICK k : k = [m EXCEPT !.constrained = c]
      OBVIOUS
  <2>2. /\ k \in Journeys /\ k.phase = m.phase /\ k.results = m.results /\ k.sub = m.sub
        /\ k.applied = m.applied /\ k.declined = m.declined /\ k.offered = m.offered
      BY <2>1 DEF Journeys
  <2>3. Sound(k)
      BY <1>5, <2>2 DEF Sound
  <2>4. CASE ~j.active
    <3>1. Tied(k)
        BY <1>5, <2>2, <2>4, NotSuggesting
    <3> QED
        BY <1>3, <1>5, <2>1, <2>2, <2>3, <3>1 DEF Kin
  <2>5. CASE j.active
    <3>1. m.constrained = j.constrained
        BY <1>5, <2>5
    <3>2. c = m.constrained => k = m
        BY <2>1 DEF Journeys
    <3> QED
        BY <1>3, <1>5, <2>1, <2>2, <2>3, <2>5, <3>1, <3>2 DEF Kin
  <2> QED
      BY <2>4, <2>5
<1>6. CASE results = {} /\ ~j.active
  <2>1. PICK m : m = [r EXCEPT !.sub = "empty"]
      OBVIOUS
  <2>2. m \in Journeys /\ Kin(r, m) /\ m.sub = "empty"
      BY <1>3, <2>1 DEF Journeys, Kin
  <2>3. Sound(m) /\ Tied(m)
      BY <2>2, NotSuggesting DEF Sound
  <2>4. Landed(j, results, c) = [m EXCEPT !.constrained = c]
      BY <1>2, <1>6, <2>1 DEF Landed
  <2> QED
      BY <1>5, <1>6, <2>2, <2>3, <2>4
<1>7. CASE results = {} /\ j.active
  <2>1. PICK m \in Journeys : /\ m = Suggesting(r) /\ Kin(r, m) /\ Sound(m) /\ Tied(m)
                              /\ m.sub \in {"empty", "auto_relax_offering"}
      BY <1>3, SuggestingIs
  <2>2. Landed(j, results, c) = [m EXCEPT !.constrained = c]
      BY <1>2, <1>7, <2>1 DEF Landed
  <2>3. m.constrained = r.constrained
    <3>1. CASE Suggestion(r) = <<>>
        BY <1>3, <2>1, <3>1 DEF Suggesting, ToMenu, Journeys
    <3>2. CASE Suggestion(r) # <<>>
      <4>1. PICK a : a = Head(Suggestion(r))
          OBVIOUS
      <4>2. m = [[r EXCEPT !.offered = a] EXCEPT !.active = TRUE, !.sub = "auto_relax_offering"]
          BY <2>1, <3>2, <4>1 DEF Suggesting, Propose
      <4> QED
          BY <1>3, <4>2 DEF Journeys
    <3> QED
        BY <3>1, <3>2
  <2>4. m \in Journeys
      BY <2>1
  <2> QED
      BY <1>3, <1>5, <1>7, <2>1, <2>2, <2>3, <2>4
<1> QED
    BY <1>4, <1>6, <1>7

-----------------------------------------------------------------------------
(* The inductive invariant *)

Turns == [at : {"idle", "save", "find", "land", "direct"}, msg : Messages \cup {""},
          result : Results, query : Roles, located : BOOLEAN, command : BOOLEAN]

\* The answers A that still hold are accounted for by the record j.
Remembers(j, A) == A = {} \/ (~Early(j) /\ (j.phase = "done" \/ A \subseteq Justified(j)))

\* A reply that is about to be saved shows what it saves.
Saves(u) ==
    u.at = "save" => /\ u.result.persist /\ ~u.result.search => Tied(u.result.journey)
                     /\ ~u.result.persist => ~u.result.search

\* An undisturbed turn u, with the record j, the pending command p and the
\* answers A: no other command waits, and what it saves or has saved accounts
\* for the answers.
Undisturbed(u, j, p, A) ==
    /\ u.at \in {"save", "find", "land"} => p.kind = "none"
    /\ u.at = "direct" => p.kind = "none" \/ u.command
    /\ u.at = "save" =>
         /\ u.result.persist => Explained(A \cup Meant(j, u.msg), u.result)
         /\ ~u.result.persist => /\ u.result.journey.applied = j.applied
                                 /\ u.result.journey.declined = j.declined
    /\ u.at \in {"find", "land"} => A \subseteq j.applied \cup j.declined

\* Only one request is at work.
Alone == \A s, t \in Threads : turn[s] # Idle /\ turn[t] # Idle => s = t

\* Only a search writes "done" and goes on.
EndsOpenly == stored.phase = "done" => ended \/ \E t \in Threads : turn[t].at = "land"

Settled == Quiet => shown = Reader /\ shown.suggestion \notin answered

ChatInv ==
    /\ TypeOK
    /\ Sound(stored)
    /\ \A t \in Threads : Sound(turn[t].result.journey) /\ Saves(turn[t])
    /\ EndsOpenly
    /\ Remembers(stored, answered)
    /\ ~diverted => /\ Alone /\ Settled
                    /\ \A t \in Threads : Undisturbed(turn[t], stored, pending, answered)

LEMMA TypesOf ==
    ASSUME TypeOK
    PROVE  /\ habit \in Habits /\ stored \in Journeys /\ profile \in Profiles
           /\ pending \in Pendings /\ kept \in Pendings /\ turn \in [Threads -> Turns]
           /\ diverted \in BOOLEAN /\ ended \in BOOLEAN /\ answered \in SUBSET Widenings
    BY DEF TypeOK, Turns, Results

LEMMA NoRole == "" \in Roles /\ FALSE \in BOOLEAN /\ "" \in Messages \cup {""}
    BY DEF Roles

\* The shapes of a turn, step by step.
LEMMA IdleIs == Idle \in Turns /\ Idle.at = "idle" /\ Idle.result = Unsaved(Fresh)
<1>1. PICK a \in {"idle", "save", "find", "land", "direct"}, msg \in Messages \cup {""},
           r \in Results, q \in Roles, no \in BOOLEAN :
          a = "idle" /\ msg = "" /\ r = Unsaved(Fresh) /\ q = "" /\ no = FALSE
    BY NoRole, FreshIs, Replies
<1>2. Idle = [at |-> a, msg |-> msg, result |-> r, query |-> q, located |-> no, command |-> no]
    BY <1>1 DEF Idle
<1>3. /\ a \in {"idle", "save", "find", "land", "direct"} /\ msg \in Messages \cup {""}
      /\ r \in Results /\ q \in Roles /\ no \in BOOLEAN
    BY <1>1
<1>4. PICK u : u = [at |-> a, msg |-> msg, result |-> r, query |-> q, located |-> no, command |-> no]
    OBVIOUS
<1>5. u \in Turns /\ u.at = a /\ u.result = r
    BY <1>3, <1>4 DEF Turns
<1> QED
    BY <1>1, <1>2, <1>4, <1>5

LEMMA FindShape ==
    ASSUME NEW q \in Roles, NEW l \in BOOLEAN,
           NEW u, u = [Idle EXCEPT !.at = "find", !.query = q, !.located = l]
    PROVE  u \in Turns /\ u.at = "find" /\ u.result = Unsaved(Fresh)
    BY IdleIs DEF Turns

LEMMA LandShape ==
    ASSUME NEW r \in Results, NEW u, u = [Idle EXCEPT !.at = "land", !.result = r]
    PROVE  u \in Turns /\ u.at = "land" /\ u.result = r
    BY IdleIs DEF Turns

LEMMA DirectShape ==
    ASSUME NEW q \in Roles, NEW l \in BOOLEAN, NEW c \in BOOLEAN,
           NEW u, u = [Idle EXCEPT !.at = "direct", !.query = q, !.located = l, !.command = c]
    PROVE  u \in Turns /\ u.at = "direct" /\ u.result = Unsaved(Fresh) /\ u.command = c
    BY IdleIs DEF Turns

\* A turn that has nothing to save.
LEMMA NothingToSave ==
    ASSUME NEW u \in Turns, u.at # "save" PROVE Saves(u)
    BY DEF Saves

LEMMA IdleRests ==
    ASSUME NEW j, NEW p, NEW A
    PROVE  Undisturbed(Idle, j, p, A) /\ Saves(Idle) /\ Sound(Idle.result.journey)
<1>1. Unsaved(Fresh).journey = Fresh
    BY FreshIs, Replies
<1> QED
    BY <1>1, IdleIs, FreshIs DEF Undisturbed, Saves

\* What Keep leaves accounts for the answers, if anything does.
LEMMA KeepIs ==
    ASSUME TypeOK, NEW j, Sound(j), NEW A \in SUBSET Widenings, Keep(j, A),
           diverted \/ Wiped(j) \/ Remembers(j, A)
    PROVE  /\ stored' = j /\ answered' \in SUBSET Widenings
           /\ answered' = {} \/ answered' = A
           /\ Wiped(j) => answered' = {}
           /\ Remembers(stored', answered')
<1>1. stored' = j
    BY DEF Keep
<1>2. CASE diverted \/ Wiped(j)
  <2>1. answered' = {}
      BY <1>2 DEF Keep, Wiped
  <2> QED
      BY <1>1, <2>1 DEF Remembers
<1>3. CASE ~(diverted \/ Wiped(j))
  <2>1. answered' = A
      BY <1>3 DEF Keep, Wiped
  <2> QED
      BY <1>1, <1>3, <2>1
<1> QED
    BY <1>2, <1>3

\* Reset and restarted records carry no answers.
LEMMA KeepFresh ==
    ASSUME TypeOK, Keep(Fresh, answered)
    PROVE  stored' = Fresh /\ answered' = {} /\ Remembers(stored', answered')
           /\ answered' \in SUBSET Widenings
<1>1. Wiped(Fresh)
    BY FreshIs DEF Wiped
<1> QED
    BY <1>1, FreshIs, KeepIs, TypesOf

\* What a reply suggests was not answered before.
LEMMA NewSuggestion ==
    ASSUME NEW j, NEW A \in SUBSET Widenings, Sound(j), Remembers(j, A)
    PROVE  Shows(j).suggestion \notin A
<1>1. "" \notin Widenings
    BY DEF Widenings, WidenLocation, DropSeniority, TryLaterals
<1>2. CASE Asks(j) = "suggestion" /\ Suggestion(j) # <<>>
  <2>1. Shows(j).suggestion = Head(Suggestion(j))
      BY <1>2 DEF Shows
  <2>2. Head(Suggestion(j)) \notin j.applied \cup j.declined
      BY <1>2, SuggestionIsNew
  <2>3. j.phase = "review" /\ j.sub = "auto_relax_offering"
      BY <1>2, NotSuggesting DEF Sound
  <2>4. A \subseteq j.applied \cup j.declined
      BY <2>3 DEF Remembers, Justified
  <2> QED
      BY <2>1, <2>2, <2>4
<1>3. CASE ~(Asks(j) = "suggestion" /\ Suggestion(j) # <<>>)
    BY <1>1, <1>3 DEF Shows
<1> QED
    BY <1>2, <1>3

\* Records outside the guided search ask for nothing.
LEMMA OutsideReads ==
    ASSUME NEW j \in Journeys, j.phase \in {"greet", "done"}
    PROVE  Reads(j) = ShowsNothing /\ Shows(j) = ShowsNothing
<1>1. Asks(j) = "nothing"
    BY DEF Asks
<1> QED
    BY <1>1 DEF Reads, Shows, ShowsNothing, Just

\* With nothing pending, the next message is read by the record.
LEMMA ReaderIs ==
    ASSUME stored' \in Journeys, pending'.kind = "none"
    PROVE  Reader' = Reads(stored')
<1>1. PICK j \in Journeys : j = stored'
    OBVIOUS
<1>2. j.phase \in {"greet", "done"} => Reads(j) = ShowsNothing
    BY OutsideReads
<1>3. Reader' = IF stored'.phase \notin {"greet", "done"} THEN Reads(stored') ELSE ShowsNothing
    BY DEF Reader, InJourney, Reads, Asks
<1> QED
    BY <1>1, <1>2, <1>3

\* A step of thread t, with u the turn it leaves, keeps the invariant when the
\* record, the answers and the reply fit together.
LEMMA TurnKeeps ==
    ASSUME ChatInv, NEW t \in Threads, NEW u \in Turns, Sound(u.result.journey), Saves(u),
           turn' = [turn EXCEPT ![t] = u], habit' = habit,
           Sound(stored'), profile' \in Profiles, pending' \in Pendings, kept' \in Pendings,
           diverted' \in BOOLEAN, ended' \in BOOLEAN, answered' \in SUBSET Widenings,
           Remembers(stored', answered'),
           \/ stored'.phase # "done" \/ ended' \/ u.at = "land"
           \/ stored' = stored /\ ended' = ended /\ turn[t].at # "land",
           ~diverted' => /\ Quiet \/ (~diverted /\ turn[t] # Idle)
                         /\ Undisturbed(u, stored', pending', answered')
                         /\ u = Idle => /\ shown' = Reader'
                                        /\ shown'.suggestion \notin answered'
    PROVE  ChatInv'
<1>1. turn \in [Threads -> Turns] /\ habit \in Habits
    BY TypesOf DEF ChatInv
<1>2. turn' \in [Threads -> Turns] /\ turn'[t] = u /\ \A s \in Threads \ {t} : turn'[s] = turn[s]
    BY <1>1
<1>3. TypeOK'
  <2>1. stored' \in Journeys
      BY DEF Sound
  <2> QED
      BY <1>1, <1>2, <2>1 DEF TypeOK, Turns, Results
<1>4. \A s \in Threads : Sound(turn'[s].result.journey) /\ Saves(turn'[s])
    BY <1>2 DEF ChatInv
<1>5. EndsOpenly'
  <2>1. CASE stored'.phase # "done" \/ ended'
      BY <2>1 DEF EndsOpenly
  <2>2. CASE u.at = "land"
      BY <1>2, <2>2 DEF EndsOpenly
  <2>3. CASE stored' = stored /\ ended' = ended /\ turn[t].at # "land"
      BY <1>2, <2>3 DEF EndsOpenly, ChatInv
  <2> QED
      BY <2>1, <2>2, <2>3
<1>6. ASSUME ~diverted'
      PROVE  /\ Alone' /\ Settled'
             /\ \A s \in Threads : Undisturbed(turn'[s], stored', pending', answered')
  <2>1. \A s \in Threads \ {t} : turn[s] = Idle
      BY <1>6 DEF Quiet, ChatInv, Alone
  <2>2. \A s \in Threads \ {t} : turn'[s] = Idle
      BY <1>2, <2>1
  <2>3. Alone'
      BY <2>2 DEF Alone
  <2>4. Settled'
      BY <1>2, <1>6 DEF Settled, Quiet
  <2>5. \A s \in Threads : Undisturbed(turn'[s], stored', pending', answered')
      BY <1>2, <1>6, <2>2, IdleRests
  <2> QED
      BY <2>3, <2>4, <2>5
<1> QED
    BY <1>3, <1>4, <1>5, <1>6 DEF ChatInv

LEMMA Initially == Init => ChatInv
<1> SUFFICES ASSUME Init PROVE ChatInv
    OBVIOUS
<1>1. stored = Fresh /\ pending = NoPending /\ kept = NoPending /\ turn = [t \in Threads |-> Idle]
      /\ shown = ShowsNothing /\ diverted = FALSE /\ ended = FALSE /\ answered = {} /\ habit \in Habits
    BY DEF Init
<1>2. profile \in Profiles
    BY DEF Init, Profiles
<1>3. NoPending \in Pendings
    BY NoRole DEF NoPending, Pendings
<1>4. TypeOK
    BY <1>1, <1>2, <1>3, FreshIs, IdleIs DEF TypeOK, Turns, Results
<1>5. Remembers(stored, answered)
    BY <1>1 DEF Remembers
<1>6. EndsOpenly
    BY <1>1, FreshIs DEF EndsOpenly
<1>7. \A t \in Threads : turn[t] = Idle
    BY <1>1
<1>8. Settled
  <2>1. Reader = ShowsNothing
      BY <1>1, FreshIs DEF Reader, InJourney, NoPending
  <2> QED
      BY <1>1, <2>1 DEF Settled
<1> QED
    BY <1>1, <1>4, <1>5, <1>6, <1>7, <1>8, FreshIs, IdleRests DEF ChatInv, Alone

-----------------------------------------------------------------------------
(* A message arrives *)

LEMMA Unanswered ==
    ASSUME NEW u \in Turns, u.result = Unsaved(Fresh), u.at # "save"
    PROVE  Sound(u.result.journey) /\ Saves(u)
    BY FreshIs, Replies, NothingToSave

LEMMA StepExplains ==
    ASSUME NEW j, Sound(j), NEW A \in SUBSET Widenings, Remembers(j, A), NEW msg, NEW r,
           Outcome(j, msg, r), r.persist
    PROVE  Explained(A \cup Meant(j, msg), r)
<1>1. CASE Early(j)
  <2>1. A = {} /\ Meant(j, msg) = {}
      BY <1>1 DEF Remembers, Meant, Early
  <2> QED
      BY <2>1 DEF Explained
<1>2. CASE j.phase = "done"
  <2>1. A \cup Meant(j, msg) \subseteq Widenings
      BY <1>2 DEF Meant
  <2>2. Explained(Widenings, r)
      BY <1>2 DEF Outcome
  <2> QED
      BY <2>1, <2>2, ExplainedLess
<1>3. CASE ~Early(j) /\ j.phase # "done"
  <2>1. A \cup Meant(j, msg) \subseteq Justified(j) \cup Meant(j, msg)
      BY <1>3 DEF Remembers
  <2>2. Explained(Justified(j) \cup Meant(j, msg), r)
      BY <1>3 DEF Outcome
  <2> QED
      BY <2>1, <2>2, ExplainedLess
<1> QED
    BY <1>1, <1>2, <1>3

LEMMA StepIs ==
    ASSUME TypeOK, NEW t \in Threads, NEW j, Sound(j), NEW msg \in Messages \cup {""}, Step(t, j, msg),
           NEW A \in SUBSET Widenings, Remembers(j, A), NEW p, p.kind = "none"
    PROVE  \E u \in Turns : /\ turn' = [turn EXCEPT ![t] = u] /\ u.at = "save" /\ Saves(u)
                            /\ Sound(u.result.journey) /\ Undisturbed(u, j, p, A)
<1>1. PICK ai \in BOOLEAN :
        turn' = [turn EXCEPT ![t] = [Idle EXCEPT !.at = "save", !.msg = msg,
                                                 !.result = Advance(j, msg, profile.cv, ai)]]
    BY DEF Step
<1>2. ai \in BOOLEAN
    BY <1>1
<1>3. PICK has : has = profile.cv
    OBVIOUS
<1>4. PICK r : r = Advance(j, msg, has, ai)
    OBVIOUS
<1>5. Outcome(j, msg, r)
    BY <1>2, <1>4, AdvanceOutcome
<1>6. r \in Results /\ Sound(r.journey)
    BY <1>5 DEF Outcome
<1>7. PICK u : u = [Idle EXCEPT !.at = "save", !.msg = msg, !.result = r]
    OBVIOUS
<1>8. u \in Turns /\ u.at = "save" /\ u.msg = msg /\ u.result = r
    BY <1>6, <1>7, IdleIs DEF Turns
<1>9. Saves(u)
    BY <1>5, <1>8 DEF Saves, Outcome
<1>10. r.persist => Explained(A \cup Meant(j, msg), r)
    BY <1>5, StepExplains
<1>11. ~r.persist => r.journey.applied = j.applied /\ r.journey.declined = j.declined
    BY <1>5 DEF Outcome
<1>12. Undisturbed(u, j, p, A)
    BY <1>8, <1>10, <1>11 DEF Undisturbed
<1> QED
    BY <1>1, <1>3, <1>4, <1>6, <1>7, <1>8, <1>9, <1>12

LEMMA DirectIs ==
    ASSUME TypeOK, NEW t \in Threads, NEW q \in Roles, NEW l \in BOOLEAN, NEW c \in BOOLEAN,
           DirectFind(t, q, l, c)
    PROVE  \E u \in Turns : /\ turn' = [turn EXCEPT ![t] = u] /\ u.at = "direct" /\ u.command = c
                            /\ Saves(u) /\ Sound(u.result.journey)
<1>1. PICK m \in BOOLEAN : m = (l \/ profile.located)
    OBVIOUS
<1>2. PICK u : u = [Idle EXCEPT !.at = "direct", !.query = q, !.located = m, !.command = c]
    OBVIOUS
<1>3. m \in BOOLEAN
    BY <1>1
<1>4. u \in Turns /\ u.at = "direct" /\ u.result = Unsaved(Fresh) /\ u.command = c
    BY <1>2, <1>3, DirectShape
<1>5. Saves(u) /\ Sound(u.result.journey)
    BY <1>4, Unanswered
<1>6. turn' = [turn EXCEPT ![t] = u]
    BY <1>1, <1>2 DEF DirectFind
<1> QED
    BY <1>4, <1>5, <1>6

LEMMA FilledIs ==
    ASSUME TypeOK, NEW t \in Threads, NEW q \in Roles, RunFilled(t, q)
    PROVE  /\ pending' \in Pendings /\ kept' \in Pendings
           /\ \E u \in Turns : /\ turn' = [turn EXCEPT ![t] = u] /\ u.at = "direct" /\ u.command = TRUE
                               /\ Saves(u) /\ Sound(u.result.journey)
<1>1. PICK yes \in BOOLEAN : yes = TRUE
    OBVIOUS
<1>2. yes \in BOOLEAN
    BY <1>1
<1>3. DirectFind(t, q, yes, yes)
    BY <1>1 DEF RunFilled
<1>4. \E u \in Turns : /\ turn' = [turn EXCEPT ![t] = u] /\ u.at = "direct" /\ u.command = yes
                       /\ Saves(u) /\ Sound(u.result.journey)
    BY <1>2, <1>3, DirectIs
<1>5. pending' \in Pendings /\ kept' \in Pendings
    BY TypesOf DEF RunFilled, Pendings
<1> QED
    BY <1>1, <1>4, <1>5

\* An answer to a pending command.
LEMMA AnswerIs ==
    ASSUME TypeOK, NEW t \in Threads, turn[t] = Idle, NEW msg, pending.kind # "none",
           AnswerPending(t, msg)
    PROVE  /\ pending' \in Pendings /\ kept' \in Pendings
           /\ \E u \in Turns :
                /\ turn' = [turn EXCEPT ![t] = u] /\ Saves(u) /\ Sound(u.result.journey)
                /\ \/ u.at = "direct" /\ u.command = TRUE
                   \/ /\ u = Idle
                      /\ \/ pending'.kind = "none" /\ shown' = ShowsNothing
                         \/ pending'.kind = "confirm" /\ shown' = Just("confirm")
<1>1. pending \in Pendings /\ turn \in [Threads -> Turns]
    BY TypesOf
<1>2. pending.kind \in {"location", "filled", "confirm"} /\ pending.query \in Roles
    BY <1>1 DEF Pendings
<1>3. CASE pending.kind = "confirm"
  <2>1. /\ pending' = IF msg \in {"yes", "no"} THEN NoPending ELSE pending
        /\ Answer(IF msg \in {"yes", "no"} THEN ShowsNothing ELSE Just("confirm"))
      BY <1>3 DEF AnswerPending
  <2>2. turn' = [turn EXCEPT ![t] = Idle]
      BY <1>1, <2>1 DEF Answer
  <2>3. NoPending \in Pendings /\ NoPending.kind = "none"
      BY NoRole DEF NoPending, Pendings
  <2>4. pending' \in Pendings /\ kept' = pending'
      BY <1>1, <2>1, <2>3 DEF Answer
  <2>5. \/ pending'.kind = "none" /\ shown' = ShowsNothing
        \/ pending'.kind = "confirm" /\ shown' = Just("confirm")
      BY <1>3, <2>1, <2>3 DEF Answer
  <2> QED
      BY <2>2, <2>4, <2>5, IdleIs, IdleRests
<1>4. CASE pending.kind \in {"location", "filled"}
  <2>1. RunFilled(t, pending.query)
      BY <1>4 DEF AnswerPending
  <2>2. PICK q \in Roles : q = pending.query
      BY <1>2
  <2> QED
      BY <2>1, <2>2, FilledIs
<1> QED
    BY <1>2, <1>3, <1>4

LEMMA AskIs ==
    ASSUME TypeOK, NEW t \in Threads, turn[t] = Idle, NEW role \in Roles, AskWhere(role)
    PROVE  /\ pending' \in Pendings /\ kept' \in Pendings /\ pending'.kind = "location"
           /\ shown' = Just("where") /\ turn' = [turn EXCEPT ![t] = Idle]
<1>1. turn \in [Threads -> Turns]
    BY TypesOf
<1> QED
    BY <1>1 DEF AskWhere, Answer, Pendings

LEMMA BuildingIs == Sound(Building) /\ Tied(Building) /\ Wiped(Building) /\ Building.phase = "cv_check"
<1>1. Building \in Journeys /\ Building.phase = "cv_check" /\ Building.sub = Fresh.sub
      /\ Building.step = Fresh.step
    BY FreshIs DEF Building, Journeys, Phases
<1>2. Fresh.step = "role"
    BY DEF Fresh
<1> QED
    BY <1>1, <1>2, FreshIs, NotSuggesting DEF Sound, Wiped

\* What a received message finds, and what it needs for the invariant.
LEMMA Receiving ==
    ASSUME ChatInv, NEW t \in Threads, turn[t] = Idle,
           NEW u \in Turns, Sound(u.result.journey), Saves(u), turn' = [turn EXCEPT ![t] = u],
           habit' = habit, profile' = profile, pending' \in Pendings, kept' \in Pendings,
           Sound(stored'), ended' \in BOOLEAN, answered' \in SUBSET Widenings,
           Remembers(stored', answered'),
           stored'.phase # "done" \/ (stored' = stored /\ ended' = ended),
           diverted' \in BOOLEAN, ~diverted' => Quiet,
           ~diverted' => Undisturbed(u, stored', pending', answered'),
           ~diverted' /\ u = Idle => shown' = Reader' /\ shown'.suggestion \notin answered'
    PROVE  ChatInv'
<1>1. profile' \in Profiles
    BY TypesOf DEF ChatInv
<1>2. turn[t].at # "land"
    BY IdleIs
<1>3. Idle \in Turns
    BY IdleIs
<1>4. ~diverted' => /\ Quiet \/ (~diverted /\ turn[t] # Idle)
                    /\ Undisturbed(u, stored', pending', answered')
                    /\ u = Idle => shown' = Reader' /\ shown'.suggestion \notin answered'
    OBVIOUS
<1>5. \/ stored'.phase # "done" \/ ended' \/ u.at = "land"
      \/ stored' = stored /\ ended' = ended /\ turn[t].at # "land"
    BY <1>2
<1> QED
    BY <1>1, <1>4, <1>5, TurnKeeps

LEMMA CvInterruptKeeps ==
    ASSUME ChatInv, NEW t \in Threads, turn[t] = Idle, NEW msg, CvInterrupt(t, msg),
           diverted' = (~Quiet \/ (pending.kind # "none" /\ (InJourney \/ ~Routed(msg))))
    PROVE  ChatInv'
<1>1. TypeOK /\ turn \in [Threads -> Turns]
    BY TypesOf DEF ChatInv
<1>2. Keep(Building, answered) /\ ended' = FALSE /\ habit' = habit /\ profile' = profile
      /\ pending' = pending /\ turn' = turn /\ shown' = Shows(Building) /\ kept' = pending'
    BY DEF CvInterrupt, Answer
<1>3. turn' = [turn EXCEPT ![t] = Idle]
    BY <1>1, <1>2
<1>4. stored' = Building /\ answered' = {} /\ Remembers(stored', answered')
    BY <1>1, <1>2, BuildingIs, TypesOf, KeepIs
<1>5. pending' \in Pendings /\ kept' \in Pendings /\ ended' \in BOOLEAN /\ diverted' \in BOOLEAN
      /\ answered' \in SUBSET Widenings
    BY <1>1, <1>2, <1>4, TypesOf
<1>6. ~diverted' => Quiet /\ pending.kind = "none"
    BY DEF CvInterrupt, Routed
<1>7. ~diverted' => shown' = Reader' /\ shown'.suggestion \notin answered'
  <2>1. stored' \in Journeys
      BY <1>4, BuildingIs DEF Sound
  <2>2. pending'.kind = "none" => Reader' = Reads(stored')
      BY <2>1, ReaderIs
  <2> QED
      BY <1>2, <1>4, <1>6, <2>2, BuildingIs DEF Tied
<1>8. Sound(stored') /\ stored'.phase # "done"
    BY <1>4, BuildingIs
<1> QED
    BY <1>2, <1>3, <1>4, <1>5, <1>6, <1>7, <1>8, IdleIs, IdleRests, Receiving

\* A new search, from the words of the user or from "/find": the record starts
\* afresh, and the search runs at once or the guided search asks.
LEMMA RestartKeeps ==
    ASSUME ChatInv, NEW t \in Threads, turn[t] = Idle, Keep(Fresh, answered), ended' = FALSE,
           UNCHANGED <<habit, profile, pending, kept, shown>>,
           \/ \E role \in Bucketed : DirectFind(t, role, FALSE, FALSE)
           \/ \E msg \in Messages \cup {""} : Step(t, Fresh, msg),
           diverted' \in BOOLEAN, ~diverted' => Quiet /\ pending.kind = "none"
    PROVE  ChatInv'
<1>1. TypeOK /\ turn \in [Threads -> Turns]
    BY TypesOf DEF ChatInv
<1>2. stored' = Fresh /\ answered' = {} /\ Remembers(stored', answered')
      /\ answered' \in SUBSET Widenings
    BY <1>1, KeepFresh
<1>3. pending' \in Pendings /\ kept' \in Pendings /\ ended' \in BOOLEAN
    BY <1>1, TypesOf
<1>4. Sound(stored') /\ stored'.phase # "done"
    BY <1>2, FreshIs
<1>5. CASE \E role \in Bucketed : DirectFind(t, role, FALSE, FALSE)
  <2>1. PICK no \in BOOLEAN, role \in Roles : no = FALSE /\ DirectFind(t, role, no, no)
      BY <1>5 DEF Bucketed, Roles, RoleMessages
  <2>2. no \in BOOLEAN /\ role \in Roles
      BY <2>1
  <2>3. PICK u \in Turns : /\ turn' = [turn EXCEPT ![t] = u] /\ u.at = "direct" /\ u.command = no
                           /\ Saves(u) /\ Sound(u.result.journey)
      BY <1>1, <2>1, <2>2, DirectIs
  <2>4. ~diverted' => Undisturbed(u, stored', pending', answered')
      BY <2>3 DEF Undisturbed
  <2>5. u # Idle
      BY <2>3, IdleIs
  <2> QED
      BY <1>2, <1>3, <1>4, <2>3, <2>4, <2>5, Receiving
<1>6. CASE \E msg \in Messages \cup {""} : Step(t, Fresh, msg)
  <2>1. PICK msg \in Messages \cup {""} : Step(t, Fresh, msg)
      BY <1>6
  <2>2. PICK A \in SUBSET Widenings : A = answered'
      BY <1>2
  <2>3. Remembers(Fresh, A)
      BY <1>2, <2>2
  <2>4. PICK p : p = NoPending
      OBVIOUS
  <2>5. p.kind = "none"
      BY <2>4 DEF NoPending
  <2>6. PICK u \in Turns : /\ turn' = [turn EXCEPT ![t] = u] /\ u.at = "save" /\ Saves(u)
                           /\ Sound(u.result.journey) /\ Undisturbed(u, Fresh, p, A)
      BY <1>1, <2>1, <2>2, <2>3, <2>5, FreshIs, StepIs
  <2>7. ~diverted' => Undisturbed(u, stored', pending', answered')
      BY <1>2, <2>2, <2>6 DEF Undisturbed
  <2>8. u # Idle
      BY <2>6, IdleIs
  <2> QED
      BY <1>2, <1>3, <1>4, <2>6, <2>7, <2>8, Receiving
<1> QED
    BY <1>5, <1>6

LEMMA ToJourneyKeeps ==
    ASSUME ChatInv, NEW t \in Threads, turn[t] = Idle, NEW msg \in Messages, ToJourney(t, msg),
           diverted' = (~Quiet \/ (pending.kind # "none" /\ (InJourney \/ ~Routed(msg))))
    PROVE  ChatInv'
<1>1. TypeOK /\ turn \in [Threads -> Turns] /\ Sound(stored) /\ Remembers(stored, answered)
    BY TypesOf DEF ChatInv
<1>2. /\ habit' = habit /\ stored' = stored /\ profile' = profile /\ pending' = pending
      /\ kept' = kept /\ ended' = ended /\ answered' = answered
    BY DEF ToJourney
<1>3. /\ pending \in Pendings /\ kept \in Pendings /\ ended \in BOOLEAN
      /\ answered \in SUBSET Widenings /\ diverted' \in BOOLEAN
    BY <1>1, TypesOf
<1>4. ~diverted' => Quiet /\ pending.kind = "none"
    BY DEF ToJourney
<1>5. Step(t, stored, msg) /\ msg \in Messages \cup {""}
    BY DEF ToJourney
<1>5a. PICK j : j = stored
    OBVIOUS
<1>5b. PICK A \in SUBSET Widenings : A = answered
    BY <1>3
<1>6. j = stored /\ A = answered /\ A \in SUBSET Widenings
    BY <1>5a, <1>5b
<1>7. Sound(j) /\ Step(t, j, msg) /\ Remembers(j, A)
    BY <1>1, <1>5, <1>6
<1>8. PICK p : p = NoPending
    OBVIOUS
<1>9. p.kind = "none"
    BY <1>8 DEF NoPending
<1>10. PICK u \in Turns : /\ turn' = [turn EXCEPT ![t] = u] /\ u.at = "save" /\ Saves(u)
                          /\ Sound(u.result.journey) /\ Undisturbed(u, j, p, A)
    BY <1>1, <1>5, <1>6, <1>7, <1>9, StepIs
<1>11. ~diverted' => Undisturbed(u, stored', pending', answered')
    BY <1>2, <1>4, <1>6, <1>10 DEF Undisturbed
<1>12. u # Idle
    BY <1>10, IdleIs
<1>13. Sound(stored') /\ Remembers(stored', answered')
    BY <1>1, <1>2
<1> QED
    BY <1>2, <1>3, <1>4, <1>10, <1>11, <1>12, <1>13, Receiving

LEMMA ToRouterKeeps ==
    ASSUME ChatInv, NEW t \in Threads, turn[t] = Idle, NEW msg \in Messages, ToRouter(t, msg),
           diverted' = (~Quiet \/ (pending.kind # "none" /\ (InJourney \/ ~Routed(msg))))
    PROVE  ChatInv'
<1>1. TypeOK /\ turn \in [Threads -> Turns] /\ Sound(stored) /\ Remembers(stored, answered)
    BY TypesOf DEF ChatInv
<1>2. /\ habit' = habit /\ stored' = stored /\ profile' = profile
      /\ ended' = ended /\ answered' = answered /\ Routed(msg)
    BY DEF ToRouter
<1>3. /\ pending \in Pendings /\ kept \in Pendings /\ ended \in BOOLEAN
      /\ answered \in SUBSET Widenings /\ diverted' \in BOOLEAN
    BY <1>1, TypesOf
<1>4. ~diverted' => Quiet /\ ~InJourney
    BY <1>2 DEF Routed
<1>5. Sound(stored') /\ Remembers(stored', answered')
    BY <1>1, <1>2
<1>6. "" \notin Widenings
    BY DEF Widenings, WidenLocation, DropSeniority, TryLaterals
<1>7. ASSUME NEW what, shown' = Just(what) PROVE shown'.suggestion \notin answered'
    BY <1>2, <1>3, <1>6, <1>7 DEF Just
<1>8. CASE pending.kind # "none"
  <2>1. AnswerPending(t, msg)
      BY <1>8 DEF ToRouter
  <2>2. pending' \in Pendings /\ kept' \in Pendings
      BY <1>1, <1>8, <2>1, AnswerIs
  <2>3. PICK u \in Turns :
                /\ turn' = [turn EXCEPT ![t] = u] /\ Saves(u) /\ Sound(u.result.journey)
                /\ \/ u.at = "direct" /\ u.command = TRUE
                   \/ /\ u = Idle
                      /\ \/ pending'.kind = "none" /\ shown' = ShowsNothing
                         \/ pending'.kind = "confirm" /\ shown' = Just("confirm")
      BY <1>1, <1>8, <2>1, AnswerIs
  <2>4. Undisturbed(u, stored', pending', answered')
      BY <2>3, IdleIs DEF Undisturbed
  <2>5. ~diverted' /\ u = Idle => shown' = Reader' /\ shown'.suggestion \notin answered'
    <3>1. SUFFICES ASSUME ~diverted', u = Idle
                   PROVE  shown' = Reader' /\ shown'.suggestion \notin answered'
        OBVIOUS
    <3>2. \/ pending'.kind = "none" /\ shown' = ShowsNothing
          \/ pending'.kind = "confirm" /\ shown' = Just("confirm")
        BY <2>3, <3>1, IdleIs
    <3>3. ~InJourney'
        BY <1>2, <1>4, <3>1 DEF InJourney
    <3>4. shown' = Reader'
        BY <3>2, <3>3 DEF Reader
    <3> QED
        BY <1>7, <3>2, <3>4 DEF ShowsNothing
  <2> QED
      BY <1>2, <1>3, <1>4, <1>5, <2>2, <2>3, <2>4, <2>5, Receiving
<1>9. CASE pending.kind = "none"
  <2>1. \/ pending' = pending /\ Answer(ShowsNothing)
        \/ msg \in RoleMessages /\ AskWhere(msg)
      BY <1>9 DEF ToRouter
  <2>2. /\ pending' \in Pendings /\ kept' \in Pendings /\ turn' = [turn EXCEPT ![t] = Idle]
        /\ \/ pending'.kind = "none" /\ shown' = ShowsNothing
           \/ pending'.kind = "location" /\ shown' = Just("where")
    <3>1. CASE pending' = pending /\ Answer(ShowsNothing)
        BY <1>1, <1>3, <1>9, <3>1 DEF Answer
    <3>2. CASE msg \in RoleMessages /\ AskWhere(msg)
        BY <1>1, <3>2, AskIs DEF Roles
    <3> QED
        BY <2>1, <3>1, <3>2
  <2>3. ~diverted' => shown' = Reader' /\ shown'.suggestion \notin answered'
    <3>1. SUFFICES ASSUME ~diverted'
                   PROVE  shown' = Reader' /\ shown'.suggestion \notin answered'
        OBVIOUS
    <3>2. ~InJourney'
        BY <1>2, <1>4, <3>1 DEF InJourney
    <3>3. shown' = Reader'
        BY <2>2, <3>2 DEF Reader
    <3> QED
        BY <1>7, <2>2, <3>3 DEF ShowsNothing
  <2> QED
      BY <1>2, <1>3, <1>4, <1>5, <2>2, <2>3, IdleIs, IdleRests, Receiving
<1> QED
    BY <1>8, <1>9

LEMMA ReceiveKeeps ==
    ASSUME ChatInv, NEW t \in Threads, NEW msg \in Says[habit][t], Receive(t, msg)
    PROVE  ChatInv'
<1>1. msg \in Messages
    BY ChatAssumption, TypesOf DEF ChatInv
<1>2. turn[t] = Idle /\ diverted' = (~Quiet \/ (pending.kind # "none" /\ (InJourney \/ ~Routed(msg))))
    BY DEF Receive
<1>3. CASE CvInterrupt(t, msg)
    BY <1>2, <1>3, CvInterruptKeeps
<1>4. CASE NewSearchInterrupt(t, msg)
  <2>1. /\ Keep(Fresh, answered) /\ ended' = FALSE /\ UNCHANGED <<habit, profile, pending, kept, shown>>
        /\ \/ msg \in Bucketed /\ DirectFind(t, msg, FALSE, FALSE)
           \/ Step(t, Fresh, "")
      BY <1>4 DEF NewSearchInterrupt
  <2>2. ~diverted' => Quiet /\ pending.kind = "none"
      BY <1>2, <1>4 DEF NewSearchInterrupt, Routed
  <2>3. diverted' \in BOOLEAN
      BY <1>2
  <2> QED
      BY <1>2, <2>1, <2>2, <2>3, NoRole, RestartKeeps
<1>5. CASE AutoStart(t, msg)
  <2>1. /\ Keep(Fresh, answered) /\ ended' = FALSE /\ UNCHANGED <<habit, profile, pending, kept, shown>>
        /\ Step(t, Fresh, msg)
      BY <1>5 DEF AutoStart
  <2>2. ~diverted' => Quiet /\ pending.kind = "none"
      BY <1>2, <1>5 DEF AutoStart, Routed
  <2>3. diverted' \in BOOLEAN /\ msg \in Messages \cup {""}
      BY <1>1, <1>2
  <2> QED
      BY <1>2, <2>1, <2>2, <2>3, RestartKeeps
<1>6. CASE ToJourney(t, msg)
    BY <1>1, <1>2, <1>6, ToJourneyKeeps
<1>7. CASE ToRouter(t, msg)
    BY <1>1, <1>2, <1>7, ToRouterKeeps
<1> QED
    BY <1>3, <1>4, <1>5, <1>6, <1>7 DEF Receive

-----------------------------------------------------------------------------
(* Slash commands *)

LEMMA SlashKeeps ==
    ASSUME ChatInv, NEW t \in Threads, Slash(t),
           NEW u \in Turns, Sound(u.result.journey), Saves(u), turn' = [turn EXCEPT ![t] = u],
           pending' \in Pendings, kept' \in Pendings
    PROVE  ChatInv'
<1>1. TypeOK /\ Sound(stored) /\ Remembers(stored, answered)
    BY DEF ChatInv
<1>2. /\ turn[t] = Idle /\ diverted' = TRUE /\ habit' = habit /\ stored' = stored
      /\ profile' = profile /\ ended' = ended /\ answered' = answered
    BY DEF Slash
<1>3. ended' \in BOOLEAN /\ answered' \in SUBSET Widenings /\ diverted' \in BOOLEAN
    BY <1>1, <1>2, TypesOf
<1>4. Sound(stored') /\ Remembers(stored', answered')
    BY <1>1, <1>2
<1> QED
    BY <1>2, <1>3, <1>4, Receiving

LEMMA SlashesKeep ==
    ASSUME ChatInv, NEW t \in Threads, NEW role \in SlashRoles,
           SlashFind(t, role) \/ SlashFindAsk(t, role) \/ SlashFindRestart(t, role)
    PROVE  ChatInv'
<1>1. TypeOK /\ role \in Roles
    BY ChatAssumption DEF ChatInv, Roles
<1>2. CASE SlashFind(t, role)
    BY <1>1, <1>2, FilledIs, SlashKeeps DEF SlashFind
<1>3. CASE SlashFindAsk(t, role)
  <2>1. Slash(t) /\ turn[t] = Idle /\ AskWhere(role)
      BY <1>3 DEF SlashFindAsk, Slash
  <2> QED
      BY <1>1, <2>1, AskIs, IdleIs, IdleRests, SlashKeeps
<1>4. CASE SlashFindRestart(t, role)
  <2>1. /\ turn[t] = Idle /\ Keep(Fresh, answered) /\ ended' = FALSE
        /\ UNCHANGED <<habit, profile, pending, kept, shown>>
        /\ \/ role \in Bucketed /\ DirectFind(t, role, FALSE, FALSE)
           \/ Step(t, Fresh, "")
        /\ diverted' = (~Quiet \/ pending.kind # "none")
      BY <1>4 DEF SlashFindRestart
  <2>2. diverted' \in BOOLEAN /\ (~diverted' => Quiet /\ pending.kind = "none")
      BY <2>1
  <2> QED
      BY <2>1, <2>2, NoRole, RestartKeeps
<1> QED
    BY <1>2, <1>3, <1>4

LEMMA OtherSlashesKeep ==
    ASSUME ChatInv, NEW t \in Threads, SlashWrite(t) \/ SlashAnswers(t)
    PROVE  ChatInv'
<1>1. TypeOK /\ turn \in [Threads -> Turns]
    BY TypesOf DEF ChatInv
<1>2. CASE SlashWrite(t)
  <2>1. /\ Slash(t) /\ turn[t] = Idle /\ turn' = turn /\ kept' = pending'
        /\ pending' = [kind |-> "confirm", query |-> ""]
      BY <1>2 DEF SlashWrite, Slash, Answer
  <2>2. pending' \in Pendings /\ kept' \in Pendings /\ turn' = [turn EXCEPT ![t] = Idle]
      BY <1>1, <2>1, NoRole DEF Pendings
  <2> QED
      BY <2>1, <2>2, IdleIs, IdleRests, SlashKeeps
<1>3. CASE SlashAnswers(t)
  <2>1. Slash(t) /\ turn[t] = Idle /\ pending.kind # "none" /\ AnswerPending(t, "/")
      BY <1>3 DEF SlashAnswers, Slash
  <2>2. /\ pending' \in Pendings /\ kept' \in Pendings
        /\ \E u \in Turns : turn' = [turn EXCEPT ![t] = u] /\ Saves(u) /\ Sound(u.result.journey)
      BY <1>1, <2>1, AnswerIs
  <2> QED
      BY <2>1, <2>2, SlashKeeps
<1> QED
    BY <1>2, <1>3

-----------------------------------------------------------------------------
(* A turn goes on *)

\* A step of a turn that is at work, and what it needs for the invariant.
LEMMA GoingOn ==
    ASSUME ChatInv, NEW t \in Threads, turn[t] # Idle,
           NEW u \in Turns, Sound(u.result.journey), Saves(u), turn' = [turn EXCEPT ![t] = u],
           habit' = habit, profile' \in Profiles, pending' \in Pendings, kept' \in Pendings,
           Sound(stored'), ended' \in BOOLEAN, answered' \in SUBSET Widenings,
           Remembers(stored', answered'),
           \/ stored'.phase # "done" \/ ended' \/ u.at = "land"
           \/ stored' = stored /\ ended' = ended /\ turn[t].at # "land",
           diverted' \in BOOLEAN, diverted => diverted',
           ~diverted' => Undisturbed(u, stored', pending', answered'),
           ~diverted' /\ u = Idle => shown' = Reader' /\ shown'.suggestion \notin answered'
    PROVE  ChatInv'
<1>1. ~diverted' => /\ Quiet \/ (~diverted /\ turn[t] # Idle)
                    /\ Undisturbed(u, stored', pending', answered')
                    /\ u = Idle => shown' = Reader' /\ shown'.suggestion \notin answered'
    OBVIOUS
<1> QED
    BY <1>1, TurnKeeps

LEMMA AtWork ==
    ASSUME ChatInv, NEW t \in Threads
    PROVE  /\ TypeOK /\ turn \in [Threads -> Turns] /\ turn[t] \in Turns /\ Sound(stored)
           /\ Sound(turn[t].result.journey) /\ turn[t].result \in Results /\ Saves(turn[t])
           /\ stored \in Journeys /\ profile \in Profiles /\ pending \in Pendings /\ kept \in Pendings
           /\ diverted \in BOOLEAN /\ ended \in BOOLEAN /\ answered \in SUBSET Widenings
           /\ Remembers(stored, answered)
           /\ ~diverted => Undisturbed(turn[t], stored, pending, answered)
<1>1. TypeOK /\ turn \in [Threads -> Turns]
    BY TypesOf DEF ChatInv
<1>2. turn[t] \in Turns
    BY <1>1
<1>3. turn[t].result \in Results
    BY <1>2 DEF Turns
<1> QED
    BY <1>1, <1>2, <1>3, TypesOf DEF ChatInv

\* A reply that shows what is stored, once nothing is pending.
LEMMA Replied ==
    ASSUME NEW j, Sound(j), stored' = j, NEW A \in SUBSET Widenings, answered' = A, Remembers(j, A),
           pending'.kind = "none", shown' = Shows(j), Tied(j)
    PROVE  shown' = Reader' /\ shown'.suggestion \notin answered'
<1>1. stored' \in Journeys
    BY DEF Sound
<1>2. Reader' = Reads(stored')
    BY <1>1, ReaderIs
<1>3. Shows(j).suggestion \notin A
    BY NewSuggestion
<1> QED
    BY <1>2, <1>3 DEF Tied

LEMMA LandKeeps == ASSUME ChatInv, NEW t \in Threads, Land(t) PROVE ChatInv'
<1>1. /\ TypeOK /\ turn \in [Threads -> Turns] /\ turn[t] \in Turns /\ Sound(stored)
      /\ turn[t].result \in Results /\ profile \in Profiles /\ pending \in Pendings
      /\ diverted \in BOOLEAN /\ answered \in SUBSET Widenings
      /\ ~diverted => Undisturbed(turn[t], stored, pending, answered)
    BY AtWork
<1>2. PICK results \in SUBSET Categories : results = turn[t].result.journey.results
    BY <1>1, FieldsOf DEF Results
<1>3. PICK c \in BOOLEAN : c = profile.constrained
    BY <1>1 DEF Profiles
<1>4. results \in SUBSET Categories /\ c \in BOOLEAN
    BY <1>2, <1>3
<1>5. PICK j \in Journeys :
          /\ j = Landed(stored, results, c) /\ Sound(j) /\ j.phase = "review"
          /\ j.results = results
          /\ results = {} => j.applied = stored.applied /\ j.declined = stored.declined
                             /\ j.sub \in {"empty", "auto_relax_offering"}
          /\ results # {} \/ ~stored.active \/ stored.constrained = c => Tied(j)
    BY <1>1, <1>4, LandedIs
<1>6. /\ turn[t].at = "land" /\ Keep(j, answered) /\ ended' = FALSE /\ habit' = habit
      /\ profile' = profile /\ pending' = pending /\ turn' = [turn EXCEPT ![t] = Idle]
      /\ shown' = Shows(j) /\ kept' = pending'
      /\ diverted' = (diverted \/ (results = {} /\ stored.active /\ stored.constrained # c))
    BY <1>2, <1>3, <1>5 DEF Land, Reply
<1>7. ~diverted => pending.kind = "none" /\ answered \subseteq stored.applied \cup stored.declined
    BY <1>1, <1>6 DEF Undisturbed
<1>8. diverted \/ Wiped(j) \/ Remembers(j, answered)
    BY <1>5, <1>7 DEF Wiped, Remembers, Justified, Early
<1>9. stored' = j /\ answered' \in SUBSET Widenings /\ Remembers(stored', answered')
    BY <1>1, <1>5, <1>6, <1>8, KeepIs
<1>10. ~diverted' => shown' = Reader' /\ shown'.suggestion \notin answered'
  <2>1. SUFFICES ASSUME ~diverted' PROVE shown' = Reader' /\ shown'.suggestion \notin answered'
      OBVIOUS
  <2>2. ~diverted /\ Tied(j)
      BY <1>1, <1>3, <1>5, <1>6, <2>1, FieldsOf DEF Sound
  <2>3. PICK A \in SUBSET Widenings : A = answered'
      BY <1>9
  <2>4. A \in SUBSET Widenings /\ Remembers(j, A) /\ Sound(j) /\ pending'.kind = "none"
      BY <1>5, <1>6, <1>7, <1>9, <2>2, <2>3
  <2> QED
      BY <1>6, <1>9, <2>2, <2>3, <2>4, Replied
<1>11. turn[t] # Idle
    BY <1>6, IdleIs
<1>12. /\ profile' \in Profiles /\ pending' \in Pendings /\ kept' \in Pendings /\ ended' \in BOOLEAN
       /\ diverted' \in BOOLEAN /\ (diverted => diverted')
    BY <1>1, <1>6
<1>13. Sound(stored') /\ stored'.phase # "done"
    BY <1>5, <1>9
<1> QED
    BY <1>6, <1>9, <1>10, <1>11, <1>12, <1>13, IdleIs, IdleRests, GoingOn

\* What is saved accounts for the answers, and for the one just given.
LEMMA SavedRemembers ==
    ASSUME NEW r, NEW A, Explained(A, r)
    PROVE  /\ Wiped(r.journey) \/ Remembers(r.journey, A)
           /\ r.search => Wiped(r.journey) \/ A \subseteq r.journey.applied \cup r.journey.declined
<1>1. CASE A = {} \/ Wiped(r.journey)
    BY <1>1 DEF Remembers
<1>2. CASE r.journey.phase = "done" /\ ~r.search
    BY <1>2 DEF Remembers, Early
<1>3. CASE ~Early(r.journey) /\ A \subseteq (IF r.search THEN r.journey.applied \cup r.journey.declined
                                             ELSE Justified(r.journey))
    BY <1>3 DEF Remembers, Justified
<1> QED
    BY <1>1, <1>2, <1>3 DEF Explained

LEMMA SavePersists ==
    ASSUME ChatInv, NEW t \in Threads, Save(t), turn[t].result.persist
    PROVE  ChatInv'
<1>1. /\ TypeOK /\ turn \in [Threads -> Turns] /\ turn[t] \in Turns /\ Sound(stored)
      /\ turn[t].result \in Results /\ profile \in Profiles /\ pending \in Pendings
      /\ kept \in Pendings /\ stored \in Journeys
      /\ diverted \in BOOLEAN /\ answered \in SUBSET Widenings /\ Saves(turn[t])
      /\ Sound(turn[t].result.journey) /\ Remembers(stored, answered)
      /\ ~diverted => Undisturbed(turn[t], stored, pending, answered)
    BY AtWork
<1>2. PICK r \in Results : r = turn[t].result
    BY <1>1
<1>3. PICK j \in Journeys : j = r.journey
    BY <1>2 DEF Results
<1>4. PICK A : A = answered \cup Meant(stored, turn[t].msg)
    OBVIOUS
<1>5. A \in SUBSET Widenings
    BY <1>1, <1>4 DEF Meant, Sound
<1>6. Answered(turn[t].msg, r) = A
    BY <1>2, <1>4 DEF Answered, Meant
<1>7. /\ turn[t].at = "save" /\ habit' = habit /\ pending' = pending /\ Keep(j, A)
      /\ ended' = (j.phase = "done") /\ diverted' = diverted
    BY <1>2, <1>3, <1>6 DEF Save
<1>8. profile' \in Profiles
  <2>1. PICK class \in BOOLEAN :
            profile' = [located     |-> profile.located \/ r.located,
                        cv          |-> profile.cv \/ r.cv,
                        constrained |-> class]
      BY <1>1, <1>2 DEF Save, Profiles
  <2>2. PICK l \in BOOLEAN, cv \in BOOLEAN : l = (profile.located \/ r.located) /\ cv = (profile.cv \/ r.cv)
      OBVIOUS
  <2>3. class \in BOOLEAN /\ l \in BOOLEAN /\ cv \in BOOLEAN
      BY <2>1, <2>2
  <2>4. profile' = [located |-> l, cv |-> cv, constrained |-> class]
      BY <2>1, <2>2
  <2> QED
      BY <2>3, <2>4 DEF Profiles
<1>9. ~diverted => Explained(A, r) /\ pending.kind = "none"
    BY <1>1, <1>2, <1>4, <1>7 DEF Undisturbed
<1>10. /\ Sound(j)
       /\ ~r.search => Tied(j)
    BY <1>1, <1>2, <1>3, <1>7 DEF Saves
<1>11. diverted \/ Wiped(j) \/ Remembers(j, A)
    BY <1>3, <1>9, SavedRemembers
<1>12. /\ stored' = j /\ answered' \in SUBSET Widenings /\ Remembers(stored', answered')
       /\ answered' = {} \/ answered' = A
       /\ Wiped(j) => answered' = {}
    BY <1>1, <1>5, <1>7, <1>10, <1>11, KeepIs
<1>13. turn[t] # Idle
    BY <1>7, IdleIs
<1>14. /\ pending' \in Pendings /\ diverted' \in BOOLEAN /\ ended' \in BOOLEAN
       /\ Sound(stored') /\ (stored'.phase # "done" \/ ended')
    BY <1>1, <1>7, <1>10, <1>12
<1>15. CASE r.search
  <2>1. PICK q \in Roles : q = Query(j)
    <3>1. "job" \in Roles /\ j.primary \in Roles \cup {"absent"}
        BY FieldsOf DEF Roles
    <3> QED
        BY <3>1 DEF Query
  <2>2. PICK l \in BOOLEAN : l = (j.located \/ profile.located)
      OBVIOUS
  <2>3. PICK u : u = [Idle EXCEPT !.at = "find", !.query = q, !.located = l]
      OBVIOUS
  <2>4. q \in Roles /\ l \in BOOLEAN
      BY <2>1, <2>2
  <2>5. u \in Turns /\ u.at = "find" /\ u.result = Unsaved(Fresh)
      BY <2>3, <2>4, FindShape
  <2>6. turn' = [turn EXCEPT ![t] = u] /\ kept' = kept
      BY <1>2, <1>3, <1>15, <2>1, <2>2, <2>3 DEF Save
  <2>7. Saves(u) /\ Sound(u.result.journey) /\ u # Idle
      BY <2>5, Unanswered, IdleIs
  <2>8. ~diverted' => Undisturbed(u, stored', pending', answered')
    <3>1. SUFFICES ASSUME ~diverted' PROVE Undisturbed(u, stored', pending', answered')
        OBVIOUS
    <3>2. Wiped(j) \/ A \subseteq j.applied \cup j.declined
        BY <1>3, <1>7, <1>9, <1>15, <3>1, SavedRemembers
    <3>3. answered' \subseteq stored'.applied \cup stored'.declined
        BY <1>12, <3>2
    <3> QED
        BY <1>7, <1>9, <2>5, <3>1, <3>3 DEF Undisturbed
  <2>9. kept' \in Pendings
      BY <1>1, <2>6
  <2> QED
      BY <1>7, <1>8, <1>12, <1>13, <1>14, <2>5, <2>6, <2>7, <2>8, <2>9, GoingOn
<1>16. CASE ~r.search
  <2>1. turn' = [turn EXCEPT ![t] = Idle] /\ shown' = Shows(j) /\ kept' = pending'
      BY <1>2, <1>3, <1>16 DEF Save, Reply
  <2>2. ~diverted' => shown' = Reader' /\ shown'.suggestion \notin answered'
    <3>1. SUFFICES ASSUME ~diverted' PROVE shown' = Reader' /\ shown'.suggestion \notin answered'
        OBVIOUS
    <3>2. PICK B \in SUBSET Widenings : B = answered'
        BY <1>12
    <3>3. B \in SUBSET Widenings /\ Remembers(j, B) /\ pending'.kind = "none" /\ Tied(j)
        BY <1>7, <1>9, <1>10, <1>12, <1>16, <3>1, <3>2
    <3> QED
        BY <1>10, <1>12, <2>1, <3>2, <3>3, Replied
  <2>3. kept' \in Pendings
      BY <1>14, <2>1
  <2> QED
      BY <1>7, <1>8, <1>12, <1>13, <1>14, <2>1, <2>2, <2>3, IdleIs, IdleRests, GoingOn
<1> QED
    BY <1>15, <1>16

LEMMA SaveReplies ==
    ASSUME ChatInv, NEW t \in Threads, Save(t), ~turn[t].result.persist
    PROVE  ChatInv'
<1>1. /\ TypeOK /\ turn \in [Threads -> Turns] /\ turn[t] \in Turns /\ Sound(stored)
      /\ turn[t].result \in Results /\ profile \in Profiles /\ pending \in Pendings
      /\ kept \in Pendings /\ stored \in Journeys /\ ended \in BOOLEAN
      /\ diverted \in BOOLEAN /\ answered \in SUBSET Widenings /\ Saves(turn[t])
      /\ Sound(turn[t].result.journey) /\ Remembers(stored, answered)
      /\ ~diverted => Undisturbed(turn[t], stored, pending, answered)
    BY AtWork
<1>2. PICK r \in Results : r = turn[t].result
    BY <1>1
<1>3. PICK j \in Journeys : j = r.journey
    BY <1>2 DEF Results
<1>4. /\ turn[t].at = "save" /\ habit' = habit /\ pending' = pending
      /\ stored' = stored /\ ended' = ended /\ answered' = answered
      /\ diverted' = (diverted \/ Shows(j) # Reads(stored))
    BY <1>2, <1>3 DEF Save
<1>5. ~r.search
    BY <1>1, <1>2, <1>4 DEF Saves
<1>6. turn' = [turn EXCEPT ![t] = Idle] /\ shown' = Shows(j) /\ kept' = pending'
    BY <1>2, <1>3, <1>5 DEF Save, Reply
<1>7. profile' \in Profiles
  <2>1. PICK class \in BOOLEAN :
            profile' = [located     |-> profile.located \/ r.located,
                        cv          |-> profile.cv \/ r.cv,
                        constrained |-> class]
      BY <1>1, <1>2 DEF Save, Profiles
  <2>2. PICK l \in BOOLEAN, cv \in BOOLEAN : l = (profile.located \/ r.located) /\ cv = (profile.cv \/ r.cv)
      OBVIOUS
  <2>3. class \in BOOLEAN /\ l \in BOOLEAN /\ cv \in BOOLEAN
      BY <2>1, <2>2
  <2>4. profile' = [located |-> l, cv |-> cv, constrained |-> class]
      BY <2>1, <2>2
  <2> QED
      BY <2>3, <2>4 DEF Profiles
<1>8. ~diverted' => shown' = Reader' /\ shown'.suggestion \notin answered'
  <2>1. SUFFICES ASSUME ~diverted' PROVE shown' = Reader' /\ shown'.suggestion \notin answered'
      OBVIOUS
  <2>2. ~diverted /\ Shows(j) = Reads(stored)
      BY <1>4, <2>1
  <2>3. /\ pending.kind = "none" /\ j.applied = stored.applied /\ j.declined = stored.declined
      BY <1>1, <1>2, <1>3, <1>4, <2>2 DEF Undisturbed
  <2>4. Reader' = Reads(stored)
      BY <1>1, <1>4, <2>3, ReaderIs
  <2>5. Shows(j).suggestion \notin answered
    <3>1. "" \notin Widenings
        BY DEF Widenings, WidenLocation, DropSeniority, TryLaterals
    <3>2. CASE Asks(j) = "suggestion" /\ Suggestion(j) # <<>>
      <4>1. Head(Suggestion(j)) \notin stored.applied \cup stored.declined
          BY <2>3, <3>2, SuggestionIsNew
      <4>2. Asks(stored) = "suggestion"
          BY <2>2, <3>2 DEF Shows, Reads
      <4>3. stored.phase = "review" /\ stored.sub = "auto_relax_offering"
          BY <1>1, <4>2, NotSuggesting
      <4>4. answered \subseteq stored.applied \cup stored.declined
          BY <1>1, <4>3 DEF Remembers, Justified
      <4>5. Shows(j).suggestion = Head(Suggestion(j))
          BY <3>2 DEF Shows
      <4> QED
          BY <4>1, <4>4, <4>5
    <3>3. CASE ~(Asks(j) = "suggestion" /\ Suggestion(j) # <<>>)
        BY <1>1, <3>1, <3>3 DEF Shows
    <3> QED
        BY <3>2, <3>3
  <2> QED
      BY <1>4, <1>6, <2>2, <2>4, <2>5
<1>9. turn[t] # Idle /\ turn[t].at # "land"
    BY <1>4, IdleIs
<1>10. /\ pending' \in Pendings /\ kept' \in Pendings /\ ended' \in BOOLEAN /\ diverted' \in BOOLEAN
       /\ (diverted => diverted') /\ answered' \in SUBSET Widenings
       /\ Sound(stored') /\ Remembers(stored', answered')
    BY <1>1, <1>4, <1>6
<1> QED
    BY <1>4, <1>6, <1>7, <1>8, <1>9, <1>10, IdleIs, IdleRests, GoingOn

LEMMA FindReturnsKeeps ==
    ASSUME ChatInv, NEW t \in Threads, NEW results \in SUBSET Categories, FindReturns(t, results)
    PROVE  ChatInv'
<1>1. /\ TypeOK /\ turn \in [Threads -> Turns] /\ turn[t] \in Turns /\ Sound(stored)
      /\ profile \in Profiles /\ pending \in Pendings
      /\ kept \in Pendings /\ ended \in BOOLEAN
      /\ diverted \in BOOLEAN /\ answered \in SUBSET Widenings
      /\ ~diverted => Undisturbed(turn[t], stored, pending, answered)
    BY AtWork
<1>2. turn[t].query \in Roles /\ turn[t].located \in BOOLEAN
    BY <1>1 DEF Turns
<1>3. PICK q \in Roles, l \in BOOLEAN : q = turn[t].query /\ l = turn[t].located
    BY <1>2
<1>4. q \in Roles /\ l \in BOOLEAN
    BY <1>3
<1>5. PICK j \in Journeys : /\ j = Found(stored, q, l, results) /\ Sound(j) /\ ~Early(j)
                            /\ j.results = results
                            /\ j.applied = stored.applied /\ j.declined = stored.declined
    BY <1>1, <1>4, FoundIs
<1>5a. PICK f : f = [Fresh EXCEPT !.results = results]
    OBVIOUS
<1>6. f \in Journeys /\ f = [Fresh EXCEPT !.results = results] /\ f.sub = ""
    BY <1>5a, FreshIs DEF Journeys
<1>7. PICK r \in Results : r = Unsaved(f) /\ r.journey = f
    BY <1>6, Replies
<1>8. PICK u : u = [Idle EXCEPT !.at = "land", !.result = r]
    OBVIOUS
<1>9. u \in Turns /\ u.at = "land" /\ u.result = r
    BY <1>7, <1>8, LandShape
<1>10. Sound(u.result.journey) /\ Saves(u) /\ u # Idle
    BY <1>6, <1>7, <1>9, IdleIs DEF Sound, Saves
<1>11. /\ turn[t].at = "find" /\ Keep(j, answered) /\ turn' = [turn EXCEPT ![t] = u]
       /\ ended' = (ended /\ results = {}) /\ habit' = habit /\ profile' = profile
       /\ pending' = pending /\ kept' = kept /\ diverted' = diverted
    BY <1>3, <1>5, <1>6, <1>7, <1>8 DEF FindReturns
<1>12. ~diverted => pending.kind = "none" /\ answered \subseteq stored.applied \cup stored.declined
    BY <1>1, <1>11 DEF Undisturbed
<1>13. diverted \/ Wiped(j) \/ Remembers(j, answered)
    BY <1>5, <1>12 DEF Remembers, Justified
<1>14. stored' = j /\ answered' \in SUBSET Widenings /\ Remembers(stored', answered')
       /\ (answered' = {} \/ answered' = answered)
    BY <1>1, <1>5, <1>11, <1>13, KeepIs
<1>15. ~diverted' => Undisturbed(u, stored', pending', answered')
    BY <1>5, <1>9, <1>11, <1>12, <1>14 DEF Undisturbed
<1>16. turn[t] # Idle
    BY <1>11, IdleIs
<1>17. /\ profile' \in Profiles /\ pending' \in Pendings /\ kept' \in Pendings /\ ended' \in BOOLEAN
       /\ diverted' \in BOOLEAN /\ (diverted => diverted') /\ Sound(stored')
    BY <1>1, <1>5, <1>11, <1>14
<1> QED
    BY <1>9, <1>10, <1>11, <1>14, <1>15, <1>16, <1>17, GoingOn

LEMMA FindFailsKeeps == ASSUME ChatInv, NEW t \in Threads, FindFails(t) PROVE ChatInv'
<1>1. /\ TypeOK /\ turn \in [Threads -> Turns] /\ turn[t] \in Turns /\ Sound(stored)
      /\ stored \in Journeys /\ profile \in Profiles /\ pending \in Pendings
      /\ diverted \in BOOLEAN /\ answered \in SUBSET Widenings
      /\ ~diverted => Undisturbed(turn[t], stored, pending, answered)
    BY AtWork
<1>2. PICK j : j = [stored EXCEPT !.phase = "done"]
    OBVIOUS
<1>3. j \in Journeys /\ j.phase = "done" /\ Sound(j)
    BY <1>1, <1>2, Moves DEF Phases
<1>4. /\ turn[t].at = "find" /\ Keep(j, answered) /\ turn' = [turn EXCEPT ![t] = Idle]
      /\ ended' = TRUE /\ habit' = habit /\ profile' = profile
      /\ pending' = pending /\ kept' = pending' /\ diverted' = diverted /\ shown' = ShowsNothing
    BY <1>2 DEF FindFails, Failed, Reply
<1>5. ~diverted => pending.kind = "none"
    BY <1>1, <1>4 DEF Undisturbed
<1>6. Remembers(j, answered)
    BY <1>3 DEF Remembers, Early
<1>7. stored' = j /\ answered' \in SUBSET Widenings /\ Remembers(stored', answered')
    BY <1>1, <1>3, <1>4, <1>6, KeepIs
<1>8. ~diverted' => shown' = Reader' /\ shown'.suggestion \notin answered'
  <2>1. SUFFICES ASSUME ~diverted' PROVE shown' = Reader' /\ shown'.suggestion \notin answered'
      OBVIOUS
  <2>2. PICK B \in SUBSET Widenings : B = answered'
      BY <1>7
  <2>3. B \in SUBSET Widenings /\ Remembers(j, B) /\ pending'.kind = "none" /\ Tied(j)
      BY <1>3, <1>4, <1>5, <1>7, <2>1, <2>2, NotSuggesting
  <2>4. shown' = Shows(j)
      BY <1>3, <1>4, OutsideReads
  <2> QED
      BY <1>3, <1>7, <2>2, <2>3, <2>4, Replied
<1>9. turn[t] # Idle
    BY <1>4, IdleIs
<1>10. /\ profile' \in Profiles /\ pending' \in Pendings /\ kept' \in Pendings /\ ended' \in BOOLEAN
       /\ diverted' \in BOOLEAN /\ (diverted => diverted') /\ Sound(stored') /\ ended'
    BY <1>1, <1>3, <1>4, <1>7
<1> QED
    BY <1>4, <1>7, <1>8, <1>9, <1>10, IdleIs, IdleRests, GoingOn

LEMMA DirectReturnsKeeps ==
    ASSUME ChatInv, NEW t \in Threads, NEW results \in SUBSET Categories, DirectReturns(t, results)
    PROVE  ChatInv'
<1>1. /\ TypeOK /\ turn \in [Threads -> Turns] /\ turn[t] \in Turns /\ Sound(stored)
      /\ stored \in Journeys /\ profile \in Profiles /\ pending \in Pendings
      /\ diverted \in BOOLEAN /\ answered \in SUBSET Widenings
      /\ ~diverted => Undisturbed(turn[t], stored, pending, answered)
    BY AtWork
<1>2. turn[t].query \in Roles /\ turn[t].located \in BOOLEAN
    BY <1>1 DEF Turns
<1>3. PICK q \in Roles, l \in BOOLEAN : q = turn[t].query /\ l = turn[t].located
    BY <1>2
<1>4. q \in Roles /\ l \in BOOLEAN
    BY <1>3
<1>5. PICK j \in Journeys : /\ j = Found(stored, q, l, results) /\ Sound(j) /\ ~Early(j)
                            /\ j.phase = (IF results = {} THEN "done" ELSE "review")
                            /\ j.results = results /\ j.sub = stored.sub
    BY <1>1, <1>4, FoundIs
<1>6. /\ turn[t].at = "direct" /\ Keep(j, answered) /\ ended' = (j.phase = "done")
      /\ pending' = IF turn[t].command THEN NoPending ELSE pending
      /\ turn' = [turn EXCEPT ![t] = Idle] /\ kept' = pending'
      /\ shown' = IF results = {} THEN ShowsNothing ELSE Just("category")
      /\ diverted' = (diverted \/ stored.sub # "") /\ habit' = habit /\ profile' = profile
    BY <1>3, <1>5 DEF DirectReturns, Reply
<1>7. Wiped(j) \/ Remembers(j, answered)
    BY <1>5 DEF Wiped, Remembers
<1>8. stored' = j /\ answered' \in SUBSET Widenings /\ Remembers(stored', answered')
    BY <1>1, <1>5, <1>6, <1>7, KeepIs
<1>9. NoPending \in Pendings /\ NoPending.kind = "none"
    BY NoRole DEF NoPending, Pendings
<1>10. ~diverted' => shown' = Reader' /\ shown'.suggestion \notin answered'
  <2>1. SUFFICES ASSUME ~diverted' PROVE shown' = Reader' /\ shown'.suggestion \notin answered'
      OBVIOUS
  <2>2. ~diverted /\ j.sub = ""
      BY <1>5, <1>6, <2>1
  <2>3. pending'.kind = "none"
      BY <1>1, <1>6, <1>9, <2>2 DEF Undisturbed
  <2>4. shown' = Shows(j)
    <3>1. CASE results = {}
        BY <1>5, <1>6, <3>1, OutsideReads
    <3>2. CASE results # {}
      <4>1. Asks(j) = "category"
          BY <1>5, <2>2, <3>2 DEF Asks
      <4> QED
          BY <1>6, <3>2, <4>1 DEF Shows, Just
    <3> QED
        BY <3>1, <3>2
  <2>5. PICK B \in SUBSET Widenings : B = answered'
      BY <1>8
  <2>6. B \in SUBSET Widenings /\ Remembers(j, B) /\ Tied(j)
      BY <1>8, <2>2, <2>5, NotSuggesting
  <2> QED
      BY <1>5, <1>8, <2>3, <2>4, <2>5, <2>6, Replied
<1>11. turn[t] # Idle
    BY <1>6, IdleIs
<1>12. /\ profile' \in Profiles /\ pending' \in Pendings /\ kept' \in Pendings /\ ended' \in BOOLEAN
       /\ diverted' \in BOOLEAN /\ (diverted => diverted') /\ Sound(stored')
       /\ (stored'.phase # "done" \/ ended')
    BY <1>1, <1>5, <1>6, <1>8, <1>9
<1> QED
    BY <1>6, <1>8, <1>10, <1>11, <1>12, IdleIs, IdleRests, GoingOn

LEMMA DirectFailsKeeps == ASSUME ChatInv, NEW t \in Threads, DirectFails(t) PROVE ChatInv'
<1>1. /\ profile \in Profiles /\ pending \in Pendings /\ kept \in Pendings /\ ended \in BOOLEAN
      /\ answered \in SUBSET Widenings /\ Sound(stored) /\ Remembers(stored, answered)
    BY AtWork
<1>2. /\ turn[t].at = "direct" /\ turn' = [turn EXCEPT ![t] = Idle] /\ diverted' = TRUE
      /\ habit' = habit /\ stored' = stored /\ profile' = profile /\ pending' = pending
      /\ kept' = kept /\ ended' = ended /\ answered' = answered
    BY DEF DirectFails
<1>3. turn[t] # Idle /\ turn[t].at # "land"
    BY <1>2, IdleIs
<1>4. /\ profile' \in Profiles /\ pending' \in Pendings /\ kept' \in Pendings /\ ended' \in BOOLEAN
      /\ answered' \in SUBSET Widenings /\ Sound(stored') /\ Remembers(stored', answered')
      /\ diverted' \in BOOLEAN /\ diverted'
    BY <1>1, <1>2
<1> QED
    BY <1>2, <1>3, <1>4, IdleIs, IdleRests, GoingOn

-----------------------------------------------------------------------------
(* Outside a turn *)

LEMMA ResetKeeps == ASSUME ChatInv, NEW t \in Threads, Reset(t) PROVE ChatInv'
<1>1. TypeOK /\ turn \in [Threads -> Turns]
    BY AtWork
<1>2. /\ turn[t] = Idle /\ Keep(Fresh, answered) /\ ended' = FALSE /\ pending' = NoPending
      /\ kept' = NoPending /\ shown' = ShowsNothing /\ diverted' = ~Quiet
      /\ habit' = habit /\ profile' = profile /\ turn' = turn
    BY DEF Reset
<1>3. turn' = [turn EXCEPT ![t] = Idle]
    BY <1>1, <1>2
<1>4. stored' = Fresh /\ answered' = {} /\ Remembers(stored', answered')
      /\ answered' \in SUBSET Widenings
    BY <1>1, <1>2, KeepFresh
<1>5. NoPending \in Pendings /\ NoPending.kind = "none"
    BY NoRole DEF NoPending, Pendings
<1>6. shown' = Reader' /\ shown'.suggestion \notin answered'
  <2>1. Reader' = Reads(stored')
      BY <1>2, <1>4, <1>5, FreshIs, ReaderIs
  <2> QED
      BY <1>2, <1>4, <2>1, FreshIs, OutsideReads
<1>7. /\ pending' \in Pendings /\ kept' \in Pendings /\ Sound(stored') /\ stored'.phase # "done"
      /\ ended' \in BOOLEAN /\ diverted' \in BOOLEAN /\ (~diverted' => Quiet)
    BY <1>2, <1>4, <1>5, FreshIs
<1> QED
    BY <1>2, <1>3, <1>4, <1>6, <1>7, IdleIs, IdleRests, Receiving

LEMMA ReclassifyKeeps == ASSUME ChatInv, Reclassify PROVE ChatInv'
<1>1. TypeOK /\ profile \in Profiles
    BY TypesOf DEF ChatInv
<1>2. /\ diverted' = TRUE /\ habit' = habit /\ stored' = stored /\ pending' = pending /\ kept' = kept
      /\ turn' = turn /\ shown' = shown /\ ended' = ended /\ answered' = answered
      /\ profile' = [profile EXCEPT !.constrained = ~@]
    BY DEF Reclassify
<1>3. profile' \in Profiles
  <2>1. PICK c \in BOOLEAN : c = ~profile.constrained
      OBVIOUS
  <2>2. profile' = [profile EXCEPT !.constrained = c]
      BY <1>2, <2>1
  <2> QED
      BY <1>1, <2>1, <2>2 DEF Profiles
<1>4. TypeOK'
    BY <1>1, <1>2, <1>3 DEF TypeOK
<1>5. EndsOpenly'
    BY <1>2 DEF ChatInv, EndsOpenly
<1> QED
    BY <1>2, <1>4, <1>5 DEF ChatInv

LEMMA RestartsKeep == ASSUME ChatInv, Restart PROVE ChatInv'
<1>1. TypeOK
    BY DEF ChatInv
<1>2. /\ diverted' = TRUE /\ habit' = habit /\ stored' = stored /\ profile' = profile /\ pending' = kept
      /\ kept' = kept /\ turn' = [t \in Threads |-> Idle] /\ ended' = (stored.phase = "done")
      /\ answered' = answered
    BY DEF Restart
<1>3. TypeOK'
    BY <1>1, <1>2, IdleIs DEF TypeOK, Turns, Results
<1>4. EndsOpenly'
    BY <1>2 DEF EndsOpenly
<1>5. \A t \in Threads : Sound(turn'[t].result.journey) /\ Saves(turn'[t])
    BY <1>2, IdleRests
<1>6. Sound(stored') /\ Remembers(stored', answered')
    BY <1>2 DEF ChatInv
<1> QED
    BY <1>2, <1>3, <1>4, <1>5, <1>6 DEF ChatInv

LEMMA NextKeeps == ASSUME ChatInv, [Next]_vars PROVE ChatInv'
<1>1. CASE UNCHANGED vars
  <2>1. /\ habit' = habit /\ stored' = stored /\ profile' = profile /\ pending' = pending /\ kept' = kept
        /\ turn' = turn /\ shown' = shown /\ diverted' = diverted /\ ended' = ended
        /\ answered' = answered
      BY <1>1 DEF vars
  <2>2. TypeOK'
      BY <2>1 DEF ChatInv, TypeOK
  <2>3. EndsOpenly'
      BY <2>1 DEF ChatInv, EndsOpenly
  <2>4. ~diverted => Alone' /\ Settled'
    <3>1. Reader' = Reader
        BY <2>1 DEF Reader, InJourney
    <3> QED
        BY <2>1, <3>1 DEF ChatInv, Alone, Settled, Quiet
  <2> QED
      BY <2>1, <2>2, <2>3, <2>4 DEF ChatInv
<1>2. CASE \E t \in Threads : \E msg \in Says[habit][t] : Receive(t, msg)
    BY <1>2, ReceiveKeeps
<1>3. CASE \E t \in Threads, role \in SlashRoles :
             SlashFind(t, role) \/ SlashFindAsk(t, role) \/ SlashFindRestart(t, role)
    BY <1>3, SlashesKeep
<1>4. CASE \E t \in Threads : SlashWrite(t) \/ SlashAnswers(t)
    BY <1>4, OtherSlashesKeep
<1>5. CASE \E t \in Threads : Save(t)
    BY <1>5, SavePersists, SaveReplies
<1>6. CASE \E t \in Threads, results \in SUBSET Categories : FindReturns(t, results)
    BY <1>6, FindReturnsKeeps
<1>7. CASE \E t \in Threads : Land(t)
    BY <1>7, LandKeeps
<1>8. CASE \E t \in Threads : FindFails(t)
    BY <1>8, FindFailsKeeps
<1>9. CASE \E t \in Threads, results \in SUBSET Categories : DirectReturns(t, results)
    BY <1>9, DirectReturnsKeeps
<1>10. CASE \E t \in Threads : DirectFails(t)
    BY <1>10, DirectFailsKeeps
<1>11. CASE \E t \in Threads : Reset(t)
    BY <1>11, ResetKeeps
<1>12. CASE Reclassify
    BY <1>12, ReclassifyKeeps
<1>13. CASE Restart
    BY <1>13, RestartsKeep
<1> QED
    BY <1>1, <1>2, <1>3, <1>4, <1>5, <1>6, <1>7, <1>8, <1>9, <1>10, <1>11, <1>12, <1>13 DEF Next

\* The inductive invariant of the chat: sound records, replies that show what
\* they save, turns that are alone unless a reply was diverted, and answers
\* that the record accounts for (app.py 5022-6080).
LEMMA ChatInvariant == Spec => []ChatInv
<1>1. Init => ChatInv
    BY Initially
<1>2. ChatInv /\ [Next]_vars => ChatInv'
    BY NextKeeps
<1> QED
    BY <1>1, <1>2, PTL DEF Spec

-----------------------------------------------------------------------------
(* The results *)

\* Every record the guided search stores or is about to store is one the code
\* can be in, for any messages by any number of threads.
THEOREM ChatTyped == Spec => []TypeOK
<1>1. ChatInv => TypeOK
    BY DEF ChatInv
<1> QED
    BY <1>1, ChatInvariant, PTL

\* A reply asks what the next message will be taken to answer: with the pending
\* command out of the way, a turn that nobody disturbs shows the record it
\* saves (app.py 5910-6080).
THEOREM RepliesMatch == Spec => []ReplyMatchesReader
<1>1. ChatInv => ReplyMatchesReader
    BY DEF ChatInv, Settled, ReplyMatchesReader
<1> QED
    BY <1>1, ChatInvariant, PTL

\* The "done" that find_jobs writes for an empty search does not outlive the
\* turn: only the user, a search that failed or one asked for by name end a
\* journey ("Never-implicit-done contract", journey.py 2812).
THEOREM OnlyUsersEnd == Spec => []NoImplicitEnd
<1>1. ChatInv => NoImplicitEnd
  <2>1. \A t \in Threads : turn[t] = Idle => turn[t].at # "land"
      BY IdleIs
  <2> QED
      BY <2>1 DEF ChatInv, EndsOpenly, NoImplicitEnd, Quiet
<1> QED
    BY <1>1, ChatInvariant, PTL

\* Auto-relax does not suggest again what was answered: whatever was done or
\* declined is in the record, which searches and trips to the menu keep
\* (widening.py 228-317 and 628-651, journey.py 3030-3405).
THEOREM AnswersKept == Spec => []NeverAskedTwice
<1>1. ChatInv => NeverAskedTwice
    BY DEF ChatInv, Settled, NeverAskedTwice
<1> QED
    BY <1>1, ChatInvariant, PTL
=============================================================================
