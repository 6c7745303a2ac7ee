--------------------------- MODULE ServicesProofs ---------------------------
(***************************************************************************)
(* What the services promise, for any number of users, links, requests and *)
(* rows: one inductive invariant per service, its preservation action by   *)
(* action, and the promise it implies.  A step of MCServices is a step of  *)
(* one service that leaves the others alone.                               *)
(***************************************************************************)
EXTENDS MCServices, FiniteSetTheorems, TLAPS
-----------------------------------------------------------------------------
(* Links *)

LnkTyped ==
    /\ link \in [LinkIds -> {Unissued} \cup Records]
    /\ accounts \subseteq Emails
    /\ clerk \in [Clerks -> Clerking]
    /\ worked \in [LinkIds -> Nat] /\ inVain \subseteq LinkIds
    /\ crossed \subseteq Kinds \X Emails

Uses(c, l)     == clerk[c].at = "use" /\ clerk[c].link = l
Sending(c, k, e) == clerk[c].at = "issue" /\ clerk[c].kind = k /\ clerk[c].email = e

\* A link does its job or is spent in vain only after it was consumed, and
\* whoever consumed it is the only one to use it.
Spent(l) ==
    /\ \A c, d \in Clerks : Uses(c, l) /\ Uses(d, l) => c = d
    /\ \A c \in Clerks : Uses(c, l) => link[l].state = "consumed"
    /\ (\E c \in Clerks : Uses(c, l)) \/ link[l].state # "consumed" =>
          worked[l] = 0 /\ l \notin inVain
    /\ worked[l] <= (IF l \in inVain THEN 0 ELSE 1)

\* Unless two sends crossed, there is one of them at a time, and none while a
\* link is open.
Pending(k, e) ==
    /\ \A c, d \in Clerks : Sending(c, k, e) /\ Sending(d, k, e) => c = d
    /\ \A c \in Clerks, l \in LinkIds : ~ (Sending(c, k, e) /\ Is(l, "open", k, e))
    /\ \A l, m \in LinkIds : Is(l, "open", k, e) /\ Is(m, "open", k, e) => l = m

\* A link that is presented was issued.
Presented ==
    \A c \in Clerks : clerk[c].at = "consume" => link[clerk[c].link].state # "unissued"

LinksInv ==
    /\ LnkTyped /\ Presented
    /\ \A l \in LinkIds : Spent(l)
    /\ \A k \in Kinds, e \in Emails : <<k, e>> \notin crossed => Pending(k, e)

LEMMA ClerkShape ==
    ASSUME NEW d \in Clerking
    PROVE  /\ d.at \in {"idle", "issue", "consume", "use"}
           /\ d.at = "issue" => d.kind \in Kinds /\ d.email \in Emails
           /\ d.at \in {"consume", "use"} => d.link \in LinkIds
           /\ d.at = "use" => d = [at |-> "use", link |-> d.link]
<1>1. CASE d = IdleClerk
    BY <1>1 DEF IdleClerk
<1>2. CASE d \in [at : {"issue"}, kind : Kinds, email : Emails]
    BY <1>2
<1>3. CASE d \in [at : {"consume", "use"}, link : LinkIds]
    BY <1>3
<1> QED
    BY <1>1, <1>2, <1>3 DEF Clerking

LEMMA LinkShape ==
    ASSUME NEW r \in {Unissued} \cup Records
    PROVE  /\ r.state \in {"unissued", "open", "expired", "consumed"}
           /\ r.state # "unissued" => r \in Records
           /\ r \in Records => /\ r.kind \in Kinds /\ r.email \in Emails
                               /\ [r EXCEPT !.state = "consumed"] \in Records
                               /\ [r EXCEPT !.state = "expired"] \in Records
<1>1. CASE r = Unissued
  <2>1. r.state = "unissued"
      BY <1>1 DEF Unissued
  <2> QED
      BY <2>1 DEF Records
<1>2. CASE r \in Records
    BY <1>2 DEF Records
<1> QED
    BY <1>1, <1>2

\* Links may be struck at any time, and clerks may forget what they were doing,
\* as long as a link they were using counts as spent in vain.
LEMMA LinksStruck ==
    ASSUME LinksInv, link' \in [LinkIds -> {Unissued} \cup Records],
           \A l \in LinkIds : link'[l] = link[l]
                              \/ /\ link[l].state \in {"open", "expired"}
                                 /\ link'[l].state \in {"expired", "consumed"},
           clerk' \in [Clerks -> Clerking],
           \A c \in Clerks : clerk'[c] = clerk[c] \/ clerk'[c] = IdleClerk,
           accounts' \subseteq Emails, crossed' = crossed, worked' = worked,
           inVain' \subseteq LinkIds,
           inVain' = inVain \/ /\ \A c \in Clerks : clerk'[c] = IdleClerk
                               /\ \A l \in inVain' \ inVain : \E c \in Clerks : Uses(c, l)
    PROVE  LinksInv'
<1>1. LnkTyped'
    BY DEF LinksInv, LnkTyped
<1>2. ASSUME NEW c \in Clerks, NEW l PROVE Uses(c, l)' => Uses(c, l)
    BY DEF Uses, IdleClerk
<1>3. ASSUME NEW c \in Clerks, NEW k, NEW e PROVE Sending(c, k, e)' => Sending(c, k, e)
    BY DEF Sending, IdleClerk
<1>4. ASSUME NEW l \in LinkIds, NEW k, NEW e PROVE Is(l, "open", k, e)' => Is(l, "open", k, e)
    BY DEF Is
<1>5. ASSUME NEW l \in LinkIds PROVE Spent(l)'
  <2>1. Spent(l) /\ worked[l] \in Nat
      BY DEF LinksInv, LnkTyped
  <2>2. link[l].state = "consumed" => link'[l].state = "consumed"
      OBVIOUS
  <2>3. link'[l].state # "consumed" => link[l].state # "consumed"
      BY <2>2
  <2>4. CASE inVain' = inVain
      BY <1>2, <2>1, <2>2, <2>3, <2>4 DEF Spent
  <2>5. CASE inVain' # inVain
    <3>1. \A c \in Clerks : ~ Uses(c, l)'
        BY <2>5 DEF Uses, IdleClerk
    <3>2. CASE l \in inVain' \ inVain
        BY <2>1, <2>2, <2>5, <3>1, <3>2 DEF Spent
    <3>3. CASE l \notin inVain' \ inVain
      <4>1. l \in inVain' => l \in inVain
          BY <3>3
      <4> QED
          BY <2>1, <2>3, <3>1, <4>1 DEF Spent
    <3> QED
        BY <3>2, <3>3
  <2> QED
      BY <2>4, <2>5
<1>6. ASSUME NEW k \in Kinds, NEW e \in Emails, <<k, e>> \notin crossed' PROVE Pending(k, e)'
  <2>1. Pending(k, e)
      BY <1>6 DEF LinksInv
  <2> QED
      BY <1>3, <1>4, <2>1 DEF Pending
<1>7. Presented'
  <2> SUFFICES ASSUME NEW c \in Clerks, clerk'[c].at = "consume"
               PROVE  link'[clerk'[c].link].state # "unissued"
      BY DEF Presented
  <2>1. clerk'[c] = clerk[c] /\ clerk[c].link \in LinkIds
      BY ClerkShape DEF IdleClerk, LinksInv, LnkTyped
  <2>2. link[clerk[c].link].state # "unissued"
      BY <2>1 DEF LinksInv, Presented
  <2> QED
      BY <2>1, <2>2
<1> QED
    BY <1>1, <1>5, <1>6, <1>7 DEF LinksInv

LEMMA InitLinks == LnkInit => LinksInv
<1> SUFFICES ASSUME LnkInit PROVE LinksInv
    OBVIOUS
<1>1. LnkTyped
    BY DEF LnkInit, LnkTyped, Clerking
<1>2. \A c \in Clerks : clerk[c].at = "idle"
    BY DEF LnkInit, IdleClerk
<1>3. \A l \in LinkIds : link[l].state = "unissued" /\ worked[l] = 0 /\ l \notin inVain
    BY DEF LnkInit, Unissued
<1> QED
    BY <1>1, <1>2, <1>3 DEF LinksInv, Presented, Spent, Pending, Uses, Sending, Is

LEMMA NextLinks == LinksInv /\ [LnkNext]_lnkVars => LinksInv'
<1> SUFFICES ASSUME LinksInv, [LnkNext]_lnkVars PROVE LinksInv'
    OBVIOUS
<1>0. /\ link \in [LinkIds -> {Unissued} \cup Records] /\ clerk \in [Clerks -> Clerking]
      /\ worked \in [LinkIds -> Nat] /\ inVain \subseteq LinkIds
      /\ accounts \subseteq Emails /\ crossed \subseteq Kinds \X Emails
    BY DEF LinksInv, LnkTyped
<1>i. IdleClerk \in Clerking /\ IdleClerk.at = "idle"
    BY DEF Clerking, IdleClerk
<1>p. \A c \in Clerks : clerk[c].at = "consume" =>
          clerk[c].link \in LinkIds /\ link[clerk[c].link].state # "unissued"
    BY <1>0, ClerkShape DEF LinksInv, Presented
<1>1. ASSUME NEW c \in Clerks, NEW k \in Kinds, NEW e \in Emails, BeginSend(c, k, e)
      PROVE  LinksInv'
  <2>1. /\ link' \in [LinkIds -> {Unissued} \cup Records]
        /\ \A l \in LinkIds : link'[l] = link[l] \/ /\ link[l].state \in {"open", "expired"}
                                                    /\ link'[l].state = "consumed"
        /\ \A l \in LinkIds : ~ Is(l, "open", k, e)'
    <3>1. link' = Revoked(k, e)
        BY <1>1 DEF BeginSend, Struck
    <3>2. ASSUME NEW l \in LinkIds, Is(l, "open", k, e) \/ Is(l, "expired", k, e)
          PROVE  /\ link[l].state \in {"open", "expired"} /\ link'[l].state = "consumed"
                 /\ link'[l] \in Records
      <4>1. link[l].state \in {"open", "expired"} /\ link[l] \in Records
          BY <1>0, <3>2, LinkShape DEF Is
      <4>2. link'[l] = [link[l] EXCEPT !.state = "consumed"]
          BY <3>1, <3>2 DEF Revoked
      <4> QED
          BY <4>1, <4>2 DEF Records
    <3>3. ASSUME NEW l \in LinkIds, ~ (Is(l, "open", k, e) \/ Is(l, "expired", k, e))
          PROVE  link'[l] = link[l]
        BY <3>1, <3>3 DEF Revoked
    <3>4. link' \in [LinkIds -> {Unissued} \cup Records]
      <4>1. link' = [l \in LinkIds |-> link'[l]]
          BY <3>1 DEF Revoked
      <4> QED
          BY <1>0, <3>2, <3>3, <4>1
    <3> QED
        BY <3>2, <3>3, <3>4 DEF Is
  <2>2. CASE UNCHANGED <<clerk, crossed>>
      BY <1>0, <1>1, <2>1, <2>2, LinksStruck DEF BeginSend
  <2>3. CASE ~ UNCHANGED <<clerk, crossed>>
    <3> DEFINE d == [at |-> "issue", kind |-> k, email |-> e]
    <3>1. /\ clerk' = [clerk EXCEPT ![c] = d] /\ UNCHANGED <<accounts, worked, inVain>>
          /\ crossed' = IF \E x \in Clerks : Sending(x, k, e) THEN crossed \cup {<<k, e>>}
                                                            ELSE crossed
        BY <1>1, <2>3 DEF BeginSend, Sending
    <3>2. d \in Clerking /\ d.at = "issue" /\ d.kind = k /\ d.email = e
        BY DEF Clerking
    <3> HIDE DEF d
    <3>3. clerk'[c] = d /\ \A x \in Clerks \ {c} : clerk'[x] = clerk[x]
        BY <1>0, <3>1
    <3>4. LnkTyped'
        BY <1>0, <2>1, <3>1, <3>2 DEF LnkTyped
    <3>5. ASSUME NEW l \in LinkIds PROVE Spent(l)'
      <4>1. Spent(l)
          BY DEF LinksInv
      <4>2. \A x \in Clerks : Uses(x, l)' => Uses(x, l)
          BY <3>2, <3>3 DEF Uses
      <4> QED
          BY <2>1, <3>1, <4>1, <4>2 DEF Spent
    <3>6. ASSUME NEW i \in Kinds, NEW f \in Emails, <<i, f>> \notin crossed'
          PROVE  Pending(i, f)'
      <4>1. <<i, f>> \notin crossed /\ Pending(i, f)
          BY <3>1, <3>6 DEF LinksInv
      <4>2. \A l \in LinkIds : Is(l, "open", i, f)' => Is(l, "open", i, f)
          BY <2>1 DEF Is
      <4>3. CASE i = k /\ f = e
        <5>1. \A x \in Clerks : ~ Sending(x, k, e)
            BY <3>1, <3>6, <4>3
        <5>2. \A x \in Clerks : Sending(x, k, e)' => x = c
            BY <3>3, <5>1 DEF Sending
        <5> QED
            BY <2>1, <4>3, <5>2 DEF Pending
      <4>4. CASE i # k \/ f # e
        <5>1. \A x \in Clerks : Sending(x, i, f)' => Sending(x, i, f)
            BY <3>2, <3>3, <4>4 DEF Sending
        <5> QED
            BY <4>1, <4>2, <5>1 DEF Pending
      <4> QED
          BY <4>3, <4>4
    <3>7. Presented'
        BY <1>p, <2>1, <3>2, <3>3 DEF Presented
    <3> QED
        BY <3>4, <3>5, <3>6, <3>7 DEF LinksInv
  <2> QED
      BY <2>2, <2>3
<1>2. ASSUME NEW c \in Clerks, NEW l \in LinkIds, Issue(c, l) PROVE LinksInv'
  <2> DEFINE k == clerk[c].kind
             e == clerk[c].email
             r == [state |-> "open", kind |-> k, email |-> e]
  <2>1. /\ clerk[c].at = "issue" /\ link[l] = Unissued /\ link' = [link EXCEPT ![l] = r]
        /\ clerk' = [clerk EXCEPT ![c] = IdleClerk]
        /\ UNCHANGED <<accounts, worked, inVain, crossed>>
      BY <1>2 DEF Issue
  <2>2. k \in Kinds /\ e \in Emails /\ Sending(c, k, e)
      BY <1>0, <2>1, ClerkShape DEF Sending
  <2>3. r \in Records /\ r.state = "open" /\ r.kind = k /\ r.email = e
      BY <2>2 DEF Records
  <2>4. link[l].state = "unissued"
      BY <2>1 DEF Unissued
  <2>5. /\ clerk'[c] = IdleClerk /\ \A x \in Clerks \ {c} : clerk'[x] = clerk[x]
        /\ link'[l] = r /\ \A m \in LinkIds \ {l} : link'[m] = link[m]
      BY <1>0, <2>1
  <2>6. LnkTyped'
      BY <1>0, <1>i, <2>1, <2>3 DEF LnkTyped
  <2> HIDE DEF r
  <2>7. ASSUME NEW m \in LinkIds PROVE Spent(m)'
    <3>1. Spent(m)
        BY DEF LinksInv
    <3>2. \A x \in Clerks : Uses(x, m)' => Uses(x, m)
        BY <1>i, <2>5 DEF Uses
    <3>3. /\ link[m].state = "consumed" => link'[m].state = "consumed"
          /\ link'[m].state # "consumed" => link[m].state # "consumed"
        BY <2>3, <2>4, <2>5
    <3> QED
        BY <2>1, <3>1, <3>2, <3>3 DEF Spent
  <2>8. ASSUME NEW i \in Kinds, NEW f \in Emails, <<i, f>> \notin crossed' PROVE Pending(i, f)'
    <3>1. Pending(i, f)
        BY <2>1, <2>8 DEF LinksInv
    <3>2. \A x \in Clerks : Sending(x, i, f)' => x # c /\ Sending(x, i, f)
        BY <1>i, <2>5 DEF Sending
    <3>3. \A m \in LinkIds : Is(m, "open", i, f)' =>
              Is(m, "open", i, f) \/ (m = l /\ i = k /\ f = e)
        BY <2>3, <2>5 DEF Is
    <3>4. CASE i = k /\ f = e
      <4>1. \A x \in Clerks : ~ Sending(x, i, f)'
          BY <2>2, <3>1, <3>2, <3>4 DEF Pending
      <4>2. \A m \in LinkIds : ~ Is(m, "open", i, f)
          BY <2>2, <3>1, <3>4 DEF Pending
      <4> QED
          BY <3>3, <4>1, <4>2 DEF Pending
    <3>5. CASE ~ (i = k /\ f = e)
        BY <3>1, <3>2, <3>3, <3>5 DEF Pending
    <3> QED
        BY <3>4, <3>5
  <2>9. Presented'
      BY <1>i, <1>p, <2>3, <2>5 DEF Presented
  <2> QED
      BY <2>6, <2>7, <2>8, <2>9 DEF LinksInv
<1>3. ASSUME NEW c \in Clerks, NEW l \in LinkIds, LookUp(c, l) PROVE LinksInv'
  <2> DEFINE d == [at |-> "consume", link |-> l]
  <2>1. /\ clerk' = [clerk EXCEPT ![c] = d] /\ link[l].state = "open"
        /\ UNCHANGED <<link, accounts, worked, inVain, crossed>>
      BY <1>3 DEF LookUp
  <2>2. d \in Clerking /\ d.at = "consume" /\ d.link = l
      BY DEF Clerking
  <2> HIDE DEF d
  <2>3. clerk'[c] = d /\ \A x \in Clerks \ {c} : clerk'[x] = clerk[x]
      BY <1>0, <2>1
  <2>4. LnkTyped'
      BY <1>0, <2>1, <2>2 DEF LnkTyped
  <2>5. \A x \in Clerks, m \in LinkIds : Uses(x, m)' => Uses(x, m)
      BY <2>2, <2>3 DEF Uses
  <2>6. \A x \in Clerks, k \in Kinds, e \in Emails : Sending(x, k, e)' => Sending(x, k, e)
      BY <2>2, <2>3 DEF Sending
  <2>7. \A m \in LinkIds : Spent(m)'
      BY <2>1, <2>5 DEF LinksInv, Spent
  <2>8. \A k \in Kinds, e \in Emails : <<k, e>> \notin crossed' => Pending(k, e)'
      BY <2>1, <2>6 DEF LinksInv, Pending, Is
  <2>9. Presented'
      BY <1>p, <2>1, <2>2, <2>3 DEF Presented
  <2> QED
      BY <2>4, <2>7, <2>8, <2>9 DEF LinksInv
<1>4. ASSUME NEW c \in Clerks, Consume(c) PROVE LinksInv'
  <2>0. PICK l \in LinkIds : l = clerk[c].link
      BY <1>0, <1>4, ClerkShape DEF Consume
  <2> DEFINE d == [at |-> "use", link |-> l]
  <2>1. clerk[c].at = "consume" /\ l = clerk[c].link
      BY <1>4, <2>0 DEF Consume
  <2>2. CASE ~ StillUnspent(l)
    <3>1. link' = link /\ clerk' = [clerk EXCEPT ![c] = IdleClerk]
          /\ UNCHANGED <<accounts, worked, inVain, crossed>>
        BY <1>4, <2>0, <2>2 DEF Consume
    <3> QED
        BY <1>0, <1>i, <3>1, LinksStruck
  <2>3. CASE StillUnspent(l)
    <3>1. /\ link' = [link EXCEPT ![l].state = "consumed"] /\ clerk' = [clerk EXCEPT ![c] = d]
          /\ UNCHANGED <<accounts, worked, inVain, crossed>> /\ link[l].state # "consumed"
        BY <1>4, <2>0, <2>3 DEF Consume, StillUnspent
    <3>2. d \in Clerking /\ d.at = "use" /\ d.link = l
        BY <2>1 DEF Clerking
    <3> HIDE DEF d
    <3>3. /\ clerk'[c] = d /\ \A x \in Clerks \ {c} : clerk'[x] = clerk[x]
          /\ \A m \in LinkIds \ {l} : link'[m] = link[m]
        BY <1>0, <3>1
    <3>4. link[l] \in Records /\ link'[l] \in Records /\ link'[l].state = "consumed"
      <4>1. link[l] \in Records
          BY <1>0, <1>p, <2>1, LinkShape
      <4>2. link'[l] = [link[l] EXCEPT !.state = "consumed"]
          BY <1>0, <2>1, <3>1
      <4> QED
          BY <4>1, <4>2 DEF Records
    <3>5. LnkTyped'
      <4>1. link' = [m \in LinkIds |-> link'[m]]
          BY <1>0, <3>1
      <4>2. link' \in [LinkIds -> {Unissued} \cup Records]
          BY <1>0, <3>3, <3>4, <4>1
      <4> QED
          BY <1>0, <3>1, <3>2, <4>2 DEF LnkTyped
    <3>6. Presented'
        BY <1>p, <3>2, <3>3, <3>4 DEF Presented
    <3>7. ASSUME NEW m \in LinkIds PROVE Spent(m)'
      <4>1. Spent(m)
          BY DEF LinksInv
      <4>2. CASE m = l
        <5>1. /\ \A x \in Clerks : ~ Uses(x, l)
              /\ worked[l] = 0 /\ l \notin inVain
            BY <3>1, <4>1, <4>2 DEF Spent
        <5>2. \A x \in Clerks : Uses(x, l)' => x = c
            BY <3>3, <5>1 DEF Uses
        <5> QED
            BY <3>1, <3>4, <4>2, <5>1, <5>2 DEF Spent
      <4>3. CASE m # l
        <5>1. \A x \in Clerks : Uses(x, m)' => Uses(x, m)
            BY <3>2, <3>3, <4>3 DEF Uses
        <5> QED
            BY <3>1, <3>3, <4>1, <4>3, <5>1 DEF Spent
      <4> QED
          BY <4>2, <4>3
    <3>8. ASSUME NEW k \in Kinds, NEW e \in Emails, <<k, e>> \notin crossed'
          PROVE  Pending(k, e)'
      <4>1. Pending(k, e)
          BY <3>1, <3>8 DEF LinksInv
      <4>2. \A x \in Clerks : Sending(x, k, e)' => Sending(x, k, e)
          BY <3>2, <3>3 DEF Sending
      <4>3. \A m \in LinkIds : Is(m, "open", k, e)' => Is(m, "open", k, e)
          BY <3>3, <3>4 DEF Is
      <4> QED
          BY <4>1, <4>2, <4>3 DEF Pending
    <3> QED
        BY <3>5, <3>6, <3>7, <3>8 DEF LinksInv
  <2> QED
      BY <2>2, <2>3
<1>5. ASSUME NEW c \in Clerks, UseLink(c) PROVE LinksInv'
  <2>0. PICK l \in LinkIds : l = clerk[c].link
      BY <1>0, <1>5, ClerkShape DEF UseLink
  <2>1. /\ clerk[c].at = "use" /\ l \in LinkIds /\ Uses(c, l)
        /\ clerk' = [clerk EXCEPT ![c] = IdleClerk] /\ UNCHANGED <<link, crossed>>
        /\ \/ /\ worked' = [worked EXCEPT ![l] = @ + 1] /\ inVain' = inVain
              /\ accounts' = accounts \cup {link[l].email}
           \/ inVain' = inVain \cup {l} /\ UNCHANGED <<worked, accounts>>
      BY <1>5, <2>0 DEF UseLink, Uses
  <2>2. Spent(l) /\ link[l].state = "consumed" /\ worked[l] = 0 /\ l \notin inVain
      BY <2>1 DEF LinksInv, Spent
  <2>3. link[l].email \in Emails
      BY <1>0, <2>1, <2>2, LinkShape
  <2>4. clerk'[c] = IdleClerk /\ \A x \in Clerks \ {c} : clerk'[x] = clerk[x]
      BY <1>0, <2>1
  <2>5. LnkTyped'
      BY <1>0, <1>i, <2>1, <2>3 DEF LnkTyped
  <2>6. Presented'
      BY <1>i, <1>p, <2>1, <2>4 DEF Presented
  <2>7. \A x \in Clerks, m \in LinkIds : Uses(x, m)' => x # c /\ Uses(x, m)
      BY <1>i, <2>4 DEF Uses
  <2>8. ASSUME NEW m \in LinkIds PROVE Spent(m)'
    <3>1. Spent(m)
        BY DEF LinksInv
    <3>2. CASE m = l
      <4>1. \A x \in Clerks : ~ Uses(x, l)'
          BY <2>1, <2>2, <2>7 DEF Spent
      <4>2. worked'[l] <= (IF l \in inVain' THEN 0 ELSE 1)
          BY <1>0, <2>1, <2>2
      <4> QED
          BY <2>1, <2>2, <3>2, <4>1, <4>2 DEF Spent
    <3>3. CASE m # l
      <4>1. worked'[m] = worked[m] /\ (m \in inVain' <=> m \in inVain)
          BY <1>0, <2>1, <3>3
      <4> QED
          BY <2>1, <2>7, <3>1, <4>1 DEF Spent
    <3> QED
        BY <3>2, <3>3
  <2>9. ASSUME NEW k \in Kinds, NEW e \in Emails, <<k, e>> \notin crossed' PROVE Pending(k, e)'
    <3>1. \A x \in Clerks : Sending(x, k, e)' => Sending(x, k, e)
        BY <1>i, <2>4 DEF Sending
    <3> QED
        BY <2>1, <2>9, <3>1 DEF LinksInv, Pending, Is
  <2> QED
      BY <2>5, <2>6, <2>8, <2>9 DEF LinksInv
\* The steps that strike links or leave them alone.
<1>6. ASSUME NEW l \in LinkIds, Expire(l) PROVE LinksInv'
  <2>1. link[l].state = "open" /\ link' = [link EXCEPT ![l].state = "expired"]
        /\ UNCHANGED <<accounts, clerk, worked, inVain, crossed>>
      BY <1>6 DEF Expire
  <2>2. link[l] \in Records
      BY <1>0, <2>1, LinkShape
  <2>3. link'[l] = [link[l] EXCEPT !.state = "expired"]
        /\ \A m \in LinkIds \ {l} : link'[m] = link[m]
      BY <1>0, <2>1
  <2>4. link'[l] \in Records /\ link'[l].state = "expired"
      BY <2>2, <2>3 DEF Records
  <2>5. link' \in [LinkIds -> {Unissued} \cup Records]
    <3>1. link' = [m \in LinkIds |-> link'[m]]
        BY <1>0, <2>1
    <3> QED
        BY <1>0, <2>3, <2>4, <3>1
  <2> QED
      BY <1>0, <2>1, <2>3, <2>4, <2>5, LinksStruck
<1>7. ASSUME NEW e \in Emails, SignUp(e) \/ DropRow(e) PROVE LinksInv'
    BY <1>0, <1>7, LinksStruck DEF SignUp, DropRow
<1>8. ASSUME NEW e \in Emails, DropLinks(e) PROVE LinksInv'
  <2> DEFINE open(l) == link[l].state \in {"open", "expired"} /\ link[l].email = e
  <2>1. /\ link' = [l \in LinkIds |-> IF open(l) THEN [link[l] EXCEPT !.state = "consumed"]
                                                ELSE link[l]]
        /\ UNCHANGED <<accounts, clerk, worked, inVain, crossed>>
      BY <1>8 DEF DropLinks
  <2>2. ASSUME NEW l \in LinkIds, open(l)
        PROVE  link'[l] \in Records /\ link'[l].state = "consumed"
    <3>1. link[l] \in Records
        BY <1>0, <2>2, LinkShape
    <3> QED
        BY <2>1, <2>2, <3>1 DEF Records
  <2>3. ASSUME NEW l \in LinkIds, ~ open(l) PROVE link'[l] = link[l]
      BY <2>1, <2>3
  <2>4. link' \in [LinkIds -> {Unissued} \cup Records]
    <3>1. link' = [m \in LinkIds |-> link'[m]]
        BY <2>1
    <3> QED
        BY <1>0, <2>2, <2>3, <3>1
  <2> QED
      BY <1>0, <2>1, <2>2, <2>3, <2>4, LinksStruck
<1>9. CASE LnkRestart
  <2>1. clerk' \in [Clerks -> Clerking] /\ \A c \in Clerks : clerk'[c] = IdleClerk
      BY <1>9, <1>i DEF LnkRestart
  <2>2. /\ inVain' \subseteq LinkIds
        /\ \A l \in inVain' \ inVain : \E c \in Clerks : Uses(c, l)
      BY <1>0, <1>9 DEF LnkRestart, Uses
  <2> QED
      BY <1>0, <1>9, <2>1, <2>2, LinksStruck DEF LnkRestart
<1>10. CASE UNCHANGED lnkVars
    BY <1>0, <1>10, LinksStruck DEF lnkVars
<1> QED
    BY <1>1, <1>2, <1>3, <1>4, <1>5, <1>6, <1>7, <1>8, <1>9, <1>10 DEF LnkNext

LEMMA LinksKeep == LinksInv => LinksHold
<1> SUFFICES ASSUME LinksInv PROVE LinksHold
    OBVIOUS
<1>1. ASSUME NEW k \in Kinds, NEW e \in Emails, <<k, e>> \notin crossed
      PROVE  Cardinality({l \in LinkIds : Is(l, "open", k, e)}) <= 1
  <2> DEFINE S == {l \in LinkIds : Is(l, "open", k, e)}
  <2>1. \A l, m \in S : l = m
      BY <1>1 DEF LinksInv, Pending
  <2>2. CASE S = {}
      BY <2>2, FS_EmptySet
  <2>3. CASE S # {}
    <3>1. PICK l : S = {l}
        BY <2>1, <2>3
    <3> QED
        BY <3>1, FS_Singleton
  <2> QED
      BY <2>2, <2>3
<1> QED
    BY <1>1 DEF LinksInv, Spent, LinksHold
-----------------------------------------------------------------------------
(* The second factor *)

SfTyped ==
    /\ totp \in {"off", "pending", "on"}
    /\ codes \subseteq Codes /\ dead \subseteq Codes
    /\ batches \in Nat /\ issuedCh \in 0..MaxChallenges
    /\ challenges \subseteq 1..issuedCh
    /\ caller \in [Callers -> Calling]
    /\ opened \in [ChallengeIds -> Nat]
    /\ mixed \in BOOLEAN

\* The codes stored are live and of a batch that was issued, and there are none
\* while the factor is off.
CodesLive ==
    /\ ~ revived /\ (codes # {} => totp = "on") /\ codes \cap dead = {}
    /\ \A k \in codes \cup dead : k[1] <= batches

\* A challenge that opened a session is gone, and nobody works on it.
ChallengesOnce ==
    \A h \in ChallengeIds :
        /\ opened[h] <= 1
        /\ opened[h] = 1 => h <= issuedCh /\ h \notin challenges

\* Whoever works on the factor works with what is stored.
CallerCurrent(c) ==
    LET d == caller[c]
    IN  /\ d.at = "store" => d.fresh \/ totp = "on"
        /\ d.at \in {"challenge", "verify", "strike"} => opened[d.ch] = 0 /\ d.ch <= issuedCh
        /\ d.at \in {"verify", "strike"} => d.ch \notin challenges
        /\ d.at = "strike" => d.code \in codes /\ d.left = codes \ {d.code}

Sole ==
    /\ \A c, d \in Callers : ~ Idle(c) /\ ~ Idle(d) => c = d
    /\ CodesLive /\ ChallengesOnce
    /\ \A c \in Callers : CallerCurrent(c)

FactorInv == SfTyped /\ (~ mixed => Sole)

LEMMA CallerShape ==
    ASSUME NEW d \in Calling
    PROVE  /\ d.at \in {"idle", "store", "enrol", "disable", "challenge", "verify", "strike"}
           /\ d.at = "idle" <=> d = NoCaller
           /\ d.at = "store" => d.fresh \in BOOLEAN
           /\ d.at \in {"challenge", "verify", "strike"} => d.ch \in ChallengeIds
           /\ d.at = "challenge" => [d EXCEPT !.at = "verify"] \in Calling
                                    /\ [d EXCEPT !.at = "verify"].at = "verify"
                                    /\ [d EXCEPT !.at = "verify"].ch = d.ch
           /\ d.at = "strike" => d.code \in Codes /\ d.left \subseteq Codes
<1>1. CASE d = NoCaller
    BY <1>1 DEF NoCaller
<1>2. CASE d \in [at : {"store"}, fresh : BOOLEAN]
    BY <1>2 DEF NoCaller
<1>3. CASE d \in [at : {"enrol", "disable"}]
    BY <1>3 DEF NoCaller
<1>4. CASE d \in [at : {"challenge", "verify"}, ch : ChallengeIds]
  <2>1. d.at \in {"challenge", "verify"} /\ d.ch \in ChallengeIds
      BY <1>4
  <2>2. [d EXCEPT !.at = "verify"] \in [at : {"challenge", "verify"}, ch : ChallengeIds]
      BY <1>4
  <2>3. [d EXCEPT !.at = "verify"].at = "verify" /\ [d EXCEPT !.at = "verify"].ch = d.ch
      BY <1>4
  <2> QED
      BY <2>1, <2>2, <2>3 DEF NoCaller, Calling
<1>5. CASE d \in [at : {"strike"}, ch : ChallengeIds, code : Codes, left : SUBSET Codes]
    BY <1>5 DEF NoCaller
<1> QED
    BY <1>1, <1>2, <1>3, <1>4, <1>5 DEF Calling, FactorChanges

LEMMA InitFactor == SfInit => FactorInv
<1> SUFFICES ASSUME SfInit PROVE FactorInv
    OBVIOUS
<1>1. \A c \in Callers : Idle(c) /\ caller[c].at = "idle"
    BY DEF SfInit, Idle, NoCaller
<1>2. SfTyped
  <2>1. caller \in [Callers -> Calling]
      BY DEF SfInit, Calling
  <2>2. opened \in [ChallengeIds -> Nat]
      BY DEF SfInit
  <2>3. issuedCh \in 0..MaxChallenges
      BY SecondFactorAssumption DEF SfInit
  <2>4. mixed \in BOOLEAN
      BY DEF SfInit
  <2> QED
      BY <2>1, <2>2, <2>3, <2>4 DEF SfInit, SfTyped
<1>3. CodesLive /\ ChallengesOnce
    BY DEF SfInit, CodesLive, ChallengesOnce
<1>4. \A c \in Callers : CallerCurrent(c)
    BY <1>1 DEF CallerCurrent
<1> QED
    BY <1>1, <1>2, <1>3, <1>4 DEF FactorInv, Sole

\* One caller starts something, or goes on with it; what it works with is what
\* is stored, and the others' part of the state stays or they are not there.
LEMMA CallerSteps ==
    ASSUME FactorInv, NEW c \in Callers, NEW d \in Calling, caller' = [caller EXCEPT ![c] = d],
           totp' \in {"off", "pending", "on"}, codes' \subseteq Codes, dead' \subseteq Codes,
           batches' \in Nat, issuedCh' = issuedCh, challenges' \subseteq challenges,
           opened' \in [ChallengeIds -> Nat],
           mixed' \in BOOLEAN,
           ~ Idle(c) \/ d # NoCaller,
           Idle(c) => mixed' = (mixed \/ \E x \in Callers \ {c} : ~ Idle(x)),
           ~ Idle(c) => mixed' = mixed,
           ~ mixed' /\ Sole => CodesLive' /\ ChallengesOnce' /\ CallerCurrent(c)'
    PROVE  FactorInv'
<1>1. /\ caller \in [Callers -> Calling] /\ issuedCh \in 0..MaxChallenges
      /\ challenges \subseteq 1..issuedCh /\ mixed \in BOOLEAN
    BY DEF FactorInv, SfTyped
<1>2. caller'[c] = d /\ \A x \in Callers \ {c} : caller'[x] = caller[x]
    BY <1>1
<1>3. caller' \in [Callers -> Calling]
    BY <1>1
<1>4. SfTyped'
    BY <1>1, <1>3 DEF SfTyped
<1>5. SUFFICES ASSUME ~ mixed' PROVE Sole'
    BY <1>4 DEF FactorInv
<1>6. ~ mixed /\ Sole
    BY <1>5 DEF FactorInv
<1>7. \A x \in Callers \ {c} : Idle(x)
  <2>1. CASE Idle(c)
      BY <1>5, <2>1
  <2>2. CASE ~ Idle(c)
      BY <1>6, <2>2 DEF Sole
  <2> QED
      BY <2>1, <2>2
<1>8. \A x \in Callers \ {c} : Idle(x)' /\ CallerCurrent(x)'
    BY <1>2, <1>7 DEF Idle, NoCaller, CallerCurrent
<1> QED
    BY <1>5, <1>6, <1>8 DEF Sole

LEMMA NextFactor == FactorInv /\ [SfNext]_sfVars => FactorInv'
<1> SUFFICES ASSUME FactorInv, [SfNext]_sfVars PROVE FactorInv'
    OBVIOUS
<1>0. /\ totp \in {"off", "pending", "on"} /\ codes \subseteq Codes /\ dead \subseteq Codes
      /\ batches \in Nat /\ issuedCh \in 0..MaxChallenges /\ challenges \subseteq 1..issuedCh
      /\ caller \in [Callers -> Calling] /\ opened \in [ChallengeIds -> Nat]
      /\ mixed \in BOOLEAN
    BY DEF FactorInv, SfTyped
<1>n. NoCaller \in Calling /\ NoCaller.at = "idle"
    BY DEF Calling, NoCaller
<1>s. ~ mixed => Sole
    BY DEF FactorInv
<1>1. ASSUME NEW c \in Callers, NEW d \in FactorChanges, BeginChange(c, d) PROVE FactorInv'
  <2>1. d \in Calling /\ d.at \in {"store", "enrol", "disable"} /\ d # NoCaller
      BY DEF Calling, FactorChanges, NoCaller
  <2>2. /\ Idle(c) /\ caller' = [caller EXCEPT ![c] = d]
        /\ mixed' = (mixed \/ \E x \in Callers \ {c} : ~ Idle(x))
        /\ UNCHANGED <<totp, codes, batches, challenges, issuedCh, opened, dead, revived>>
      BY <1>1 DEF BeginChange, Enters
  <2>3. d.at = "store" => d.fresh \/ totp = "on"
      BY <1>1 DEF BeginChange
  <2>4. mixed' \in BOOLEAN
      BY <2>2
  <2>5. caller'[c] = d
      BY <1>0, <2>2
  <2>6. Sole => CodesLive' /\ ChallengesOnce' /\ CallerCurrent(c)'
      BY <2>1, <2>2, <2>3, <2>5 DEF Sole, CodesLive, ChallengesOnce, CallerCurrent
  <2> QED
      BY <1>0, <2>1, <2>2, <2>4, <2>6, CallerSteps
<1>2. ASSUME NEW c \in Callers, NEW h \in ChallengeIds, BeginVerify(c, h) PROVE FactorInv'
  <2>1. PICK d : d = [at |-> "challenge", ch |-> h]
      OBVIOUS
  <2>2. d \in Calling /\ d.at = "challenge" /\ d.ch = h /\ d # NoCaller
      BY <2>1 DEF Calling, NoCaller
  <2>3. /\ Idle(c) /\ caller' = [caller EXCEPT ![c] = d] /\ h \in challenges
        /\ mixed' = (mixed \/ \E x \in Callers \ {c} : ~ Idle(x))
        /\ UNCHANGED <<totp, codes, batches, challenges, issuedCh, opened, dead, revived>>
      BY <1>2, <2>1 DEF BeginVerify, Enters
  <2>4. mixed' \in BOOLEAN /\ caller'[c] = d
      BY <1>0, <2>3
  <2>5. Sole => opened[h] = 0 /\ h <= issuedCh
      BY <1>0, <2>3 DEF Sole, ChallengesOnce
  <2>6. Sole => CodesLive' /\ ChallengesOnce' /\ CallerCurrent(c)'
      BY <2>2, <2>3, <2>4, <2>5 DEF Sole, CodesLive, ChallengesOnce, CallerCurrent
  <2> QED
      BY <1>0, <2>2, <2>3, <2>4, <2>6, CallerSteps
<1>3. ASSUME NEW c \in Callers, TakeChallenge(c) PROVE FactorInv'
  <2>1. PICK d : d = [caller[c] EXCEPT !.at = "verify"]
      OBVIOUS
  <2>2. PICK h : h = caller[c].ch
      OBVIOUS
  <2>3. /\ caller[c].at = "challenge" /\ ~ Idle(c) /\ h \in ChallengeIds
        /\ d \in Calling /\ d.at = "verify" /\ d.ch = h
      BY <1>0, <1>3, <1>n, <2>1, <2>2, CallerShape DEF TakeChallenge, Idle
  <2>4. /\ caller' = [caller EXCEPT ![c] = d] /\ challenges' = challenges \ {h}
        /\ UNCHANGED <<totp, codes, batches, issuedCh, opened, dead, revived, mixed>>
      BY <1>0, <1>3, <2>1, <2>2 DEF TakeChallenge, Remaining
  <2>5. caller'[c] = d
      BY <1>0, <2>4
  <2>6. Sole => CodesLive' /\ ChallengesOnce' /\ CallerCurrent(c)'
      BY <2>2, <2>3, <2>4, <2>5 DEF Sole, CodesLive, ChallengesOnce, CallerCurrent
  <2> QED
      BY <1>0, <2>3, <2>4, <2>6, CallerSteps
<1>4. ASSUME NEW c \in Callers, Withdraw(c) PROVE FactorInv'
  <2>1. ~ Idle(c)
      BY <1>4, <1>n DEF Withdraw, Idle
  <2>2. /\ totp' \in {"off", "pending"} /\ codes' = {} /\ dead' = dead \cup codes
        /\ caller' = [caller EXCEPT ![c] = NoCaller]
        /\ UNCHANGED <<batches, challenges, issuedCh, opened, revived, mixed>>
      BY <1>4 DEF Withdraw, Leaves
  <2>3. caller'[c] = NoCaller
      BY <1>0, <2>2
  <2>4. Sole => CodesLive' /\ ChallengesOnce' /\ CallerCurrent(c)'
      BY <1>n, <2>2, <2>3 DEF Sole, CodesLive, ChallengesOnce, CallerCurrent
  <2> QED
      BY <1>0, <1>n, <2>1, <2>2, <2>4, CallerSteps
<1>5. ASSUME NEW c \in Callers, Store(c) PROVE FactorInv'
  <2>1. /\ caller[c].at = "store" /\ batches < MaxBatches /\ batches' = batches + 1
        /\ codes' = Batch(batches + 1) /\ totp' = (IF caller[c].fresh THEN "on" ELSE totp)
        /\ dead' = dead \cup codes /\ caller' = [caller EXCEPT ![c] = NoCaller]
        /\ UNCHANGED <<challenges, issuedCh, opened, revived, mixed>>
      BY <1>5 DEF Store, Leaves
  <2>2. ~ Idle(c) /\ caller'[c] = NoCaller
      BY <1>0, <1>n, <2>1 DEF Idle
  <2>3. codes' \subseteq Codes /\ \A k \in codes' : k[1] = batches + 1
    <3>1. batches + 1 \in 1..MaxBatches
        BY <1>0, <2>1, SecondFactorAssumption
    <3> QED
        BY <2>1, <3>1 DEF Batch, Codes
  <2>4. ASSUME Sole PROVE CodesLive' /\ ChallengesOnce' /\ CallerCurrent(c)'
    <3>1. totp' = "on"
        BY <2>1, <2>4 DEF Sole, CallerCurrent
    <3>2. \A k \in dead' : k[1] <= batches /\ k[1] \in Nat
        BY <1>0, <2>1, <2>4 DEF Sole, CodesLive, Codes
    <3>3. codes' \cap dead' = {} /\ \A k \in codes' \cup dead' : k[1] <= batches'
        BY <1>0, <2>1, <2>3, <3>2
    <3> QED
        BY <1>n, <2>1, <2>2, <2>4, <3>1, <3>3 DEF Sole, CodesLive, ChallengesOnce, CallerCurrent
  <2>5. batches' \in Nat /\ totp' \in {"off", "pending", "on"} /\ dead' \subseteq Codes
      BY <1>0, <2>1
  <2> QED
      BY <1>0, <1>n, <2>1, <2>2, <2>3, <2>4, <2>5, CallerSteps
<1>6. ASSUME NEW c \in Callers, DeviceCode(c) PROVE FactorInv'
  <2>1. PICK h : h = caller[c].ch
      OBVIOUS
  <2>2. /\ caller[c].at = "verify" /\ ~ Idle(c) /\ h \in ChallengeIds
        /\ caller' = [caller EXCEPT ![c] = NoCaller]
        /\ opened' = opened \/ opened' = [opened EXCEPT ![h] = @ + 1]
        /\ UNCHANGED <<totp, codes, batches, challenges, issuedCh, dead, revived, mixed>>
      BY <1>0, <1>6, <1>n, <2>1, CallerShape DEF DeviceCode, Opens, Leaves, Idle
  <2>3. caller'[c] = NoCaller /\ opened' \in [ChallengeIds -> Nat]
      BY <1>0, <2>2
  <2>4. ASSUME Sole PROVE CodesLive' /\ ChallengesOnce' /\ CallerCurrent(c)'
    <3>1. opened[h] = 0 /\ h <= issuedCh /\ h \notin challenges
        BY <2>1, <2>2, <2>4 DEF Sole, CallerCurrent
    <3>2. ChallengesOnce'
        BY <1>0, <2>2, <2>4, <3>1 DEF Sole, ChallengesOnce
    <3> QED
        BY <1>n, <2>2, <2>3, <2>4, <3>2 DEF Sole, CodesLive, CallerCurrent
  <2> QED
      BY <1>0, <1>n, <2>2, <2>3, <2>4, CallerSteps
<1>7. ASSUME NEW c \in Callers, NEW k \in codes, RecoveryCode(c, k) PROVE FactorInv'
  <2>1. PICK d : d = [at |-> "strike", ch |-> caller[c].ch, code |-> k, left |-> codes \ {k}]
      OBVIOUS
  <2>2. /\ caller[c].at = "verify" /\ ~ Idle(c) /\ caller[c].ch \in ChallengeIds
        /\ caller' = [caller EXCEPT ![c] = d]
        /\ UNCHANGED <<totp, codes, batches, challenges, issuedCh, opened, dead, revived, mixed>>
      BY <1>0, <1>7, <1>n, <2>1, CallerShape DEF RecoveryCode, Idle
  <2>3. /\ d \in Calling /\ d.at = "strike" /\ d.ch = caller[c].ch /\ d.code = k
        /\ d.left = codes \ {k}
    <3>1. k \in Codes /\ codes \ {k} \in SUBSET Codes
        BY <1>0
    <3> QED
        BY <2>1, <2>2, <3>1 DEF Calling
  <2>4. caller'[c] = d
      BY <1>0, <2>2
  <2>5. Sole => CodesLive' /\ ChallengesOnce' /\ CallerCurrent(c)'
      BY <2>2, <2>3, <2>4 DEF Sole, CodesLive, ChallengesOnce, CallerCurrent
  <2> QED
      BY <1>0, <2>2, <2>3, <2>5, CallerSteps
<1>8. ASSUME NEW c \in Callers, Strike(c) PROVE FactorInv'
  <2>1. PICK d : d = caller[c]
      OBVIOUS
  <2>2. /\ d.at = "strike" /\ ~ Idle(c) /\ d.ch \in ChallengeIds /\ d.code \in Codes
        /\ d.left \subseteq Codes
      BY <1>0, <1>8, <1>n, <2>1, CallerShape DEF Strike, Idle
  <2>3. /\ codes' = d.left /\ revived' = (revived \/ d.code \in dead)
        /\ dead' = dead \cup {d.code} \cup (codes \ d.left)
        /\ opened' = [opened EXCEPT ![d.ch] = @ + 1]
        /\ caller' = [caller EXCEPT ![c] = NoCaller]
        /\ UNCHANGED <<totp, batches, challenges, issuedCh, mixed>>
      BY <1>8, <2>1 DEF Strike, WrittenBack, Opens, Leaves
  <2>4. caller'[c] = NoCaller /\ opened' \in [ChallengeIds -> Nat] /\ dead' \subseteq Codes
      BY <1>0, <2>2, <2>3
  <2>5. ASSUME Sole PROVE CodesLive' /\ ChallengesOnce' /\ CallerCurrent(c)'
    <3>1. /\ opened[d.ch] = 0 /\ d.ch <= issuedCh /\ d.ch \notin challenges
          /\ d.code \in codes /\ d.left = codes \ {d.code}
        BY <2>1, <2>2, <2>5 DEF Sole, CallerCurrent
    <3>2. ChallengesOnce'
        BY <1>0, <2>2, <2>3, <2>5, <3>1 DEF Sole, ChallengesOnce
    <3>3. CodesLive'
        BY <2>3, <2>5, <3>1 DEF Sole, CodesLive
    <3> QED
        BY <1>n, <2>4, <3>2, <3>3 DEF CallerCurrent
  <2> QED
      BY <1>0, <1>n, <2>2, <2>3, <2>4, <2>5, CallerSteps
<1>9. CASE IssueChallenge
  <2>1. /\ issuedCh' = issuedCh + 1 /\ challenges' = challenges \cup {issuedCh + 1}
        /\ issuedCh < MaxChallenges
        /\ UNCHANGED <<totp, codes, batches, caller, opened, dead, revived, mixed>>
      BY <1>9 DEF IssueChallenge
  <2>2. issuedCh' \in 0..MaxChallenges /\ challenges' \subseteq 1..issuedCh'
      BY <1>0, <2>1, SecondFactorAssumption
  <2>3. SfTyped'
      BY <1>0, <2>1, <2>2 DEF SfTyped
  <2>4. Sole => ChallengesOnce'
    <3>1. \A h \in ChallengeIds : h <= issuedCh => h # issuedCh + 1 /\ h <= issuedCh + 1
        BY <1>0 DEF ChallengeIds
    <3> QED
        BY <2>1, <3>1 DEF Sole, ChallengesOnce
  <2>5. ASSUME Sole, NEW c \in Callers PROVE CallerCurrent(c)'
    <3>1. caller[c] \in Calling /\ CallerCurrent(c)
        BY <1>0, <2>5 DEF Sole
    <3>2. caller[c].at \in {"challenge", "verify", "strike"} => caller[c].ch \in 1..MaxChallenges
        BY <3>1, CallerShape DEF ChallengeIds
    <3> QED
        BY <1>0, <2>1, <3>1, <3>2 DEF CallerCurrent
  <2> QED
      BY <1>s, <2>1, <2>3, <2>4, <2>5 DEF FactorInv, Sole, Idle, CodesLive
<1>10. ASSUME NEW h \in ChallengeIds, ChallengeExpires(h) PROVE FactorInv'
  <2>1. challenges' \subseteq challenges
        /\ UNCHANGED <<totp, codes, batches, issuedCh, caller, opened, dead, revived, mixed>>
      BY <1>10 DEF ChallengeExpires
  <2>2. SfTyped'
      BY <1>0, <2>1 DEF SfTyped
  <2>3. Sole => Sole'
      BY <2>1 DEF Sole, Idle, CodesLive, ChallengesOnce, CallerCurrent
  <2> QED
      BY <1>s, <2>1, <2>2, <2>3 DEF FactorInv
<1>11. CASE SfRestart
  <2>1. caller' = [c \in Callers |-> NoCaller]
        /\ UNCHANGED <<totp, codes, batches, challenges, issuedCh, opened, dead, revived, mixed>>
      BY <1>11 DEF SfRestart
  <2>2. \A c \in Callers : caller'[c] = NoCaller
      BY <2>1
  <2>3. SfTyped'
      BY <1>0, <1>n, <2>1 DEF SfTyped
  <2>4. Sole => Sole'
      BY <1>n, <2>1, <2>2 DEF Sole, Idle, CodesLive, ChallengesOnce, CallerCurrent
  <2> QED
      BY <1>s, <2>1, <2>3, <2>4 DEF FactorInv
<1>12. CASE UNCHANGED sfVars
  <2>1. UNCHANGED <<totp, codes, batches, challenges, issuedCh, caller, opened, dead, revived, mixed>>
      BY <1>12 DEF sfVars
  <2> QED
      BY <1>0, <1>s, <2>1
      DEF FactorInv, SfTyped, Sole, Idle, CodesLive, ChallengesOnce, CallerCurrent
<1> QED
    BY <1>1, <1>2, <1>3, <1>4, <1>5, <1>6, <1>7, <1>8, <1>9, <1>10, <1>11, <1>12 DEF SfNext

LEMMA FactorKeeps == FactorInv => FactorHolds
BY DEF FactorInv, Sole, CodesLive, ChallengesOnce, FactorHolds
-----------------------------------------------------------------------------
(* Workspaces *)

WsTyped ==
    /\ rows \in [DOMAIN rows -> Membership]
    /\ nextRow \in Nat /\ \A i \in DOMAIN rows : i \in Nat /\ i < nextRow
    /\ desk \in [Desks -> Desking]

OnRow(d) == desk[d].does \in {"save", "drop"}
DeskOn(d, u) == desk[d].does # "nothing" /\ desk[d].user = u

\* A row is of one person for good: whoever saves or drops it by its id knows whose.
RowsKnown ==
    /\ \A d \in Desks : OnRow(d) => /\ desk[d].id < nextRow
                                    /\ desk[d].id \in DOMAIN rows =>
                                          rows[desk[d].id].user = desk[d].user
    /\ \A d, e \in Desks : OnRow(d) /\ OnRow(e) /\ desk[d].id = desk[e].id =>
                              desk[d].user = desk[e].user

\* The owner has nothing but rows with that role, no request changes or drops
\* one, and there are no rows before the first of them.
OwnerStays ==
    /\ \A i \in DOMAIN rows : rows[i].user = Owner => rows[i].role = "owner"
    /\ \A d \in Desks : desk[d].does = "add" /\ desk[d].user = Owner => desk[d].role = "owner"
    /\ \A d \in Desks : OnRow(d) => desk[d].user # Owner
    /\ DOMAIN rows = {} => \A d \in Desks : desk[d].does = "nothing"
                                            \/ (desk[d].does = "add" /\ desk[d].user = Owner)
    /\ DOMAIN rows # {} => \E i \in DOMAIN rows : rows[i].user = Owner

\* A person whom one request at a time has worked on.
Orderly(u) ==
    /\ \A d, e \in Desks : DeskOn(d, u) /\ DeskOn(e, u) => d = e
    /\ \A i, j \in DOMAIN rows : rows[i].user = u /\ rows[j].user = u => i = j
    /\ \A d \in Desks : DeskOn(d, u) /\ desk[d].does = "add" =>
          \A i \in DOMAIN rows : rows[i].user # u
    /\ \A d \in Desks : DeskOn(d, u) /\ OnRow(d) => desk[d].id \in DOMAIN rows
    /\ u \in left => \A i \in DOMAIN rows : rows[i].user # u

WorkspaceInv ==
    WsTyped /\ RowsKnown /\ OwnerStays /\ \A u \in People \ met : Orderly(u)

LEMMA DeskShape ==
    ASSUME NEW t \in Desking
    PROVE  /\ t.does \in {"nothing", "add", "save", "drop"}
           /\ t.does = "nothing" <=> t = Free
           /\ t.does # "nothing" => t.user \in People /\ t.role \in Roles
           /\ t.does \in {"save", "drop"} => t.id \in RowIds
<1>1. CASE t = Free
    BY <1>1 DEF Free
<1>2. CASE t \in [does : {"add"}, user : People, role : Roles]
    BY <1>2 DEF Free
<1>3. CASE t \in [does : {"save", "drop"}, id : RowIds, user : People, role : Roles]
    BY <1>3 DEF Free
<1> QED
    BY <1>1, <1>2, <1>3 DEF Desking

LEMMA InitWorkspace == WsInit => WorkspaceInv
<1> SUFFICES ASSUME WsInit PROVE WorkspaceInv
    OBVIOUS
<1>1. DOMAIN rows = {} /\ rows = [i \in {} |-> Free]
    BY DEF WsInit
<1>2. \A d \in Desks : desk[d].does = "nothing"
    BY DEF WsInit, Free
<1>3. WsTyped
  <2>1. desk \in [Desks -> Desking]
      BY DEF WsInit, Desking
  <2>2. rows \in [DOMAIN rows -> Membership]
      BY <1>1
  <2> QED
      BY <1>1, <2>1, <2>2 DEF WsInit, WsTyped
<1> QED
    BY <1>1, <1>2, <1>3 DEF WorkspaceInv, RowsKnown, OwnerStays, Orderly, OnRow, DeskOn

\* A request takes a task: to add someone who is no member, or to save or drop
\* a row that is there and is not the owner's.  Roles may change.
LEMMA TaskTaken ==
    ASSUME WorkspaceInv, NEW d \in Desks, NEW t \in Desking, Takes(d, t), t.does # "nothing",
           rows' \in [DOMAIN rows -> Membership], DOMAIN rows' = DOMAIN rows,
           \A i \in DOMAIN rows : /\ rows'[i].user = rows[i].user
                                  /\ rows[i].role = "owner" => rows'[i].role = "owner",
           UNCHANGED <<nextRow, left>>,
           t.does = "add" => /\ ~ IsMember(t.user)
                             /\ t.user = Owner => t.role = "owner"
                             /\ DOMAIN rows = {} => t.user = Owner,
           t.does \in {"save", "drop"} => /\ t.id \in DOMAIN rows /\ rows[t.id].user = t.user
                                          /\ rows[t.id].role # "owner"
    PROVE  WorkspaceInv'
<1>0. /\ desk \in [Desks -> Desking] /\ nextRow \in Nat
      /\ \A i \in DOMAIN rows : i \in Nat /\ i < nextRow
    BY DEF WorkspaceInv, WsTyped
<1>1. /\ desk' = [desk EXCEPT ![d] = t] /\ desk[d] = Free /\ Free.does = "nothing"
      /\ met \subseteq met'
      /\ (\E e \in Desks : desk[e] # Free /\ desk[e].user = t.user) => t.user \in met'
    BY DEF Takes, Free
<1>2. desk'[d] = t /\ \A e \in Desks \ {d} : desk'[e] = desk[e]
    BY <1>0, <1>1
<1>3. WsTyped'
    BY <1>0, <1>1 DEF WsTyped
<1>4. RowsKnown'
  <2>1. ASSUME NEW e \in Desks, OnRow(e)'
        PROVE  /\ desk'[e].id < nextRow
               /\ desk'[e].id \in DOMAIN rows => rows[desk'[e].id].user = desk'[e].user
    <3>1. CASE e = d
        BY <1>0, <1>2, <2>1, <3>1 DEF OnRow
    <3>2. CASE e # d
        BY <1>2, <2>1, <3>2 DEF WorkspaceInv, RowsKnown, OnRow
    <3> QED
        BY <3>1, <3>2
  <2>2. ASSUME NEW e \in Desks, NEW f \in Desks, OnRow(e)', OnRow(f)', desk'[e].id = desk'[f].id
        PROVE  desk'[e].user = desk'[f].user
    <3>1. CASE e = d \/ f = d
      <4>1. desk'[e].id = t.id /\ t.does \in {"save", "drop"}
          BY <1>2, <2>2, <3>1 DEF OnRow
      <4> QED
          BY <2>1, <2>2, <4>1
    <3>2. CASE e # d /\ f # d
        BY <1>2, <2>2, <3>2 DEF WorkspaceInv, RowsKnown, OnRow
    <3> QED
        BY <3>1, <3>2
  <2> QED
      BY <2>1, <2>2 DEF RowsKnown
<1>5. OwnerStays'
  <2>1. \A e \in Desks : desk'[e].does = "add" /\ desk'[e].user = Owner => desk'[e].role = "owner"
      BY <1>2 DEF WorkspaceInv, OwnerStays
  <2>2. \A e \in Desks : OnRow(e)' => desk'[e].user # Owner
    <3>1. t.does \in {"save", "drop"} => t.user # Owner
        BY DEF WorkspaceInv, OwnerStays
    <3> QED
        BY <1>2, <3>1 DEF WorkspaceInv, OwnerStays, OnRow
  <2>3. DOMAIN rows = {} => \A e \in Desks : desk'[e].does = "nothing"
                                  \/ (desk'[e].does = "add" /\ desk'[e].user = Owner)
    <3>1. DOMAIN rows = {} => t.does = "add" /\ t.user = Owner
        BY DeskShape
    <3> QED
        BY <1>2, <3>1 DEF WorkspaceInv, OwnerStays
  <2>4. /\ \A i \in DOMAIN rows : rows'[i].user = Owner => rows'[i].role = "owner"
        /\ DOMAIN rows # {} => \E i \in DOMAIN rows : rows'[i].user = Owner
      BY DEF WorkspaceInv, OwnerStays
  <2> QED
      BY <2>1, <2>2, <2>3, <2>4 DEF OwnerStays
<1>6. ASSUME NEW u \in People \ met' PROVE Orderly(u)'
  <2>1. Orderly(u)
      BY <1>1 DEF WorkspaceInv
  <2>2. CASE t.user = u
    <3>1. \A e \in Desks : ~ DeskOn(e, u)
        BY <1>1, <2>2 DEF DeskOn
    <3>2. \A e \in Desks : DeskOn(e, u)' => e = d
        BY <1>2, <3>1 DEF DeskOn
    <3>3. t.does = "add" => \A i \in DOMAIN rows : rows[i].user # u
        BY <2>2 DEF IsMember, Memberships
    <3>4. OnRow(d)' => desk'[d].id \in DOMAIN rows
        BY <1>2 DEF OnRow
    <3> QED
        BY <1>2, <2>1, <3>2, <3>3, <3>4 DEF Orderly
  <2>3. CASE t.user # u
    <3>1. \A e \in Desks : DeskOn(e, u)' => e # d /\ DeskOn(e, u)
        BY <1>2, <2>3 DEF DeskOn
    <3> QED
        BY <1>2, <2>1, <3>1 DEF Orderly, OnRow
  <2> QED
      BY <2>2, <2>3
<1> QED
    BY <1>3, <1>4, <1>5, <1>6 DEF WorkspaceInv

LEMMA NextWorkspace == WorkspaceInv /\ [WsNext]_wsVars => WorkspaceInv'
<1> SUFFICES ASSUME WorkspaceInv, [WsNext]_wsVars PROVE WorkspaceInv'
    OBVIOUS
<1>0. /\ rows \in [DOMAIN rows -> Membership] /\ desk \in [Desks -> Desking] /\ nextRow \in Nat
      /\ \A i \in DOMAIN rows : i \in Nat /\ i < nextRow
      /\ Owner \in People /\ MaxRows \in Nat
    BY WorkspacesAssumption DEF WorkspaceInv, WsTyped
<1>f. Free \in Desking /\ Free.does = "nothing"
    BY DEF Desking, Free
<1>1. ASSUME NEW d \in Desks, NeedOwnerRow(d) PROVE WorkspaceInv'
  <2>1. PICK t : t = [does |-> "add", user |-> Owner, role |-> "owner"]
      OBVIOUS
  <2>2. t \in Desking /\ t.does = "add" /\ t.user = Owner /\ t.role = "owner"
      BY <1>0, <2>1 DEF Desking, Roles
  <2>3. Takes(d, t) /\ ~ IsMember(Owner) /\ UNCHANGED <<rows, nextRow, left>>
      BY <1>1, <2>1 DEF NeedOwnerRow
  <2> QED
      BY <1>0, <2>2, <2>3, TaskTaken
<1>2. ASSUME NEW d \in Desks, NEW actor \in People, NEW u \in People, Invite(d, actor, u)
      PROVE  WorkspaceInv'
  <2>1. PICK t : t = [does |-> "add", user |-> u, role |-> "member"]
      OBVIOUS
  <2>2. t \in Desking /\ t.does = "add" /\ t.user = u
      BY <2>1 DEF Desking, Roles
  <2>3. Takes(d, t) /\ ~ IsMember(u) /\ DOMAIN rows # {} /\ UNCHANGED <<rows, nextRow, left>>
      BY <1>2, <2>1 DEF Invite, HasRole, Memberships
  <2>4. u # Owner
      BY <2>3 DEF WorkspaceInv, OwnerStays, IsMember, Memberships
  <2> QED
      BY <1>0, <2>2, <2>3, <2>4, TaskTaken
<1>3. ASSUME NEW d \in Desks, NEW actor \in People, NEW i \in RowIds, RemoveMember(d, actor, i)
      PROVE  WorkspaceInv'
  <2>1. i \in DOMAIN rows /\ rows[i] \in Membership /\ rows[i].role # "owner"
      BY <1>0, <1>3 DEF RemoveMember, Removable
  <2>2. PICK t : t = [does |-> "drop", id |-> i, user |-> rows[i].user, role |-> rows[i].role]
      OBVIOUS
  <2>3. t \in Desking /\ t.does = "drop" /\ t.id = i /\ t.user = rows[i].user
      BY <2>1, <2>2 DEF Desking, Membership
  <2>4. Takes(d, t) /\ UNCHANGED <<rows, nextRow, left>>
      BY <1>3, <2>2 DEF RemoveMember
  <2> QED
      BY <1>0, <2>1, <2>3, <2>4, TaskTaken
<1>4. ASSUME NEW d \in Desks, NEW actor \in People, NEW i \in RowIds, NEW role \in Roles,
             ChangeRole(d, actor, i, role)
      PROVE  WorkspaceInv'
  <2>1. i \in DOMAIN rows /\ rows[i] \in Membership /\ rows[i].role # "owner"
      BY <1>0, <1>4 DEF ChangeRole, Removable
  <2>2. PICK t : t = [does |-> "save", id |-> i, user |-> rows[i].user, role |-> role]
      OBVIOUS
  <2>3. t \in Desking /\ t.does = "save" /\ t.id = i /\ t.user = rows[i].user
      BY <2>1, <2>2 DEF Desking, Membership
  <2>4. Takes(d, t) /\ UNCHANGED <<nextRow, left>> /\ rows' = [rows EXCEPT ![i].role = role]
      BY <1>4, <2>2 DEF ChangeRole
  <2>5. rows' = [rows EXCEPT ![i] = [rows[i] EXCEPT !.role = role]]
      BY <1>0, <2>1, <2>4
  <2>6. [rows[i] EXCEPT !.role = role] \in Membership
        /\ [rows[i] EXCEPT !.role = role].user = rows[i].user
      BY <2>1 DEF Membership
  <2>7. /\ rows' \in [DOMAIN rows -> Membership] /\ DOMAIN rows' = DOMAIN rows
        /\ rows'[i].user = rows[i].user /\ \A j \in DOMAIN rows \ {i} : rows'[j] = rows[j]
      BY <1>0, <2>1, <2>5, <2>6
  <2> QED
      BY <1>0, <2>1, <2>3, <2>4, <2>7, TaskTaken
<1>5. ASSUME NEW d \in Desks, AddRow(d) PROVE WorkspaceInv'
  <2>1. PICK u : u = desk[d].user
      OBVIOUS
  <2>2. PICK r : r = [user |-> u, role |-> desk[d].role]
      OBVIOUS
  <2>3. desk[d].does = "add" /\ u \in People /\ r \in Membership /\ r.user = u
        /\ r.role = desk[d].role
      BY <1>0, <1>5, <2>1, <2>2, DeskShape DEF AddRow, Membership
  <2>4. /\ rows' = [i \in DOMAIN rows \cup {nextRow} |-> IF i = nextRow THEN r ELSE rows[i]]
        /\ nextRow' = nextRow + 1 /\ left' = left \ {u} /\ met' = met
        /\ desk' = [desk EXCEPT ![d] = Free]
      BY <1>5, <2>1, <2>2 DEF AddRow
  <2>5. nextRow \notin DOMAIN rows
      BY <1>0
  <2>6. /\ DOMAIN rows' = DOMAIN rows \cup {nextRow} /\ rows'[nextRow] = r
        /\ \A i \in DOMAIN rows : rows'[i] = rows[i]
        /\ desk'[d] = Free /\ \A e \in Desks \ {d} : desk'[e] = desk[e]
      BY <1>0, <2>4, <2>5
  <2>7. WsTyped'
    <3>1. rows' \in [DOMAIN rows' -> Membership]
        BY <1>0, <2>3, <2>4, <2>6
    <3>2. desk' \in [Desks -> Desking]
        BY <1>0, <1>f, <2>4
    <3> QED
        BY <1>0, <2>4, <2>6, <3>1, <3>2 DEF WsTyped
  <2>8. RowsKnown'
    <3>1. \A e \in Desks : OnRow(e)' => e # d /\ OnRow(e) /\ desk'[e] = desk[e]
        BY <1>f, <2>6 DEF OnRow
    <3>2. ASSUME NEW e \in Desks, OnRow(e)
          PROVE  /\ desk[e].id \in Nat /\ desk[e].id < nextRow
                 /\ desk[e].id \in DOMAIN rows => rows[desk[e].id].user = desk[e].user
      <4>1. desk[e].id \in Nat
          BY <1>0, <3>2, DeskShape DEF OnRow, RowIds
      <4> QED
          BY <3>2, <4>1 DEF WorkspaceInv, RowsKnown
    <3>3. \A e \in Desks : OnRow(e) => desk[e].id # nextRow /\ desk[e].id < nextRow + 1
        BY <1>0, <3>2
    <3> QED
        BY <2>4, <2>6, <3>1, <3>2, <3>3 DEF WorkspaceInv, RowsKnown
  <2>9. OwnerStays'
    <3>1. r.user = Owner => r.role = "owner"
        BY <2>1, <2>3 DEF WorkspaceInv, OwnerStays
    <3>2. DOMAIN rows = {} => r.user = Owner
        BY <2>1, <2>3 DEF WorkspaceInv, OwnerStays
    <3>3. \A i \in DOMAIN rows' : rows'[i].user = Owner => rows'[i].role = "owner"
        BY <2>6, <3>1 DEF WorkspaceInv, OwnerStays
    <3>4. \A e \in Desks : desk'[e].does = "add" /\ desk'[e].user = Owner => desk'[e].role = "owner"
        BY <1>f, <2>6 DEF WorkspaceInv, OwnerStays
    <3>5. \A e \in Desks : OnRow(e)' => desk'[e].user # Owner
        BY <1>f, <2>6 DEF WorkspaceInv, OwnerStays, OnRow
    <3>6. \E i \in DOMAIN rows' : rows'[i].user = Owner
      <4>1. CASE DOMAIN rows = {}
          BY <2>6, <3>2, <4>1
      <4>2. CASE DOMAIN rows # {}
        <5>1. PICK i \in DOMAIN rows : rows[i].user = Owner
            BY <4>2 DEF WorkspaceInv, OwnerStays
        <5> QED
            BY <2>6, <5>1
      <4> QED
          BY <4>1, <4>2
    <3> QED
        BY <2>6, <3>3, <3>4, <3>5, <3>6 DEF OwnerStays
  <2>10. ASSUME NEW v \in People \ met' PROVE Orderly(v)'
    <3>1. Orderly(v)
        BY <2>4, <2>10 DEF WorkspaceInv
    <3>2. \A e \in Desks : DeskOn(e, v)' => e # d /\ DeskOn(e, v) /\ desk'[e] = desk[e]
        BY <1>f, <2>6 DEF DeskOn
    <3>3. CASE v = u
      <4>1. DeskOn(d, v) /\ \A i \in DOMAIN rows : rows[i].user # v
          BY <2>1, <2>3, <3>1, <3>3 DEF Orderly, DeskOn
      <4>2. \A e \in Desks : ~ DeskOn(e, v)'
          BY <3>1, <3>2, <4>1 DEF Orderly
      <4> QED
          BY <2>4, <2>6, <3>3, <4>1, <4>2 DEF Orderly
    <3>4. CASE v # u
        BY <2>3, <2>4, <2>6, <3>1, <3>2, <3>4 DEF Orderly, OnRow
    <3> QED
        BY <3>3, <3>4
  <2> QED
      BY <2>7, <2>8, <2>9, <2>10 DEF WorkspaceInv
<1>6. ASSUME NEW d \in Desks, SaveRow(d) PROVE WorkspaceInv'
  <2>1. PICK h : h = desk[d].id
      OBVIOUS
  <2>2. PICK r : r = [user |-> desk[d].user, role |-> desk[d].role]
      OBVIOUS
  <2>3. /\ desk[d].does = "save" /\ OnRow(d) /\ desk[d].id = h /\ h \in Nat
        /\ r \in Membership /\ r.user = desk[d].user
      BY <1>0, <1>6, <2>1, <2>2, DeskShape DEF SaveRow, OnRow, Membership, RowIds
  <2>4. /\ rows' = [j \in DOMAIN rows \cup {h} |->
                      IF j = h /\ h \notin DOMAIN rows THEN r ELSE rows[j]]
        /\ nextRow' = nextRow /\ left' = left /\ met' = met
        /\ desk' = [desk EXCEPT ![d] = Free]
      BY <1>6, <2>1, <2>2 DEF SaveRow
  <2>5. /\ h < nextRow
        /\ h \in DOMAIN rows => rows[h].user = r.user
        /\ r.user # Owner /\ DOMAIN rows # {}
      BY <2>3 DEF WorkspaceInv, RowsKnown, OwnerStays
  <2>6. /\ DOMAIN rows' = DOMAIN rows \cup {h}
        /\ h \notin DOMAIN rows => rows'[h] = r
        /\ \A i \in DOMAIN rows : rows'[i] = rows[i]
        /\ desk'[d] = Free /\ \A e \in Desks \ {d} : desk'[e] = desk[e]
      BY <1>0, <2>4
  <2>f. rows'[h].user = r.user
      BY <2>5, <2>6
  <2>7. WsTyped'
    <3>1. rows' \in [DOMAIN rows' -> Membership]
        BY <1>0, <2>3, <2>4, <2>6
    <3>2. desk' \in [Desks -> Desking]
        BY <1>0, <1>f, <2>4
    <3> QED
        BY <1>0, <2>3, <2>4, <2>5, <2>6, <3>1, <3>2 DEF WsTyped
  <2>8. RowsKnown'
    <3>1. \A e \in Desks : OnRow(e)' => e # d /\ OnRow(e) /\ desk'[e] = desk[e]
        BY <1>f, <2>6 DEF OnRow
    <3>2. \A e \in Desks : OnRow(e) /\ desk[e].id = h => desk[e].user = r.user
        BY <2>3 DEF WorkspaceInv, RowsKnown
    <3> QED
        BY <2>4, <2>6, <2>f, <3>1, <3>2 DEF WorkspaceInv, RowsKnown
  <2>9. OwnerStays'
    <3>1. \A i \in DOMAIN rows' : rows'[i].user = Owner => rows'[i].role = "owner"
        BY <2>5, <2>6 DEF WorkspaceInv, OwnerStays
    <3>2. \A e \in Desks : desk'[e].does = "add" /\ desk'[e].user = Owner => desk'[e].role = "owner"
        BY <1>f, <2>6 DEF WorkspaceInv, OwnerStays
    <3>3. \A e \in Desks : OnRow(e)' => desk'[e].user # Owner
        BY <1>f, <2>6 DEF WorkspaceInv, OwnerStays, OnRow
    <3>4. PICK i \in DOMAIN rows : rows[i].user = Owner
        BY <2>5 DEF WorkspaceInv, OwnerStays
    <3>5. i \in DOMAIN rows' /\ rows'[i].user = Owner
        BY <2>6, <3>4
    <3> QED
        BY <3>1, <3>2, <3>3, <3>5 DEF OwnerStays
  <2>10. ASSUME NEW v \in People \ met' PROVE Orderly(v)'
    <3>1. Orderly(v)
        BY <2>4, <2>10 DEF WorkspaceInv
    <3>2. \A e \in Desks : DeskOn(e, v)' => e # d /\ DeskOn(e, v) /\ desk'[e] = desk[e]
        BY <1>f, <2>6 DEF DeskOn
    <3>3. v = r.user => h \in DOMAIN rows
        BY <2>3, <3>1 DEF Orderly, DeskOn
    <3>4. \A i \in DOMAIN rows' : rows'[i].user = v => i \in DOMAIN rows /\ rows[i].user = v
        BY <2>6, <2>f, <3>3
    <3>5. \A e \in Desks : DeskOn(e, v)' /\ OnRow(e)' => desk'[e].id \in DOMAIN rows'
        BY <2>6, <3>1, <3>2 DEF Orderly, OnRow
    <3>6. \A i, j \in DOMAIN rows' : rows'[i].user = v /\ rows'[j].user = v => i = j
        BY <3>1, <3>4 DEF Orderly
    <3>7. \A e \in Desks : DeskOn(e, v)' /\ desk'[e].does = "add" =>
              \A i \in DOMAIN rows' : rows'[i].user # v
        BY <3>1, <3>2, <3>4 DEF Orderly
    <3>8. v \in left' => \A i \in DOMAIN rows' : rows'[i].user # v
        BY <2>4, <3>1, <3>4 DEF Orderly
    <3>9. \A e, f \in Desks : DeskOn(e, v)' /\ DeskOn(f, v)' => e = f
        BY <3>1, <3>2 DEF Orderly
    <3> QED
        BY <3>5, <3>6, <3>7, <3>8, <3>9 DEF Orderly
  <2> QED
      BY <2>7, <2>8, <2>9, <2>10 DEF WorkspaceInv
<1>7. ASSUME NEW d \in Desks, DropMember(d) PROVE WorkspaceInv'
  <2>1. PICK h : h = desk[d].id
      OBVIOUS
  <2>2. PICK u : u = desk[d].user
      OBVIOUS
  <2>3. /\ desk[d].does = "drop" /\ OnRow(d) /\ desk[d].id = h /\ DeskOn(d, u)
        /\ desk[d].user = u
      BY <1>7, <2>1, <2>2 DEF DropMember, OnRow, DeskOn
  <2>4. /\ rows' = [j \in DOMAIN rows \ {h} |-> rows[j]]
        /\ nextRow' = nextRow /\ left' = left \cup {u} /\ met' = met
        /\ desk' = [desk EXCEPT ![d] = Free]
      BY <1>7, <2>1, <2>2 DEF DropMember
  <2>5. h \in DOMAIN rows => rows[h].user = u /\ u # Owner
      BY <2>3 DEF WorkspaceInv, RowsKnown, OwnerStays
  <2>6. /\ DOMAIN rows' = DOMAIN rows \ {h}
        /\ \A i \in DOMAIN rows' : i \in DOMAIN rows /\ rows'[i] = rows[i]
        /\ desk'[d] = Free /\ \A e \in Desks \ {d} : desk'[e] = desk[e]
      BY <1>0, <2>4
  <2>7. WsTyped'
    <3>1. rows' \in [DOMAIN rows' -> Membership]
        BY <1>0, <2>4, <2>6
    <3>2. desk' \in [Desks -> Desking]
        BY <1>0, <1>f, <2>4
    <3> QED
        BY <1>0, <2>4, <2>6, <3>1, <3>2 DEF WsTyped
  <2>e. \A e \in Desks : OnRow(e)' => e # d /\ OnRow(e) /\ desk'[e] = desk[e]
      BY <1>f, <2>6 DEF OnRow
  <2>8. RowsKnown'
      BY <2>4, <2>6, <2>e DEF WorkspaceInv, RowsKnown
  <2>9. OwnerStays'
    <3>1. \A i \in DOMAIN rows' : rows'[i].user = Owner => rows'[i].role = "owner"
        BY <2>6 DEF WorkspaceInv, OwnerStays
    <3>2. \A e \in Desks : desk'[e].does = "add" /\ desk'[e].user = Owner => desk'[e].role = "owner"
        BY <1>f, <2>6 DEF WorkspaceInv, OwnerStays
    <3>3. \A e \in Desks : OnRow(e)' => desk'[e].user # Owner
        BY <2>e DEF WorkspaceInv, OwnerStays
    <3>4. DOMAIN rows # {}
        BY <2>3 DEF WorkspaceInv, OwnerStays
    <3>5. PICK i \in DOMAIN rows : rows[i].user = Owner
        BY <3>4 DEF WorkspaceInv, OwnerStays
    <3>6. i \in DOMAIN rows' /\ rows'[i].user = Owner
        BY <2>4, <2>5, <2>6, <3>5
    <3> QED
        BY <3>1, <3>2, <3>3, <3>6 DEF OwnerStays
  <2>10. ASSUME NEW v \in People \ met' PROVE Orderly(v)'
    <3>1. Orderly(v)
        BY <2>4, <2>10 DEF WorkspaceInv
    <3>2. \A e \in Desks : DeskOn(e, v)' => e # d /\ DeskOn(e, v) /\ desk'[e] = desk[e]
        BY <1>f, <2>6 DEF DeskOn
    <3>3. CASE v = u
      <4>1. \A e \in Desks : ~ DeskOn(e, v)'
          BY <2>3, <3>1, <3>2, <3>3 DEF Orderly
      <4>2. h \in DOMAIN rows
          BY <2>3, <3>1, <3>3 DEF Orderly
      <4>3. \A i \in DOMAIN rows' : rows'[i].user # v
          BY <2>5, <2>6, <3>1, <3>3, <4>2 DEF Orderly
      <4> QED
          BY <4>1, <4>3 DEF Orderly
    <3>4. CASE v # u
      <4>1. \A e \in Desks : DeskOn(e, v) /\ OnRow(e) => desk[e].id # h
          BY <2>3, <3>4 DEF WorkspaceInv, RowsKnown, DeskOn
      <4>2. \A e \in Desks : DeskOn(e, v)' /\ OnRow(e)' => desk'[e].id \in DOMAIN rows'
          BY <2>6, <2>e, <3>1, <3>2, <4>1 DEF Orderly
      <4>3. v \in left' => v \in left
          BY <2>4, <3>4
      <4> QED
          BY <2>6, <3>1, <3>2, <4>2, <4>3 DEF Orderly
    <3> QED
        BY <3>3, <3>4
  <2> QED
      BY <2>7, <2>8, <2>9, <2>10 DEF WorkspaceInv
<1>8. ASSUME UNCHANGED <<rows, nextRow, desk, left, met>> PROVE WorkspaceInv'
    BY <1>8 DEF WorkspaceInv, WsTyped, RowsKnown, OwnerStays, Orderly, OnRow, DeskOn
<1>9. \A u \in People : Activate(u) => UNCHANGED <<rows, nextRow, desk, left, met>>
    BY DEF Activate
<1>10. UNCHANGED wsVars => UNCHANGED <<rows, nextRow, desk, left, met>>
    BY DEF wsVars
<1> QED
    BY <1>1, <1>2, <1>3, <1>4, <1>5, <1>6, <1>7, <1>8, <1>9, <1>10 DEF WsNext

\* The owner is one, nobody is twice, and whoever was removed sees only their own.
LEMMA WorkspaceKeeps == WorkspaceInv => MembershipHolds
<1> SUFFICES ASSUME WorkspaceInv PROVE MembershipHolds
    OBVIOUS
<1>1. \A u \in left \ met : EffectiveUser(u) = u
  <2>1. TAKE u \in left \ met
  <2>2. CASE u \in People
      BY <2>1, <2>2 DEF WorkspaceInv, Orderly, EffectiveUser, IsMember, Memberships
  <2>3. CASE u \notin People
      BY <2>1, <2>3 DEF WorkspaceInv, WsTyped, Membership, EffectiveUser, IsMember, Memberships
  <2> QED
      BY <2>2, <2>3
<1>2. ASSUME NEW u \in People \ met PROVE Cardinality(Memberships(u)) <= 1
  <2>1. \A i, j \in Memberships(u) : i = j
      BY DEF WorkspaceInv, Orderly, Memberships
  <2>2. CASE Memberships(u) = {}
      BY <2>2, FS_EmptySet
  <2>3. CASE Memberships(u) # {}
    <3>1. PICK i : i \in Memberships(u)
        BY <2>3
    <3>2. Memberships(u) = {i}
        BY <2>1, <3>1
    <3> QED
        BY <3>2, FS_Singleton
  <2> QED
      BY <2>2, <2>3
<1>3. DOMAIN rows # {} => HasRole(Owner, {"owner"})
    BY DEF WorkspaceInv, OwnerStays, HasRole, Memberships
<1> QED
    BY <1>1, <1>2, <1>3 DEF MembershipHolds
-----------------------------------------------------------------------------
(* SignUp *)

AccountRow == [email : Addresses, admin : BOOLEAN, maker : {0} \cup Identities]
AtWork     == {NoClerk} \cup [at : {"register"}, email : Addresses, first : BOOLEAN]
                        \cup [at : {"link", "email", "create"}, claim : Claims, browser : Browsers]
                        \cup [at : {"join"}, claim : Claims, browser : Browsers, account : Nat]

SuTyped ==
    /\ roster \in Seq(AccountRow) /\ linked \in [Identities -> Nat]
    /\ clerkAt \in [Attending -> AtWork] /\ begun \in Seq(Browsers)
    /\ tabs \subseteq [browser : Browsers, login : Nat, claim : Claims]

\* The lock is one registration's, and while the first of all runs nobody else
\* makes an administrator.
FirstAlone ==
    /\ \A t \in Attending : clerkAt[t].at = "register" =>
          /\ bootLock
          /\ \A u \in Attending : clerkAt[u].at = "register" => u = t
          /\ clerkAt[t].first => \A i \in DOMAIN roster : ~ roster[i].admin
    /\ OneFirstAdmin

\* An account an identity may come into.
Trusted(who, i) ==
    /\ i \in DOMAIN roster
    /\ (roster[i].maker = who) \/ (<<who, roster[i].email>> \in vouched)

\* Whatever is linked, or about to be, is trusted; sessions follow the links,
\* which are never changed.
LinksTrusted ==
    /\ \A t \in Attending : clerkAt[t].at \in {"link", "email", "create"} /\ clerkAt[t].claim.sure =>
          <<clerkAt[t].claim.who, clerkAt[t].claim.email>> \in vouched
    /\ \A t \in Attending : clerkAt[t].at = "join" =>
          Trusted(clerkAt[t].claim.who, clerkAt[t].account)
    /\ \A w \in Identities : linked[w] # 0 => Trusted(w, linked[w])
    /\ \A s \in landed : s[1] \in Identities /\ linked[s[1]] = s[2] /\ s[2] # 0

SignUpInv == SuTyped /\ FirstAlone /\ LinksTrusted

LEMMA WorkShape ==
    ASSUME NEW d \in AtWork
    PROVE  /\ d.at \in {"none", "register", "link", "email", "create", "join"}
           /\ d.at = "register" => d.email \in Addresses /\ d.first \in BOOLEAN
           /\ d.at \in {"link", "email", "create", "join"} =>
                  /\ d.claim \in Claims /\ d.browser \in Browsers
                  /\ d.claim.who \in Identities /\ d.claim.email \in Addresses
           /\ d.at = "join" => d.account \in Nat
<1>1. \A c \in Claims : c.who \in Identities /\ c.email \in Addresses
    BY SignUpAssumption DEF Identities
<1>2. CASE d = NoClerk
    BY <1>2 DEF NoClerk
<1>3. CASE d \in [at : {"register"}, email : Addresses, first : BOOLEAN]
    BY <1>3
<1>4. CASE d \in [at : {"link", "email", "create"}, claim : Claims, browser : Browsers]
    BY <1>1, <1>4
<1>5. CASE d \in [at : {"join"}, claim : Claims, browser : Browsers, account : Nat]
    BY <1>1, <1>5
<1> QED
    BY <1>2, <1>3, <1>4, <1>5 DEF AtWork

LEMMA InitSignUp == SuInit => SignUpInv
<1> SUFFICES ASSUME SuInit PROVE SignUpInv
    OBVIOUS
<1>1. roster = <<>> /\ DOMAIN roster = {} /\ landed = {} /\ linked = [i \in Identities |-> 0]
    BY DEF SuInit
<1>2. \A t \in Attending : clerkAt[t].at = "none"
    BY DEF SuInit, NoClerk
<1>3. SuTyped
  <2>1. clerkAt \in [Attending -> AtWork]
      BY DEF SuInit, AtWork
  <2> QED
      BY <1>1, <2>1 DEF SuInit, SuTyped
<1> QED
    BY <1>1, <1>2, <1>3 DEF SignUpInv, FirstAlone, LinksTrusted, OneFirstAdmin

\* What is trusted stays so: accounts keep their address and their maker.
LEMMA TrustStays ==
    ASSUME DOMAIN roster \subseteq DOMAIN roster', vouched \subseteq vouched',
           \A i \in DOMAIN roster : /\ roster'[i].email = roster[i].email
                                    /\ roster'[i].maker = roster[i].maker,
           NEW w, NEW i, Trusted(w, i)
    PROVE  Trusted(w, i)'
BY DEF Trusted

\* A thread moves on and the users, the links and the sessions are left alone.
LEMMA ClerkMoves ==
    ASSUME SignUpInv, NEW t \in Attending, NEW d \in AtWork, Moves(t, d),
           UNCHANGED <<roster, linked, begun, landed>>,
           tabs' \subseteq tabs, vouched \subseteq vouched',
           (d.at # "register" /\ (clerkAt[t].at = "register" \/ bootLock' = bootLock))
              \/ (~ bootLock /\ bootLock' /\ (d.first => roster = <<>>)),
           d.at \in {"link", "email", "create"} /\ d.claim.sure =>
              <<d.claim.who, d.claim.email>> \in vouched',
           d.at = "join" => Trusted(d.claim.who, d.account)
    PROVE  SignUpInv'
<1>0. /\ clerkAt \in [Attending -> AtWork] /\ roster \in Seq(AccountRow)
    BY DEF SignUpInv, SuTyped
<1>1. clerkAt'[t] = d /\ \A u \in Attending \ {t} : clerkAt'[u] = clerkAt[u]
    BY <1>0 DEF Moves
<1>2. SuTyped'
  <2>1. clerkAt' \in [Attending -> AtWork]
      BY <1>0 DEF Moves
  <2> QED
      BY <2>1 DEF SignUpInv, SuTyped
<1>3. FirstAlone'
  <2>1. CASE d.at # "register" /\ (clerkAt[t].at = "register" \/ bootLock' = bootLock)
    <3>1. \A u \in Attending : clerkAt'[u].at = "register" =>
              u # t /\ clerkAt[u].at = "register" /\ clerkAt'[u] = clerkAt[u]
        BY <1>1, <2>1
    <3>2. ASSUME NEW u \in Attending, clerkAt'[u].at = "register" PROVE bootLock' = bootLock
        BY <2>1, <3>1, <3>2 DEF SignUpInv, FirstAlone
    <3> QED
        BY <3>1, <3>2 DEF SignUpInv, FirstAlone, OneFirstAdmin
  <2>2. CASE ~ bootLock /\ bootLock' /\ (d.first => roster = <<>>)
    <3>1. \A u \in Attending : clerkAt'[u].at = "register" => u = t
        BY <1>1, <2>2 DEF SignUpInv, FirstAlone
    <3>2. d.first => DOMAIN roster = {}
        BY <2>2
    <3> QED
        BY <1>1, <2>2, <3>1, <3>2 DEF SignUpInv, FirstAlone, OneFirstAdmin
  <2> QED
      BY <2>1, <2>2
<1>4. LinksTrusted'
  <2>1. \A u \in Attending : clerkAt'[u].at \in {"link", "email", "create"} /\ clerkAt'[u].claim.sure =>
            <<clerkAt'[u].claim.who, clerkAt'[u].claim.email>> \in vouched'
      BY <1>1 DEF SignUpInv, LinksTrusted
  <2>2. \A u \in Attending : clerkAt'[u].at = "join" =>
            Trusted(clerkAt'[u].claim.who, clerkAt'[u].account)
      BY <1>1 DEF SignUpInv, LinksTrusted
  <2>3. \A w, i : Trusted(w, i) => Trusted(w, i)'
      BY TrustStays
  <2>4. \A w \in Identities : linked'[w] # 0 => Trusted(w, linked'[w])
      BY DEF SignUpInv, LinksTrusted
  <2> QED
      BY <2>1, <2>2, <2>3, <2>4 DEF SignUpInv, LinksTrusted
<1> QED
    BY <1>2, <1>3, <1>4 DEF SignUpInv

LEMMA NextSignUp == SignUpInv /\ [SuNext]_suVars => SignUpInv'
<1> SUFFICES ASSUME SignUpInv, [SuNext]_suVars PROVE SignUpInv'
    OBVIOUS
<1>0. /\ roster \in Seq(AccountRow) /\ linked \in [Identities -> Nat] /\ begun \in Seq(Browsers)
      /\ clerkAt \in [Attending -> AtWork]
      /\ tabs \subseteq [browser : Browsers, login : Nat, claim : Claims]
    BY DEF SignUpInv, SuTyped
<1>n. NoClerk \in AtWork /\ NoClerk.at = "none"
    BY DEF AtWork, NoClerk
<1>1. ASSUME NEW t \in Attending, NEW e \in Addresses, BeginRegister(t, e) PROVE SignUpInv'
  <2>1. PICK d : d = [at |-> "register", email |-> e, first |-> roster = <<>>]
      OBVIOUS
  <2>2. d \in AtWork /\ d.at = "register" /\ (d.first => roster = <<>>)
      BY <2>1 DEF AtWork
  <2>3. /\ Moves(t, d) /\ ~ bootLock /\ bootLock'
        /\ UNCHANGED <<roster, linked, begun, tabs, landed, vouched>>
      BY <1>1, <2>1 DEF BeginRegister, MayRegister
  <2> QED
      BY <2>2, <2>3, ClerkMoves
<1>2. ASSUME NEW t \in Attending, EndRegister(t) PROVE SignUpInv'
  <2>1. /\ clerkAt[t].at = "register" /\ Moves(t, NoClerk)
        /\ UNCHANGED <<linked, begun, tabs, landed, vouched>>
      BY <1>2 DEF EndRegister, Abandons
  <2>2. CASE UNCHANGED roster
      BY <1>n, <2>1, <2>2, ClerkMoves
  <2>3. CASE roster' = Append(roster, Account(clerkAt[t].email, clerkAt[t].first, 0))
    <3>1. PICK a : a = Account(clerkAt[t].email, clerkAt[t].first, 0)
        OBVIOUS
    <3>2. a \in AccountRow /\ (a.admin <=> clerkAt[t].first)
        BY <1>0, <2>1, <3>1, WorkShape DEF Account, AccountRow
    <3>3. /\ roster' \in Seq(AccountRow) /\ DOMAIN roster' = DOMAIN roster \cup {Len(roster) + 1}
          /\ roster'[Len(roster) + 1] = a /\ \A i \in DOMAIN roster : roster'[i] = roster[i]
        BY <1>0, <2>3, <3>1, <3>2
    <3>4. clerkAt'[t].at = "none" /\ \A u \in Attending \ {t} : clerkAt'[u] = clerkAt[u]
        BY <1>0, <1>n, <2>1 DEF Moves
    <3>5. SuTyped'
      <4>1. clerkAt' \in [Attending -> AtWork]
          BY <1>0, <1>n, <2>1 DEF Moves
      <4> QED
          BY <1>0, <2>1, <3>3, <4>1 DEF SuTyped
    <3>6. FirstAlone'
      <4>1. \A u \in Attending : clerkAt'[u].at # "register"
          BY <2>1, <3>4 DEF SignUpInv, FirstAlone
      <4>2. a.admin => \A i \in DOMAIN roster : ~ roster[i].admin
          BY <2>1, <3>2 DEF SignUpInv, FirstAlone
      <4>3. OneFirstAdmin'
          BY <3>3, <4>2 DEF SignUpInv, FirstAlone, OneFirstAdmin
      <4> QED
          BY <4>1, <4>3 DEF FirstAlone
    <3>7. LinksTrusted'
      <4>1. \A w, i : Trusted(w, i) => Trusted(w, i)'
          BY <2>1, <3>3, TrustStays
      <4> QED
          BY <2>1, <3>4, <4>1 DEF SignUpInv, LinksTrusted
    <3> QED
        BY <3>5, <3>6, <3>7 DEF SignUpInv
  <2> QED
      BY <1>2, <2>2, <2>3 DEF EndRegister
<1>3. ASSUME NEW b \in Browsers, OpenLogin(b) PROVE SignUpInv'
  <2>1. UNCHANGED <<roster, linked, bootLock, tabs, clerkAt, landed, vouched>>
        /\ begun' \in Seq(Browsers)
      BY <1>0, <1>3 DEF OpenLogin
  <2> QED
      BY <2>1 DEF SignUpInv, SuTyped, FirstAlone, LinksTrusted, Trusted, OneFirstAdmin
<1>4. ASSUME NEW n \in 1..MaxLogins, NEW c \in Claims, IdpAnswers(n, c) PROVE SignUpInv'
  <2>1. UNCHANGED <<roster, linked, bootLock, begun, clerkAt, landed, vouched>>
      BY <1>4 DEF IdpAnswers
  <2>2. tabs' \subseteq [browser : Browsers, login : Nat, claim : Claims]
    <3>1. begun[n] \in Browsers /\ n \in Nat
        BY <1>0, <1>4, SignUpAssumption DEF IdpAnswers
    <3> QED
        BY <1>0, <1>4, <3>1 DEF IdpAnswers
  <2> QED
      BY <2>1, <2>2 DEF SignUpInv, SuTyped, FirstAlone, LinksTrusted, Trusted, OneFirstAdmin
<1>5. ASSUME NEW b \in Browsers, CookieExpires(b) PROVE SignUpInv'
    BY <1>5 DEF CookieExpires, SignUpInv, SuTyped, FirstAlone, LinksTrusted, Trusted, OneFirstAdmin
<1>6. ASSUME NEW t \in Attending, NEW x \in tabs, Callback(t, x) PROVE SignUpInv'
  <2>1. PICK token \in {{}, {x.claim}} :
            /\ Moves(t, IF token = {} THEN NoClerk
                        ELSE [at |-> "link", claim |-> x.claim, browser |-> x.browser])
            /\ vouched' = vouched \cup {<<c.who, c.email>> : c \in {c \in token : c.sure}}
      BY <1>6 DEF Callback, TokenOf
  <2>2. /\ UNCHANGED <<roster, linked, bootLock, begun, landed>> /\ tabs' \subseteq tabs
        /\ clerkAt[t] = NoClerk
      BY <1>6 DEF Callback
  <2>3. CASE token = {}
      BY <1>n, <2>1, <2>2, <2>3, ClerkMoves
  <2>4. CASE token # {}
    <3>1. PICK d : d = [at |-> "link", claim |-> x.claim, browser |-> x.browser]
        OBVIOUS
    <3>2. d \in AtWork /\ d.at = "link" /\ d.claim = x.claim
        BY <1>0, <3>1 DEF AtWork
    <3>3. token = {x.claim} /\ Moves(t, d)
        BY <2>1, <2>4, <3>1
    <3>4. x.claim.sure => <<x.claim.who, x.claim.email>> \in vouched'
        BY <2>1, <3>3
    <3> QED
        BY <2>1, <2>2, <3>2, <3>3, <3>4, ClerkMoves
  <2> QED
      BY <2>3, <2>4
<1>l. ASSUME NEW t \in Attending, NEW i, Lands(t, i), clerkAt[t].at \in {"link", "join"},
             linked[clerkAt[t].claim.who] \in {0, i}, i # 0,
             Trusted(clerkAt[t].claim.who, i), i \in Nat,
             linked' = [linked EXCEPT ![clerkAt[t].claim.who] = i],
             UNCHANGED <<roster, bootLock, begun, tabs, vouched>>
      PROVE  SignUpInv'
  <2>1. PICK w : w = clerkAt[t].claim.who
      OBVIOUS
  <2>2. w \in Identities /\ linked[w] \in {0, i} /\ Trusted(w, i)
      BY <1>0, <1>l, <2>1, WorkShape
  <2>3. /\ linked' \in [Identities -> Nat] /\ linked'[w] = i
        /\ \A v \in Identities \ {w} : linked'[v] = linked[v]
      BY <1>0, <1>l, <2>1, <2>2
  <2>4. /\ landed' = landed \cup {<<w, i>>} /\ clerkAt' = [clerkAt EXCEPT ![t] = NoClerk]
      BY <1>l, <2>1 DEF Lands, Abandons, Moves
  <2>5. clerkAt'[t].at = "none" /\ \A u \in Attending \ {t} : clerkAt'[u] = clerkAt[u]
      BY <1>0, <1>n, <2>4
  <2>6. SuTyped'
    <3>1. clerkAt' \in [Attending -> AtWork]
        BY <1>0, <1>n, <2>4
    <3> QED
        BY <1>0, <1>l, <2>3, <3>1 DEF SuTyped
  <2>7. FirstAlone'
    <3>1. OneFirstAdmin'
        BY <1>l DEF SignUpInv, FirstAlone, OneFirstAdmin
    <3>2. \A u \in Attending : clerkAt'[u].at = "register" => u # t /\ clerkAt'[u] = clerkAt[u]
        BY <2>5
    <3> QED
        BY <1>l, <3>1, <3>2 DEF SignUpInv, FirstAlone
  <2>8. LinksTrusted'
    <3>1. \A v, j : Trusted(v, j) => Trusted(v, j)'
        BY <1>l DEF Trusted
    <3>2. \A v \in Identities : linked'[v] # 0 => Trusted(v, linked'[v])
        BY <2>2, <2>3 DEF SignUpInv, LinksTrusted
    <3>3. \A s \in landed' : s[1] \in Identities /\ linked'[s[1]] = s[2] /\ s[2] # 0
        BY <1>l, <2>2, <2>3, <2>4 DEF SignUpInv, LinksTrusted
    <3>4. \A u \in Attending : clerkAt'[u].at # "none" => u # t /\ clerkAt'[u] = clerkAt[u]
        BY <2>5
    <3> QED
        BY <1>l, <3>1, <3>2, <3>3, <3>4 DEF SignUpInv, LinksTrusted
  <2> QED
      BY <2>6, <2>7, <2>8 DEF SignUpInv
<1>7. ASSUME NEW t \in Attending, FindLink(t) PROVE SignUpInv'
  <2>1. PICK w : w = clerkAt[t].claim.who
      OBVIOUS
  <2>2. /\ clerkAt[t].at = "link" /\ w \in Identities
        /\ UNCHANGED <<roster, linked, bootLock, begun, tabs, vouched>>
      BY <1>0, <1>7, <2>1, WorkShape DEF FindLink
  <2>3. CASE linked[w] # 0
    <3>1. Lands(t, linked[w]) /\ Trusted(w, linked[w])
        BY <1>7, <2>1, <2>2, <2>3 DEF FindLink, SignUpInv, LinksTrusted
    <3>2. linked' = [linked EXCEPT ![w] = linked[w]] /\ linked[w] \in Nat
        BY <1>0, <2>2
    <3> QED
        BY <1>l, <2>1, <2>2, <2>3, <3>1, <3>2
  <2>4. CASE linked[w] = 0
    <3>1. PICK d : d = [clerkAt[t] EXCEPT !.at = "email"]
        OBVIOUS
    <3>2. clerkAt[t] \in [at : {"link"}, claim : Claims, browser : Browsers]
        BY <1>0, <2>2 DEF AtWork, NoClerk
    <3>3. d \in AtWork /\ d.at = "email" /\ d.claim = clerkAt[t].claim
        BY <3>1, <3>2 DEF AtWork
    <3>4. Moves(t, d) /\ UNCHANGED landed
        BY <1>7, <2>1, <2>4, <3>1 DEF FindLink
    <3>5. d.claim.sure => <<d.claim.who, d.claim.email>> \in vouched
        BY <2>2, <3>3 DEF SignUpInv, LinksTrusted
    <3> QED
        BY <2>2, <3>3, <3>4, <3>5, ClerkMoves
  <2> QED
      BY <2>3, <2>4
<1>8. ASSUME NEW t \in Attending, FindEmail(t) PROVE SignUpInv'
  <2>1. PICK c : c = clerkAt[t].claim
      OBVIOUS
  <2>2. /\ clerkAt[t].at = "email" /\ c \in Claims /\ clerkAt[t].browser \in Browsers
        /\ clerkAt[t] \in [at : {"email"}, claim : Claims, browser : Browsers]
        /\ UNCHANGED <<roster, linked, bootLock, begun, tabs, landed, vouched>>
    <3>1. clerkAt[t].at = "email" /\ clerkAt[t] \in AtWork
        BY <1>0, <1>8 DEF FindEmail
    <3>2. clerkAt[t] \in [at : {"email"}, claim : Claims, browser : Browsers]
        BY <3>1 DEF AtWork, NoClerk
    <3> QED
        BY <1>8, <2>1, <3>1, <3>2, WorkShape DEF FindEmail
  <2>3. c.sure => <<c.who, c.email>> \in vouched
      BY <2>1, <2>2 DEF SignUpInv, LinksTrusted
  <2>4. CASE ~ Registered(c.email)
    <3>1. PICK d : d = [clerkAt[t] EXCEPT !.at = "create"]
        OBVIOUS
    <3>2. d \in AtWork /\ d.at = "create" /\ d.claim = c
        BY <2>1, <2>2, <3>1 DEF AtWork
    <3>3. Moves(t, d)
        BY <1>8, <2>1, <2>4, <3>1 DEF FindEmail
    <3> QED
        BY <2>2, <2>3, <3>2, <3>3, ClerkMoves
  <2>5. CASE Registered(c.email) /\ ~ MayJoin(c)
    <3>1. Moves(t, NoClerk)
        BY <1>8, <2>1, <2>5 DEF FindEmail, Abandons
    <3> QED
        BY <1>n, <2>2, <3>1, ClerkMoves
  <2>6. CASE Registered(c.email) /\ MayJoin(c)
    <3>1. PICK i \in DOMAIN roster :
              /\ roster[i].email = c.email
              /\ Moves(t, [at |-> "join", claim |-> c, browser |-> clerkAt[t].browser,
                           account |-> i])
        BY <1>8, <2>1, <2>6 DEF FindEmail
    <3>2. PICK d : d = [at |-> "join", claim |-> c, browser |-> clerkAt[t].browser, account |-> i]
        OBVIOUS
    <3>3. i \in Nat
        BY <1>0, <3>1
    <3>4. d \in AtWork /\ d.at = "join" /\ d.claim = c /\ d.account = i /\ Moves(t, d)
        BY <2>2, <3>1, <3>2, <3>3 DEF AtWork
    <3>5. Trusted(c.who, i)
        BY <2>3, <2>6, <3>1 DEF Trusted, MayJoin
    <3> QED
        BY <2>2, <3>4, <3>5, ClerkMoves
  <2> QED
      BY <2>4, <2>5, <2>6
<1>9. ASSUME NEW t \in Attending, CreateSso(t) PROVE SignUpInv'
  <2>1. PICK c : c = clerkAt[t].claim
      OBVIOUS
  <2>2. /\ clerkAt[t].at = "create" /\ c \in Claims /\ clerkAt[t].browser \in Browsers
        /\ c.who \in Identities /\ c.email \in Addresses
        /\ UNCHANGED <<linked, bootLock, begun, tabs, landed, vouched>>
      BY <1>0, <1>9, <2>1, WorkShape DEF CreateSso
  <2>3. CASE Registered(c.email)
    <3>1. Moves(t, NoClerk) /\ UNCHANGED roster
        BY <1>9, <2>1, <2>3 DEF CreateSso, Abandons
    <3> QED
        BY <1>n, <2>2, <3>1, ClerkMoves
  <2>4. CASE ~ Registered(c.email)
    <3>1. PICK a : a = Account(c.email, FALSE, c.who)
        OBVIOUS
    <3>2. PICK d : d = [at |-> "join", claim |-> c, browser |-> clerkAt[t].browser,
                        account |-> Len(roster) + 1]
        OBVIOUS
    <3>3. a \in AccountRow /\ ~ a.admin /\ a.maker = c.who
        BY <2>2, <3>1 DEF Account, AccountRow
    <3>4. d \in AtWork /\ d.at = "join" /\ d.claim = c /\ d.account = Len(roster) + 1
        BY <1>0, <2>2, <3>2 DEF AtWork
    <3>5. roster' = Append(roster, a) /\ clerkAt' = [clerkAt EXCEPT ![t] = d]
        BY <1>9, <2>1, <2>4, <3>1, <3>2 DEF CreateSso, Moves
    <3>6. /\ roster' \in Seq(AccountRow) /\ DOMAIN roster' = DOMAIN roster \cup {Len(roster) + 1}
          /\ roster'[Len(roster) + 1] = a /\ \A i \in DOMAIN roster : roster'[i] = roster[i]
        BY <1>0, <3>3, <3>5
    <3>7. clerkAt'[t] = d /\ \A u \in Attending \ {t} : clerkAt'[u] = clerkAt[u]
        BY <1>0, <3>5
    <3>8. SuTyped'
      <4>1. clerkAt' \in [Attending -> AtWork]
          BY <1>0, <3>4, <3>5
      <4> QED
          BY <1>0, <2>2, <3>6, <4>1 DEF SuTyped
    <3>9. FirstAlone'
      <4>1. \A u \in Attending : clerkAt'[u].at = "register" =>
                clerkAt[u].at = "register" /\ clerkAt'[u] = clerkAt[u]
          BY <3>4, <3>7
      <4>2. OneFirstAdmin'
          BY <3>3, <3>6 DEF SignUpInv, FirstAlone, OneFirstAdmin
      <4>3. (\A i \in DOMAIN roster : ~ roster[i].admin) => \A i \in DOMAIN roster' : ~ roster'[i].admin
          BY <3>3, <3>6
      <4> QED
          BY <2>2, <4>1, <4>2, <4>3 DEF SignUpInv, FirstAlone
    <3>10. LinksTrusted'
      <4>1. \A w, i : Trusted(w, i) => Trusted(w, i)'
          BY <2>2, <3>6, TrustStays
      <4>2. Trusted(d.claim.who, d.account)'
          BY <3>3, <3>4, <3>6 DEF Trusted
      <4>3. ASSUME NEW u \in Attending, clerkAt'[u].at = "join"
            PROVE  Trusted(clerkAt[u].claim.who, clerkAt[u].account)'
        <5>1. CASE u = t
            BY <3>7, <4>2, <5>1
        <5>2. CASE u # t
          <6>1. clerkAt'[u] = clerkAt[u] /\ Trusted(clerkAt[u].claim.who, clerkAt[u].account)
              BY <3>7, <4>3, <5>2 DEF SignUpInv, LinksTrusted
          <6> QED
              BY <4>1, <6>1
        <5> QED
            BY <5>1, <5>2
      <4>4. \A u \in Attending : clerkAt'[u].at \in {"link", "email", "create"} =>
                clerkAt'[u] = clerkAt[u]
          BY <3>4, <3>7
      <4> QED
          BY <2>2, <4>1, <4>3, <4>4 DEF SignUpInv, LinksTrusted
    <3> QED
        BY <3>8, <3>9, <3>10 DEF SignUpInv
  <2> QED
      BY <2>3, <2>4
<1>10. ASSUME NEW t \in Attending, Join(t) PROVE SignUpInv'
  <2>1. PICK w : w = clerkAt[t].claim.who
      OBVIOUS
  <2>2. /\ clerkAt[t].at = "join" /\ w \in Identities /\ clerkAt[t].account \in Nat
        /\ UNCHANGED <<roster, bootLock, begun, tabs, vouched>>
      BY <1>0, <1>10, <2>1, WorkShape DEF Join
  <2>3. CASE linked[w] # 0
    <3>1. Moves(t, NoClerk) /\ UNCHANGED <<linked, landed>>
        BY <1>10, <2>1, <2>3 DEF Join, Abandons
    <3> QED
        BY <1>n, <2>2, <3>1, ClerkMoves
  <2>4. CASE linked[w] = 0
    <3>1. /\ Lands(t, clerkAt[t].account) /\ linked' = [linked EXCEPT ![w] = clerkAt[t].account]
        BY <1>10, <2>1, <2>4 DEF Join
    <3>2. Trusted(w, clerkAt[t].account)
        BY <2>1, <2>2 DEF SignUpInv, LinksTrusted
    <3>3. clerkAt[t].account # 0
        BY <1>0, <3>2 DEF Trusted
    <3> QED
        BY <1>l, <2>1, <2>2, <2>4, <3>1, <3>2, <3>3
  <2> QED
      BY <2>3, <2>4
<1>11. ASSUME SuRestart PROVE SignUpInv'
  <2>1. /\ clerkAt' = [t \in Attending |-> NoClerk]
        /\ UNCHANGED <<linked, begun, tabs, landed, vouched>>
      BY <1>11 DEF SuRestart
  <2>2. \A t \in Attending : clerkAt'[t].at = "none"
      BY <1>n, <2>1
  <2>3. CASE UNCHANGED roster
    <3>1. SuTyped'
        BY <1>n, <2>1, <2>3 DEF SignUpInv, SuTyped
    <3>2. \A w, i : Trusted(w, i) => Trusted(w, i)'
        BY <2>1, <2>3 DEF Trusted
    <3> QED
        BY <2>1, <2>2, <2>3, <3>1, <3>2 DEF SignUpInv, FirstAlone, LinksTrusted, OneFirstAdmin
  <2>4. CASE roster # <<>> /\ ~ SomeAdmin /\ roster' = [roster EXCEPT ![1].admin = TRUE]
    <3>1. 1 \in DOMAIN roster /\ roster[1] \in AccountRow
        BY <1>0, <2>4
    <3>2. PICK a : a = [roster[1] EXCEPT !.admin = TRUE]
        OBVIOUS
    <3>3. a \in AccountRow /\ a.email = roster[1].email /\ a.maker = roster[1].maker
        BY <3>1, <3>2 DEF AccountRow
    <3>4. roster' = [roster EXCEPT ![1] = a]
        BY <2>4, <3>2
    <3>5. /\ roster' \in Seq(AccountRow) /\ DOMAIN roster' = DOMAIN roster /\ roster'[1] = a
          /\ \A i \in DOMAIN roster \ {1} : roster'[i] = roster[i]
        BY <1>0, <3>1, <3>3, <3>4
    <3>6. SuTyped'
        BY <1>0, <1>n, <2>1, <3>5 DEF SuTyped
    <3>7. OneFirstAdmin'
        BY <2>4, <3>5 DEF SomeAdmin, OneFirstAdmin
    <3>8. \A w, i : Trusted(w, i) => Trusted(w, i)'
        BY <2>1, <3>3, <3>5, TrustStays
    <3> QED
        BY <2>1, <2>2, <3>6, <3>7, <3>8 DEF SignUpInv, FirstAlone, LinksTrusted
  <2> QED
      BY <1>11, <2>3, <2>4 DEF SuRestart
<1>12. CASE UNCHANGED suVars
    BY <1>12 DEF suVars, SignUpInv, SuTyped, FirstAlone, LinksTrusted, Trusted, OneFirstAdmin
<1> QED
    BY <1>1, <1>2, <1>3, <1>4, <1>5, <1>6, <1>7, <1>8, <1>9, <1>10, <1>11, <1>12 DEF SuNext

\* Sessions follow the links, the links what is trusted, and one lock makes one
\* administrator.
LEMMA SignUpKeeps == SignUpInv => SignUpHolds
BY DEF SignUpInv, FirstAlone, LinksTrusted, SignUpHolds, OneAccountEach, JoinsOnTrust, Trusted
-----------------------------------------------------------------------------
(* The page *)

FlightKinds == {"idle", "login", "logout", "status", "load", "poll", "act"}
FlightType == [kind : FlightKinds, token : Sessions \cup {NoSession},
               arg : Sessions \cup {NoSession}, at : {"none", "sent", "back"},
               user : Folk \cup {NoFolk}, busy : BOOLEAN, live : BOOLEAN,
               behind : SUBSET Flights, old : BOOLEAN]

PageTyped ==
    /\ badge \in Sessions \cup {NoSession} /\ me \in Sessions \cup {NoSession}
    /\ busy \subseteq Folk /\ shown \in [user : Folk \cup {NoFolk}, busy : BOOLEAN]
    /\ timer \in BOOLEAN /\ flight \in [Flights -> FlightType]
    /\ witnessed \subseteq busy

IsBack(f) == flight[f].at = "back"

\* An answer is for whoever it names, and live as long as the run it tells of.
Truthful(f) ==
    /\ flight[f].kind = "login" => /\ flight[f].arg # NoSession
                                   /\ IsBack(f) => flight[f].user = UserOf[flight[f].arg]
    /\ flight[f].kind = "status" /\ IsBack(f) => flight[f].user = FolkOf(flight[f].arg)
    /\ flight[f].kind = "idle" => ~IsBack(f)
    /\ flight[f].live => IsBack(f) /\ flight[f].busy /\ flight[f].user \in busy

\* An answer that knows of no run is older than one whose run still lasts,
InOrder(f, g) ==
    /\ IsBack(f) /\ IsBack(g) /\ flight[f].user = flight[g].user
    /\ flight[g].live /\ ~flight[f].busy
    => f \in flight[g].behind

\* and is overtaken once that one was shown.
Overtakes(f) == IsBack(f) /\ flight[f].user \in witnessed /\ ~flight[f].busy => flight[f].old

FlightsHold ==
    /\ \A f \in Flights : Truthful(f) /\ Overtakes(f)
    /\ \A f, g \in Flights : InOrder(f, g)

\* As long as the session never changed under a request, only requests of its
\* own kind are under way before a sign-in,
NobodyIn ==
    /\ shown = Blank /\ ~timer
    /\ \A f \in Flights : /\ flight[f].kind \in {"idle", "login", "status"}
                          /\ flight[f].kind = "login" => ~flight[f].old
                          /\ flight[f].kind = "status" => witnessed = {}

\* and after it only requests of the session that has been signed in.
SomebodyIn ==
    /\ badge \in {me, NoSession} /\ shown.user \in {NoFolk, FolkOf(me)}
    /\ \A f \in Flights : /\ flight[f].kind \in {"idle", "load", "poll", "act", "logout"}
                          /\ flight[f].kind # "idle" => flight[f].token = me
                          /\ IsBack(f) => flight[f].user \in {NoFolk, FolkOf(me)}

Uncrossed == "crossed" \notin odd => IF me = NoSession THEN NobodyIn ELSE SomebodyIn

Watched ==
    me # NoSession /\ FolkOf(me) \in witnessed /\ odd \cap {"crossed", "overtaken"} = {}
        => shown.busy
Armed ==
    shown.busy /\ "missed" \notin odd => timer \/ \E f \in Flights : flight[f].kind = "poll"

PageInv == PageTyped /\ FlightsHold /\ Uncrossed /\ Watched /\ Armed

LEMMA PageKeeps == PageInv => PageHolds
BY DEF PageInv, PageHolds, ShowsMine, WatchesRuns, Uncrossed, NobodyIn, SomebodyIn, Watched, Armed

LEMMA NoFlightShape ==
    /\ NoFlight \in FlightType /\ NoFlight.kind = "idle" /\ NoFlight.at = "none"
    /\ ~NoFlight.live /\ ~NoFlight.old
BY DEF NoFlight, FlightType, FlightKinds

LEMMA NobodyIsNoFolk ==
    \A s \in Sessions \cup {NoSession} :
        FolkOf(s) \in Folk \cup {NoFolk} /\ (FolkOf(s) = NoFolk <=> s = NoSession)
BY PageAssumption DEF FolkOf

LEMMA InitPage == PgInit => PageInv
<1> SUFFICES ASSUME PgInit PROVE PageInv
    OBVIOUS
<1>1. \A f \in Flights : flight[f] = NoFlight
    BY DEF PgInit
<1>2. PageTyped
    BY NoFlightShape DEF PgInit, PageTyped, Blank
<1>3. FlightsHold
    BY <1>1, NoFlightShape DEF PgInit, FlightsHold, Truthful, IsBack, InOrder, Overtakes
<1>4. Uncrossed
    BY <1>1, NoFlightShape DEF PgInit, Uncrossed, NobodyIn
<1>5. Watched /\ Armed
    BY DEF PgInit, Watched, Armed, Blank
<1> QED
    BY <1>2, <1>3, <1>4, <1>5 DEF PageInv

\* A request leaves.
LEMMA RequestLeaves ==
    ASSUME PageInv, NEW f \in Flights, NEW kind \in {"login", "logout", "act", "poll"},
           NEW arg \in Sessions \cup {NoSession}, Sends(f, kind, arg),
           kind = "login" => me = NoSession /\ arg # NoSession,
           kind \in {"logout", "act"} => me # NoSession,
           kind = "poll" => timer /\ timer' = FALSE,
           kind # "poll" => timer' = timer
    PROVE  PageInv'
<1>0. PageTyped /\ FlightsHold /\ Uncrossed /\ Watched /\ Armed
    BY DEF PageInv
<1>1. PICK r : r = [NoFlight EXCEPT !.kind = kind, !.token = me, !.arg = arg, !.at = "sent"]
    OBVIOUS
<1>2. /\ r \in FlightType /\ r.kind = kind /\ r.token = me /\ r.arg = arg /\ r.at = "sent"
      /\ ~r.live /\ ~r.old
    BY <1>0, <1>1 DEF NoFlight, FlightType, FlightKinds, PageTyped
<1>3. /\ flight[f] = NoFlight /\ flight' = [flight EXCEPT ![f] = r]
      /\ badge' = badge /\ busy' = busy /\ me' = me /\ shown' = shown
      /\ witnessed' = witnessed /\ odd' = odd
    BY <1>1 DEF Sends
<1>4. flight'[f] = r /\ \A g \in Flights : g # f => flight'[g] = flight[g]
    BY <1>0, <1>3 DEF PageTyped
<1>5. PageTyped'
  <2>1. flight' \in [Flights -> FlightType]
      BY <1>0, <1>2, <1>3 DEF PageTyped
  <2>2. timer' \in BOOLEAN
      BY <1>0 DEF PageTyped
  <2> QED
      BY <1>0, <1>3, <2>1, <2>2 DEF PageTyped
<1>6. FlightsHold'
    BY <1>0, <1>2, <1>3, <1>4 DEF FlightsHold, Truthful, IsBack, InOrder, Overtakes
<1>7. Uncrossed'
  <2> SUFFICES ASSUME "crossed" \notin odd
               PROVE  IF me = NoSession THEN NobodyIn' ELSE SomebodyIn'
      BY <1>3 DEF Uncrossed
  <2>1. CASE me = NoSession
    <3>1. NobodyIn
        BY <1>0, <2>1 DEF Uncrossed
    <3>2. kind = "login" /\ timer' = timer
        BY <2>1, <3>1 DEF NobodyIn
    <3> QED
        BY <1>2, <1>3, <1>4, <2>1, <3>1, <3>2 DEF NobodyIn
  <2>2. CASE me # NoSession
    <3>1. SomebodyIn /\ kind # "login"
        BY <1>0, <2>2 DEF Uncrossed
    <3> QED
        BY <1>2, <1>3, <1>4, <2>2, <3>1 DEF SomebodyIn, IsBack
  <2> QED
      BY <2>1, <2>2
<1>8. Watched'
    BY <1>0, <1>3 DEF Watched
<1>9. Armed'
  <2>1. CASE kind = "poll"
      BY <1>2, <1>4, <2>1 DEF Armed
  <2>2. CASE kind # "poll"
      BY <1>0, <1>3, <1>4, <2>2, NoFlightShape DEF Armed
  <2> QED
      BY <2>1, <2>2
<1> QED
    BY <1>5, <1>6, <1>7, <1>8, <1>9 DEF PageInv

\* The page is opened again.
LEMMA OpensAgain == ASSUME PageInv, NEW f \in Flights, Reopens(f) PROVE PageInv'
<1>0. PageTyped
    BY DEF PageInv
<1>1. PICK r : r = [NoFlight EXCEPT !.kind = "status", !.at = "sent"]
    OBVIOUS
<1>2. r \in FlightType /\ r.kind = "status" /\ r.at = "sent" /\ ~r.live /\ ~r.old
    BY <1>1 DEF NoFlight, FlightType, FlightKinds
<1>3. /\ flight' = [g \in Flights |-> IF g = f THEN r ELSE NoFlight]
      /\ me' = NoSession /\ shown' = Blank /\ timer' = FALSE
      /\ odd' = {} /\ witnessed' = {} /\ badge' = badge /\ busy' = busy
    BY <1>1 DEF Reopens
<1>4. flight'[f] = r /\ \A g \in Flights : g # f => flight'[g] = NoFlight
    BY <1>3
<1>5. PageTyped'
  <2>1. flight' \in [Flights -> FlightType]
      BY <1>2, <1>3, NoFlightShape
  <2> QED
      BY <1>0, <1>3, <2>1 DEF PageTyped, Blank
<1>6. FlightsHold'
    BY <1>2, <1>4, NoFlightShape DEF FlightsHold, Truthful, IsBack, InOrder, Overtakes
<1>7. Uncrossed'
    BY <1>2, <1>3, <1>4, NoFlightShape DEF Uncrossed, NobodyIn
<1>8. Watched' /\ Armed'
    BY <1>3 DEF Watched, Armed, Blank
<1> QED
    BY <1>5, <1>6, <1>7, <1>8 DEF PageInv

\* What an answer leaves alone, and what it says.
LEMMA AnswerShape ==
    ASSUME PageTyped, NEW f \in Flights, NEW user \in Folk \cup {NoFolk},
           NEW arg \in Sessions \cup {NoSession}, Answers(f, user, arg)
    PROVE  /\ flight' \in [Flights -> FlightType]
           /\ \A g \in Flights : g # f => flight'[g] = flight[g]
           /\ flight'[f].kind = flight[f].kind /\ flight'[f].token = flight[f].token
           /\ flight'[f].arg = arg /\ flight'[f].at = "back" /\ flight'[f].user = user
           /\ flight'[f].busy <=> user \in busy'
           /\ flight'[f].live <=> user \in busy'
           /\ flight'[f].behind = {g \in Flights : flight[g].at = "back"}
           /\ flight'[f].old <=> flight[f].old
<1>1. PICK q \in FlightType : q = flight[f]
    BY DEF PageTyped
<1>2. PICK old : old = {g \in Flights : flight[g].at = "back"}
    OBVIOUS
<1>3. PICK on \in BOOLEAN : on = (user \in busy')
  <2>1. (user \in busy') \in BOOLEAN
      OBVIOUS
  <2> QED
      BY <2>1, Zenon
<1>4. PICK r : r = [q EXCEPT !.at = "back", !.user = user, !.arg = arg,
                             !.busy = on, !.live = on, !.behind = old]
    OBVIOUS
<1>5. flight' = [flight EXCEPT ![f] = r]
    BY <1>1, <1>2, <1>3, <1>4 DEF Answers
<1>6. /\ r \in FlightType /\ r.kind = q.kind /\ r.token = q.token /\ r.arg = arg
      /\ r.at = "back" /\ r.user = user /\ r.busy = on /\ r.live = on
      /\ r.behind = old /\ r.old = q.old
    BY <1>2, <1>4 DEF FlightType
<1>7. flight'[f] = r /\ \A g \in Flights : g # f => flight'[g] = flight[g]
    BY <1>5 DEF PageTyped
<1>8. flight' \in [Flights -> FlightType]
    BY <1>5, <1>6 DEF PageTyped
<1> QED
    BY <1>1, <1>2, <1>3, <1>6, <1>7, <1>8

\* The server answers.
LEMMA AnswerKeeps ==
    ASSUME PageInv, NEW f \in Flights, NEW user \in Folk \cup {NoFolk},
           NEW arg \in Sessions \cup {NoSession}, Answers(f, user, arg),
           flight[f].at = "sent", flight[f].kind # "idle",
           busy \subseteq busy', busy' \subseteq Folk, badge' \in Sessions \cup {NoSession},
           UNCHANGED <<me, shown, timer, witnessed, odd>>,
           flight[f].kind = "login" => arg # NoSession /\ user = UserOf[arg],
           flight[f].kind = "status" => user = FolkOf(arg),
           "crossed" \notin odd /\ me # NoSession =>
               badge' \in {me, NoSession} /\ user \in {NoFolk, FolkOf(me)}
    PROVE  PageInv'
<1>0. PageTyped /\ FlightsHold /\ Uncrossed /\ Watched /\ Armed
    BY DEF PageInv
<1>1. /\ flight' \in [Flights -> FlightType]
      /\ \A g \in Flights : g # f => flight'[g] = flight[g]
      /\ flight'[f].kind = flight[f].kind /\ flight'[f].token = flight[f].token
      /\ flight'[f].arg = arg /\ flight'[f].at = "back" /\ flight'[f].user = user
      /\ flight'[f].busy <=> user \in busy'
      /\ flight'[f].live <=> user \in busy'
      /\ flight'[f].behind = {g \in Flights : flight[g].at = "back"}
      /\ flight'[f].old <=> flight[f].old
    BY <1>0, AnswerShape
<1>2. PageTyped'
    BY <1>0, <1>1 DEF PageTyped
<1>3. FlightsHold'
  <2>1. ASSUME NEW g \in Flights PROVE Truthful(g)' /\ Overtakes(g)'
      BY <1>0, <1>1, PageAssumption DEF FlightsHold, Truthful, Overtakes, IsBack, PageTyped
  <2>2. ASSUME NEW g \in Flights, NEW h \in Flights PROVE InOrder(g, h)'
    <3>0. /\ InOrder(g, h) /\ Truthful(h)
        BY <1>0 DEF FlightsHold
    <3>1. CASE g = f
        BY <1>0, <1>1, <3>0, <3>1 DEF InOrder, Truthful, IsBack, PageTyped
    <3>2. CASE g # f /\ h = f
        BY <1>1, <3>2 DEF InOrder, IsBack
    <3>3. CASE g # f /\ h # f
        BY <1>1, <3>0, <3>3 DEF InOrder, IsBack
    <3> QED
        BY <3>1, <3>2, <3>3
  <2> QED
      BY <2>1, <2>2 DEF FlightsHold
<1>4. Uncrossed'
  <2> SUFFICES ASSUME "crossed" \notin odd
               PROVE  IF me = NoSession THEN NobodyIn' ELSE SomebodyIn'
      BY DEF Uncrossed
  <2>1. CASE me = NoSession
    <3>1. NobodyIn
        BY <1>0, <2>1 DEF Uncrossed
    <3> QED
        BY <1>1, <2>1, <3>1 DEF NobodyIn
  <2>2. CASE me # NoSession
    <3>1. SomebodyIn /\ badge' \in {me, NoSession} /\ user \in {NoFolk, FolkOf(me)}
        BY <1>0, <2>2 DEF Uncrossed
    <3>2. me' = me /\ shown' = shown /\ FolkOf(me') = FolkOf(me)
        OBVIOUS
    <3> QED
        BY <1>1, <2>2, <3>1, <3>2 DEF SomebodyIn, IsBack
  <2> QED
      BY <2>1, <2>2
<1>5. Watched'
    BY <1>0 DEF Watched, FolkOf
<1>6. Armed'
    BY <1>0, <1>1 DEF Armed
<1> QED
    BY <1>2, <1>3, <1>4, <1>5, <1>6 DEF PageInv

LEMMA ServesKeeps == ASSUME PageInv, NEW f \in Flights, Serves(f) PROVE PageInv'
<1>0. /\ PageTyped /\ FlightsHold /\ Uncrossed
      /\ flight[f] \in FlightType /\ Truthful(f)
    BY DEF PageInv, PageTyped, FlightsHold
<1>1. flight[f].at = "sent" /\ UNCHANGED <<me, shown, timer, witnessed, odd>>
    BY DEF Serves
<1>2. badge \in Sessions \cup {NoSession} /\ busy \subseteq Folk
    BY <1>0 DEF PageTyped
<1>3. FolkOf(badge) \in Folk \cup {NoFolk}
    BY <1>2, NobodyIsNoFolk
<1>4. "crossed" \notin odd /\ me # NoSession =>
          /\ badge \in {me, NoSession} /\ FolkOf(badge) \in {NoFolk, FolkOf(me)}
          /\ flight[f].kind \in {"idle", "load", "poll", "act", "logout"}
    BY <1>0 DEF Uncrossed, SomebodyIn, FolkOf
<1>5. CASE ServesRead(f)
  <2>1. /\ flight[f].kind \in {"load", "poll"} /\ badge' = badge /\ busy' = busy
        /\ Answers(f, FolkOf(badge), NoSession)
      BY <1>5 DEF ServesRead
  <2> QED
      BY <1>1, <1>2, <1>3, <1>4, <2>1, AnswerKeeps
<1>6. CASE ServesStatus(f)
  <2>1. /\ flight[f].kind = "status" /\ badge' = badge /\ busy' = busy
        /\ Answers(f, FolkOf(badge), badge)
      BY <1>6 DEF ServesStatus
  <2> QED
      BY <1>1, <1>2, <1>3, <1>4, <2>1, AnswerKeeps
<1>7. CASE ServesLogin(f)
  <2>1. /\ flight[f].kind = "login" /\ badge' = flight[f].arg /\ busy' = busy
        /\ Answers(f, UserOf[flight[f].arg], flight[f].arg)
      BY <1>7 DEF ServesLogin
  <2>2. /\ flight[f].arg \in Sessions /\ flight[f].arg # NoSession
        /\ UserOf[flight[f].arg] \in Folk
      BY <1>0, <2>1, PageAssumption DEF Truthful, FlightType
  <2> QED
      BY <1>1, <1>2, <1>4, <2>1, <2>2, AnswerKeeps
<1>8. CASE ServesLogout(f)
  <2>1. /\ flight[f].kind = "logout" /\ badge' \in {badge, NoSession} /\ busy' = busy
        /\ Answers(f, NoFolk, NoSession)
      BY <1>8 DEF ServesLogout
  <2> QED
      BY <1>1, <1>2, <1>4, <2>1, AnswerKeeps
<1>9. CASE ServesAct(f)
  <2>1. CASE CsrfHolds(flight[f].token)
    <3>1. badge # NoSession
        BY <2>1 DEF CsrfHolds
    <3>2. /\ flight[f].kind = "act" /\ badge' = badge /\ busy' = busy \cup {FolkOf(badge)}
          /\ Answers(f, FolkOf(badge), NoSession)
        BY <1>9, <2>1 DEF ServesAct
    <3>3. FolkOf(badge) \in Folk
        BY <1>2, <3>1, PageAssumption DEF FolkOf
    <3> QED
        BY <1>1, <1>2, <1>4, <3>2, <3>3, AnswerKeeps
  <2>2. CASE ~CsrfHolds(flight[f].token)
    <3>1. /\ flight[f].kind = "act" /\ badge' = badge /\ busy' = busy
          /\ Answers(f, NoFolk, NoSession)
        BY <1>9, <2>2 DEF ServesAct
    <3> QED
        BY <1>1, <1>2, <1>4, <3>1, AnswerKeeps
  <2> QED
      BY <2>1, <2>2
<1> QED
    BY <1>5, <1>6, <1>7, <1>8, <1>9 DEF Serves

LEMMA RunEndsKeeps == ASSUME PageInv, NEW u \in Folk, RunEnds(u) PROVE PageInv'
<1>0. PageTyped /\ FlightsHold /\ Uncrossed /\ Watched /\ Armed
    BY DEF PageInv
<1>1. /\ busy' = busy \ {u} /\ witnessed' = witnessed \ {u}
      /\ flight' = [g \in Flights |-> [flight[g] EXCEPT !.live = @ /\ flight[g].user # u]]
      /\ badge' = badge /\ me' = me /\ shown' = shown /\ timer' = timer /\ odd' = odd
    BY DEF RunEnds
<1>2. ASSUME NEW g \in Flights
      PROVE  /\ flight'[g] \in FlightType
             /\ flight'[g].kind = flight[g].kind /\ flight'[g].token = flight[g].token
             /\ flight'[g].arg = flight[g].arg /\ flight'[g].at = flight[g].at
             /\ flight'[g].user = flight[g].user /\ flight'[g].busy = flight[g].busy
             /\ flight'[g].behind = flight[g].behind /\ flight'[g].old = flight[g].old
             /\ flight'[g].live => flight[g].live /\ flight[g].user # u
  <2>1. PICK q \in FlightType : q = flight[g]
      BY <1>0 DEF PageTyped
  <2>2. PICK on \in BOOLEAN : on = (q.live /\ q.user # u)
      OBVIOUS
  <2>3. flight'[g] = [q EXCEPT !.live = on]
      BY <1>1, <2>1, <2>2
  <2> QED
      BY <2>1, <2>2, <2>3 DEF FlightType
<1>3. PageTyped'
  <2>1. flight' \in [Flights -> FlightType]
      BY <1>1, <1>2
  <2> QED
      BY <1>0, <1>1, <2>1 DEF PageTyped
<1>4. FlightsHold'
  <2>1. ASSUME NEW g \in Flights PROVE Truthful(g)' /\ Overtakes(g)'
    <3>1. Truthful(g) /\ Overtakes(g)
        BY <1>0 DEF FlightsHold
    <3> QED
        BY <1>1, <1>2, <3>1 DEF Truthful, Overtakes, IsBack, FolkOf
  <2>2. ASSUME NEW g \in Flights, NEW h \in Flights PROVE InOrder(g, h)'
    <3>1. InOrder(g, h)
        BY <1>0 DEF FlightsHold
    <3> QED
        BY <1>2, <3>1 DEF InOrder, IsBack
  <2> QED
      BY <2>1, <2>2 DEF FlightsHold
<1>5. Uncrossed'
    BY <1>0, <1>1, <1>2 DEF Uncrossed, NobodyIn, SomebodyIn, IsBack, FolkOf
<1>6. Watched'
    BY <1>0, <1>1 DEF Watched, FolkOf
<1>7. Armed'
    BY <1>0, <1>1, <1>2 DEF Armed
<1> QED
    BY <1>3, <1>4, <1>5, <1>6, <1>7 DEF PageInv

LEMMA CookieKeeps ==
    ASSUME PageInv, NEW s \in Sessions \cup {NoSession}, CookieChanges(s) PROVE PageInv'
<1>0. PageTyped /\ FlightsHold /\ Uncrossed /\ Watched /\ Armed
    BY DEF PageInv
<1>1. /\ badge' = s /\ busy' = busy /\ me' = me /\ shown' = shown /\ timer' = timer
      /\ flight' = flight /\ witnessed' = witnessed
      /\ odd' = IF me # NoSession THEN odd \cup {"crossed"} ELSE odd
    BY DEF CookieChanges
<1>2. PageTyped'
    BY <1>0, <1>1 DEF PageTyped
<1>3. FlightsHold'
    BY <1>0, <1>1 DEF FlightsHold, Truthful, IsBack, InOrder, Overtakes, FolkOf
<1>4. Uncrossed'
    BY <1>0, <1>1 DEF Uncrossed, NobodyIn
<1>5. Watched' /\ Armed'
    BY <1>0, <1>1 DEF Watched, Armed, FolkOf
<1> QED
    BY <1>2, <1>3, <1>4, <1>5 DEF PageInv

\* An answer that was read, or never will be, is no longer under way.
LEMMA DoneShape ==
    ASSUME PageTyped, NEW f \in Flights, Done(f)
    PROVE  /\ flight' \in [Flights -> FlightType] /\ flight'[f] = NoFlight
           /\ \A g \in Flights : g # f =>
                /\ flight'[g].kind = flight[g].kind /\ flight'[g].token = flight[g].token
                /\ flight'[g].arg = flight[g].arg /\ flight'[g].at = flight[g].at
                /\ flight'[g].user = flight[g].user /\ flight'[g].busy = flight[g].busy
                /\ flight'[g].live = flight[g].live /\ flight'[g].old = flight[g].old
                /\ flight'[g].behind = flight[g].behind \ {f}
<1>1. ASSUME NEW g \in Flights, g # f
      PROVE  /\ flight'[g] \in FlightType
             /\ flight'[g].kind = flight[g].kind /\ flight'[g].token = flight[g].token
             /\ flight'[g].arg = flight[g].arg /\ flight'[g].at = flight[g].at
             /\ flight'[g].user = flight[g].user /\ flight'[g].busy = flight[g].busy
             /\ flight'[g].live = flight[g].live /\ flight'[g].old = flight[g].old
             /\ flight'[g].behind = flight[g].behind \ {f}
  <2>1. PICK q \in FlightType : q = flight[g]
      BY DEF PageTyped
  <2>2. flight'[g] = [q EXCEPT !.behind = q.behind \ {f}]
      BY <1>1, <2>1 DEF Done
  <2> QED
      BY <2>1, <2>2 DEF FlightType
<1>2. flight'[f] = NoFlight
    BY DEF Done
<1>3. flight' \in [Flights -> FlightType]
    BY <1>1, <1>2, NoFlightShape DEF Done
<1> QED
    BY <1>1, <1>2, <1>3

LEMMA DoneHolds ==
    ASSUME PageTyped, FlightsHold, NEW f \in Flights, Done(f), UNCHANGED <<busy, witnessed>>
    PROVE  FlightsHold'
<1>1. /\ flight'[f] = NoFlight
      /\ \A g \in Flights : g # f =>
           /\ flight'[g].kind = flight[g].kind /\ flight'[g].token = flight[g].token
           /\ flight'[g].arg = flight[g].arg /\ flight'[g].at = flight[g].at
           /\ flight'[g].user = flight[g].user /\ flight'[g].busy = flight[g].busy
           /\ flight'[g].live = flight[g].live /\ flight'[g].old = flight[g].old
           /\ flight'[g].behind = flight[g].behind \ {f}
    BY DoneShape
<1>2. ASSUME NEW g \in Flights PROVE Truthful(g)' /\ Overtakes(g)'
  <2>1. Truthful(g) /\ Overtakes(g)
      BY DEF FlightsHold
  <2> QED
      BY <1>1, <2>1, NoFlightShape DEF Truthful, Overtakes, IsBack, FolkOf
<1>3. ASSUME NEW g \in Flights, NEW h \in Flights PROVE InOrder(g, h)'
  <2>1. InOrder(g, h)
      BY DEF FlightsHold
  <2> QED
      BY <1>1, <2>1, NoFlightShape DEF InOrder, IsBack
<1> QED
    BY <1>2, <1>3 DEF FlightsHold

\* Nothing else was under way, or it crossed.
LEMMA RestAlone ==
    ASSUME NEW f \in Flights, ~Rest(f) PROVE \A g \in Flights : g # f => flight[g] = NoFlight
BY DEF Rest

\* The page forgets whoever was signed in.
LEMMA ForgetsKeeps ==
    ASSUME PageInv, NEW f \in Flights, Done(f), Forgets, odd' = Crossing(f),
           UNCHANGED <<badge, busy, witnessed>>
    PROVE  PageInv'
<1>0. PageTyped /\ FlightsHold
    BY DEF PageInv
<1>1. me' = NoSession /\ timer' = FALSE /\ shown' = Blank
    BY DEF Forgets
<1>2. PageTyped'
    BY <1>0, <1>1, DoneShape DEF PageTyped, Blank
<1>3. FlightsHold'
    BY <1>0, DoneHolds
<1>4. Uncrossed'
  <2> SUFFICES ASSUME "crossed" \notin odd' PROVE NobodyIn'
      BY <1>1 DEF Uncrossed
  <2>1. \A g \in Flights : g # f => flight[g] = NoFlight
      BY RestAlone DEF Crossing
  <2>2. \A g \in Flights : flight'[g].kind = "idle"
      BY <1>0, <2>1, DoneShape, NoFlightShape
  <2> QED
      BY <1>1, <2>2 DEF NobodyIn
<1>5. Watched' /\ Armed'
    BY <1>1 DEF Watched, Armed, Blank
<1> QED
    BY <1>2, <1>3, <1>4, <1>5 DEF PageInv

LEMMA BreaksKeeps == ASSUME PageInv, NEW f \in Flights, Breaks(f) PROVE PageInv'
<1>0. PageTyped /\ FlightsHold /\ Uncrossed /\ Watched /\ Armed
    BY DEF PageInv
<1>1. /\ flight[f].kind \in {"load", "poll", "act"} /\ Done(f)
      /\ odd' = IF flight[f].kind = "poll" THEN odd \cup {"missed"} ELSE odd
      /\ badge' = badge /\ busy' = busy /\ me' = me /\ shown' = shown /\ timer' = timer
      /\ witnessed' = witnessed
    BY DEF Breaks
<1>2. /\ flight' \in [Flights -> FlightType] /\ flight'[f] = NoFlight
      /\ \A g \in Flights : g # f =>
           /\ flight'[g].kind = flight[g].kind /\ flight'[g].token = flight[g].token
           /\ flight'[g].at = flight[g].at /\ flight'[g].user = flight[g].user
           /\ flight'[g].old = flight[g].old
    BY <1>0, <1>1, DoneShape
<1>3. PageTyped'
    BY <1>0, <1>1, <1>2 DEF PageTyped
<1>4. FlightsHold'
    BY <1>0, <1>1, DoneHolds
<1>5. Uncrossed'
    BY <1>0, <1>1, <1>2, NoFlightShape DEF Uncrossed, NobodyIn, SomebodyIn, IsBack, FolkOf
<1>6. Watched'
    BY <1>0, <1>1 DEF Watched, FolkOf
<1>7. Armed'
    BY <1>0, <1>1, <1>2 DEF Armed
<1> QED
    BY <1>3, <1>4, <1>5, <1>6, <1>7 DEF PageInv

\* What is shown replaces what was, and overtakes what the server said before it.
LEMMA ShowsShape ==
    ASSUME PageTyped, NEW f \in Flights, Shows(f)
    PROVE  /\ flight' \in [Flights -> FlightType] /\ flight'[f] = NoFlight
           /\ \A g \in Flights : g # f =>
                /\ flight'[g].kind = flight[g].kind /\ flight'[g].token = flight[g].token
                /\ flight'[g].arg = flight[g].arg /\ flight'[g].at = flight[g].at
                /\ flight'[g].user = flight[g].user /\ flight'[g].busy = flight[g].busy
                /\ flight'[g].live = flight[g].live
                /\ flight'[g].old <=> flight[g].old \/ g \in flight[f].behind
                /\ flight'[g].behind = flight[g].behind \ {f}
<1>1. ASSUME NEW g \in Flights, g # f
      PROVE  /\ flight'[g] \in FlightType
             /\ flight'[g].kind = flight[g].kind /\ flight'[g].token = flight[g].token
             /\ flight'[g].arg = flight[g].arg /\ flight'[g].at = flight[g].at
             /\ flight'[g].user = flight[g].user /\ flight'[g].busy = flight[g].busy
             /\ flight'[g].live = flight[g].live
             /\ flight'[g].old <=> flight[g].old \/ g \in flight[f].behind
             /\ flight'[g].behind = flight[g].behind \ {f}
  <2>1. PICK q \in FlightType : q = flight[g]
      BY DEF PageTyped
  <2>2. PICK late \in BOOLEAN : late = (q.old \/ g \in flight[f].behind)
      OBVIOUS
  <2>3. PICK r : r = [q EXCEPT !.behind = q.behind \ {f}, !.old = late]
      OBVIOUS
  <2>4. flight'[g] = r
      BY <1>1, <2>1, <2>2, <2>3 DEF Shows
  <2>5. /\ r \in FlightType /\ r.kind = q.kind /\ r.token = q.token /\ r.arg = q.arg
        /\ r.at = q.at /\ r.user = q.user /\ r.busy = q.busy /\ r.live = q.live
        /\ r.old = late /\ r.behind = q.behind \ {f}
      BY <2>1, <2>2, <2>3 DEF FlightType
  <2> QED
      BY <2>1, <2>2, <2>4, <2>5
<1>2. flight'[f] = NoFlight
    BY DEF Shows
<1>3. flight' \in [Flights -> FlightType]
    BY <1>1, <1>2, NoFlightShape DEF Shows
<1> QED
    BY <1>1, <1>2, <1>3

LEMMA ShowsHolds ==
    ASSUME PageTyped, FlightsHold, NEW f \in Flights, IsBack(f), Shows(f), busy' = busy
    PROVE  FlightsHold' /\ witnessed' \subseteq busy'
<1>1. /\ flight'[f] = NoFlight
      /\ \A g \in Flights : g # f =>
           /\ flight'[g].kind = flight[g].kind /\ flight'[g].token = flight[g].token
           /\ flight'[g].arg = flight[g].arg /\ flight'[g].at = flight[g].at
           /\ flight'[g].user = flight[g].user /\ flight'[g].busy = flight[g].busy
           /\ flight'[g].live = flight[g].live
           /\ flight'[g].old <=> flight[g].old \/ g \in flight[f].behind
           /\ flight'[g].behind = flight[g].behind \ {f}
    BY ShowsShape
<1>2. witnessed' = IF flight[f].live THEN witnessed \cup {flight[f].user} ELSE witnessed
    BY DEF Shows
<1>3. ASSUME NEW g \in Flights PROVE Truthful(g)' /\ Overtakes(g)'
  <2>1. Truthful(g) /\ Overtakes(g) /\ InOrder(g, f)
      BY DEF FlightsHold
  <2>2. Truthful(g)'
      BY <1>1, <2>1, NoFlightShape DEF Truthful, IsBack, FolkOf
  <2>3. Overtakes(g)'
      BY <1>1, <1>2, <2>1, NoFlightShape DEF Overtakes, IsBack, InOrder
  <2> QED
      BY <2>2, <2>3
<1>4. ASSUME NEW g \in Flights, NEW h \in Flights PROVE InOrder(g, h)'
  <2>1. InOrder(g, h)
      BY DEF FlightsHold
  <2> QED
      BY <1>1, <2>1, NoFlightShape DEF InOrder, IsBack
<1>5. witnessed' \subseteq busy'
  <2>1. Truthful(f) /\ witnessed \subseteq busy
      BY DEF FlightsHold, PageTyped
  <2> QED
      BY <1>2, <2>1 DEF Truthful
<1> QED
    BY <1>3, <1>4, <1>5 DEF FlightsHold

LEMMA AbsorbsKeeps == ASSUME PageInv, NEW f \in Flights, Absorbs(f) PROVE PageInv'
<1>0. PageTyped /\ FlightsHold /\ Uncrossed /\ Truthful(f) /\ Overtakes(f)
    BY DEF PageInv, FlightsHold
<1>1. /\ IsBack(f) /\ flight[f].user # NoFolk /\ flight[f].kind \in {"load", "poll", "act"}
      /\ Shows(f) /\ badge' = badge /\ busy' = busy /\ me' = me
      /\ odd' = (IF flight[f].old THEN odd \cup {"overtaken"} ELSE odd) \ {"missed"}
    BY DEF Absorbs, IsBack
<1>2. /\ shown' = [user |-> flight[f].user, busy |-> flight[f].busy]
      /\ timer' = (timer \/ flight[f].busy)
      /\ witnessed' = IF flight[f].live THEN witnessed \cup {flight[f].user} ELSE witnessed
    BY <1>1 DEF Shows
<1>3. flight[f].user \in Folk \cup {NoFolk} /\ flight[f].busy \in BOOLEAN
    BY <1>0 DEF PageTyped, FlightType
<1>4. FlightsHold' /\ witnessed' \subseteq busy'
    BY <1>0, <1>1, ShowsHolds
<1>5. /\ flight' \in [Flights -> FlightType] /\ flight'[f] = NoFlight
      /\ \A g \in Flights : g # f =>
           /\ flight'[g].kind = flight[g].kind /\ flight'[g].token = flight[g].token
           /\ flight'[g].at = flight[g].at /\ flight'[g].user = flight[g].user
    BY <1>0, <1>1, ShowsShape
<1>6. PageTyped'
  <2>1. timer' \in BOOLEAN
      BY <1>2
  <2>2. shown' \in [user : Folk \cup {NoFolk}, busy : BOOLEAN]
      BY <1>2, <1>3
  <2> QED
      BY <1>0, <1>1, <1>4, <1>5, <2>1, <2>2 DEF PageTyped
<1>7. "crossed" \notin odd' => me # NoSession /\ SomebodyIn /\ "crossed" \notin odd
    BY <1>0, <1>1 DEF Uncrossed, NobodyIn
<1>8. Uncrossed'
  <2> SUFFICES ASSUME "crossed" \notin odd' PROVE SomebodyIn'
      BY <1>1, <1>7 DEF Uncrossed
  <2>1. me' = me /\ FolkOf(me') = FolkOf(me) /\ shown'.user = flight[f].user
      BY <1>1, <1>2
  <2> QED
      BY <1>1, <1>5, <1>7, <2>1, NoFlightShape DEF SomebodyIn, IsBack
<1>9. Watched'
  <2> SUFFICES ASSUME FolkOf(me) \in witnessed', odd' \cap {"crossed", "overtaken"} = {}
               PROVE  shown'.busy
      BY <1>1 DEF Watched, FolkOf
  <2>1. ~flight[f].old /\ flight[f].user = FolkOf(me)
      BY <1>1, <1>7 DEF SomebodyIn
  <2>2. flight[f].busy
      BY <1>0, <1>1, <1>2, <2>1 DEF Truthful, Overtakes
  <2> QED
      BY <1>2, <2>2
<1>10. Armed'
  <2>1. shown'.busy = flight[f].busy
      BY <1>2
  <2> QED
      BY <1>2, <2>1 DEF Armed
<1> QED
    BY <1>4, <1>6, <1>8, <1>9, <1>10 DEF PageInv

LEMMA SignsInKeeps == ASSUME PageInv, NEW f \in Flights, SignsIn(f) PROVE PageInv'
<1>0. PageTyped /\ FlightsHold /\ Uncrossed /\ Truthful(f) /\ Overtakes(f)
    BY DEF PageInv, FlightsHold
<1>1. /\ IsBack(f) /\ flight[f].kind = "login" /\ me' = flight[f].arg
      /\ Shows(f) /\ badge' = badge /\ busy' = busy
      /\ odd' = IF badge # flight[f].arg THEN odd \cup {"crossed"} ELSE Crossing(f)
    BY DEF SignsIn, IsBack
<1>2. /\ shown' = [user |-> flight[f].user, busy |-> flight[f].busy]
      /\ timer' = (timer \/ flight[f].busy)
      /\ witnessed' = IF flight[f].live THEN witnessed \cup {flight[f].user} ELSE witnessed
    BY <1>1 DEF Shows
<1>3. /\ flight[f].user \in Folk \cup {NoFolk} /\ flight[f].busy \in BOOLEAN
      /\ flight[f].arg \in Sessions \cup {NoSession}
    BY <1>0 DEF PageTyped, FlightType
<1>4. FlightsHold' /\ witnessed' \subseteq busy'
    BY <1>0, <1>1, ShowsHolds
<1>5. /\ flight' \in [Flights -> FlightType] /\ flight'[f] = NoFlight
      /\ \A g \in Flights : g # f =>
           flight'[g].kind = flight[g].kind /\ flight'[g].at = flight[g].at
    BY <1>0, <1>1, ShowsShape
<1>6. PageTyped'
  <2>1. timer' \in BOOLEAN
      BY <1>2
  <2>2. shown' \in [user : Folk \cup {NoFolk}, busy : BOOLEAN]
      BY <1>2, <1>3
  <2> QED
      BY <1>0, <1>1, <1>3, <1>4, <1>5, <2>1, <2>2 DEF PageTyped
<1>7. "crossed" \notin odd' =>
          NobodyIn /\ badge = flight[f].arg /\ \A g \in Flights : g # f => flight[g] = NoFlight
    BY <1>0, <1>1, RestAlone DEF Uncrossed, SomebodyIn, Crossing
<1>8. me' # NoSession /\ flight[f].user = FolkOf(me')
    BY <1>0, <1>1 DEF Truthful, FolkOf
<1>9. Uncrossed'
  <2> SUFFICES ASSUME "crossed" \notin odd' PROVE SomebodyIn'
      BY <1>8 DEF Uncrossed
  <2>1. badge' = me' /\ shown'.user = FolkOf(me')
      BY <1>1, <1>2, <1>7, <1>8
  <2>2. \A g \in Flights : flight'[g].kind = "idle" /\ flight'[g].at = "none"
      BY <1>5, <1>7, NoFlightShape
  <2> QED
      BY <2>1, <2>2 DEF SomebodyIn, IsBack
<1>10. Watched'
  <2> SUFFICES ASSUME FolkOf(me') \in witnessed', "crossed" \notin odd'
               PROVE  shown'.busy
      BY DEF Watched
  <2>1. ~flight[f].old
      BY <1>1, <1>7 DEF NobodyIn
  <2>2. flight[f].busy
      BY <1>0, <1>1, <1>2, <1>8, <2>1 DEF Truthful, Overtakes
  <2> QED
      BY <1>2, <2>2
<1>11. Armed'
  <2>1. shown'.busy = flight[f].busy
      BY <1>2
  <2> QED
      BY <1>2, <2>1 DEF Armed
<1> QED
    BY <1>4, <1>6, <1>9, <1>10, <1>11 DEF PageInv

LEMMA RecognisesKeeps == ASSUME PageInv, NEW f \in Flights, Recognises(f) PROVE PageInv'
<1>0. PageTyped /\ FlightsHold /\ Uncrossed /\ Watched /\ Armed /\ Truthful(f)
    BY DEF PageInv, FlightsHold
<1>1. PICK r : r = IF flight[f].user = NoFolk THEN NoFlight
               ELSE [NoFlight EXCEPT !.kind = "load", !.token = flight[f].arg, !.at = "sent"]
    OBVIOUS
<1>2. /\ IsBack(f) /\ flight[f].kind = "status" /\ me' = flight[f].arg
      /\ flight' = [flight EXCEPT ![f] = r]
      /\ odd' = IF badge # flight[f].arg \/ Rest(f) THEN odd \cup {"crossed"} ELSE odd
      /\ badge' = badge /\ busy' = busy /\ shown' = shown /\ timer' = timer
      /\ witnessed' = witnessed
    BY <1>1 DEF Recognises, IsBack
<1>3. flight[f].arg \in Sessions \cup {NoSession} /\ flight[f].user = FolkOf(flight[f].arg)
    BY <1>0, <1>2 DEF PageTyped, FlightType, Truthful
<1>4. /\ r \in FlightType /\ r.at # "back" /\ ~r.live /\ r.kind \in {"idle", "load"}
      /\ IF flight[f].arg = NoSession THEN r.kind = "idle"
         ELSE r.kind = "load" /\ r.token = flight[f].arg
  <2>1. flight[f].user = NoFolk <=> flight[f].arg = NoSession
      BY <1>3, NobodyIsNoFolk
  <2>2. CASE flight[f].arg = NoSession
      BY <1>1, <2>1, <2>2, NoFlightShape
  <2>3. CASE flight[f].arg # NoSession
    <3>1. r = [NoFlight EXCEPT !.kind = "load", !.token = flight[f].arg, !.at = "sent"]
        BY <1>1, <2>1, <2>3
    <3> QED
        BY <1>3, <2>3, <3>1 DEF NoFlight, FlightType, FlightKinds
  <2> QED
      BY <2>2, <2>3
<1>5. flight'[f] = r /\ \A g \in Flights : g # f => flight'[g] = flight[g]
    BY <1>0, <1>2 DEF PageTyped
<1>6. PageTyped'
  <2>1. flight' \in [Flights -> FlightType]
      BY <1>0, <1>2, <1>4 DEF PageTyped
  <2> QED
      BY <1>0, <1>2, <1>3, <2>1 DEF PageTyped
<1>7. FlightsHold'
    BY <1>0, <1>2, <1>4, <1>5 DEF FlightsHold, Truthful, IsBack, InOrder, Overtakes, FolkOf
<1>8. "crossed" \notin odd' =>
          /\ NobodyIn /\ witnessed = {} /\ badge = flight[f].arg
          /\ \A g \in Flights : g # f => flight[g] = NoFlight
    BY <1>0, <1>2, RestAlone DEF Uncrossed, SomebodyIn, NobodyIn
<1>9. Uncrossed'
  <2> SUFFICES ASSUME "crossed" \notin odd'
               PROVE  IF me' = NoSession THEN NobodyIn' ELSE SomebodyIn'
      BY DEF Uncrossed
  <2>1. CASE me' = NoSession
      BY <1>2, <1>4, <1>5, <1>8, <2>1, NoFlightShape DEF NobodyIn
  <2>2. CASE me' # NoSession
    <3>1. badge' = me' /\ shown'.user = NoFolk
        BY <1>2, <1>8 DEF NobodyIn, Blank
    <3> QED
        BY <1>2, <1>4, <1>5, <1>8, <2>2, <3>1, NoFlightShape DEF SomebodyIn, IsBack
  <2> QED
      BY <2>1, <2>2
<1>10. Watched'
    BY <1>2, <1>8 DEF Watched
<1>11. Armed'
    BY <1>0, <1>2, <1>5 DEF Armed
<1> QED
    BY <1>6, <1>7, <1>9, <1>10, <1>11 DEF PageInv

LEMMA NextPage == PageInv /\ [PgNext]_pgVars => PageInv'
<1> SUFFICES ASSUME PageInv, [PgNext]_pgVars PROVE PageInv'
    OBVIOUS
<1>0. PageTyped
    BY DEF PageInv
<1>1. CASE UNCHANGED pgVars
    BY <1>1 DEF pgVars, PageInv, PageTyped, FlightsHold, Truthful, Overtakes, InOrder, IsBack,
                Uncrossed, NobodyIn, SomebodyIn, Watched, Armed, FolkOf
<1>2. ASSUME NEW f \in Flights, NEW s \in Sessions, PressLogin(f, s) PROVE PageInv'
  <2>1. me = NoSession /\ Sends(f, "login", s) /\ timer' = timer /\ s # NoSession
      BY <1>2, PageAssumption DEF PressLogin
  <2> QED
      BY <2>1, RequestLeaves
<1>3. ASSUME NEW f \in Flights, PressLogout(f) PROVE PageInv'
  <2>1. me # NoSession /\ Sends(f, "logout", NoSession) /\ timer' = timer
      BY <1>3 DEF PressLogout
  <2> QED
      BY <2>1, RequestLeaves
<1>4. ASSUME NEW f \in Flights, Act(f) PROVE PageInv'
  <2>1. me # NoSession /\ Sends(f, "act", NoSession) /\ timer' = timer
      BY <1>4 DEF Act
  <2> QED
      BY <2>1, RequestLeaves
<1>5. ASSUME NEW f \in Flights, Poll(f) PROVE PageInv'
  <2>1. timer /\ Sends(f, "poll", NoSession) /\ timer' = FALSE
      BY <1>5 DEF Poll
  <2> QED
      BY <2>1, RequestLeaves
<1>6. ASSUME NEW f \in Flights, Reopens(f) PROVE PageInv'
    BY <1>6, OpensAgain
<1>7. ASSUME NEW f \in Flights, Serves(f) PROVE PageInv'
    BY <1>7, ServesKeeps
<1>8. ASSUME NEW f \in Flights, Refused(f) PROVE PageInv'
    BY <1>8, ForgetsKeeps DEF Refused
<1>9. ASSUME NEW f \in Flights, SignsOut(f) PROVE PageInv'
    BY <1>9, ForgetsKeeps DEF SignsOut
<1>10. ASSUME NEW f \in Flights, Absorbs(f) \/ SignsIn(f) \/ Recognises(f) \/ Breaks(f)
       PROVE PageInv'
    BY <1>10, AbsorbsKeeps, SignsInKeeps, RecognisesKeeps, BreaksKeeps
<1>11. ASSUME NEW u \in Folk, RunEnds(u) PROVE PageInv'
    BY <1>11, RunEndsKeeps
<1>12. ASSUME NEW s \in Sessions \cup {NoSession}, CookieChanges(s) PROVE PageInv'
    BY <1>12, CookieKeeps
<1> QED
    BY <1>1, <1>2, <1>3, <1>4, <1>5, <1>6, <1>7, <1>8, <1>9, <1>10, <1>11, <1>12 DEF PgNext
-----------------------------------------------------------------------------
(* Drafts *)

DraftType == [by : Tokens \cup {NoToken}, token : Tokens \cup {NoToken},
              at : {"none", "sent", "kept", "done", "full", "bad", "out"}]
ReplayType == [on : BOOLEAN, asked : BOOLEAN, left : Seq(Edits), stays : Seq(Edits)]

DraftsTyped ==
    /\ jar \in Tokens \cup {NoToken} /\ held \in Tokens \cup {NoToken}
    /\ sent \in [Edits -> DraftType]
    /\ stash \in Seq(Edits) /\ Len(stash) <= Room
    /\ replay \in ReplayType
    /\ \A t \in taken : t[1] \in Edits

\* Whose an edit is never changes once it was made, and only what was made is
\* queued or taken.
HasAuthor(e) == sent[e].by # NoToken
Queued == ToSet(stash) \cup ToSet(replay.left) \cup ToSet(replay.stays)
Authors ==
    /\ \A e \in Edits : sent[e] = Unsent \/ HasAuthor(e)
    /\ \A e \in Queued : HasAuthor(e)
    /\ \A t \in taken : HasAuthor(t[1])

\* A request goes out as its author's, unless it was carried.
SentForAuthor(e) ==
    sent[e].at = "sent" => \/ e \in carried \/ sent[e].token = NoToken
                           \/ AuthorOf[sent[e].token] = AuthorOf[sent[e].by]

\* The copy a replay works on holds nothing that the queue has lost unnoticed,
\* and what is owed is in the one that will be the queue next.
ReplayHolds ==
    /\ replay.asked => replay.on /\ replay.left # <<>>
    /\ replay.on =>
          /\ Len(replay.left) + Len(replay.stays) <= Room
          /\ ToSet(replay.left) \cup ToSet(replay.stays) \subseteq ToSet(stash) \cup spilled
          /\ owed \subseteq ToSet(replay.left) \cup ToSet(replay.stays) \cup spilled
    /\ ~replay.on => owed \subseteq ToSet(stash) \cup spilled

DraftsInv ==
    /\ DraftsTyped /\ Authors /\ ReplayHolds /\ TakenForItsAuthor
    /\ \A e \in Edits : SentForAuthor(e)

LEMMA DraftsKeep == DraftsInv => DraftsHold
<1> SUFFICES ASSUME DraftsInv PROVE DraftsHold
    OBVIOUS
<1>1. DraftsTyped /\ ReplayHolds /\ TakenForItsAuthor
    BY DEF DraftsInv
<1>2. replay.on \in BOOLEAN
    BY <1>1 DEF DraftsTyped, ReplayType
<1>3. OwedIsKept
    BY <1>1, <1>2 DEF ReplayHolds, OwedIsKept
<1> QED
    BY <1>1, <1>3 DEF DraftsHold

LEMMA EditsAppended ==
    ASSUME NEW S, NEW s \in Seq(S), NEW e \in S
    PROVE  /\ Append(s, e) \in Seq(S) /\ Len(Append(s, e)) = Len(s) + 1
           /\ ToSet(Append(s, e)) = ToSet(s) \cup {e}
<1>1. Append(s, e) \in Seq(S) /\ Len(Append(s, e)) = Len(s) + 1 /\ Len(s) \in Nat
    OBVIOUS
<1>2. \A i \in 1..Len(s) : Append(s, e)[i] = s[i]
    OBVIOUS
<1>3. Append(s, e)[Len(s) + 1] = e
    OBVIOUS
<1>4. DOMAIN s = 1..Len(s) /\ DOMAIN Append(s, e) = 1..(Len(s) + 1)
    BY <1>1
<1>5. 1..(Len(s) + 1) = 1..Len(s) \cup {Len(s) + 1}
    BY <1>1
<1> QED
    BY <1>1, <1>2, <1>3, <1>4, <1>5 DEF ToSet

LEMMA EditsTailed ==
    ASSUME NEW S, NEW s \in Seq(S), s # <<>>
    PROVE  /\ Tail(s) \in Seq(S) /\ Len(Tail(s)) = Len(s) - 1 /\ Len(s) \in Nat \ {0}
           /\ Head(s) \in ToSet(s) /\ Head(s) \in S
           /\ ToSet(s) = ToSet(Tail(s)) \cup {Head(s)}
<1>1. Tail(s) \in Seq(S) /\ Len(Tail(s)) = Len(s) - 1 /\ Len(s) \in Nat \ {0}
    OBVIOUS
<1>2. \A i \in 1..(Len(s) - 1) : Tail(s)[i] = s[i + 1]
    OBVIOUS
<1>3. Head(s) = s[1] /\ Head(s) \in S
    OBVIOUS
<1>4. DOMAIN s = 1..Len(s) /\ DOMAIN Tail(s) = 1..(Len(s) - 1)
    BY <1>1
<1>5. Head(s) \in ToSet(s)
    BY <1>1, <1>3, <1>4 DEF ToSet
<1>6. ASSUME NEW x \in ToSet(s) PROVE x \in ToSet(Tail(s)) \cup {Head(s)}
  <2>1. PICK i \in 1..Len(s) : x = s[i]
      BY <1>4 DEF ToSet
  <2>2. CASE i = 1
      BY <1>3, <2>1, <2>2
  <2>3. CASE i # 1
    <3>1. i - 1 \in 1..(Len(s) - 1) /\ Tail(s)[i - 1] = x
        BY <1>1, <1>2, <2>1, <2>3
    <3> QED
        BY <1>4, <3>1 DEF ToSet
  <2> QED
      BY <2>2, <2>3
<1>7. ASSUME NEW x \in ToSet(Tail(s)) PROVE x \in ToSet(s)
  <2>1. PICK i \in 1..(Len(s) - 1) : x = Tail(s)[i]
      BY <1>4 DEF ToSet
  <2>2. i + 1 \in 1..Len(s) /\ x = s[i + 1]
      BY <1>1, <1>2, <2>1
  <2> QED
      BY <1>4, <2>2 DEF ToSet
<1> QED
    BY <1>1, <1>3, <1>5, <1>6, <1>7

\* The queue keeps the last Room entries, and loses at most its head.
LEMMA EditsTrimmed ==
    ASSUME NEW S, NEW s \in Seq(S), NEW e \in S, Len(s) <= Room
    PROVE  /\ Trimmed(Append(s, e)) \in Seq(S) /\ Len(Trimmed(Append(s, e))) <= Room
           /\ ToSet(Trimmed(Append(s, e))) \subseteq ToSet(s) \cup {e}
           /\ ToSet(s) \cup {e} \subseteq ToSet(Trimmed(Append(s, e)))
                                         \cup (IF Len(s) = Room THEN {Head(s)} ELSE {})
<1>1. PICK q \in Seq(S) : q = Append(s, e)
    BY EditsAppended
<1>2. Len(q) = Len(s) + 1 /\ ToSet(q) = ToSet(s) \cup {e} /\ Len(s) \in Nat /\ Room \in Nat
    BY <1>1, EditsAppended, DraftsAssumption
<1> DEFINE n == IF Len(q) > Room THEN Len(q) - Room ELSE 0
<1>0. Trimmed(q) = SubSeq(q, n + 1, Len(q))
    BY DEF Trimmed
<1> HIDE DEF n
<1>3. CASE Len(s) < Room
  <2>1. n = 0 /\ Len(q) <= Room /\ Len(s) # Room
      BY <1>2, <1>3 DEF n
  <2>2. Trimmed(q) = q
      BY <1>0, <2>1
  <2> QED
      BY <1>1, <1>2, <2>1, <2>2
<1>4. CASE Len(s) = Room
  <2>0. n = 1
      BY <1>2, <1>4 DEF n
  <2>1. Trimmed(q) = SubSeq(q, 2, Len(q))
      BY <1>0, <2>0
  <2>2. q # <<>> /\ SubSeq(q, 2, Len(q)) = Tail(q)
      BY <1>2
  <2>3. /\ Tail(q) \in Seq(S) /\ Len(Tail(q)) = Room /\ ToSet(q) = ToSet(Tail(q)) \cup {Head(q)}
      BY <1>2, <1>4, <2>2, EditsTailed
  <2>4. Head(q) = Head(s)
      BY <1>1, <1>2, <1>4, DraftsAssumption
  <2> QED
      BY <1>1, <1>2, <1>4, <2>1, <2>2, <2>3, <2>4
<1> QED
    BY <1>2, <1>3, <1>4

LEMMA QueuedEdits == DraftsTyped => Queued \subseteq Edits
<1> SUFFICES ASSUME DraftsTyped PROVE Queued \subseteq Edits
    OBVIOUS
<1>1. replay.left \in Seq(Edits) /\ replay.stays \in Seq(Edits) /\ stash \in Seq(Edits)
    BY DEF DraftsTyped, ReplayType
<1>2. ASSUME NEW s \in Seq(Edits) PROVE ToSet(s) \subseteq Edits
    BY DEF ToSet
<1> QED
    BY <1>1, <1>2 DEF Queued

LEMMA DraftConstants ==
    /\ Unsent \in DraftType /\ Unsent.by = NoToken /\ Unsent.at = "none"
    /\ NoReplay \in ReplayType /\ ~NoReplay.on /\ ~NoReplay.asked
    /\ NoReplay.left = <<>> /\ NoReplay.stays = <<>>
BY DEF Unsent, DraftType, NoReplay, ReplayType

LEMMA InitDrafts == DfInit => DraftsInv
<1> SUFFICES ASSUME DfInit PROVE DraftsInv
    OBVIOUS
<1>1. \A e \in Edits : sent[e] = Unsent
    BY DEF DfInit
<1>2. ToSet(<<>>) = {}
    BY DEF ToSet
<1>3. DraftsTyped
    BY DraftConstants, DraftsAssumption DEF DfInit, DraftsTyped
<1>4. Authors
    BY <1>1, <1>2, DraftConstants DEF DfInit, Authors, Queued
<1>5. ReplayHolds
    BY DraftConstants DEF DfInit, ReplayHolds
<1>6. TakenForItsAuthor /\ \A e \in Edits : SentForAuthor(e)
    BY <1>1, DraftConstants DEF DfInit, TakenForItsAuthor, SentForAuthor
<1> QED
    BY <1>3, <1>4, <1>5, <1>6 DEF DraftsInv

\* A request is rewritten: its author stays.
LEMMA Rewritten ==
    ASSUME DraftsTyped, NEW e \in Edits, NEW token \in Tokens \cup {NoToken},
           NEW at \in {"none", "sent", "kept", "done", "full", "bad", "out"},
           sent' = [sent EXCEPT ![e].token = token, ![e].at = at]
    PROVE  /\ sent' \in [Edits -> DraftType]
           /\ \A d \in Edits : d # e => sent'[d] = sent[d]
           /\ sent'[e].by = sent[e].by /\ sent'[e].token = token /\ sent'[e].at = at
<1>1. PICK q \in DraftType : q = sent[e]
    BY DEF DraftsTyped
<1>2. PICK r : r = [q EXCEPT !.token = token, !.at = at]
    OBVIOUS
<1>3. sent' = [sent EXCEPT ![e] = r]
    BY <1>1, <1>2 DEF DraftsTyped
<1>4. r \in DraftType /\ r.by = q.by /\ r.token = token /\ r.at = at
    BY <1>1, <1>2 DEF DraftType
<1> QED
    BY <1>1, <1>3, <1>4 DEF DraftsTyped

\* Who made what was queued or taken is still known then.
LEMMA AuthorsStay ==
    ASSUME DraftsInv, \A d \in Edits : HasAuthor(d) => sent'[d].by = sent[d].by,
           taken' = taken, carried \subseteq carried'
    PROVE  TakenForItsAuthor' /\ \A t \in taken' : HasAuthor(t[1])'
BY DEF DraftsInv, DraftsTyped, Authors, HasAuthor, TakenForItsAuthor

LEMMA EditKeeps == ASSUME DraftsInv, NEW e \in Edits, Edit(e) PROVE DraftsInv'
<1>0. DraftsTyped /\ Authors /\ ReplayHolds /\ \A d \in Edits : SentForAuthor(d)
    BY DEF DraftsInv
<1>1. PICK r : r = [by |-> held, token |-> held, at |-> "sent"]
    OBVIOUS
<1>2. /\ held # NoToken /\ sent[e] = Unsent /\ sent' = [sent EXCEPT ![e] = r]
      /\ jar' = jar /\ held' = held /\ stash' = stash /\ replay' = replay /\ owed' = owed
      /\ spilled' = spilled /\ taken' = taken /\ carried' = carried
    BY <1>1 DEF Edit
<1>3. r \in DraftType /\ r.by = held /\ r.token = held /\ r.at = "sent"
    BY <1>0, <1>1 DEF DraftsTyped, DraftType
<1>4. sent'[e] = r /\ \A d \in Edits : d # e => sent'[d] = sent[d]
    BY <1>0, <1>2 DEF DraftsTyped
<1>5. ~HasAuthor(e)
    BY <1>2, DraftConstants DEF HasAuthor
<1>6. DraftsTyped'
  <2>1. sent' \in [Edits -> DraftType]
      BY <1>0, <1>2, <1>3 DEF DraftsTyped
  <2> QED
      BY <1>0, <1>2, <2>1 DEF DraftsTyped
<1>7. TakenForItsAuthor' /\ \A t \in taken' : HasAuthor(t[1])'
    BY <1>2, <1>4, <1>5, AuthorsStay
<1>8. Authors'
  <2>1. Queued' = Queued
      BY <1>2 DEF Queued
  <2>2. \A d \in Edits : sent'[d] = Unsent \/ HasAuthor(d)'
      BY <1>0, <1>2, <1>3, <1>4 DEF Authors, HasAuthor
  <2>3. \A d \in Queued : d # e /\ d \in Edits
    <3>1. Queued \subseteq Edits
        BY <1>0, QueuedEdits
    <3> QED
        BY <1>0, <1>5, <3>1 DEF Authors
  <2>4. \A d \in Queued : HasAuthor(d)'
      BY <1>0, <1>4, <2>3 DEF Authors, HasAuthor
  <2> QED
      BY <1>7, <2>1, <2>2, <2>4 DEF Authors
<1>9. ReplayHolds'
    BY <1>0, <1>2 DEF ReplayHolds
<1>10. \A d \in Edits : SentForAuthor(d)'
    BY <1>0, <1>2, <1>3, <1>4 DEF SentForAuthor
<1> QED
    BY <1>6, <1>7, <1>8, <1>9, <1>10 DEF DraftsInv

\* Only whose cookie it is, or whom the page holds, changes.
LEMMA SessionKeeps ==
    ASSUME DraftsInv, NEW s \in Tokens \cup {NoToken}, JarChanges(s) \/ HeldChanges(s)
    PROVE  DraftsInv'
<1>1. /\ jar' \in Tokens \cup {NoToken} /\ held' \in Tokens \cup {NoToken}
      /\ sent' = sent /\ stash' = stash /\ replay' = replay /\ owed' = owed
      /\ spilled' = spilled /\ taken' = taken /\ carried' = carried
    BY DEF JarChanges, HeldChanges, DraftsInv, DraftsTyped
<1> QED
    BY <1>1 DEF DraftsInv, DraftsTyped, Authors, HasAuthor, Queued, ReplayHolds,
                TakenForItsAuthor, SentForAuthor

LEMMA JudgesKeeps ==
    ASSUME DraftsInv, NEW e \in Edits, NEW end \in Verdicts, Judges(e, end)
    PROVE  DraftsInv'
<1>0. /\ DraftsTyped /\ Authors /\ ReplayHolds /\ TakenForItsAuthor
      /\ \A d \in Edits : SentForAuthor(d)
    BY DEF DraftsInv
<1>1. PICK at : at = IF end = "full" \/ Asking(e) THEN end ELSE "kept"
    OBVIOUS
<1>2. /\ sent[e].at = "sent" /\ ((end = "out") <=> ~TokenFits(sent[e].token))
      /\ sent' = [sent EXCEPT ![e].token = NoToken, ![e].at = at]
      /\ taken' = IF end = "done" THEN taken \cup {<<e, AuthorOf[jar]>>} ELSE taken
      /\ jar' = jar /\ held' = held /\ stash' = stash /\ replay' = replay /\ owed' = owed
      /\ spilled' = spilled /\ carried' = carried
    BY <1>1 DEF Judges
<1>3. at \in {"kept", "done", "full", "bad", "out"}
    BY <1>1 DEF Verdicts
<1>4. /\ sent' \in [Edits -> DraftType]
      /\ \A d \in Edits : d # e => sent'[d] = sent[d]
      /\ sent'[e].by = sent[e].by /\ sent'[e].token = NoToken /\ sent'[e].at = at
    BY <1>0, <1>2, <1>3, Rewritten
<1>5. HasAuthor(e)
    BY <1>0, <1>2, DraftConstants DEF Authors
<1>6. DraftsTyped'
    BY <1>0, <1>2, <1>4 DEF DraftsTyped
<1>7. \A d \in Edits : sent'[d].by = sent[d].by
    BY <1>4
<1>8. Authors'
  <2>1. Queued' = Queued /\ Queued \subseteq Edits
      BY <1>0, <1>2, QueuedEdits DEF Queued
  <2>2. \A d \in Edits : sent'[d] = Unsent \/ HasAuthor(d)'
      BY <1>0, <1>4, <1>5, <1>7 DEF Authors, HasAuthor
  <2>3. \A t \in taken' : t[1] \in Edits /\ HasAuthor(t[1])
      BY <1>0, <1>2, <1>5 DEF Authors, DraftsTyped
  <2> QED
      BY <1>0, <1>7, <2>1, <2>2, <2>3 DEF Authors, HasAuthor
<1>9. ReplayHolds'
    BY <1>0, <1>2 DEF ReplayHolds
<1>10. TakenForItsAuthor'
  <2>1. end = "done" => e \in carried \/ AuthorOf[jar] = AuthorOf[sent[e].by]
      BY <1>0, <1>2 DEF SentForAuthor, TokenFits
  <2>2. ASSUME NEW t \in taken
        PROVE  t[1] \in carried' \/ t[2] = AuthorOf[sent'[t[1]].by]
    <3>1. t[1] \in Edits
        BY <1>0 DEF DraftsTyped
    <3> QED
        BY <1>0, <1>2, <1>7, <3>1 DEF TakenForItsAuthor
  <2>3. ASSUME NEW t \in taken', t \notin taken
        PROVE  t[1] \in carried' \/ t[2] = AuthorOf[sent'[t[1]].by]
    <3>1. end = "done" /\ t = <<e, AuthorOf[jar]>>
        BY <1>2, <2>3
    <3>2. t[1] = e /\ t[2] = AuthorOf[jar]
        BY <3>1
    <3> QED
        BY <1>2, <1>7, <2>1, <3>1, <3>2
  <2> QED
      BY <2>2, <2>3 DEF TakenForItsAuthor
<1>11. \A d \in Edits : SentForAuthor(d)'
    BY <1>0, <1>2, <1>3, <1>4 DEF SentForAuthor
<1> QED
    BY <1>6, <1>8, <1>9, <1>10, <1>11 DEF DraftsInv

LEMMA PreserveKeeps == ASSUME DraftsInv, NEW e \in Edits, Preserve(e) PROVE DraftsInv'
<1>0. DraftsTyped /\ Authors /\ ReplayHolds /\ \A d \in Edits : SentForAuthor(d)
    BY DEF DraftsInv
<1>1. /\ sent[e].at = "full" /\ sent' = [sent EXCEPT ![e].at = "kept"]
      /\ stash' = Trimmed(Append(stash, e)) /\ owed' = owed \cup {e}
      /\ spilled' = spilled \cup (IF replay.on THEN {e} ELSE {})
                            \cup (IF Len(stash) = Room THEN {Head(stash)} ELSE {})
      /\ jar' = jar /\ held' = held /\ replay' = replay /\ taken' = taken /\ carried' = carried
    BY DEF Preserve
<1>2. /\ sent' \in [Edits -> DraftType]
      /\ \A d \in Edits : d # e => sent'[d] = sent[d]
      /\ sent'[e].by = sent[e].by /\ sent'[e].at = "kept"
  <2>1. PICK q \in DraftType : q = sent[e]
      BY <1>0 DEF DraftsTyped
  <2>2. PICK r : r = [q EXCEPT !.at = "kept"]
      OBVIOUS
  <2>3. r \in DraftType /\ r.by = q.by /\ r.at = "kept"
      BY <2>1, <2>2 DEF DraftType
  <2>4. sent' = [sent EXCEPT ![e] = r]
      BY <1>1, <2>1, <2>2
  <2> QED
      BY <1>0, <2>1, <2>3, <2>4 DEF DraftsTyped
<1>3. HasAuthor(e)
    BY <1>0, <1>1, DraftConstants DEF Authors
<1>4. /\ stash' \in Seq(Edits) /\ Len(stash') <= Room
      /\ ToSet(stash') \subseteq ToSet(stash) \cup {e}
      /\ ToSet(stash) \cup {e} \subseteq ToSet(stash')
                                       \cup (IF Len(stash) = Room THEN {Head(stash)} ELSE {})
    BY <1>0, <1>1, EditsTrimmed DEF DraftsTyped
<1>5. DraftsTyped'
    BY <1>0, <1>1, <1>2, <1>4 DEF DraftsTyped
<1>6. \A d \in Edits : sent'[d].by = sent[d].by
    BY <1>2
<1>7. TakenForItsAuthor' /\ \A t \in taken' : HasAuthor(t[1])'
    BY <1>1, <1>6, AuthorsStay
<1>8. Authors'
  <2>1. Queued' \subseteq Queued \cup {e} /\ Queued \subseteq Edits
      BY <1>0, <1>1, <1>4, QueuedEdits DEF Queued
  <2>2. \A d \in Edits : sent'[d] = Unsent \/ HasAuthor(d)'
      BY <1>0, <1>2, <1>3, <1>6 DEF Authors, HasAuthor
  <2>3. \A d \in Queued' : HasAuthor(d)'
      BY <1>0, <1>3, <1>6, <2>1 DEF Authors, HasAuthor
  <2> QED
      BY <1>7, <2>2, <2>3 DEF Authors
<1>9. ReplayHolds'
  <2>1. replay.on \in BOOLEAN
      BY <1>0 DEF DraftsTyped, ReplayType
  <2> QED
      BY <1>0, <1>1, <1>4, <2>1 DEF ReplayHolds
<1>10. \A d \in Edits : SentForAuthor(d)'
    BY <1>0, <1>1, <1>2 DEF SentForAuthor
<1> QED
    BY <1>5, <1>7, <1>8, <1>9, <1>10 DEF DraftsInv

LEMMA BeginReplayKeeps == ASSUME DraftsInv, BeginReplay PROVE DraftsInv'
<1>0. DraftsTyped /\ Authors /\ ReplayHolds /\ \A d \in Edits : SentForAuthor(d)
    BY DEF DraftsInv
<1>1. /\ ~replay.on /\ replay' = [NoReplay EXCEPT !.on = TRUE, !.left = stash]
      /\ jar' = jar /\ held' = held /\ sent' = sent /\ stash' = stash /\ owed' = owed
      /\ spilled' = spilled /\ taken' = taken /\ carried' = carried
    BY DEF BeginReplay
<1>2. /\ replay' \in ReplayType /\ replay'.on /\ ~replay'.asked
      /\ replay'.left = stash /\ replay'.stays = <<>>
  <2>1. PICK n \in ReplayType : n = NoReplay
      BY DraftConstants
  <2>2. PICK r : r = [n EXCEPT !.on = TRUE, !.left = stash]
      OBVIOUS
  <2>3. stash \in Seq(Edits)
      BY <1>0 DEF DraftsTyped
  <2>4. r \in ReplayType /\ r.on /\ r.asked = n.asked /\ r.left = stash /\ r.stays = n.stays
      BY <2>2, <2>3 DEF ReplayType
  <2> QED
      BY <1>1, <2>1, <2>2, <2>4, DraftConstants
<1>3. ToSet(<<>>) = {} /\ Len(<<>>) = 0
    BY DEF ToSet
<1>4. DraftsTyped'
    BY <1>0, <1>1, <1>2 DEF DraftsTyped
<1>5. TakenForItsAuthor' /\ \A t \in taken' : HasAuthor(t[1])'
    BY <1>1, AuthorsStay
<1>6. Authors'
    BY <1>0, <1>1, <1>2, <1>3, <1>5 DEF Authors, HasAuthor, Queued
<1>7. ReplayHolds'
  <2>1. Len(stash) \in Nat /\ Len(stash) <= Room
      BY <1>0 DEF DraftsTyped
  <2> QED
      BY <1>0, <1>1, <1>2, <1>3, <2>1 DEF ReplayHolds
<1>8. \A d \in Edits : SentForAuthor(d)'
    BY <1>0, <1>1 DEF SentForAuthor
<1> QED
    BY <1>4, <1>5, <1>6, <1>7, <1>8 DEF DraftsInv

LEMMA SendAgainKeeps == ASSUME DraftsInv, SendAgain PROVE DraftsInv'
<1>0. DraftsTyped /\ Authors /\ ReplayHolds /\ \A d \in Edits : SentForAuthor(d)
    BY DEF DraftsInv
<1>1. PICK e : e = Head(replay.left)
    OBVIOUS
<1>2. /\ replay.on /\ replay.left # <<>> /\ replay' = [replay EXCEPT !.asked = TRUE]
      /\ sent' = [sent EXCEPT ![e].token = held, ![e].at = "sent"]
      /\ carried' = IF held # NoToken /\ AuthorOf[held] # AuthorOf[sent[e].by]
                    THEN carried \cup {e} ELSE carried
      /\ jar' = jar /\ held' = held /\ stash' = stash /\ owed' = owed
      /\ spilled' = spilled /\ taken' = taken
    BY <1>1 DEF SendAgain
<1>3. replay.left \in Seq(Edits) /\ e \in Edits /\ e \in ToSet(replay.left)
    BY <1>0, <1>1, <1>2, EditsTailed DEF DraftsTyped, ReplayType
<1>4. held \in Tokens \cup {NoToken}
    BY <1>0 DEF DraftsTyped
<1>5. /\ sent' \in [Edits -> DraftType]
      /\ \A d \in Edits : d # e => sent'[d] = sent[d]
      /\ sent'[e].by = sent[e].by /\ sent'[e].token = held /\ sent'[e].at = "sent"
    BY <1>0, <1>2, <1>3, <1>4, Rewritten
<1>6. /\ replay' \in ReplayType /\ replay'.on = replay.on
      /\ replay'.left = replay.left /\ replay'.stays = replay.stays
    BY <1>0, <1>2 DEF DraftsTyped, ReplayType
<1>7. DraftsTyped'
    BY <1>0, <1>2, <1>5, <1>6 DEF DraftsTyped
<1>8. \A d \in Edits : sent'[d].by = sent[d].by
    BY <1>5
<1>9. TakenForItsAuthor' /\ \A t \in taken' : HasAuthor(t[1])'
    BY <1>2, <1>8, AuthorsStay
<1>10. Authors'
  <2>1. Queued' = Queued /\ Queued \subseteq Edits
      BY <1>0, <1>2, <1>6, QueuedEdits DEF Queued
  <2>2. HasAuthor(e)
      BY <1>0, <1>3 DEF Authors, Queued
  <2>3. \A d \in Edits : sent'[d] = Unsent \/ HasAuthor(d)'
      BY <1>0, <1>5, <1>8, <2>2 DEF Authors, HasAuthor
  <2> QED
      BY <1>0, <1>8, <1>9, <2>1, <2>3 DEF Authors, HasAuthor
<1>11. ReplayHolds'
    BY <1>0, <1>2, <1>6 DEF ReplayHolds
<1>12. \A d \in Edits : SentForAuthor(d)'
    BY <1>0, <1>2, <1>5 DEF SentForAuthor
<1> QED
    BY <1>7, <1>9, <1>10, <1>11, <1>12 DEF DraftsInv

LEMMA SettleKeeps ==
    ASSUME DraftsInv, NEW end \in Verdicts \cup {"lost"}, Settle(end) PROVE DraftsInv'
<1>0. DraftsTyped /\ Authors /\ ReplayHolds /\ \A d \in Edits : SentForAuthor(d)
    BY DEF DraftsInv
<1>1. PICK e : e = Head(replay.left)
    OBVIOUS
<1>2. PICK back : back = IF Stays(end) THEN Append(replay.stays, e) ELSE replay.stays
    OBVIOUS
<1>3. /\ replay.asked
      /\ replay' = [replay EXCEPT !.asked = FALSE, !.left = Tail(replay.left), !.stays = back]
      /\ sent' = [sent EXCEPT ![e].token = NoToken, ![e].at = "kept"]
      /\ owed' = IF end \in {"full", "lost"} THEN owed ELSE owed \ {e}
      /\ jar' = jar /\ held' = held /\ stash' = stash
      /\ spilled' = spilled /\ taken' = taken /\ carried' = carried
    BY <1>1, <1>2 DEF Settle
<1>4. replay.on /\ replay.left # <<>>
    BY <1>0, <1>3 DEF ReplayHolds
<1>5. /\ Tail(replay.left) \in Seq(Edits) /\ Len(Tail(replay.left)) = Len(replay.left) - 1
      /\ e \in Edits /\ ToSet(replay.left) = ToSet(Tail(replay.left)) \cup {e}
      /\ Len(replay.left) \in Nat
    BY <1>0, <1>1, <1>4, EditsTailed DEF DraftsTyped, ReplayType
<1>6. /\ back \in Seq(Edits) /\ Len(back) <= Len(replay.stays) + 1
      /\ Len(replay.stays) \in Nat /\ Len(back) \in Nat
      /\ ToSet(back) = ToSet(replay.stays) \cup (IF Stays(end) THEN {e} ELSE {})
  <2>1. replay.stays \in Seq(Edits)
      BY <1>0 DEF DraftsTyped, ReplayType
  <2>2. CASE Stays(end)
      BY <1>2, <1>5, <2>1, <2>2, EditsAppended
  <2>3. CASE ~Stays(end)
      BY <1>2, <2>1, <2>3
  <2> QED
      BY <2>2, <2>3
<1>7. /\ sent' \in [Edits -> DraftType]
      /\ \A d \in Edits : d # e => sent'[d] = sent[d]
      /\ sent'[e].by = sent[e].by /\ sent'[e].token = NoToken /\ sent'[e].at = "kept"
    BY <1>0, <1>3, <1>5, Rewritten
<1>8. /\ replay' \in ReplayType /\ replay'.on = replay.on /\ ~replay'.asked
      /\ replay'.left = Tail(replay.left) /\ replay'.stays = back
    BY <1>0, <1>3, <1>5, <1>6 DEF DraftsTyped, ReplayType
<1>9. DraftsTyped'
    BY <1>0, <1>3, <1>7, <1>8 DEF DraftsTyped
<1>10. \A d \in Edits : sent'[d].by = sent[d].by
    BY <1>7
<1>11. TakenForItsAuthor' /\ \A t \in taken' : HasAuthor(t[1])'
    BY <1>3, <1>10, AuthorsStay
<1>12. Authors'
  <2>1. Queued' \subseteq Queued /\ e \in Queued
      BY <1>3, <1>5, <1>6, <1>8 DEF Queued
  <2>2. Queued \subseteq Edits
      BY <1>0, QueuedEdits
  <2>3. \A d \in Edits : sent'[d] = Unsent \/ HasAuthor(d)'
      BY <1>0, <1>7, <1>10, <2>1 DEF Authors, HasAuthor
  <2> QED
      BY <1>0, <1>10, <1>11, <2>1, <2>2, <2>3 DEF Authors, HasAuthor
<1>13. ReplayHolds'
  <2>1. Len(Tail(replay.left)) + Len(back) <= Room
    <3>1. Len(replay.left) + Len(replay.stays) <= Room /\ Room \in Nat
        BY <1>0, <1>4, DraftsAssumption DEF ReplayHolds
    <3>2. PICK m \in Nat, k \in Nat, b \in Nat, l \in Int :
              /\ m = Len(replay.left) /\ k = Len(replay.stays) /\ b = Len(back)
              /\ l = Len(Tail(replay.left))
      <4>1. Len(replay.left) \in Nat /\ Len(replay.stays) \in Nat /\ Len(back) \in Nat
          BY <1>5, <1>6
      <4>2. Len(Tail(replay.left)) \in Int
          BY <1>5
      <4> QED
          BY <4>1, <4>2
    <3>3. l = m - 1 /\ b <= k + 1 /\ m + k <= Room
        BY <1>5, <1>6, <3>1, <3>2
    <3>4. l + b <= Room
        BY <3>1, <3>3
    <3> QED
        BY <3>2, <3>4
  <2>2. ToSet(Tail(replay.left)) \cup ToSet(back) \subseteq ToSet(stash) \cup spilled
      BY <1>0, <1>4, <1>5, <1>6 DEF ReplayHolds
  <2>3. owed' \subseteq ToSet(Tail(replay.left)) \cup ToSet(back) \cup spilled
      BY <1>0, <1>3, <1>4, <1>5, <1>6 DEF ReplayHolds, Stays
  <2> QED
      BY <1>3, <1>4, <1>8, <2>1, <2>2, <2>3 DEF ReplayHolds
<1>14. \A d \in Edits : SentForAuthor(d)'
    BY <1>0, <1>3, <1>7 DEF SentForAuthor
<1> QED
    BY <1>9, <1>11, <1>12, <1>13, <1>14 DEF DraftsInv

LEMMA EndReplayKeeps == ASSUME DraftsInv, EndReplay PROVE DraftsInv'
<1>0. DraftsTyped /\ Authors /\ ReplayHolds /\ \A d \in Edits : SentForAuthor(d)
    BY DEF DraftsInv
<1>1. /\ replay.on /\ replay.left = <<>> /\ stash' = replay.stays /\ replay' = NoReplay
      /\ jar' = jar /\ held' = held /\ sent' = sent /\ owed' = owed
      /\ spilled' = spilled /\ taken' = taken /\ carried' = carried
    BY DEF EndReplay
<1>2. ToSet(<<>>) = {} /\ Len(<<>>) = 0
    BY DEF ToSet
<1>3. stash' \in Seq(Edits) /\ Len(stash') <= Room
  <2>1. replay.stays \in Seq(Edits) /\ Len(replay.stays) \in Nat
      BY <1>0 DEF DraftsTyped, ReplayType
  <2> QED
      BY <1>0, <1>1, <1>2, <2>1 DEF ReplayHolds
<1>4. DraftsTyped'
    BY <1>0, <1>1, <1>3, DraftConstants DEF DraftsTyped
<1>5. TakenForItsAuthor' /\ \A t \in taken' : HasAuthor(t[1])'
    BY <1>1, AuthorsStay
<1>6. Authors'
    BY <1>0, <1>1, <1>2, <1>5, DraftConstants DEF Authors, HasAuthor, Queued
<1>7. ReplayHolds'
    BY <1>0, <1>1, <1>2, DraftConstants DEF ReplayHolds
<1>8. \A d \in Edits : SentForAuthor(d)'
    BY <1>0, <1>1 DEF SentForAuthor
<1> QED
    BY <1>4, <1>5, <1>6, <1>7, <1>8 DEF DraftsInv

LEMMA ReopenedKeeps == ASSUME DraftsInv, Reopened PROVE DraftsInv'
<1>0. DraftsTyped /\ Authors /\ ReplayHolds
    BY DEF DraftsInv
<1>1. /\ held' = NoToken /\ replay' = NoReplay
      /\ sent' = [e \in Edits |-> IF sent[e] = Unsent THEN Unsent
                                  ELSE [sent[e] EXCEPT !.at = "kept", !.token = NoToken]]
      /\ jar' = jar /\ stash' = stash /\ owed' = owed
      /\ spilled' = spilled /\ taken' = taken /\ carried' = carried
    BY DEF Reopened
<1>2. ASSUME NEW e \in Edits
      PROVE  /\ sent'[e] \in DraftType /\ sent'[e].by = sent[e].by /\ sent'[e].at # "sent"
             /\ sent[e] = Unsent => sent'[e] = Unsent
  <2>1. CASE sent[e] = Unsent
      BY <1>1, <2>1, DraftConstants
  <2>2. CASE sent[e] # Unsent
    <3>1. PICK q \in DraftType : q = sent[e]
        BY <1>0 DEF DraftsTyped
    <3>2. PICK r : r = [q EXCEPT !.at = "kept", !.token = NoToken]
        OBVIOUS
    <3>3. r \in DraftType /\ r.by = q.by /\ r.at = "kept"
        BY <3>1, <3>2 DEF DraftType
    <3>4. sent'[e] = r
        BY <1>1, <2>2, <3>1, <3>2
    <3> QED
        BY <2>2, <3>1, <3>3, <3>4
  <2> QED
      BY <2>1, <2>2
<1>3. sent' \in [Edits -> DraftType]
    BY <1>1, <1>2
<1>4. DraftsTyped'
    BY <1>0, <1>1, <1>3, DraftConstants DEF DraftsTyped
<1>5. TakenForItsAuthor' /\ \A t \in taken' : HasAuthor(t[1])'
    BY <1>1, <1>2, AuthorsStay
<1>6. Authors'
  <2>1. ToSet(<<>>) = {}
      BY DEF ToSet
  <2>2. Queued' \subseteq Queued /\ Queued \subseteq Edits
      BY <1>0, <1>1, <2>1, DraftConstants, QueuedEdits DEF Queued
  <2>3. \A d \in Edits : sent'[d] = Unsent \/ HasAuthor(d)'
      BY <1>0, <1>2 DEF Authors, HasAuthor
  <2> QED
      BY <1>0, <1>2, <1>5, <2>2, <2>3 DEF Authors, HasAuthor
<1>7. ReplayHolds'
  <2>1. owed \subseteq ToSet(stash) \cup spilled
    <3>1. replay.on \in BOOLEAN
        BY <1>0 DEF DraftsTyped, ReplayType
    <3> QED
        BY <1>0, <3>1 DEF ReplayHolds
  <2> QED
      BY <1>1, <2>1, DraftConstants DEF ReplayHolds
<1>8. \A d \in Edits : SentForAuthor(d)'
    BY <1>2 DEF SentForAuthor
<1> QED
    BY <1>4, <1>5, <1>6, <1>7, <1>8 DEF DraftsInv

LEMMA NextDrafts == DraftsInv /\ [DfNext]_dfVars => DraftsInv'
<1> SUFFICES ASSUME DraftsInv, [DfNext]_dfVars PROVE DraftsInv'
    OBVIOUS
<1>1. CASE UNCHANGED dfVars
    BY <1>1 DEF dfVars, DraftsInv, DraftsTyped, Authors, HasAuthor, Queued, ReplayHolds,
                TakenForItsAuthor, SentForAuthor
<1>2. CASE DfNext
  <2>1. ASSUME NEW s \in Tokens \cup {NoToken}, JarChanges(s) \/ HeldChanges(s) PROVE DraftsInv'
      BY <2>1, SessionKeeps
  <2>2. ASSUME NEW e \in Edits, Edit(e) \/ Preserve(e) PROVE DraftsInv'
      BY <2>2, EditKeeps, PreserveKeeps
  <2>3. ASSUME NEW e \in Edits, NEW end \in Verdicts, Judges(e, end) PROVE DraftsInv'
      BY <2>3, JudgesKeeps
  <2>4. CASE BeginReplay \/ SendAgain \/ EndReplay \/ Reopened
      BY <2>4, BeginReplayKeeps, SendAgainKeeps, EndReplayKeeps, ReopenedKeeps
  <2>5. ASSUME NEW end \in Verdicts \cup {"lost"}, Settle(end) PROVE DraftsInv'
      BY <2>5, SettleKeeps
  <2> QED
      BY <1>2, <2>1, <2>2, <2>3, <2>4, <2>5 DEF DfNext
<1> QED
    BY <1>1, <1>2
-----------------------------------------------------------------------------
(* All services together *)

\* Whatever the services do, each of them makes a step of its own or none.
LEMMA StepOfOne ==
    ASSUME [Next]_<<focus, lnkVars, lnkRest>>
    PROVE  /\ [LnkNext]_lnkVars /\ [SfNext]_sfVars /\ [WsNext]_wsVars /\ [SuNext]_suVars
           /\ [PgNext]_pgVars /\ [DfNext]_dfVars /\ [DclNext]_dclVars /\ [OutNext]_outVars
           /\ [SmpNext]_smpVars /\ [ExpNext]_expVars /\ [MshNext]_mshVars /\ [PrfNext]_prfVars
<1>1. CASE On("links", LnkNext, lnkRest)
    BY <1>1 DEF On, lnkRest
<1>2. CASE On("factor", SfNext, sfRest)
    BY <1>2 DEF On, sfRest
<1>3. CASE On("workspace", WsNext, wsRest)
    BY <1>3 DEF On, wsRest
<1>4. CASE On("signup", SuNext, suRest)
    BY <1>4 DEF On, suRest
<1>5. CASE On("page", PgNext, pgRest)
    BY <1>5 DEF On, pgRest
<1>6. CASE On("drafts", DfNext, dfRest)
    BY <1>6 DEF On, dfRest
<1>7. CASE On("exports", ExpNext, expRest)
    BY <1>7 DEF On, expRest
<1>8. CASE On("mesh", MshNext, mshRest)
    BY <1>8 DEF On, mshRest
<1>9. CASE On("profiles", PrfNext, prfRest)
    BY <1>9 DEF On, prfRest
<1>10. CASE On("disclosures", DclNext, dclRest)
    BY <1>10 DEF On, dclRest
<1>11. CASE On("outcomes", OutNext, outRest)
    BY <1>11 DEF On, outRest
<1>12. CASE On("samples", SmpNext, smpRest)
    BY <1>12 DEF On, smpRest
<1>13. CASE UNCHANGED <<focus, lnkVars, lnkRest>>
    BY <1>13 DEF lnkRest
<1> QED
    BY <1>1, <1>2, <1>3, <1>4, <1>5, <1>6, <1>7, <1>8, <1>9, <1>10, <1>11, <1>12, <1>13 DEF Next

\* A link or an invitation does its job at most once and is spent in vain never,
\* and a code of the second factor opens one session while it is valid, however
\* many requests present it (auth.py 640-806, app.py 3950-4110, 7560-7860).
THEOREM SecretsKept == Spec => []SecretsHold
<1>1. Init => LinksInv /\ FactorInv
    BY InitLinks, InitFactor DEF Init
<1>2. LinksInv /\ FactorInv /\ [Next]_<<focus, lnkVars, lnkRest>> => LinksInv' /\ FactorInv'
    BY StepOfOne, NextLinks, NextFactor
<1>3. LinksInv /\ FactorInv => SecretsHold
    BY LinksKeep, FactorKeeps DEF SecretsHold
<1> QED
    BY <1>1, <1>2, <1>3, PTL DEF Spec

\* Nobody joins a workspace or an account without being let in, nobody is left
\* in who was removed, and there is one first administrator (app.py 1647-1886,
\* 9433-9510, auth.py 513-638).
THEOREM PeopleKept == Spec => []PeopleHold
<1>1. Init => WorkspaceInv /\ SignUpInv
    BY InitWorkspace, InitSignUp DEF Init
<1>2. WorkspaceInv /\ SignUpInv /\ [Next]_<<focus, lnkVars, lnkRest>> => WorkspaceInv' /\ SignUpInv'
    BY StepOfOne, NextWorkspace, NextSignUp
<1>3. WorkspaceInv /\ SignUpInv => PeopleHold
    BY WorkspaceKeeps, SignUpKeeps DEF PeopleHold
<1> QED
    BY <1>1, <1>2, <1>3, PTL DEF Spec

\* The page shows whoever is signed in, keeps watching an active run, and an
\* edit the server had no room for is neither lost nor saved for somebody else,
\* whatever answers overtake each other (app.js 255-381, 437, 4528-4543).
THEOREM BrowserKept == Spec => []BrowserHolds
<1>1. Init => PageInv /\ DraftsInv
    BY InitPage, InitDrafts DEF Init
<1>2. PageInv /\ DraftsInv /\ [Next]_<<focus, lnkVars, lnkRest>> => PageInv' /\ DraftsInv'
    BY StepOfOne, NextPage, NextDrafts
<1>3. PageInv /\ DraftsInv => BrowserHolds
    BY PageKeeps, DraftsKeep DEF BrowserHolds
<1> QED
    BY <1>1, <1>2, <1>3, PTL DEF Spec
=============================================================================
