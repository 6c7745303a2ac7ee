----------------------------- MODULE MCServices -----------------------------
(***************************************************************************)
(* One small instance of each service that says who somebody is, what they *)
(* may do, and of the page in their browser, for TLC.  They share no       *)
(* state, so a behaviour works on one of them, chosen at the start; the    *)
(* others stay where they begin.                                           *)
(***************************************************************************)
EXTENDS Secrets, Workspaces, SignUp, Page, Drafts, Exports, Mesh, Profiles,
        Disclosures, Samples, TLC

VARIABLE focus

Services == {"links", "factor", "workspace", "signup", "page", "drafts",
             "exports", "mesh", "profiles", "disclosures", "outcomes",
             "samples"}

Init ==
    /\ focus \in Services
    /\ LnkInit /\ SfInit /\ WsInit /\ SuInit /\ PgInit
    /\ DfInit /\ ExpInit /\ MshInit /\ PrfInit /\ DclInit
    /\ OutInit /\ SmpInit
    /\ focus # "mesh" => agent = "housing"
    /\ focus # "outcomes" => collecting

\* A step of one service, and the variables of the others.
On(service, step, others) == focus = service /\ step /\ UNCHANGED <<focus, others>>

lnkRest == <<sfVars, wsVars, suVars, pgVars, dfVars, expVars, mshVars,
             prfVars, dclVars, outVars, smpVars>>
sfRest == <<lnkVars, wsVars, suVars, pgVars, dfVars, expVars, mshVars,
            prfVars, dclVars, outVars, smpVars>>
wsRest == <<lnkVars, sfVars, suVars, pgVars, dfVars, expVars, mshVars,
            prfVars, dclVars, outVars, smpVars>>
suRest == <<lnkVars, sfVars, wsVars, pgVars, dfVars, expVars, mshVars,
            prfVars, dclVars, outVars, smpVars>>
pgRest == <<lnkVars, sfVars, wsVars, suVars, dfVars, expVars, mshVars,
            prfVars, dclVars, outVars, smpVars>>
dfRest == <<lnkVars, sfVars, wsVars, suVars, pgVars, expVars, mshVars,
            prfVars, dclVars, outVars, smpVars>>
expRest == <<lnkVars, sfVars, wsVars, suVars, pgVars, dfVars, mshVars,
             prfVars, dclVars, outVars, smpVars>>
mshRest == <<lnkVars, sfVars, wsVars, suVars, pgVars, dfVars, expVars,
             prfVars, dclVars, outVars, smpVars>>
prfRest == <<lnkVars, sfVars, wsVars, suVars, pgVars, dfVars, expVars,
             mshVars, dclVars, outVars, smpVars>>
dclRest == <<lnkVars, sfVars, wsVars, suVars, pgVars, dfVars, expVars,
             mshVars, prfVars, outVars, smpVars>>
outRest == <<lnkVars, sfVars, wsVars, suVars, pgVars, dfVars, expVars,
             mshVars, prfVars, dclVars, smpVars>>
smpRest == <<lnkVars, sfVars, wsVars, suVars, pgVars, dfVars, expVars,
             mshVars, prfVars, dclVars, outVars>>

Next ==
    \/ On("links", LnkNext, lnkRest)
    \/ On("factor", SfNext, sfRest)
    \/ On("workspace", WsNext, wsRest)
    \/ On("signup", SuNext, suRest)
    \/ On("page", PgNext, pgRest)
    \/ On("drafts", DfNext, dfRest)
    \/ On("exports", ExpNext, expRest)
    \/ On("mesh", MshNext, mshRest)
    \/ On("profiles", PrfNext, prfRest)
    \/ On("disclosures", DclNext, dclRest)
    \/ On("outcomes", OutNext, outRest)
    \/ On("samples", SmpNext, smpRest)

Spec == Init /\ [][Next]_<<focus, lnkVars, lnkRest>>

Symmetry == Permutations(Folk) \cup Permutations(Clerks)

MCClaims == {[who |-> 1, email |-> "a", sure |-> TRUE],
             [who |-> 1, email |-> "b", sure |-> FALSE]}

\* Each user has one session with this browser.
MCUserOf == [s \in Sessions |-> s]
MCAuthorOf == [s \in Tokens |-> s]

\* Every service's variables have the types its module gives them.
ServicesTypeOK ==
    /\ LnkTypeOK /\ SfTypeOK /\ WsTypeOK /\ SuTypeOK /\ PgTypeOK
    /\ DfTypeOK /\ ExpTypeOK /\ MshTypeOK /\ PrfTypeOK /\ DclTypeOK
    /\ OutTypeOK /\ SmpTypeOK

\* What proves who someone is works once and for its owner: links and
\* invitations (auth.py, app.py 3981-4060), codes and recovery codes.
SecretsHold == LinksHold /\ FactorHolds

\* The browser shows and sends what is of whoever is signed in (static/app.js
\* 462-541, 4528-4543), and keeps what a full disk refused (255-381).
BrowserHolds == PageHolds /\ DraftsHold

\* Who joins, an account or a workspace, is let in by whoever may, and whoever
\* was removed stays out (app.py 3107-3330, 3950-4110; auth.py 406-520).
PeopleHold == MembershipHolds /\ SignUpHolds

\* What a user was told can be relied on: a file takes along all it refers to
\* (app.py 3210-3466), an answer of another office is in its log (mesh/common.py
\* 82-160), nothing is sent without consent (app.py 1151-1165), what is counted
\* and shown is on file (transparency.py 74-115, mcp_tools.py 654-747), and the
\* samples are all there, once (app.py 2788-2896).
DataHolds ==
    /\ ExportsHold /\ MeshHolds /\ ProfileHolds
    /\ DisclosuresHold /\ OutcomesHold /\ SamplesHold
=============================================================================
