------------------------------ MODULE MCRecords -----------------------------
(***************************************************************************)
(* One small instance for TLC of the audit log, of the dispatch of AI      *)
(* calls, of the accounts and of the two kinds of budget.  The log and the *)
(* dispatch meet in one number, the emitter's head, which AiDispatch keeps *)
(* as AuditLog's one process does; the others share no state.  A behaviour *)
(* works on one of them, chosen at the start; the others stay where they   *)
(* begin.                                                                  *)
(***************************************************************************)
EXTENDS AuditLog, AiDispatch, Accounts, Budgets, TLC

VARIABLE focus

RecordsInit ==
    /\ focus \in {"log", "dispatch", "accounts", "limits", "aiRuns"}
    /\ Init /\ DispatchInit /\ AccInit /\ LimInit /\ AirInit
    /\ focus # "dispatch" => cap = CHOOSE c \in Caps : TRUE

\* A step of one part, and the variables of the others.
On(part, step, others) == focus = part /\ step /\ UNCHANGED <<focus, others>>

RecordsNext ==
    \/ On("log", Next, <<dispatchVars, accVars, limVars, airVars>>)
    \/ On("dispatch", DispatchNext, <<vars, accVars, limVars, airVars>>)
    \/ On("accounts", AccNext, <<vars, dispatchVars, limVars, airVars>>)
    \/ On("limits", LimNext, <<vars, dispatchVars, accVars, airVars>>)
    \/ On("aiRuns", AirNext, <<vars, dispatchVars, accVars, limVars>>)

recordsVars == <<focus, vars, dispatchVars, accVars, limVars, airVars>>
RecordsSpec == RecordsInit /\ [][RecordsNext]_recordsVars

\* The variables of each have the types their modules give them.
RecordsTypeOK == TypeOK /\ DispatchTypeOK /\ AccTypeOK /\ LimTypeOK /\ AirTypeOK

\* Whoever is refused had used up what they are allowed, and nobody gets more:
\* sign-in attempts (app.py 3107-3160), AI runs of the day (quotas.py 208-220).
BudgetsHold == LimitsHold /\ AiRunsHold

Symmetry == Permutations(Writers) \cup Permutations(Threads)
=============================================================================
