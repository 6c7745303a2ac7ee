----------------------------- MODULE AiDispatch -----------------------------
(***************************************************************************)
(* _dispatch_provider (analysis.py), the one gate of all AI calls, for the *)
(* threads that serve one user: the spending cap is checked against the    *)
(* recorded history (cost_caps.py), the provider is called, and then the   *)
(* call is written to the audit log, its cost to the history and a receipt *)
(* that points at its audit record to the receipt store.  Checks and       *)
(* records of several threads interleave; each step after the call is      *)
(* best-effort; the process may be restarted.                              *)
(*                                                                         *)
(* Money is counted in units; a record of the audit log is its position in *)
(* the log, and so is its chain value.                                     *)
(***************************************************************************)
EXTENDS Integers, FiniteSets

CONSTANTS
    Threads,     \* threads that serve the user at once
    Caps,        \* values of monthly_spend_cap_eur the user may set
    MaxPrompt,   \* the dearest prompt
    MaxReply,    \* the dearest reply
    Window,      \* events a read of the history returns (10 000 in the code)
    MaxCalls,    \* bound: dispatches, other analytics events, cap changes
    FaultsOn     \* failing writes, broken calls and restarts?

ASSUME CapAssumption == Caps \subseteq Nat /\ Caps # {}
ASSUME CostAssumption == MaxPrompt \in Nat /\ MaxReply \in Nat
ASSUME WindowAssumption == Window \in Nat \ {0} /\ MaxCalls \in Nat
ASSUME ToggleAssumption == FaultsOn \in BOOLEAN
ASSUME ThreadAssumption == IsFiniteSet(Threads) /\ Threads # {}

VARIABLES
    cap,       \* the user's cap in the profile
    history,   \* the user's analytics events
    saved,     \* number of events so far
    call,      \* [Threads -> position in _dispatch_provider and its data]
    calls,     \* number of dispatches and events so far
    written,   \* number of records in the audit log
    headSeq,   \* _last_sequence_no of the emitter
    headChain, \* _last_chain_hmac of the emitter
    receipts,  \* stored receipts
    billed,    \* history: what this month's calls cost
    highest,   \* history: the highest cap a call of this month was checked against
    unseen     \* history: has a cost of this month been lost before it could be
               \* counted, or was a call let through without a look at one?

audit == <<written, headSeq, headChain>>
tracked == <<history, saved>>
dispatchVars == <<cap, tracked, call, calls, audit, receipts, billed, highest, unseen>>

-----------------------------------------------------------------------------
(* The history *)

\* An event costs nothing, or was stored by record_invocation this month.
\* "nr" orders the events, "stored" says whether its row was written.
Event(nr, eur, stored) == [nr |-> nr, eur |-> eur, stored |-> stored]

\* list_analytics_events returns the newest Window events.
Visible == {e \in history : Cardinality({f \in history : f.nr > e.nr}) < Window}

Units == 1 .. MaxPrompt + MaxReply
UnitsOf(S) == {x \in S \X Units : x[2] <= x[1].eur}

\* month_to_date_eur: the sum over them.
Spent == Cardinality(UnitsOf(Visible))

\* Some cost of this month is not among them.
Hidden == \E e \in history \ Visible : e.eur > 0

Saved(eur) == /\ saved' = saved + 1
              /\ \E stored \in (IF FaultsOn THEN BOOLEAN ELSE {TRUE}) :
                    history' = history \cup {Event(saved + 1, eur, stored)}

-----------------------------------------------------------------------------
(* Calls *)

Pcs == {"idle", "checking", "calling", "auditing", "chaining", "recording",
        "receipt", "chained"}

\* "cap" is the CostCapContext the thread holds, "prompt" and "reply" are what
\* the call costs, "own" is its audit record (0: none), "seq" what it has read.
CallAt(pc, held, prompt, reply, own, seq) ==
    [pc |-> pc, cap |-> held, prompt |-> prompt, reply |-> reply, own |-> own, seq |-> seq]

DispatchInit ==
    /\ cap \in Caps
    /\ history = {} /\ saved = 0
    /\ call = [t \in Threads |-> CallAt("idle", cap, 0, 0, 0, 0)]
    /\ calls = 0
    /\ written = 0
    /\ headSeq = 0 /\ headChain = 0
    /\ receipts = {}
    /\ billed = 0
    /\ highest = cap
    /\ unseen = FALSE

CallGoesTo(t, pc) == call' = [call EXCEPT ![t].pc = pc]

\* The call is over; the thread may make another one with the same context.
Ends(t) == call' = [call EXCEPT ![t] = CallAt("idle", call[t].cap, 0, 0, 0, 0)]

\* The emitter's lock is held between the two assignments of its head.
LockFree == \A t \in Threads : call[t].pc # "chaining"

\* A request (or a batch of many calls) takes its context from the profile.
NewContext(t) ==
    /\ call[t].pc = "idle" /\ call[t].cap # cap
    /\ call' = [call EXCEPT ![t].cap = cap]
    /\ UNCHANGED <<cap, tracked, calls, audit, receipts, billed, highest, unseen>>

\* _dispatch_provider is entered; a prompt that costs nothing is one for a
\* free or local provider.
Begin(t) ==
    /\ call[t].pc = "idle" /\ calls < MaxCalls
    /\ calls' = calls + 1
    /\ \E prompt \in 0 .. MaxPrompt :
          call' = [call EXCEPT ![t] = CallAt("checking", call[t].cap, prompt, 0, 0, 0)]
    /\ UNCHANGED <<cap, tracked, audit, receipts, billed, highest, unseen>>

\* mutant of WithinCap: the coming call is left out of the sum
SpentWithinCap(t) == Spent <= call[t].cap

WithinCap(t) == Spent + call[t].prompt <= call[t].cap

\* enforce_cap lets the call through.
Admit(t) ==
    /\ call[t].pc = "checking"
    /\ call[t].prompt = 0 \/ WithinCap(t)
    /\ highest' = IF call[t].cap > highest THEN call[t].cap ELSE highest
    /\ CallGoesTo(t, "calling")
    /\ unseen' = (unseen \/ (call[t].prompt > 0 /\ Hidden))
    /\ UNCHANGED <<cap, tracked, calls, audit, receipts, billed>>

\* CostCapExceeded, also when the history cannot be read: an event is saved.
Refuse(t) ==
    /\ call[t].pc = "checking"
    /\ call[t].prompt > 0 /\ (~ WithinCap(t) \/ FaultsOn)
    /\ Saved(0)
    /\ Ends(t)
    /\ UNCHANGED <<cap, calls, audit, receipts, billed, highest, unseen>>

\* The provider answered.
Answer(t) ==
    /\ call[t].pc = "calling"
    /\ \E reply \in IF call[t].prompt = 0 THEN {0} ELSE 0 .. MaxReply :
          /\ call' = [call EXCEPT ![t].pc = "auditing", ![t].reply = reply]
          /\ billed' = billed + call[t].prompt + reply
    /\ UNCHANGED <<cap, tracked, calls, audit, receipts, highest, unseen>>

\* The call raised, or the reader of a stream left before its end: what came
\* of the reply is charged by the provider and seen by nobody.
Break(t) ==
    /\ FaultsOn /\ call[t].pc = "calling" /\ call[t].prompt > 0
    /\ \E reply \in 0 .. MaxReply :
          /\ billed' = billed + call[t].prompt + reply
          /\ unseen' = (unseen \/ reply > 0)
    /\ CallGoesTo(t, "auditing")
    /\ UNCHANGED <<cap, tracked, calls, audit, receipts, highest>>

\* _emit_dispatch_audit: the record is on disk, then the head moves on.
EmitRecord(t) ==
    /\ call[t].pc = "auditing" /\ LockFree
    /\ written' = written + 1
    /\ headSeq' = written + 1
    /\ call' = [call EXCEPT ![t].pc = "chaining", ![t].own = written + 1]
    /\ UNCHANGED <<cap, tracked, calls, headChain, receipts, billed, highest, unseen>>

EmitChain(t) ==
    /\ call[t].pc = "chaining"
    /\ headChain' = headSeq
    /\ CallGoesTo(t, "recording")
    /\ UNCHANGED <<cap, tracked, calls, written, headSeq, receipts, billed, highest, unseen>>

\* mutant of FailedHead: the number is taken before the write
FailedHeadTaken == written + 1

FailedHead == headSeq

\* Opening the log failed: the head stays.
EmitFails(t) ==
    /\ FaultsOn /\ call[t].pc = "auditing" /\ LockFree
    /\ headSeq' = FailedHead
    /\ CallGoesTo(t, "recording")
    /\ UNCHANGED <<cap, tracked, calls, written, headChain, receipts, billed, highest, unseen>>

Cost(t) == call[t].prompt + call[t].reply

\* record_invocation, also for calls that failed or are free; a receipt follows
\* when there is output.
RecordCost(t) ==
    /\ call[t].pc = "recording"
    /\ Saved(Cost(t))
    /\ \/ Ends(t) /\ call[t].reply = 0
       \/ call' = [call EXCEPT ![t] = CallAt("receipt", call[t].cap, 0, 0, call[t].own, 0)]
    /\ UNCHANGED <<cap, calls, audit, receipts, billed, highest, unseen>>

\* receipt_emitter_for reads the two parts of the head without the lock.
ReadSeq(t) ==
    /\ call[t].pc = "receipt"
    /\ call' = [call EXCEPT ![t].pc = "chained", ![t].seq = headSeq]
    /\ UNCHANGED <<cap, tracked, calls, audit, receipts, billed, highest, unseen>>

Receipt(own, seq, chain) == [own |-> own, seq |-> seq, chain |-> chain]

\* The second read, and the receipt is signed and saved, or that fails.
SaveReceipt(t) ==
    /\ call[t].pc = "chained"
    /\ \/ receipts' = receipts \cup {Receipt(call[t].own, call[t].seq, headChain)}
       \/ FaultsOn /\ UNCHANGED receipts
    /\ Ends(t)
    /\ UNCHANGED <<cap, tracked, calls, audit, billed, highest, unseen>>

-----------------------------------------------------------------------------
(* Around the calls *)

\* Any other analytics event of the user.
OtherEvent ==
    /\ calls < MaxCalls
    /\ calls' = calls + 1
    /\ Saved(0)
    /\ UNCHANGED <<cap, call, audit, receipts, billed, highest, unseen>>

\* The user changes the cap in the profile.
SetCap ==
    /\ calls < MaxCalls
    /\ calls' = calls + 1
    /\ \E c \in Caps \ {cap} : cap' = c
    /\ UNCHANGED <<tracked, call, audit, receipts, billed, highest, unseen>>

\* Calls whose cost is known and not yet recorded.
Unrecorded == {t \in Threads : call[t].pc \in {"auditing", "chaining", "recording"}}

\* A new month begins: costs recorded so far count no more, a call recorded
\* from now on counts in the new month.
NewMonth ==
    /\ \E e \in history : e.eur > 0
    /\ history' = {Event(e.nr, 0, e.stored) : e \in history}
    /\ billed' = Cardinality({x \in Unrecorded \X Units : x[2] <= Cost(x[1])})
    /\ unseen' = FALSE
    /\ UNCHANGED <<cap, saved, call, calls, audit, receipts, highest>>

\* The process dies and starts again: events whose row was not written are
\* gone, and so are the costs of the calls under way.
Restart ==
    /\ FaultsOn
    /\ \/ \E t \in Threads : call[t].pc # "idle"
       \/ \E e \in history : ~ e.stored
    /\ history' = {e \in history : e.stored}
    /\ unseen' = \/ unseen
                 \/ \E e \in history : ~ e.stored /\ e.eur > 0
                 \/ \E t \in Unrecorded : call[t].prompt > 0
    /\ call' = [t \in Threads |-> CallAt("idle", cap, 0, 0, 0, 0)]
    /\ headSeq' = written /\ headChain' = written
    /\ UNCHANGED <<cap, saved, calls, written, receipts, billed, highest>>

DispatchNext ==
    \/ \E t \in Threads :
          \/ NewContext(t) \/ Begin(t) \/ Admit(t) \/ Refuse(t) \/ Answer(t) \/ Break(t)
          \/ EmitRecord(t) \/ EmitChain(t) \/ EmitFails(t) \/ RecordCost(t)
          \/ ReadSeq(t) \/ SaveReceipt(t)
    \/ OtherEvent \/ SetCap \/ NewMonth \/ Restart

DispatchSpec == DispatchInit /\ [][DispatchNext]_dispatchVars

-----------------------------------------------------------------------------
(* Properties *)

DispatchTypeOK ==
    /\ cap \in Caps /\ highest \in Caps
    /\ history \subseteq [nr : Nat, eur : 0 .. MaxPrompt + MaxReply, stored : BOOLEAN]
    /\ saved \in Nat
    /\ call \in [Threads -> [pc : Pcs, cap : Caps, prompt : 0 .. MaxPrompt,
                             reply : 0 .. MaxReply, own : Nat, seq : Nat]]
    /\ calls \in 0 .. MaxCalls
    /\ written \in Nat /\ headSeq \in Nat /\ headChain \in Nat
    /\ receipts \subseteq [own : Nat, seq : Nat, chain : Nat]
    /\ billed \in Nat /\ unseen \in BOOLEAN

\* What a month may cost when every thread passes the check with the last of
\* the budget: the check knows neither the replies nor the calls under way.
Tolerance == Cardinality(Threads) * MaxReply + (Cardinality(Threads) - 1) * MaxPrompt

\* A month's calls never cost more than the highest cap they were checked
\* against and one call per thread, however checks, calls, records, changes of
\* the cap and the change of the month interleave, as long as every cost was
\* recorded and no call was let through by a check that did not see one.
CapOvershoot == ~ unseen => billed <= highest + Tolerance

\* The same without that condition, cost_caps.py: "stop spending my money once
\* I've spent X this calendar month".
CapHolds == billed <= highest + Tolerance

\* A receipt points at records that exist, and never at one older than the
\* record of its own call: it is read after that record was committed.
ReceiptsPointIntoLog ==
    \A r \in receipts : r.own <= r.seq /\ r.own <= r.chain /\ r.seq <= written /\ r.chain <= written
=============================================================================
