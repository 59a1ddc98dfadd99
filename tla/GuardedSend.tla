----------------------------- MODULE GuardedSend -----------------------------
(***************************************************************************)
(* Guarded sends of one authority to one peer in one context.              *)
(* AuraEffectSystem::send_to_role_bytes runs the guard chain, and only     *)
(* then hands the envelope to the transport.  The chain is evaluated       *)
(* purely over a snapshot; its commands (ChargeBudget, then AppendJournal) *)
(* are interpreted one after the other, and each of them is a read, a      *)
(* computation and a write of a stored value, with an await in between and *)
(* no lock around the three.  Several tasks share the effect system, so    *)
(* every await is a point where another task may run or the process stop.  *)
(*                                                                         *)
(* A stored value is replaced whole (write to a temporary file, rename).   *)
(* The journal is abstracted to the set of operations in the operation set *)
(* of its Fact: all of them are filed under the key "operation_executed",  *)
(* and two sends of one session to one device have the same operation.     *)
(* Leakage records, metrics and the fact index do not feed back into the   *)
(* decisions taken here and are left out.                                  *)
(***************************************************************************)
EXTENDS Integers, FiniteSets

CONSTANTS
  Task,          \* sends in progress on the shared effect system
  Operation,     \* the operations the sends are recorded under
  operation,     \* the operation a send is recorded under
  cost,          \* flow cost of a send
  limit,         \* limit of the stored budget
  NoReceipt      \* a send that has no receipt

\* flow_cost is DEFAULT_CHOREO_FLOW_COST = 1 plus one unit per KB: never zero.
ASSUME GuardAssumption ==
  /\ operation \in [Task -> Operation]
  /\ cost \in [Task -> Nat \ {0}]
  /\ limit \in Nat
  /\ NoReceipt \notin Nat

VARIABLES
  spent,     \* FlowBudget.spent in storage; 0 while no budget is stored
  disk,      \* the journal in storage
  cached,    \* JournalSubsystemShared.cached_journal is Some(..)
  cache,     \* the journal in it, when it is
  pc,        \* the await a task is at
  held,      \* the budget value a task carries across an await
  view,      \* the journal a task carries across an await
  receipt,   \* nonce of the receipt of a send
  sent,      \* sends whose envelope went to the transport
  charged,   \* history: sends whose charge reached storage
  chargeRace,  \* history: two budget updates have overlapped
  appendRace   \* history: two journal updates have overlapped

budgetVars == <<spent, receipt, charged, chargeRace>>
journalVars == <<disk, cached, cache, view, appendRace>>
vars == <<budgetVars, journalVars, pc, held, sent>>

InCharge == {"join", "store"}
InAppend == {"persist", "cache"}
Running == {"evaluate", "charge"} \cup InCharge \cup {"issue", "append"}
             \cup InAppend \cup {"send"}
Over == {"denied", "exhausted", "failed", "lost", "sent"}

Init ==
  /\ spent = 0
  /\ disk = {}
  /\ cached = FALSE
  /\ cache = {}
  /\ pc = [t \in Task |-> "idle"]
  /\ held = [t \in Task |-> 0]
  /\ view = [t \in Task |-> {}]
  /\ receipt = [t \in Task |-> NoReceipt]
  /\ sent = {}
  /\ charged = {}
  /\ chargeRace = FALSE
  /\ appendRace = FALSE

Goto(t, label) == pc' = [pc EXCEPT ![t] = label]

-----------------------------------------------------------------------------
\* Mutant: the operands are swapped.
HeadroomSwapped == spent - limit

\* FlowBudget::headroom, a saturating subtraction.
Headroom == IF limit < spent THEN 0 ELSE limit - spent

\* Mutant: the last unit cannot be spent.
HasBudgetStrict(t) == held[t] > cost[t]

\* FlowBudgetView::has_budget on the snapshot.
HasBudget(t) == held[t] >= cost[t]

\* prepare_snapshot: the budget is read before the token is evaluated.
PrepareSnapshot(t) ==
  /\ pc[t] = "idle"
  /\ held' = [held EXCEPT ![t] = Headroom]
  /\ Goto(t, "evaluate")
  /\ UNCHANGED <<budgetVars, journalVars, sent>>

\* GuardChain::evaluate over the snapshot: the capability guard (the verdict
\* of the token is the environment's) comes before the budget guard, and the
\* first denial ends the send with no command executed.
Evaluate(t) ==
  /\ pc[t] = "evaluate"
  /\ \/ Goto(t, "denied")
     \/ ~HasBudget(t) /\ Goto(t, "exhausted")
     \/ HasBudget(t) /\ Goto(t, "charge")
  /\ UNCHANGED <<budgetVars, journalVars, held, sent>>

-----------------------------------------------------------------------------
\* FlowBudget::record_charge on the value just read.
CanCharge(t) == spent + cost[t] <= limit

MarkChargeRace(t) ==
  chargeRace' = (chargeRace \/ \E u \in Task \ {t} : pc[u] \in InCharge)

\* Mutant: the snapshot's verdict is trusted.
ChargeTrustsSnapshot(t) ==
  /\ pc[t] = "charge"
  /\ held' = [held EXCEPT ![t] = spent + cost[t]]
  /\ Goto(t, "join")
  /\ MarkChargeRace(t)
  /\ UNCHANGED <<spent, receipt, charged, journalVars, sent>>

\* Mutant: the error of an exhausted budget is dropped.
ChargeFailsOpen(t) ==
  /\ pc[t] = "charge"
  /\ \/ /\ CanCharge(t)
        /\ held' = [held EXCEPT ![t] = spent + cost[t]]
        /\ Goto(t, "join")
        /\ MarkChargeRace(t)
     \/ /\ ~CanCharge(t)
        /\ Goto(t, "append")
        /\ UNCHANGED <<held, chargeRace>>
  /\ UNCHANGED <<spent, receipt, charged, journalVars, sent>>

\* charge_flow_budget: read the stored budget and record the charge; the
\* command fails when the budget is exhausted.
RecordCharge(t) ==
  /\ pc[t] = "charge"
  /\ \/ /\ CanCharge(t)
        /\ held' = [held EXCEPT ![t] = spent + cost[t]]
        /\ Goto(t, "join")
        /\ MarkChargeRace(t)
     \/ /\ ~CanCharge(t)
        /\ Goto(t, "exhausted")
        /\ UNCHANGED <<held, chargeRace>>
  /\ UNCHANGED <<spent, receipt, charged, journalVars, sent>>

\* Mutant: spent is merged like the limit.
JoinKeepsSmaller(a, b) == IF a <= b THEN a ELSE b

\* FlowBudget::join keeps the larger spent.
JoinSpent(a, b) == IF a >= b THEN a ELSE b

\* update_flow_budget: read the stored budget again and join it ...
JoinBudget(t) ==
  /\ pc[t] = "join"
  /\ held' = [held EXCEPT ![t] = JoinSpent(spent, held[t])]
  /\ Goto(t, "store")
  /\ UNCHANGED <<budgetVars, journalVars, sent>>

\* ... then store the result.
StoreBudget(t) ==
  /\ pc[t] = "store"
  /\ spent' = held[t]
  /\ charged' = charged \cup {t}
  /\ Goto(t, "issue")
  /\ UNCHANGED <<receipt, chargeRace, journalVars, held, sent>>

\* charge_flow: the receipt's nonce is the spent value that was stored.
IssueReceipt(t) ==
  /\ pc[t] = "issue"
  /\ receipt' = [receipt EXCEPT ![t] = held[t]]
  /\ Goto(t, "append")
  /\ UNCHANGED <<spent, charged, chargeRace, journalVars, held, sent>>

-----------------------------------------------------------------------------
\* get_or_load_journal: the cache is filled from storage when it is empty.
Loaded == IF cached THEN cache ELSE disk

\* AppendJournal: get the journal and merge the fact of the operation ...
MergeFact(t) ==
  /\ pc[t] = "append"
  /\ cached' = TRUE
  /\ cache' = Loaded
  /\ view' = [view EXCEPT ![t] = Loaded \cup {operation[t]}]
  /\ appendRace' = (appendRace \/ \E u \in Task \ {t} : pc[u] \in InAppend)
  /\ Goto(t, "persist")
  /\ UNCHANGED <<budgetVars, disk, held, sent>>

\* ... persist_journal replaces the stored journal ...
PersistJournal(t) ==
  /\ pc[t] = "persist"
  /\ disk' = view[t]
  /\ Goto(t, "cache")
  /\ UNCHANGED <<budgetVars, cached, cache, view, appendRace, held, sent>>

\* ... and then the cached one.
UpdateCachedJournal(t) ==
  /\ pc[t] = "cache"
  /\ cached' = TRUE
  /\ cache' = view[t]
  /\ Goto(t, "send")
  /\ UNCHANGED <<budgetVars, disk, view, appendRace, held, sent>>

\* couple_with_send of a coupler without annotations reads the cached journal
\* and changes nothing; the envelope leaves with the receipt.
SendEnvelope(t) ==
  /\ pc[t] = "send"
  /\ sent' = sent \cup {t}
  /\ Goto(t, "sent")
  /\ UNCHANGED <<budgetVars, journalVars, held>>

-----------------------------------------------------------------------------
\* A read, a write, the charge policy, the signature of the receipt or the
\* transport fails: the command returns the error and nothing is undone.
\* Replacing the cached journal cannot fail.
IoError(t) ==
  /\ pc[t] \in Running \ {"cache"}
  /\ Goto(t, "failed")
  /\ UNCHANGED <<budgetVars, journalVars, held, sent>>

\* Mutant: the new process starts with an empty journal in its cache.
CrashCachesNothing ==
  /\ pc' = [t \in Task |-> IF pc[t] \in Running THEN "lost" ELSE pc[t]]
  /\ cached' = TRUE
  /\ cache' = {}
  /\ UNCHANGED <<budgetVars, disk, view, appendRace, held, sent>>

\* The process stops and starts again: the tasks and the cache are gone.
Crash ==
  /\ pc' = [t \in Task |-> IF pc[t] \in Running THEN "lost" ELSE pc[t]]
  /\ cached' = FALSE
  /\ cache' = {}
  /\ UNCHANGED <<budgetVars, disk, view, appendRace, held, sent>>

Step(t) ==
  \/ PrepareSnapshot(t) \/ Evaluate(t)
  \/ RecordCharge(t) \/ JoinBudget(t) \/ StoreBudget(t) \/ IssueReceipt(t)
  \/ MergeFact(t) \/ PersistJournal(t) \/ UpdateCachedJournal(t)
  \/ SendEnvelope(t) \/ IoError(t)

Next == Crash \/ \E t \in Task : Step(t)

Spec == Init /\ [][Next]_vars

-----------------------------------------------------------------------------
\* Type invariant of the stored values, the cache and what tasks carry.
TypeOK ==
  /\ spent \in Nat
  /\ disk \in SUBSET Operation
  /\ cached \in BOOLEAN
  /\ cache \in SUBSET Operation
  /\ pc \in [Task -> {"idle"} \cup Running \cup Over]
  /\ held \in [Task -> Nat]
  /\ view \in [Task -> SUBSET Operation]
  /\ receipt \in [Task -> Nat \cup {NoReceipt}]
  /\ sent \in SUBSET Task
  /\ charged \in SUBSET Task
  /\ chargeRace \in BOOLEAN
  /\ appendRace \in BOOLEAN

\* Whatever the interleaving, and although the snapshot a send was admitted on
\* may be stale when its charge is made, neither the stored budget nor any
\* value on its way to storage exceeds the limit (record_charge checks again).
WithinLimit ==
  /\ spent <= limit
  /\ \A t \in Task : pc[t] \in InCharge \cup {"issue"} => held[t] <= limit

\* No observable without charge: an envelope leaves only after the charge of
\* that send reached storage, with a receipt whose nonce covers its cost and
\* is within the limit (send_to_role_bytes: chain first, transport last).
PaidBeforeSend ==
  \A t \in sent : t \in charged /\ receipt[t] \in cost[t]..limit

\* The units the sends of S cost, as pairs of a send and a number: there are
\* as many as their costs add up to.
Units(S) == UNION {{t} \X (1..cost[t]) : t \in S}

\* The sum of the charges that reached storage.
TotalCharged == Cardinality(Units(charged))

\* A send is refused for want of budget only if the charges that reached
\* storage really leave no room for it: lost updates can make the stored
\* budget too small, never too large (FlowBudget::join takes the maximum).
RefusalIsJustified ==
  \A t \in Task : pc[t] = "exhausted" => TotalCharged + cost[t] > limit

\* As long as no two budget updates have overlapped, and whatever fails or
\* crashes, the stored budget is the sum of the charges that reached storage,
\* it covers every nonce issued, and no two receipts have the same nonce
\* (charge_flow_budget read, join and store in sequence).
SerialChargesAccounted ==
  ~chargeRace =>
    /\ spent = TotalCharged
    /\ \A t \in Task : receipt[t] # NoReceipt =>
         /\ receipt[t] <= spent
         /\ \A u \in Task \ {t} : receipt[u] # receipt[t]

\* As long as no two journal updates have overlapped, the fact of every send
\* that left is in the stored journal, through failures and restarts
\* (AppendJournal precedes the send; the cache never outruns storage).
SerialAppendsKept ==
  ~appendRace =>
    \A t \in Task : pc[t] \in {"send", "sent"} => operation[t] \in disk

\* "Once a fact is added, it cannot be removed": no step takes a fact out of
\* the stored journal (persist_journal overwrites it with the caller's copy).
JournalKeepsFacts == [][disk \subseteq disk']_vars
=============================================================================
