-------------------------- MODULE GuardedSendProofs --------------------------
(***************************************************************************)
(* Proofs, for any number of concurrent sends, of the invariants of        *)
(* GuardedSend.  Four inductive invariants: PayInv follows one send from   *)
(* its charge to its envelope; TotalInv bounds what the stored budget and  *)
(* the tasks hold by the charges that reached storage; ChargeInv and       *)
(* AppendInv say what the stored budget and the stored journal are while   *)
(* updates have not overlapped.                                            *)
(***************************************************************************)
EXTENDS GuardedSend, FiniteSetTheorems, TLAPS

\* The labels at which a send's charge is in storage.
Charged == {"issue", "append", "persist", "cache", "send", "sent"}

PayInv ==
  /\ spent <= limit
  /\ \A t \in Task :
       /\ pc[t] \in InCharge \cup {"issue"} => held[t] \in cost[t]..limit
       /\ pc[t] \in Charged => t \in charged
       /\ pc[t] \in Charged \ {"issue"} => receipt[t] \in cost[t]..limit
       /\ t \in sent => pc[t] = "sent"

\* The labels a send passes before its charge is in storage.
Uncharged == {"idle", "evaluate", "charge"} \cup InCharge

\* Nothing a task has read or computed from the stored budget claims more than
\* what has really been charged, its own charge included.
TotalInv ==
  /\ IsFiniteSet(Units(charged))
  /\ spent <= TotalCharged
  /\ \A t \in Task :
       /\ pc[t] \in Uncharged => t \notin charged
       /\ pc[t] = "evaluate" => limit <= TotalCharged + held[t]
       /\ pc[t] \in InCharge => held[t] <= TotalCharged + cost[t]
       /\ pc[t] = "exhausted" => TotalCharged + cost[t] > limit

ChargeInv ==
  ~chargeRace =>
    \A t \in Task :
      /\ pc[t] \in InCharge => held[t] = spent + cost[t]
      /\ pc[t] = "issue" => held[t] <= spent
      /\ receipt[t] # NoReceipt => receipt[t] <= spent
      /\ \A u \in Task \ {t} :
           /\ ~(pc[t] \in InCharge /\ pc[u] \in InCharge)
           /\ pc[t] = "issue" => receipt[u] # held[t]
           /\ pc[t] = "issue" /\ pc[u] = "issue" => held[u] # held[t]
           /\ receipt[t] # NoReceipt => receipt[u] # receipt[t]

\* The stored budget is the sum of the charges while none have overlapped.
ExactInv == ~chargeRace => spent = TotalCharged

AppendInv ==
  ~appendRace =>
    /\ cached => cache = disk \/ \E t \in Task : pc[t] = "cache"
    /\ \A t \in Task :
         /\ pc[t] = "persist" => disk \cup {operation[t]} \subseteq view[t]
         /\ pc[t] = "cache" => disk = view[t]
         /\ pc[t] \in {"cache", "send", "sent"} => operation[t] \in disk
         /\ \A u \in Task \ {t} : ~(pc[t] \in InAppend /\ pc[u] \in InAppend)

-----------------------------------------------------------------------------
\* The stored values, the cache and what tasks carry keep their types.
THEOREM TypeCorrect == Spec => []TypeOK
<1>1. Init => TypeOK
  <2> SUFFICES ASSUME Init PROVE TypeOK
    OBVIOUS
  <2>1. cached \in BOOLEAN /\ chargeRace \in BOOLEAN /\ appendRace \in BOOLEAN
    BY Zenon DEF Init
  <2>2. receipt \in [Task -> Nat \cup {NoReceipt}]
    BY DEF Init
  <2>3. spent \in Nat /\ held \in [Task -> Nat]
    BY DEF Init
  <2>4. disk \in SUBSET Operation /\ cache \in SUBSET Operation
          /\ view \in [Task -> SUBSET Operation]
    BY DEF Init
  <2>5. pc \in [Task -> {"idle"} \cup Running \cup Over]
    BY DEF Init
  <2>6. sent \in SUBSET Task /\ charged \in SUBSET Task
    BY DEF Init
  <2>7. QED BY <2>1, <2>2, <2>3, <2>4, <2>5, <2>6 DEF TypeOK
<1>2. TypeOK /\ [Next]_vars => TypeOK'
  <2> SUFFICES ASSUME TypeOK, [Next]_vars PROVE TypeOK'
    OBVIOUS
  <2> USE GuardAssumption
  <2>1. CASE UNCHANGED vars
    BY <2>1 DEF TypeOK, vars, budgetVars, journalVars
  <2>2. CASE Crash
    BY <2>2 DEF TypeOK, Crash, budgetVars, Running, Over, InCharge, InAppend
  <2>3. ASSUME NEW t \in Task, Step(t) PROVE TypeOK'
    <3> USE DEF TypeOK, Goto, budgetVars, journalVars, Running, Over,
                InCharge, InAppend
    <3>1. CASE PrepareSnapshot(t)
      <4>1. Headroom \in Nat
        BY DEF Headroom
      <4>2. QED BY <3>1, <4>1 DEF PrepareSnapshot
    <3>2. CASE Evaluate(t)
      BY <3>2 DEF Evaluate
    <3>3. CASE RecordCharge(t)
      <4>1. spent + cost[t] \in Nat
        OBVIOUS
      <4>2. chargeRace' \in BOOLEAN
        BY <3>3, Zenon DEF RecordCharge, MarkChargeRace
      <4>3. QED BY <3>3, <4>1, <4>2 DEF RecordCharge
    <3>4. CASE JoinBudget(t)
      <4>1. JoinSpent(spent, held[t]) \in Nat
        BY DEF JoinSpent
      <4>2. QED BY <3>4, <4>1 DEF JoinBudget
    <3>5. CASE StoreBudget(t)
      BY <3>5 DEF StoreBudget
    <3>6. CASE IssueReceipt(t)
      BY <3>6 DEF IssueReceipt
    <3>7. CASE MergeFact(t)
      <4>1. Loaded \cup {operation[t]} \in SUBSET Operation
        BY DEF Loaded
      <4>2. Loaded \in SUBSET Operation
        BY DEF Loaded
      <4>3. appendRace' \in BOOLEAN
        BY <3>7, Zenon DEF MergeFact
      <4>4. QED BY <3>7, <4>1, <4>2, <4>3 DEF MergeFact
    <3>8. CASE PersistJournal(t)
      BY <3>8 DEF PersistJournal
    <3>9. CASE UpdateCachedJournal(t)
      BY <3>9 DEF UpdateCachedJournal
    <3>10. CASE SendEnvelope(t)
      BY <3>10 DEF SendEnvelope
    <3>11. CASE IoError(t)
      BY <3>11 DEF IoError
    <3>12. QED
      BY <2>3, <3>1, <3>2, <3>3, <3>4, <3>5, <3>6, <3>7, <3>8, <3>9, <3>10,
         <3>11 DEF Step
  <2>4. QED BY <2>1, <2>2, <2>3 DEF Next
<1>3. QED BY <1>1, <1>2, PTL DEF Spec

-----------------------------------------------------------------------------
\* After a crash no task is at an await any more.
LEMMA CrashStops ==
  Crash => \A t \in Task : /\ pc'[t] \notin InCharge \cup {"issue"}
                           /\ pc'[t] \notin InAppend \cup {"send"}
                           /\ pc'[t] = "sent" => pc[t] = "sent"
<1> SUFFICES ASSUME Crash, NEW t \in Task
             PROVE  /\ pc'[t] \notin InCharge \cup {"issue"}
                    /\ pc'[t] \notin InAppend \cup {"send"}
                    /\ pc'[t] = "sent" => pc[t] = "sent"
  OBVIOUS
<1>1. pc'[t] = "lost" \/ (pc'[t] = pc[t] /\ pc[t] \notin Running)
  BY Zenon DEF Crash
<1>2. "lost" \notin Running
  BY DEF Running, InCharge, InAppend
<1>3. InCharge \cup {"issue"} \subseteq Running /\ InAppend \cup {"send"} \subseteq Running
  BY DEF Running
<1>4. QED BY <1>1, <1>2, <1>3

\* A step keeps the account of every single send.
LEMMA PayStep == TypeOK /\ TypeOK' /\ PayInv /\ [Next]_vars => PayInv'
<1> SUFFICES ASSUME TypeOK, TypeOK', PayInv, [Next]_vars PROVE PayInv'
  OBVIOUS
<1> USE GuardAssumption
<1>1. CASE UNCHANGED vars
  BY <1>1 DEF PayInv, vars, budgetVars, journalVars
<1>2. CASE Crash
  BY <1>2 DEF PayInv, TypeOK, Crash, budgetVars, Running, Charged, InCharge,
              InAppend
<1>3. ASSUME NEW t \in Task, Step(t) PROVE PayInv'
  <2> USE DEF TypeOK, PayInv, Goto, budgetVars, journalVars, Charged, InCharge
  <2>1. CASE PrepareSnapshot(t)
    BY <2>1 DEF PrepareSnapshot
  <2>2. CASE Evaluate(t)
    BY <2>2 DEF Evaluate
  <2>3. CASE RecordCharge(t)
    BY <2>3 DEF RecordCharge, CanCharge
  <2>4. CASE JoinBudget(t)
    BY <2>4 DEF JoinBudget, JoinSpent
  <2>5. CASE StoreBudget(t)
    BY <2>5 DEF StoreBudget
  <2>6. CASE IssueReceipt(t)
    BY <2>6 DEF IssueReceipt
  <2>7. CASE MergeFact(t)
    BY <2>7 DEF MergeFact
  <2>8. CASE PersistJournal(t)
    BY <2>8 DEF PersistJournal
  <2>9. CASE UpdateCachedJournal(t)
    BY <2>9 DEF UpdateCachedJournal
  <2>10. CASE SendEnvelope(t)
    BY <2>10 DEF SendEnvelope
  <2>11. CASE IoError(t)
    BY <2>11 DEF IoError, Running, InAppend
  <2>12. QED
    BY <1>3, <2>1, <2>2, <2>3, <2>4, <2>5, <2>6, <2>7, <2>8, <2>9, <2>10,
       <2>11 DEF Step
<1>4. QED BY <1>1, <1>2, <1>3 DEF Next

\* The account of every single send holds in every reachable state.
LEMMA PayAlways == Spec => [](TypeOK /\ PayInv)
<1>1. Init => PayInv
  BY GuardAssumption DEF Init, PayInv, InCharge, Charged
<1>2. QED BY <1>1, TypeCorrect, PayStep, PTL DEF Spec

\* Concurrent sends never overrun the budget, however stale their snapshots.
THEOREM BudgetHolds == Spec => []WithinLimit
<1>1. TypeOK /\ PayInv => WithinLimit
  BY GuardAssumption DEF TypeOK, PayInv, WithinLimit
<1>2. QED BY <1>1, PayAlways, PTL

\* Charge before send: no envelope leaves without a stored charge and a
\* receipt that covers its cost.
THEOREM ChargeBeforeSend == Spec => []PaidBeforeSend
<1>1. TypeOK /\ PayInv => PaidBeforeSend
  BY DEF TypeOK, PayInv, PaidBeforeSend, Charged
<1>2. QED BY <1>1, PayAlways, PTL

-----------------------------------------------------------------------------
\* One more send adds its cost to the units.
LEMMA AddUnits ==
  ASSUME NEW S \in SUBSET Task, IsFiniteSet(Units(S)), NEW t \in Task \ S
  PROVE  /\ IsFiniteSet(Units(S \cup {t}))
         /\ Cardinality(Units(S \cup {t})) = Cardinality(Units(S)) + cost[t]
<1> DEFINE U == {t} \X (1..cost[t])
<1>1. cost[t] \in Nat \ {0}
  BY GuardAssumption
<1>2. IsFiniteSet(U) /\ Cardinality(U) = cost[t]
  <2>1. IsFiniteSet(1..cost[t]) /\ Cardinality(1..cost[t]) = cost[t]
    <3>1. 1 \in Int /\ cost[t] \in Int /\ ~(1 > cost[t]) /\ cost[t] - 1 + 1 = cost[t]
      BY <1>1
    <3>2. QED BY <3>1, FS_Interval
  <2>2. IsFiniteSet({t}) /\ Cardinality({t}) = 1
    BY FS_Singleton
  <2>3. IsFiniteSet(U) /\ Cardinality(U) = 1 * Cardinality(1..cost[t])
    BY <2>1, <2>2, FS_Product
  <2>4. QED BY <1>1, <2>1, <2>3
<1>3. Units(S \cup {t}) = Units(S) \cup U
  BY DEF Units
<1>4. Units(S) \cap U = {}
  BY DEF Units
<1> HIDE DEF U
<1>5. Cardinality(Units(S)) \in Nat
  BY FS_CardinalityType
<1>6. /\ IsFiniteSet(Units(S) \cup U)
      /\ Cardinality(Units(S) \cup U) = Cardinality(Units(S)) + cost[t] - 0
  BY <1>2, <1>4, FS_Union, FS_EmptySet
<1>7. Cardinality(Units(S)) + cost[t] - 0 = Cardinality(Units(S)) + cost[t]
  BY <1>1, <1>5
<1>8. QED BY <1>3, <1>6, <1>7, Zenon

\* With no charge in storage the total is zero.
LEMMA NoUnits == IsFiniteSet(Units({})) /\ Cardinality(Units({})) = 0
<1>1. Units({}) = {}
  BY DEF Units
<1>2. QED BY <1>1, FS_EmptySet

\* Only the step that stores a charge changes the total, by the cost of its
\* send.
LEMMA TotalStep ==
  ASSUME TypeOK, TotalInv, [Next]_vars
  PROVE  /\ TotalCharged \in Nat
         /\ IsFiniteSet(Units(charged))'
         /\ \/ charged' = charged /\ TotalCharged' = TotalCharged
            \/ \E t \in Task : StoreBudget(t) /\ TotalCharged' = TotalCharged + cost[t]
<1>1. TotalCharged \in Nat
  BY FS_CardinalityType DEF TotalInv, TotalCharged
<1>2. ASSUME NEW t \in Task, StoreBudget(t)
      PROVE  IsFiniteSet(Units(charged))' /\ TotalCharged' = TotalCharged + cost[t]
  <2>1. t \in Task \ charged /\ charged' = charged \cup {t}
    BY <1>2 DEF TotalInv, StoreBudget, Uncharged, InCharge
  <2>2. Units(charged)' = Units(charged \cup {t})
    BY <2>1 DEF Units
  <2>3. QED BY <2>1, <2>2, AddUnits DEF TypeOK, TotalInv, TotalCharged
<1>3. ASSUME charged' = charged
      PROVE  IsFiniteSet(Units(charged))' /\ TotalCharged' = TotalCharged
  BY <1>3 DEF TotalInv, TotalCharged, Units
<1>4. charged' = charged \/ \E t \in Task : StoreBudget(t)
  BY DEF Next, Step, vars, budgetVars, Crash, PrepareSnapshot, Evaluate, RecordCharge,
         JoinBudget, IssueReceipt, MergeFact, PersistJournal, UpdateCachedJournal,
         SendEnvelope, IoError
<1>5. QED BY <1>1, <1>2, <1>3, <1>4

\* A step keeps what is known of the total of the charges.
LEMMA TotalInductive == TypeOK /\ TypeOK' /\ TotalInv /\ [Next]_vars => TotalInv'
<1> SUFFICES ASSUME TypeOK, TypeOK', TotalInv, [Next]_vars PROVE TotalInv'
  OBVIOUS
<1> USE GuardAssumption
<1>0. TotalCharged \in Nat /\ IsFiniteSet(Units(charged))'
  BY TotalStep
<1>1. CASE \E t \in Task : StoreBudget(t) /\ TotalCharged' = TotalCharged + cost[t]
  <2>1. PICK t \in Task : StoreBudget(t) /\ TotalCharged' = TotalCharged + cost[t]
    BY <1>1
  <2>2. spent' = held[t] /\ held[t] <= TotalCharged + cost[t]
    BY <2>1 DEF TotalInv, StoreBudget, InCharge
  <2>3. ASSUME NEW u \in Task
        PROVE  /\ pc'[u] \in Uncharged => u \notin charged'
               /\ pc'[u] = "evaluate" => limit <= TotalCharged' + held'[u]
               /\ pc'[u] \in InCharge => held'[u] <= TotalCharged' + cost[u]
               /\ pc'[u] = "exhausted" => TotalCharged' + cost[u] > limit
    BY <1>0, <2>1 DEF TypeOK, TotalInv, StoreBudget, Goto, Uncharged, InCharge
  <2>4. QED BY <1>0, <2>1, <2>2, <2>3 DEF TotalInv
<1>2. CASE charged' = charged /\ TotalCharged' = TotalCharged
  <2>0. ASSUME spent' = spent,
               NEW t \in Task,
               \A u \in Task \ {t} : held'[u] = held[u] /\ pc'[u] = pc[u],
               /\ pc'[t] \in Uncharged => t \notin charged
               /\ pc'[t] = "evaluate" => limit <= TotalCharged + held'[t]
               /\ pc'[t] \in InCharge => held'[t] <= TotalCharged + cost[t]
               /\ pc'[t] = "exhausted" => TotalCharged + cost[t] > limit
        PROVE  TotalInv'
    BY <1>0, <1>2, <2>0 DEF TotalInv
  <2>1. CASE UNCHANGED vars
    BY <1>0, <1>2, <2>1 DEF TotalInv, vars, budgetVars
  <2>2. CASE Crash
    BY <1>0, <1>2, <2>2 DEF TotalInv, TypeOK, Crash, budgetVars, Uncharged, InCharge
  <2>3. ASSUME NEW t \in Task, Step(t) PROVE TotalInv'
    <3> USE DEF TypeOK, Goto, budgetVars, Uncharged, InCharge
    <3>0. TotalInv!3!(t)
      BY DEF TotalInv
    <3>1. CASE PrepareSnapshot(t)
      <4>1. limit <= TotalCharged + Headroom
        BY <1>0 DEF TotalInv, Headroom
      <4>2. QED BY <2>0, <3>0, <3>1, <4>1 DEF PrepareSnapshot
    <3>2. CASE Evaluate(t)
      BY <1>0, <2>0, <3>0, <3>2 DEF Evaluate, HasBudget
    <3>3. CASE RecordCharge(t)
      <4>1. spent <= TotalCharged
        BY DEF TotalInv
      <4>2. QED BY <1>0, <2>0, <3>0, <3>3, <4>1 DEF RecordCharge, CanCharge
    <3>4. CASE JoinBudget(t)
      <4>1. spent <= TotalCharged
        BY DEF TotalInv
      <4>2. QED BY <1>0, <2>0, <3>0, <3>4, <4>1 DEF JoinBudget, JoinSpent
    <3>5. CASE StoreBudget(t)
      BY <1>2, <3>0, <3>5 DEF StoreBudget
    <3>6. CASE IssueReceipt(t)
      BY <2>0, <3>6 DEF IssueReceipt
    <3>7. CASE MergeFact(t)
      BY <2>0, <3>7 DEF MergeFact
    <3>8. CASE PersistJournal(t)
      BY <2>0, <3>8 DEF PersistJournal
    <3>9. CASE UpdateCachedJournal(t)
      BY <2>0, <3>9 DEF UpdateCachedJournal
    <3>10. CASE SendEnvelope(t)
      BY <2>0, <3>10 DEF SendEnvelope
    <3>11. CASE IoError(t)
      BY <2>0, <3>11 DEF IoError
    <3>12. QED
      BY SMTT(30), <2>3, <3>1, <3>2, <3>3, <3>4, <3>5, <3>6, <3>7, <3>8, <3>9, <3>10,
         <3>11 DEF Step
  <2>4. QED BY <2>1, <2>2, <2>3 DEF Next
<1>3. QED BY <1>1, <1>2, TotalStep

\* What the tasks hold is bounded by the charges in every reachable state.
LEMMA TotalAlways == Spec => [](TypeOK /\ TotalInv)
<1>1. Init => TotalInv
  BY NoUnits, GuardAssumption DEF Init, TotalInv, TotalCharged, InCharge
<1>2. QED BY <1>1, TypeCorrect, TotalInductive, PTL DEF Spec

\* No send is refused while the charges in storage leave room for it, whatever
\* updates of the budget were lost and however stale the snapshots are.
THEOREM RefusalsJustified == Spec => []RefusalIsJustified
<1>1. TotalInv => RefusalIsJustified
  BY DEF TotalInv, RefusalIsJustified
<1>2. QED BY <1>1, TotalAlways, PTL

-----------------------------------------------------------------------------
\* A step keeps the account of the stored budget.
LEMMA ChargeStep == TypeOK /\ TypeOK' /\ ChargeInv /\ [Next]_vars => ChargeInv'
<1> SUFFICES ASSUME TypeOK, TypeOK', ChargeInv, [Next]_vars, ~chargeRace'
             PROVE ChargeInv'
  BY SMTT(30) DEF ChargeInv
<1> USE GuardAssumption
<1>1. CASE UNCHANGED vars
  BY <1>1 DEF ChargeInv, vars, budgetVars, journalVars
<1>2. CASE Crash
  <2>1. UNCHANGED <<spent, receipt, chargeRace>>
    BY <1>2 DEF Crash, budgetVars
  <2>2. \A t \in Task : pc'[t] \notin InCharge \cup {"issue"}
    BY <1>2, CrashStops, Zenon
  <2>3. QED BY <2>1, <2>2 DEF ChargeInv
<1>3. ASSUME NEW t \in Task, Step(t) PROVE ChargeInv'
  <2> USE DEF TypeOK, ChargeInv, Goto, budgetVars, journalVars, InCharge
  <2>1. CASE PrepareSnapshot(t)
    BY <2>1 DEF PrepareSnapshot
  <2>2. CASE Evaluate(t)
    BY <2>2 DEF Evaluate
  <2>3. CASE RecordCharge(t)
    <3>1. CASE CanCharge(t)
      <4>1. ~chargeRace /\ \A u \in Task \ {t} : pc[u] \notin InCharge
        BY <2>3, <3>1, Zenon DEF RecordCharge, MarkChargeRace
      <4>2. QED BY <2>3, <3>1, <4>1 DEF RecordCharge
    <3>2. CASE ~CanCharge(t)
      BY <2>3, <3>2, SMTT(30) DEF RecordCharge
    <3>3. QED BY <3>1, <3>2
  <2>4. CASE JoinBudget(t)
    BY <2>4 DEF JoinBudget, JoinSpent
  <2>5. CASE StoreBudget(t)
    BY <2>5 DEF StoreBudget
  <2>6. CASE IssueReceipt(t)
    BY <2>6, SMTT(30) DEF IssueReceipt
  <2>7. CASE MergeFact(t)
    BY <2>7 DEF MergeFact
  <2>8. CASE PersistJournal(t)
    BY <2>8 DEF PersistJournal
  <2>9. CASE UpdateCachedJournal(t)
    BY <2>9 DEF UpdateCachedJournal
  <2>10. CASE SendEnvelope(t)
    BY <2>10 DEF SendEnvelope
  <2>11. CASE IoError(t)
    BY <2>11 DEF IoError
  <2>12. QED
    BY <1>3, <2>1, <2>2, <2>3, <2>4, <2>5, <2>6, <2>7, <2>8, <2>9, <2>10,
       <2>11 DEF Step
<1>4. QED BY <1>1, <1>2, <1>3 DEF Next

\* A step that overlaps no other update keeps the stored budget the sum of the
\* charges: what a task is about to store is the stored budget and its cost.
LEMMA ExactStep ==
  TypeOK /\ TotalInv /\ ChargeInv /\ ExactInv /\ [Next]_vars => ExactInv'
<1> SUFFICES ASSUME TypeOK, TotalInv, ChargeInv, ExactInv, [Next]_vars, ~chargeRace'
             PROVE  spent' = TotalCharged'
  BY DEF ExactInv
<1>1. ~chargeRace
  <2>1. chargeRace' = chargeRace \/ \E t \in Task : MarkChargeRace(t)
    BY DEF Next, Step, vars, budgetVars, Crash, PrepareSnapshot, Evaluate,
       RecordCharge, JoinBudget, StoreBudget, IssueReceipt, MergeFact,
       PersistJournal, UpdateCachedJournal, SendEnvelope, IoError
  <2>2. QED BY <2>1, Zenon DEF MarkChargeRace
<1>2. spent = TotalCharged
  BY <1>1 DEF ExactInv
<1>3. CASE \E t \in Task : StoreBudget(t) /\ TotalCharged' = TotalCharged + cost[t]
  BY <1>1, <1>2, <1>3 DEF ChargeInv, StoreBudget, InCharge
<1>4. CASE charged' = charged /\ TotalCharged' = TotalCharged
  <2>1. ASSUME NEW t \in Task, StoreBudget(t) PROVE FALSE
    BY <1>4, <2>1, SMTT(30) DEF TotalInv, StoreBudget, Uncharged, InCharge
  <2>2. spent' = spent
    BY <2>1 DEF Next, Step, vars, budgetVars, Crash, PrepareSnapshot, Evaluate,
       RecordCharge, JoinBudget, IssueReceipt, MergeFact, PersistJournal,
       UpdateCachedJournal, SendEnvelope, IoError
  <2>3. QED BY <1>2, <1>4, <2>2
<1>5. QED BY <1>3, <1>4, TotalStep

\* Charges that never overlap are all accounted for in storage, which holds
\* their exact sum, and their receipts have distinct nonces, through errors
\* and restarts.
THEOREM SerialCharges == Spec => []SerialChargesAccounted
<1>1. Init => ChargeInv
  BY GuardAssumption DEF Init, ChargeInv, InCharge
<1>2. Init => ExactInv
  BY NoUnits DEF Init, ExactInv, TotalCharged
<1>3. ChargeInv /\ ExactInv => SerialChargesAccounted
  BY DEF ChargeInv, ExactInv, SerialChargesAccounted
<1>4. QED BY <1>1, <1>2, <1>3, TotalAlways, ChargeStep, ExactStep, PTL DEF Spec

-----------------------------------------------------------------------------
\* A step keeps the stored journal, the cache and the copies in step.
LEMMA AppendStep == TypeOK /\ TypeOK' /\ AppendInv /\ [Next]_vars => AppendInv'
<1> SUFFICES ASSUME TypeOK, TypeOK', AppendInv, [Next]_vars, ~appendRace'
             PROVE AppendInv'
  BY SMTT(30) DEF AppendInv
<1> USE GuardAssumption
<1>1. CASE UNCHANGED vars
  BY <1>1 DEF AppendInv, vars, budgetVars, journalVars
<1>2. CASE Crash
  <2>1. ~cached' /\ UNCHANGED <<disk, view, appendRace>>
    BY <1>2 DEF Crash
  <2>2. \A t \in Task : /\ pc'[t] \notin InAppend \cup {"send"}
                        /\ pc'[t] = "sent" => pc[t] = "sent"
    BY <1>2, CrashStops, Zenon
  <2>3. QED BY <2>1, <2>2 DEF AppendInv, InAppend
<1>3. ASSUME NEW t \in Task, Step(t) PROVE AppendInv'
  <2> USE DEF TypeOK, AppendInv, Goto, budgetVars, journalVars, InAppend
  <2>1. CASE PrepareSnapshot(t)
    BY <2>1 DEF PrepareSnapshot
  <2>2. CASE Evaluate(t)
    BY <2>2 DEF Evaluate
  <2>3. CASE RecordCharge(t)
    BY <2>3 DEF RecordCharge
  <2>4. CASE JoinBudget(t)
    BY <2>4 DEF JoinBudget
  <2>5. CASE StoreBudget(t)
    BY <2>5 DEF StoreBudget
  <2>6. CASE IssueReceipt(t)
    BY <2>6 DEF IssueReceipt
  <2>7. CASE MergeFact(t)
    <3>1. ~appendRace /\ \A u \in Task \ {t} : pc[u] \notin InAppend
      BY <2>7, Zenon DEF MergeFact
    <3>2. Loaded = disk
      BY <2>7, <3>1 DEF MergeFact, Loaded
    <3>3. QED BY <2>7, <3>1, <3>2 DEF MergeFact
  <2>8. CASE PersistJournal(t)
    BY <2>8 DEF PersistJournal
  <2>9. CASE UpdateCachedJournal(t)
    BY <2>9 DEF UpdateCachedJournal
  <2>10. CASE SendEnvelope(t)
    BY <2>10 DEF SendEnvelope
  <2>11. CASE IoError(t)
    BY <2>11 DEF IoError, Running, InCharge
  <2>12. QED
    BY <1>3, <2>1, <2>2, <2>3, <2>4, <2>5, <2>6, <2>7, <2>8, <2>9, <2>10,
       <2>11 DEF Step
<1>4. QED BY <1>1, <1>2, <1>3 DEF Next

\* Appends that never overlap are never lost: the fact of every send that
\* left is in the stored journal, through errors and restarts.
THEOREM SerialAppends == Spec => []SerialAppendsKept
<1>1. Init => AppendInv
  BY DEF Init, AppendInv, InAppend
<1>2. AppendInv => SerialAppendsKept
  BY DEF AppendInv, SerialAppendsKept
<1>3. QED BY <1>1, <1>2, TypeCorrect, AppendStep, PTL DEF Spec
=============================================================================
