---------------------- MODULE PropagationBatchProofs -----------------------
(***************************************************************************)
(* Proofs about PropagationBatch, for every set of batches, every finite   *)
(* set of satellites, every number of retries and crashes, and every set   *)
(* of faults without those of Overcounting.                                *)
(***************************************************************************)
EXTENDS PropagationBatch, FiniteSetTheorems, TLAPS

NoOvercounting == Faults \cap Overcounting = {}

-----------------------------------------------------------------------------
(* Types *)

\* Every step of propagate_batch and of the faults around it keeps the types.
LEMMA BatchStepType ==
  ASSUME TypeOK, NEW b \in Batch,
         Trigger(b) \/ PropagateBatch(b) \/ BatchFault(b)
  PROVE  TypeOK'
<1>. USE ConstantsAssumption DEF TypeOK, Phases, TaskStates
<1>1. CASE Trigger(b)
  BY <1>1 DEF Trigger, taskVars
<1>2. CASE StoreCounter(b)
  <2>1. PICK S \in SUBSET Sat :
          /\ members' = [members EXCEPT ![b] = S]
          /\ \/ S = {} /\ phase' = [phase EXCEPT ![b] = "empty"]
                /\ UNCHANGED <<keyed, counter>>
             \/ S # {} /\ phase' = [phase EXCEPT ![b] = "dispatching"]
                /\ counter' = [counter EXCEPT ![b] = Cardinality(S)]
                /\ UNCHANGED keyed
             \/ S # {} /\ phase' = [phase EXCEPT ![b] = "dispatching"]
                /\ keyed' = [keyed EXCEPT ![b] = FALSE]
                /\ UNCHANGED counter
    BY <1>2 DEF StoreCounter
  <2>2. Cardinality(S) \in Int
    BY FS_Subset, FS_CardinalityType, SMT
  <2>3. UNCHANGED <<attempts, pc, tries, soft, fired, crashes>>
    BY <1>2 DEF StoreCounter, taskVars
  <2>4. members' \in [Batch -> SUBSET Sat]
    BY <2>1
  <2>5. phase' \in [Batch -> Phases] /\ keyed' \in [Batch -> BOOLEAN]
    BY <2>1
  <2>6. counter' \in [Batch -> Int]
    BY <2>1, <2>2
  <2>. QED
    BY <2>3, <2>4, <2>5, <2>6
<1>3. CASE \E s \in Sat : Dispatch(b, s)
  BY <1>3 DEF Dispatch, batchVars
<1>4. CASE EndBatch(b)
  BY <1>4 DEF EndBatch, taskVars
<1>5. CASE QueryFails(b)
  <2>1. phase' \in [Batch -> Phases]
    BY <1>5 DEF QueryFails
  <2>2. attempts' \in [Batch -> 0..MaxRetries]
    <3>1. CASE attempts' = [attempts EXCEPT ![b] = attempts[b] + 1]
               /\ attempts[b] < MaxRetries
      BY <3>1
    <3>2. CASE UNCHANGED attempts
      BY <3>2
    <3>. QED
      BY <1>5, <3>1, <3>2 DEF QueryFails
  <2>. QED
    BY <1>5, <2>1, <2>2 DEF QueryFails, taskVars
<1>6. CASE DispatchFails(b)
  BY <1>6 DEF DispatchFails, taskVars
<1>7. CASE CrashBatch(b)
  BY <1>7 DEF CrashBatch, taskVars
<1>8. CASE Expire(b)
  BY <1>8 DEF Expire, batchVars, taskVars
<1>. QED
  BY <1>1, <1>2, <1>3, <1>4, <1>5, <1>6, <1>7, <1>8
     DEF PropagateBatch, BatchFault

\* The generic handler keeps the types of the two variables it assigns.
LEMMA RetryOrFailType ==
  ASSUME TypeOK, NEW b \in Batch, NEW s \in Sat, RetryOrFail(b, s)
  PROVE  /\ pc' \in [Batch -> [Sat -> TaskStates]]
         /\ tries' \in [Batch -> [Sat -> 0..MaxRetries]]
<1>1. CASE /\ tries[b][s] < MaxRetries
           /\ pc' = [pc EXCEPT ![b][s] = "queued"]
           /\ tries' = [tries EXCEPT ![b][s] = tries[b][s] + 1]
  BY <1>1, ConstantsAssumption DEF TypeOK, TaskStates
<1>2. CASE pc' = [pc EXCEPT ![b][s] = "failed"] /\ UNCHANGED tries
  BY <1>2 DEF TypeOK, TaskStates
<1>. QED
  BY <1>1, <1>2 DEF RetryOrFail

\* Every step of a detect_passes task and of the faults around it does, too.
LEMMA TaskStepType ==
  ASSUME TypeOK, NEW b \in Batch, NEW s \in Sat,
         DetectPasses(b, s) \/ TaskFault(b, s)
  PROVE  TypeOK'
<1>. USE ConstantsAssumption
     DEF TypeOK, TaskStates, SoftStates, batchVars, Move
<1>1. CASE Deliver(b, s)
  BY <1>1 DEF Deliver
<1>2. CASE Write(b, s)
  BY <1>2 DEF Write
<1>3. CASE Count(b, s)
  <2>1. PICK x \in {"firing", "returning"} : pc' = [pc EXCEPT ![b][s] = x]
    BY <1>3 DEF Count
  <2>2. counter' \in [Batch -> Int]
    BY <1>3 DEF Count
  <2>. QED
    BY <1>3, <2>1, <2>2 DEF Count
<1>4. CASE Fire(b, s)
  BY <1>4 DEF Fire
<1>5. CASE Return(b, s)
  BY <1>5 DEF Return
<1>6. CASE BodyFails(b, s)
  BY <1>6, RetryOrFailType DEF BodyFails
<1>7. CASE CountFails(b, s)
  BY <1>7 DEF CountFails
<1>8. CASE FireFails(b, s)
  <2>1. CASE RetryOrFail(b, s)
    BY <1>8, <2>1, RetryOrFailType DEF FireFails
  <2>2. CASE ~RetryOrFail(b, s)
    <3>1. PICK x \in {"failed", "returning"} :
            pc' = [pc EXCEPT ![b][s] = x] /\ UNCHANGED tries
      BY <1>8, <2>2 DEF FireFails
    <3>. QED
      BY <1>8, <3>1 DEF FireFails
  <2>. QED
    BY <2>1, <2>2
<1>9. CASE SoftLimit(b, s)
  <2>1. pc' = [pc EXCEPT ![b][s] = "counting"]
    BY <1>9 DEF SoftLimit
  <2>. QED
    BY <1>9, <2>1 DEF SoftLimit
<1>10. CASE SoftSwallowed(b, s)
  <2>1. PICK x \in {"working", "returning"} : pc' = [pc EXCEPT ![b][s] = x]
    BY <1>10 DEF SoftSwallowed
  <2>. QED
    BY <1>10, <2>1 DEF SoftSwallowed
<1>11. CASE HardLimit(b, s)
  BY <1>11 DEF HardLimit
<1>12. CASE Crash(b, s)
  BY <1>12 DEF Crash
<1>. QED
  BY <1>1, <1>2, <1>3, <1>4, <1>5, <1>6, <1>7, <1>8, <1>9, <1>10, <1>11, <1>12
     DEF DetectPasses, TaskFault

\* The state keeps its types under every fault.
THEOREM TypeCorrect == Spec => []TypeOK
<1>1. Init => TypeOK
  BY ConstantsAssumption DEF Init, TypeOK, Phases, TaskStates, SoftStates
<1>2. TypeOK /\ [Next]_vars => TypeOK'
  <2>1. CASE Next
    BY <2>1, BatchStepType, TaskStepType DEF Next
  <2>2. CASE UNCHANGED vars
    BY <2>2 DEF TypeOK, vars, batchVars, taskVars
  <2>. QED
    BY <2>1, <2>2
<1>. QED
  BY <1>1, <1>2, PTL DEF Spec

-----------------------------------------------------------------------------
(* The inductive invariant, one batch at a time *)

BatchInv(b) ==
  /\ phase[b] \in {"unborn", "queued", "empty"} => members[b] = {}
  /\ members[b] = {} => fired[b] = 0
  /\ \A s \in Sat \ members[b] : pc[b][s] = "unsent"
  /\ keyed[b] /\ members[b] # {} => counter[b] >= Cardinality(Outstanding(b))
  /\ keyed[b] =>
       /\ Firing(b) # {} => Outstanding(b) = {} /\ fired[b] = 0
       /\ \A s, t \in Firing(b) : s = t
       /\ fired[b] > 0 => Outstanding(b) = {}
       /\ fired[b] <= 1

\* The invariant speaks of each batch on its own.
LEMMA IInvByBatch == IInv <=> TypeOK /\ \A b \in Batch : BatchInv(b)
BY DEF IInv, OnlyMembersSent, CounterCoversOutstanding, OneLastTask,
       GreedyAfterAll, AtMostOneGreedy, BatchInv

\* A batch has finitely many outstanding tasks, as it has tasks.
LEMMA OutstandingFinite ==
  ASSUME TypeOK, NEW b \in Batch
  PROVE  /\ IsFiniteSet(Outstanding(b))
         /\ Cardinality(Outstanding(b)) \in Nat
<1>1. Outstanding(b) \subseteq Sat
  BY DEF TypeOK, Outstanding
<1>. QED
  BY <1>1, ConstantsAssumption, FS_Subset, FS_CardinalityType

\* A step that lets no task of a batch wait again or get ready to fire, and
\* that leaves its counter and its run_greedy messages alone.
LEMMA QuietStep ==
  ASSUME TypeOK, TypeOK', NEW b \in Batch, BatchInv(b),
         members'[b] = members[b], keyed'[b] = keyed[b],
         counter'[b] = counter[b], fired'[b] = fired[b],
         phase'[b] \in {"unborn", "queued", "empty"} =>
           phase[b] \in {"unborn", "queued", "empty"},
         \A s \in Sat \ members[b] : pc'[b][s] = pc[b][s],
         Outstanding(b)' \subseteq Outstanding(b),
         Firing(b)' \subseteq Firing(b)
  PROVE  BatchInv(b)'
<1>1. /\ Cardinality(Outstanding(b)') <= Cardinality(Outstanding(b))
      /\ Cardinality(Outstanding(b)') \in Nat
      /\ Cardinality(Outstanding(b)) \in Nat
  BY OutstandingFinite, FS_Subset, FS_CardinalityType
<1>2. keyed'[b] /\ members'[b] # {} => counter'[b] >= Cardinality(Outstanding(b)')
  BY <1>1 DEF BatchInv, TypeOK
<1>. QED
  BY <1>2 DEF BatchInv

\* What a batch a step is not about keeps.
LEMMA OtherBatch ==
  ASSUME TypeOK, TypeOK', NEW b \in Batch, BatchInv(b),
         phase'[b] = phase[b],
         members'[b] = members[b], keyed'[b] = keyed[b],
         counter'[b] = counter[b], fired'[b] = fired[b], pc'[b] = pc[b]
  PROVE  BatchInv(b)'
<1>1. Outstanding(b)' = Outstanding(b) /\ Firing(b)' = Firing(b)
  BY DEF Outstanding, Firing
<1>. QED
  BY <1>1, QuietStep

\* The sets of waiting and of firing tasks after a task went to state x.
LEMMA AfterMove ==
  ASSUME TypeOK, NEW b \in Batch, NEW s \in members[b], NEW x \in TaskStates,
         pc' = [pc EXCEPT ![b][s] = x], UNCHANGED members
  PROVE  /\ pc'[b][s] = x
         /\ \A t \in Sat \ {s} : pc'[b][t] = pc[b][t]
         /\ \A c \in Batch \ {b} : pc'[c] = pc[c]
         /\ x \in Waiting => Outstanding(b)' = Outstanding(b) \cup {s}
         /\ x \notin Waiting => Outstanding(b)' = Outstanding(b) \ {s}
         /\ x = "firing" => Firing(b)' = Firing(b) \cup {s}
         /\ x # "firing" => Firing(b)' = Firing(b) \ {s}
<1>1. s \in Sat /\ pc \in [Batch -> [Sat -> TaskStates]] /\ members[b] \subseteq Sat
  BY DEF TypeOK
<1>2. /\ pc'[b][s] = x
      /\ \A t \in Sat \ {s} : pc'[b][t] = pc[b][t]
      /\ \A c \in Batch \ {b} : pc'[c] = pc[c]
  BY <1>1
<1>3. /\ x \in Waiting => Outstanding(b)' = Outstanding(b) \cup {s}
      /\ x \notin Waiting => Outstanding(b)' = Outstanding(b) \ {s}
  BY <1>1, <1>2 DEF Outstanding
<1>4. /\ x = "firing" => Firing(b)' = Firing(b) \cup {s}
      /\ x # "firing" => Firing(b)' = Firing(b) \ {s}
  BY <1>1, <1>2 DEF Firing
<1>. QED
  BY <1>2, <1>3, <1>4

\* Storing the counter: it is the number of members, none has been sent.
LEMMA StoreCounterInv ==
  ASSUME TypeOK, TypeOK', NEW b \in Batch, BatchInv(b), StoreCounter(b)
  PROVE  BatchInv(b)'
<1>1. PICK S \in SUBSET Sat :
        /\ members' = [members EXCEPT ![b] = S]
        /\ \/ S = {} /\ UNCHANGED <<keyed, counter>>
           \/ /\ S # {}
              /\ phase' = [phase EXCEPT ![b] = "dispatching"]
              /\ counter' = [counter EXCEPT ![b] = Cardinality(S)]
              /\ UNCHANGED keyed
           \/ /\ S # {}
              /\ phase' = [phase EXCEPT ![b] = "dispatching"]
              /\ keyed' = [keyed EXCEPT ![b] = FALSE]
  BY DEF StoreCounter
<1>2. UNCHANGED <<pc, fired>> /\ phase[b] = "queued"
  BY DEF StoreCounter, taskVars
<1>3. members'[b] = S
  BY <1>1 DEF TypeOK
<1>4. members[b] = {} /\ fired[b] = 0 /\ \A s \in Sat : pc[b][s] = "unsent"
  BY <1>2 DEF BatchInv
<1>5. Firing(b)' = {}
  BY <1>2, <1>3, <1>4 DEF Firing
<1>6. IsFiniteSet(S) /\ Cardinality(S) \in Nat
  BY ConstantsAssumption, FS_Subset, FS_CardinalityType
<1>7. Outstanding(b)' = S
  BY <1>2, <1>3, <1>4 DEF Outstanding, Waiting
<1>8. keyed'[b] /\ members'[b] # {} => counter'[b] >= Cardinality(Outstanding(b)')
  <2>1. CASE S = {}
    BY <2>1, <1>3
  <2>2. CASE counter' = [counter EXCEPT ![b] = Cardinality(S)]
    <3>1. counter'[b] = Cardinality(S)
      BY <2>2 DEF TypeOK
    <3>. QED
      BY <3>1, <1>6, <1>7
  <2>3. CASE keyed' = [keyed EXCEPT ![b] = FALSE]
    BY <2>3 DEF TypeOK
  <2>. QED
    BY <1>1, <2>1, <2>2, <2>3
<1>9. phase'[b] \in {"unborn", "queued", "empty"} => S = {}
  BY <1>1 DEF TypeOK
<1>. QED
  BY <1>2, <1>3, <1>4, <1>5, <1>8, <1>9 DEF BatchInv

\* The counting of one task: the counter and the tasks it has to wait for go
\* down together, and the task fires only when the counter is used up.
LEMMA CountInv ==
  ASSUME TypeOK, TypeOK', NEW b \in Batch, NEW s \in Sat, BatchInv(b),
         Count(b, s) \/ CountFails(b, s)
  PROVE  BatchInv(b)'
<1>1. /\ s \in members[b] /\ pc[b][s] = "counting"
      /\ UNCHANGED <<phase, members, keyed, fired>>
  BY DEF Count, CountFails, batchVars
<1>2. s \in Outstanding(b)
  BY <1>1 DEF Outstanding, Waiting
<1>3. PICK x \in {"firing", "returning"} : pc' = [pc EXCEPT ![b][s] = x]
  <2>1. CASE pc' = [pc EXCEPT ![b][s] = "firing"]
    BY <2>1
  <2>2. CASE pc' = [pc EXCEPT ![b][s] = "returning"]
    BY <2>2
  <2>. QED
    BY <2>1, <2>2 DEF Count, CountFails
<1>. /\ x \in TaskStates /\ x \notin Waiting
     /\ x # "returning" => x = "firing"
  BY DEF TaskStates, Waiting
<1>4. /\ pc'[b][s] = x
      /\ Outstanding(b)' = Outstanding(b) \ {s}
      /\ x = "firing" => Firing(b)' = Firing(b) \cup {s}
      /\ x # "firing" => Firing(b)' = Firing(b) \ {s}
      /\ \A t \in Sat \ {s} : pc'[b][t] = pc[b][t]
  BY <1>1, <1>3, AfterMove
<1>5. /\ Cardinality(Outstanding(b)') = Cardinality(Outstanding(b)) - 1
      /\ Cardinality(Outstanding(b)) \in Nat
      /\ Cardinality(Outstanding(b)') \in Nat
      /\ IsFiniteSet(Outstanding(b)')
  <2>1. IsFiniteSet(Outstanding(b)) /\ Cardinality(Outstanding(b)) \in Nat
    BY OutstandingFinite
  <2>2. /\ Cardinality(Outstanding(b) \ {s}) = Cardinality(Outstanding(b)) - 1
        /\ IsFiniteSet(Outstanding(b) \ {s})
    BY <1>2, <2>1, FS_RemoveElement
  <2>3. Cardinality(Outstanding(b) \ {s}) \in Nat
    BY <2>2, FS_CardinalityType
  <2>. QED
    BY <1>4, <2>1, <2>2, <2>3
<1>6. keyed[b] => fired[b] = 0 /\ Firing(b) = {}
  BY <1>1, <1>2 DEF BatchInv, TypeOK
<1>7. keyed[b] => /\ counter'[b] >= Cardinality(Outstanding(b)')
                  /\ x = "firing" => Cardinality(Outstanding(b)') = 0
  <2>. SUFFICES ASSUME keyed[b]
                PROVE  /\ counter'[b] >= Cardinality(Outstanding(b)')
                       /\ x = "firing" => Cardinality(Outstanding(b)') = 0
    OBVIOUS
  <2>1. counter[b] \in Int /\ counter[b] >= Cardinality(Outstanding(b))
    BY <1>1 DEF BatchInv, TypeOK
  <2>2. CASE /\ counter' = [counter EXCEPT ![b] = counter[b] - 1]
             /\ x = "firing" => counter[b] - 1 <= 0
    <3>1. counter'[b] = counter[b] - 1
      BY <2>2 DEF TypeOK
    <3>. QED
      BY <2>1, <2>2, <3>1, <1>5
  <2>3. CASE UNCHANGED counter /\ x = "returning"
    BY <2>1, <2>3, <1>5
  <2>4. CASE Count(b, s)
    <3>1. pc'[b][s] = IF counter[b] - 1 <= 0 THEN "firing" ELSE "returning"
      BY <1>1, <2>4 DEF Count, TypeOK
    <3>. QED
      BY <1>4, <2>2, <2>4, <3>1 DEF Count
  <2>5. CASE CountFails(b, s)
    <3>1. pc'[b][s] = "returning"
      BY <1>1, <2>5 DEF CountFails, TypeOK
    <3>. QED
      BY <1>4, <2>2, <2>3, <2>5, <3>1 DEF CountFails
  <2>. QED
    BY <2>4, <2>5
<1>8. keyed[b] /\ x = "firing" => Outstanding(b)' = {}
  BY <1>5, <1>7, FS_EmptySet
<1>9. \A t \in Sat \ members[b] : pc'[b][t] = "unsent"
  BY <1>1, <1>4 DEF BatchInv
<1>. QED
  BY <1>1, <1>3, <1>4, <1>6, <1>7, <1>8, <1>9 DEF BatchInv

\* Sending run_greedy: nobody else is about to, and nobody will be.
LEMMA FireInv ==
  ASSUME TypeOK, TypeOK', NEW b \in Batch, NEW s \in Sat, BatchInv(b), Fire(b, s)
  PROVE  BatchInv(b)'
<1>1. /\ s \in members[b] /\ pc[b][s] = "firing"
      /\ pc' = [pc EXCEPT ![b][s] = "returning"]
      /\ UNCHANGED <<phase, members, keyed, counter>>
  BY DEF Fire, Move, batchVars
<1>2. fired'[b] = fired[b] + 1
  BY DEF Fire, TypeOK
<1>3. s \in Firing(b)
  BY <1>1 DEF Firing
<1>4. /\ Outstanding(b)' = Outstanding(b) \ {s}
      /\ Firing(b)' = Firing(b) \ {s}
      /\ \A t \in Sat \ {s} : pc'[b][t] = pc[b][t]
  BY <1>1, AfterMove DEF Waiting, TaskStates
<1>5. s \notin Outstanding(b)
  BY <1>1 DEF Outstanding, Waiting
<1>6. keyed[b] => Firing(b)' = {} /\ fired'[b] = 1
  BY <1>2, <1>3, <1>4 DEF BatchInv
<1>7. Outstanding(b)' = Outstanding(b)
  BY <1>4, <1>5
<1>. QED
  BY <1>1, <1>3, <1>4, <1>6, <1>7 DEF BatchInv

\* Every other step of a task: a counted task does not come back, because the
\* faults of Overcounting are excluded.
LEMMA TaskMoveInv ==
  ASSUME TypeOK, TypeOK', NEW b \in Batch, NEW s \in Sat, BatchInv(b),
         s \in members[b],
         UNCHANGED <<batchVars, counter, fired>>,
         \E x \in TaskStates :
           /\ pc' = [pc EXCEPT ![b][s] = x]
           /\ x # "firing"
           /\ pc[b][s] \in Waiting \/ x \notin Waiting
  PROVE  BatchInv(b)'
<1>1. UNCHANGED <<phase, members, keyed>>
  BY DEF batchVars
<1>0. PICK x \in TaskStates :
       /\ pc' = [pc EXCEPT ![b][s] = x]
       /\ x # "firing"
       /\ pc[b][s] \in Waiting \/ x \notin Waiting
  OBVIOUS
<1>2. /\ x \in Waiting => Outstanding(b)' = Outstanding(b) \cup {s}
      /\ x \notin Waiting => Outstanding(b)' = Outstanding(b) \ {s}
      /\ x # "firing" => Firing(b)' = Firing(b) \ {s}
      /\ \A t \in Sat \ {s} : pc'[b][t] = pc[b][t]
  <2>1. pc' = [pc EXCEPT ![b][s] = x] /\ UNCHANGED members
    BY <1>0, <1>1
  <2>2. x \in Waiting => Outstanding(b)' = Outstanding(b) \cup {s}
    BY <2>1, AfterMove
  <2>3. x \notin Waiting => Outstanding(b)' = Outstanding(b) \ {s}
    BY <2>1, AfterMove
  <2>4. x # "firing" => Firing(b)' = Firing(b) \ {s}
    BY <2>1, AfterMove
  <2>5. \A t \in Sat \ {s} : pc'[b][t] = pc[b][t]
    BY <2>1, AfterMove
  <2>. QED
    BY <2>2, <2>3, <2>4, <2>5
<1>3. pc[b][s] \in Waiting => s \in Outstanding(b)
  BY DEF Outstanding
<1>4. Outstanding(b)' \subseteq Outstanding(b) /\ Firing(b)' \subseteq Firing(b)
  BY <1>0, <1>2, <1>3
<1>. QED
  BY <1>1, <1>2, <1>4, QuietStep

\* A task that fails is queued again or has failed for good.
LEMMA RetryOrFailMove ==
  ASSUME NEW b \in Batch, NEW s \in Sat, RetryOrFail(b, s)
  PROVE  \E x \in {"queued", "failed"} : pc' = [pc EXCEPT ![b][s] = x]
BY DEF RetryOrFail

\* Which of the steps of a task are moves in that sense.
LEMMA TaskStepMoves ==
  ASSUME NoOvercounting, TypeOK, NEW b \in Batch, NEW s \in Sat,
         \/ Deliver(b, s) \/ Write(b, s) \/ Return(b, s)
         \/ BodyFails(b, s) \/ SoftLimit(b, s) \/ SoftSwallowed(b, s)
         \/ HardLimit(b, s) \/ Crash(b, s)
         \/ keyed[b] /\ FireFails(b, s)
  PROVE  /\ s \in members[b]
         /\ UNCHANGED <<batchVars, counter, fired>>
         /\ \E x \in TaskStates :
              /\ pc' = [pc EXCEPT ![b][s] = x]
              /\ x # "firing"
              /\ pc[b][s] \in Waiting \/ x \notin Waiting
<1>. USE DEF TaskStates, Waiting, Move
<1>1. CASE Deliver(b, s)
  BY <1>1 DEF Deliver
<1>2. CASE Write(b, s)
  BY <1>2 DEF Write
<1>3. CASE Return(b, s)
  BY <1>3 DEF Return
<1>4. CASE BodyFails(b, s)
  <2>1. PICK x \in {"queued", "failed"} : pc' = [pc EXCEPT ![b][s] = x]
    BY <1>4, RetryOrFailMove DEF BodyFails
  <2>. QED
    BY <1>4, <2>1 DEF BodyFails
<1>5. CASE SoftLimit(b, s)
  BY <1>5 DEF SoftLimit, NoOvercounting, Overcounting
<1>6. CASE SoftSwallowed(b, s)
  <2>1. CASE Move(b, s, {"working"}, "working")
    BY <1>6, <2>1 DEF SoftSwallowed
  <2>2. CASE Move(b, s, {"counting", "firing"}, "returning")
    BY <1>6, <2>2 DEF SoftSwallowed
  <2>. QED
    BY <1>6, <2>1, <2>2 DEF SoftSwallowed
<1>7. CASE HardLimit(b, s)
  BY <1>7 DEF HardLimit
<1>8. CASE Crash(b, s)
  BY <1>8 DEF Crash, NoOvercounting, Overcounting
<1>9. CASE keyed[b] /\ FireFails(b, s)
  BY <1>9 DEF FireFails
<1>. QED
  BY <1>1, <1>2, <1>3, <1>4, <1>5, <1>6, <1>7, <1>8, <1>9

\* Without a counter the batch has nothing to keep but its members.
LEMMA NoCounterInv ==
  ASSUME TypeOK, TypeOK', NEW b \in Batch, NEW s \in Sat, BatchInv(b),
         ~keyed[b], FireFails(b, s)
  PROVE  BatchInv(b)'
<1>1. s \in members[b] /\ UNCHANGED <<phase, members, keyed, counter, fired>>
  BY DEF FireFails, batchVars
<1>2. PICK x \in {"queued", "failed"} : pc' = [pc EXCEPT ![b][s] = x]
  <2>1. CASE RetryOrFail(b, s)
    BY <2>1, RetryOrFailMove
  <2>2. CASE pc' = [pc EXCEPT ![b][s] = "failed"]
    BY <2>2
  <2>. QED
    BY <2>1, <2>2 DEF FireFails
<1>3. \A t \in Sat \ {s} : pc'[b][t] = pc[b][t]
  BY <1>2 DEF TypeOK
<1>. QED
  BY <1>1, <1>3 DEF BatchInv

\* A step of a task keeps the invariant of its batch.
LEMMA TaskStepInv ==
  ASSUME NoOvercounting, TypeOK, TypeOK', NEW b \in Batch, NEW s \in Sat,
         BatchInv(b), DetectPasses(b, s) \/ TaskFault(b, s)
  PROVE  BatchInv(b)'
<1>1. CASE Count(b, s) \/ CountFails(b, s)
  BY <1>1, CountInv
<1>2. CASE Fire(b, s)
  BY <1>2, FireInv
<1>3. CASE ~keyed[b] /\ FireFails(b, s)
  BY <1>3, NoCounterInv
<1>4. CASE \/ Deliver(b, s) \/ Write(b, s) \/ Return(b, s)
           \/ BodyFails(b, s) \/ SoftLimit(b, s) \/ SoftSwallowed(b, s)
           \/ HardLimit(b, s) \/ Crash(b, s)
           \/ keyed[b] /\ FireFails(b, s)
  BY <1>4, TaskStepMoves, TaskMoveInv
<1>. QED
  BY <1>1, <1>2, <1>3, <1>4 DEF DetectPasses, TaskFault

\* A task of one batch does not touch another batch.
LEMMA TaskStepElsewhere ==
  ASSUME TypeOK, NEW b \in Batch, NEW c \in Batch \ {b}, NEW s \in Sat,
         DetectPasses(b, s) \/ TaskFault(b, s)
  PROVE  /\ UNCHANGED batchVars
         /\ pc'[c] = pc[c] /\ counter'[c] = counter[c] /\ fired'[c] = fired[c]
<1>. USE DEF TypeOK, Move
<1>1. CASE Deliver(b, s) \/ Write(b, s) \/ Return(b, s)
  BY <1>1 DEF Deliver, Write, Return
<1>2. CASE Count(b, s)
  BY <1>2 DEF Count
<1>3. CASE Fire(b, s)
  BY <1>3 DEF Fire
<1>4. CASE BodyFails(b, s)
  BY <1>4, RetryOrFailMove DEF BodyFails
<1>5. CASE CountFails(b, s)
  BY <1>5 DEF CountFails
<1>6. CASE FireFails(b, s)
  <2>1. CASE RetryOrFail(b, s)
    BY <1>6, <2>1, RetryOrFailMove DEF FireFails
  <2>2. CASE ~RetryOrFail(b, s)
    BY <1>6, <2>2 DEF FireFails
  <2>. QED
    BY <2>1, <2>2
<1>7. CASE SoftLimit(b, s) \/ SoftSwallowed(b, s)
  BY <1>7 DEF SoftLimit, SoftSwallowed
<1>8. CASE HardLimit(b, s) \/ Crash(b, s)
  BY <1>8 DEF HardLimit, Crash
<1>. QED
  BY <1>1, <1>2, <1>3, <1>4, <1>5, <1>6, <1>7, <1>8 DEF DetectPasses, TaskFault

\* Steps of propagate_batch and of the faults around it.
LEMMA BatchStepInv ==
  ASSUME NoOvercounting, TypeOK, TypeOK', NEW b \in Batch,
         \A c \in Batch : BatchInv(c),
         Trigger(b) \/ PropagateBatch(b) \/ BatchFault(b)
  PROVE  \A c \in Batch : BatchInv(c)'
<1>1. CASE StoreCounter(b)
  <2>1. ASSUME NEW c \in Batch \ {b} PROVE BatchInv(c)'
    <3>1. /\ phase'[c] = phase[c] /\ members'[c] = members[c]
          /\ keyed'[c] = keyed[c] /\ counter'[c] = counter[c]
          /\ pc' = pc /\ fired' = fired
      BY <1>1 DEF StoreCounter, taskVars, TypeOK
    <3>. QED
      BY <3>1, OtherBatch
  <2>. QED
    BY <1>1, <2>1, StoreCounterInv
<1>2. CASE \E s \in Sat : Dispatch(b, s)
  <2>1. PICK s \in Sat : Dispatch(b, s)
    BY <1>2
  <2>2. /\ s \in members[b] /\ pc[b][s] = "unsent"
        /\ pc' = [pc EXCEPT ![b][s] = "queued"]
        /\ UNCHANGED <<batchVars, counter, fired>>
    BY <2>1 DEF Dispatch
  <2>3. BatchInv(b)'
    <3>1. "queued" \in TaskStates /\ pc[b][s] \in Waiting
      BY <2>2 DEF TaskStates, Waiting
    <3>. QED
      BY <2>2, <3>1, TaskMoveInv
  <2>4. ASSUME NEW c \in Batch \ {b} PROVE BatchInv(c)'
    <3>1. pc'[c] = pc[c]
      BY <2>2 DEF TypeOK
    <3>. QED
      BY <2>2, <3>1, OtherBatch DEF batchVars
  <2>. QED
    BY <2>3, <2>4
<1>3. CASE \/ Trigger(b) \/ EndBatch(b) \/ QueryFails(b)
           \/ DispatchFails(b) \/ CrashBatch(b)
  <2>1. UNCHANGED <<members, keyed, counter, fired, pc>>
    BY <1>3 DEF Trigger, EndBatch, QueryFails, DispatchFails, CrashBatch, taskVars
  <2>2. ASSUME NEW c \in Batch,
               phase'[c] \in {"unborn", "queued", "empty"}
        PROVE  phase[c] \in {"unborn", "queued", "empty"}
    BY <1>3, <2>2
       DEF TypeOK, Trigger, EndBatch, QueryFails, DispatchFails, CrashBatch
  <2>3. ASSUME NEW c \in Batch PROVE BatchInv(c)'
    <3>1. Outstanding(c)' = Outstanding(c) /\ Firing(c)' = Firing(c)
      BY <2>1 DEF Outstanding, Firing
    <3>. QED
      BY <2>1, <2>2, <3>1, QuietStep
  <2>. QED
    BY <2>3
<1>4. CASE Expire(b)
  BY <1>4 DEF Expire, NoOvercounting, Overcounting
<1>. QED
  BY <1>1, <1>2, <1>3, <1>4 DEF PropagateBatch, BatchFault

\* IInv is inductive.
LEMMA IInvInductive == NoOvercounting /\ IInv /\ [Next]_vars => IInv'
<1>. SUFFICES ASSUME NoOvercounting, TypeOK, \A c \in Batch : BatchInv(c),
                     [Next]_vars
              PROVE  TypeOK' /\ \A c \in Batch : BatchInv(c)'
  <2>1. IInv' <=> TypeOK' /\ \A c \in Batch : BatchInv(c)'
    BY DEF IInv, OnlyMembersSent, CounterCoversOutstanding, OneLastTask,
           GreedyAfterAll, AtMostOneGreedy, BatchInv
  <2>. QED
    BY <2>1, IInvByBatch
<1>1. CASE UNCHANGED vars
  <2>1. UNCHANGED <<phase, members, keyed, counter, fired, pc>> /\ TypeOK'
    BY <1>1 DEF vars, batchVars, taskVars, TypeOK
  <2>2. ASSUME NEW c \in Batch PROVE BatchInv(c)'
    BY <2>1, OtherBatch
  <2>. QED
    BY <2>1, <2>2
<1>2. ASSUME NEW b \in Batch, Trigger(b) \/ PropagateBatch(b) \/ BatchFault(b)
      PROVE  TypeOK' /\ \A c \in Batch : BatchInv(c)'
  BY <1>2, BatchStepType, BatchStepInv
<1>3. ASSUME NEW b \in Batch, NEW s \in Sat, DetectPasses(b, s) \/ TaskFault(b, s)
      PROVE  TypeOK' /\ \A c \in Batch : BatchInv(c)'
  <2>1. TypeOK'
    BY <1>3, TaskStepType
  <2>2. BatchInv(b)'
    BY <1>3, <2>1, TaskStepInv
  <2>3. ASSUME NEW c \in Batch \ {b} PROVE BatchInv(c)'
    <3>1. /\ UNCHANGED <<phase, members, keyed>>
          /\ pc'[c] = pc[c] /\ counter'[c] = counter[c] /\ fired'[c] = fired[c]
      BY <1>3, TaskStepElsewhere DEF batchVars
    <3>. QED
      BY <2>1, <3>1, OtherBatch
  <2>. QED
    BY <2>1, <2>2, <2>3
<1>. QED
  BY <1>1, <1>2, <1>3 DEF Next

\* The invariant holds in every reachable state.
LEMMA IInvHolds == NoOvercounting => (Spec => []IInv)
<1>1. Init => IInv
  <2>1. Init => TypeOK
    BY ConstantsAssumption DEF Init, TypeOK, Phases, TaskStates, SoftStates
  <2>2. ASSUME Init, NEW b \in Batch PROVE BatchInv(b)
    BY <2>2 DEF Init, BatchInv, Firing, Outstanding
  <2>. QED
    BY <2>1, <2>2, IInvByBatch
<1>. SUFFICES ASSUME NoOvercounting PROVE Spec => []IInv
  OBVIOUS
<1>2. IInv /\ [Next]_vars => IInv'
  BY IInvInductive
<1>. QED
  BY <1>1, <1>2, PTL DEF Spec

\* run_greedy is sent at most once per counter: "exactly once" (line 159), for
\* every number of satellites, under every fault that counts no task twice.
THEOREM AtMostOneGreedyHolds == NoOvercounting => (Spec => []AtMostOneGreedy)
<1>1. IInv => AtMostOneGreedy
  BY DEF IInv
<1>. QED
  BY <1>1, IInvHolds, PTL

\* And it is sent only when no task of the batch may still write passes.
THEOREM GreedyAfterAllHolds == NoOvercounting => (Spec => []GreedyAfterAll)
<1>1. IInv => GreedyAfterAll
  BY DEF IInv
<1>. QED
  BY <1>1, IInvHolds, PTL

-----------------------------------------------------------------------------
(* Every batch fires *)

NoUndercounting == Faults \cap Undercounting = {}

\* FiringInv of one batch.
FiresInv(b) ==
  /\ phase[b] \in {"unborn", "queued", "empty"} => members[b] = {}
  /\ phase[b] \in {"dispatching", "dispatched"} => members[b] # {}
  /\ \A s \in Sat \ members[b] : pc[b][s] = "unsent"
  /\ \A s \in members[b] : pc[b][s] # "failed"
  /\ keyed[b] /\ members[b] # {} /\ fired[b] = 0 =>
       /\ counter[b] <= Cardinality(Outstanding(b))
       /\ Outstanding(b) \cup Firing(b) # {}
  /\ ~keyed[b] => fired[b] >= Cardinality(Ended(b))

\* The invariant of the firing speaks of each batch on its own.
LEMMA FiringInvByBatch == FiringInv <=> TypeOK /\ \A b \in Batch : FiresInv(b)
BY DEF FiringInv, NoTaskGivesUp, OutstandingCoverCounter, EachTaskFired, FiresInv

\* Finitely many tasks of a batch have ended.
LEMMA EndedFinite ==
  ASSUME TypeOK, NEW b \in Batch
  PROVE  IsFiniteSet(Ended(b)) /\ Cardinality(Ended(b)) \in Nat
<1>1. Ended(b) \subseteq Sat
  BY DEF TypeOK, Ended
<1>. QED
  BY <1>1, ConstantsAssumption, FS_Subset, FS_CardinalityType

\* A step after which as many tasks may count and as few have ended, that
\* leaves somebody to fire and the messages and the counter alone.
LEMMA FiresQuietStep ==
  ASSUME TypeOK, TypeOK', NEW b \in Batch, FiresInv(b),
         members'[b] = members[b], keyed'[b] = keyed[b],
         counter'[b] > 0 => counter'[b] <= counter[b], fired'[b] = fired[b],
         phase'[b] \in {"unborn", "queued", "empty"} =>
           phase[b] \in {"unborn", "queued", "empty"},
         phase'[b] \in {"dispatching", "dispatched"} =>
           phase[b] \in {"dispatching", "dispatched"},
         \A s \in Sat \ members[b] : pc'[b][s] = "unsent",
         \A s \in members[b] : pc'[b][s] # "failed",
         Outstanding(b) \subseteq Outstanding(b)',
         Outstanding(b) \cup Firing(b) # {} => Outstanding(b)' \cup Firing(b)' # {},
         Ended(b)' \subseteq Ended(b)
  PROVE  FiresInv(b)'
<1>1. /\ Cardinality(Outstanding(b)) <= Cardinality(Outstanding(b)')
      /\ Cardinality(Outstanding(b)) \in Nat /\ Cardinality(Outstanding(b)') \in Nat
  <2>1. Outstanding(b)' \subseteq Sat
    BY DEF TypeOK, Outstanding
  <2>2. IsFiniteSet(Outstanding(b)')
    BY <2>1, ConstantsAssumption, FS_Subset
  <2>. QED
    BY <2>2, OutstandingFinite, FS_Subset, FS_CardinalityType
<1>2. keyed'[b] /\ members'[b] # {} /\ fired'[b] = 0 =>
        counter'[b] <= Cardinality(Outstanding(b)')
  BY <1>1 DEF FiresInv, TypeOK
<1>3. ~keyed'[b] => fired'[b] >= Cardinality(Ended(b)')
  <2>. SUFFICES ASSUME ~keyed[b] PROVE fired[b] >= Cardinality(Ended(b)')
    OBVIOUS
  <2>1. Cardinality(Ended(b)') <= Cardinality(Ended(b))
    BY EndedFinite, FS_Subset
  <2>2. Cardinality(Ended(b)') \in Nat
    <3>1. IsFiniteSet(Ended(b)')
      BY EndedFinite, FS_Subset
    <3>. QED
      BY <3>1, FS_CardinalityType
  <2>3. fired[b] \in Nat /\ fired[b] >= Cardinality(Ended(b))
    BY DEF FiresInv, TypeOK
  <2>. QED
    BY <2>1, <2>2, <2>3, EndedFinite
<1>. QED
  BY <1>2, <1>3 DEF FiresInv

\* What a batch a step is not about keeps.
LEMMA FiresElsewhere ==
  ASSUME TypeOK, TypeOK', NEW b \in Batch, FiresInv(b),
         phase'[b] \in {"unborn", "queued", "empty"} =>
           phase[b] \in {"unborn", "queued", "empty"},
         phase'[b] \in {"dispatching", "dispatched"} =>
           phase[b] \in {"dispatching", "dispatched"},
         members'[b] = members[b], keyed'[b] = keyed[b],
         counter'[b] = counter[b], fired'[b] = fired[b], pc'[b] = pc[b]
  PROVE  FiresInv(b)'
<1>1. /\ Outstanding(b)' = Outstanding(b) /\ Firing(b)' = Firing(b)
      /\ Ended(b)' = Ended(b)
  BY DEF Outstanding, Firing, Ended
<1>2. counter'[b] > 0 => counter'[b] <= counter[b]
  BY DEF TypeOK
<1>3. /\ \A s \in Sat \ members[b] : pc'[b][s] = "unsent"
      /\ \A s \in members[b] : pc'[b][s] # "failed"
  BY DEF FiresInv
<1>. QED
  BY <1>1, <1>2, <1>3, FiresQuietStep

\* The tasks that have ended after one of them went to state x.
LEMMA EndedAfterMove ==
  ASSUME TypeOK, NEW b \in Batch, NEW s \in members[b], NEW x \in TaskStates,
         pc' = [pc EXCEPT ![b][s] = x], UNCHANGED members
  PROVE  /\ x \in {"returning", "done"} => Ended(b)' = Ended(b) \cup {s}
         /\ x \notin {"returning", "done"} => Ended(b)' = Ended(b) \ {s}
<1>1. s \in Sat /\ pc \in [Batch -> [Sat -> TaskStates]] /\ members[b] \subseteq Sat
  BY DEF TypeOK
<1>2. /\ pc'[b][s] = x
      /\ \A t \in Sat \ {s} : pc'[b][t] = pc[b][t]
  BY <1>1
<1>. QED
  BY <1>1, <1>2 DEF Ended

\* A task that goes on, or back to the queue, still counts.
LEMMA FiresTaskMove ==
  ASSUME TypeOK, TypeOK', NEW b \in Batch, NEW s \in Sat, FiresInv(b),
         s \in members[b],
         UNCHANGED <<batchVars, counter, fired>>,
         \E x \in TaskStates :
           /\ pc' = [pc EXCEPT ![b][s] = x]
           /\ \/ x \in Waiting
              \/ pc[b][s] = "returning" /\ x = "done"
  PROVE  FiresInv(b)'
<1>1. UNCHANGED <<phase, members, keyed>>
  BY DEF batchVars
<1>2. PICK x \in TaskStates :
        /\ pc' = [pc EXCEPT ![b][s] = x]
        /\ x \in Waiting \/ (pc[b][s] = "returning" /\ x = "done")
  OBVIOUS
<1>3. \A t \in Sat \ {s} : pc'[b][t] = pc[b][t]
  BY <1>2 DEF TypeOK
<1>4. pc'[b][s] = x
  BY <1>2 DEF TypeOK
<1>5. /\ \A t \in Sat \ members[b] : pc'[b][t] = "unsent"
      /\ \A t \in members[b] : pc'[b][t] # "failed"
  <2>1. x # "failed"
    BY <1>2 DEF Waiting
  <2>2. members[b] \subseteq Sat
    BY DEF TypeOK
  <2>. QED
    BY <1>3, <1>4, <2>1, <2>2 DEF FiresInv
<1>6. counter'[b] > 0 => counter'[b] <= counter[b]
  BY DEF TypeOK
<1>7. CASE x \in Waiting
  <2>1. Outstanding(b)' = Outstanding(b) \cup {s}
    BY <1>1, <1>2, <1>7, AfterMove
  <2>2. Ended(b)' = Ended(b) \ {s}
    <3>1. x \notin {"returning", "done"}
      BY <1>7 DEF Waiting
    <3>. QED
      BY <1>1, <1>2, <3>1, EndedAfterMove
  <2>. QED
    BY <1>1, <1>5, <1>6, <2>1, <2>2, FiresQuietStep
<1>8. CASE pc[b][s] = "returning" /\ x = "done"
  <2>1. /\ Outstanding(b)' = Outstanding(b) \ {s} /\ s \notin Outstanding(b)
        /\ Firing(b)' = Firing(b) \ {s} /\ s \notin Firing(b)
    <3>1. x \notin Waiting /\ x # "firing"
      BY <1>8 DEF Waiting
    <3>2. Outstanding(b)' = Outstanding(b) \ {s}
      BY <1>1, <1>2, <3>1, AfterMove
    <3>3. Firing(b)' = Firing(b) \ {s}
      BY <1>1, <1>2, <3>1, AfterMove
    <3>. QED
      BY <1>8, <3>2, <3>3 DEF Outstanding, Firing, Waiting
  <2>2. Outstanding(b)' = Outstanding(b) /\ Firing(b)' = Firing(b)
    BY <2>1
  <2>3. Ended(b)' = Ended(b)
    <3>1. Ended(b)' = Ended(b) \cup {s}
      BY <1>1, <1>2, <1>8, EndedAfterMove
    <3>. QED
      BY <1>8, <3>1 DEF Ended
  <2>. QED
    BY <1>1, <1>5, <1>6, <2>2, <2>3, FiresQuietStep
<1>. QED
  BY <1>2, <1>7, <1>8

\* Which of the steps of a task are moves in that sense.
LEMMA FiresTaskStepMoves ==
  ASSUME NoUndercounting, TypeOK, NEW b \in Batch, NEW s \in Sat,
         \/ Deliver(b, s) \/ Write(b, s) \/ Return(b, s)
         \/ BodyFails(b, s) \/ SoftLimit(b, s) \/ Crash(b, s)
  PROVE  /\ s \in members[b]
         /\ UNCHANGED <<batchVars, counter, fired>>
         /\ \E x \in TaskStates :
              /\ pc' = [pc EXCEPT ![b][s] = x]
              /\ \/ x \in Waiting
                 \/ pc[b][s] = "returning" /\ x = "done"
<1>. USE DEF TaskStates, Waiting, Move
<1>1. CASE Deliver(b, s)
  BY <1>1 DEF Deliver
<1>2. CASE Write(b, s)
  BY <1>2 DEF Write
<1>3. CASE Return(b, s)
  BY <1>3 DEF Return
<1>4. CASE BodyFails(b, s)
  <2>1. pc' = [pc EXCEPT ![b][s] = "queued"]
    BY <1>4 DEF BodyFails, RetryOrFail, NoUndercounting, Undercounting
  <2>. QED
    BY <1>4, <2>1 DEF BodyFails
<1>5. CASE SoftLimit(b, s)
  BY <1>5 DEF SoftLimit
<1>6. CASE Crash(b, s)
  BY <1>6 DEF Crash
<1>. QED
  BY <1>1, <1>2, <1>3, <1>4, <1>5, <1>6

\* One task less and the counter one lower, or the task fires.
LEMMA FiresCount ==
  ASSUME TypeOK, TypeOK', NEW b \in Batch, NEW s \in Sat, FiresInv(b), Count(b, s)
  PROVE  FiresInv(b)'
<1>1. /\ s \in members[b] /\ pc[b][s] = "counting"
      /\ UNCHANGED <<phase, members, keyed, fired>>
  BY DEF Count, batchVars
<1>2. PICK x \in {"firing", "returning"} : pc' = [pc EXCEPT ![b][s] = x]
  <2>1. CASE pc' = [pc EXCEPT ![b][s] = "firing"]
    BY <2>1
  <2>2. CASE pc' = [pc EXCEPT ![b][s] = "returning"]
    BY <2>2
  <2>. QED
    BY <2>1, <2>2 DEF Count
<1>. x \in TaskStates /\ x \notin Waiting
  BY DEF TaskStates, Waiting
<1>3. /\ pc'[b][s] = x
      /\ \A t \in Sat \ {s} : pc'[b][t] = pc[b][t]
      /\ Outstanding(b)' = Outstanding(b) \ {s}
      /\ x = "firing" => Firing(b)' = Firing(b) \cup {s}
  BY <1>1, <1>2, AfterMove
<1>4. s \in Outstanding(b)
  BY <1>1 DEF Outstanding, Waiting
<1>5. /\ Cardinality(Outstanding(b)') = Cardinality(Outstanding(b)) - 1
      /\ Cardinality(Outstanding(b)) \in Nat
  BY <1>3, <1>4, OutstandingFinite, FS_RemoveElement
<1>6. keyed[b] => /\ counter'[b] = counter[b] - 1
                  /\ x = IF counter[b] - 1 <= 0 THEN "firing" ELSE "returning"
  BY <1>1, <1>3 DEF Count, TypeOK
<1>7. keyed[b] /\ members[b] # {} /\ fired[b] = 0 =>
        /\ counter'[b] <= Cardinality(Outstanding(b)')
        /\ Outstanding(b)' \cup Firing(b)' # {}
  <2>. SUFFICES ASSUME keyed[b], members[b] # {}, fired[b] = 0
                PROVE  /\ counter'[b] <= Cardinality(Outstanding(b)')
                       /\ Outstanding(b)' \cup Firing(b)' # {}
    OBVIOUS
  <2>1. counter[b] \in Int /\ counter[b] <= Cardinality(Outstanding(b))
    BY DEF FiresInv, TypeOK
  <2>2. counter'[b] <= Cardinality(Outstanding(b)')
    BY <1>5, <1>6, <2>1
  <2>3. CASE x = "firing"
    BY <1>3, <2>2, <2>3
  <2>4. CASE x = "returning"
    <3>1. Cardinality(Outstanding(b)') > 0
      BY <1>5, <1>6, <2>1, <2>4
    <3>2. Outstanding(b)' # {}
      BY <3>1, FS_EmptySet
    <3>. QED
      BY <2>2, <3>2
  <2>. QED
    BY <2>3, <2>4
<1>8. ~keyed[b] => fired[b] >= Cardinality(Ended(b)')
  <2>. SUFFICES ASSUME ~keyed[b] PROVE fired[b] >= Cardinality(Ended(b)')
    OBVIOUS
  <2>1. pc'[b][s] = "firing"
    BY <1>1 DEF Count, TypeOK
  <2>2. Ended(b)' = Ended(b) \ {s} /\ s \notin Ended(b)
    <3>1. x \notin {"returning", "done"}
      BY <1>3, <2>1
    <3>2. Ended(b)' = Ended(b) \ {s}
      BY <1>1, <1>2, <3>1, EndedAfterMove
    <3>. QED
      BY <1>1, <3>2 DEF Ended
  <2>3. Ended(b)' = Ended(b)
    BY <2>2
  <2>. QED
    BY <2>3 DEF FiresInv
<1>9. /\ \A t \in Sat \ members[b] : pc'[b][t] = "unsent"
      /\ \A t \in members[b] : pc'[b][t] # "failed"
  <2>1. members[b] \subseteq Sat
    BY DEF TypeOK
  <2>. QED
    BY <1>1, <1>3, <2>1 DEF FiresInv
<1>. QED
  BY <1>1, <1>7, <1>8, <1>9 DEF FiresInv

\* Sending run_greedy.
LEMMA FiresFire ==
  ASSUME TypeOK, TypeOK', NEW b \in Batch, NEW s \in Sat, FiresInv(b), Fire(b, s)
  PROVE  FiresInv(b)'
<1>1. /\ s \in members[b] /\ pc[b][s] = "firing"
      /\ pc' = [pc EXCEPT ![b][s] = "returning"]
      /\ UNCHANGED <<phase, members, keyed, counter>>
  BY DEF Fire, Move, batchVars
<1>2. fired'[b] = fired[b] + 1 /\ fired[b] \in Nat
  BY DEF Fire, TypeOK
<1>3. Ended(b)' = Ended(b) \cup {s} /\ s \notin Ended(b)
  <2>1. Ended(b)' = Ended(b) \cup {s}
    BY <1>1, EndedAfterMove DEF TaskStates
  <2>. QED
    BY <1>1, <2>1 DEF Ended
<1>4. /\ Cardinality(Ended(b)') = Cardinality(Ended(b)) + 1
      /\ Cardinality(Ended(b)) \in Nat
  BY <1>3, EndedFinite, FS_AddElement
<1>5. /\ \A t \in Sat \ members[b] : pc'[b][t] = "unsent"
      /\ \A t \in members[b] : pc'[b][t] # "failed"
  BY <1>1 DEF FiresInv, TypeOK
<1>. QED
  BY <1>1, <1>2, <1>4, <1>5 DEF FiresInv

\* The step of one task.
LEMMA FiresTaskStep ==
  ASSUME NoUndercounting, TypeOK, TypeOK', NEW b \in Batch, NEW s \in Sat,
         FiresInv(b), DetectPasses(b, s) \/ TaskFault(b, s)
  PROVE  FiresInv(b)'
<1>1. CASE Count(b, s)
  BY <1>1, FiresCount
<1>2. CASE Fire(b, s)
  BY <1>2, FiresFire
<1>3. CASE \/ Deliver(b, s) \/ Write(b, s) \/ Return(b, s)
           \/ BodyFails(b, s) \/ SoftLimit(b, s) \/ Crash(b, s)
  BY <1>3, FiresTaskStepMoves, FiresTaskMove
<1>4. ~(CountFails(b, s) \/ FireFails(b, s) \/ SoftSwallowed(b, s) \/ HardLimit(b, s))
  BY DEF NoUndercounting, Undercounting, CountFails, FireFails, SoftSwallowed, HardLimit
<1>. QED
  BY <1>1, <1>2, <1>3, <1>4 DEF DetectPasses, TaskFault

\* Storing the counter, or failing to.
LEMMA FiresStoreCounter ==
  ASSUME TypeOK, TypeOK', NEW b \in Batch, FiresInv(b), StoreCounter(b)
  PROVE  FiresInv(b)'
<1>1. PICK S \in SUBSET Sat :
        /\ members' = [members EXCEPT ![b] = S]
        /\ \/ S = {} /\ phase' = [phase EXCEPT ![b] = "empty"] /\ UNCHANGED <<keyed, counter>>
           \/ /\ S # {}
              /\ phase' = [phase EXCEPT ![b] = "dispatching"]
              /\ counter' = [counter EXCEPT ![b] = Cardinality(S)]
              /\ UNCHANGED keyed
           \/ /\ S # {}
              /\ phase' = [phase EXCEPT ![b] = "dispatching"]
              /\ keyed' = [keyed EXCEPT ![b] = FALSE]
  BY DEF StoreCounter
<1>2. UNCHANGED <<pc, fired>> /\ phase[b] = "queued"
  BY DEF StoreCounter, taskVars
<1>3. members'[b] = S
  BY <1>1 DEF TypeOK
<1>4. \A s \in Sat : pc[b][s] = "unsent"
  BY <1>2 DEF FiresInv
<1>5. IsFiniteSet(S) /\ Cardinality(S) \in Nat
  BY ConstantsAssumption, FS_Subset, FS_CardinalityType
<1>6. Outstanding(b)' = S /\ Ended(b)' = {}
  BY <1>2, <1>3, <1>4 DEF Outstanding, Waiting, Ended
<1>7. keyed'[b] /\ members'[b] # {} /\ fired'[b] = 0 =>
        /\ counter'[b] <= Cardinality(Outstanding(b)')
        /\ Outstanding(b)' \cup Firing(b)' # {}
  <2>1. CASE S = {}
    BY <2>1, <1>3
  <2>2. CASE S # {} /\ counter' = [counter EXCEPT ![b] = Cardinality(S)]
    <3>1. counter'[b] = Cardinality(S)
      BY <2>2 DEF TypeOK
    <3>. QED
      BY <2>2, <3>1, <1>5, <1>6
  <2>3. CASE keyed' = [keyed EXCEPT ![b] = FALSE]
    BY <2>3 DEF TypeOK
  <2>. QED
    BY <1>1, <2>1, <2>2, <2>3
<1>8. ~keyed'[b] => fired'[b] >= Cardinality(Ended(b)')
  BY <1>6, FS_EmptySet DEF TypeOK
<1>9. /\ phase'[b] \in {"unborn", "queued", "empty"} => S = {}
      /\ phase'[b] \in {"dispatching", "dispatched"} => S # {}
  BY <1>1 DEF TypeOK
<1>. QED
  BY <1>2, <1>3, <1>4, <1>7, <1>8, <1>9 DEF FiresInv

\* Steps of propagate_batch and of the faults around it.
LEMMA FiresBatchStep ==
  ASSUME NoUndercounting, TypeOK, TypeOK', NEW b \in Batch,
         \A c \in Batch : FiresInv(c),
         Trigger(b) \/ PropagateBatch(b) \/ BatchFault(b)
  PROVE  \A c \in Batch : FiresInv(c)'
<1>1. CASE StoreCounter(b)
  <2>1. ASSUME NEW c \in Batch \ {b} PROVE FiresInv(c)'
    <3>1. /\ phase'[c] = phase[c] /\ members'[c] = members[c]
          /\ keyed'[c] = keyed[c] /\ counter'[c] = counter[c]
          /\ pc' = pc /\ fired' = fired
      BY <1>1 DEF StoreCounter, taskVars, TypeOK
    <3>. QED
      BY <3>1, FiresElsewhere
  <2>. QED
    BY <1>1, <2>1, FiresStoreCounter
<1>2. CASE \E s \in Sat : Dispatch(b, s)
  <2>1. PICK s \in Sat : Dispatch(b, s)
    BY <1>2
  <2>2. /\ s \in members[b]
        /\ pc' = [pc EXCEPT ![b][s] = "queued"]
        /\ UNCHANGED <<batchVars, counter, fired>>
    BY <2>1 DEF Dispatch
  <2>3. FiresInv(b)'
    <3>1. "queued" \in TaskStates /\ "queued" \in Waiting
      BY DEF TaskStates, Waiting
    <3>. QED
      BY <2>2, <3>1, FiresTaskMove
  <2>4. ASSUME NEW c \in Batch \ {b} PROVE FiresInv(c)'
    <3>1. pc'[c] = pc[c]
      BY <2>2 DEF TypeOK
    <3>. QED
      BY <2>2, <3>1, FiresElsewhere DEF batchVars
  <2>. QED
    BY <2>3, <2>4
<1>3. CASE \/ Trigger(b) \/ EndBatch(b) \/ QueryFails(b)
           \/ DispatchFails(b) \/ CrashBatch(b)
  <2>1. UNCHANGED <<members, keyed, counter, fired, pc>>
    BY <1>3 DEF Trigger, EndBatch, QueryFails, DispatchFails, CrashBatch, taskVars
  <2>2. ASSUME NEW c \in Batch
        PROVE  /\ phase'[c] \in {"unborn", "queued", "empty"} =>
                    phase[c] \in {"unborn", "queued", "empty"}
               /\ phase'[c] \in {"dispatching", "dispatched"} =>
                    phase[c] \in {"dispatching", "dispatched"}
    BY <1>3, <2>2
       DEF TypeOK, Trigger, EndBatch, QueryFails, DispatchFails, CrashBatch
  <2>. QED
    BY <2>1, <2>2, FiresElsewhere
<1>4. CASE Expire(b)
  <2>1. /\ UNCHANGED <<phase, members, keyed, fired, pc>>
        /\ counter' = [counter EXCEPT ![b] = 0]
    BY <1>4 DEF Expire, batchVars, taskVars
  <2>2. ASSUME NEW c \in Batch PROVE FiresInv(c)'
    <3>1. /\ Outstanding(c)' = Outstanding(c) /\ Firing(c)' = Firing(c)
          /\ Ended(c)' = Ended(c)
      BY <2>1 DEF Outstanding, Firing, Ended
    <3>2. counter'[c] > 0 => counter'[c] <= counter[c]
      BY <2>1 DEF TypeOK
    <3>3. /\ \A s \in Sat \ members[c] : pc'[c][s] = "unsent"
          /\ \A s \in members[c] : pc'[c][s] # "failed"
      BY <2>1 DEF FiresInv
    <3>. QED
      BY <2>1, <3>1, <3>2, <3>3, FiresQuietStep
  <2>. QED
    BY <2>2
<1>. QED
  BY <1>1, <1>2, <1>3, <1>4 DEF PropagateBatch, BatchFault

\* FiringInv is inductive.
LEMMA FiringInvInductive == NoUndercounting /\ FiringInv /\ [Next]_vars => FiringInv'
<1>. SUFFICES ASSUME NoUndercounting, TypeOK, \A c \in Batch : FiresInv(c), [Next]_vars
              PROVE  TypeOK' /\ \A c \in Batch : FiresInv(c)'
  <2>1. FiringInv' <=> TypeOK' /\ \A c \in Batch : FiresInv(c)'
    BY DEF FiringInv, NoTaskGivesUp, OutstandingCoverCounter, EachTaskFired, FiresInv
  <2>. QED
    BY <2>1, FiringInvByBatch
<1>1. CASE UNCHANGED vars
  <2>1. UNCHANGED <<phase, members, keyed, counter, fired, pc>> /\ TypeOK'
    BY <1>1 DEF vars, batchVars, taskVars, TypeOK
  <2>2. ASSUME NEW c \in Batch PROVE FiresInv(c)'
    BY <2>1, FiresElsewhere
  <2>. QED
    BY <2>1, <2>2
<1>2. ASSUME NEW b \in Batch, Trigger(b) \/ PropagateBatch(b) \/ BatchFault(b)
      PROVE  TypeOK' /\ \A c \in Batch : FiresInv(c)'
  BY <1>2, BatchStepType, FiresBatchStep
<1>3. ASSUME NEW b \in Batch, NEW s \in Sat, DetectPasses(b, s) \/ TaskFault(b, s)
      PROVE  TypeOK' /\ \A c \in Batch : FiresInv(c)'
  <2>1. TypeOK'
    BY <1>3, TaskStepType
  <2>2. FiresInv(b)'
    BY <1>3, <2>1, FiresTaskStep
  <2>3. ASSUME NEW c \in Batch \ {b} PROVE FiresInv(c)'
    <3>1. /\ UNCHANGED <<phase, members, keyed>>
          /\ pc'[c] = pc[c] /\ counter'[c] = counter[c] /\ fired'[c] = fired[c]
      BY <1>3, TaskStepElsewhere DEF batchVars
    <3>. QED
      BY <2>1, <3>1, FiresElsewhere
  <2>. QED
    BY <2>1, <2>2, <2>3
<1>. QED
  BY <1>1, <1>2, <1>3 DEF Next

\* A batch that has come to rest has sent run_greedy: nothing is left that
\* could bring its counter down, so that somebody has.
THEOREM SettledBatchFiredHolds == NoUndercounting => (Spec => []SettledBatchFired)
<1>. SUFFICES ASSUME NoUndercounting PROVE Spec => []SettledBatchFired
  OBVIOUS
<1>1. Init => FiringInv
  <2>1. Init => TypeOK
    BY ConstantsAssumption DEF Init, TypeOK, Phases, TaskStates, SoftStates
  <2>2. ASSUME Init, NEW b \in Batch PROVE FiresInv(b)
    BY <2>2 DEF Init, FiresInv
  <2>. QED
    BY <2>1, <2>2, FiringInvByBatch
<1>2. FiringInv /\ [Next]_vars => FiringInv'
  BY FiringInvInductive
<1>3. FiringInv => SettledBatchFired
  <2>. SUFFICES ASSUME TypeOK, NEW b \in Batch, FiresInv(b), Settled(b)
                PROVE  fired[b] >= IF keyed[b] THEN 1 ELSE Cardinality(members[b])
    BY FiringInvByBatch DEF SettledBatchFired
  <2>1. members[b] # {} /\ \A s \in members[b] : pc[b][s] = "done"
    BY DEF Settled, FiresInv
  <2>2. Ended(b) = members[b] /\ Outstanding(b) = {} /\ Firing(b) = {}
    BY <2>1 DEF Ended, Outstanding, Firing, Waiting
  <2>3. fired[b] \in Nat
    BY DEF TypeOK
  <2>. QED
    BY <2>1, <2>2, <2>3 DEF FiresInv
<1>. QED
  BY <1>1, <1>2, <1>3, PTL DEF Spec

-----------------------------------------------------------------------------
(* The counter implements the barrier *)

\* Nothing changes for the barrier when the batches with a counter keep their
\* waiting tasks and their run_greedy messages.
LEMMA BarrierStutters ==
  ASSUME UNCHANGED <<members, keyed>>,
         \A c \in Batch : Opened(c) =>
           Outstanding(c)' = Outstanding(c) /\ fired'[c] = fired[c]
  PROVE  UNCHANGED Barrier!vars
<1>1. \A c \in Batch : Opened(c)' = Opened(c)
  BY DEF Opened
<1>. QED
  BY <1>1 DEF Barrier!vars

\* One task that stops waiting is one satellite leaving the barrier.
LEMMA BarrierLeaves ==
  ASSUME NEW b \in Batch, NEW s \in Sat, UNCHANGED <<members, keyed, fired>>,
         Opened(b), s \in Outstanding(b),
         Outstanding(b)' = Outstanding(b) \ {s},
         \A c \in Batch \ {b} : Outstanding(c)' = Outstanding(c)
  PROVE  Barrier!Next
<1>1. \A c \in Batch : Opened(c)' = Opened(c)
  BY DEF Opened
<1>2. Barrier!Leave(b, s)
  BY <1>1 DEF Barrier!Leave
<1>. QED
  BY <1>2 DEF Barrier!Next

\* The step of one task, seen from the barrier.
LEMMA TaskStepBarrier ==
  ASSUME NoOvercounting, TypeOK, NEW b \in Batch, NEW s \in Sat, BatchInv(b),
         DetectPasses(b, s) \/ TaskFault(b, s)
  PROVE  Barrier!Next \/ UNCHANGED Barrier!vars
<1>1. /\ UNCHANGED <<members, keyed>>
      /\ \A c \in Batch \ {b} :
           pc'[c] = pc[c] /\ fired'[c] = fired[c]
  <2>1. UNCHANGED <<members, keyed>>
    BY DEF DetectPasses, TaskFault, Move, Deliver, Write, Count, Fire, Return,
           BodyFails, CountFails, FireFails, SoftLimit, SoftSwallowed,
           HardLimit, Crash, batchVars
  <2>2. ASSUME NEW c \in Batch \ {b} PROVE pc'[c] = pc[c] /\ fired'[c] = fired[c]
    BY TaskStepElsewhere
  <2>. QED
    BY <2>1, <2>2
<1>2. \A c \in Batch \ {b} : Outstanding(c)' = Outstanding(c)
  BY <1>1 DEF Outstanding
<1>3. s \in members[b]
  BY DEF DetectPasses, TaskFault, Move, Deliver, Write, Count, Fire, Return,
         BodyFails, CountFails, FireFails, SoftLimit, SoftSwallowed, HardLimit, Crash
<1>4. CASE ~Opened(b)
  BY <1>1, <1>2, <1>4, BarrierStutters
<1>5. CASE Opened(b) /\ Fire(b, s)
  <2>1. /\ Outstanding(b) = {} /\ fired[b] = 0
        /\ pc' = [pc EXCEPT ![b][s] = "returning"] /\ pc[b][s] = "firing"
        /\ fired' = [fired EXCEPT ![b] = @ + 1]
    BY <1>3, <1>5 DEF BatchInv, Firing, Opened, Fire, Move
  <2>2. "returning" \in TaskStates /\ "returning" \notin Waiting
    BY DEF TaskStates, Waiting
  <2>3. Outstanding(b)' = Outstanding(b) \ {s}
    BY <1>1, <1>3, <2>1, <2>2, AfterMove
  <2>4. \A c \in Batch : Outstanding(c)' = Outstanding(c)
    BY <1>2, <2>1, <2>3
  <2>5. \A c \in Batch : Opened(c)' = Opened(c)
    BY <1>1 DEF Opened
  <2>6. \A c \in Batch : fired'[c] = IF c = b THEN 1 ELSE fired[c]
    BY <2>1 DEF TypeOK
  <2>7. Barrier!Release(b)
    BY <1>5, <2>1, <2>4, <2>5, <2>6 DEF Barrier!Release
  <2>. QED
    BY <2>7 DEF Barrier!Next
<1>6. CASE Opened(b) /\ (Count(b, s) \/ CountFails(b, s))
  <2>1. UNCHANGED fired /\ s \in Outstanding(b)
    BY <1>3, <1>6 DEF Count, CountFails, Outstanding, Waiting
  <2>2. PICK x \in {"firing", "returning"} : pc' = [pc EXCEPT ![b][s] = x]
    <3>1. CASE pc' = [pc EXCEPT ![b][s] = "firing"]
      BY <3>1
    <3>2. CASE pc' = [pc EXCEPT ![b][s] = "returning"]
      BY <3>2
    <3>. QED
      BY <1>6, <3>1, <3>2 DEF Count, CountFails
  <2>3. x \in TaskStates /\ x \notin Waiting
    BY DEF TaskStates, Waiting
  <2>4. Outstanding(b)' = Outstanding(b) \ {s}
    BY <1>1, <1>3, <2>2, <2>3, AfterMove
  <2>. QED
    BY <1>1, <1>2, <1>6, <2>1, <2>4, BarrierLeaves
<1>7. CASE Opened(b) /\ ~(Fire(b, s) \/ Count(b, s) \/ CountFails(b, s))
  <2>1. PICK x \in TaskStates :
          /\ pc' = [pc EXCEPT ![b][s] = x]
          /\ pc[b][s] \in Waiting \/ x \notin Waiting
    BY <1>7, TaskStepMoves DEF DetectPasses, TaskFault, Opened
  <2>2. UNCHANGED fired
    BY <1>7, TaskStepMoves DEF DetectPasses, TaskFault, Opened
  <2>3. /\ x \in Waiting => Outstanding(b)' = Outstanding(b) \cup {s}
        /\ x \notin Waiting => Outstanding(b)' = Outstanding(b) \ {s}
    <3>1. x \in Waiting => Outstanding(b)' = Outstanding(b) \cup {s}
      BY <1>1, <1>3, <2>1, AfterMove
    <3>2. x \notin Waiting => Outstanding(b)' = Outstanding(b) \ {s}
      BY <1>1, <1>3, <2>1, AfterMove
    <3>. QED
      BY <3>1, <3>2
  <2>4. s \in Outstanding(b) <=> pc[b][s] \in Waiting
    BY <1>3 DEF Outstanding
  <2>5. CASE x \notin Waiting /\ s \in Outstanding(b)
    BY <1>1, <1>2, <1>7, <2>2, <2>3, <2>5, BarrierLeaves
  <2>6. CASE x \in Waiting \/ s \notin Outstanding(b)
    <3>1. Outstanding(b)' = Outstanding(b)
      BY <2>1, <2>3, <2>4, <2>6
    <3>. QED
      BY <1>1, <1>2, <2>2, <3>1, BarrierStutters
  <2>. QED
    BY <2>5, <2>6
<1>. QED
  BY <1>4, <1>5, <1>6, <1>7

\* The steps of propagate_batch: storing the counter opens the barrier.
LEMMA BatchStepBarrier ==
  ASSUME NoOvercounting, TypeOK, NEW b \in Batch, \A c \in Batch : BatchInv(c),
         Trigger(b) \/ PropagateBatch(b) \/ BatchFault(b)
  PROVE  Barrier!Next \/ UNCHANGED Barrier!vars
<1>1. CASE StoreCounter(b)
  <2>1. PICK S \in SUBSET Sat :
          /\ members' = [members EXCEPT ![b] = S]
          /\ \/ S = {} /\ UNCHANGED keyed
             \/ S # {} /\ UNCHANGED keyed
             \/ S # {} /\ keyed' = [keyed EXCEPT ![b] = FALSE]
    BY <1>1 DEF StoreCounter
  <2>2. UNCHANGED <<pc, fired>> /\ phase[b] = "queued"
    BY <1>1 DEF StoreCounter, taskVars
  <2>3. members[b] = {} /\ fired[b] = 0 /\ \A s \in Sat : pc[b][s] = "unsent"
    BY <2>2 DEF BatchInv
  <2>4. \A c \in Batch \ {b} : Opened(c)' = Opened(c) /\ Outstanding(c)' = Outstanding(c)
    BY <2>1, <2>2 DEF TypeOK, Opened, Outstanding
  <2>5. members'[b] = S /\ ~Opened(b)
    BY <2>1, <2>3 DEF TypeOK, Opened
  <2>6. CASE Opened(b)'
    <3>1. S # {}
      BY <2>5, <2>6 DEF Opened
    <3>2. Outstanding(b)' = S
      BY <2>2, <2>3, <2>5 DEF Outstanding, Waiting
    <3>3. Barrier!Open(b)
      <4>1. [c \in Batch |-> Opened(c)]' =
              [[c \in Batch |-> Opened(c)] EXCEPT ![b] = TRUE]
        BY <2>4, <2>6 DEF Opened
      <4>2. [c \in Batch |-> IF Opened(c) THEN Outstanding(c) ELSE {}]' =
              [[c \in Batch |-> IF Opened(c) THEN Outstanding(c) ELSE {}]
                 EXCEPT ![b] = S]
        BY <2>4, <2>6, <3>2
      <4>3. [c \in Batch |-> IF Opened(c) THEN fired[c] ELSE 0]' =
              [c \in Batch |-> IF Opened(c) THEN fired[c] ELSE 0]
        BY <2>2, <2>3, <2>4, <2>5
      <4>4. ~[c \in Batch |-> Opened(c)][b]
        <5>1. [c \in Batch |-> Opened(c)][b] = Opened(b)
          OBVIOUS
        <5>. QED
          BY <2>5, <5>1
      <4>. QED
        BY <3>1, <4>1, <4>2, <4>3, <4>4 DEF Barrier!Open
    <3>. QED
      BY <3>3 DEF Barrier!Next
  <2>7. CASE ~Opened(b)'
    <3>1. \A c \in Batch : Opened(c)' = Opened(c)
      BY <2>4, <2>5, <2>7 DEF Opened
    <3>2. \A c \in Batch : Opened(c) =>
            Outstanding(c)' = Outstanding(c) /\ fired'[c] = fired[c]
      BY <2>2, <2>4, <2>5
    <3>. QED
      BY <3>1, <3>2 DEF Barrier!vars
  <2>. QED
    BY <2>6, <2>7
<1>2. CASE \E s \in Sat : Dispatch(b, s)
  <2>1. PICK s \in Sat : Dispatch(b, s)
    BY <1>2
  <2>2. /\ s \in members[b] /\ pc[b][s] = "unsent"
        /\ pc' = [pc EXCEPT ![b][s] = "queued"]
        /\ UNCHANGED <<members, keyed, fired>>
    BY <2>1 DEF Dispatch, batchVars
  <2>3. \A c \in Batch : Outstanding(c)' = Outstanding(c)
    BY <2>2 DEF Outstanding, Waiting, TypeOK
  <2>. QED
    BY <2>2, <2>3, BarrierStutters
<1>3. CASE \/ Trigger(b) \/ EndBatch(b) \/ QueryFails(b)
           \/ DispatchFails(b) \/ CrashBatch(b)
  <2>1. UNCHANGED <<members, keyed, counter, fired, pc>>
    BY <1>3 DEF Trigger, EndBatch, QueryFails, DispatchFails, CrashBatch, taskVars
  <2>2. \A c \in Batch : Outstanding(c)' = Outstanding(c)
    BY <2>1 DEF Outstanding
  <2>. QED
    BY <2>1, <2>2, BarrierStutters
<1>4. CASE Expire(b)
  BY <1>4 DEF Expire, NoOvercounting, Overcounting
<1>. QED
  BY <1>1, <1>2, <1>3, <1>4 DEF PropagateBatch, BatchFault

\* Without a fault of Overcounting the Redis counter, its DECR and the separate
\* sending of run_greedy behave like the barrier the header describes.
THEOREM CounterImplementsBarrier == NoOvercounting => (Spec => ImplementsBarrier)
<1>. SUFFICES ASSUME NoOvercounting PROVE Spec => Barrier!Spec
  BY DEF ImplementsBarrier
<1>1. Init => Barrier!Init
  BY DEF Init, Barrier!Init, Opened
<1>2. IInv /\ [Next]_vars => [Barrier!Next]_(Barrier!vars)
  <2>. SUFFICES ASSUME IInv, [Next]_vars
                PROVE  Barrier!Next \/ UNCHANGED Barrier!vars
    OBVIOUS
  <2>. TypeOK /\ \A c \in Batch : BatchInv(c)
    BY IInvByBatch
  <2>1. CASE UNCHANGED vars
    <3>1. UNCHANGED <<members, keyed, fired, pc>>
      BY <2>1 DEF vars, batchVars, taskVars
    <3>2. \A c \in Batch : Outstanding(c)' = Outstanding(c)
      BY <3>1 DEF Outstanding
    <3>. QED
      BY <3>1, <3>2, BarrierStutters
  <2>2. CASE Next
    BY <2>2, BatchStepBarrier, TaskStepBarrier DEF Next
  <2>. QED
    BY <2>1, <2>2
<1>3. Spec => []IInv
  BY IInvHolds
<1>. QED
  BY <1>1, <1>2, <1>3, PTL DEF Spec, Barrier!Spec

=============================================================================
