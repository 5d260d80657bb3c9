------------------------- MODULE PropagationBatch --------------------------
(***************************************************************************)
(* The fan-out of workers/celery_app.py: propagate_batch stores a counter  *)
(* in Redis, sends one detect_passes task per satellite, and the task that *)
(* brings the counter to zero sends run_greedy.                            *)
(*                                                                         *)
(* A batch is one execution of propagate_batch; every execution builds its *)
(* own counter key (lines 281-285), so a batch is identified with its key. *)
(* What Celery does with a message (late acknowledgement, redelivery, time *)
(* limits, retry) is modelled from the settings and decorators in the file *)
(* and from celery 5.3.4, the version requirements.txt pins.               *)
(***************************************************************************)
EXTENDS Integers, FiniteSets

CONSTANTS
  Batch,        \* executions of propagate_batch
  Triggered,    \* those that have a message of their own; the others can
                \* only come from a redelivery, see CrashBatch
  Sat,          \* satellites (norad ids) that may have a TLE row
  MaxRetries,   \* max_retries of the task decorators
  MaxCrashes,   \* bound: how many worker losses a behaviour may contain
  Faults        \* the faults the environment may commit, see FaultKinds

(***************************************************************************)
(* db              a database error in the body of a task                  *)
(* exhaust         such an error on the last attempt that is allowed       *)
(* broker          Redis refuses a task message that is being sent         *)
(* setFails        Redis refuses the SET of the counter                    *)
(* decrFails       Redis refuses the DECR, nothing is counted              *)
(* decrUnseen      Redis executes the DECR and the answer is lost          *)
(* softLimit       soft time limit raised where its own handler sees it    *)
(* softSwallowed   soft time limit raised below an `except Exception`      *)
(* softAfterCount  soft time limit raised after the DECR, before return    *)
(* hardLimit       the process is killed at its hard time limit            *)
(* crash           the worker is lost before the task was counted          *)
(* crashAfterCount the worker is lost after the DECR, before the ack       *)
(* expiry          the counter key outlives _PROPAGATE_COUNTER_TTL         *)
(***************************************************************************)
FaultKinds ==
  {"db", "exhaust", "broker", "setFails", "decrFails", "decrUnseen",
   "softLimit", "softSwallowed", "softAfterCount", "hardLimit",
   "crash", "crashAfterCount", "expiry"}

\* The faults after which a task can be counted twice, or finds no counter.
Overcounting == {"softAfterCount", "crashAfterCount", "expiry"}

\* The faults after which a batch may end with its counter above zero.
Undercounting ==
  {"exhaust", "broker", "decrFails", "decrUnseen", "softSwallowed", "hardLimit"}

ASSUME ConstantsAssumption ==
  /\ Triggered \subseteq Batch
  /\ IsFiniteSet(Sat)
  /\ MaxRetries \in Nat
  /\ MaxCrashes \in Nat
  /\ Faults \subseteq FaultKinds

VARIABLES
  phase,     \* phase[b]: how far propagate_batch has got
  attempts,  \* attempts[b]: retries used by propagate_batch
  members,   \* members[b]: the norad ids it resolved
  keyed,     \* keyed[b]: FALSE if the SET failed and the tasks carry ""
  counter,   \* counter[b]: the Redis counter; a missing key reads as 0
  fired,     \* fired[b]: run_greedy messages sent for this batch
  pc,        \* pc[b][s]: where the detect_passes task of s is
  tries,     \* tries[b][s]: request.retries of that task
  soft,      \* soft[b][s]: what became of the soft limit in this delivery
  crashes    \* worker losses so far

batchVars == <<phase, attempts, members, keyed>>
taskVars  == <<pc, tries, soft>>
vars      == <<batchVars, taskVars, counter, fired, crashes>>

\* "unborn" is a batch no propagate_batch message exists for yet.
Phases == {"unborn", "queued", "dispatching", "dispatched", "empty", "failed"}

SoftStates == {"unraised", "swallowed", "handled"}

(***************************************************************************)
(* unsent      propagate_batch has not sent the task                       *)
(* queued      its message (first, retried or redelivered) is in the queue *)
(* working     lines 331-425: reading, propagating, writing passes         *)
(* counting    about to DECR, from line 426 or from the handler, line 439  *)
(* firing      the DECR answered <= 0: about to send run_greedy            *)
(* returning   back from _propagate_counter_decr, not acknowledged yet     *)
(* done        acknowledged after the call of _propagate_counter_decr      *)
(* failed      ended without reaching that call                            *)
(***************************************************************************)
TaskStates ==
  {"unsent", "queued", "working", "counting", "firing", "returning",
   "done", "failed"}

\* Tasks that have not been counted and still may be.
Waiting == {"unsent", "queued", "working", "counting"}

\* States in which a worker process holds the task.
Held == {"working", "counting", "firing", "returning"}

TypeOK ==
  /\ phase \in [Batch -> Phases]
  /\ attempts \in [Batch -> 0..MaxRetries]
  /\ members \in [Batch -> SUBSET Sat]
  /\ keyed \in [Batch -> BOOLEAN]
  /\ counter \in [Batch -> Int]
  /\ fired \in [Batch -> Nat]
  /\ pc \in [Batch -> [Sat -> TaskStates]]
  /\ tries \in [Batch -> [Sat -> 0..MaxRetries]]
  /\ soft \in [Batch -> [Sat -> SoftStates]]
  /\ crashes \in 0..MaxCrashes

Outstanding(b) == {s \in members[b] : pc[b][s] \in Waiting}

Init ==
  /\ phase = [b \in Batch |-> "unborn"]
  /\ attempts = [b \in Batch |-> 0]
  /\ members = [b \in Batch |-> {}]
  /\ keyed = [b \in Batch |-> TRUE]
  /\ counter = [b \in Batch |-> 0]
  /\ fired = [b \in Batch |-> 0]
  /\ pc = [b \in Batch |-> [s \in Sat |-> "unsent"]]
  /\ tries = [b \in Batch |-> [s \in Sat |-> 0]]
  /\ soft = [b \in Batch |-> [s \in Sat |-> "unraised"]]
  /\ crashes = 0

-----------------------------------------------------------------------------
(* propagate_batch *)

\* propagate_batch.delay([]), at the end of ingest_tles.
Trigger(b) ==
  /\ b \in Triggered
  /\ phase[b] = "unborn"
  /\ phase' = [phase EXCEPT ![b] = "queued"]
  /\ UNCHANGED <<attempts, members, keyed, taskVars, counter, fired, crashes>>

\* The query of the norad ids fails: retry, and give up when none is left.
QueryFails(b) ==
  /\ "db" \in Faults
  /\ phase[b] = "queued"
  /\ \/ /\ attempts[b] < MaxRetries
        /\ attempts' = [attempts EXCEPT ![b] = @ + 1]
        /\ UNCHANGED phase
     \/ /\ attempts[b] = MaxRetries
        /\ "exhaust" \in Faults
        /\ phase' = [phase EXCEPT ![b] = "failed"]
        /\ UNCHANGED attempts
  /\ UNCHANGED <<members, keyed, taskVars, counter, fired, crashes>>

\* Bug: the counter is one short.
StoreCounterShort(b) ==
  /\ phase[b] = "queued"
  /\ \E S \in SUBSET Sat \ {{}} :
       /\ members' = [members EXCEPT ![b] = S]
       /\ counter' = [counter EXCEPT ![b] = Cardinality(S) - 1]
  /\ phase' = [phase EXCEPT ![b] = "dispatching"]
  /\ UNCHANGED <<attempts, keyed, taskVars, fired, crashes>>

\* The ids are resolved and the counter is stored, before any task is sent.
\* With no TLE in the table the batch ends here.
StoreCounter(b) ==
  /\ phase[b] = "queued"
  /\ \E S \in SUBSET Sat :
       /\ members' = [members EXCEPT ![b] = S]
       /\ \/ /\ S = {}
             /\ phase' = [phase EXCEPT ![b] = "empty"]
             /\ UNCHANGED <<keyed, counter>>
          \/ /\ S # {}
             /\ phase' = [phase EXCEPT ![b] = "dispatching"]
             /\ counter' = [counter EXCEPT ![b] = Cardinality(S)]
             /\ UNCHANGED keyed
          \/ /\ S # {}
             /\ "setFails" \in Faults
             /\ phase' = [phase EXCEPT ![b] = "dispatching"]
             /\ keyed' = [keyed EXCEPT ![b] = FALSE]
             /\ UNCHANGED counter
  /\ UNCHANGED <<attempts, taskVars, fired, crashes>>

\* One turn of the dispatch loop.
Dispatch(b, s) ==
  /\ phase[b] = "dispatching"
  /\ s \in members[b]
  /\ pc[b][s] = "unsent"
  /\ pc' = [pc EXCEPT ![b][s] = "queued"]
  /\ UNCHANGED <<batchVars, tries, soft, counter, fired, crashes>>

\* The loop is over: return, acknowledge.
EndBatch(b) ==
  /\ phase[b] = "dispatching"
  /\ \A s \in members[b] : pc[b][s] # "unsent"
  /\ phase' = [phase EXCEPT ![b] = "dispatched"]
  /\ UNCHANGED <<attempts, members, keyed, taskVars, counter, fired, crashes>>

\* The loop has no handler: a refused message or a time limit of
\* propagate_batch ends it, and what was not sent yet never is.
DispatchFails(b) ==
  /\ {"broker", "softLimit", "hardLimit"} \cap Faults # {}
  /\ phase[b] = "dispatching"
  /\ phase' = [phase EXCEPT ![b] = "failed"]
  /\ UNCHANGED <<attempts, members, keyed, taskVars, counter, fired, crashes>>

\* The worker is lost after the SET: the message is delivered again, and that
\* execution builds a key of its own.
CrashBatch(b) ==
  /\ "crash" \in Faults
  /\ crashes < MaxCrashes
  /\ phase[b] = "dispatching"
  /\ \E c \in Batch :
       /\ phase[c] = "unborn"
       /\ phase' = [phase EXCEPT ![b] = "failed", ![c] = "queued"]
       /\ attempts' = [attempts EXCEPT ![c] = attempts[b]]
  /\ crashes' = crashes + 1
  /\ UNCHANGED <<members, keyed, taskVars, counter, fired>>

-----------------------------------------------------------------------------
(* detect_passes *)

\* A step of the task of s in batch b, from one state to another, that leaves
\* the batch, the counter and the number of crashes alone.
Move(b, s, from, to) ==
  /\ s \in members[b]
  /\ pc[b][s] \in from
  /\ pc' = [pc EXCEPT ![b][s] = to]
  /\ UNCHANGED <<batchVars, counter, crashes>>

\* A worker takes the message.
Deliver(b, s) ==
  /\ Move(b, s, {"queued"}, "working")
  /\ soft' = [soft EXCEPT ![b][s] = "unraised"]
  /\ UNCHANGED <<tries, fired>>

\* The passes are written and committed, or there is nothing to write (no
\* station, an unusable propagation); either way the decrement comes next.
Write(b, s) ==
  /\ Move(b, s, {"working"}, "counting")
  /\ UNCHANGED <<tries, soft, fired>>

\* The generic handler.  retry() sends the message again with one more retry;
\* when none is left it raises the original exception instead of
\* MaxRetriesExceededError, and when the broker refuses the message it raises
\* Reject: in both cases the handler of line 453 is not entered.
RetryOrFail(b, s) ==
  \/ /\ tries[b][s] < MaxRetries
     /\ pc' = [pc EXCEPT ![b][s] = "queued"]
     /\ tries' = [tries EXCEPT ![b][s] = @ + 1]
  \/ /\ \/ tries[b][s] = MaxRetries /\ "exhaust" \in Faults
        \/ "broker" \in Faults
     /\ pc' = [pc EXCEPT ![b][s] = "failed"]
     /\ UNCHANGED tries

\* Bug: the decrement is in a `finally`, so every failed attempt counts.
BodyFailsCounted(b, s) ==
  /\ "db" \in Faults
  /\ s \in members[b]
  /\ pc[b][s] = "working"
  /\ RetryOrFail(b, s)
  /\ counter' = [counter EXCEPT ![b] = @ - 1]
  /\ UNCHANGED <<batchVars, soft, fired, crashes>>

BodyFails(b, s) ==
  /\ "db" \in Faults
  /\ s \in members[b]
  /\ pc[b][s] = "working"
  /\ RetryOrFail(b, s)
  /\ UNCHANGED <<batchVars, soft, counter, fired, crashes>>

\* A DECR, and run_greedy when its answer passes the test.
CountWhen(b, s, Test(_)) ==
  /\ s \in members[b]
  /\ pc[b][s] = "counting"
  /\ counter' = [counter EXCEPT ![b] = @ - 1]
  /\ pc' = [pc EXCEPT ![b][s] = IF Test(counter[b] - 1) THEN "firing" ELSE "returning"]
  /\ UNCHANGED <<batchVars, tries, soft, fired, crashes>>

\* Bug: the last but one fires too.
CountTooEarly(b, s) == CountWhen(b, s, LAMBDA remaining : remaining <= 1)

\* Bug: a counter below zero is not taken for zero.
CountExactly(b, s) == CountWhen(b, s, LAMBDA remaining : remaining = 0)

\* _propagate_counter_decr.  With the key "" run_greedy is sent directly.
Count(b, s) ==
  /\ s \in members[b]
  /\ pc[b][s] = "counting"
  /\ IF keyed[b]
     THEN /\ counter' = [counter EXCEPT ![b] = @ - 1]
          /\ pc' = [pc EXCEPT ![b][s] =
                      IF counter[b] - 1 <= 0 THEN "firing" ELSE "returning"]
     ELSE /\ pc' = [pc EXCEPT ![b][s] = "firing"]
          /\ UNCHANGED counter
  /\ UNCHANGED <<batchVars, tries, soft, fired, crashes>>

\* Its `except Exception`: the task goes on as if it had been counted.
CountFails(b, s) ==
  /\ keyed[b]
  /\ s \in members[b]
  /\ pc[b][s] = "counting"
  /\ \/ "decrFails" \in Faults /\ UNCHANGED counter
     \/ "decrUnseen" \in Faults /\ counter' = [counter EXCEPT ![b] = @ - 1]
  /\ pc' = [pc EXCEPT ![b][s] = "returning"]
  /\ UNCHANGED <<batchVars, tries, soft, fired, crashes>>

\* run_greedy.delay()
Fire(b, s) ==
  /\ Move(b, s, {"firing"}, "returning")
  /\ fired' = [fired EXCEPT ![b] = @ + 1]
  /\ UNCHANGED <<tries, soft>>

\* The broker refuses it.  With a key the exception is swallowed; without
\* one it leaves _propagate_counter_decr for the generic handler, or ends the
\* task when it was raised below the handler of the soft limit.
FireFails(b, s) ==
  /\ "broker" \in Faults
  /\ s \in members[b]
  /\ pc[b][s] = "firing"
  /\ \/ /\ keyed[b]
        /\ pc' = [pc EXCEPT ![b][s] = "returning"]
        /\ UNCHANGED tries
     \/ /\ ~keyed[b]
        /\ soft[b][s] # "handled"
        /\ RetryOrFail(b, s)
     \/ /\ ~keyed[b]
        /\ soft[b][s] = "handled"
        /\ pc' = [pc EXCEPT ![b][s] = "failed"]
        /\ UNCHANGED tries
  /\ UNCHANGED <<batchVars, soft, counter, fired, crashes>>

\* The task returns, or the handler of the soft limit re-raises; the message
\* is acknowledged in both cases.
Return(b, s) ==
  /\ Move(b, s, {"returning"}, "done")
  /\ soft' = [soft EXCEPT ![b][s] = "unraised"]
  /\ UNCHANGED <<tries, fired>>

-----------------------------------------------------------------------------
(* Time limits and lost workers *)

\* Bug: the handler of the soft limit forgets the decrement.
SoftLimitUncounted(b, s) ==
  /\ soft[b][s] = "unraised"
  /\ "softLimit" \in Faults
  /\ Move(b, s, {"working"}, "returning")
  /\ soft' = [soft EXCEPT ![b][s] = "handled"]
  /\ UNCHANGED <<tries, fired>>

\* SoftTimeLimitExceeded is raised once per delivery.  Outside the inner
\* handlers it reaches the one of line 429, which goes on to the decrement.
SoftLimit(b, s) ==
  /\ soft[b][s] = "unraised"
  /\ \/ "softLimit" \in Faults /\ Move(b, s, {"working"}, "counting")
     \/ "softAfterCount" \in Faults /\ Move(b, s, {"returning"}, "counting")
  /\ soft' = [soft EXCEPT ![b][s] = "handled"]
  /\ UNCHANGED <<tries, fired>>

\* Below `except Exception` it is an error like any other: the loops over TLEs
\* and stations (lines 364, 397) continue, and _propagate_counter_decr (182)
\* returns without what it had left to do.
SoftSwallowed(b, s) ==
  /\ "softSwallowed" \in Faults
  /\ soft[b][s] = "unraised"
  /\ \/ Move(b, s, {"working"}, "working")
     \/ keyed[b] /\ Move(b, s, {"counting", "firing"}, "returning")
  /\ soft' = [soft EXCEPT ![b][s] = "swallowed"]
  /\ UNCHANGED <<tries, fired>>

\* The pool kills the process; acks_on_failure_or_timeout acknowledges.
HardLimit(b, s) ==
  /\ "hardLimit" \in Faults
  /\ soft[b][s] # "unraised"
  /\ Move(b, s, Held, "failed")
  /\ UNCHANGED <<tries, soft, fired>>

\* A lost worker has not acknowledged: task_acks_late, reject_on_worker_lost
\* and the visibility timeout put the same message back in the queue.
Crash(b, s) ==
  /\ crashes < MaxCrashes
  /\ s \in members[b]
  /\ \/ "crash" \in Faults /\ pc[b][s] \in {"working", "counting"}
     \/ "crashAfterCount" \in Faults /\ pc[b][s] \in {"firing", "returning"}
  /\ pc' = [pc EXCEPT ![b][s] = "queued"]
  /\ soft' = [soft EXCEPT ![b][s] = "unraised"]
  /\ crashes' = crashes + 1
  /\ UNCHANGED <<batchVars, tries, counter, fired>>

\* The TTL of the key runs out with tasks still to come.
Expire(b) ==
  /\ "expiry" \in Faults
  /\ counter[b] > 0
  /\ counter' = [counter EXCEPT ![b] = 0]
  /\ UNCHANGED <<batchVars, taskVars, fired, crashes>>

-----------------------------------------------------------------------------
PropagateBatch(b) ==
  \/ StoreCounter(b)
  \/ \E s \in Sat : Dispatch(b, s)
  \/ EndBatch(b)

DetectPasses(b, s) ==
  \/ Deliver(b, s)
  \/ Write(b, s)
  \/ Count(b, s)
  \/ Fire(b, s)
  \/ Return(b, s)

BatchFault(b) ==
  \/ QueryFails(b)
  \/ DispatchFails(b)
  \/ CrashBatch(b)
  \/ Expire(b)

TaskFault(b, s) ==
  \/ BodyFails(b, s)
  \/ CountFails(b, s)
  \/ FireFails(b, s)
  \/ SoftLimit(b, s)
  \/ SoftSwallowed(b, s)
  \/ HardLimit(b, s)
  \/ Crash(b, s)

Next ==
  \E b \in Batch :
    \/ Trigger(b)
    \/ PropagateBatch(b)
    \/ BatchFault(b)
    \/ \E s \in Sat : DetectPasses(b, s) \/ TaskFault(b, s)

\* Workers keep taking messages and a task that is not disturbed goes on; no
\* fault has to happen and nothing has to be triggered.
Fairness ==
  \A b \in Batch :
    /\ WF_vars(PropagateBatch(b))
    /\ \A s \in Sat : WF_vars(DetectPasses(b, s))

Spec == Init /\ [][Next]_vars
FairSpec == Spec /\ Fairness

-----------------------------------------------------------------------------
(* Properties *)

\* Everything propagate_batch had to send is sent and has ended.
Settled(b) ==
  /\ phase[b] = "dispatched"
  /\ \A s \in members[b] : pc[b][s] \in {"done", "failed"}

\* "Triggers run_greedy exactly once when the counter reaches zero"
\* (line 159), the half that says at most once.
AtMostOneGreedy == \A b \in Batch : keyed[b] => fired[b] <= 1

\* run_greedy is not sent while a task of the batch may still write passes:
\* "when every detect_passes task in the batch has finished" (lines 160-161).
GreedyAfterAll ==
  \A b \in Batch : keyed[b] /\ fired[b] > 0 => Outstanding(b) = {}

\* The other half: a batch that has come to rest has triggered run_greedy, at
\* least once if it had a counter and once per task if it had none (line 292).
SettledBatchFired ==
  \A b \in Batch :
    Settled(b) => fired[b] >= IF keyed[b] THEN 1 ELSE Cardinality(members[b])

\* The same as a promise of progress: a batch that was sent out completely
\* leads to a run_greedy message.
EveryBatchFires ==
  \A b \in Batch : phase[b] = "dispatched" ~> fired[b] > 0

-----------------------------------------------------------------------------
(* Why it works: the inductive invariant, under no fault of Overcounting.    *)

Firing(b) == {s \in members[b] : pc[b][s] = "firing"}

\* Only a member has a task, and members are fixed when the counter is stored.
OnlyMembersSent ==
  \A b \in Batch :
    /\ phase[b] \in {"unborn", "queued", "empty"} => members[b] = {}
    /\ members[b] = {} => fired[b] = 0
    /\ \A s \in Sat \ members[b] : pc[b][s] = "unsent"

\* The counter never runs ahead of the tasks: it is at least the number of
\* tasks that have not been counted and still may be.
CounterCoversOutstanding ==
  \A b \in Batch :
    keyed[b] /\ members[b] # {} => counter[b] >= Cardinality(Outstanding(b))

\* Whoever is about to send run_greedy is the only one, is the last one, and
\* nobody has sent it before.
OneLastTask ==
  \A b \in Batch : keyed[b] =>
    /\ Firing(b) # {} => Outstanding(b) = {} /\ fired[b] = 0
    /\ \A s, t \in Firing(b) : s = t

IInv ==
  /\ TypeOK
  /\ OnlyMembersSent
  /\ CounterCoversOutstanding
  /\ OneLastTask
  /\ GreedyAfterAll
  /\ AtMostOneGreedy

-----------------------------------------------------------------------------
(* Why every batch fires: the inductive invariant, under no fault of          *)
(* Undercounting.                                                             *)

Ended(b) == {s \in members[b] : pc[b][s] \in {"returning", "done"}}

\* The tasks are sent to somebody, and none ends without being counted.
NoTaskGivesUp ==
  \A b \in Batch :
    /\ phase[b] \in {"unborn", "queued", "empty"} => members[b] = {}
    /\ phase[b] \in {"dispatching", "dispatched"} => members[b] # {}
    /\ \A s \in Sat \ members[b] : pc[b][s] = "unsent"
    /\ \A s \in members[b] : pc[b][s] # "failed"

\* Until run_greedy is sent somebody may still bring the counter down to zero
\* or has done so: the counter never lags behind the tasks.
OutstandingCoverCounter ==
  \A b \in Batch : keyed[b] /\ members[b] # {} /\ fired[b] = 0 =>
    /\ counter[b] <= Cardinality(Outstanding(b))
    /\ Outstanding(b) \cup Firing(b) # {}

\* Without a counter every task that has ended has sent a message of its own.
EachTaskFired ==
  \A b \in Batch : ~keyed[b] => fired[b] >= Cardinality(Ended(b))

FiringInv ==
  /\ TypeOK
  /\ NoTaskGivesUp
  /\ OutstandingCoverCounter
  /\ EachTaskFired

-----------------------------------------------------------------------------
(* The counter implements the barrier.  A batch without a counter opens no   *)
(* barrier; a satellite is waited for until its task has been counted or     *)
(* has ended.                                                                *)

Opened(b) == keyed[b] /\ members[b] # {}

Barrier == INSTANCE BatchBarrier WITH
  open     <- [b \in Batch |-> Opened(b)],
  waiting  <- [b \in Batch |-> IF Opened(b) THEN Outstanding(b) ELSE {}],
  released <- [b \in Batch |-> IF Opened(b) THEN fired[b] ELSE 0]

\* Every behaviour of the counter is one of the barrier, as long as no fault
\* of Overcounting occurs.
ImplementsBarrier == Barrier!Spec

=============================================================================
