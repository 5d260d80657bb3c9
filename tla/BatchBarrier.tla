--------------------------- MODULE BatchBarrier ----------------------------
(***************************************************************************)
(* What the counter of workers/celery_app.py promises, without a counter:  *)
(* a batch opens with the set of satellites to wait for, each of them      *)
(* leaves once, and the batch is released once, when nobody is waited for. *)
(* "run_greedy fires exactly once after the last detect_passes in that     *)
(* batch completes" (header of the file).                                  *)
(***************************************************************************)
EXTENDS Naturals

CONSTANTS Batch, Sat

VARIABLES
  open,      \* open[b]: the batch has been opened
  waiting,   \* waiting[b]: the satellites it still waits for
  released   \* released[b]: how often it has been released

vars == <<open, waiting, released>>

Init ==
  /\ open = [b \in Batch |-> FALSE]
  /\ waiting = [b \in Batch |-> {}]
  /\ released = [b \in Batch |-> 0]

Open(b) ==
  /\ ~open[b]
  /\ open' = [open EXCEPT ![b] = TRUE]
  /\ \E S \in SUBSET Sat : S # {} /\ waiting' = [waiting EXCEPT ![b] = S]
  /\ UNCHANGED released

Leave(b, s) ==
  /\ s \in waiting[b]
  /\ waiting' = [waiting EXCEPT ![b] = @ \ {s}]
  /\ UNCHANGED <<open, released>>

Release(b) ==
  /\ open[b]
  /\ waiting[b] = {}
  /\ released[b] = 0
  /\ released' = [released EXCEPT ![b] = 1]
  /\ UNCHANGED <<open, waiting>>

Next ==
  \E b \in Batch : Open(b) \/ Release(b) \/ \E s \in Sat : Leave(b, s)

Spec == Init /\ [][Next]_vars

=============================================================================
