---------------------------- MODULE PassSchedule ----------------------------
(***************************************************************************)
(* The passes table and the two stages that schedule it: run_greedy with   *)
(* GreedyScheduler.schedule_all_stations and get_free_slots, then          *)
(* run_ortools with ORToolsOptimizer.optimize_remaining.  Beside them,     *)
(* detect_passes tasks insert passes, the clean-up endpoint deletes old    *)
(* ones and the clock moves.                                               *)
(*                                                                         *)
(* A run is one chain run_greedy -> run_ortools, or what the API runs by   *)
(* itself, by the first stage only: the pipeline, which detects passes and *)
(* schedules them in one go, and the call that only schedules.  Every      *)
(* query of a run sees what is committed at that moment; the rows it       *)
(* changes become visible at its commit.  Messages are delivered at least  *)
(* once: a task may start again after its commit, and a run_greedy that    *)
(* has sent run_ortools may be delivered again beside it, which makes a    *)
(* run of its own.  Time is counted in ticks, Second of them to a second.  *)
(***************************************************************************)
EXTENDS Intervals

CONSTANTS
  Universe,     \* passes [station, norad, rise, set, benefit] that may be detected
  NumStations,  \* the active stations are 1..NumStations
  Run,          \* executions of the two stages
  Triggered,    \* bound: the runs that a batch may trigger
  SyncRun,      \* bound: the runs that may be inside the API
  Window,       \* PROPAGATION_DAYS
  SevenDays,    \* the window of the schedule-only call
  Day,          \* one day, the age at which a pass is cleaned up
  Second,       \* ticks in a second
  Instants,     \* bound: the values the clock takes after 0
  MaxRestarts   \* bound: errors and redeliveries after which a task starts again

Stations == 1..NumStations

ASSUME UniverseAssumption ==
  \A p \in Universe : /\ p.station \in Stations
                      /\ p.rise \in Nat /\ p.set \in Nat /\ p.benefit \in Nat
                      /\ p.rise < p.set

ASSUME ParametersAssumption ==
  /\ NumStations \in Nat \ {0}
  /\ Triggered \subseteq Run /\ SyncRun \subseteq Run
  /\ Window \in Nat /\ SevenDays \in Nat /\ Day \in Nat /\ Second \in Nat \ {0}
  /\ Instants \subseteq Nat /\ MaxRestarts \in Nat

VARIABLES
  rows,      \* the rows of satellite_passes
  by,        \* by[p]: scheduled_by, "nobody" while is_scheduled is false
  now,       \* the clock
  api,       \* the runs inside the API: greedy only, never retried
  stage,     \* stage[r]: see Stages
  restarts,  \* restarts[r]: how often the task at hand started again
  start,     \* start[r]: start_time of run_greedy
  until,     \* until[r]: its end_time
  at,        \* at[r]: the station the greedy loop comes to next
  picked,    \* picked[r]: passes run_greedy marked; its message outlives it
  sats,      \* sats[r]: the satellites in the message to run_ortools
  slots,     \* slots[r]: the free slots in that message, see FreeSlotsNow
  chosen,    \* chosen[r]: passes run_ortools marked and has not committed
  redone,    \* history: a task has started again after its commit
  together   \* history: pairs of passes that run_greedy and its run_ortools committed

tableVars == <<rows, by>>
greedyVars == <<start, until, at, picked>>
msgVars   == <<sats, slots>>
runVars   == <<api, stage, restarts, greedyVars, msgVars, chosen, redone, together>>
vars      == <<tableVars, now, runVars>>

(***************************************************************************)
(* unsent     no message exists                                            *)
(* queued     the run_greedy message is in the queue                       *)
(* scanning   in the loop over the stations                                *)
(* committed  the greedy picks are committed                               *)
(* sent       the run_ortools message is in the queue                      *)
(* solved     candidates read and solved                                   *)
(* optimized  the OR-Tools picks are committed                             *)
(* over       the last task of the run returned, or one of them gave up    *)
(***************************************************************************)
Stages == {"unsent", "queued", "scanning", "committed", "sent", "solved",
           "optimized", "over"}

\* The message: at every station the gaps that these passes leave in from..to.
\* That a pass fits in a gap exactly when it lies in the window and overlaps
\* none of the passes is FitsMeansFree of MCAlgorithms.
SlotMessages == [from : Nat, to : Nat, occupied : SUBSET Universe]

NoSlots == [from |-> 0, to |-> 0, occupied |-> {}]

TypeOK ==
  /\ rows \subseteq Universe
  /\ by \in [Universe -> {"nobody", "greedy", "ortools"}]
  /\ now \in Nat
  /\ api \subseteq Run
  /\ stage \in [Run -> Stages]
  /\ restarts \in [Run -> 0..MaxRestarts]
  /\ start \in [Run -> Nat]
  /\ until \in [Run -> Nat]
  /\ at \in [Run -> Nat]
  /\ picked \in [Run -> SUBSET Universe]
  /\ sats \in [Run -> SUBSET {p.norad : p \in Universe}]
  /\ slots \in [Run -> SlotMessages]
  /\ chosen \in [Run -> SUBSET Universe]
  /\ redone \in BOOLEAN
  /\ together \subseteq Universe \X Universe

NoradsOf(S) == {p.norad : p \in S}

Scheduled == {p \in rows : by[p] # "nobody"}

\* is_scheduled = FALSE, rise_time >= start_time, set_time <= end_time.
Open(from, to) == {p \in rows : by[p] = "nobody" /\ from <= p.rise /\ p.set <= to}

Clash(p, q) == p # q /\ p.station = q.station /\ Overlap(p, q)

\* They overlap for a second or longer.
LongClash(p, q) ==
  /\ Clash(p, q)
  /\ \A u, v \in {p, q} : v.set - u.rise >= Second

Benefit(S) == FoldSet(LAMBDA p, sum : sum + p.benefit, 0, S)

Init ==
  /\ rows = {}
  /\ by = [p \in Universe |-> "nobody"]
  /\ now = 0
  /\ api = {}
  /\ stage = [r \in Run |-> "unsent"]
  /\ restarts = [r \in Run |-> 0]
  /\ start = [r \in Run |-> 0]
  /\ until = [r \in Run |-> 0]
  /\ at = [r \in Run |-> 1]
  /\ picked = [r \in Run |-> {}]
  /\ sats = [r \in Run |-> {}]
  /\ slots = [r \in Run |-> NoSlots]
  /\ chosen = [r \in Run |-> {}]
  /\ redone = FALSE
  /\ together = {}

-----------------------------------------------------------------------------
(* The table *)

\* The unique constraint of the table.
SameKey(p, q) == p.norad = q.norad /\ p.station = q.station /\ p.rise = q.rise

\* Bug: ON CONFLICT DO UPDATE, with is_scheduled = FALSE among the values.
InsertReset(S) ==
  /\ S # {}
  /\ \A p, q \in S : p.norad = q.norad /\ (SameKey(p, q) => p = q)
  /\ \E t \in 0..now : \A p \in S : t <= p.rise /\ p.set <= t + Window
  /\ rows' = rows \cup S
  /\ by' = [p \in Universe |-> IF p \in S THEN "nobody" ELSE by[p]]
  /\ UNCHANGED <<now, runVars>>

\* _bulk_upsert_passes: the passes of one satellite, found by a propagation
\* that began at some moment until now; ON CONFLICT DO NOTHING.
Insert(S) ==
  /\ S # {}
  /\ \A p, q \in S : p.norad = q.norad /\ (SameKey(p, q) => p = q)
  /\ \E t \in 0..now : \A p \in S : t <= p.rise /\ p.set <= t + Window
  /\ LET new == {p \in S : \A q \in rows : ~SameKey(p, q)}
     IN  /\ rows' = rows \cup new
         /\ by' = [p \in Universe |-> IF p \in new THEN "nobody" ELSE by[p]]
  /\ UNCHANGED <<now, runVars>>

\* DELETE FROM satellite_passes WHERE rise_time < now - one day.
CleanUp ==
  /\ rows' = {p \in rows : p.rise + Day >= now}
  /\ by' = [p \in Universe |-> IF p \in rows' THEN by[p] ELSE "nobody"]
  /\ UNCHANGED <<now, runVars>>

Tick ==
  /\ \E t \in Instants : now < t /\ now' = t
  /\ UNCHANGED <<tableVars, runVars>>

\* get_coverage: satellites seen and scheduled, by stage and altogether.
Coverage ==
  LET satellites(stages) == Cardinality(NoradsOf({p \in rows : by[p] \in stages}))
  IN  [visible |-> satellites({"nobody", "greedy", "ortools"}),
       greedy  |-> satellites({"greedy"}),
       ortools |-> satellites({"ortools"}),
       total   |-> satellites({"greedy", "ortools"})]

-----------------------------------------------------------------------------
(* Stage 1: run_greedy *)

Goto(r, from, to) ==
  /\ stage[r] \in from
  /\ stage' = [stage EXCEPT ![r] = to]

\* The task is over and what it held in memory is gone.
Forget(r) ==
  /\ start' = [start EXCEPT ![r] = 0]
  /\ until' = [until EXCEPT ![r] = 0]
  /\ at' = [at EXCEPT ![r] = 1]

\* run_greedy.delay(), from the last detect_passes task.
Trigger(r) ==
  /\ r \in Triggered
  /\ Goto(r, {"unsent"}, "queued")
  /\ UNCHANGED <<tableVars, now, api, restarts, greedyVars, msgVars, chosen, redone, together>>

\* The loop over the stations begins, with a window that ends at the given time.
Begin(r, to) ==
  /\ start' = [start EXCEPT ![r] = now]
  /\ until' = [until EXCEPT ![r] = to]
  /\ at' = [at EXCEPT ![r] = 1]
  /\ picked' = [picked EXCEPT ![r] = {}]
  /\ UNCHANGED <<tableVars, now, restarts, msgVars, chosen, redone, together>>

StartGreedy(r) ==
  /\ Goto(r, {"queued"}, "scanning")
  /\ Begin(r, now + Window)
  /\ UNCHANGED api

\* The API's pipeline and its schedule-only call fix their windows first ...
StartSync(r) ==
  /\ r \in SyncRun
  /\ Goto(r, {"unsent"}, "scanning")
  /\ \E days \in {Window, SevenDays} : Begin(r, now + days)
  /\ api' = api \cup {r}

\* ... and the pipeline then commits the passes of one satellite after the
\* other, until it comes to the loop over the stations.
InsertFromPipeline(r, S) ==
  /\ r \in api
  /\ stage[r] = "scanning" /\ at[r] = 1 /\ until[r] = start[r] + Window
  /\ \A p \in S : start[r] <= p.rise /\ p.set <= until[r]
  /\ Insert(S)

\* What schedule_weighted may return: conflict-free, and no conflict-free
\* subset is worth more.
Best(S) ==
  LET free == {T \in SUBSET S : \A p, q \in T : ~Clash(p, q)}
      most == Max({Benefit(T) : T \in free})
  IN  {T \in free : Benefit(T) = most}

\* Bug: satellites of earlier stations are not excluded.
ScanStationAnySat(r) ==
  /\ stage[r] = "scanning"
  /\ at[r] <= NumStations
  /\ \E T \in Best({p \in Open(start[r], until[r]) : p.station = at[r]}) :
       picked' = [picked EXCEPT ![r] = @ \cup T]
  /\ at' = [at EXCEPT ![r] = @ + 1]
  /\ UNCHANGED <<tableVars, now, api, stage, restarts, start, until, msgVars, chosen,
                 redone, together>>

\* One turn of the loop over the stations.  A satellite marked at an earlier
\* station is excluded; autoflush is off, so the marks are not in the table
\* yet.  Passes that _detect_conflicts names are dropped.
ScanStation(r) ==
  /\ stage[r] = "scanning"
  /\ at[r] <= NumStations
  /\ \E T \in Best({p \in Open(start[r], until[r]) :
                      p.station = at[r] /\ p.norad \notin NoradsOf(picked[r])}) :
       picked' = [picked EXCEPT ![r] = @ \cup {p \in T : \A q \in T : ~Clash(p, q)}]
  /\ at' = [at EXCEPT ![r] = @ + 1]
  /\ UNCHANGED <<tableVars, now, api, stage, restarts, start, until, msgVars, chosen,
                 redone, together>>

\* The UPDATE of a row that is gone raises StaleDataError: see Fail.
CommitGreedy(r) ==
  /\ at[r] > NumStations
  /\ Goto(r, {"scanning"}, "committed")
  /\ picked[r] \subseteq rows
  /\ by' = [p \in Universe |-> IF p \in picked[r] THEN "greedy" ELSE by[p]]
  /\ together' = together \cup (picked[r] \X picked[r])
  /\ UNCHANGED <<rows, now, api, restarts, greedyVars, msgVars, chosen, redone>>

\* Bug: the slots are computed before the commit, without the picks.
FreeSlotsBeforeCommit(r) ==
  [from     |-> start[r],
   to       |-> until[r],
   occupied |-> {p \in Scheduled \ picked[r] : start[r] <= p.rise /\ p.set <= until[r]}]

\* get_free_slots: only passes that lie in the window altogether count.
FreeSlotsNow(r) ==
  [from     |-> start[r],
   to       |-> until[r],
   occupied |-> {p \in Scheduled : start[r] <= p.rise /\ p.set <= until[r]}]

\* run_ortools.delay(list(scheduled_sats), free_slots), and run_greedy returns.
SendOrtools(r) ==
  /\ r \notin api
  /\ Goto(r, {"committed"}, "sent")
  /\ sats' = [sats EXCEPT ![r] = NoradsOf(picked[r])]
  /\ slots' = [slots EXCEPT ![r] = FreeSlotsNow(r)]
  /\ restarts' = [restarts EXCEPT ![r] = 0]
  /\ Forget(r)
  /\ UNCHANGED <<tableVars, now, api, picked, chosen, redone, together>>

\* The worker is lost, or its time is up, after it has sent run_ortools and
\* before run_greedy is acknowledged: that message is in the queue again as
\* well, for another execution q.
Redeliver(r, q) ==
  /\ stage[r] = "sent"
  /\ Goto(q, {"unsent"}, "queued")
  /\ redone' = TRUE
  /\ UNCHANGED <<tableVars, now, api, restarts, greedyVars, msgVars, chosen, together>>

-----------------------------------------------------------------------------
(* Stage 2: run_ortools *)

\* With no satellite in the message it takes those of the table.
Excluded(r) == IF sats[r] = {} THEN NoradsOf(Scheduled) ELSE sats[r]

\* Bug: the end of the slot is not tested.
FitsByRise(p, r) ==
  /\ slots[r].from <= p.rise /\ p.set <= slots[r].to
  /\ \A q \in slots[r].occupied :
       q.station = p.station => ~(q.rise <= p.rise /\ p.rise < q.set)

\* _fits_in_any_slot
Fits(p, r) ==
  /\ slots[r].from <= p.rise /\ p.set <= slots[r].to
  /\ \A q \in slots[r].occupied : q.station = p.station => ~Overlap(p, q)

\* _to_utc_seconds: int() drops what is left of a second.
Seconds(t, epoch) == (t - epoch) \div Second

\* The interval CP-SAT gets for a pass.
Rounded(p, epoch) == [rise |-> Seconds(p.rise, epoch), set |-> Seconds(p.set, epoch)]

\* Passes that last no second are dropped; NoOverlap and AtMostOne hold for
\* what the solver returns, which need not be optimal when its time is up.
SolverMayReturn(S, T, epoch) ==
  /\ T \subseteq {p \in S : Rounded(p, epoch).rise < Rounded(p, epoch).set}
  /\ \A p, q \in T : p # q =>
       /\ p.norad # q.norad
       /\ p.station = q.station => ~Overlap(Rounded(p, epoch), Rounded(q, epoch))

\* Bug: satellites that are scheduled already are not left out.
CandidatesOfAnySat(r) == {p \in Open(now, now + Window) : Fits(p, r)}

\* _get_candidate_passes, from the current start_time.
Candidates(r) ==
  {p \in Open(now, now + Window) : p.norad \notin Excluded(r) /\ Fits(p, r)}

StartOrtools(r) ==
  /\ Goto(r, {"sent"}, "solved")
  /\ \E T \in SUBSET Candidates(r) :
       /\ SolverMayReturn(Candidates(r), T, now)
       /\ chosen' = [chosen EXCEPT ![r] = T]
  /\ UNCHANGED <<tableVars, now, api, restarts, greedyVars, msgVars, redone, together>>

CommitOrtools(r) ==
  /\ Goto(r, {"solved"}, "optimized")
  /\ chosen[r] \subseteq rows
  /\ by' = [p \in Universe |-> IF p \in chosen[r] THEN "ortools" ELSE by[p]]
  /\ LET all == picked[r] \cup chosen[r]
     IN  together' = together \cup (all \X all)
  /\ chosen' = [chosen EXCEPT ![r] = {}]
  /\ UNCHANGED <<rows, now, api, restarts, greedyVars, msgVars, redone>>

\* The end of a run, and of what it knows.
End(r) ==
  /\ stage' = [stage EXCEPT ![r] = "over"]
  /\ restarts' = [restarts EXCEPT ![r] = 0]
  /\ Forget(r)
  /\ picked' = [picked EXCEPT ![r] = {}]
  /\ sats' = [sats EXCEPT ![r] = {}]
  /\ slots' = [slots EXCEPT ![r] = NoSlots]
  /\ chosen' = [chosen EXCEPT ![r] = {}]
  /\ UNCHANGED <<tableVars, now, api, redone, together>>

\* run_ortools returns, or the API call does.
Return(r) ==
  /\ stage[r] = "optimized" \/ (stage[r] = "committed" /\ r \in api)
  /\ End(r)

-----------------------------------------------------------------------------
(* Errors, time limits and lost workers: a rollback, and the same message    *)
(* again until the retries are used up.  After the commit nothing is left to *)
(* roll back, and the task starts again all the same (get_free_slots or the  *)
(* send of run_ortools fails, the worker is lost before the acknowledgement).*)

Restart(r, how) ==
  /\ r \notin api
  /\ restarts[r] < MaxRestarts
  /\ restarts' = [restarts EXCEPT ![r] = @ + 1]
  /\ stage' = [stage EXCEPT ![r] = how]
  /\ redone' = (redone \/ stage[r] \in {"committed", "optimized"})
  /\ UNCHANGED <<tableVars, now, api, msgVars, together>>

RestartGreedy(r) ==
  /\ stage[r] \in {"scanning", "committed"}
  /\ Restart(r, "queued")
  /\ Forget(r)
  /\ picked' = [picked EXCEPT ![r] = {}]
  /\ UNCHANGED chosen

RestartOrtools(r) ==
  /\ stage[r] \in {"sent", "solved", "optimized"}
  /\ Restart(r, "sent")
  /\ chosen' = [chosen EXCEPT ![r] = {}]
  /\ UNCHANGED greedyVars

\* No retry is left, the hard time limit has struck, or the API call ends.
GiveUp(r) ==
  /\ stage[r] \in {"scanning", "committed", "sent", "solved", "optimized"}
  /\ End(r)

Fail(r) == RestartGreedy(r) \/ RestartOrtools(r) \/ GiveUp(r)

-----------------------------------------------------------------------------
RunGreedy(r) ==
  \/ StartGreedy(r)
  \/ ScanStation(r)
  \/ CommitGreedy(r)
  \/ SendOrtools(r)

RunOrtools(r) ==
  \/ StartOrtools(r)
  \/ CommitOrtools(r)

\* The scans and the commit are those of RunGreedy.
RunPipeline(r) ==
  \/ StartSync(r)
  \/ \E S \in SUBSET Universe : InsertFromPipeline(r, S)

Next ==
  \/ \E S \in SUBSET Universe : Insert(S)
  \/ CleanUp
  \/ Tick
  \/ \E r \in Run : \/ Trigger(r) \/ RunGreedy(r) \/ RunOrtools(r) \/ RunPipeline(r)
                   \/ Return(r) \/ Fail(r)
                   \/ \E q \in Run : Redeliver(r, q)

Spec == Init /\ [][Next]_vars

-----------------------------------------------------------------------------
(* Properties *)

\* One run is alone on the table, and none of its tasks was done twice: the
\* condition under which the code keeps what it promises of the schedule.
Alone ==
  /\ ~redone
  /\ \A r, q \in Run : stage[r] # "unsent" /\ stage[q] # "unsent" => r = q

\* No two scheduled passes at one station overlap, the constraint of both
\* stages.
StationConflictFree == \A p, q \in Scheduled : ~Clash(p, q)

NoLongClash == \A p, q \in Scheduled : ~LongClash(p, q)

\* A run that is alone keeps it up to less than a second, which the conversion
\* for CP-SAT drops, although its stages run one after the other on a table
\* that changes, start again after errors, and see the work of the first stage
\* only through a message and through marks that are not flushed.  In
\* particular a pass that was detected twice, a fraction of a second apart, is
\* never scheduled twice.
LoneRunConflictFree == Alone => NoLongClash

\* Such a run keeps a satellite to one station: it is excluded from the
\* queries of all later stations (lines 111-113 of greedy.py), and the second
\* stage leaves it alone.
LoneRunOneStation ==
  Alone => \A p, q \in Scheduled : p.norad = q.norad => p.station = q.station

\* What GET /api/coverage says of such a run adds up: no satellite counts for
\* both stages, so that its totals by stage are those of all satellites.
CoverageAddsUp == Alone => Coverage.greedy + Coverage.ortools = Coverage.total

\* However many runs there are, and whatever is done again after a commit: two
\* scheduled passes that overlap at a station for a second were never committed
\* by one execution of run_greedy and one of the run_ortools it has sent.
\* Overlaps come from a second look at the table only, by another run or by a
\* task that is done again (StationConflictFree says that they do come).
OverlapsAreReruns ==
  \A p, q \in Scheduled : LongClash(p, q) =>
    /\ <<p, p>> \in together /\ <<q, q>> \in together
    /\ <<p, q>> \notin together

\* A pass that is scheduled stays so until it is cleaned up, and it is not
\* cleaned up before it is a day old: detecting it again does not reset it.
SchedulePersists ==
  [][\A p \in Scheduled : p \in Scheduled' \/ p.rise + Day < now]_vars

-----------------------------------------------------------------------------
(* Why a run that is alone leaves every station free of conflicts of a second *)
(* or longer: the inductive invariant.                                        *)

\* The picks lie in the window and at the stations already scanned, and none
\* overlaps another; this holds of every run.
PicksFit ==
  \A r \in Run :
    /\ stage[r] \in {"scanning", "committed"} =>
         \A p \in picked[r] : /\ start[r] <= p.rise /\ p.set <= until[r]
                              /\ stage[r] = "scanning" => p.station < at[r]
    /\ \A p, q \in picked[r] : ~Clash(p, q)

\* Whatever is scheduled was scheduled by a run that has got that far: nothing
\* before the commit of a greedy stage, and nothing but its picks from then
\* until the second commit.
OnlyOwnPicks ==
  \A p \in Universe : by[p] # "nobody" =>
    \E r \in Run : /\ stage[r] \notin {"unsent", "queued", "scanning"}
                   /\ stage[r] \in {"committed", "sent", "solved"} => p \in picked[r]

\* The message still names all that is scheduled when stage 2 uses it.
SlotsCoverSchedule ==
  \A r \in Run : stage[r] \in {"sent", "solved"} => Scheduled \subseteq slots[r].occupied

\* What stage 2 is about to commit overlaps the schedule not at all, and itself
\* for less than a second.
ChosenFit ==
  \A r \in Run : stage[r] = "solved" =>
    /\ \A p, q \in chosen[r] : ~LongClash(p, q)
    /\ \A p \in chosen[r], q \in Scheduled : ~Clash(p, q)

LoneRunFits ==
  /\ OnlyOwnPicks
  /\ SlotsCoverSchedule
  /\ ChosenFit
  /\ NoLongClash

IInv ==
  /\ TypeOK
  /\ PicksFit
  /\ Alone => LoneRunFits

=============================================================================
