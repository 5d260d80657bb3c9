------------------------- MODULE PassScheduleProofs -------------------------
(***************************************************************************)
(* Proofs about PassSchedule for every table, every number of stations and *)
(* every window: what a run that is alone leaves behind, what holds of     *)
(* each run however many there are, and that the schedule persists.        *)
(***************************************************************************)
EXTENDS PassSchedule, FiniteSetTheorems, TLAPS

\* What the greedy stage marks at one station is part of what it queried.
LEMMA BestSubset == \A S : \A T \in Best(S) : T \subseteq S
BY DEF Best

-----------------------------------------------------------------------------
\* The initial state is well typed.
LEMMA TypeOKInit == Init => TypeOK
<1>1. Init => redone \in BOOLEAN
  BY DEF Init
<1> QED
  BY <1>1, ParametersAssumption DEF Init, TypeOK, Stages, SlotMessages, NoSlots

\* A change of the state of one run keeps the type of stage.
LEMMA GotoType ==
  ASSUME TypeOK, NEW r \in Run, NEW from, NEW to \in Stages, Goto(r, from, to)
  PROVE  stage' \in [Run -> Stages]
BY DEF Goto, TypeOK

\* The end of a run keeps the types.
LEMMA EndType == ASSUME TypeOK, NEW r \in Run, End(r) PROVE TypeOK'
<1> USE ParametersAssumption DEF tableVars
<1>1. stage' \in [Run -> Stages] /\ restarts' \in [Run -> 0..MaxRestarts]
  BY DEF End, TypeOK, Stages
<1>2. start' \in [Run -> Nat] /\ until' \in [Run -> Nat] /\ at' \in [Run -> Nat]
  BY DEF End, Forget, TypeOK
<1>3. /\ picked' \in [Run -> SUBSET Universe] /\ chosen' \in [Run -> SUBSET Universe]
      /\ sats' \in [Run -> SUBSET {p.norad : p \in Universe}]
  BY DEF End, TypeOK
<1>4. slots' \in [Run -> SlotMessages]
  <2>1. NoSlots \in SlotMessages
    BY DEF NoSlots, SlotMessages
  <2> QED BY <2>1 DEF End, TypeOK
<1>5. UNCHANGED <<rows, by, now, api, redone, together>>
  BY DEF End
<1> QED BY <1>1, <1>2, <1>3, <1>4, <1>5 DEF TypeOK

\* Beginning the loop over the stations keeps the types.
LEMMA BeginType ==
  ASSUME TypeOK, NEW r \in Run, NEW to \in Nat, Begin(r, to),
         stage' \in [Run -> Stages], api' \subseteq Run
  PROVE  TypeOK'
<1>1. start' \in [Run -> Nat] /\ until' \in [Run -> Nat] /\ at' \in [Run -> Nat]
  BY DEF Begin, TypeOK
<1>2. picked' \in [Run -> SUBSET Universe]
  BY DEF Begin, TypeOK
<1>3. UNCHANGED <<rows, by, now, restarts, sats, slots, chosen, redone, together>>
  BY DEF Begin, tableVars, msgVars
<1> QED BY <1>1, <1>2, <1>3 DEF TypeOK

\* Every step keeps the types.
LEMMA TypeOKStep == TypeOK /\ [Next]_vars => TypeOK'
<1> SUFFICES ASSUME TypeOK, [Next]_vars PROVE TypeOK'
  OBVIOUS
<1> USE ParametersAssumption, UniverseAssumption DEF tableVars, runVars, greedyVars, msgVars
<1>1. ASSUME NEW S \in SUBSET Universe, Insert(S) PROVE TypeOK'
  BY <1>1 DEF Insert, TypeOK
<1>2. CASE CleanUp
  BY <1>2 DEF CleanUp, TypeOK
<1>3. CASE Tick
  BY <1>3 DEF Tick, TypeOK
<1>4. ASSUME NEW r \in Run, Trigger(r) PROVE TypeOK'
  <2>1. stage' \in [Run -> Stages]
    BY <1>4, GotoType DEF Trigger, Stages
  <2> QED BY <1>4, <2>1 DEF Trigger, TypeOK
<1>5. ASSUME NEW r \in Run, StartGreedy(r) PROVE TypeOK'
  <2>1. stage' \in [Run -> Stages]
    BY <1>5, GotoType DEF StartGreedy, Stages
  <2>2. now + Window \in Nat
    BY DEF TypeOK
  <2> QED BY <1>5, <2>1, <2>2, BeginType DEF StartGreedy, TypeOK
<1>5a. ASSUME NEW r \in Run, StartSync(r) PROVE TypeOK'
  <2>1. stage' \in [Run -> Stages]
    BY <1>5a, GotoType DEF StartSync, Stages
  <2>2. PICK days \in {Window, SevenDays} : Begin(r, now + days)
    BY <1>5a DEF StartSync
  <2>3. now + days \in Nat
    BY <2>2 DEF TypeOK
  <2>4. api' \subseteq Run
    BY <1>5a DEF StartSync, TypeOK
  <2> QED BY <2>1, <2>2, <2>3, <2>4, BeginType
<1>5b. ASSUME NEW r \in Run, NEW q \in Run, Redeliver(r, q) PROVE TypeOK'
  <2>1. stage' \in [Run -> Stages]
    BY <1>5b, GotoType DEF Redeliver, Stages
  <2> QED BY <1>5b, <2>1 DEF Redeliver, TypeOK
<1>6. ASSUME NEW r \in Run, ScanStation(r) PROVE TypeOK'
  <2> DEFINE Rivals == {p \in Open(start[r], until[r]) :
                          p.station = at[r] /\ p.norad \notin NoradsOf(picked[r])}
  <2>1. Rivals \subseteq Universe
    BY DEF Open, TypeOK
  <2>2. PICK T \in Best(Rivals) :
          picked' = [picked EXCEPT ![r] = @ \cup {p \in T : \A q \in T : ~Clash(p, q)}]
    BY <1>6 DEF ScanStation
  <2>3. T \subseteq Universe
    BY <2>1, BestSubset
  <2>4. picked' \in [Run -> SUBSET Universe]
    BY <2>2, <2>3 DEF TypeOK
  <2> QED BY <1>6, <2>4 DEF ScanStation, TypeOK
<1>7. ASSUME NEW r \in Run, CommitGreedy(r) PROVE TypeOK'
  <2>1. stage' \in [Run -> Stages]
    BY <1>7, GotoType DEF CommitGreedy, Stages
  <2>2. together' \subseteq Universe \X Universe
    BY <1>7 DEF CommitGreedy, TypeOK
  <2>3. by' \in [Universe -> {"nobody", "greedy", "ortools"}]
    BY <1>7 DEF CommitGreedy, TypeOK
  <2> QED BY <1>7, <2>1, <2>2, <2>3 DEF CommitGreedy, TypeOK
<1>8. ASSUME NEW r \in Run, SendOrtools(r) PROVE TypeOK'
  <2>1. stage' \in [Run -> Stages]
    BY <1>8, GotoType DEF SendOrtools, Stages
  <2>2. FreeSlotsNow(r) \in SlotMessages
    BY DEF FreeSlotsNow, SlotMessages, Scheduled, TypeOK
  <2>3. NoradsOf(picked[r]) \subseteq {p.norad : p \in Universe}
    BY DEF NoradsOf, TypeOK
  <2>4. slots' \in [Run -> SlotMessages]
    BY <1>8, <2>2 DEF SendOrtools, TypeOK
  <2>5. sats' \in [Run -> SUBSET {p.norad : p \in Universe}]
    BY <1>8, <2>3 DEF SendOrtools, TypeOK
  <2>6. restarts' \in [Run -> 0..MaxRestarts]
    BY <1>8 DEF SendOrtools, TypeOK
  <2>7. start' \in [Run -> Nat] /\ until' \in [Run -> Nat] /\ at' \in [Run -> Nat]
    BY <1>8 DEF SendOrtools, Forget, TypeOK
  <2> QED BY <1>8, <2>1, <2>4, <2>5, <2>6, <2>7 DEF SendOrtools, TypeOK
<1>9. ASSUME NEW r \in Run, StartOrtools(r) PROVE TypeOK'
  <2>1. stage' \in [Run -> Stages]
    BY <1>9, GotoType DEF StartOrtools, Stages
  <2>2. chosen' \in [Run -> SUBSET Universe]
    BY <1>9 DEF StartOrtools, Candidates, Open, TypeOK
  <2> QED BY <1>9, <2>1, <2>2 DEF StartOrtools, TypeOK
<1>10. ASSUME NEW r \in Run, CommitOrtools(r) PROVE TypeOK'
  <2>1. stage' \in [Run -> Stages]
    BY <1>10, GotoType DEF CommitOrtools, Stages
  <2>2. together' \subseteq Universe \X Universe
    BY <1>10 DEF CommitOrtools, TypeOK
  <2>3. by' \in [Universe -> {"nobody", "greedy", "ortools"}]
    BY <1>10 DEF CommitOrtools, TypeOK
  <2>4. chosen' \in [Run -> SUBSET Universe]
    BY <1>10 DEF CommitOrtools, TypeOK
  <2> QED BY <1>10, <2>1, <2>2, <2>3, <2>4 DEF CommitOrtools, TypeOK
<1>11. ASSUME NEW r \in Run, Return(r) PROVE TypeOK'
  BY <1>11, EndType DEF Return
<1>12. ASSUME NEW r \in Run, Fail(r) PROVE TypeOK'
  <2>1. CASE GiveUp(r)
    BY <2>1, EndType DEF GiveUp
  <2>2. ASSUME NEW how \in Stages, Restart(r, how)
        PROVE  /\ redone' \in BOOLEAN /\ stage' \in [Run -> Stages]
               /\ restarts' \in [Run -> 0..MaxRestarts]
               /\ UNCHANGED <<rows, by, now, api, sats, slots, together>>
    <3>1. redone' \in BOOLEAN
      BY <2>2 DEF Restart, TypeOK
    <3>2. stage' \in [Run -> Stages] /\ restarts' \in [Run -> 0..MaxRestarts]
      BY <2>2 DEF Restart, TypeOK
    <3> QED BY <2>2, <3>1, <3>2 DEF Restart
  <2>3. CASE RestartGreedy(r)
    <3>1. /\ start' \in [Run -> Nat] /\ until' \in [Run -> Nat] /\ at' \in [Run -> Nat]
          /\ picked' \in [Run -> SUBSET Universe] /\ chosen' = chosen
      BY <2>3 DEF RestartGreedy, Forget, TypeOK
    <3>2. "queued" \in Stages /\ Restart(r, "queued")
      BY <2>3 DEF RestartGreedy, Stages
    <3> QED BY <2>2, <3>1, <3>2 DEF TypeOK
  <2>4. CASE RestartOrtools(r)
    <3>1. chosen' \in [Run -> SUBSET Universe] /\ UNCHANGED greedyVars
      BY <2>4 DEF RestartOrtools, TypeOK
    <3>2. "sent" \in Stages /\ Restart(r, "sent")
      BY <2>4 DEF RestartOrtools, Stages
    <3> QED BY <2>2, <3>1, <3>2 DEF TypeOK
  <2> QED BY <1>12, <2>1, <2>3, <2>4 DEF Fail
<1>13. CASE UNCHANGED vars
  BY <1>13 DEF vars, TypeOK
<1> QED
  BY <1>1, <1>2, <1>3, <1>4, <1>5, <1>5a, <1>5b, <1>6, <1>7, <1>8, <1>9, <1>10, <1>11, <1>12,
     <1>13
     DEF Next, RunGreedy, RunOrtools, RunPipeline, InsertFromPipeline

\* The passes table and the bookkeeping of the two stages always hold values
\* of their types: only detected passes are marked, chosen or named in a
\* message.
THEOREM TypeCorrect == Spec => []TypeOK
BY TypeOKInit, TypeOKStep, PTL DEF Spec

-----------------------------------------------------------------------------
(* Steps of one run *)

\* What a task of one run does to the table and to the other runs.
RunStep(r) ==
  \/ Trigger(r) \/ RunGreedy(r) \/ StartSync(r) \/ RunOrtools(r) \/ Return(r) \/ Fail(r)
  \/ \E s \in Run : Redeliver(s, r)

\* A step is a step of one run, or one of the table and the clock.
LEMMA NextSplits ==
  ASSUME [Next]_vars
  PROVE  \/ \E r \in Run : RunStep(r)
         \/ /\ UNCHANGED runVars
            /\ \/ \E S \in SUBSET Universe : Insert(S)
               \/ CleanUp \/ Tick \/ UNCHANGED vars
BY DEF Next, RunStep, RunPipeline, InsertFromPipeline, Insert, CleanUp, Tick, vars

\* The tasks of a run leave what the code keeps for the others.
LEMMA OnlyOneRun ==
  ASSUME TypeOK, NEW r \in Run, RunStep(r), NEW q \in Run, q # r
  PROVE  /\ stage'[q] = stage[q]
         /\ start'[q] = start[q] /\ until'[q] = until[q] /\ at'[q] = at[q]
         /\ picked'[q] = picked[q] /\ sats'[q] = sats[q]
         /\ slots'[q] = slots[q] /\ chosen'[q] = chosen[q]
<1> USE DEF TypeOK, greedyVars, msgVars
<1>1. CASE Trigger(r) \/ CommitGreedy(r) \/ CommitOrtools(r) \/ \E s \in Run : Redeliver(s, r)
  BY <1>1 DEF Goto, Trigger, CommitGreedy, CommitOrtools, Redeliver
<1>2. CASE StartGreedy(r) \/ StartSync(r)
  BY <1>2 DEF Goto, StartGreedy, StartSync, Begin
<1>3. CASE ScanStation(r)
  BY <1>3 DEF ScanStation
<1>4. CASE SendOrtools(r)
  BY <1>4 DEF Goto, SendOrtools, Forget
<1>5. CASE StartOrtools(r)
  BY <1>5 DEF Goto, StartOrtools
<1>6. CASE Return(r) \/ GiveUp(r)
  BY <1>6 DEF Return, GiveUp, End, Forget
<1>7. CASE RestartGreedy(r) \/ RestartOrtools(r)
  BY <1>7 DEF RestartGreedy, RestartOrtools, Restart, Forget
<1> QED
  BY <1>1, <1>2, <1>3, <1>4, <1>5, <1>6, <1>7 DEF RunStep, RunGreedy, RunOrtools, Fail

\* Only the two commits of a run change the table, and only they are recorded
\* in the history.
LEMMA RunLeavesTable ==
  ASSUME NEW r \in Run, RunStep(r), ~CommitGreedy(r), ~CommitOrtools(r)
  PROVE  rows' = rows /\ by' = by /\ together' = together
<1> USE DEF tableVars
<1>1. CASE Trigger(r) \/ ScanStation(r) \/ SendOrtools(r) \/ StartOrtools(r)
           \/ \E s \in Run : Redeliver(s, r)
  BY <1>1 DEF Trigger, ScanStation, SendOrtools, StartOrtools, Redeliver
<1>2. CASE StartGreedy(r) \/ StartSync(r)
  BY <1>2 DEF StartGreedy, StartSync, Begin
<1>3. CASE Return(r) \/ Fail(r)
  BY <1>3 DEF Return, Fail, GiveUp, End, RestartGreedy, RestartOrtools, Restart
<1> QED BY <1>1, <1>2, <1>3 DEF RunStep, RunGreedy, RunOrtools

\* The clock is not a task's.
LEMMA RunLeavesClock == ASSUME NEW r \in Run, RunStep(r) PROVE now' = now
BY DEF RunStep, RunGreedy, RunOrtools, Trigger, StartGreedy, StartSync, Begin, ScanStation,
       CommitGreedy, SendOrtools, StartOrtools, CommitOrtools, Return, Fail, GiveUp, End,
       RestartGreedy, RestartOrtools, Restart, Redeliver

-----------------------------------------------------------------------------
\* What _detect_conflicts leaves of a selection is free of conflicts.
LEMMA KeptFree ==
  ASSUME NEW T, NEW K, K = {p \in T : \A q \in T : ~Clash(p, q)}
  PROVE  \A p, q \in K : ~Clash(p, q)
OBVIOUS

\* Passes at different stations never conflict.
LEMMA ApartFree == \A p, q : p.station # q.station => ~Clash(p, q) /\ ~Clash(q, p)
BY DEF Clash

\* To conflict is symmetric.
LEMMA ClashSymmetric == \A p, q : Clash(p, q) => Clash(q, p)
BY DEF Clash, Overlap

\* Two passes clash both ways.
LEMMA LongClashSymmetric == \A p, q : LongClash(p, q) => LongClash(q, p)
BY DEF LongClash, Clash, Overlap

\* Instants that lie a second apart are different seconds.
LEMMA SecondsApart ==
  ASSUME NEW s \in Nat \ {0}, NEW a \in Int, NEW b \in Int, b - a >= s
  PROVE  a \div s < b \div s
<1>1. /\ a \div s \in Int /\ b \div s \in Int
      /\ s * (a \div s) <= a
      /\ b < s * (b \div s) + s
  OBVIOUS
<1> DEFINE m == a \div s
           n == b \div s
<1> HIDE DEF m, n
<1>2. m \in Int /\ n \in Int /\ s * m <= a /\ b < s * n + s
  BY <1>1 DEF m, n
<1>3. SUFFICES m < n
  BY DEF m, n
<1>4. SUFFICES ASSUME n <= m PROVE FALSE
  BY <1>2
<1>5. s * n <= s * m
  BY <1>2, <1>4
<1>6. s * n \in Int /\ s * m \in Int
  BY <1>2
<1> QED BY <1>2, <1>5, <1>6

\* Dropping fractions of a second hides no overlap of a second.
LEMMA WholeSeconds ==
  ASSUME NEW e \in Int, NEW p \in Universe, NEW q \in Universe, LongClash(p, q)
  PROVE  Overlap(Rounded(p, e), Rounded(q, e))
<1>1. /\ p.rise \in Int /\ p.set \in Int
      /\ q.rise \in Int /\ q.set \in Int
  BY UniverseAssumption
<1>2. (q.set - e) - (p.rise - e) >= Second /\ (p.set - e) - (q.rise - e) >= Second
  BY <1>1, ParametersAssumption DEF LongClash
<1>3. \A a, b \in Int : b - a >= Second => a \div Second < b \div Second
  BY SecondsApart, ParametersAssumption
<1>4. p.rise - e \in Int /\ q.rise - e \in Int /\ p.set - e \in Int /\ q.set - e \in Int
  BY <1>1
<1>5. Seconds(p.rise, e) < Seconds(q.set, e)
  BY <1>2, <1>3, <1>4 DEF Seconds
<1>6. Seconds(q.rise, e) < Seconds(p.set, e)
  BY <1>2, <1>3, <1>4 DEF Seconds
<1> QED BY <1>5, <1>6 DEF Overlap, Rounded

\* The initial state satisfies the invariant: nothing is scheduled.
LEMMA IInvInit == Init => IInv
BY TypeOKInit
   DEF Init, IInv, LoneRunFits, OnlyOwnPicks, PicksFit, SlotsCoverSchedule, ChosenFit,
       NoLongClash, Scheduled

-----------------------------------------------------------------------------
(* The picks of a run, whatever else happens *)

\* A station adds picks at a station that had none, from inside the window.
LEMMA ScanPicksFit ==
  ASSUME TypeOK, PicksFit, NEW r \in Run, ScanStation(r)
  PROVE  /\ \A p \in picked'[r] : /\ start[r] <= p.rise /\ p.set <= until[r]
                                  /\ p.station < at'[r]
         /\ \A p, q \in picked'[r] : ~Clash(p, q)
<1> USE DEF tableVars
<1> DEFINE C == {p \in Open(start[r], until[r]) :
                   p.station = at[r] /\ p.norad \notin NoradsOf(picked[r])}
<1>1. PICK T \in Best(C) :
        picked' = [picked EXCEPT ![r] = @ \cup {p \in T : \A q \in T : ~Clash(p, q)}]
  BY DEF ScanStation
<1> DEFINE K == {p \in T : \A q \in T : ~Clash(p, q)}
<1>2. K \subseteq C
  BY BestSubset
<1>3. \A p \in K : /\ p.station = at[r]
                   /\ start[r] <= p.rise /\ p.set <= until[r]
                   /\ p \in Universe
  BY <1>2 DEF Open, TypeOK
<1>4. picked'[r] = picked[r] \cup K
  BY <1>1 DEF TypeOK
<1>6. stage[r] = "scanning"
  BY DEF ScanStation
<1>7. at[r] \in Nat /\ at'[r] = at[r] + 1
  BY DEF ScanStation, TypeOK
<1>8. \A p \in picked[r] : p.station < at[r] /\ p \in Universe
  BY <1>6 DEF PicksFit, TypeOK
<1>9. \A p \in Universe : p.station \in Nat
  BY UniverseAssumption, ParametersAssumption DEF Stations
<1>10. \A p \in picked'[r] : /\ start[r] <= p.rise /\ p.set <= until[r]
                             /\ p.station < at'[r]
  <2>1. \A p \in picked[r] : start[r] <= p.rise /\ p.set <= until[r]
    BY <1>6 DEF PicksFit
  <2>2. \A p \in picked[r] : p.station < at'[r]
    BY <1>7, <1>8, <1>9
  <2>3. \A p \in K : p.station < at'[r]
    BY <1>3, <1>7
  <2> QED BY <1>3, <1>4, <2>1, <2>2, <2>3
<1>11. \A p, q \in picked'[r] : ~Clash(p, q)
  <2>1. \A p, q \in K : ~Clash(p, q)
    BY KeptFree
  <2>2. \A p, q \in picked[r] : ~Clash(p, q)
    BY DEF PicksFit
  <2>3. \A p \in picked[r], q \in K : p.station # q.station
    BY <1>3, <1>7, <1>8, <1>9
  <2>4. \A p \in picked[r], q \in K : ~Clash(p, q) /\ ~Clash(q, p)
    BY <2>3, ApartFree
  <2> QED BY <1>4, <2>1, <2>2, <2>4
<1> QED BY <1>10, <1>11

\* Where a step leads the run whose step it is, and what becomes of its picks.
LEMMA OwnPicksStep ==
  ASSUME TypeOK, NEW r \in Run, RunStep(r)
  PROVE  \/ ScanStation(r)
         \/ picked'[r] = {}
         \/ CommitGreedy(r) /\ UNCHANGED greedyVars
         \/ picked'[r] = picked[r] /\ stage'[r] \notin {"scanning", "committed"}
<1> USE DEF TypeOK, greedyVars
<1>1. CASE Trigger(r) \/ \E s \in Run : Redeliver(s, r)
  BY <1>1 DEF Trigger, Redeliver, Goto
<1>2. CASE StartGreedy(r) \/ StartSync(r)
  BY <1>2 DEF StartGreedy, StartSync, Begin
<1>3. CASE CommitGreedy(r)
  BY <1>3 DEF CommitGreedy
<1>4. CASE SendOrtools(r) \/ StartOrtools(r) \/ CommitOrtools(r)
  BY <1>4 DEF SendOrtools, StartOrtools, CommitOrtools, Goto
<1>5. CASE Return(r) \/ GiveUp(r)
  BY <1>5 DEF Return, GiveUp, End
<1>6. CASE RestartGreedy(r)
  BY <1>6 DEF RestartGreedy
<1>7. CASE RestartOrtools(r)
  BY <1>7 DEF RestartOrtools, Restart
<1> QED
  BY <1>1, <1>2, <1>3, <1>4, <1>5, <1>6, <1>7 DEF RunStep, RunGreedy, RunOrtools, Fail

\* Every step keeps the picks of every run.
LEMMA PicksFitStep ==
  ASSUME TypeOK, PicksFit, [Next]_vars PROVE PicksFit'
<1> SUFFICES ASSUME NEW q \in Run
             PROVE  /\ stage'[q] \in {"scanning", "committed"} =>
                         \A p \in picked'[q] :
                           /\ start'[q] <= p.rise /\ p.set <= until'[q]
                           /\ stage'[q] = "scanning" => p.station < at'[q]
                    /\ \A p, u \in picked'[q] : ~Clash(p, u)
  BY DEF PicksFit, Clash
<1>1. CASE UNCHANGED runVars
  BY <1>1 DEF PicksFit, runVars, greedyVars
<1>2. ASSUME NEW r \in Run, RunStep(r), r # q
      PROVE  /\ stage'[q] = stage[q] /\ picked'[q] = picked[q] /\ start'[q] = start[q]
             /\ until'[q] = until[q] /\ at'[q] = at[q]
  BY <1>2, OnlyOneRun
<1>3. CASE ScanStation(q)
  BY <1>3, ScanPicksFit DEF ScanStation
<1>4. CASE picked'[q] = {}
  BY <1>4
<1>5. CASE CommitGreedy(q) /\ UNCHANGED greedyVars
  BY <1>5 DEF CommitGreedy, Goto, PicksFit, greedyVars, TypeOK
<1>6. CASE picked'[q] = picked[q] /\ stage'[q] \notin {"scanning", "committed"}
  BY <1>6 DEF PicksFit
<1>7. CASE RunStep(q)
  BY <1>3, <1>4, <1>5, <1>6, <1>7, OwnPicksStep
<1>8. ASSUME NEW r \in Run, RunStep(r)
      PROVE  \/ r = q
             \/ /\ stage'[q] = stage[q] /\ picked'[q] = picked[q] /\ start'[q] = start[q]
                /\ until'[q] = until[q] /\ at'[q] = at[q]
  BY <1>2, <1>8
<1>9. CASE /\ stage'[q] = stage[q] /\ picked'[q] = picked[q] /\ start'[q] = start[q]
           /\ until'[q] = until[q] /\ at'[q] = at[q]
  BY <1>9 DEF PicksFit
<1> QED BY <1>1, <1>7, <1>8, <1>9, NextSplits

-----------------------------------------------------------------------------
(* A run that is alone *)

\* What a step of a run does to its own stage.
LEMMA OwnStage ==
  ASSUME TypeOK, NEW r \in Run, RunStep(r) PROVE stage'[r] # "unsent"
<1> USE DEF TypeOK
<1>1. CASE Trigger(r) \/ \E s \in Run : Redeliver(s, r)
  BY <1>1 DEF Trigger, Redeliver, Goto
<1>2. CASE RunGreedy(r) \/ StartSync(r) \/ RunOrtools(r)
  BY <1>2 DEF RunGreedy, StartGreedy, ScanStation, CommitGreedy, SendOrtools, StartSync,
              RunOrtools, StartOrtools, CommitOrtools, Goto
<1>3. CASE Return(r) \/ Fail(r)
  BY <1>3 DEF Return, Fail, GiveUp, End, RestartGreedy, RestartOrtools, Restart
<1> QED BY <1>1, <1>2, <1>3 DEF RunStep

\* What was done again remains in the history.
LEMMA RedoneStays ==
  ASSUME TypeOK, NEW r \in Run, RunStep(r), redone PROVE redone'
<1>1. CASE Trigger(r) \/ RunGreedy(r) \/ StartSync(r) \/ RunOrtools(r)
           \/ \E s \in Run : Redeliver(s, r)
  BY <1>1 DEF Trigger, RunGreedy, StartGreedy, Begin, ScanStation, CommitGreedy, SendOrtools,
              StartSync, RunOrtools, StartOrtools, CommitOrtools, Redeliver
<1>2. CASE Return(r) \/ Fail(r)
  BY <1>2 DEF Return, Fail, GiveUp, End, RestartGreedy, RestartOrtools, Restart
<1> QED BY <1>1, <1>2 DEF RunStep

\* Once two runs have been started, or a task was done twice, this stays so.
LEMMA AloneBefore == ASSUME TypeOK, [Next]_vars, Alone' PROVE Alone
<1>1. ~redone
  BY RedoneStays, NextSplits DEF Alone, runVars
<1>2. ASSUME NEW q \in Run, stage[q] # "unsent" PROVE stage'[q] # "unsent"
  BY <1>2, OwnStage, OnlyOneRun, NextSplits DEF runVars
<1> QED BY <1>1, <1>2 DEF Alone

\* A step of the table that schedules nothing keeps the facts.
LEMMA TableStep ==
  ASSUME LoneRunFits, UNCHANGED runVars, Scheduled' \subseteq Scheduled,
         \A p \in Universe : by'[p] \in {by[p], "nobody"}
  PROVE  LoneRunFits'
<1> USE DEF greedyVars, msgVars
<1>1. OnlyOwnPicks'
  BY DEF LoneRunFits, OnlyOwnPicks, runVars
<1>2. SlotsCoverSchedule'
  BY DEF LoneRunFits, SlotsCoverSchedule, runVars
<1>3. ChosenFit'
  BY DEF LoneRunFits, ChosenFit, runVars, LongClash, Clash
<1>4. NoLongClash'
  BY DEF LoneRunFits, NoLongClash, LongClash, Clash
<1> QED BY <1>1, <1>2, <1>3, <1>4 DEF LoneRunFits

\* Inserting passes schedules nothing.
LEMMA InsertStep ==
  ASSUME TypeOK, LoneRunFits, NEW S \in SUBSET Universe, Insert(S) PROVE LoneRunFits'
<1>1. Scheduled' \subseteq Scheduled
  BY DEF Insert, Scheduled, TypeOK
<1>2. \A p \in Universe : by'[p] \in {by[p], "nobody"}
  BY DEF Insert
<1> QED BY <1>1, <1>2, TableStep DEF Insert

\* Deleting old passes schedules nothing.
LEMMA CleanUpStep == ASSUME TypeOK, LoneRunFits, CleanUp PROVE LoneRunFits'
<1>1. Scheduled' \subseteq Scheduled
  BY DEF CleanUp, Scheduled, TypeOK
<1>2. \A p \in Universe : by'[p] \in {by[p], "nobody"}
  BY DEF CleanUp
<1> QED BY <1>1, <1>2, TableStep DEF CleanUp

\* The clock schedules nothing.
LEMMA TickStep == ASSUME LoneRunFits, Tick PROVE LoneRunFits'
<1>1. Scheduled' \subseteq Scheduled
  BY DEF Tick, Scheduled, tableVars
<1> QED BY <1>1, TableStep DEF Tick, tableVars

\* What is scheduled before the second commit are picks of the one run.
LEMMA OwnPicks ==
  ASSUME Alone, OnlyOwnPicks, NEW r \in Run,
         stage[r] \in {"queued", "scanning", "committed", "sent", "solved"}
  PROVE  \A p \in Universe : by[p] # "nobody" =>
           p \in picked[r] /\ stage[r] \in {"committed", "sent", "solved"}
BY DEF Alone, OnlyOwnPicks

\* A run that is alone is the only one that has been started.
LEMMA OthersUnsent ==
  ASSUME Alone, NEW r \in Run, stage[r] # "unsent"
  PROVE  \A q \in Run : q # r => stage[q] = "unsent"
BY DEF Alone

\* Taking or sending a message marks nothing, and the table holds no schedule.
LEMMA BeginStep ==
  ASSUME TypeOK, LoneRunFits, Alone, Alone', NEW r \in Run,
         Trigger(r) \/ StartGreedy(r) \/ StartSync(r)
  PROVE  LoneRunFits'
<1> USE DEF tableVars
<1>1. stage'[r] \in {"queued", "scanning"} /\ \A q \in Run : q # r => stage'[q] = stage[q]
  BY DEF Trigger, StartGreedy, StartSync, Begin, Goto, TypeOK
<1>2. \A q \in Run : q # r => stage'[q] = "unsent"
  BY <1>1 DEF Alone
<1>3. rows' = rows /\ by' = by /\ Scheduled' = Scheduled
  BY DEF Trigger, StartGreedy, StartSync, Begin, Scheduled
<1>4. stage[r] \in {"unsent", "queued"}
  BY DEF Trigger, StartGreedy, StartSync, Goto
<1>5. \A p \in Universe : by[p] = "nobody"
  BY <1>1, <1>2, <1>4 DEF LoneRunFits, OnlyOwnPicks
<1>6. OnlyOwnPicks'
  BY <1>3, <1>5 DEF OnlyOwnPicks
<1>7. SlotsCoverSchedule' /\ ChosenFit'
  BY <1>1, <1>2 DEF SlotsCoverSchedule, ChosenFit
<1>8. NoLongClash'
  BY <1>3 DEF LoneRunFits, NoLongClash, LongClash, Clash
<1> QED BY <1>6, <1>7, <1>8 DEF LoneRunFits

\* Marks that are not committed are not in the table.
LEMMA ScanStep ==
  ASSUME LoneRunFits, NEW r \in Run, stage[r] = "scanning", ScanStation(r), Alone
  PROVE  LoneRunFits'
<1> USE DEF tableVars, msgVars
<1>1. stage' = stage /\ by' = by /\ rows' = rows /\ slots' = slots /\ chosen' = chosen
  BY DEF ScanStation
<1>2. Scheduled' = Scheduled
  BY <1>1 DEF Scheduled
<1>3. \A p \in Universe : by[p] = "nobody"
  BY OwnPicks DEF LoneRunFits
<1>4. OnlyOwnPicks'
  BY <1>1, <1>3 DEF OnlyOwnPicks
<1>5. SlotsCoverSchedule' /\ ChosenFit'
  BY <1>1, <1>2 DEF LoneRunFits, SlotsCoverSchedule, ChosenFit, LongClash, Clash
<1>6. NoLongClash'
  BY <1>2 DEF LoneRunFits, NoLongClash, LongClash, Clash
<1> QED BY <1>4, <1>5, <1>6 DEF LoneRunFits

\* The commit of the greedy stage schedules its picks and nothing else.
LEMMA CommitGreedyStep ==
  ASSUME TypeOK, PicksFit, LoneRunFits, Alone, NEW r \in Run, CommitGreedy(r)
  PROVE  LoneRunFits'
<1>1. stage[r] = "scanning" /\ stage'[r] = "committed"
  BY DEF CommitGreedy, Goto, TypeOK
<1>2. \A q \in Run : q # r => stage'[q] = "unsent"
  BY <1>1, OthersUnsent DEF CommitGreedy, Goto, TypeOK
<1>3. picked' = picked /\ rows' = rows
  BY DEF CommitGreedy, greedyVars
<1>4. \A p \in Universe : by'[p] # "nobody" => p \in picked[r]
  BY <1>1, OwnPicks DEF CommitGreedy, LoneRunFits
<1>5. Scheduled' \subseteq picked[r]
  BY <1>3, <1>4 DEF Scheduled, TypeOK
<1>6. OnlyOwnPicks'
  BY <1>1, <1>3, <1>4 DEF OnlyOwnPicks
<1>7. SlotsCoverSchedule' /\ ChosenFit'
  BY <1>1, <1>2 DEF SlotsCoverSchedule, ChosenFit
<1>8. NoLongClash'
  BY <1>5 DEF PicksFit, NoLongClash, LongClash, Clash
<1> QED BY <1>6, <1>7, <1>8 DEF LoneRunFits

\* When the free slots are read, all that is scheduled are the picks, and these
\* lie in the window, so the message names every one of them.
LEMMA SendStep ==
  ASSUME TypeOK, PicksFit, LoneRunFits, Alone, NEW r \in Run, SendOrtools(r)
  PROVE  LoneRunFits'
<1> USE DEF tableVars
<1>1. stage[r] = "committed" /\ stage'[r] = "sent"
  BY DEF SendOrtools, Goto, TypeOK
<1>2. \A q \in Run : q # r => stage'[q] = "unsent"
  BY <1>1, OthersUnsent DEF SendOrtools, Goto, TypeOK
<1>3. picked' = picked /\ rows' = rows /\ by' = by
  BY DEF SendOrtools
<1>4. Scheduled' = Scheduled
  BY <1>3 DEF Scheduled
<1>5. \A p \in Universe : by[p] # "nobody" => p \in picked[r]
  BY <1>1, OwnPicks DEF LoneRunFits
<1>6. Scheduled \subseteq picked[r]
  BY <1>5 DEF Scheduled, TypeOK
<1>7. \A p \in Scheduled : start[r] <= p.rise /\ p.set <= until[r]
  BY <1>1, <1>6 DEF PicksFit
<1>8. slots'[r].occupied = FreeSlotsNow(r).occupied
  BY DEF SendOrtools, TypeOK
<1>9. Scheduled' \subseteq slots'[r].occupied
  BY <1>4, <1>7, <1>8 DEF FreeSlotsNow
<1>10. OnlyOwnPicks'
  BY <1>1, <1>3, <1>5 DEF OnlyOwnPicks
<1>11. SlotsCoverSchedule' /\ ChosenFit'
  BY <1>1, <1>2, <1>9 DEF SlotsCoverSchedule, ChosenFit
<1>12. NoLongClash'
  BY <1>4 DEF LoneRunFits, NoLongClash, LongClash, Clash
<1> QED BY <1>10, <1>11, <1>12 DEF LoneRunFits

\* What the solver returns does not overlap the occupied passes, for it fits in
\* a slot, nor itself for a second, for NoOverlap sees whole seconds.
LEMMA StartOrtoolsStep ==
  ASSUME TypeOK, LoneRunFits, Alone, NEW r \in Run, StartOrtools(r)
  PROVE  LoneRunFits'
<1> USE DEF tableVars, greedyVars, msgVars
<1>1. stage[r] = "sent" /\ stage'[r] = "solved"
  BY DEF StartOrtools, Goto, TypeOK
<1>2. \A q \in Run : q # r => stage'[q] = "unsent"
  BY <1>1, OthersUnsent DEF StartOrtools, Goto, TypeOK
<1>3. picked' = picked /\ slots' = slots /\ rows' = rows /\ by' = by
  BY DEF StartOrtools
<1>4. Scheduled' = Scheduled
  BY <1>3 DEF Scheduled
<1>5. PICK T \in SUBSET Candidates(r) :
        SolverMayReturn(Candidates(r), T, now) /\ chosen' = [chosen EXCEPT ![r] = T]
  BY DEF StartOrtools
<1>6. chosen'[r] = T
  BY <1>5 DEF TypeOK
<1>7. T \subseteq Universe
  BY <1>5 DEF Candidates, Open, TypeOK
<1>8. \A p, q \in T : ~LongClash(p, q)
  <2> SUFFICES ASSUME NEW p \in T, NEW q \in T, LongClash(p, q) PROVE FALSE
    OBVIOUS
  <2>1. ~Overlap(Rounded(p, now), Rounded(q, now))
    BY <1>5 DEF LongClash, Clash, SolverMayReturn
  <2>2. p \in Universe /\ q \in Universe
    BY <1>7
  <2>3. now \in Int
    BY DEF TypeOK
  <2> QED BY <2>1, <2>2, <2>3, WholeSeconds
<1>9. \A p \in T, q \in Scheduled : ~Clash(p, q)
  <2> SUFFICES ASSUME NEW p \in T, NEW q \in Scheduled, Clash(p, q) PROVE FALSE
    OBVIOUS
  <2>1. q \in slots[r].occupied
    BY <1>1 DEF LoneRunFits, SlotsCoverSchedule
  <2>2. Fits(p, r)
    BY <1>5 DEF Candidates
  <2> QED BY <2>1, <2>2 DEF Fits, Clash
<1>10. OnlyOwnPicks'
  <2>1. \A p \in Universe : by[p] # "nobody" => p \in picked[r]
    BY <1>1, OwnPicks DEF LoneRunFits
  <2> QED BY <1>1, <1>3, <2>1 DEF OnlyOwnPicks
<1>11. SlotsCoverSchedule'
  <2>1. Scheduled \subseteq slots[r].occupied
    BY <1>1 DEF LoneRunFits, SlotsCoverSchedule
  <2> QED BY <1>2, <1>3, <1>4, <2>1 DEF SlotsCoverSchedule
<1>12. ChosenFit'
  BY <1>2, <1>4, <1>6, <1>8, <1>9 DEF ChosenFit, LongClash, Clash
<1>13. NoLongClash'
  BY <1>4 DEF LoneRunFits, NoLongClash, LongClash, Clash
<1> QED BY <1>10, <1>11, <1>12, <1>13 DEF LoneRunFits

\* The second commit adds passes that overlap nothing.
LEMMA CommitOrtoolsStep ==
  ASSUME TypeOK, LoneRunFits, Alone, NEW r \in Run, CommitOrtools(r)
  PROVE  LoneRunFits'
<1>1. stage[r] = "solved" /\ stage'[r] = "optimized"
  BY DEF CommitOrtools, Goto, TypeOK
<1>2. \A q \in Run : q # r => stage'[q] = "unsent"
  BY <1>1, OthersUnsent DEF CommitOrtools, Goto, TypeOK
<1>3. Scheduled' \subseteq Scheduled \cup chosen[r]
  BY DEF CommitOrtools, Scheduled, TypeOK
<1>4. OnlyOwnPicks'
  BY <1>1 DEF OnlyOwnPicks
<1>5. SlotsCoverSchedule' /\ ChosenFit'
  BY <1>1, <1>2 DEF SlotsCoverSchedule, ChosenFit
<1>6. NoLongClash'
  <2>1. \A p, q \in chosen[r] : ~LongClash(p, q)
    BY <1>1 DEF LoneRunFits, ChosenFit
  <2>2. \A p \in chosen[r], q \in Scheduled : ~LongClash(p, q) /\ ~LongClash(q, p)
    BY <1>1, LongClashSymmetric DEF LoneRunFits, ChosenFit, LongClash
  <2>3. \A p, q \in Scheduled : ~LongClash(p, q)
    BY DEF LoneRunFits, NoLongClash
  <2>4. \A p, q \in Scheduled' : ~LongClash(p, q)
    BY <1>3, <2>1, <2>2, <2>3
  <2> QED BY <2>4 DEF NoLongClash, LongClash, Clash
<1> QED BY <1>4, <1>5, <1>6 DEF LoneRunFits

\* A run ends, or a task fails: as long as nothing is done twice, the only way
\* back is to a point where the same facts hold.
LEMMA EndStep ==
  ASSUME TypeOK, LoneRunFits, Alone, Alone', NEW r \in Run, Return(r) \/ Fail(r)
  PROVE  LoneRunFits'
<1> USE DEF tableVars, msgVars, greedyVars
<1>1. rows' = rows /\ by' = by /\ Scheduled' = Scheduled
  BY DEF Return, Fail, GiveUp, End, RestartGreedy, RestartOrtools, Restart, Scheduled
<1>2. \/ stage'[r] = "over"
      \/ stage[r] = "scanning" /\ stage'[r] = "queued"
      \/ /\ stage[r] \in {"sent", "solved"} /\ stage'[r] = "sent"
         /\ picked' = picked /\ slots' = slots
  <2>1. CASE Return(r) \/ GiveUp(r)
    BY <2>1 DEF Return, GiveUp, End, TypeOK
  <2>2. CASE RestartGreedy(r)
    BY <2>2 DEF RestartGreedy, Restart, Alone, TypeOK
  <2>3. CASE RestartOrtools(r)
    BY <2>3 DEF RestartOrtools, Restart, Alone, TypeOK
  <2> QED BY <2>1, <2>2, <2>3 DEF Fail
<1>3. \A q \in Run : q # r => stage'[q] = "unsent"
  BY <1>2 DEF Alone
<1>4. OnlyOwnPicks'
  <2>1. CASE stage'[r] = "over"
    BY <2>1 DEF OnlyOwnPicks
  <2>2. CASE stage[r] = "scanning" /\ stage'[r] = "queued"
    BY <1>1, <2>2, OwnPicks DEF LoneRunFits, OnlyOwnPicks
  <2>3. CASE /\ stage[r] \in {"sent", "solved"} /\ stage'[r] = "sent"
             /\ picked' = picked
    BY <1>1, <2>3, OwnPicks DEF LoneRunFits, OnlyOwnPicks
  <2> QED BY <1>2, <2>1, <2>2, <2>3
<1>5. SlotsCoverSchedule'
  BY <1>1, <1>2, <1>3 DEF LoneRunFits, SlotsCoverSchedule
<1>6. ChosenFit'
  BY <1>2, <1>3 DEF ChosenFit
<1>7. NoLongClash'
  BY <1>1 DEF LoneRunFits, NoLongClash, LongClash, Clash
<1> QED BY <1>4, <1>5, <1>6, <1>7 DEF LoneRunFits

\* A second execution beside the first leaves no run alone.
LEMMA RedeliverNotAlone ==
  ASSUME NEW r \in Run, NEW q \in Run, Redeliver(r, q) PROVE ~Alone'
BY DEF Redeliver, Alone

\* Every step keeps the facts about a run that is and stays alone.
LEMMA LoneRunStep ==
  ASSUME TypeOK, PicksFit, LoneRunFits, Alone, Alone', [Next]_vars
  PROVE  LoneRunFits'
<1>1. CASE Next
  BY <1>1, InsertStep, CleanUpStep, TickStep, BeginStep, ScanStep, CommitGreedyStep,
     SendStep, StartOrtoolsStep, CommitOrtoolsStep, EndStep, RedeliverNotAlone
     DEF Next, RunGreedy, RunOrtools, RunPipeline, InsertFromPipeline, ScanStation
<1>2. CASE UNCHANGED vars
  <2>1. UNCHANGED runVars /\ Scheduled' \subseteq Scheduled
    BY <1>2 DEF vars, tableVars, Scheduled
  <2>2. \A p \in Universe : by'[p] \in {by[p], "nobody"}
    BY <1>2 DEF vars, tableVars
  <2> QED BY <2>1, <2>2, TableStep
<1> QED BY <1>1, <1>2

\* Every step keeps the invariant.
LEMMA IInvStep == ASSUME IInv, [Next]_vars PROVE IInv'
<1>1. TypeOK'
  BY TypeOKStep DEF IInv
<1>2. PicksFit'
  BY PicksFitStep DEF IInv
<1>3. Alone' => LoneRunFits'
  BY AloneBefore, LoneRunStep DEF IInv
<1> QED BY <1>1, <1>2, <1>3 DEF IInv

\* One chain of run_greedy and run_ortools, or one pipeline inside the API, that
\* is alone never leaves two passes scheduled at a station that overlap for a
\* second, whatever is detected, cleaned up or retried before the commits
\* meanwhile; a pass detected twice is such a pair.
THEOREM LoneRunConflictFreeHolds == Spec => []LoneRunConflictFree
<1>1. IInv /\ [Next]_vars => IInv'
  BY IInvStep
<1>2. IInv => LoneRunConflictFree
  BY DEF IInv, LoneRunFits, LoneRunConflictFree
<1> QED BY IInvInit, <1>1, <1>2, PTL DEF Spec

-----------------------------------------------------------------------------
(* What holds of every run, alone or not *)

\* What is scheduled stays so until it is a day old.
LEMMA SchedulePersistsStep ==
  ASSUME TypeOK, [Next]_vars, NEW p \in Scheduled
  PROVE  p \in Scheduled' \/ p.rise + Day < now
<1> USE DEF tableVars, runVars
<1>1. p \in rows /\ by[p] # "nobody" /\ p \in Universe
  BY DEF Scheduled, TypeOK
<1>2. ASSUME NEW S, Insert(S) PROVE p \in Scheduled'
  <2>1. SameKey(p, p)
    BY DEF SameKey
  <2> QED BY <1>1, <1>2, <2>1 DEF Insert, Scheduled
<1>3. CASE CleanUp
  <2>1. p.rise + Day >= now \/ p.rise + Day < now
    BY <1>1, UniverseAssumption, ParametersAssumption DEF TypeOK
  <2>2. CASE p.rise + Day >= now
    <3>1. p \in rows'
      BY <1>1, <1>3, <2>2 DEF CleanUp
    <3>2. by'[p] = by[p]
      BY <1>1, <1>3, <3>1 DEF CleanUp
    <3> QED BY <1>1, <3>1, <3>2 DEF Scheduled
  <2> QED BY <2>1, <2>2
<1>4. ASSUME rows' = rows, by' = by PROVE p \in Scheduled'
  BY <1>1, <1>4 DEF Scheduled
<1>5. ASSUME NEW r \in Run, CommitGreedy(r) PROVE p \in Scheduled'
  BY <1>1, <1>5 DEF CommitGreedy, Scheduled
<1>6. ASSUME NEW r \in Run, CommitOrtools(r) PROVE p \in Scheduled'
  BY <1>1, <1>6 DEF CommitOrtools, Scheduled
<1>7. ASSUME NEW r \in Run, RunStep(r) PROVE p \in Scheduled'
  BY <1>4, <1>5, <1>6, <1>7, RunLeavesTable
<1>8. CASE Tick \/ UNCHANGED vars
  BY <1>4, <1>8 DEF Tick, vars
<1> QED BY <1>2, <1>3, <1>7, <1>8, NextSplits

\* A scheduled pass is neither unscheduled nor deleted before it is a day old,
\* whatever is detected again and however many runs there are.
THEOREM SchedulePersistsHolds == Spec => SchedulePersists
<1>1. TypeOK /\ [Next]_vars => [\A p \in Scheduled : p \in Scheduled' \/ p.rise + Day < now]_vars
  BY SchedulePersistsStep
<1> QED BY <1>1, TypeCorrect, PTL DEF Spec, SchedulePersists

\* The message to the second stage names the satellites of the picks, and the
\* second stage leaves them alone.
MessageFacts(r) ==
  /\ stage[r] \in {"sent", "solved", "optimized"} => sats[r] = NoradsOf(picked[r])
  /\ stage[r] = "solved" =>
       /\ \A p, q \in chosen[r] : p.norad = q.norad => p = q
       /\ NoradsOf(chosen[r]) \cap NoradsOf(picked[r]) = {}

\* Before the first step no message has been sent.
LEMMA MessageInit == ASSUME Init, NEW r \in Run PROVE MessageFacts(r)
BY DEF Init, MessageFacts

\* Where a step leads the run whose step it is, as far as its message goes.
LEMMA OwnMessageStep ==
  ASSUME TypeOK, NEW r \in Run, RunStep(r)
  PROVE  \/ stage'[r] \notin {"committed", "sent", "solved", "optimized"}
         \/ CommitGreedy(r)
         \/ SendOrtools(r)
         \/ StartOrtools(r)
         \/ /\ stage[r] \in {"sent", "solved", "optimized"}
            /\ stage'[r] \in {"sent", "optimized"}
            /\ picked' = picked /\ sats' = sats /\ slots' = slots
<1> USE DEF TypeOK, greedyVars, msgVars
<1>1. CASE Trigger(r) \/ \E s \in Run : Redeliver(s, r)
  BY <1>1 DEF Trigger, Redeliver, Goto
<1>2. CASE StartGreedy(r) \/ StartSync(r)
  BY <1>2 DEF StartGreedy, StartSync, Goto
<1>3. CASE ScanStation(r)
  BY <1>3 DEF ScanStation
<1>4. CASE CommitOrtools(r)
  BY <1>4 DEF CommitOrtools, Goto
<1>5. CASE Return(r) \/ GiveUp(r)
  BY <1>5 DEF Return, GiveUp, End
<1>6. CASE RestartGreedy(r) \/ RestartOrtools(r)
  BY <1>6 DEF RestartGreedy, RestartOrtools, Restart
<1> QED
  BY <1>1, <1>2, <1>3, <1>4, <1>5, <1>6 DEF RunStep, RunGreedy, RunOrtools, Fail

\* A step of a run keeps the facts about its message.
LEMMA MessageOwnStep ==
  ASSUME TypeOK, NEW r \in Run, MessageFacts(r), RunStep(r)
  PROVE  MessageFacts(r)'
<1> USE DEF greedyVars, msgVars
<1>1. CASE stage'[r] \notin {"committed", "sent", "solved", "optimized"}
  BY <1>1 DEF MessageFacts
<1>2. CASE CommitGreedy(r)
  BY <1>2 DEF CommitGreedy, Goto, MessageFacts, TypeOK
<1>3. CASE SendOrtools(r)
  <2>1. sats'[r] = NoradsOf(picked[r]) /\ picked' = picked /\ stage'[r] = "sent"
    BY <1>3 DEF SendOrtools, Goto, TypeOK
  <2> QED BY <2>1 DEF MessageFacts, NoradsOf
<1>4. CASE StartOrtools(r)
  <2>1. stage[r] = "sent" /\ stage'[r] = "solved" /\ picked' = picked /\ sats' = sats
    BY <1>4 DEF StartOrtools, Goto, TypeOK
  <2>2. sats[r] = NoradsOf(picked[r])
    BY <2>1 DEF MessageFacts
  <2>3. PICK T \in SUBSET Candidates(r) :
          SolverMayReturn(Candidates(r), T, now) /\ chosen'[r] = T
    BY <1>4 DEF StartOrtools, TypeOK
  <2>4. \A p, q \in T : p.norad = q.norad => p = q
    BY <2>3 DEF SolverMayReturn
  <2>5. NoradsOf(T) \cap NoradsOf(picked[r]) = {}
    BY <2>2, <2>3 DEF Candidates, Excluded, NoradsOf
  <2> QED BY <2>1, <2>2, <2>3, <2>4, <2>5 DEF MessageFacts, NoradsOf
<1>5. CASE /\ stage[r] \in {"sent", "solved", "optimized"}
           /\ stage'[r] \in {"sent", "optimized"}
           /\ picked' = picked /\ sats' = sats /\ slots' = slots
  BY <1>5 DEF MessageFacts, NoradsOf
<1> QED BY <1>1, <1>2, <1>3, <1>4, <1>5, OwnMessageStep

\* Every step keeps what is known of the messages.
LEMMA MessageStep ==
  ASSUME TypeOK, [Next]_vars, \A r \in Run : MessageFacts(r)
  PROVE  (\A r \in Run : MessageFacts(r))'
<1> SUFFICES ASSUME NEW q \in Run PROVE MessageFacts(q)'
  OBVIOUS
<1>1. CASE UNCHANGED runVars
  BY <1>1 DEF runVars, greedyVars, msgVars, MessageFacts, NoradsOf
<1>2. ASSUME NEW r \in Run, RunStep(r) PROVE MessageFacts(q)'
  <2>1. CASE q = r
    BY <1>2, <2>1, MessageOwnStep
  <2>2. CASE q # r
    BY <1>2, <2>2, OnlyOneRun DEF MessageFacts, NoradsOf
  <2> QED BY <2>1, <2>2
<1> QED BY <1>1, <1>2, NextSplits

-----------------------------------------------------------------------------
(* What one execution of the two stages commits *)

\* No pass lasts longer than a day, the age at which passes are cleaned up.
ShortPasses == \A p \in Universe : p.set <= p.rise + Day

\* A pick is in the table, then in the message, or is old enough to have been
\* cleaned up; what the second stage chooses fits beside it.
CommitFacts(r) ==
  /\ stage[r] = "committed" =>
       \A p \in picked[r] : p \in Scheduled \/ p.rise + Day < now
  /\ stage[r] \in {"sent", "solved", "optimized"} =>
       \A p \in picked[r] : p \in slots[r].occupied \/ p.rise + Day < now
  /\ stage[r] = "solved" =>
       /\ \A p \in picked[r], q \in chosen[r] : ~Clash(p, q)
       /\ \A p, q \in chosen[r] : ~LongClash(p, q)

\* All that is scheduled is in the history of commits, and no commit has brought
\* two passes together that overlap for a second.
HistoryFacts ==
  /\ \A p \in Scheduled : <<p, p>> \in together
  /\ \A p, q \in Universe : <<p, q>> \in together => ~LongClash(p, q)

\* Before the first step nothing has been committed.
LEMMA CommitInit == Init => HistoryFacts /\ \A r \in Run : CommitFacts(r)
BY DEF Init, CommitFacts, HistoryFacts, Scheduled

\* Time does not go back.
LEMMA NowGrows == ASSUME TypeOK, [Next]_vars PROVE now' \in Nat /\ now <= now'
<1>1. CASE Tick
  BY <1>1, ParametersAssumption DEF Tick, TypeOK
<1>2. CASE now' = now
  BY <1>2 DEF TypeOK
<1> QED BY <1>1, <1>2, RunLeavesClock, NextSplits DEF Insert, CleanUp, vars

\* What was cleaned up stays old.
LEMMA OldStaysOld ==
  ASSUME TypeOK, [Next]_vars, NEW p \in Universe, p.rise + Day < now
  PROVE  p.rise + Day < now'
BY NowGrows, UniverseAssumption, ParametersAssumption DEF TypeOK

\* A step that leaves the run where it is keeps the facts about it.
LEMMA CommitKept ==
  ASSUME TypeOK, [Next]_vars, NEW r \in Run, CommitFacts(r),
         stage'[r] = stage[r], picked'[r] = picked[r], slots'[r] = slots[r],
         chosen'[r] = chosen[r]
  PROVE  CommitFacts(r)'
<1>1. picked[r] \subseteq Universe
  BY DEF TypeOK
<1>2. ASSUME stage[r] = "committed", NEW p \in picked[r]
      PROVE  p \in Scheduled' \/ p.rise + Day < now'
  <2>1. p \in Scheduled \/ p.rise + Day < now
    BY <1>2 DEF CommitFacts
  <2>2. p \in Scheduled' \/ p.rise + Day < now
    BY <2>1, SchedulePersistsStep
  <2> QED BY <1>1, <2>2, OldStaysOld
<1>3. ASSUME stage[r] \in {"sent", "solved", "optimized"}, NEW p \in picked[r]
      PROVE  p \in slots[r].occupied \/ p.rise + Day < now'
  BY <1>1, <1>3, OldStaysOld DEF CommitFacts
<1> QED BY <1>2, <1>3 DEF CommitFacts, LongClash, Clash

\* The candidates rise from now on and fit in the slots of the message.
LEMMA ChosenBesidePicks ==
  ASSUME ShortPasses, TypeOK, NEW r \in Run, CommitFacts(r), stage[r] = "sent",
         NEW p \in picked[r], NEW q \in Candidates(r)
  PROVE  ~Clash(p, q)
<1>1. p \in Universe /\ q \in Universe /\ now <= q.rise /\ Fits(q, r)
  BY DEF TypeOK, Candidates, Open
<1>2. CASE p \in slots[r].occupied
  BY <1>1, <1>2 DEF Fits, Clash, Overlap
<1>3. CASE p.rise + Day < now
  <2>1. /\ p.set \in Nat /\ p.rise \in Nat /\ q.rise \in Nat /\ now \in Nat /\ Day \in Nat
        /\ p.set <= p.rise + Day
    BY <1>1, UniverseAssumption, ParametersAssumption DEF ShortPasses, TypeOK
  <2>2. p.set <= q.rise
    BY <1>1, <1>3, <2>1
  <2>3. ~(q.rise < p.set)
    BY <2>1, <2>2
  <2> QED BY <2>3 DEF Clash, Overlap
<1> QED BY <1>1, <1>2, <1>3 DEF CommitFacts

\* A step of a run keeps the facts about what it commits.
LEMMA CommitOwnStep ==
  ASSUME ShortPasses, TypeOK, PicksFit, NEW r \in Run, CommitFacts(r), RunStep(r)
  PROVE  CommitFacts(r)'
<1> USE DEF tableVars, greedyVars, msgVars
<1>1. CASE stage'[r] \notin {"committed", "sent", "solved", "optimized"}
  BY <1>1 DEF CommitFacts
<1>2. CASE CommitGreedy(r)
  <2>1. stage'[r] = "committed" /\ picked' = picked /\ rows' = rows /\ picked[r] \subseteq rows
    BY <1>2 DEF CommitGreedy, Goto, TypeOK
  <2>2. \A p \in picked[r] : by'[p] = "greedy"
    BY <1>2 DEF CommitGreedy, TypeOK
  <2>3. \A p \in picked'[r] : p \in Scheduled'
    BY <2>1, <2>2 DEF Scheduled
  <2> QED BY <2>1, <2>3 DEF CommitFacts
<1>3. CASE SendOrtools(r)
  <2>1. /\ stage[r] = "committed" /\ stage'[r] = "sent" /\ picked' = picked /\ now' = now
        /\ slots'[r].occupied = FreeSlotsNow(r).occupied
    BY <1>3 DEF SendOrtools, Goto, TypeOK
  <2>2. \A p \in picked[r] : start[r] <= p.rise /\ p.set <= until[r]
    BY <2>1 DEF PicksFit
  <2>3. \A p \in picked[r] : p \in Scheduled \/ p.rise + Day < now
    BY <2>1 DEF CommitFacts
  <2>4. \A p \in picked[r] : p \in slots'[r].occupied \/ p.rise + Day < now
    BY <2>1, <2>2, <2>3 DEF FreeSlotsNow
  <2> QED BY <2>1, <2>4 DEF CommitFacts
<1>4. CASE StartOrtools(r)
  <2>1. /\ stage[r] = "sent" /\ stage'[r] = "solved" /\ picked' = picked /\ now' = now
        /\ slots' = slots
    BY <1>4 DEF StartOrtools, Goto, TypeOK
  <2>2. PICK T \in SUBSET Candidates(r) :
          SolverMayReturn(Candidates(r), T, now) /\ chosen'[r] = T
    BY <1>4 DEF StartOrtools, TypeOK
  <2>3. \A p, q \in T : ~LongClash(p, q)
    <3> SUFFICES ASSUME NEW p \in T, NEW q \in T, LongClash(p, q) PROVE FALSE
      OBVIOUS
    <3>1. ~Overlap(Rounded(p, now), Rounded(q, now))
      BY <2>2 DEF LongClash, Clash, SolverMayReturn
    <3>2. p \in Universe /\ q \in Universe /\ now \in Int
      BY <2>2 DEF Candidates, Open, TypeOK
    <3> QED BY <3>1, <3>2, WholeSeconds
  <2>4. \A p \in picked[r], q \in T : ~Clash(p, q)
    BY <2>1, <2>2, ChosenBesidePicks
  <2>5. \A p \in picked[r] : p \in slots[r].occupied \/ p.rise + Day < now
    BY <2>1 DEF CommitFacts
  <2> QED BY <2>1, <2>2, <2>3, <2>4, <2>5 DEF CommitFacts, LongClash, Clash
<1>5. CASE /\ stage[r] \in {"sent", "solved", "optimized"}
           /\ stage'[r] \in {"sent", "optimized"}
           /\ picked' = picked /\ sats' = sats /\ slots' = slots
  <2>1. now' = now
    BY RunLeavesClock
  <2> QED BY <1>5, <2>1 DEF CommitFacts
<1> QED BY <1>1, <1>2, <1>3, <1>4, <1>5, OwnMessageStep

\* Every step keeps what is known of a run on its way through its commits.
LEMMA CommitStep ==
  ASSUME ShortPasses, TypeOK, PicksFit, [Next]_vars, \A r \in Run : CommitFacts(r)
  PROVE  (\A r \in Run : CommitFacts(r))'
<1> SUFFICES ASSUME NEW q \in Run PROVE CommitFacts(q)'
  OBVIOUS
<1>1. CASE UNCHANGED runVars
  BY <1>1, CommitKept DEF runVars, greedyVars, msgVars
<1>2. ASSUME NEW r \in Run, RunStep(r) PROVE CommitFacts(q)'
  <2>1. CASE q = r
    BY <1>2, <2>1, CommitOwnStep
  <2>2. CASE q # r
    BY <1>2, <2>2, OnlyOneRun, CommitKept
  <2> QED BY <2>1, <2>2
<1> QED BY <1>1, <1>2, NextSplits

\* A step that neither schedules anything nor is recorded keeps the history.
LEMMA HistoryKept ==
  ASSUME HistoryFacts, Scheduled' \subseteq Scheduled, together' = together
  PROVE  HistoryFacts'
BY DEF HistoryFacts, LongClash, Clash

\* Both commits bring together only passes that do not overlap for a second, and
\* nothing else is ever scheduled.
LEMMA HistoryStep ==
  ASSUME TypeOK, PicksFit, [Next]_vars, HistoryFacts, \A r \in Run : CommitFacts(r)
  PROVE  HistoryFacts'
<1> USE DEF tableVars, runVars
<1>1. ASSUME NEW r \in Run, NEW S \in SUBSET Universe, \A p, q \in S : ~LongClash(p, q),
             together' = together \cup (S \X S), Scheduled' \subseteq Scheduled \cup S
      PROVE  HistoryFacts'
  <2>1. \A p \in Scheduled' : <<p, p>> \in together'
    BY <1>1 DEF HistoryFacts
  <2>2. ASSUME NEW p \in Universe, NEW q \in Universe, <<p, q>> \in together'
        PROVE  ~LongClash(p, q)
    BY <1>1, <2>2 DEF HistoryFacts
  <2> QED BY <2>1, <2>2 DEF HistoryFacts, LongClash, Clash
<1>2. ASSUME NEW r \in Run, CommitGreedy(r) PROVE HistoryFacts'
  <2>1. /\ rows' = rows /\ together' = together \cup (picked[r] \X picked[r])
        /\ \A p \in Universe : p \notin picked[r] => by'[p] = by[p]
    BY <1>2 DEF CommitGreedy
  <2>2. picked[r] \in SUBSET Universe /\ rows \subseteq Universe
    BY DEF TypeOK
  <2>3. \A p, q \in picked[r] : ~LongClash(p, q)
    BY DEF PicksFit, LongClash
  <2>4. Scheduled' \subseteq Scheduled \cup picked[r]
    BY <2>1, <2>2 DEF Scheduled
  <2> QED BY <1>1, <2>1, <2>2, <2>3, <2>4
<1>3. ASSUME NEW r \in Run, CommitOrtools(r) PROVE HistoryFacts'
  <2> DEFINE all == picked[r] \cup chosen[r]
  <2>1. /\ rows' = rows /\ together' = together \cup (all \X all) /\ stage[r] = "solved"
        /\ \A p \in Universe : p \notin all => by'[p] = by[p]
    BY <1>3 DEF CommitOrtools, Goto
  <2>2. all \in SUBSET Universe /\ rows \subseteq Universe
    BY DEF TypeOK
  <2>3. \A p, q \in all : ~LongClash(p, q)
    <3>1. \A p, q \in picked[r] : ~LongClash(p, q)
      BY DEF PicksFit, LongClash
    <3>2. \A p, q \in chosen[r] : ~LongClash(p, q)
      BY <2>1 DEF CommitFacts
    <3>3. \A p \in picked[r], q \in chosen[r] : ~Clash(p, q)
      BY <2>1 DEF CommitFacts
    <3>4. \A p \in picked[r], q \in chosen[r] : ~LongClash(p, q) /\ ~LongClash(q, p)
      BY <3>3, ClashSymmetric DEF LongClash
    <3> QED BY <3>1, <3>2, <3>4
  <2>4. Scheduled' \subseteq Scheduled \cup all
    BY <2>1, <2>2 DEF Scheduled
  <2> HIDE DEF all
  <2> QED BY <1>1, <2>1, <2>2, <2>3, <2>4
<1>4. ASSUME NEW r \in Run, RunStep(r) PROVE HistoryFacts'
  <2>1. CASE CommitGreedy(r) \/ CommitOrtools(r)
    BY <1>2, <1>3, <2>1
  <2>2. CASE ~CommitGreedy(r) /\ ~CommitOrtools(r)
    <3>1. rows' = rows /\ by' = by /\ together' = together
      BY <1>4, <2>2, RunLeavesTable
    <3> QED BY <3>1, HistoryKept DEF Scheduled
  <2> QED BY <2>1, <2>2
<1>5. ASSUME NEW S \in SUBSET Universe, Insert(S) PROVE HistoryFacts'
  <2>1. Scheduled' \subseteq Scheduled /\ together' = together
    BY <1>5 DEF Insert, Scheduled, TypeOK
  <2> QED BY <2>1, HistoryKept
<1>6. CASE CleanUp
  <2>1. Scheduled' \subseteq Scheduled /\ together' = together
    BY <1>6 DEF CleanUp, Scheduled, TypeOK
  <2> QED BY <2>1, HistoryKept
<1>7. CASE Tick \/ UNCHANGED vars
  <2>1. Scheduled' = Scheduled /\ together' = together
    BY <1>7 DEF Tick, vars, Scheduled
  <2> QED BY <2>1, HistoryKept
<1> QED BY <1>4, <1>5, <1>6, <1>7, NextSplits

\* However many runs there are, whatever is cleaned up, detected or scheduled by
\* others between the stages, and whatever starts again or is delivered again
\* after its commit: scheduled passes that overlap at a station for a second
\* were never committed by one run_greedy and one execution of the run_ortools
\* it sent, as long as no pass lasts longer than a day.
THEOREM OverlapsAreRerunsHolds == ShortPasses => (Spec => []OverlapsAreReruns)
<1> SUFFICES ASSUME ShortPasses PROVE Spec => []OverlapsAreReruns
  OBVIOUS
<1> DEFINE Facts == TypeOK /\ PicksFit /\ HistoryFacts /\ \A r \in Run : CommitFacts(r)
<1>1. Init => Facts
  BY TypeOKInit, IInvInit, CommitInit DEF IInv
<1>2. Facts /\ [Next]_vars => Facts'
  BY TypeOKStep, PicksFitStep, HistoryStep, CommitStep
<1>3. Facts => OverlapsAreReruns
  BY DEF HistoryFacts, OverlapsAreReruns, Scheduled, TypeOK
<1> QED BY <1>1, <1>2, <1>3, PTL DEF Spec

-----------------------------------------------------------------------------
(* Satellites of a run that is alone *)

\* A run picks a satellite at one station.
PicksApart(r) == \A p, q \in picked[r] : p.norad = q.norad => p.station = q.station

\* A scheduled satellite has one station, and one stage that scheduled it.
OneStation ==
  \A p, q \in Scheduled : p.norad = q.norad => p.station = q.station /\ by[p] = by[q]

SatFacts ==
  /\ IInv
  /\ \A r \in Run : MessageFacts(r) /\ PicksApart(r)
  /\ Alone => OneStation

\* Satellites that have a pick already are left out at the next station.
LEMMA PicksApartStep ==
  ASSUME TypeOK, [Next]_vars, \A r \in Run : PicksApart(r)
  PROVE  (\A r \in Run : PicksApart(r))'
<1> SUFFICES ASSUME NEW q \in Run PROVE PicksApart(q)'
  OBVIOUS
<1>1. CASE picked'[q] \subseteq picked[q]
  BY <1>1 DEF PicksApart
<1>2. CASE ScanStation(q)
  <2> DEFINE C == {p \in Open(start[q], until[q]) :
                     p.station = at[q] /\ p.norad \notin NoradsOf(picked[q])}
  <2>1. PICK T \in Best(C) :
          picked' = [picked EXCEPT ![q] = @ \cup {p \in T : \A u \in T : ~Clash(p, u)}]
    BY <1>2 DEF ScanStation
  <2>2. T \subseteq C
    BY BestSubset
  <2>3. picked'[q] \subseteq picked[q] \cup C
    BY <2>1, <2>2 DEF TypeOK
  <2> QED BY <2>3 DEF PicksApart, NoradsOf
<1>3. ASSUME NEW r \in Run, RunStep(r)
      PROVE  picked'[q] \subseteq picked[q] \/ ScanStation(q)
  <2>1. CASE r = q
    BY <1>3, <2>1, OwnPicksStep DEF greedyVars
  <2>2. CASE r # q
    BY <1>3, <2>2, OnlyOneRun
  <2> QED BY <2>1, <2>2
<1> QED BY <1>1, <1>2, <1>3, NextSplits DEF runVars, greedyVars

\* Only the two commits schedule anything.
LEMMA OnlyCommitsSchedule ==
  ASSUME TypeOK, [Next]_vars, \A r \in Run : ~CommitGreedy(r) /\ ~CommitOrtools(r)
  PROVE  Scheduled' \subseteq Scheduled /\ \A p \in Scheduled' : by'[p] = by[p]
<1> USE DEF tableVars
<1>1. ASSUME NEW S \in SUBSET Universe, Insert(S)
      PROVE  Scheduled' \subseteq Scheduled /\ \A p \in Scheduled' : by'[p] = by[p]
  BY <1>1 DEF Insert, Scheduled, TypeOK
<1>2. CASE CleanUp
  BY <1>2 DEF CleanUp, Scheduled, TypeOK
<1>3. CASE by' = by /\ rows' = rows
  BY <1>3 DEF Scheduled
<1>4. CASE Tick \/ UNCHANGED vars
  BY <1>3, <1>4 DEF Tick, vars
<1> QED BY <1>1, <1>2, <1>3, <1>4, RunLeavesTable, NextSplits

\* Every step keeps the facts about satellites.
LEMMA SatFactsStep == ASSUME SatFacts, [Next]_vars PROVE SatFacts'
<1>1. IInv' /\ TypeOK /\ TypeOK'
  BY IInvStep DEF SatFacts, IInv
<1>2. (\A r \in Run : MessageFacts(r) /\ PicksApart(r))'
  BY <1>1, MessageStep, PicksApartStep DEF SatFacts
<1>3. ASSUME Alone' PROVE OneStation'
  <2>1. Alone /\ OneStation /\ LoneRunFits
    BY <1>1, <1>3, AloneBefore DEF SatFacts, IInv
  <2>2. ASSUME NEW r \in Run, CommitGreedy(r) PROVE OneStation'
    <3>1. stage[r] = "scanning" /\ rows' = rows
      BY <2>2 DEF CommitGreedy, Goto
    <3>2. \A p \in Universe : by[p] = "nobody"
      BY <2>1, <3>1, OwnPicks DEF LoneRunFits
    <3>3. \A p \in Scheduled' : p \in picked[r] /\ by'[p] = "greedy"
      BY <1>1, <2>2, <3>1, <3>2 DEF CommitGreedy, Scheduled, TypeOK
    <3> QED BY <3>3 DEF SatFacts, PicksApart, OneStation
  <2>3. ASSUME NEW r \in Run, CommitOrtools(r) PROVE OneStation'
    <3>1. stage[r] = "solved" /\ stage'[r] = "optimized" /\ rows' = rows
      BY <1>1, <2>3 DEF CommitOrtools, Goto, TypeOK
    <3>2. Scheduled \subseteq picked[r]
      BY <1>1, <2>1, <3>1, OwnPicks DEF LoneRunFits, Scheduled, TypeOK
    <3>3. \A p \in Scheduled' : \/ p \in chosen[r] /\ by'[p] = "ortools"
                                \/ p \in Scheduled /\ by'[p] = by[p]
      BY <1>1, <2>3, <3>1 DEF CommitOrtools, Scheduled, TypeOK
    <3>4. \A p, q \in chosen[r] : p.norad = q.norad => p = q
      BY <3>1 DEF SatFacts, MessageFacts
    <3>5. \A p \in chosen[r], q \in Scheduled : p.norad # q.norad
      BY <3>1, <3>2 DEF SatFacts, MessageFacts, NoradsOf
    <3> QED BY <2>1, <3>3, <3>4, <3>5 DEF OneStation
  <2>4. CASE \A r \in Run : ~CommitGreedy(r) /\ ~CommitOrtools(r)
    BY <1>1, <2>1, <2>4, OnlyCommitsSchedule DEF OneStation
  <2> QED BY <2>2, <2>3, <2>4
<1> QED BY <1>1, <1>2, <1>3 DEF SatFacts

\* The facts about satellites hold before the first step.
LEMMA SatFactsInit == Init => SatFacts
BY IInvInit, MessageInit DEF Init, SatFacts, PicksApart, OneStation, Scheduled

\* A run that is alone keeps every satellite to one station.
THEOREM LoneRunOneStationHolds == Spec => []LoneRunOneStation
<1>1. SatFacts => LoneRunOneStation
  BY DEF SatFacts, OneStation, LoneRunOneStation
<1> QED BY <1>1, SatFactsInit, SatFactsStep, PTL DEF Spec

\* The satellites of a finite table are finitely many.
LEMMA NoradsFinite == ASSUME NEW S, IsFiniteSet(S) PROVE IsFiniteSet(NoradsOf(S))
<1> DEFINE f == [p \in S |-> p.norad]
<1>1. f \in Surjection(S, NoradsOf(S))
  BY DEF Surjection, NoradsOf
<1> QED BY <1>1, FS_Surjection

\* No satellite is counted for both stages by GET /api/coverage.
LEMMA CountsAddUp ==
  ASSUME IsFiniteSet(Universe), TypeOK, OneStation
  PROVE  Coverage.greedy + Coverage.ortools = Coverage.total
<1> DEFINE Of(stages) == NoradsOf({p \in rows : by[p] \in stages})
           G == Of({"greedy"})
           O == Of({"ortools"})
           B == Of({"greedy", "ortools"})
<1>1. B = G \cup O
  BY DEF NoradsOf
<1>2. G \cap O = {}
  <2> SUFFICES ASSUME NEW p \in rows, NEW q \in rows, by[p] = "greedy", by[q] = "ortools",
                      p.norad = q.norad
               PROVE  FALSE
    BY DEF NoradsOf
  <2>1. p \in Scheduled /\ q \in Scheduled
    BY DEF Scheduled
  <2> QED BY <2>1 DEF OneStation
<1>3. IsFiniteSet(G) /\ IsFiniteSet(O)
  <2>1. \A stages : IsFiniteSet({p \in rows : by[p] \in stages})
    BY FS_Subset DEF TypeOK
  <2> QED BY <2>1, NoradsFinite
<1> HIDE DEF G, O, B
<1>4. Cardinality(B) = Cardinality(G) + Cardinality(O)
  <2>1. Cardinality(G \cup O) = Cardinality(G) + Cardinality(O) - Cardinality(G \cap O)
    BY <1>3, FS_Union
  <2>2. Cardinality(G \cap O) = 0
    BY <1>2, FS_EmptySet
  <2>3. Cardinality(G) \in Nat /\ Cardinality(O) \in Nat
    BY <1>3, FS_CardinalityType
  <2> QED BY <1>1, <2>1, <2>2, <2>3
<1> QED BY <1>4 DEF Coverage, G, O, B

\* After a run that was alone the coverage by stage adds up to that of all
\* satellites, whatever the table holds.
THEOREM CoverageAddsUpHolds == IsFiniteSet(Universe) => (Spec => []CoverageAddsUp)
<1> SUFFICES ASSUME IsFiniteSet(Universe) PROVE Spec => []CoverageAddsUp
  OBVIOUS
<1>1. SatFacts => CoverageAddsUp
  BY CountsAddUp DEF SatFacts, IInv, CoverageAddsUp
<1> QED BY <1>1, SatFactsInit, SatFactsStep, PTL DEF Spec

=============================================================================
