--------------------------- MODULE ApiKeysProofs ---------------------------
(***************************************************************************)
(* Proofs about ApiKeys for any number of requests, any limits, lives of   *)
(* cached verdicts, window and delay: how old a verdict can be, and that   *)
(* the sliding window holds although time stamps arrive out of order.      *)
(***************************************************************************)
EXTENDS ApiKeys, FiniteSetTheorems, FunctionTheorems, TLAPS

-----------------------------------------------------------------------------
(* Steps *)

\* All changes of the row are alike to the rest of the system.
LEMMA ChangeOfRow ==
  ASSUME TypeOK,
         \/ \E n \in Limits : Create(n) \/ \E active \in BOOLEAN : Update(n, active)
         \/ Revoke
  PROVE  \E new \in Rows : Change(new)
<1>1. ASSUME NEW n \in Limits, Create(n) PROVE \E new \in Rows : Change(new)
  <2>1. [active |-> TRUE, limit |-> n] \in Rows
    BY Zenon DEF Rows
  <2> QED BY <1>1, <2>1, Zenon DEF Create
<1>2. ASSUME NEW n \in Limits, NEW active \in BOOLEAN, Update(n, active)
      PROVE  \E new \in Rows : Change(new)
  <2>1. [active |-> active, limit |-> n] \in Rows
    BY Zenon DEF Rows
  <2> QED BY <1>2, <2>1, Zenon DEF Update
<1>3. ASSUME Revoke PROVE \E new \in Rows : Change(new)
  <2>1. row \in [active : BOOLEAN, limit : Limits]
    BY <1>3 DEF Revoke, TypeOK, Rows
  <2>2. [row EXCEPT !.active = FALSE] \in Rows
    BY <2>1, Zenon DEF Rows
  <2> QED BY <1>3, <2>2, Zenon DEF Revoke
<1> QED BY <1>1, <1>2, <1>3

\* The steps, one for each operation.
LEMMA Steps ==
  ASSUME TypeOK, [Next]_vars
  PROVE  \/ \E new \in Rows : Change(new)
         \/ Tick
         \/ EvictKey
         \/ EvictWindow
         \/ \E q \in Request : \/ LookUp(q) \/ ReadRow(q) \/ Fill(q) \/ Stamp(q)
                               \/ Check(q) \/ CheckFails(q) \/ Break(q)
         \/ UNCHANGED vars
BY ChangeOfRow, Zenon DEF Next, Verify, CheckRateLimit

\* A step of one request keeps the type of phase.
LEMMA GotoType ==
  ASSUME TypeOK, NEW q \in Request, NEW from, NEW to \in Phases, Goto(q, from, to)
  PROVE  phase' \in [Request -> Phases]
BY DEF Goto, TypeOK

-----------------------------------------------------------------------------
(* Types *)

\* The initial state is well typed.
LEMMA TypeOKInit == Init => TypeOK
<1> SUFFICES ASSUME Init PROVE TypeOK
  OBVIOUS
<1>1. row \in Rows
  BY DEF Init
<1>2. was \in [0..MaxNow -> SUBSET Rows]
  BY <1>1 DEF Init
<1>3. cache \in CacheValues
  BY DEF Init, CacheValues
<1>4. phase \in [Request -> Phases]
  BY DEF Init, Phases
<1> QED BY <1>1, <1>2, <1>3, <1>4, ParametersAssumption DEF Init, TypeOK

\* What verify caches is well typed.
LEMMA VerdictType ==
  ASSUME TypeOK, NEW q \in Request
  PROVE  Verdict(q) \in CacheValues
BY ParametersAssumption DEF Verdict, CacheValues, TypeOK

\* The script keeps the types.
LEMMA ScriptType ==
  ASSUME TypeOK, NEW q \in Request, Script(q)
  PROVE  /\ entries' \subseteq [score : Nat, member : Request]
         /\ expires' \in Nat
         /\ granted' \subseteq [by : Request, at : Nat]
BY ParametersAssumption DEF Script, Recorded, Remaining, TypeOK

\* Every step keeps the types.
LEMMA TypeOKStep == TypeOK /\ [Next]_vars => TypeOK'
<1> SUFFICES ASSUME TypeOK, [Next]_vars PROVE TypeOK'
  OBVIOUS
<1> USE ParametersAssumption DEF rowVars, requestVars
<1>1. ASSUME NEW new \in Rows, Change(new) PROVE TypeOK'
  <2>1. was' \in [0..MaxNow -> SUBSET Rows]
    BY <1>1 DEF Change, TypeOK
  <2>2. row' \in Rows
    BY <1>1 DEF Change
  <2> QED BY <1>1, <2>1, <2>2 DEF Change, TypeOK
<1>2. CASE Tick
  <2>1. was' \in [0..MaxNow -> SUBSET Rows]
    BY <1>2 DEF Tick, TypeOK
  <2>2. cache' \in CacheValues
    BY <1>2 DEF Tick, TypeOK, CacheValues
  <2>3. entries' \subseteq [score : Nat, member : Request] /\ expires' \in Nat
    BY <1>2 DEF Tick, TypeOK
  <2> QED BY <1>2, <2>1, <2>2, <2>3 DEF Tick, TypeOK
<1>3. CASE EvictKey
  BY <1>3 DEF EvictKey, TypeOK, CacheValues
<1>4. CASE EvictWindow
  BY <1>4 DEF EvictWindow, TypeOK
<1>5. ASSUME NEW q \in Request, LookUp(q) PROVE TypeOK'
  <2>1. phase' \in [Request -> Phases]
    BY <1>5, GotoType DEF LookUp, Phases
  <2>2. cache.limit \in Limits \cup {0}
    BY DEF TypeOK, CacheValues, Nothing
  <2>3. limit' \in [Request -> Limits \cup {0}]
    BY <1>5, <2>2 DEF LookUp, TypeOK
  <2> QED BY <1>5, <2>1, <2>3 DEF LookUp, TypeOK
<1>6. ASSUME NEW q \in Request, ReadRow(q) PROVE TypeOK'
  <2>1. phase' \in [Request -> Phases]
    <3>1. (IF row.active THEN "filling" ELSE "refusing") \in Phases
      BY DEF Phases
    <3> QED BY <1>6, <3>1, GotoType DEF ReadRow
  <2>2. row.limit \in Limits \cup {0}
    BY DEF TypeOK, Rows, Absent
  <2>3. limit' \in [Request -> Limits \cup {0}]
    BY <1>6, <2>2 DEF ReadRow, TypeOK
  <2>4. since' \in [Request -> Nat]
    BY <1>6 DEF ReadRow, TypeOK
  <2> QED BY <1>6, <2>1, <2>3, <2>4 DEF ReadRow, TypeOK
<1>7. ASSUME NEW q \in Request, Fill(q) PROVE TypeOK'
  <2>1. phase' \in [Request -> Phases]
    BY <1>7, GotoType DEF Fill, Phases
  <2>2. cache' \in CacheValues
    BY <1>7, VerdictType DEF Fill, TypeOK
  <2> QED BY <1>7, <2>1, <2>2 DEF Fill, TypeOK
<1>8. ASSUME NEW q \in Request, Stamp(q) PROVE TypeOK'
  <2>1. phase' \in [Request -> Phases]
    BY <1>8, GotoType DEF Stamp, Phases
  <2>2. since' \in [Request -> Nat]
    BY <1>8 DEF Stamp, TypeOK
  <2> QED BY <1>8, <2>1, <2>2 DEF Stamp, TypeOK
<1>9. ASSUME NEW q \in Request, Check(q) PROVE TypeOK'
  <2>1. phase' \in [Request -> Phases]
    <3>1. (IF Full(q) THEN "limited" ELSE "allowed") \in Phases
      BY DEF Phases
    <3> QED BY <1>9, <3>1, GotoType DEF Check
  <2> QED BY <1>9, <2>1, ScriptType DEF Check, TypeOK
<1>10. ASSUME NEW q \in Request, CheckFails(q) PROVE TypeOK'
  <2>1. phase' \in [Request -> Phases]
    BY <1>10, GotoType DEF CheckFails, Phases
  <2> QED BY <1>10, <2>1, ScriptType DEF CheckFails, TypeOK
<1>11. ASSUME NEW q \in Request, Break(q) PROVE TypeOK'
  <2>1. phase' \in [Request -> Phases]
    BY <1>11, GotoType DEF Break, Phases
  <2> QED BY <1>11, <2>1 DEF Break, TypeOK
<1>12. CASE UNCHANGED vars
  BY <1>12 DEF vars, TypeOK
<1> QED
  BY <1>1, <1>2, <1>3, <1>4, <1>5, <1>6, <1>7, <1>8, <1>9, <1>10, <1>11, <1>12, Steps

-----------------------------------------------------------------------------
(* How old a verdict is *)

\* What ReadsFit says of the times.
LEMMA ReadTimes ==
  ASSUME TypeOK, ReadsFit, NEW q \in Request,
         phase[q] \in {"filling", "refusing", "checking"}
  PROVE  since[q] \in 0..now /\ now <= since[q] + MaxDelay
<1>1. since[q] <= now /\ now <= since[q] + MaxDelay
  BY Zenon DEF ReadsFit
<1>2. since[q] \in Nat /\ now \in Nat
  BY DEF TypeOK
<1> QED BY <1>1, <1>2

\* What the row has been stays recorded.
LEMMA HistoryGrows ==
  ASSUME TypeOK, HistoryFits, [Next]_vars
  PROVE  /\ HistoryFits'
         /\ now <= now'
         /\ \A t \in 0..now : was[t] \subseteq was'[t]
<1>1. ASSUME NEW new \in Rows, Change(new)
      PROVE  HistoryFits' /\ now' = now /\ \A t \in 0..now : was[t] \subseteq was'[t]
  BY <1>1 DEF Change, HistoryFits, TypeOK
<1>2. ASSUME Tick
      PROVE  HistoryFits' /\ now' = now + 1 /\ \A t \in 0..now : was[t] \subseteq was'[t]
  BY <1>2, ParametersAssumption DEF Tick, HistoryFits, TypeOK
<1>3. ASSUME UNCHANGED <<rowVars, now>>
      PROVE  HistoryFits' /\ now' = now /\ \A t \in 0..now : was[t] \subseteq was'[t]
  BY <1>3 DEF rowVars, HistoryFits
<1>4. \/ \E new \in Rows : Change(new)
      \/ Tick
      \/ UNCHANGED <<rowVars, now>>
  BY Steps DEF EvictKey, EvictWindow, LookUp, ReadRow, Fill, Stamp, Check, CheckFails, Break, vars
<1>5. now \in Nat
  BY ParametersAssumption DEF TypeOK
<1> QED BY <1>1, <1>2, <1>3, <1>4, <1>5

\* Reading the row again, waiting for Redis, and time passing keep ReadsFit.
LEMMA ReadsFitStep ==
  ASSUME TypeOK, TypeOK', HistoryFits, ReadsFit, [Next]_vars
  PROVE  ReadsFit'
<1> USE ParametersAssumption DEF rowVars, requestVars
<1>1. ASSUME NEW new \in Rows, Change(new) PROVE ReadsFit'
  <2>1. \A t \in 0..now : was[t] \subseteq was'[t]
    BY HistoryGrows
  <2> QED BY <1>1, <2>1 DEF Change, ReadsFit, TypeOK
<1>2. CASE Tick
  <2>1. \A t \in 0..now : was[t] \subseteq was'[t]
    BY HistoryGrows
  <2>2. phase' = phase /\ limit' = limit /\ since' = since /\ now' = now + 1 /\ now \in Nat
    BY <1>2 DEF Tick, TypeOK
  <2>3. ASSUME NEW q \in Request, phase[q] \in {"filling", "refusing", "checking"}
        PROVE  /\ since[q] \in 0..now /\ now + 1 <= since[q] + MaxDelay
               /\ was[since[q]] \subseteq was'[since[q]]
    <3>1. since[q] \in 0..now
      BY <2>3, ReadTimes
    <3>2. now < since[q] + MaxDelay
      BY <1>2, <2>3 DEF Tick
    <3> QED BY <2>1, <2>2, <3>1, <3>2
  <2> QED BY <2>2, <2>3 DEF ReadsFit
<1>3. ASSUME NEW q \in Request, ReadRow(q) PROVE ReadsFit'
  <2>1. row.active => row = [active |-> TRUE, limit |-> row.limit]
    BY DEF TypeOK, Rows, Absent
  <2>2. \A r \in Request \ {q} :
          phase'[r] = phase[r] /\ limit'[r] = limit[r] /\ since'[r] = since[r]
    BY <1>3 DEF ReadRow, Goto, TypeOK
  <2>3. /\ since'[q] = now
        /\ phase'[q] = IF row.active THEN "filling" ELSE "refusing"
        /\ limit'[q] = IF row.active THEN row.limit ELSE 0
        /\ now' = now /\ was' = was
    BY <1>3 DEF ReadRow, Goto, TypeOK
  <2>4. row \in was[now]
    BY DEF HistoryFits
  <2>5. now \in Nat /\ now <= now + MaxDelay
    BY DEF TypeOK
  <2>6. CASE row.active
    <3>1. phase'[q] = "filling" /\ [active |-> TRUE, limit |-> limit'[q]] \in was'[since'[q]]
      BY <2>1, <2>3, <2>4, <2>6
    <3>2. ASSUME NEW r \in Request \ {q}
          PROVE  /\ phase'[r] \in {"filling", "refusing", "checking"} =>
                      since'[r] <= now' /\ now' <= since'[r] + MaxDelay
                 /\ phase'[r] = "filling" =>
                      [active |-> TRUE, limit |-> limit'[r]] \in was'[since'[r]]
                 /\ phase'[r] = "refusing" => \E x \in was'[since'[r]] : ~x.active
      BY <2>2, <2>3, Zenon DEF ReadsFit
    <3>3. since'[q] <= now' /\ now' <= since'[q] + MaxDelay /\ phase'[q] # "refusing"
      BY <2>3, <2>5, <3>1
    <3> QED BY <3>1, <3>2, <3>3, Zenon DEF ReadsFit
  <2>7. CASE ~row.active
    BY <2>2, <2>3, <2>4, <2>5, <2>7 DEF ReadsFit
  <2> QED BY <2>6, <2>7
<1>4. ASSUME NEW q \in Request, Stamp(q) PROVE ReadsFit'
  BY <1>4 DEF Stamp, Goto, ReadsFit, TypeOK
<1>5. ASSUME NEW q \in Request, NEW from, NEW to \in Phases \ {"filling", "refusing", "checking"},
             Goto(q, from, to),
             UNCHANGED <<was, now, since>>, \A r \in Request \ {q} : limit'[r] = limit[r]
      PROVE  ReadsFit'
  BY <1>5 DEF Goto, ReadsFit, TypeOK
<1>6. ASSUME NEW q \in Request, LookUp(q) \/ Fill(q) \/ Check(q) \/ CheckFails(q) \/ Break(q)
      PROVE  ReadsFit'
  <2>1. UNCHANGED <<was, now, since>> /\ \A r \in Request \ {q} : limit'[r] = limit[r]
    BY <1>6 DEF LookUp, Fill, Check, CheckFails, Break, TypeOK
  <2>2. \E from : \E to \in Phases \ {"filling", "refusing", "checking"} : Goto(q, from, to)
    BY <1>6 DEF LookUp, Fill, Check, CheckFails, Break, Phases
  <2> QED BY <2>1, <2>2, <1>5
<1>7. CASE UNCHANGED <<rowVars, now, requestVars>>
  BY <1>7 DEF ReadsFit
<1> QED
  BY <1>1, <1>2, <1>3, <1>4, <1>6, <1>7, Steps DEF EvictKey, EvictWindow, vars

\* The cache holds what a request has read, or what it has held, until it expires.
LEMMA CacheFitsStep ==
  ASSUME TypeOK, TypeOK', HistoryFits, ReadsFit, CacheFits, [Next]_vars
  PROVE  CacheFits'
<1> USE ParametersAssumption DEF rowVars, requestVars
<1>1. /\ now \in Nat /\ now' \in Nat /\ now <= now'
      /\ \A t \in 0..now : was[t] \subseteq was'[t]
  BY HistoryGrows DEF TypeOK
<1>2. ASSUME cache' = cache, now' = now PROVE CacheFits'
  BY <1>1, <1>2 DEF CacheFits
<1>3. ASSUME cache' = Nothing PROVE CacheFits'
  BY <1>3 DEF CacheFits, Nothing
<1>4. CASE Tick
  <2>1. CASE cache.until <= now + 1
    BY <1>3, <1>4, <2>1 DEF Tick
  <2>2. CASE ~(cache.until <= now + 1)
    <3>1. cache' = cache /\ now' = now + 1
      BY <1>4, <2>2 DEF Tick
    <3>2. cache.until \in Nat
      BY DEF TypeOK, CacheValues, Nothing
    <3>3. 0..now \subseteq 0..now'
      BY <1>1
    <3>4. cache.says = "valid" =>
            \E t \in 0..now' : /\ cache.until <= t + ValidTTL + MaxDelay
                               /\ [active |-> TRUE, limit |-> cache.limit] \in was'[t]
      BY <1>1, <3>3 DEF CacheFits
    <3>5. cache.says = "invalid" =>
            \E t \in 0..now' : /\ cache.until <= t + InvalidTTL + MaxDelay
                               /\ \E r \in was'[t] : ~r.active
      BY <1>1, <3>3 DEF CacheFits
    <3>6. now' < cache.until
      BY <1>1, <2>2, <3>1, <3>2
    <3> QED BY <3>1, <3>4, <3>5, <3>6 DEF CacheFits
  <2> QED BY <2>1, <2>2
<1>5. ASSUME NEW q \in Request, Fill(q) PROVE CacheFits'
  <2>1. CASE cache' = cache
    BY <1>2, <1>5, <2>1 DEF Fill
  <2>2. CASE cache' = Verdict(q)
    <3>1. now' = now /\ was' = was
      BY <1>5 DEF Fill
    <3>2. /\ phase[q] \in {"filling", "refusing"}
          /\ since[q] \in 0..now /\ now <= since[q] + MaxDelay
      <4>1. phase[q] \in {"filling", "refusing"}
        BY <1>5 DEF Fill, Goto
      <4> QED BY <4>1, ReadTimes
    <3>3. CASE phase[q] = "filling"
      <4>1. [active |-> TRUE, limit |-> limit[q]] \in was[since[q]]
        BY <3>3 DEF ReadsFit
      <4>2. cache' = [says |-> "valid", limit |-> limit[q], until |-> now + ValidTTL]
        BY <2>2, <3>3 DEF Verdict
      <4> QED BY <3>1, <3>2, <4>1, <4>2, <1>1 DEF CacheFits
    <3>4. CASE phase[q] = "refusing"
      <4>1. \E r \in was[since[q]] : ~r.active
        BY <3>4 DEF ReadsFit
      <4>2. cache' = [says |-> "invalid", limit |-> 0, until |-> now + InvalidTTL]
        BY <2>2, <3>4 DEF Verdict
      <4> QED BY <3>1, <3>2, <4>1, <4>2, <1>1 DEF CacheFits
    <3> QED BY <3>2, <3>3, <3>4
  <2> QED BY <1>5, <2>1, <2>2 DEF Fill
<1>6. ASSUME NEW new \in Rows, Change(new) PROVE CacheFits'
  <2>1. cache' = cache /\ now' = now
    BY <1>6 DEF Change
  <2> QED BY <1>2, <2>1
<1>7. \/ cache' = cache /\ now' = now
      \/ cache' = Nothing
      \/ Tick
      \/ \E q \in Request : Fill(q)
  BY Steps DEF Change, EvictKey, EvictWindow, LookUp, ReadRow, Stamp, Check, CheckFails, Break, vars
<1> QED BY <1>2, <1>3, <1>4, <1>5, <1>7

-----------------------------------------------------------------------------
(* The sliding window *)

\* A step that touches neither the sorted set nor the requests in it.
LEMMA WindowUntouched ==
  ASSUME TypeOK, WindowFits, UNCHANGED <<entries, expires, granted, now>>,
         \A q \in Request : phase[q] = "allowed" => phase'[q] = "allowed"
  PROVE  WindowFits'
<1>1. \A g \in granted : g.by \in Request
  BY DEF TypeOK
<1> QED BY <1>1 DEF WindowFits, Recent

\* The script records the request at hand, if it has room, and drops what has
\* left the window.
LEMMA WindowScript ==
  ASSUME TypeOK, ReadsFit, WindowFits, NEW q \in Request, phase[q] = "checking",
         Script(q), now' = now, ~Full(q) => phase'[q] = "allowed",
         \A r \in Request \ {q} : phase'[r] = phase[r]
  PROVE  WindowFits'
<1> USE ParametersAssumption
<1>1. /\ since[q] \in 0..now /\ now <= since[q] + MaxDelay
      /\ now \in Nat /\ since[q] \in Nat /\ expires \in Nat
  BY ReadTimes DEF TypeOK
<1>2. \A g \in granted : g \in [by : Request, at : Nat] /\ g.by # q
  BY DEF TypeOK, WindowFits
<1>3. \A e \in entries : e \in [score : Nat, member : Request] /\ e.member # q
  BY <1>2 DEF TypeOK, WindowFits
<1>4. Remaining(q) \subseteq entries /\ IsFiniteSet(Remaining(q))
  <2>1. Remaining(q) \subseteq entries
    BY DEF Remaining
  <2> QED BY <2>1, FS_Subset DEF WindowFits
<1>5. \A g \in Recent(granted, Window - MaxDelay) : \E e \in Remaining(q) :
        g.by = e.member /\ e.score <= g.at /\ g.at <= e.score + MaxDelay
  <2> SUFFICES ASSUME NEW g \in Recent(granted, Window - MaxDelay)
               PROVE  \E e \in Remaining(q) :
                        g.by = e.member /\ e.score <= g.at /\ g.at <= e.score + MaxDelay
    OBVIOUS
  <2>1. PICK e \in entries : g.by = e.member /\ e.score <= g.at /\ g.at <= e.score + MaxDelay
    BY DEF WindowFits
  <2>2. now < g.at + (Window - MaxDelay) /\ g.at \in Nat /\ e.score \in Nat
    BY <1>2, <1>3 DEF Recent
  <2>3. e.score + Window > since[q]
    BY <1>1, <2>1, <2>2
  <2> QED BY <2>1, <2>3 DEF Remaining
<1>6. CASE Full(q)
  <2>1. entries' = Remaining(q) /\ expires' = expires /\ granted' = granted
    BY <1>6 DEF Script
  <2>2. \A g \in granted : phase'[g.by] = "allowed"
    BY <1>2 DEF WindowFits
  <2> QED BY <1>4, <1>5, <2>1, <2>2 DEF WindowFits, Recent
<1>7. CASE ~Full(q)
  <2> DEFINE mine == [by |-> q, at |-> now]
             note == [score |-> since[q], member |-> q]
  <2>1. /\ entries' = Remaining(q) \cup {note}
        /\ expires' = now + Window
        /\ granted' = granted \cup {mine}
        /\ phase'[q] = "allowed"
    BY <1>7 DEF Script, Recorded
  <2>2. IsFiniteSet(granted') /\ IsFiniteSet(entries')
    BY <1>4, <2>1, FS_AddElement DEF WindowFits
  <2>3. \A g \in granted' : phase'[g.by] = "allowed" /\ g.at <= now'
    BY <1>1, <1>2, <2>1 DEF WindowFits
  <2>4. \A g, h \in granted' : g.by = h.by => g = h
    BY <1>2, <2>1 DEF WindowFits
  <2>5. \A e, f \in entries' : e.member = f.member => e = f
    BY <1>3, <1>4, <2>1 DEF WindowFits
  <2>6. \A e \in entries' : \E g \in granted' :
          g.by = e.member /\ e.score <= g.at /\ g.at <= e.score + MaxDelay
    <3>1. mine.by = note.member /\ note.score <= mine.at /\ mine.at <= note.score + MaxDelay
      BY <1>1
    <3> QED BY <1>4, <2>1, <3>1 DEF WindowFits
  <2>7. \A g \in Recent(granted, Window - MaxDelay)' : \E e \in entries' :
          g.by = e.member /\ e.score <= g.at /\ g.at <= e.score + MaxDelay
    <3>1. mine.by = note.member /\ note.score <= mine.at /\ mine.at <= note.score + MaxDelay
      BY <1>1
    <3>2. Recent(granted, Window - MaxDelay)'
            \subseteq Recent(granted, Window - MaxDelay) \cup {mine}
      BY <2>1, <1>2, <1>1 DEF Recent
    <3> QED BY <1>5, <2>1, <3>1, <3>2
  <2>8. \A g \in granted' : now' < g.at + Window => g.at + Window <= expires'
    BY <1>1, <1>2, <2>1, <2>3
  <2> HIDE DEF mine, note
  <2> QED BY <2>2, <2>3, <2>4, <2>5, <2>6, <2>7, <2>8 DEF WindowFits
<1> QED BY <1>6, <1>7

\* Every step keeps the sorted set and the granted requests together.
LEMMA WindowFitsStep ==
  ASSUME TypeOK, ReadsFit, WindowFits, [Next]_vars
  PROVE  WindowFits'
<1> USE ParametersAssumption DEF rowVars, requestVars
<1>1. ASSUME NEW new \in Rows, Change(new) PROVE WindowFits'
  BY <1>1, WindowUntouched DEF Change
<1>2. CASE Tick
  <2>1. /\ granted' = granted /\ phase' = phase /\ now' = now + 1
        /\ now \in Nat /\ expires \in Nat
        /\ \A g \in granted : g \in [by : Request, at : Nat]
    BY <1>2 DEF Tick, TypeOK
  <2>2. CASE expires <= now + 1
    <3>1. entries' = {} /\ expires' = 0
      BY <1>2, <2>2 DEF Tick
    <3>2. \A g \in granted : ~(now + 1 < g.at + Window)
      BY <2>1, <2>2 DEF WindowFits
    <3>3. Recent(granted, Window - MaxDelay)' = {}
      BY <2>1, <3>2 DEF Recent
    <3> QED BY <2>1, <3>1, <3>2, <3>3, FS_EmptySet DEF WindowFits
  <2>3. CASE ~(expires <= now + 1)
    <3>1. entries' = entries /\ expires' = expires
      BY <1>2, <2>3 DEF Tick
    <3>2. Recent(granted, Window - MaxDelay)' \subseteq Recent(granted, Window - MaxDelay)
      BY <2>1 DEF Recent
    <3> QED BY <2>1, <3>1, <3>2 DEF WindowFits
  <2> QED BY <2>2, <2>3
<1>3. CASE EvictKey
  BY <1>3, WindowUntouched DEF EvictKey
<1>4. CASE EvictWindow
  BY <1>4, FS_EmptySet DEF EvictWindow, WindowFits, Recent
<1>5. ASSUME NEW q \in Request, LookUp(q) \/ ReadRow(q) \/ Fill(q) \/ Stamp(q) \/ Break(q)
      PROVE  WindowFits'
  <2>1. UNCHANGED <<entries, expires, granted, now>>
    BY <1>5 DEF LookUp, ReadRow, Fill, Stamp, Break
  <2>2. \A r \in Request : phase[r] = "allowed" => phase'[r] = "allowed"
    BY <1>5 DEF LookUp, ReadRow, Fill, Stamp, Break, Goto, TypeOK
  <2> QED BY <2>1, <2>2, WindowUntouched
<1>6. ASSUME NEW q \in Request, Check(q) PROVE WindowFits'
  <2>1. /\ phase[q] = "checking" /\ now' = now
        /\ ~Full(q) => phase'[q] = "allowed"
        /\ \A r \in Request \ {q} : phase'[r] = phase[r]
    BY <1>6 DEF Check, Goto, TypeOK
  <2> QED BY <1>6, <2>1, WindowScript DEF Check
<1>7. ASSUME NEW q \in Request, CheckFails(q) PROVE WindowFits'
  <2>1. /\ phase[q] = "checking" /\ now' = now
        /\ phase'[q] = "allowed"
        /\ \A r \in Request \ {q} : phase'[r] = phase[r]
    BY <1>7 DEF CheckFails, Goto, TypeOK
  <2>2. CASE Script(q)
    BY <2>1, <2>2, WindowScript
  <2>3. CASE UNCHANGED <<entries, expires, granted>>
    <3>1. \A r \in Request : phase[r] = "allowed" => phase'[r] = "allowed"
      BY <2>1
    <3> QED BY <2>1, <2>3, <3>1, WindowUntouched
  <2> QED BY <1>7, <2>2, <2>3 DEF CheckFails
<1>8. CASE UNCHANGED vars
  BY <1>8, WindowUntouched DEF vars
<1> QED BY <1>1, <1>2, <1>3, <1>4, <1>5, <1>6, <1>7, <1>8, Steps

-----------------------------------------------------------------------------
(* The invariant and the theorems *)

\* The inductive invariant holds initially.
LEMMA IInvInit == Init => IInv
<1> SUFFICES ASSUME Init PROVE IInv
  OBVIOUS
<1>1. HistoryFits
  BY ParametersAssumption DEF Init, HistoryFits
<1>2. ReadsFit
  BY DEF Init, ReadsFit
<1>3. CacheFits
  BY DEF Init, CacheFits, Nothing
<1>4. WindowFits
  BY FS_EmptySet DEF Init, WindowFits, Recent
<1> QED BY <1>1, <1>2, <1>3, <1>4, TypeOKInit DEF IInv

\* Every step keeps it.
LEMMA IInvStep == IInv /\ [Next]_vars => IInv'
BY TypeOKStep, HistoryGrows, ReadsFitStep, CacheFitsStep, WindowFitsStep DEF IInv

\* Requests, the cached verdict and the sorted set stay of their types and
\* consistent with what the key and the granted requests have been.
THEOREM IInvHolds == Spec => []IInv
BY IInvInit, IInvStep, PTL DEF Spec

\* Only its own steps take a request from one phase to another.
LEMMA OwnStep ==
  ASSUME TypeOK, [Next]_vars, NEW q \in Request, phase'[q] # phase[q]
  PROVE  \/ LookUp(q) \/ ReadRow(q) \/ Fill(q) \/ Stamp(q)
         \/ Check(q) \/ CheckFails(q) \/ Break(q)
<1>1. ASSUME NEW r \in Request, r # q,
             \/ LookUp(r) \/ ReadRow(r) \/ Fill(r) \/ Stamp(r)
             \/ Check(r) \/ CheckFails(r) \/ Break(r)
      PROVE  FALSE
  BY <1>1 DEF LookUp, ReadRow, Fill, Stamp, Check, CheckFails, Break, Goto, TypeOK
<1>2. ~ \/ \E new \in Rows : Change(new)
        \/ Tick \/ EvictKey \/ EvictWindow \/ UNCHANGED vars
  BY DEF Change, Tick, EvictKey, EvictWindow, vars, requestVars
<1> QED BY <1>1, <1>2, Steps

\* A request gets past verify with the limit of the cache or of the row.
LEMMA AcceptedStep ==
  ASSUME IInv, [Next]_vars, NEW q \in Request,
         phase[q] # "verified", phase'[q] = "verified"
  PROVE  RecentlyIn({[active |-> TRUE, limit |-> limit'[q]]}, ValidTTL + MaxDelay)
<1> USE ParametersAssumption
<1>1. TypeOK /\ ReadsFit /\ CacheFits /\ now \in Nat
  BY DEF IInv, TypeOK
<1>2. CASE LookUp(q)
  <2>1. cache.says = "valid" /\ limit'[q] = cache.limit
    BY <1>1, <1>2 DEF LookUp, Goto, TypeOK
  <2>2. now < cache.until /\ cache.until \in Nat
    BY <1>1, <2>1 DEF CacheFits, TypeOK, CacheValues, Nothing
  <2>3. PICK t \in 0..now : /\ cache.until <= t + ValidTTL + MaxDelay
                            /\ [active |-> TRUE, limit |-> cache.limit] \in was[t]
    BY <1>1, <2>1 DEF CacheFits
  <2>4. now < t + (ValidTTL + MaxDelay)
    BY <1>1, <2>2, <2>3
  <2>5. was[t] \cap {[active |-> TRUE, limit |-> limit'[q]]} # {}
    BY <2>1, <2>3
  <2> QED BY <2>4, <2>5 DEF RecentlyIn
<1>3. CASE Fill(q)
  <2>1. phase[q] = "filling" /\ limit'[q] = limit[q]
    BY <1>1, <1>3 DEF Fill, Goto, TypeOK
  <2>2. since[q] \in 0..now /\ now <= since[q] + MaxDelay
    BY <1>1, <2>1, ReadTimes
  <2>3. [active |-> TRUE, limit |-> limit'[q]] \in was[since[q]]
    BY <1>1, <2>1 DEF ReadsFit
  <2>4. now < since[q] + (ValidTTL + MaxDelay)
    BY <1>1, <2>2
  <2>5. was[since[q]] \cap {[active |-> TRUE, limit |-> limit'[q]]} # {}
    BY <2>3
  <2> QED BY <2>2, <2>4, <2>5 DEF RecentlyIn
<1>4. LookUp(q) \/ Fill(q)
  <2>1. ~(ReadRow(q) \/ Stamp(q) \/ Check(q) \/ CheckFails(q) \/ Break(q))
    BY <1>1 DEF ReadRow, Stamp, Check, CheckFails, Break, Goto, TypeOK
  <2> QED BY <1>1, <2>1, OwnStep
<1> QED BY <1>2, <1>3, <1>4

\* A request is refused for what the cache says or the row was.
LEMMA RejectedStep ==
  ASSUME IInv, [Next]_vars, NEW q \in Request,
         phase[q] # "rejected", phase'[q] = "rejected"
  PROVE  RecentlyIn({r \in Rows : ~r.active}, InvalidTTL + MaxDelay)
<1> USE ParametersAssumption
<1>1. /\ TypeOK /\ ReadsFit /\ CacheFits /\ now \in Nat
      /\ \A t \in 0..now : was[t] \subseteq Rows
  BY DEF IInv, TypeOK
<1>2. CASE LookUp(q)
  <2>1. cache.says = "invalid"
    BY <1>1, <1>2 DEF LookUp, Goto, TypeOK
  <2>2. now < cache.until /\ cache.until \in Nat
    BY <1>1, <2>1 DEF CacheFits, TypeOK, CacheValues, Nothing
  <2>3. PICK t \in 0..now : /\ cache.until <= t + InvalidTTL + MaxDelay
                            /\ \E r \in was[t] : ~r.active
    BY <1>1, <2>1 DEF CacheFits
  <2>4. now < t + (InvalidTTL + MaxDelay)
    BY <1>1, <2>2, <2>3
  <2>5. was[t] \cap {r \in Rows : ~r.active} # {}
    BY <1>1, <2>3
  <2> QED BY <2>4, <2>5 DEF RecentlyIn
<1>3. CASE Fill(q)
  <2>1. phase[q] = "refusing"
    BY <1>1, <1>3 DEF Fill, Goto, TypeOK
  <2>2. since[q] \in 0..now /\ now <= since[q] + MaxDelay
    BY <1>1, <2>1, ReadTimes
  <2>3. \E r \in was[since[q]] : ~r.active
    BY <1>1, <2>1 DEF ReadsFit
  <2>4. now < since[q] + (InvalidTTL + MaxDelay)
    BY <1>1, <2>2
  <2>5. was[since[q]] \cap {r \in Rows : ~r.active} # {}
    BY <1>1, <2>2, <2>3
  <2> QED BY <2>2, <2>4, <2>5 DEF RecentlyIn
<1>4. LookUp(q) \/ Fill(q)
  <2>1. ~(ReadRow(q) \/ Stamp(q) \/ Check(q) \/ CheckFails(q) \/ Break(q))
    BY <1>1 DEF ReadRow, Stamp, Check, CheckFails, Break, Goto, TypeOK
  <2> QED BY <1>1, <2>1, OwnStep
<1> QED BY <1>2, <1>3, <1>4

\* A verdict that lets a request in is never older than one life of the cached
\* acceptance and one call of Redis, for any number of requests and changes.
THEOREM AcceptedWasActiveHolds == Spec => AcceptedWasActive
<1>1. IInv /\ [Next]_vars =>
        [\A q \in Request : phase[q] # "verified" /\ phase'[q] = "verified" =>
           RecentlyIn({[active |-> TRUE, limit |-> limit'[q]]}, ValidTTL + MaxDelay)]_vars
  BY AcceptedStep
<1> QED BY <1>1, IInvHolds, PTL DEF Spec, AcceptedWasActive

\* A refusal is never older than one life of the cached refusal and one call:
\* no failure or eviction of Redis refuses a key that stays active.
THEOREM RejectedWasInactiveHolds == Spec => RejectedWasInactive
<1>1. IInv /\ [Next]_vars =>
        [\A q \in Request : phase[q] # "rejected" /\ phase'[q] = "rejected" =>
           RecentlyIn({r \in Rows : ~r.active}, InvalidTTL + MaxDelay)]_vars
  BY RejectedStep
<1> QED BY <1>1, IInvHolds, PTL DEF Spec, RejectedWasInactive

-----------------------------------------------------------------------------
(* Counting *)

\* There are no more notes in the sorted set than requests they stand for.
LEMMA NotesBounded ==
  ASSUME NEW E, NEW G, IsFiniteSet(G),
         \A e \in E : \E g \in G : g.by = e.member,
         \A e, f \in E : e.member = f.member => e = f
  PROVE  IsFiniteSet(E) /\ Cardinality(E) <= Cardinality(G)
<1> DEFINE stands == [e \in E |-> CHOOSE g \in G : g.by = e.member]
<1>1. \A e \in E : stands[e] \in G /\ stands[e].by = e.member
  OBVIOUS
<1>2. stands \in [E -> G]
  BY <1>1
<1>3. \A e, f \in E : stands[e] = stands[f] => e = f
  BY <1>1
<1> HIDE DEF stands
<1>4. stands \in Injection(E, G)
  BY <1>2, <1>3, Fun_IsInj
<1> QED BY <1>4, FS_Injection

\* There are no more requests than notes that stand for them.
LEMMA RequestsBounded ==
  ASSUME NEW E, NEW G, IsFiniteSet(E),
         \A g \in G : \E e \in E : g.by = e.member,
         \A g, h \in G : g.by = h.by => g = h
  PROVE  IsFiniteSet(G) /\ Cardinality(G) <= Cardinality(E)
<1> DEFINE note == [g \in G |-> CHOOSE e \in E : g.by = e.member]
<1>1. \A g \in G : note[g] \in E /\ note[g].member = g.by
  OBVIOUS
<1>2. note \in [G -> E]
  BY <1>1
<1>3. \A g, h \in G : note[g] = note[h] => g = h
  BY <1>1
<1> HIDE DEF note
<1>4. note \in Injection(G, E)
  BY <1>2, <1>3, Fun_IsInj
<1> QED BY <1>4, FS_Injection

\* Limits are numbers.
LEMMA LimitType == ASSUME TypeOK, NEW q \in Request PROVE limit[q] \in Nat
<1>1. limit[q] \in Limits \cup {0}
  BY DEF TypeOK
<1>2. \A n \in Limits : n \in Nat
  BY ParametersAssumption
<1> QED BY <1>1, <1>2

\* Every request granted shortly before is among the remaining notes.
LEMMA GrantedRemain ==
  ASSUME IInv, NEW q \in Request, phase[q] = "checking"
  PROVE  /\ IsFiniteSet(Remaining(q))
         /\ Cardinality(Recent(granted, Window - MaxDelay)) <= Cardinality(Remaining(q))
<1>1. /\ TypeOK /\ ReadsFit /\ WindowFits
      /\ now \in Nat /\ Window \in Nat /\ MaxDelay \in Nat
      /\ \A g \in granted : g.at \in Nat
      /\ \A e \in entries : e.score \in Nat
  BY ParametersAssumption DEF IInv, TypeOK
<1>2. since[q] \in 0..now
  BY <1>1, ReadTimes
<1>3. IsFiniteSet(Remaining(q))
  <2>1. Remaining(q) \subseteq entries
    BY DEF Remaining
  <2> QED BY <1>1, <2>1, FS_Subset DEF WindowFits
<1>4. ASSUME NEW g \in Recent(granted, Window - MaxDelay)
      PROVE  \E e \in Remaining(q) : g.by = e.member
  <2>1. PICK e \in entries : g.by = e.member /\ g.at <= e.score + MaxDelay
    BY <1>1 DEF WindowFits
  <2>2. now < g.at + (Window - MaxDelay) /\ g.at \in Nat /\ e.score \in Nat
    BY <1>1 DEF Recent
  <2>3. e.score + Window > since[q]
    BY <1>1, <1>2, <2>1, <2>2
  <2> QED BY <2>1, <2>3 DEF Remaining
<1>5. \A g, h \in Recent(granted, Window - MaxDelay) : g.by = h.by => g = h
  BY <1>1 DEF WindowFits, Recent
<1> QED BY <1>3, <1>4, <1>5, RequestsBounded

\* Every remaining note stands for a request granted not long before.
LEMMA RemainingGranted ==
  ASSUME IInv, NEW q \in Request, phase[q] = "checking"
  PROVE  /\ Cardinality(Remaining(q)) <= Cardinality(Recent(granted, Window + MaxDelay))
         /\ Cardinality(Remaining(q)) \in Nat
         /\ Cardinality(Recent(granted, Window + MaxDelay)) \in Nat
<1>1. /\ TypeOK /\ ReadsFit /\ WindowFits
      /\ now \in Nat /\ Window \in Nat /\ MaxDelay \in Nat
      /\ \A g \in granted : g.at \in Nat
      /\ \A e \in entries : e.score \in Nat
  BY ParametersAssumption DEF IInv, TypeOK
<1>2. since[q] \in 0..now /\ now <= since[q] + MaxDelay
  BY <1>1, ReadTimes
<1>3. IsFiniteSet(Recent(granted, Window + MaxDelay))
  <2>1. Recent(granted, Window + MaxDelay) \subseteq granted
    BY DEF Recent
  <2> QED BY <1>1, <2>1, FS_Subset DEF WindowFits
<1>4. ASSUME NEW e \in Remaining(q)
      PROVE  \E g \in Recent(granted, Window + MaxDelay) : g.by = e.member
  <2>1. e \in entries /\ e.score + Window > since[q] /\ e.score \in Nat
    BY <1>1 DEF Remaining
  <2>2. PICK g \in granted : g.by = e.member /\ e.score <= g.at
    BY <1>1, <2>1 DEF WindowFits
  <2>3. now < g.at + (Window + MaxDelay)
    BY <1>1, <1>2, <2>1, <2>2
  <2> QED BY <2>2, <2>3 DEF Recent
<1>5. \A e, f \in Remaining(q) : e.member = f.member => e = f
  BY <1>1 DEF WindowFits, Remaining
<1>6. /\ IsFiniteSet(Remaining(q))
      /\ Cardinality(Remaining(q)) <= Cardinality(Recent(granted, Window + MaxDelay))
  BY <1>3, <1>4, <1>5, NotesBounded
<1> QED BY <1>3, <1>6, FS_CardinalityType

\* A request is granted only below its limit.
LEMMA GrantedStep ==
  ASSUME IInv, [Next]_vars, NEW g \in granted' \ granted
  PROVE  Cardinality(Recent(granted', Window - MaxDelay)) <= limit[g.by]
<1>1. TypeOK /\ WindowFits /\ now \in Nat
  BY ParametersAssumption DEF IInv, TypeOK
<1>2. PICK q \in Request : Check(q) \/ CheckFails(q)
  <2>1. granted' # granted
    OBVIOUS
  <2>2. ~ \/ \E new \in Rows : Change(new)
          \/ Tick \/ EvictKey \/ UNCHANGED vars
    BY <2>1 DEF Change, Tick, EvictKey, vars
  <2>3. ~EvictWindow
    BY DEF EvictWindow
  <2>4. \A r \in Request : ~(LookUp(r) \/ ReadRow(r) \/ Fill(r) \/ Stamp(r) \/ Break(r))
    BY <2>1 DEF LookUp, ReadRow, Fill, Stamp, Break
  <2> QED BY <1>1, <2>2, <2>3, <2>4, Steps
<1> DEFINE mine == [by |-> q, at |-> now]
<1>3. phase[q] = "checking" /\ Script(q)
  BY <1>2 DEF Check, CheckFails, Goto
<1>4. ~Full(q) /\ granted' = granted \cup {mine} /\ g = mine
  BY <1>3 DEF Script
<1>5. now' = now
  BY <1>2 DEF Check, CheckFails
<1> HIDE DEF mine
<1>6. /\ IsFiniteSet(Remaining(q))
      /\ Cardinality(Recent(granted, Window - MaxDelay)) <= Cardinality(Remaining(q))
  BY <1>3, GrantedRemain
<1>7. /\ IsFiniteSet(Recent(granted, Window - MaxDelay))
      /\ Recent(granted', Window - MaxDelay)
           \subseteq Recent(granted, Window - MaxDelay) \cup {mine}
  <2>1. Recent(granted, Window - MaxDelay) \subseteq granted
    BY DEF Recent
  <2> QED BY <1>1, <1>4, <2>1, FS_Subset DEF WindowFits, Recent
<1> DEFINE before == Recent(granted, Window - MaxDelay)
           after  == Recent(granted', Window - MaxDelay)
<1>8. /\ IsFiniteSet(before \cup {mine})
      /\ IsFiniteSet(after)
      /\ Cardinality(after) <= Cardinality(before \cup {mine})
  <2>1. IsFiniteSet(before \cup {mine})
    BY <1>7, FS_AddElement
  <2>2. after \in SUBSET (before \cup {mine})
    BY <1>7
  <2> QED BY <2>1, <2>2, FS_Subset
<1>9. /\ Cardinality(before) \in Nat
      /\ Cardinality(before \cup {mine}) <= Cardinality(before) + 1
  <2>1. Cardinality(before) \in Nat
    BY <1>7, FS_CardinalityType
  <2>2. Cardinality(before \cup {mine})
          = IF mine \in before THEN Cardinality(before) ELSE Cardinality(before) + 1
    BY <1>7, FS_AddElement
  <2> QED BY <2>1, <2>2
<1>10. /\ Cardinality(before \cup {mine}) \in Nat
       /\ Cardinality(after) \in Nat
       /\ Cardinality(Remaining(q)) \in Nat
  BY <1>6, <1>8, FS_CardinalityType
<1>11. limit[q] \in Nat
  BY <1>1, LimitType
<1>12. Cardinality(Remaining(q)) < limit[q]
  BY <1>4, <1>11, <1>10 DEF Full
<1>13. g.by = q
  BY <1>4 DEF mine
<1> QED BY <1>6, <1>8, <1>9, <1>11, <1>12, <1>13, <1>10

\* A request is turned away only at its limit.
LEMMA LimitedStep ==
  ASSUME IInv, [Next]_vars, NEW q \in Request,
         phase[q] # "limited", phase'[q] = "limited"
  PROVE  Cardinality(Recent(granted, Window + MaxDelay)) >= limit[q]
<1>1. TypeOK
  BY DEF IInv
<1>2. Check(q)
  <2>1. ~ \/ LookUp(q) \/ ReadRow(q) \/ Fill(q) \/ Stamp(q) \/ CheckFails(q) \/ Break(q)
    BY <1>1 DEF LookUp, ReadRow, Fill, Stamp, CheckFails, Break, Goto, TypeOK
  <2> QED BY <1>1, <2>1, OwnStep
<1>3. phase[q] = "checking" /\ Full(q)
  BY <1>1, <1>2 DEF Check, Goto, TypeOK
<1>4. limit[q] \in Nat
  BY <1>1, LimitType
<1> QED BY <1>3, <1>4, RemainingGranted DEF Full

\* The sliding window holds although time stamps arrive late and out of order.
THEOREM GrantedWithinLimitHolds == Spec => GrantedWithinLimit
<1>1. IInv /\ [Next]_vars =>
        [\A g \in granted' \ granted :
           Cardinality(Recent(granted', Window - MaxDelay)) <= limit[g.by]]_vars
  BY GrantedStep
<1> QED BY <1>1, IInvHolds, PTL DEF Spec, GrantedWithinLimit

\* 429 is answered only when the window is full.
THEOREM LimitedOnlyWhenFullHolds == Spec => LimitedOnlyWhenFull
<1>1. IInv /\ [Next]_vars =>
        [\A q \in Request : phase[q] # "limited" /\ phase'[q] = "limited" =>
           Cardinality(Recent(granted, Window + MaxDelay)) >= limit[q]]_vars
  BY LimitedStep
<1> QED BY <1>1, IInvHolds, PTL DEF Spec, LimitedOnlyWhenFull

=============================================================================
