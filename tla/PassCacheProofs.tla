------------------------- MODULE PassCacheProofs -------------------------
(***************************************************************************)
(* Whatever the number of requests and processes and the order of their    *)
(* steps, an answer was true within the life of a cached list: proved by   *)
(* the inductive invariant IInv of PassCache.                              *)
(***************************************************************************)
EXTENDS PassCache, TLAPS

USE DEF RedisStage, DbStage, HasRows

(***************************************************************************)
(* Truth in a history.                                                     *)
(***************************************************************************)

\* A history that grows keeps what was true true, and more ticks may pass.
LEMMA TrueInGrows ==
    ASSUME NEW H1, NEW H2, H1 \subseteq H2, NEW rows, NEW q, NEW a \in Int, NEW b \in Int,
           a <= b, \A h \in H1 : h.age \in Int, TrueIn(H1, rows, q, a)
    PROVE  TrueIn(H2, rows, q, b)
BY DEF TrueIn

\* So does a list of passes.
LEMMA ListedInGrows ==
    ASSUME NEW H1, NEW H2, H1 \subseteq H2, NEW rows, NEW q, NEW a \in Int, NEW b \in Int,
           a <= b, \A h \in H1 : h.age \in Int, ListedIn(H1, rows, q, a)
    PROVE  ListedIn(H2, rows, q, b)
<1>1. \A h \in H1 : h.age <= a => h \in H2 /\ h.age <= b
  OBVIOUS
<1>2. QED BY <1>1 DEF ListedIn

\* A longer history alone keeps it too.
LEMMA ListedInKept ==
    ASSUME NEW H1, NEW H2, H1 \subseteq H2, NEW rows, NEW q, NEW a, ListedIn(H1, rows, q, a)
    PROVE  ListedIn(H2, rows, q, a)
BY DEF ListedIn

\* What an answer claims survives a longer history.
LEMMA AnswerTrueGrows ==
    ASSUME NEW H1, NEW H2, H1 \subseteq H2, NEW rec, AnswerTrue(rec, H1)
    PROVE  AnswerTrue(rec, H2)
BY ListedInKept DEF TrueIn, AnswerTrue

\* So does what a request has read,
LEMMA ReadsTrueGrows ==
    ASSUME NEW H1, NEW H2, H1 \subseteq H2, NEW rec, ReadsTrue(rec, H1)
    PROVE  ReadsTrue(rec, H2)
BY ListedInKept DEF TrueIn, ReadsTrue

\* and what a cache entry holds.
LEMMA EntryTrueGrows ==
    ASSUME NEW H1, NEW H2, H1 \subseteq H2, NEW k, NEW e, EntryTrue(k, e, H1)
    PROVE  EntryTrue(k, e, H2)
BY ListedInKept DEF EntryTrue

\* A query selects rows of the table.
LEMMA RowsForType ==
    ASSUME NEW rows \in SUBSET Row, NEW q PROVE RowsFor(rows, q) \in SUBSET Row
BY DEF RowsFor

\* The rows read from the table now are true now.
LEMMA TrueNow ==
    ASSUME NEW H, NEW rows, [rows |-> rows, age |-> 0] \in H, NEW q, NEW a \in Nat
    PROVE  TrueIn(H, RowsFor(rows, q), q, a)
BY DEF TrueIn

\* So is the whole list when some of its rows were read before.
LEMMA RereadListed ==
    ASSUME NEW H, NEW rows \in SUBSET Row, [rows |-> rows, age |-> 0] \in H, NEW q, NEW a \in Nat,
           NEW before, TrueIn(H, before, q, a), NEW page \in SUBSET before
    PROVE  ListedIn(H, Reread(page, RowsFor(rows, q)), q, a)
<1> DEFINE now == RowsFor(rows, q)
           whole == Reread(page, now)
<1>1. PassesOf(whole) = PassesOf(now)
  BY DEF PassesOf, Reread
<1>2. now \subseteq rows
  BY DEF RowsFor
<1>3. PICK h \in H : h.age <= a /\ before = RowsFor(h.rows, q)
  BY DEF TrueIn
<1>4. page \subseteq h.rows
  BY <1>3 DEF RowsFor
<1>5. whole \subseteq h.rows \union rows
  BY <1>2, <1>4 DEF Reread
<1>6. 0 <= a
  OBVIOUS
<1>7. PICK present \in H : present.rows = rows /\ present.age <= a
  BY <1>6
<1> HIDE DEF whole, now
<1>8. PassesOf(whole) = PassesOf(RowsFor(present.rows, q))
  BY <1>1, <1>7 DEF now
<1>9. ASSUME NEW row \in whole PROVE \E x \in H : x.age <= a /\ row \in x.rows
  <2>1. CASE row \in h.rows
    BY <1>3, <2>1
  <2>2. CASE row \in rows
    BY <1>7, <2>2
  <2>3. QED BY <1>5, <2>1, <2>2
<1>10. ListedIn(H, whole, q, a)
  BY <1>7, <1>8, <1>9 DEF ListedIn
<1>11. QED BY <1>10 DEF whole, now

\* Rows read again are rows.
LEMMA RereadType ==
    ASSUME NEW rows \in SUBSET Row, NEW page \in SUBSET Row
    PROVE  Reread(page, rows) \in SUBSET Row
BY DEF Reread

(***************************************************************************)
(* The steps of a request that are not reads of the table.                 *)
(***************************************************************************)

\* What a request may be in, given a history.
RecOK(rec, H) == rec \in ReqType /\ ReadsTrue(rec, H) /\ AnswerTrue(rec, H)

\* A request that has not arrived has read nothing.
LEMMA IdleOK == ASSUME NEW H PROVE RecOK(Idle, H)
BY CacheAssumption DEF RecOK, Idle, ReqType, ReadsTrue, AnswerTrue

\* A request that goes on without Redis keeps what it has read.
LEMMA GiveUpOK ==
    ASSUME NEW H, NEW rec, RecOK(rec, H), rec.stage \in RedisStage
    PROVE  RecOK(GiveUp(rec), H)
<1> DEFINE new == GiveUp(rec)
<1> DEFINE to == IF rec.stage = "fill" THEN "done" ELSE "page"
<1>0. rec \in ReqType /\ to \in {"done", "page"} /\ 0 \in 0..MaxRetries
  BY CacheAssumption DEF RecOK
<1>1. /\ new \in ReqType /\ new.call = "none"
      /\ new.rows = rec.rows /\ new.query = rec.query /\ new.waited = rec.waited
      /\ new.stage = to
  <2>1. new = [rec EXCEPT !.stage = to, !.call = "none", !.attempt = 0, !.whole = {}]
    BY DEF GiveUp
  <2> HIDE DEF new, to
  <2>2. QED BY <1>0, <2>1 DEF ReqType
<1>2. rec.stage = "fill" => TrueIn(H, rec.rows, rec.query, rec.waited)
  BY DEF RecOK, ReadsTrue
<1>3. rec.query \in Query
  BY DEF RecOK, ReadsTrue
<1> HIDE DEF new
<1>4. ReadsTrue(new, H) /\ AnswerTrue(new, H)
  BY <1>1, <1>2, <1>3 DEF ReadsTrue, AnswerTrue
<1>5. QED BY <1>1, <1>4 DEF RecOK, new

\* An attempt of a Redis command changes nothing a request has read,
LEMMA AttemptOK ==
    ASSUME NEW H, NEW r, NEW rec, RecOK(rec, H), rec.stage \in RedisStage, NEW n \in 1..MaxRetries
    PROVE  RecOK(Attempt(r, rec, n), H)
<1>1. \E c \in {"sent", "backoff"} : Attempt(r, rec, n) = [rec EXCEPT !.call = c, !.attempt = n]
  BY DEF Attempt
<1> DEFINE new == Attempt(r, rec, n)
<1>2. /\ new \in ReqType
      /\ new.rows = rec.rows /\ new.query = rec.query /\ new.waited = rec.waited
      /\ new.stage = rec.stage /\ new.whole = rec.whole
  <2>1. PICK c \in {"sent", "backoff"} : new = [rec EXCEPT !.call = c, !.attempt = n]
    BY <1>1
  <2>2. rec \in ReqType /\ n \in 0..MaxRetries
    BY CacheAssumption DEF RecOK
  <2> HIDE DEF new
  <2>3. QED BY <2>1, <2>2 DEF ReqType
<1> HIDE DEF new
<1>3. ReadsTrue(new, H) /\ AnswerTrue(new, H)
  BY <1>2 DEF RecOK, ReadsTrue, AnswerTrue
<1>4. QED BY <1>2, <1>3 DEF RecOK, new

\* and neither does starting one.
LEMMA EnterOK ==
    ASSUME NEW H, NEW r, NEW rec \in ReqType, NEW op \in RedisStage,
           RecOK([rec EXCEPT !.stage = op], H)
    PROVE  RecOK(Enter(r, rec, op), H)
<1> DEFINE e == [rec EXCEPT !.stage = op]
<1>1. e.stage \in RedisStage BY DEF ReqType
<1>2. RecOK(GiveUp(e), H) BY <1>1, GiveUpOK
<1>3. 1 \in 1..MaxRetries BY CacheAssumption
<1>4. RecOK(Attempt(r, e, 1), H) BY <1>1, <1>3, AttemptOK
<1>5. QED BY <1>2, <1>4 DEF Enter

(***************************************************************************)
(* Parts of the invariant that whole groups of steps leave as it is.       *)
(***************************************************************************)
TableOK ==
    /\ db \subseteq Row
    /\ commits \in 0..MaxCommits
    /\ recent \subseteq [rows : SUBSET Row, age : 0..Horizon]
    /\ PresentIsRecent

StoreOK == store \in [Key -> EntryType] /\ \A k \in Key : EntryTrue(k, store[k], recent)

BreakerOK == failures \in [Process -> 0..MaxFailures] /\ openFor \in [Process -> 0..OpenDuration]

ReqOK == req \in [Request -> ReqType] /\ \A r \in Request : RecOK(req[r], recent)

\* The invariant in the parts its proof handles one by one.
LEMMA IInvParts == IInv <=> TableOK /\ StoreOK /\ up \in BOOLEAN /\ BreakerOK /\ ReqOK
BY DEF IInv, TypeOK, TableOK, StoreOK, BreakerOK, ReqOK, RecOK

\* Steps that leave the table alone keep what is said of it.
LEMMA TableKept ==
    ASSUME TableOK, UNCHANGED Table PROVE TableOK'
BY DEF TableOK, Table, PresentIsRecent

\* So it is with the circuit breakers,
LEMMA BreakerUnchanged ==
    ASSUME BreakerOK, UNCHANGED Breaker PROVE BreakerOK'
BY DEF BreakerOK, Breaker

\* which a success closes
LEMMA BreakerSucceeds ==
    ASSUME BreakerOK, NEW p \in Process, OnSuccess(p) PROVE BreakerOK'
BY CacheAssumption DEF BreakerOK, OnSuccess

\* and a failure counts or opens, within their types.
LEMMA BreakerFails ==
    ASSUME BreakerOK, NEW p \in Process, OnFailure(p) PROVE BreakerOK'
<1> DEFINE counted == IF failures[p] < MaxFailures THEN failures[p] + 1 ELSE MaxFailures
<1>1. counted \in 0..MaxFailures
  BY CacheAssumption DEF BreakerOK
<1>2. (IF counted >= MaxFailures THEN OpenDuration ELSE openFor[p]) \in 0..OpenDuration
  BY CacheAssumption DEF BreakerOK
<1>3. /\ failures' = [failures EXCEPT ![p] = counted]
      /\ openFor' = [openFor EXCEPT ![p] = IF counted >= MaxFailures THEN OpenDuration ELSE @]
  BY DEF OnFailure
<1> HIDE DEF counted
<1>4. QED BY <1>1, <1>2, <1>3 DEF BreakerOK

\* Steps that touch neither the cache nor the history keep the cache.
LEMMA StoreUnchanged ==
    ASSUME StoreOK, store' = store, recent' = recent PROVE StoreOK'
BY DEF StoreOK

\* An entry is replaced by one that was true.
LEMMA StoreReplaced ==
    ASSUME StoreOK, NEW k \in Key, NEW e \in EntryType, EntryTrue(k, e, recent),
           store' = [store EXCEPT ![k] = e], recent' = recent
    PROVE  StoreOK'
<1>1. store' \in [Key -> EntryType] BY DEF StoreOK
<1>2. ASSUME NEW l \in Key PROVE EntryTrue(l, store'[l], recent')
  BY <1>2 DEF StoreOK
<1>3. QED BY <1>1, <1>2 DEF StoreOK

\* An absent or unreadable entry claims nothing.
LEMMA NoListIsTrue ==
    ASSUME NEW k, NEW H
    PROVE  /\ Absent \in EntryType /\ EntryTrue(k, Absent, H)
           /\ Corrupt \in EntryType /\ EntryTrue(k, Corrupt, H)
BY CacheAssumption DEF Absent, Corrupt, EntryType, EntryTrue

\* A request that talks to Redis has a query with a cache key.
LEMMA KeyOfRequest ==
    ASSUME ReqOK, NEW r \in Request, req[r].stage \in RedisStage
    PROVE  /\ req[r].query \in Query /\ Cacheable(req[r].query)
           /\ PassKey(req[r].query) \in Key
BY DEF ReqOK, RecOK, ReadsTrue, Key

\* A fill, carried out now or after its request was lost.
LEMMA StoreFilled ==
    ASSUME TableOK, StoreOK, ReqOK, NEW r \in Request, req[r].stage = "fill",
           store' = Filled(r), recent' = recent
    PROVE  StoreOK'
<1> DEFINE k == PassKey(req[r].query)
           e == Listed(req[r].whole, Ttl)
<1>1. req[r].query \in Query /\ Cacheable(req[r].query) /\ k \in Key
  BY KeyOfRequest
<1>2. req[r] \in ReqType /\ ListedIn(recent, req[r].whole, req[r].query, req[r].waited)
  BY DEF ReqOK, RecOK, ReadsTrue
<1>3. e \in EntryType
  BY <1>2, CacheAssumption DEF Listed, EntryType, ReqType
<1>4. e.kind = "list" /\ e.rows = req[r].whole /\ e.left = Ttl
  BY DEF Listed
<1>5. /\ req[r].waited \in Int /\ CallTime \in Int /\ Ttl \in Int /\ Ttl > 0
      /\ req[r].waited <= Ttl + CallTime - Ttl
  BY <1>2, CacheAssumption DEF ReqType
<1>6. \A h \in recent : h.age \in Int
  BY DEF TableOK
<1>7. ListedIn(recent, req[r].whole, req[r].query, Ttl + CallTime - Ttl)
  BY <1>2, <1>5, <1>6, ListedInGrows
<1> HIDE DEF e
<1>8. EntryTrue(k, e, recent)
  BY <1>1, <1>4, <1>5, <1>7 DEF EntryTrue
<1>9. QED BY <1>1, <1>3, <1>8, StoreReplaced DEF Filled, e

\* The step of one request.
LEMMA ReqStep ==
    ASSUME ReqOK, NEW r \in Request, NEW rec, RecOK(rec, recent),
           req' = [req EXCEPT ![r] = rec], recent' = recent
    PROVE  ReqOK'
<1>1. req' \in [Request -> ReqType] BY DEF ReqOK, RecOK
<1>2. ASSUME NEW o \in Request PROVE RecOK(req'[o], recent')
  BY <1>2 DEF ReqOK
<1>3. QED BY <1>1, <1>2 DEF ReqOK

\* Steps that touch neither the requests nor the history keep the requests.
LEMMA ReqUnchanged ==
    ASSUME ReqOK, req' = req, recent' = recent PROVE ReqOK'
BY DEF ReqOK

(***************************************************************************)
(* Groups of steps.                                                        *)
(***************************************************************************)
All == TableOK /\ StoreOK /\ up \in BOOLEAN /\ BreakerOK /\ ReqOK

\* Writers of the table: the history grows.
LEMMA CommitKeeps ==
    ASSUME All, NEW rows \in SUBSET Row, Commit(rows) PROVE All'
<1>1. TableOK'
  <2>1. 0 \in 0..Horizon BY CacheAssumption DEF Horizon
  <2>2. QED BY <2>1, CacheAssumption DEF All, TableOK, Commit, PresentIsRecent
<1>2. recent \subseteq recent' BY DEF Commit
<1>3. StoreOK'
  BY <1>2, EntryTrueGrows DEF All, StoreOK, Commit
<1>4. ReqOK'
  BY <1>2, ReadsTrueGrows, AnswerTrueGrows DEF All, ReqOK, RecOK, Commit
<1>5. QED BY <1>1, <1>3, <1>4, BreakerUnchanged DEF All, Commit, Breaker

\* The pipeline writing passes makes the history longer.
LEMMA WritersKeep ==
    ASSUME All, InsertPasses \/ SchedulePass \/ CleanUp PROVE All'
<1>1. CASE InsertPasses
  <2>1. PICK new \in SUBSET Pass :
           Commit(db \union {[pass |-> p, scheduled |-> FALSE] :
                               p \in {n \in new : \A row \in db : row.pass # n}})
    BY <1>1 DEF InsertPasses
  <2> DEFINE added == {n \in new : \A row \in db : row.pass # n}
  <2>2. ASSUME NEW p \in added PROVE [pass |-> p, scheduled |-> FALSE] \in Row
    BY DEF Row
  <2>3. (db \union {[pass |-> p, scheduled |-> FALSE] : p \in added}) \in SUBSET Row
    <3> HIDE DEF added
    <3>1. QED BY <2>2 DEF All, TableOK
  <2>4. QED BY <2>1, <2>3, CommitKeeps
<1>2. CASE SchedulePass
  <2>1. PICK row \in db : Commit((db \ {row}) \union {[row EXCEPT !.scheduled = TRUE]})
    BY <1>2 DEF SchedulePass
  <2>2. ((db \ {row}) \union {[row EXCEPT !.scheduled = TRUE]}) \in SUBSET Row
    BY DEF All, TableOK, Row
  <2>3. QED BY <2>1, <2>2, CommitKeeps
<1>3. CASE CleanUp
  <2>1. PICK cutoff \in {p.rise : p \in Pass} :
           Commit({row \in db : row.pass.rise > cutoff})
    BY <1>3 DEF CleanUp
  <2>2. {row \in db : row.pass.rise > cutoff} \in SUBSET Row
    BY DEF All, TableOK
  <2>3. QED BY <2>1, <2>2, CommitKeeps
<1>4. QED BY <1>1, <1>2, <1>3

\* Redis and the processes.
LEMMA EnvironmentKeeps ==
    ASSUME All, \/ GoDown \/ ComeBack
                \/ \E k \in Key : LoseEntry(k) \/ DamageEntry(k)
                \/ \E p \in Process : Restart(p)
    PROVE  All'
<1>1. CASE GoDown \/ ComeBack
  BY <1>1, TableKept, StoreUnchanged, BreakerUnchanged, ReqUnchanged
  DEF All, GoDown, ComeBack, Table
<1>2. ASSUME NEW k \in Key, LoseEntry(k) \/ DamageEntry(k) PROVE All'
  <2>1. PICK e \in {Absent, Corrupt} : store' = [store EXCEPT ![k] = e]
    BY <1>2 DEF LoseEntry, DamageEntry
  <2>2. UNCHANGED <<Table, up, Breaker, req>>
    BY <1>2 DEF LoseEntry, DamageEntry
  <2>3. StoreOK'
    BY <2>1, <2>2, NoListIsTrue, StoreReplaced DEF All, Table
  <2>4. QED BY <2>2, <2>3, TableKept, BreakerUnchanged, ReqUnchanged DEF All, Table
<1>3. ASSUME NEW p \in Process, Restart(p) PROVE All'
  <2>1. UNCHANGED <<Table, up>> BY <1>3 DEF Restart
  <2>2. StoreOK'
    <3>1. CASE store' = store BY <2>1, <3>1, StoreUnchanged DEF All, Table
    <3>2. ASSUME NEW r \in Request, req[r].stage = "fill", store' = Filled(r) PROVE StoreOK'
      BY <2>1, <3>2, StoreFilled DEF All, Table
    <3>3. QED BY <1>3, <3>1, <3>2 DEF Restart
  <2>3. BreakerOK' BY <1>3, CacheAssumption DEF All, BreakerOK, Restart
  <2>4. ReqOK'
    <3>1. ASSUME NEW r \in Request PROVE req'[r] = Idle \/ req'[r] = req[r]
      BY <1>3 DEF Restart
    <3>2. req' \in [Request -> ReqType]
      BY <1>3, IdleOK DEF All, ReqOK, RecOK, Restart
    <3>3. QED BY <2>1, <3>1, <3>2, IdleOK DEF All, ReqOK, Table
  <2>5. QED BY <2>1, <2>2, <2>3, <2>4, TableKept DEF All
<1>4. QED BY <1>1, <1>2, <1>3

(***************************************************************************)
(* Time: what was true age ticks ago was true age + 1 ticks ago.           *)
(***************************************************************************)
LEMMA StateAges ==
    ASSUME TableOK, Tick, NEW a \in Nat, a < Horizon, NEW h \in recent, h.age <= a
    PROVE  \E g \in recent' : g.age <= a + 1 /\ g.rows = h.rows
<1>1. h \in [rows : SUBSET Row, age : 0..Horizon]
  BY DEF TableOK
<1>2. CASE h = [rows |-> db, age |-> 0]
  BY <1>2 DEF Tick
<1>3. CASE h # [rows |-> db, age |-> 0]
  <2>1. h.age < Horizon
    BY <1>1, CacheAssumption DEF Horizon
  <2>2. Older(h) \in recent'
    BY <1>3, <2>1 DEF Tick
  <2>3. Older(h).rows = h.rows /\ Older(h).age = h.age + 1
    BY <1>1 DEF Older
  <2>4. Older(h).age <= a + 1
    BY <1>1, <2>3
  <2>5. QED BY <2>2, <2>3, <2>4
<1>4. QED BY <1>2, <1>3

\* What was true some ticks ago was true one tick longer ago after a tick,
LEMMA TrueInAges ==
    ASSUME TableOK, Tick, NEW rows, NEW q, NEW a \in Nat, a < Horizon, TrueIn(recent, rows, q, a)
    PROVE  TrueIn(recent', rows, q, a + 1)
<1>1. PICK h \in recent : h.age <= a /\ rows = RowsFor(h.rows, q)
  BY DEF TrueIn
<1>2. QED BY <1>1, StateAges DEF TrueIn

\* and so is a list.
LEMMA ListedInAges ==
    ASSUME TableOK, Tick, NEW rows, NEW q, NEW a \in Nat, a < Horizon, ListedIn(recent, rows, q, a)
    PROVE  ListedIn(recent', rows, q, a + 1)
<1>1. PICK h \in recent : h.age <= a /\ PassesOf(rows) = PassesOf(RowsFor(h.rows, q))
  BY DEF ListedIn
<1>2. PICK g \in recent' : g.age <= a + 1 /\ g.rows = h.rows
  BY <1>1, StateAges
<1>3. ASSUME NEW row \in rows PROVE \E f \in recent' : f.age <= a + 1 /\ row \in f.rows
  <2>1. PICK f \in recent : f.age <= a /\ row \in f.rows
    BY DEF ListedIn
  <2>2. QED BY <2>1, StateAges
<1>4. QED BY <1>1, <1>2, <1>3 DEF ListedIn

\* A tick ages the entries, the reads and the history alike.
LEMMA TickKeeps ==
    ASSUME All, Tick PROVE All'
<1>0. Horizon \in Nat /\ Horizon = Ttl + 2 * CallTime /\ Ttl \in Nat \ {0} /\ CallTime \in Nat
  BY CacheAssumption DEF Horizon
<1>1. TableOK'
  <2>1. PresentIsRecent' BY DEF Tick, PresentIsRecent
  <2>2. recent' \subseteq [rows : SUBSET Row, age : 0..Horizon]
    <3>1. ASSUME NEW h \in recent, h.age < Horizon
          PROVE  Older(h) \in [rows : SUBSET Row, age : 0..Horizon]
      BY <1>0, <3>1 DEF All, TableOK, Older
    <3>2. [rows |-> db, age |-> 0] \in [rows : SUBSET Row, age : 0..Horizon]
      BY <1>0 DEF All, TableOK
    <3>3. QED BY <3>1, <3>2 DEF Tick
  <2>3. QED BY <2>1, <2>2 DEF All, TableOK, Tick
<1>2. StoreOK'
  <2>1. store' \in [Key -> EntryType]
    <3>1. ASSUME NEW k \in Key
          PROVE  (IF store[k].kind # "list" THEN store[k]
                  ELSE IF store[k].left = 1 THEN Absent
                  ELSE [store[k] EXCEPT !.left = @ - 1]) \in EntryType
      <4>1. store[k] \in EntryType /\ EntryTrue(k, store[k], recent)
        BY DEF All, StoreOK
      <4>2. QED BY <1>0, <4>1, NoListIsTrue DEF EntryType, EntryTrue
    <3>2. QED BY <3>1 DEF Tick
  <2>2. ASSUME NEW k \in Key PROVE EntryTrue(k, store'[k], recent')
    <3>1. store[k] \in EntryType /\ EntryTrue(k, store[k], recent)
      BY DEF All, StoreOK
    <3>2. CASE store[k].kind # "list"
      BY <3>2 DEF Tick, EntryTrue
    <3>3. CASE store[k].kind = "list" /\ store[k].left = 1
      BY <3>3, NoListIsTrue DEF Tick
    <3>4. CASE store[k].kind = "list" /\ store[k].left # 1
      <4>1. /\ store'[k].left = store[k].left - 1
            /\ store'[k].rows = store[k].rows
            /\ store[k].left \in 2..Ttl
        BY <1>0, <3>1, <3>4 DEF Tick, EntryType, EntryTrue
      <4>2. PICK q \in Query : /\ Cacheable(q) /\ PassKey(q) = k
                               /\ ListedIn(recent, store[k].rows, q, Ttl + CallTime - store[k].left)
        BY <3>1, <3>4 DEF EntryTrue
      <4>3. /\ Ttl + CallTime - store[k].left \in Nat
            /\ Ttl + CallTime - store[k].left < Horizon
            /\ Ttl + CallTime - store[k].left + 1 = Ttl + CallTime - store'[k].left
        BY <1>0, <4>1
      <4>4. ListedIn(recent', store[k].rows, q, Ttl + CallTime - store[k].left + 1)
        BY <4>2, <4>3, ListedInAges DEF All
      <4>5. QED BY <1>0, <4>1, <4>2, <4>3, <4>4 DEF EntryTrue
    <3>5. QED BY <3>2, <3>3, <3>4
  <2>3. QED BY <2>1, <2>2 DEF StoreOK
<1>3. BreakerOK'
  BY CacheAssumption DEF All, BreakerOK, Tick
<1>4. ReqOK'
  <2>1. ASSUME NEW r \in Request PROVE RecOK(req'[r], recent')
    <3>1. RecOK(req[r], recent) /\ req[r] \in ReqType
      BY DEF All, ReqOK, RecOK
    <3>2. CASE req[r].stage \in HasRows
      <4>1. req[r].waited \in 0..(CallTime - 1) /\ req[r].waited \in Nat
        BY <1>0, <3>1, <3>2 DEF Tick, MayTick, ReqType
      <4>2. /\ req'[r] \in ReqType
            /\ req'[r].stage = req[r].stage /\ req'[r].query = req[r].query
            /\ req'[r].rows = req[r].rows /\ req'[r].whole = req[r].whole
            /\ req'[r].call = req[r].call
            /\ req'[r].waited = req[r].waited + 1
        <5>1. req'[r] = [req[r] EXCEPT !.waited = req[r].waited + 1]
          BY <3>2 DEF Tick
        <5>2. QED BY <1>0, <3>1, <4>1, <5>1 DEF ReqType
      <4>3. ASSUME NEW rows, NEW q, TrueIn(recent, rows, q, req[r].waited)
            PROVE  TrueIn(recent', rows, q, req[r].waited + 1)
        <5>1. req[r].waited < Horizon BY <1>0, <4>1
        <5>2. QED BY <4>1, <4>3, <5>1, TrueInAges DEF All
      <4>8. ASSUME NEW rows, NEW q, ListedIn(recent, rows, q, req[r].waited)
            PROVE  ListedIn(recent', rows, q, req[r].waited + 1)
        <5>1. req[r].waited < Horizon BY <1>0, <4>1
        <5>2. QED BY <4>1, <4>8, <5>1, ListedInAges DEF All
      <4>4. ASSUME NEW rows, NEW q, ListedIn(recent, rows, q, Ttl + CallTime + req[r].waited)
            PROVE  ListedIn(recent', rows, q, Ttl + CallTime + (req[r].waited + 1))
        <5>1. /\ Ttl + CallTime + req[r].waited \in Nat
              /\ Ttl + CallTime + req[r].waited < Horizon
              /\ Ttl + CallTime + req[r].waited + 1 = Ttl + CallTime + (req[r].waited + 1)
          BY <1>0, <4>1
        <5>2. QED BY <4>4, <5>1, ListedInAges DEF All
      <4>5. ReadsTrue(req'[r], recent')
        BY <3>1, <4>2, <4>3, <4>8 DEF RecOK, ReadsTrue
      <4>6. AnswerTrue(req'[r], recent')
        BY <3>1, <4>2, <4>3, <4>4 DEF RecOK, AnswerTrue
      <4>7. QED BY <4>2, <4>5, <4>6 DEF RecOK
    <3>3. CASE req[r].stage \notin HasRows
      <4>1. req'[r] = req[r] BY <3>3 DEF Tick
      <4>2. QED BY <3>1, <3>3, <4>1 DEF RecOK, ReadsTrue, AnswerTrue
    <3>4. QED BY <3>2, <3>3
  <2>2. req' \in [Request -> ReqType]
    BY <2>1 DEF Tick, RecOK
  <2>3. QED BY <2>1, <2>2 DEF ReqOK
<1>5. QED BY <1>1, <1>2, <1>3, <1>4 DEF All, Tick

(***************************************************************************)
(* The steps of a request.                                                 *)
(***************************************************************************)

\* A Redis call of r goes on: nothing but its record and perhaps the breaker
\* and an entry change.
LEMMA CallGoesOn ==
    ASSUME All, NEW r \in Request, NEW rec, RecOK(rec, recent),
           req' = [req EXCEPT ![r] = rec], UNCHANGED <<Table, up>>, StoreOK', BreakerOK'
    PROVE  All'
BY TableKept, ReqStep DEF All, Table

\* A request arrives.
LEMMA ArriveKeeps ==
    ASSUME All, NEW r \in Request, NEW q \in Query, Arrive(r, q) PROVE All'
<1> DEFINE started == [Idle EXCEPT !.query = q]
<1>1. /\ started \in ReqType /\ started.query = q /\ started.stage = "idle"
      /\ started.call = "none"
  BY CacheAssumption DEF Idle, ReqType
<1>2. ASSUME NEW stage \in {"lookup", "page"}, stage = "lookup" => Cacheable(q)
      PROVE  RecOK([started EXCEPT !.stage = stage], recent)
  <2> DEFINE rec == [started EXCEPT !.stage = stage]
  <2>1. rec \in ReqType /\ rec.query = q /\ rec.stage = stage /\ rec.call = "none"
    BY <1>1 DEF ReqType
  <2> HIDE DEF rec
  <2>2. QED BY <1>2, <2>1 DEF RecOK, ReadsTrue, AnswerTrue, rec
<1> HIDE DEF started
<1>3. Cacheable(q) => RecOK(Enter(r, started, "lookup"), recent)
  BY <1>1, <1>2, EnterOK
<1>4. PICK rec : RecOK(rec, recent) /\ req' = [req EXCEPT ![r] = rec]
  <2>1. CASE Cacheable(q)
    BY <1>3, <2>1 DEF Arrive, started
  <2>2. CASE ~Cacheable(q)
    BY <1>2, <2>2 DEF Arrive, started
  <2>3. QED BY <2>1, <2>2
<1>5. QED BY <1>4, CallGoesOn, StoreUnchanged, BreakerUnchanged DEF All, Arrive, Table

\* Redis answers a lookup: a hit is a list that was true.
LEMMA LookupKeeps ==
    ASSUME All, NEW r \in Request, LookupReplied(r) PROVE All'
<1> DEFINE entry == store[PassKey(req[r].query)]
           hit == [req[r] EXCEPT !.stage = "done", !.call = "none", !.attempt = 0,
                                 !.rows = entry.rows]
<1>1. /\ req[r].stage = "lookup" /\ UNCHANGED <<Table, store, up>> /\ OnSuccess(ProcessOf[r])
  BY DEF LookupReplied
<1>2. /\ RecOK(req[r], recent) /\ req[r] \in ReqType
      /\ req[r].query \in Query /\ Cacheable(req[r].query) /\ PassKey(req[r].query) \in Key
  BY <1>1, KeyOfRequest DEF All, ReqOK, RecOK
<1>3. entry \in EntryType /\ EntryTrue(PassKey(req[r].query), entry, recent)
  BY <1>2 DEF All, StoreOK
<1>4. RecOK(GiveUp(req[r]), recent)
  BY <1>1, <1>2, GiveUpOK
<1>5. RecOK(Attempt(r, [req[r] EXCEPT !.stage = "evict"], 1), recent)
  <2> DEFINE rec == [req[r] EXCEPT !.stage = "evict"]
  <2>1. rec \in ReqType /\ rec.query = req[r].query /\ rec.stage = "evict"
    BY <1>2 DEF ReqType
  <2> HIDE DEF rec
  <2>2. RecOK(rec, recent)
    BY <1>2, <2>1 DEF RecOK, ReadsTrue, AnswerTrue
  <2>3. 1 \in 1..MaxRetries BY CacheAssumption
  <2>4. QED BY <2>1, <2>2, <2>3, AttemptOK DEF rec
<1>6. ASSUME entry.kind = "list", entry.rows # {} PROVE RecOK(hit, recent)
  <2>1. /\ hit \in ReqType /\ hit.stage = "done" /\ hit.query = req[r].query
        /\ hit.call = "none"
        /\ hit.rows = entry.rows /\ hit.waited = req[r].waited
    <3>1. entry.rows \in SUBSET Row BY <1>3 DEF EntryType
    <3>2. 0 \in 0..MaxRetries BY CacheAssumption
    <3> HIDE DEF entry
    <3>3. QED BY <1>2, <3>1, <3>2 DEF ReqType
  <2>2. PICK q \in Query :
           /\ Cacheable(q) /\ PassKey(q) = PassKey(req[r].query)
           /\ ListedIn(recent, entry.rows, q, Ttl + CallTime - entry.left)
    BY <1>3, <1>6 DEF EntryTrue
  <2>3. /\ Ttl + CallTime - entry.left \in Int /\ Ttl + CallTime + hit.waited \in Int
        /\ Ttl + CallTime - entry.left <= Ttl + CallTime + hit.waited
    <3>1. entry.left \in Nat /\ hit.waited \in Nat
      BY <1>2, <1>3, <2>1, CacheAssumption DEF EntryType, ReqType
    <3> HIDE DEF entry, hit
    <3>2. QED BY <3>1, CacheAssumption
  <2>4. ListedIn(recent, hit.rows, q, Ttl + CallTime + hit.waited)
    <3>1. \A h \in recent : h.age \in Int BY DEF All, TableOK
    <3> HIDE DEF entry, hit
    <3>2. QED BY <2>1, <2>2, <2>3, <3>1, ListedInGrows
  <2> HIDE DEF hit, entry
  <2>5. ReadsTrue(hit, recent) /\ AnswerTrue(hit, recent)
    BY <1>2, <1>6, <2>1, <2>2, <2>4 DEF ReadsTrue, AnswerTrue
  <2>6. QED BY <2>1, <2>5 DEF RecOK
<1>7. PICK rec : RecOK(rec, recent) /\ req' = [req EXCEPT ![r] = rec]
  <2>1. req' = [req EXCEPT ![r] =
           CASE entry.kind = "corrupt" -> Attempt(r, [req[r] EXCEPT !.stage = "evict"], 1)
             [] entry.kind = "list" /\ entry.rows # {} -> hit
             [] OTHER -> GiveUp(req[r])]
    BY DEF LookupReplied
  <2> HIDE DEF entry, hit
  <2>2. CASE entry.kind = "corrupt" BY <1>5, <2>1, <2>2
  <2>3. CASE entry.kind = "list" /\ entry.rows # {} BY <1>6, <2>1, <2>3
  <2>4. CASE entry.kind # "corrupt" /\ ~(entry.kind = "list" /\ entry.rows # {})
    BY <1>4, <2>1, <2>4
  <2>5. QED BY <2>2, <2>3, <2>4
<1>8. BreakerOK'
  BY <1>1, CacheAssumption, BreakerSucceeds DEF All
<1>9. QED BY <1>1, <1>7, <1>8, CallGoesOn, StoreUnchanged DEF All, Table

\* Redis answers an eviction or a fill.
LEMMA CallEndsKeeps ==
    ASSUME All, NEW r \in Request, EvictReplied(r) \/ FillReplied(r) PROVE All'
<1>1. /\ req[r].stage \in RedisStage /\ UNCHANGED <<Table, up>> /\ OnSuccess(ProcessOf[r])
      /\ req' = [req EXCEPT ![r] = GiveUp(req[r])]
  BY DEF EvictReplied, FillReplied
<1>2. RecOK(GiveUp(req[r]), recent)
  BY <1>1, GiveUpOK DEF All, ReqOK
<1>3. StoreOK'
  <2>1. CASE EvictReplied(r)
    <3>1. PassKey(req[r].query) \in Key BY <1>1, KeyOfRequest DEF All
    <3>2. store' = [store EXCEPT ![PassKey(req[r].query)] = Absent] BY <2>1 DEF EvictReplied
    <3>3. QED BY <1>1, <3>1, <3>2, NoListIsTrue, StoreReplaced DEF All, Table
  <2>2. CASE FillReplied(r)
    BY <1>1, <2>2, StoreFilled DEF All, Table, FillReplied
  <2>3. QED BY <2>1, <2>2
<1>4. BreakerOK'
  BY <1>1, CacheAssumption, BreakerSucceeds DEF All
<1>5. QED BY <1>1, <1>2, <1>3, <1>4, CallGoesOn

\* An attempt is lost or refused.
LEMMA AttemptFailsKeeps ==
    ASSUME All, NEW r \in Request, AttemptLost(r) \/ AttemptRefused(r) PROVE All'
<1>0. RecOK(req[r], recent) BY DEF All, ReqOK
<1>1. CASE AttemptLost(r)
  <2>1. req[r].call = "sent" /\ UNCHANGED <<Table, up, Breaker>>
    BY <1>1 DEF AttemptLost
  <2>2. StoreOK'
    <3>1. CASE store' = store BY <2>1, <3>1, StoreUnchanged DEF All, Table
    <3>2. CASE req[r].stage = "evict" /\ store' = [store EXCEPT ![PassKey(req[r].query)] = Absent]
      <4>1. PassKey(req[r].query) \in Key BY <3>2, KeyOfRequest DEF All
      <4>2. QED BY <2>1, <3>2, <4>1, NoListIsTrue, StoreReplaced DEF All, Table
    <3>3. CASE req[r].stage = "fill" /\ store' = Filled(r)
      BY <2>1, <3>3, StoreFilled DEF All, Table
    <3>4. QED BY <1>1, <3>1, <3>2, <3>3 DEF AttemptLost
  <2>3. RecOK([req[r] EXCEPT !.call = "backoff"], recent)
    <3> DEFINE rec == [req[r] EXCEPT !.call = "backoff"]
    <3>1. /\ rec \in ReqType /\ rec.stage = req[r].stage /\ rec.query = req[r].query
          /\ rec.rows = req[r].rows /\ rec.whole = req[r].whole /\ rec.waited = req[r].waited
      BY <1>0 DEF RecOK, ReqType
    <3> HIDE DEF rec
    <3>2. req[r].stage \in RedisStage BY <1>0, <2>1 DEF RecOK, ReadsTrue
    <3>3. QED BY <1>0, <3>1, <3>2 DEF RecOK, ReadsTrue, AnswerTrue, rec
  <2>4. req' = [req EXCEPT ![r] = [req[r] EXCEPT !.call = "backoff"]]
    BY <1>1 DEF AttemptLost
  <2>5. BreakerOK' BY <2>1, BreakerUnchanged DEF All
  <2>6. QED BY <2>1, <2>2, <2>3, <2>4, <2>5, CallGoesOn
<1>2. CASE AttemptRefused(r)
  <2>1. /\ req[r].call = "sent" /\ UNCHANGED <<Table, store, up>> /\ OnFailure(ProcessOf[r])
        /\ req' = [req EXCEPT ![r] = GiveUp(req[r])]
    BY <1>2 DEF AttemptRefused
  <2>2. RecOK(GiveUp(req[r]), recent)
    BY <1>0, <2>1, GiveUpOK DEF RecOK, ReadsTrue
  <2>3. BreakerOK' BY <2>1, CacheAssumption, BreakerFails DEF All
  <2>4. QED BY <2>1, <2>2, <2>3, CallGoesOn, StoreUnchanged DEF All, Table
<1>3. QED BY <1>1, <1>2

\* A command is tried again or given up.
LEMMA RetryKeeps ==
    ASSUME All, NEW r \in Request, Retry(r) \/ RetriesExhausted(r) PROVE All'
<1>1. /\ RecOK(req[r], recent) /\ req[r].stage \in RedisStage /\ req[r] \in ReqType
      /\ UNCHANGED <<Table, store, up>>
  BY DEF All, ReqOK, RecOK, ReadsTrue, Retry, RetriesExhausted
<1>2. CASE Retry(r)
  <2>1. req[r].attempt + 1 \in 1..MaxRetries
    BY <1>1, <1>2, CacheAssumption DEF Retry, ReqType
  <2>2. RecOK(Attempt(r, req[r], req[r].attempt + 1), recent)
    BY <1>1, <2>1, AttemptOK
  <2>3. BreakerOK' BY <1>2, BreakerUnchanged DEF All, Retry
  <2>4. QED BY <1>1, <1>2, <2>2, <2>3, CallGoesOn, StoreUnchanged DEF All, Table, Retry
<1>3. CASE RetriesExhausted(r)
  <2>1. BreakerOK' BY <1>3, CacheAssumption, BreakerFails DEF All, RetriesExhausted
  <2>2. QED BY <1>1, <1>3, <2>1, GiveUpOK, CallGoesOn, StoreUnchanged
    DEF All, Table, RetriesExhausted
<1>4. QED BY <1>2, <1>3

\* The statements: what they read is true now.
LEMMA StatementKeeps ==
    ASSUME All, NEW r \in Request, ReadPage(r) \/ ReadList(r) PROVE All'
<1> DEFINE q == req[r].query
           read == RowsFor(db, q)
<1>1. /\ RecOK(req[r], recent) /\ req[r] \in ReqType /\ q \in Query /\ req[r].call = "none"
      /\ UNCHANGED <<Table, store, up, Breaker>>
  BY DEF All, ReqOK, RecOK, ReadsTrue, ReadPage, ReadList
<1>2. read \in SUBSET Row
  BY RowsForType DEF All, TableOK
<1>3. req[r].waited \in Nat /\ TrueIn(recent, read, q, req[r].waited)
  <2>1. req[r].waited \in Nat BY <1>1, CacheAssumption DEF ReqType
  <2>2. QED BY <2>1, TrueNow DEF All, TableOK, PresentIsRecent
<1>4. PICK rec : RecOK(rec, recent) /\ req' = [req EXCEPT ![r] = rec]
  <2>1. CASE ReadPage(r)
    <3> DEFINE to == IF Cacheable(q) /\ q.page = 1 THEN "list" ELSE "done"
               rec == [req[r] EXCEPT !.stage = to, !.rows = read]
    <3>1. req' = [req EXCEPT ![r] = rec]
      BY <2>1 DEF ReadPage, All, ReqOK
    <3>2. to \in {"list", "done"} /\ (to = "list" => Cacheable(q))
      OBVIOUS
    <3>3. /\ rec \in ReqType /\ rec.stage = to /\ rec.query = q /\ rec.rows = read
          /\ rec.waited = req[r].waited /\ rec.call = "none"
      <4> HIDE DEF to, read
      <4>1. QED BY <1>1, <1>2, <3>2 DEF ReqType
    <3> HIDE DEF to, read, rec, q
    <3>4. RecOK(rec, recent)
      BY <1>1, <1>3, <3>2, <3>3 DEF RecOK, ReadsTrue, AnswerTrue
    <3>5. QED BY <3>1, <3>4
  <2>2. CASE ReadList(r)
    <3>0. PICK page \in SUBSET req[r].rows :
             req' = [req EXCEPT ![r] = Enter(r, [req[r] EXCEPT !.whole = Reread(page, read)], "fill")]
      BY <2>2 DEF ReadList
    <3> DEFINE whole == Reread(page, read)
               with == [req[r] EXCEPT !.whole = whole]
               filling == [with EXCEPT !.stage = "fill"]
    <3>1. req' = [req EXCEPT ![r] = Enter(r, with, "fill")]
      BY <3>0
    <3>a. whole \in SUBSET Row
      <4>1. page \in SUBSET Row BY <1>1 DEF ReqType
      <4> HIDE DEF read
      <4>2. QED BY <1>2, <4>1, RereadType
    <3>2. /\ with \in ReqType
          /\ filling \in ReqType /\ filling.stage = "fill" /\ filling.query = q
          /\ filling.rows = req[r].rows /\ filling.whole = whole
          /\ filling.waited = req[r].waited
      <4> HIDE DEF whole
      <4>1. QED BY <1>1, <3>a DEF ReqType
    <3>3. Cacheable(q) /\ TrueIn(recent, req[r].rows, q, req[r].waited)
      BY <1>1, <2>2 DEF RecOK, ReadsTrue, ReadList
    <3>b. ListedIn(recent, whole, q, req[r].waited)
      BY <1>3, <3>3, RereadListed DEF All, TableOK, PresentIsRecent
    <3>4. RecOK(filling, recent)
      <4> HIDE DEF filling, whole, q
      <4>1. QED BY <1>1, <3>2, <3>3, <3>b DEF RecOK, ReadsTrue, AnswerTrue
    <3> HIDE DEF with
    <3>5. RecOK(Enter(r, with, "fill"), recent)
      BY <3>2, <3>4, EnterOK
    <3>6. QED BY <3>1, <3>5
  <2>3. QED BY <2>1, <2>2
<1>5. QED BY <1>1, <1>4, CallGoesOn, StoreUnchanged, BreakerUnchanged DEF All, Table

\* The answer leaves.
LEMMA RespondKeeps ==
    ASSUME All, NEW r \in Request, Respond(r) PROVE All'
<1>1. RecOK(Idle, recent) BY IdleOK
<1>2. QED BY <1>1, CallGoesOn, StoreUnchanged, BreakerUnchanged DEF All, Respond, Table

(***************************************************************************)
(* The theorems.                                                           *)
(***************************************************************************)
LEMMA AllInit == Init => All
<1> SUFFICES ASSUME Init PROVE All OBVIOUS
<1>1. TableOK
  <2>1. db \subseteq Row
    <3>1. ASSUME NEW p \in Pass PROVE [pass |-> p, scheduled |-> FALSE] \in Row BY DEF Row
    <3>2. QED BY <3>1 DEF Init
  <2>2. 0 \in 0..Horizon BY CacheAssumption DEF Horizon
  <2>3. QED BY <2>1, <2>2, CacheAssumption DEF Init, TableOK, PresentIsRecent
<1>2. StoreOK BY NoListIsTrue DEF Init, StoreOK
<1>3. BreakerOK BY CacheAssumption DEF Init, BreakerOK
<1>4. ReqOK BY IdleOK DEF Init, ReqOK, RecOK
<1>5. QED BY <1>1, <1>2, <1>3, <1>4 DEF All, Init

\* Every step keeps the invariant.
LEMMA AllStep == All /\ [Next]_vars => All'
<1> SUFFICES ASSUME All, [Next]_vars PROVE All' OBVIOUS
<1>1. ASSUME NEW r \in Request, Progress(r) PROVE All'
  BY <1>1, LookupKeeps, CallEndsKeeps, AttemptFailsKeeps, RetryKeeps, StatementKeeps, RespondKeeps
  DEF Progress
<1>2. ASSUME NEW r \in Request, NEW q \in Query, Arrive(r, q) PROVE All'
  BY <1>2, ArriveKeeps
<1>3. CASE InsertPasses \/ SchedulePass \/ CleanUp
  BY <1>3, WritersKeep
<1>4. CASE \/ GoDown \/ ComeBack
           \/ \E k \in Key : LoseEntry(k) \/ DamageEntry(k)
           \/ \E p \in Process : Restart(p)
  BY <1>4, EnvironmentKeeps
<1>5. CASE Tick
  BY <1>5, TickKeeps
<1>6. CASE UNCHANGED vars
  BY <1>6, TableKept, StoreUnchanged, BreakerUnchanged, ReqUnchanged DEF All, vars, Table, Breaker
<1>7. QED BY <1>1, <1>2, <1>3, <1>4, <1>5, <1>6 DEF Next

\* The inductive invariant: types, and where every list in the cache and in
\* the hands of a request comes from.
THEOREM InvariantHolds == Spec => []IInv
<1>1. Init => IInv BY AllInit, IInvParts DEF All
<1>2. IInv /\ [Next]_vars => IInv'
  <2>1. IInv => All BY IInvParts DEF All
  <2>2. All' => IInv'
    BY DEF IInv, TypeOK, All, TableOK, StoreOK, BreakerOK, ReqOK, RecOK
  <2>3. QED BY <2>1, <2>2, AllStep
<1>3. QED BY <1>1, <1>2, PTL DEF Spec

\* No answer of GET /api/passes is older than the life of a cached list and
\* the times of the call that wrote it and of the call that answers, however
\* many requests and processes fill the cache at once.
THEOREM AnswersWereTrue == Spec => []AnswerWasTrue
<1>1. IInv => AnswerWasTrue BY DEF IInv, AnswerWasTrue
<1>2. QED BY <1>1, InvariantHolds, PTL
=============================================================================
