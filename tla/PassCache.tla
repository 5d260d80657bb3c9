---------------------------- MODULE PassCache ----------------------------
(***************************************************************************)
(* GET /api/passes (api/routes/passes.py) and the Redis cache it reads and *)
(* fills (cache/redis_client.py).  Requests are coroutines on the event    *)
(* loop of an API process; the processes share the database and the cache, *)
(* and each has a circuit breaker of its own.  The propagation workers and *)
(* the administrator change the table of passes meanwhile, and nothing     *)
(* ever invalidates a cached list: it lives until its time runs out.       *)
(*                                                                         *)
(* An answer is cut into pages by slicing a sorted list.  Slicing is left  *)
(* out, and so is the count of the rows that goes with a page: an answer   *)
(* is the rows its page is cut from.                                       *)
(***************************************************************************)
EXTENDS Integers, FiniteSets

CONSTANTS
    Request,        \* slots for requests, each belonging to one process
    Process,        \* API processes (uvicorn workers)
    ProcessOf,      \* Request -> Process
    Pass,           \* passes the table may hold: [sat, station, rise, set]
    Query,          \* what clients ask: [sat, station, start, end, page]
    Any,            \* a filter that was not given
    DayLength,      \* instants in a day
    WindowMax,      \* longest window a query may ask for (7 days)
    MaxRetries,     \* attempts of one Redis call (_MAX_RETRIES)
    MaxFailures,    \* failures that open the circuit (_MAX_FAILURES)
    OpenDuration,   \* ticks it stays open (_OPEN_DURATION_SEC)
    PoolSize,       \* connections of a process (_POOL_SIZE)
    Ttl,            \* ticks a cached list lives
    CallTime,       \* ticks within which a request that has read its rows ends
    MaxCommits      \* bound on the commits to the table of passes

ASSUME CacheAssumption ==
    /\ ProcessOf \in [Request -> Process]
    /\ MaxRetries \in Nat \ {0} /\ MaxFailures \in Nat \ {0}
    /\ OpenDuration \in Nat /\ PoolSize \in Nat
    /\ Ttl \in Nat \ {0} /\ CallTime \in Nat /\ MaxCommits \in Nat

VARIABLES
    db,         \* committed rows of satellite_passes
    commits,    \* commits so far
    recent,     \* history: [rows, age], the states of db, age ticks after
                \*   the commit that replaced them (0 for the present one)
    store,      \* Redis: cache key -> entry
    up,         \* Redis answers
    failures,   \* Process -> failed calls since the last success
    openFor,    \* Process -> ticks for which the circuit is still open
    req         \* Request -> what its coroutine is doing

vars == <<db, commits, recent, store, up, failures, openFor, req>>

(***************************************************************************)
(* Rows, queries and keys.                                                 *)
(***************************************************************************)
Row == [pass : Pass, scheduled : BOOLEAN]

Matches(row, q) ==
    /\ row.pass.rise >= q.start
    /\ row.pass.set <= q.end
    /\ q.station # Any => row.pass.station = q.station
    /\ q.sat # Any => row.pass.sat = q.sat

RowsFor(rows, q) == {row \in rows : Matches(row, q)}

Valid(q) == q.start < q.end /\ q.end - q.start <= WindowMax

Cacheable(q) == q.station # Any /\ q.sat = Any

\* The key holds the day the window starts on, not the window.
PassKey(q) == <<q.station, q.start \div DayLength>>

Key == {PassKey(q) : q \in {x \in Query : Cacheable(x)}}

(***************************************************************************)
(* An entry of Redis: absent, not JSON, or a list with the ticks it has    *)
(* left to live.                                                           *)
(***************************************************************************)
Absent == [kind |-> "absent", rows |-> {}, left |-> 0]
Corrupt == [kind |-> "corrupt", rows |-> {}, left |-> 0]
Listed(rows, left) == [kind |-> "list", rows |-> rows, left |-> left]

(***************************************************************************)
(* A request.  stage: "lookup", "evict" and "fill" are Redis calls, "page" *)
(* and "list" the statements that read the rows of its page and, to fill   *)
(* the cache, all rows.  call: "sent" while an attempt holds a connection, *)
(* "backoff" while it sleeps.                                              *)
(***************************************************************************)
RedisStage == {"lookup", "evict", "fill"}
DbStage == {"page", "list"}

NoQuery == [sat |-> Any, station |-> Any, start |-> 0, end |-> 0, page |-> 0]

Idle == [stage |-> "idle", query |-> NoQuery, call |-> "none", attempt |-> 0,
         rows |-> {}, whole |-> {}, waited |-> 0]

\* Bug: the circuit waits for a success that it does not let happen.
OpenUntilSuccess(p) == failures[p] >= MaxFailures

CircuitIsOpen(p) == openFor[p] > 0

\* Connections in use in the process of r by its other requests.
InUse(r) == {o \in Request \ {r} : ProcessOf[o] = ProcessOf[r] /\ req[o].call = "sent"}

\* The statements of one request run back to back on the event loop: no
\* other coroutine of the process is scheduled between them.
Scheduled(r) ==
    \A o \in Request \ {r} : ProcessOf[o] = ProcessOf[r] => req[o].stage \notin DbStage

\* What follows a Redis call that raised, or that found nothing.
GiveUp(rec) ==
    [rec EXCEPT !.stage = IF rec.stage = "fill" THEN "done" ELSE "page",
                !.call = "none", !.attempt = 0, !.whole = {}]

\* One attempt; a pool with no free connection raises ConnectionError, which
\* is handled as a transient error of Redis.
Attempt(r, rec, n) ==
    [rec EXCEPT !.call = IF Cardinality(InUse(r)) < PoolSize THEN "sent" ELSE "backoff",
                !.attempt = n]

\* RedisCache._call, from its check of the circuit to the first await.
Enter(r, rec, op) ==
    LET entering == [rec EXCEPT !.stage = op]
    IN  IF CircuitIsOpen(ProcessOf[r]) THEN GiveUp(entering) ELSE Attempt(r, entering, 1)

OnSuccess(p) ==
    /\ failures' = [failures EXCEPT ![p] = 0]
    /\ openFor' = [openFor EXCEPT ![p] = 0]

\* The count is kept no higher than the bound it is compared with.
OnFailure(p) ==
    LET counted == IF failures[p] < MaxFailures THEN failures[p] + 1 ELSE MaxFailures
    IN  /\ failures' = [failures EXCEPT ![p] = counted]
        /\ openFor' = [openFor EXCEPT ![p] = IF counted >= MaxFailures THEN OpenDuration ELSE @]

Breaker == <<failures, openFor>>
Table == <<db, commits, recent>>

Init ==
    /\ db \in SUBSET {[pass |-> p, scheduled |-> FALSE] : p \in Pass}
    /\ commits = 0
    /\ recent = {[rows |-> db, age |-> 0]}
    /\ store = [k \in Key |-> Absent]
    /\ up \in BOOLEAN
    /\ failures = [p \in Process |-> 0]
    /\ openFor = [p \in Process |-> 0]
    /\ req = [r \in Request |-> Idle]

(***************************************************************************)
(* The request handler.                                                    *)
(***************************************************************************)

\* A request with a valid window; others are answered 400 and change nothing.
Arrive(r, q) ==
    /\ req[r].stage = "idle"
    /\ Scheduled(r)
    /\ Valid(q)
    /\ LET started == [Idle EXCEPT !.query = q]
       IN  req' = [req EXCEPT ![r] = IF Cacheable(q) THEN Enter(r, started, "lookup")
                                     ELSE [started EXCEPT !.stage = "page"]]
    /\ UNCHANGED <<Table, store, up, Breaker>>

\* The reply to a lookup.  An empty list is falsy and treated like a miss;
\* an entry that is not JSON is deleted by a call of its own first.
LookupReplied(r) ==
    /\ req[r].stage = "lookup" /\ req[r].call = "sent" /\ up
    /\ Scheduled(r)
    /\ OnSuccess(ProcessOf[r])
    /\ LET entry == store[PassKey(req[r].query)]
           hit == [req[r] EXCEPT !.stage = "done", !.call = "none", !.attempt = 0,
                                 !.rows = entry.rows]
           next == CASE entry.kind = "corrupt" -> Attempt(r, [req[r] EXCEPT !.stage = "evict"], 1)
                     [] entry.kind = "list" /\ entry.rows # {} -> hit
                     [] OTHER -> GiveUp(req[r])
       IN  req' = [req EXCEPT ![r] = next]
    /\ UNCHANGED <<Table, store, up>>

EvictReplied(r) ==
    /\ req[r].stage = "evict" /\ req[r].call = "sent" /\ up
    /\ Scheduled(r)
    /\ OnSuccess(ProcessOf[r])
    /\ store' = [store EXCEPT ![PassKey(req[r].query)] = Absent]
    /\ req' = [req EXCEPT ![r] = GiveUp(req[r])]
    /\ UNCHANGED <<Table, up>>

\* Bug: a list is kept longer than it may be.
FilledTooLong(r) == [store EXCEPT ![PassKey(req[r].query)] = Listed(req[r].whole, 2 * Ttl + 1)]

\* What a fill writes: the whole list, not the page that is answered.
Filled(r) == [store EXCEPT ![PassKey(req[r].query)] = Listed(req[r].whole, Ttl)]

FillReplied(r) ==
    /\ req[r].stage = "fill" /\ req[r].call = "sent" /\ up
    /\ Scheduled(r)
    /\ OnSuccess(ProcessOf[r])
    /\ store' = Filled(r)
    /\ req' = [req EXCEPT ![r] = GiveUp(req[r])]
    /\ UNCHANGED <<Table, up>>

\* A transient error: the client sleeps.  A write or a delete may have been
\* carried out, only its reply lost.
AttemptLost(r) ==
    /\ req[r].call = "sent" /\ ~up
    /\ Scheduled(r)
    /\ \/ store' = store
       \/ req[r].stage = "evict" /\ store' = [store EXCEPT ![PassKey(req[r].query)] = Absent]
       \/ req[r].stage = "fill" /\ store' = Filled(r)
    /\ req' = [req EXCEPT ![r].call = "backoff"]
    /\ UNCHANGED <<Table, up, Breaker>>

\* Any other Redis error: counted at once and not retried.
AttemptRefused(r) ==
    /\ req[r].call = "sent" /\ ~up
    /\ Scheduled(r)
    /\ OnFailure(ProcessOf[r])
    /\ req' = [req EXCEPT ![r] = GiveUp(req[r])]
    /\ UNCHANGED <<Table, store, up>>

\* After the sleep: the next attempt, which does not look at the circuit.
Retry(r) ==
    /\ req[r].call = "backoff" /\ req[r].attempt < MaxRetries
    /\ Scheduled(r)
    /\ req' = [req EXCEPT ![r] = Attempt(r, req[r], req[r].attempt + 1)]
    /\ UNCHANGED <<Table, store, up, Breaker>>

RetriesExhausted(r) ==
    /\ req[r].call = "backoff" /\ req[r].attempt = MaxRetries
    /\ Scheduled(r)
    /\ OnFailure(ProcessOf[r])
    /\ req' = [req EXCEPT ![r] = GiveUp(req[r])]
    /\ UNCHANGED <<Table, store, up>>

\* The statements, each with a snapshot of its own.
ReadPage(r) ==
    /\ req[r].stage = "page"
    /\ Scheduled(r)
    /\ LET q == req[r].query
       IN  req' = [req EXCEPT ![r].stage = IF Cacheable(q) /\ q.page = 1 THEN "list" ELSE "done",
                              ![r].rows = RowsFor(db, q)]
    /\ UNCHANGED <<Table, store, up, Breaker>>

\* A row that the session has loaded with the page keeps the values it had
\* then (the identity map).
Reread(page, rows) ==
    {row \in page : \E other \in rows : other.pass = row.pass}
        \union {row \in rows : \A loaded \in page : loaded.pass # row.pass}

\* The whole list for the cache; any part of the rows may have been the page.
ReadList(r) ==
    /\ req[r].stage = "list"
    /\ \E page \in SUBSET req[r].rows :
          LET read == [req[r] EXCEPT !.whole = Reread(page, RowsFor(db, req[r].query))]
          IN  req' = [req EXCEPT ![r] = Enter(r, read, "fill")]
    /\ UNCHANGED <<Table, store, up, Breaker>>

Respond(r) ==
    /\ req[r].stage = "done"
    /\ Scheduled(r)
    /\ req' = [req EXCEPT ![r] = Idle]
    /\ UNCHANGED <<Table, store, up, Breaker>>

(***************************************************************************)
(* Other writers of the table.                                             *)
(***************************************************************************)
Commit(rows) ==
    /\ commits < MaxCommits
    /\ rows # db
    /\ db' = rows
    /\ commits' = commits + 1
    /\ recent' = recent \union {[rows |-> rows, age |-> 0]}
    /\ UNCHANGED <<store, up, Breaker, req>>

InsertPasses ==
    \E new \in SUBSET Pass :
        Commit(db \union {[pass |-> p, scheduled |-> FALSE] :
                             p \in {n \in new : \A row \in db : row.pass # n}})

SchedulePass ==
    \E row \in db : Commit((db \ {row}) \union {[row EXCEPT !.scheduled = TRUE]})

CleanUp ==
    \E cutoff \in {p.rise : p \in Pass} :
        Commit({row \in db : row.pass.rise > cutoff})

(***************************************************************************)
(* Redis, the processes and time.                                          *)
(***************************************************************************)
GoDown ==
    /\ up
    /\ up' = FALSE
    /\ UNCHANGED <<Table, store, Breaker, req>>

ComeBack ==
    /\ ~up
    /\ up' = TRUE
    /\ UNCHANGED <<Table, store, Breaker, req>>

\* Memory eviction (allkeys-lru), a restart of Redis, or a damaged value.
LoseEntry(k) ==
    /\ store[k] # Absent
    /\ store' = [store EXCEPT ![k] = Absent]
    /\ UNCHANGED <<Table, up, Breaker, req>>

DamageEntry(k) ==
    /\ store[k].kind = "list"
    /\ store' = [store EXCEPT ![k] = Corrupt]
    /\ UNCHANGED <<Table, up, Breaker, req>>

\* A process dies and comes back; its requests are lost, and its breaker.
\* A write it had sent may still be carried out.
Restart(p) ==
    /\ \/ store' = store
       \/ \E r \in Request : /\ ProcessOf[r] = p
                              /\ req[r].stage = "fill" /\ req[r].call = "sent"
                              /\ store' = Filled(r)
    /\ req' = [r \in Request |-> IF ProcessOf[r] = p THEN Idle ELSE req[r]]
    /\ failures' = [failures EXCEPT ![p] = 0]
    /\ openFor' = [openFor EXCEPT ![p] = 0]
    /\ UNCHANGED <<Table, up>>

\* Attempts end by their time-outs, so that a request which has its rows is
\* answered within CallTime ticks.
HasRows == {"list", "fill", "done"}

MayTick == \A r \in Request : req[r].stage \in HasRows => req[r].waited < CallTime

Horizon == Ttl + 2 * CallTime

Older(h) == [h EXCEPT !.age = @ + 1]

Tick ==
    /\ MayTick
    /\ recent' = {[rows |-> db, age |-> 0]} \union
                 {Older(h) : h \in {x \in recent \ {[rows |-> db, age |-> 0]} : x.age < Horizon}}
    /\ store' = [k \in Key |->
                   IF store[k].kind # "list" THEN store[k]
                   ELSE IF store[k].left = 1 THEN Absent
                   ELSE [store[k] EXCEPT !.left = @ - 1]]
    /\ openFor' = [p \in Process |-> IF openFor[p] > 0 THEN openFor[p] - 1 ELSE 0]
    /\ req' = [r \in Request |-> IF req[r].stage \in HasRows THEN [req[r] EXCEPT !.waited = @ + 1]
                                 ELSE req[r]]
    /\ UNCHANGED <<db, commits, up, failures>>

(***************************************************************************)
(* The specification.                                                      *)
(***************************************************************************)
Progress(r) ==
    \/ LookupReplied(r) \/ EvictReplied(r) \/ FillReplied(r)
    \/ AttemptLost(r) \/ AttemptRefused(r)
    \/ Retry(r) \/ RetriesExhausted(r)
    \/ ReadPage(r) \/ ReadList(r) \/ Respond(r)

Next ==
    \/ \E r \in Request : Progress(r)
    \/ \E r \in Request, q \in Query : Arrive(r, q)
    \/ InsertPasses \/ SchedulePass \/ CleanUp
    \/ GoDown \/ ComeBack
    \/ \E k \in Key : LoseEntry(k) \/ DamageEntry(k)
    \/ \E p \in Process : Restart(p)
    \/ Tick

\* The event loop takes the coroutines that are ready in turn, a Redis call
\* ends by a reply or by its time-outs, and time passes.
Fairness ==
    /\ \A r \in Request : SF_vars(Progress(r))
    /\ WF_vars(Tick)

Spec == Init /\ [][Next]_vars /\ Fairness

(***************************************************************************)
(* Properties.                                                             *)
(***************************************************************************)
ReqType == [stage : {"idle", "done"} \union RedisStage \union DbStage,
            query : Query \union {NoQuery},
            call : {"none", "sent", "backoff"},
            attempt : 0..MaxRetries,
            rows : SUBSET Row,
            whole : SUBSET Row,
            waited : 0..CallTime]

EntryType == [kind : {"absent", "corrupt", "list"}, rows : SUBSET Row, left : 0..Ttl]

TypeOK ==
    /\ db \subseteq Row
    /\ commits \in 0..MaxCommits
    /\ recent \subseteq [rows : SUBSET Row, age : 0..Horizon]
    /\ store \in [Key -> EntryType]
    /\ up \in BOOLEAN
    /\ failures \in [Process -> 0..MaxFailures]
    /\ openFor \in [Process -> 0..OpenDuration]
    /\ req \in [Request -> ReqType]

\* rows were the answer to q in a state of the table that was present at
\* most age ticks ago.
TrueIn(history, rows, q, age) ==
    \E h \in history : h.age <= age /\ rows = RowsFor(h.rows, q)

PassesOf(rows) == {row.pass : row \in rows}

\* A list for the cache, put together from two readings of the table: its
\* passes were those of one such state, and each of its rows was in one.
ListedIn(history, rows, q, age) ==
    /\ \E h \in history : h.age <= age /\ PassesOf(rows) = PassesOf(RowsFor(h.rows, q))
    /\ \A row \in rows : \E h \in history : h.age <= age /\ row \in h.rows

AnswerTrue(rec, history) ==
    rec.stage = "done" =>
        \/ TrueIn(history, rec.rows, rec.query, rec.waited)
        \/ /\ Cacheable(rec.query)
           /\ rec.rows # {}
           /\ \E other \in Query : /\ Cacheable(other)
                                   /\ PassKey(other) = PassKey(rec.query)
                                   /\ ListedIn(history, rec.rows, other,
                                               Ttl + CallTime + rec.waited)

\* What a request is answered was the answer to its query while it waited or,
\* taken from the cache, was within the life of a cached list and the time a
\* write may take the list for a query for the same station and day.
\* (Two fills may overtake each other, and a slow one puts an old list in
\* place of a newer one with its life restarted: redis_client.py:321.)
AnswerWasTrue == \A r \in Request : AnswerTrue(req[r], recent)

\* A cached list with so many ticks left was true within the rest of its life
\* and the time its write may have taken.
EntryTrue(k, entry, history) ==
    entry.kind = "list" =>
        /\ entry.left > 0
        /\ \E q \in Query : /\ Cacheable(q) /\ PassKey(q) = k
                            /\ ListedIn(history, entry.rows, q, Ttl + CallTime - entry.left)

\* Rows that a request has read and neither answered nor written; a call is
\* under way in the stages that are Redis calls only.
ReadsTrue(rec, history) ==
    /\ rec.call # "none" => rec.stage \in RedisStage
    /\ rec.stage # "idle" => rec.query \in Query
    /\ rec.stage \in RedisStage \union {"list"} => Cacheable(rec.query)
    /\ rec.stage \in {"list", "fill"} => TrueIn(history, rec.rows, rec.query, rec.waited)
    /\ rec.stage = "fill" => ListedIn(history, rec.whole, rec.query, rec.waited)

PresentIsRecent == [rows |-> db, age |-> 0] \in recent

IInv ==
    /\ TypeOK
    /\ PresentIsRecent
    /\ \A k \in Key : EntryTrue(k, store[k], recent)
    /\ \A r \in Request : ReadsTrue(req[r], recent) /\ AnswerTrue(req[r], recent)

\* What a client is answered lies in the window it asked for (passes.py:172-173
\* and :28-29, "subsequent identical queries hit cache").  Not so: the key
\* stands for every window that starts on a day.
AnswerInWindow ==
    \A r \in Request : req[r].stage = "done" =>
        \A row \in req[r].rows : Matches(row, req[r].query)

\* Once Redis answers for good, and the pool is not exhausted, the circuit
\* of every process closes for good: calls that fail fast do not extend it.
CircuitRecovers ==
    <>[](up /\ \A r \in Request : Cardinality(InUse(r)) < PoolSize)
        => <>[](\A p \in Process : ~CircuitIsOpen(p))
=============================================================================
