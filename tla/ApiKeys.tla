------------------------------ MODULE ApiKeys ------------------------------
(***************************************************************************)
(* The check of one API key before a request is served: APIKeyAuth.verify  *)
(* with its cache in Redis, then RateLimiter.check_rate_limit with its     *)
(* sorted set in Redis.  Requests are served by several processes, a       *)
(* request yields at each of its calls of Redis, and the administrator     *)
(* changes the key at any time.                                            *)
(*                                                                         *)
(* The calls of Redis may fail, with or without effect, and Redis may      *)
(* evict what it holds (allkeys-lru in docker-compose.yml).  Keys do not   *)
(* touch each other, so one is enough.                                     *)
(***************************************************************************)
EXTENDS Naturals, FiniteSets

CONSTANTS
  Request,    \* the requests made with the key
  Limits,     \* values of rate_limit_per_min
  ValidTTL,   \* how long "valid:<limit>" is kept (300 s)
  InvalidTTL, \* how long "invalid" is kept (60 s)
  Window,     \* the sliding window and the life of the sorted set (60 s)
  MaxDelay,   \* bound: how long a call of Redis takes at most
  MaxNow,     \* bound: the last value of the clock
  MaxChanges  \* bound: changes of the key by the administrator

ASSUME ParametersAssumption ==
  /\ Limits \subseteq Nat \ {0}
  /\ ValidTTL \in Nat \ {0} /\ InvalidTTL \in Nat \ {0} /\ Window \in Nat \ {0}
  /\ MaxDelay \in Nat /\ MaxDelay < Window
  /\ MaxNow \in Nat /\ MaxChanges \in Nat

VARIABLES
  row,      \* the row of api_keys
  changes,  \* how often the administrator has changed it
  was,      \* history: was[t] is what the row has been at time t
  cache,    \* the value at "api_key:<token>"
  entries,  \* the sorted set at "ratelimit:<token>"
  expires,  \* when Redis drops that set
  granted,  \* history: the requests recorded in it since it was last evicted
  now,      \* the clock
  phase,    \* phase[q]: see Phases
  limit,    \* limit[q]: the limit that verify found
  since     \* since[q]: when the request read what it is about to write

rowVars     == <<row, changes, was>>
requestVars == <<phase, limit, since>>
vars        == <<rowVars, cache, entries, expires, granted, now, requestVars>>

(***************************************************************************)
(* new       the request has not asked Redis yet                           *)
(* missed    Redis had no answer                                           *)
(* filling   the key is active and about to be cached as such              *)
(* refusing  the key is not active and about to be cached as such          *)
(* verified  verify returned a limit                                       *)
(* checking  the script was sent with its time stamp                       *)
(* allowed, limited (429), rejected (401), broken (500 or a lost process)  *)
(***************************************************************************)
Phases == {"new", "missed", "filling", "refusing", "verified", "checking",
           "allowed", "limited", "rejected", "broken"}

\* A key that does not exist is to verify what an inactive one is.
Absent == [active |-> FALSE, limit |-> 0]

Rows == [active : BOOLEAN, limit : Limits] \cup {Absent}

Nothing == [says |-> "nothing", limit |-> 0, until |-> 0]

CacheValues == [says : {"valid", "invalid"}, limit : Limits \cup {0}, until : Nat] \cup {Nothing}

TypeOK ==
  /\ row \in Rows
  /\ changes \in Nat
  /\ was \in [0..MaxNow -> SUBSET Rows]
  /\ cache \in CacheValues
  /\ entries \subseteq [score : Nat, member : Request]
  /\ expires \in Nat
  /\ granted \subseteq [by : Request, at : Nat]
  /\ now \in 0..MaxNow
  /\ phase \in [Request -> Phases]
  /\ limit \in [Request -> Limits \cup {0}]
  /\ since \in [Request -> Nat]

Init ==
  /\ row \in Rows
  /\ changes = 0
  /\ was = [t \in 0..MaxNow |-> IF t = 0 THEN {row} ELSE {}]
  /\ cache = Nothing
  /\ entries = {}
  /\ expires = 0
  /\ granted = {}
  /\ now = 0
  /\ phase = [q \in Request |-> "new"]
  /\ limit = [q \in Request |-> 0]
  /\ since = [q \in Request |-> 0]

Goto(q, from, to) ==
  /\ phase[q] \in from
  /\ phase' = [phase EXCEPT ![q] = to]

-----------------------------------------------------------------------------
(* The administrator and Redis *)

\* The row becomes new; the cache is not told.
Change(new) ==
  /\ changes < MaxChanges
  /\ changes' = changes + 1
  /\ row' = new
  /\ was' = [was EXCEPT ![now] = @ \cup {new}]
  /\ UNCHANGED <<cache, entries, expires, granted, now, requestVars>>

\* POST /admin/api-keys, or the key that init_db seeds.
Create(n) == row = Absent /\ Change([active |-> TRUE, limit |-> n])

\* PATCH: either field may be missing from the payload.
Update(n, active) == row # Absent /\ Change([active |-> active, limit |-> n])

\* DELETE
Revoke == row # Absent /\ Change([row EXCEPT !.active = FALSE])

\* Redis drops what has expired.  No call of Redis outlasts MaxDelay.
Tick ==
  /\ now < MaxNow
  /\ \A q \in Request :
       phase[q] \in {"filling", "refusing", "checking"} => now < since[q] + MaxDelay
  /\ now' = now + 1
  /\ was' = [was EXCEPT ![now + 1] = {row}]
  /\ cache' = IF cache.until <= now + 1 THEN Nothing ELSE cache
  /\ IF expires <= now + 1
     THEN entries' = {} /\ expires' = 0
     ELSE UNCHANGED <<entries, expires>>
  /\ UNCHANGED <<row, changes, granted, requestVars>>

EvictKey ==
  /\ cache' = Nothing
  /\ UNCHANGED <<rowVars, entries, expires, granted, now, requestVars>>

EvictWindow ==
  /\ entries' = {} /\ expires' = 0 /\ granted' = {}
  /\ UNCHANGED <<rowVars, cache, now, requestVars>>

-----------------------------------------------------------------------------
(* APIKeyAuth.verify *)

\* Bug: a hit renews the entry.
LookUpRenewing(q) ==
  /\ \/ /\ cache.says = "valid"
        /\ Goto(q, {"new"}, "verified")
        /\ limit' = [limit EXCEPT ![q] = cache.limit]
        /\ cache' = [cache EXCEPT !.until = now + ValidTTL]
     \/ /\ cache.says = "invalid"
        /\ Goto(q, {"new"}, "rejected")
        /\ UNCHANGED <<limit, cache>>
     \/ /\ Goto(q, {"new"}, "missed")
        /\ UNCHANGED <<limit, cache>>
  /\ UNCHANGED <<rowVars, entries, expires, granted, now, since>>

\* GET api_key:<token>; an error is a miss.
LookUp(q) ==
  /\ \/ /\ cache.says = "valid"
        /\ Goto(q, {"new"}, "verified")
        /\ limit' = [limit EXCEPT ![q] = cache.limit]
     \/ /\ cache.says = "invalid"
        /\ Goto(q, {"new"}, "rejected")
        /\ UNCHANGED limit
     \/ /\ Goto(q, {"new"}, "missed")
        /\ UNCHANGED limit
  /\ UNCHANGED <<rowVars, cache, entries, expires, granted, now, since>>

\* SELECT ... WHERE key_hash = ... AND is_active.  The commit of last_used_at
\* writes no other column, and its failure is ignored.
ReadRow(q) ==
  /\ Goto(q, {"missed"}, IF row.active THEN "filling" ELSE "refusing")
  /\ limit' = [limit EXCEPT ![q] = IF row.active THEN row.limit ELSE 0]
  /\ since' = [since EXCEPT ![q] = now]
  /\ UNCHANGED <<rowVars, cache, entries, expires, granted, now>>

\* Bug: refusals are kept as long as acceptances.
VerdictOneTTL(q) ==
  [says |-> IF phase[q] = "filling" THEN "valid" ELSE "invalid",
   limit |-> limit[q], until |-> now + ValidTTL]

\* What verify caches.
Verdict(q) ==
  IF phase[q] = "filling"
  THEN [says |-> "valid", limit |-> limit[q], until |-> now + ValidTTL]
  ELSE [says |-> "invalid", limit |-> 0, until |-> now + InvalidTTL]

\* SETEX; its failure is ignored.
Fill(q) ==
  /\ \/ Goto(q, {"filling"}, "verified")
     \/ Goto(q, {"refusing"}, "rejected")
  /\ cache' \in {Verdict(q), cache}
  /\ UNCHANGED <<rowVars, entries, expires, granted, now, limit, since>>

-----------------------------------------------------------------------------
(* RateLimiter.check_rate_limit *)

\* The time stamp is taken before the call.
Stamp(q) ==
  /\ Goto(q, {"verified"}, "checking")
  /\ since' = [since EXCEPT ![q] = now]
  /\ UNCHANGED <<rowVars, cache, entries, expires, granted, now, limit>>

\* ZREMRANGEBYSCORE key 0 win_start
Remaining(q) == {e \in entries : e.score + Window > since[q]}

\* count >= limit
Full(q) == Cardinality(Remaining(q)) >= limit[q]

\* Bug: the time stamp is the member, as it was in the original.
RecordedByTime(q) ==
  {e \in Remaining(q) : e.score # since[q]} \cup {[score |-> since[q], member |-> q]}

\* ZADD key now member
Recorded(q) == Remaining(q) \cup {[score |-> since[q], member |-> q]}

\* Bug: refused requests are recorded too.
ScriptCountingAll(q) ==
  /\ entries' = Recorded(q)
  /\ expires' = now + Window
  /\ granted' = IF Full(q) THEN granted ELSE granted \cup {[by |-> q, at |-> now]}

\* The Lua script, one step of Redis.
Script(q) ==
  \/ /\ Full(q)
     /\ entries' = Remaining(q)
     /\ UNCHANGED <<expires, granted>>
  \/ /\ ~Full(q)
     /\ entries' = Recorded(q)
     /\ expires' = now + Window
     /\ granted' = granted \cup {[by |-> q, at |-> now]}

\* The script runs and its answer decides.
Check(q) ==
  /\ Goto(q, {"checking"}, IF Full(q) THEN "limited" ELSE "allowed")
  /\ Script(q)
  /\ UNCHANGED <<rowVars, cache, now, limit, since>>

\* Redis cannot be reached, or the answer is lost: the request is allowed.
CheckFails(q) ==
  /\ Goto(q, {"checking"}, "allowed")
  /\ Script(q) \/ UNCHANGED <<entries, expires, granted>>
  /\ UNCHANGED <<rowVars, cache, now, limit, since>>

\* The database raises, or the process is lost.
Break(q) ==
  /\ Goto(q, {"new", "missed", "filling", "refusing", "verified", "checking"}, "broken")
  /\ UNCHANGED <<rowVars, cache, entries, expires, granted, now, limit, since>>

-----------------------------------------------------------------------------
Verify(q) == LookUp(q) \/ ReadRow(q) \/ Fill(q)

CheckRateLimit(q) == Stamp(q) \/ Check(q) \/ CheckFails(q)

Next ==
  \/ \E n \in Limits : Create(n) \/ \E active \in BOOLEAN : Update(n, active)
  \/ Revoke
  \/ Tick
  \/ EvictKey
  \/ EvictWindow
  \/ \E q \in Request : Verify(q) \/ CheckRateLimit(q) \/ Break(q)

Spec == Init /\ [][Next]_vars

-----------------------------------------------------------------------------
(* Properties *)

\* Whether the row has been in R less than d ago.
RecentlyIn(R, d) == \E t \in 0..now : now < t + d /\ was[t] \cap R # {}

\* A request gets past verify only with a limit that an active key has had less
\* than one life of a cached acceptance and one call ago, however fills of the
\* cache, changes of the key and failures of Redis interleave.
AcceptedWasActive ==
  [][\A q \in Request : phase[q] # "verified" /\ phase'[q] = "verified" =>
       RecentlyIn({[active |-> TRUE, limit |-> limit'[q]]}, ValidTTL + MaxDelay)]_vars

\* A request is refused only when the key was not active less than one life of
\* a cached refusal and one call ago: a failure of Redis locks nobody out, and
\* a key that is activated again works after at most that time.
RejectedWasInactive ==
  [][\A q \in Request : phase[q] # "rejected" /\ phase'[q] = "rejected" =>
       RecentlyIn({r \in Rows : ~r.active}, InvalidTTL + MaxDelay)]_vars

\* The requests recorded less than d ago.
Recent(G, d) == {g \in G : now < g.at + d}

\* The sliding window holds although time stamps reach Redis late and out of
\* order: whatever a request is granted, no more than its limit have been
\* granted in the window, less the time a call takes.
GrantedWithinLimit ==
  [][\A g \in granted' \ granted :
       Cardinality(Recent(granted', Window - MaxDelay)) <= limit[g.by]]_vars

\* 429 is answered only when as many requests as the limit were granted in the
\* window and the time of a call; refused requests do not count.  So a client
\* that waits as long after its last request is served again.
LimitedOnlyWhenFull ==
  [][\A q \in Request : phase[q] # "limited" /\ phase'[q] = "limited" =>
       Cardinality(Recent(granted, Window + MaxDelay)) >= limit[q]]_vars

-----------------------------------------------------------------------------
(* Why: the inductive invariant. *)

\* The history is that of the row.
HistoryFits == row \in was[now]

\* What a request is about to write was so when it was read, and that is not
\* longer ago than a call takes.
ReadsFit ==
  \A q \in Request :
    /\ phase[q] \in {"filling", "refusing", "checking"} =>
         since[q] <= now /\ now <= since[q] + MaxDelay
    /\ phase[q] = "filling" => [active |-> TRUE, limit |-> limit[q]] \in was[since[q]]
    /\ phase[q] = "refusing" => \E r \in was[since[q]] : ~r.active

\* What is cached was so when it was read, one call before it was cached.
CacheFits ==
  /\ cache.says # "nothing" => now < cache.until
  /\ cache.says = "valid" =>
       \E t \in 0..now : /\ cache.until <= t + ValidTTL + MaxDelay
                          /\ [active |-> TRUE, limit |-> cache.limit] \in was[t]
  /\ cache.says = "invalid" =>
       \E t \in 0..now : /\ cache.until <= t + InvalidTTL + MaxDelay
                          /\ \E r \in was[t] : ~r.active

\* The sorted set and the requests that were granted name each other, as long
\* as they are in the window.
WindowFits ==
  /\ IsFiniteSet(granted) /\ IsFiniteSet(entries)
  /\ \A g \in granted : phase[g.by] = "allowed" /\ g.at <= now
  /\ \A g, h \in granted : g.by = h.by => g = h
  /\ \A e, f \in entries : e.member = f.member => e = f
  /\ \A e \in entries : \E g \in granted :
       g.by = e.member /\ e.score <= g.at /\ g.at <= e.score + MaxDelay
  /\ \A g \in Recent(granted, Window - MaxDelay) : \E e \in entries :
       g.by = e.member /\ e.score <= g.at /\ g.at <= e.score + MaxDelay
  /\ \A g \in granted : now < g.at + Window => g.at + Window <= expires

IInv == TypeOK /\ HistoryFits /\ ReadsFit /\ CacheFits /\ WindowFits

=============================================================================
