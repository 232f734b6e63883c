------------------------------ MODULE RateLimit ------------------------------
(***************************************************************************)
(* RateLimit: the two RateLimiters of the /v1 router, "general" before the *)
(* protected routes and "login" before the public ones, as the worker      *)
(* threads of the API call them beside the wiring of the caches.           *)
(*                                                                         *)
(* A limiter counts in Redis once a cache of that name is registered, and  *)
(* in a dictionary of its own before that.  The key is the host alone, so  *)
(* in Redis both limiters count in one sorted set.                         *)
(*                                                                         *)
(* Abstracted: an entry of the dictionary's list is the call that wrote    *)
(* it, which tells equal times apart; every unlock names the same server.  *)
(* External: Redis, which runs the four commands of a pipeline in one      *)
(* transaction, and may run them without its answer arriving: a client     *)
(* gives up after five seconds, or sends the pipeline again, as versions   *)
(* of redis-py from 6 on do.  EXPIRE drops a set when all of it is out of  *)
(* the window, which the next call would do anyway: it is left out.  Time  *)
(* is counted in ticks, and two calls of one tick share one member of the  *)
(* sorted set, as calls with equal time.time() do.                         *)
(***************************************************************************)
EXTENDS Backends

CONSTANTS
  Redis,        \* "redis", the name _redis_available looks up
  Calls,        \* requests to the limiters: bounds them
  Hosts,        \* request.client.host
  NoHost,       \* of a call that has not come
  GeneralLimit, \* config.rate_limit_per_minute
  LoginLimit,   \* config.rate_limit_login_per_minute
  Window,       \* seconds, here ticks
  MaxTime       \* bounds the clock

ASSUME RedisAssumption == Redis \in Caches
ASSUME CallsAssumption == IsFiniteSet(Calls)
ASSUME LimitAssumption == GeneralLimit \in Nat /\ LoginLimit \in Nat
ASSUME HostAssumption  == NoHost \notin Hosts
ASSUME TimeAssumption  == Window \in Nat \ {0} /\ MaxTime \in Nat

VARIABLES
  now,      \* time.time()
  local,    \* self._local of each limiter: per host a list of times
  zset,     \* in Redis: per host the set of times
  call      \* per call: where it is, and what it was answered

limiting  == <<now, local, zset, call>>
limitVars == <<wiring, api, limiting>>

Limiters == {"general", "login"}
Limit(l) == IF l = "login" THEN LoginLimit ELSE GeneralLimit
Times    == 0 .. MaxTime

\* where a call counts: in the dictionary of its limiter, or in Redis
Stores == Limiters \cup {"redis"}

NewCall == [pc |-> "new", limiter |-> "general", host |-> NoHost, store |-> "redis",
            at |-> 0, read |-> {}, ran |-> FALSE, alone |-> TRUE, ok |-> FALSE]

CallKind == [pc : {"new", "chosen", "timed", "read", "done", "failed"}, limiter : Limiters,
             host : Hosts \cup {NoHost}, store : Stores, at : Times, read : SUBSET Calls,
             ran : BOOLEAN, alone : BOOLEAN, ok : BOOLEAN]

LimitsTypeOK ==
  /\ now \in Times
  /\ local \in [Limiters -> [Hosts -> SUBSET Calls]]
  /\ zset \in [Hosts -> SUBSET Times]
  /\ call \in [Calls -> CallKind]
  /\ \A c \in Calls : /\ call[c].at <= now
                      /\ call[c].pc # "new" => call[c].host \in Hosts
  /\ \A h \in Hosts : \A a \in zset[h] : a <= now

LimitsInit ==
  /\ Init
  /\ now = 0
  /\ local = [l \in Limiters |-> [h \in Hosts |-> {}]]
  /\ zset = [h \in Hosts |-> {}]
  /\ call = [c \in Calls |-> NewCall]

-----------------------------------------------------------------------------
\* the calls under way that count in the same place
UnderWay(c)    == call[c].pc \in {"timed", "read"}
Meeting(s, h)  == {c \in Calls : UnderWay(c) /\ call[c].store = s /\ call[c].host = h}

\* __call__: the dependency of a route, which asks _redis_available
Enter(c, l, h) ==
  /\ call[c].pc = "new"
  /\ call' = [call EXCEPT ![c] =
                [NewCall EXCEPT !.pc = "chosen", !.limiter = l, !.host = h,
                                !.store = IF Registered(registry, Redis) THEN "redis" ELSE l]]
  /\ UNCHANGED <<now, local, zset>>

\* Mutant of TakeTime: the clock is rounded up.
TakeTimeRounded(c) ==
  /\ call[c].pc = "chosen"
  /\ call' = [call EXCEPT ![c].pc = "timed", ![c].at = now + 1]
  /\ UNCHANGED <<now, local, zset>>

\* the first step of either check: now = time.time()
TakeTime(c) ==
  LET meet == Meeting(call[c].store, call[c].host)
  IN  /\ call[c].pc = "chosen"
      /\ call' = [d \in Calls |->
                    IF d = c
                    THEN [call[c] EXCEPT !.pc = "timed", !.at = now, !.alone = (meet = {})]
                    ELSE IF d \in meet THEN [call[d] EXCEPT !.alone = FALSE] ELSE call[d]]
      /\ UNCHANGED <<now, local, zset>>

\* the answer: 429 beyond the limit, otherwise the route's handler goes on
Decide(c, count) ==
  call' = [call EXCEPT ![c] = [call[c] EXCEPT !.pc = "done", !.read = {}, !.ran = FALSE,
                                              !.ok = (count <= Limit(call[c].limiter))]]

\* Mutant of CheckRedis: the times are counted before the new one is added.
CheckRedisBefore(c) ==
  LET h    == call[c].host
      left == {a \in zset[h] : a + Window > call[c].at}
  IN  /\ call[c].pc = "timed" /\ call[c].store = "redis"
      /\ zset' = [zset EXCEPT ![h] = left \cup {call[c].at}]
      /\ Decide(c, Cardinality(left))
      /\ UNCHANGED <<now, local>>

\* the set after ZADD of the time and ZREMRANGEBYSCORE up to the window before it
InWindow(c) == {a \in zset[call[c].host] \cup {call[c].at} : a + Window > call[c].at}

\* _check_redis: ZADD, ZREMRANGEBYSCORE and ZCARD in one transaction
CheckRedis(c) ==
  /\ call[c].pc = "timed" /\ call[c].store = "redis"
  /\ zset' = [zset EXCEPT ![call[c].host] = InWindow(c)]
  /\ Decide(c, Cardinality(InWindow(c)))
  /\ UNCHANGED <<now, local>>

\* Redis runs the pipeline and the answer is lost, or comes when nobody waits for
\* it any more: the call still waits, and the client may send it again, or the
\* request has failed, and is counted all the same
RedisRuns(c) ==
  /\ call[c].pc \in {"timed", "failed"} /\ call[c].store = "redis"
  /\ zset' = [zset EXCEPT ![call[c].host] = InWindow(c)]
  /\ call' = [call EXCEPT ![c].ran = TRUE]
  /\ UNCHANGED <<now, local>>

\* pipe.execute raises, as when no answer came within the timeout of the adapter:
\* the request fails, and what it sent may still be on its way
RedisFails(c) ==
  /\ call[c].pc = "timed" /\ call[c].store = "redis"
  /\ call' = [call EXCEPT ![c].pc = "failed"]
  /\ UNCHANGED <<now, local, zset>>

\* _check_local reads the list ...
ReadLocal(c) ==
  /\ call[c].pc = "timed" /\ call[c].store # "redis"
  /\ call' = [call EXCEPT ![c].pc = "read", ![c].read = local[call[c].store][call[c].host]]
  /\ UNCHANGED <<now, local, zset>>

\* Mutant of StoreLocal: the bound of the window is counted in it.
StoreLocalInclusive(c) ==
  LET times == {d \in call[c].read : call[d].at + Window >= call[c].at} \cup {c}
  IN  /\ call[c].pc = "read"
      /\ local' = [local EXCEPT ![call[c].store][call[c].host] = times]
      /\ Decide(c, Cardinality(times))
      /\ UNCHANGED <<now, zset>>

\* ... and writes back what is in the window, with the new time
StoreLocal(c) ==
  LET times == {d \in call[c].read : call[d].at + Window > call[c].at} \cup {c}
  IN  /\ call[c].pc = "read"
      /\ local' = [local EXCEPT ![call[c].store][call[c].host] = times]
      /\ Decide(c, Cardinality(times))
      /\ UNCHANGED <<now, zset>>

Tick ==
  /\ now < MaxTime /\ now' = now + 1
  /\ UNCHANGED <<local, zset, call>>

-----------------------------------------------------------------------------
LimitStep ==
  \/ Tick
  \/ \E c \in Calls :
       \/ \E l \in Limiters, h \in Hosts : Enter(c, l, h)
       \/ TakeTime(c) \/ CheckRedis(c) \/ RedisRuns(c) \/ RedisFails(c)
       \/ ReadLocal(c) \/ StoreLocal(c)

\* sessions and the requests behind the limiters register nothing: they are left out
LimitsNext ==
  \/ ((\E names \in SUBSET Names : Unlock(names)) \/ Rewire) /\ UNCHANGED <<api, limiting>>
  \/ LimitStep /\ UNCHANGED <<wiring, api>>

LimitsSpec == LimitsInit /\ [][LimitsNext]_limitVars

-----------------------------------------------------------------------------
(* Properties *)

\* the calls that counted in s for the host h after time a - Window
Counts(c) == call[c].pc = "done" \/ call[c].ran
Recent(s, h, a) ==
  {c \in Calls : /\ Counts(c) /\ call[c].store = s /\ call[c].host = h
                 /\ call[c].at + Window > a}

Rejected(c) == call[c].pc = "done" /\ ~call[c].ok

\* Nobody is rejected for what others do, or for calls that left the window: at a
\* 429 more calls than the limit, the rejected one included, counted in the same
\* place for the same host.  A request that failed because the answer of Redis
\* was lost counts there too.  So does, in Redis, a request to the other limiter:
\* SECURITY.md says "max login attempts", but the key is the host for both.
RejectedOnlyOverLimit ==
  [][\A c \in Calls : Rejected(c)' /\ ~Rejected(c) =>
       Cardinality(Recent(call[c].store, call[c].host, call[c].at)') > Limit(call[c].limiter)
    ]_limitVars

Distinct(calls) == \A c, d \in calls : c # d => call[c].at # call[d].at

\* In no window are more calls of a host admitted than the limit, if none of them
\* overlapped another one, and, in Redis, no two had the same time.  (Overlapping
\* checks of the dictionary overwrite each other, although SECURITY.md calls it safe
\* for one process; equal times are one member.)
\* Requests that failed, whether Redis counts them or not, do not raise it.
AdmittedWithinLimit ==
  \A s \in Stores, h \in Hosts, a \in Times :
    LET calls == {c \in Recent(s, h, a) : call[c].pc = "done" /\ call[c].at <= a}
    IN  (\A c \in calls : call[c].alone) /\ (s = "redis" => Distinct(calls)) =>
          \A l \in Limiters :
            Cardinality({c \in calls : call[c].limiter = l /\ call[c].ok}) <= Limit(l)
=============================================================================
