---------------------------- MODULE RateLimiter -----------------------------
(***************************************************************************)
(* Limiter.Allow of internal/ratelimit/limiter.go: a fixed window per key, *)
(* counted in Redis or, when Redis does not answer, in memory. The handler *)
(* of a join calls it with the address of the client as key.               *)
(*                                                                         *)
(* Time is counted in ticks, each window by what is left of it. What Redis *)
(* and memory have counted and allowed in the last Window ticks, and how   *)
(* often they lost their counters, is kept beside them, to state what the  *)
(* counters are for. No loss takes anything off that record.               *)
(***************************************************************************)
EXTENDS Integers, FiniteSets, Sums

LOCAL INSTANCE FiniteSetsExt

CONSTANTS
  Keys,
  Limit,          \* attempts allowed per window; a limiter with 0 is off
  Window,         \* ticks of a window: one minute
  PruneThreshold, \* 1024
  MaxAttempts,    \* bound on what both counters count in Window ticks
  MaxLosses       \* bound on the losses of all counters in Window ticks

ASSUME RateLimiterAssumption ==
  /\ IsFiniteSet(Keys)
  /\ Limit \in Nat \ {0}
  /\ Window \in Nat \ {0}
  /\ PruneThreshold \in Nat
  /\ MaxAttempts \in Nat
  /\ MaxLosses \in Nat

VARIABLES
  redis,    \* rl:{key}: counter and time to live, both 0 without the key
  windows,  \* Limiter.windows: count and what is left until resetAt
  known,    \* the keys of Limiter.windows
  falling,  \* calls that Redis did not answer, before they count in memory
  counted,  \* attempts each counter has counted, by their age
  allowed,  \* those it has allowed
  lost      \* how often Redis, or memory, has lost all it counted, by age

vars == <<redis, windows, known, falling, counted, allowed, lost>>

Counters == {"redis", "memory"}
Ages == 1..Window
Nothing == [count |-> 0, left |-> 0]
NoHistory == [s \in Counters |-> [k \in Keys |-> [a \in Ages |-> 0]]]

Recently(history, s, k) == SumOf(history[s][k], Window)

Noted(history, s, k) == [history EXCEPT ![s][k][1] = @ + 1]

Init ==
  /\ redis = [k \in Keys |-> Nothing]
  /\ windows = [k \in Keys |-> Nothing]
  /\ known = {}
  /\ falling = [k \in Keys |-> 0]
  /\ counted = NoHistory
  /\ allowed = NoHistory
  /\ lost = [s \in Counters |-> [a \in Ages |-> 0]]

\* One more attempt is counted; count is what the counter then says.
Counts(s, k, count, answered) ==
  /\ counted' = Noted(counted, s, k)
  /\ allowed' = IF answered /\ count <= Limit THEN Noted(allowed, s, k) ELSE allowed

Attempts(k) ==
  Recently(counted, "redis", k) + Recently(counted, "memory", k) + falling[k]

CanAttempt == MapThenSumSet(Attempts, Keys) < MaxAttempts

-----------------------------------------------------------------------------
(* Redis *)

IncrOnly(r) == [r EXCEPT !.count = @ + 1]   \* mutant: no EXPIRE

IncrAndExpire(r) == [count |-> r.count + 1, left |-> Window]   \* mutant: EXPIRE without NX

\* INCR and EXPIRE NX, in one MULTI.
IncrExpireNX(r) ==
  [count |-> r.count + 1, left |-> IF r.left = 0 THEN Window ELSE r.left]

\* countInRedis, which answers, fails, or has counted and reports an error.
CountInRedis(k, o) ==
  /\ CanAttempt
  /\ falling' = IF o = "ok" THEN falling ELSE [falling EXCEPT ![k] = @ + 1]
  /\ \/ /\ o # "fail"
        /\ redis' = [redis EXCEPT ![k] = IncrExpireNX(@)]
        /\ Counts("redis", k, redis[k].count + 1, o = "ok")
     \/ /\ o = "fail"
        /\ UNCHANGED <<redis, counted, allowed>>
  /\ UNCHANGED <<windows, known, lost>>

-----------------------------------------------------------------------------
(* Memory *)

Expired == {k \in known : windows[k].left = 0}

KnownAll == known   \* mutant: windows that still run are removed

\* pruneExpired removes these.
Pruned == Expired

\* Limiter.windows when the key is looked up.
Kept == IF Cardinality(known) > PruneThreshold THEN known \ Pruned ELSE known

CountInMemory(k) ==
  /\ falling[k] > 0
  /\ falling' = [falling EXCEPT ![k] = @ - 1]
  /\ known' = Kept \cup {k}
  /\ LET w == IF k \in Kept /\ windows[k].left > 0 THEN windows[k]
              ELSE [count |-> 0, left |-> Window]
     IN /\ windows' = [i \in Keys |-> IF i = k THEN [w EXCEPT !.count = @ + 1]
                                      ELSE IF i \in Kept THEN windows[i] ELSE Nothing]
        /\ Counts("memory", k, w.count + 1, TRUE)
  /\ UNCHANGED <<redis, lost>>

-----------------------------------------------------------------------------
(* Time, and what is lost *)

\* A tick later, all of a history is one tick older.
Older(h) == [a \in Ages |-> IF a = 1 THEN 0 ELSE h[a - 1]]

Later(history) == [s \in Counters |-> [k \in Keys |-> Older(history[s][k])]]

\* Redis drops a key whose time is up; memory keeps it until the next attempt.
Tick ==
  /\ redis' = [k \in Keys |-> IF redis[k].left <= 1 THEN Nothing
                              ELSE [redis[k] EXCEPT !.left = @ - 1]]
  /\ windows' = [k \in Keys |-> IF windows[k].left = 0 THEN windows[k]
                                ELSE [windows[k] EXCEPT !.left = @ - 1]]
  /\ counted' = Later(counted)
  /\ allowed' = Later(allowed)
  /\ lost' = [s \in Counters |-> Older(lost[s])]
  /\ UNCHANGED <<known, falling>>

LostRecently(s) == SumOf(lost[s], Window)

Forget(s) ==
  /\ LostRecently(s) < MaxLosses
  /\ lost' = [lost EXCEPT ![s][1] = @ + 1]
  /\ UNCHANGED <<counted, allowed>>

\* Redis comes back empty.
RedisForgets ==
  /\ redis' = [k \in Keys |-> Nothing]
  /\ Forget("redis")
  /\ UNCHANGED <<windows, known, falling>>

\* The server starts again.
Restart ==
  /\ windows' = [k \in Keys |-> Nothing]
  /\ known' = {}
  /\ falling' = [k \in Keys |-> 0]
  /\ Forget("memory")
  /\ UNCHANGED redis

Next ==
  \/ \E k \in Keys :
       CountInMemory(k) \/ \E o \in {"ok", "fail", "lost"} : CountInRedis(k, o)
  \/ Tick \/ RedisForgets \/ Restart

Spec == Init /\ [][Next]_vars

-----------------------------------------------------------------------------
(* Properties *)

Counter == [count : Nat, left : 0..Window]
History == [Counters -> [Keys -> [Ages -> Nat]]]

\* Every variable has its type. A counter in Redis always has a time to live,
\* without which it would refuse its key for ever, and memory has a window for
\* the keys it knows.
TypeOK ==
  /\ redis \in [Keys -> Counter]
  /\ windows \in [Keys -> Counter]
  /\ known \subseteq Keys
  /\ falling \in [Keys -> Nat]
  /\ counted \in History
  /\ allowed \in History
  /\ lost \in [Counters -> [Ages -> Nat]]
  /\ \A k \in Keys : redis[k].count > 0 <=> redis[k].left > 0
  /\ \A k \in Keys : k \in known <=> windows[k].count > 0

\* The count an attempt would find.
Found(s, k) ==
  CASE s = "redis" -> redis[k].count
    [] s = "memory" -> IF windows[k].left > 0 THEN windows[k].count ELSE 0

\* Nobody is refused who has not tried that often in the last minute: what a
\* counter holds against a key are attempts it has counted in the last Window
\* ticks, whatever was counted elsewhere while Redis came and went.
RefusedOnlyIfBusy ==
  \A s \in Counters, k \in Keys : Found(s, k) <= Recently(counted, s, k)

\* In any Window ticks a counter lets fewer attempts of a key through than two
\* windows' worth, and one window's worth more for each time it was lost in
\* those ticks: windows are fixed and not sliding, and a counter that is lost
\* starts a new one. While Redis comes and goes both counters may do so.
BurstsAreBounded ==
  \A s \in Counters, k \in Keys :
    Recently(allowed, s, k) < (2 + LostRecently(s)) * Limit

=============================================================================
