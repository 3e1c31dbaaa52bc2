------------------------- MODULE RateLimiterProofs --------------------------
(***************************************************************************)
(* What the limiter promises for every set of keys, limit, length of the   *)
(* window and pruning threshold, however often Redis comes and goes and    *)
(* the server restarts.                                                    *)
(*                                                                         *)
(* A window that has left ticks to run began Window - left ticks ago: what *)
(* was counted in it is part of the first Window - left + 1 ages, and what *)
(* was counted later than in its first tick is all its own. The invariant  *)
(* bounds what was let through over the first n ages, for every n, by the  *)
(* windows that can have begun in them: one for each loss, one that an     *)
(* expired one made room for, and the one that runs.                       *)
(***************************************************************************)
EXTENDS RateLimiter, SumsProofs, TLAPS

-----------------------------------------------------------------------------
(* The inductive invariant *)

\* The ages that lie in a window.
Elapsed(c) == Window - c.left + 1

\* What n ages may have let through without the window that runs, if any: what
\* one window may, and another for every loss, less one attempt.
Allowance(gone, n) == (1 + SumOf(gone, n)) * Limit

\* A counter in its window has counted what it says, and since the first tick
\* of the window, whose first attempt is not among them, has let fewer through.
\* What was let through before fits into the allowance.
WindowHolds(c, seen, let, gone) ==
  /\ c.left > 0 =>
       /\ c.count <= SumOf(seen, Elapsed(c))
       /\ \A n \in 0..(Elapsed(c) - 1) : SumOf(let, n) < c.count /\ SumOf(let, n) < Limit
       /\ \A n \in 0..Window : /\ SumOf(let, n) < c.count + Allowance(gone, n)
                               /\ SumOf(let, n) < Limit + Allowance(gone, n)
  /\ c.left = 0 => \A n \in 0..Window : SumOf(let, n) < Allowance(gone, n)

\* The counter of a key, in Redis or in memory.
Held(s, k) == IF s = "redis" THEN redis[k] ELSE windows[k]

IInv ==
  /\ TypeOK
  /\ \A k \in Keys : windows[k].left > 0 => windows[k].count > 0
  /\ \A s \in Counters, k \in Keys : WindowHolds(Held(s, k), counted[s][k], allowed[s][k], lost[s])

-----------------------------------------------------------------------------
(* One counter *)

Tally == [Ages -> Nat]

\* One more attempt in the last tick.
OneMore(h) == [h EXCEPT ![1] = @ + 1]

None == [a \in Ages |-> 0]

\* What an attempt makes of a counter.
Counted(c) == [count |-> c.count + 1, left |-> IF c.left = 0 THEN Window ELSE c.left]

\* The sums of a history are naturals, and grow with the ages they reach.
LEMMA SumsOfTally ==
  ASSUME NEW h \in Tally
  PROVE  /\ \A n \in 0..Window : SumOf(h, n) \in Nat
         /\ \A m, n \in 0..Window : m <= n => SumOf(h, m) <= SumOf(h, n)
<1>1. Window \in Nat /\ \A n \in 1..Window : h[n] \in Nat
  BY RateLimiterAssumption DEF Tally, Ages
<1>2. ASSUME NEW n \in 0..Window
      PROVE  n \in Nat /\ \A a \in 1..n : h[a] \in Nat
  BY <1>1
<1> QED
  BY <1>2, SumIsNatural, SumGrows

\* An attempt adds one to every sum.
LEMMA SumsOfOneMore ==
  ASSUME NEW h \in Tally
  PROVE  /\ OneMore(h) \in Tally
         /\ SumOf(OneMore(h), 0) = 0
         /\ \A n \in 1..Window : SumOf(OneMore(h), n) = SumOf(h, n) + 1
<1>1. Window \in Nat /\ 1 \in Ages
  BY RateLimiterAssumption DEF Ages
<1>2. /\ \A n \in 1..Window : h[n] \in Nat
      /\ OneMore(h)[1] = h[1] + 1
      /\ \A n \in 2..Window : OneMore(h)[n] = h[n]
  BY <1>1 DEF Tally, OneMore, Ages
<1>3. OneMore(h) \in Tally
  BY <1>1 DEF Tally, OneMore, Ages
<1> QED
  BY <1>1, <1>2, <1>3, SumOfOneMore, SumOfNone

\* A tick moves the sums one age on.
LEMMA SumsOfOlder ==
  ASSUME NEW h \in Tally
  PROVE  /\ Older(h) \in Tally
         /\ SumOf(Older(h), 0) = 0
         /\ \A n \in 0..(Window - 1) : SumOf(Older(h), n + 1) = SumOf(h, n)
<1>1. Window \in Nat \ {0} /\ Window - 1 \in Nat
  BY RateLimiterAssumption
<1>2. Older(h) \in Tally
  BY <1>1 DEF Tally, Older, Ages
<1>3. /\ \A n \in 1..(Window - 1) : h[n] \in Nat
      /\ Older(h)[1] = 0
      /\ \A n \in 1..(Window - 1) : Older(h)[n + 1] = h[n]
  BY <1>1 DEF Tally, Older, Ages
<1>4. \A n \in 0..(Window - 1) : SumOf(Older(h), n + 1) = SumOf(h, n)
  BY <1>1, <1>3, SumOfShifted
<1> QED
  BY <1>2, <1>4, SumOfNone

\* The sums of an empty history.
LEMMA SumsOfNone == None \in Tally /\ \A n \in 0..Window : SumOf(None, n) = 0
<1>1. None \in Tally /\ Window \in Nat
  BY RateLimiterAssumption DEF None, Tally
<1>2. ASSUME NEW n \in 0..Window
      PROVE  SumOf(None, n) = 0
  <2>1. n \in Nat /\ \A a \in 1..n : None[a] \in Nat /\ None[a] <= 0
    BY <1>1 DEF None, Ages
  <2>2. SumOf(None, n) \in Nat /\ SumOf(None, n) <= 0 * n
    BY <2>1, SumIsNatural, SumIsBounded
  <2> QED
    BY <2>1, <2>2
<1> QED
  BY <1>1, <1>2

\* An allowance is at least the limit, which it is for no ages.
LEMMA AllowanceIsNatural ==
  ASSUME NEW h \in Tally
  PROVE  /\ Allowance(h, 0) = Limit
         /\ \A n \in 0..Window : Allowance(h, n) \in Nat /\ Limit <= Allowance(h, n)
<1>1. Limit \in Nat
  BY RateLimiterAssumption
<1>2. ASSUME NEW x \in Nat
      PROVE  (1 + x) * Limit \in Nat /\ Limit <= (1 + x) * Limit
  <2>1. x * Limit \in Nat /\ (1 + x) * Limit = Limit + x * Limit
    BY <1>1, SMT
  <2> QED
    BY <1>1, <2>1
<1>3. \A n \in 0..Window : SumOf(h, n) \in Nat
  BY SumsOfTally
<1>4. Allowance(h, 0) = (1 + 0) * Limit
  BY SumOfNone DEF Allowance
<1> QED
  BY <1>1, <1>2, <1>3, <1>4 DEF Allowance

\* A loss raises it by the limit.
LEMMA AllowanceOfLoss ==
  ASSUME NEW h \in Tally
  PROVE  \A n \in 1..Window : Allowance(OneMore(h), n) = Allowance(h, n) + Limit
<1> SUFFICES ASSUME NEW n \in 1..Window
             PROVE  Allowance(OneMore(h), n) = Allowance(h, n) + Limit
  OBVIOUS
<1>1. Window \in Nat /\ Limit \in Nat
  BY RateLimiterAssumption
<1>2. SumOf(h, n) \in Nat
  <2>1. n \in 0..Window
    BY <1>1
  <2> QED
    BY <2>1, SumsOfTally
<1>3. SumOf(OneMore(h), n) = SumOf(h, n) + 1
  BY SumsOfOneMore
<1>4. ASSUME NEW x \in Nat
      PROVE  (1 + (x + 1)) * Limit = (1 + x) * Limit + Limit
  BY <1>1, SMT
<1> QED
  BY <1>2, <1>3, <1>4 DEF Allowance

\* A tick moves it one age on.
LEMMA AllowanceOfOlder ==
  ASSUME NEW h \in Tally
  PROVE  \A n \in 0..(Window - 1) : Allowance(Older(h), n + 1) = Allowance(h, n)
BY SumsOfOlder DEF Allowance

\* An attempt that is counted, and allowed if the count is within the limit.
LEMMA AttemptKeepsWindow ==
  ASSUME NEW c \in Counter, c.left = 0 => c.count = 0,
         NEW seen \in Tally, NEW let \in Tally, NEW gone \in Tally,
         WindowHolds(c, seen, let, gone), NEW after \in {let, OneMore(let)},
         after = OneMore(let) => c.count + 1 <= Limit
  PROVE  WindowHolds(Counted(c), OneMore(seen), after, gone)
<1> DEFINE d == Counted(c)
<1>1. /\ c.count \in Nat /\ c.left \in 0..Window
      /\ Window \in Nat \ {0} /\ Limit \in Nat \ {0}
  BY RateLimiterAssumption DEF Counter
<1>2. /\ d.count = c.count + 1
      /\ d.left = IF c.left = 0 THEN Window ELSE c.left
      /\ d.left > 0
  BY <1>1 DEF Counted
<1>3. PICK i \in {0, 1} : /\ \A n \in 1..Window : SumOf(after, n) = SumOf(let, n) + i
                          /\ i = 1 => c.count + 1 <= Limit
  <2>1. CASE after = OneMore(let)
    BY <2>1, SumsOfOneMore
  <2>2. CASE after = let
    <3>1. \A n \in 1..Window : SumOf(let, n) = SumOf(let, n) + 0
      BY SumsOfTally
    <3> QED
      BY <2>2, <3>1
  <2> QED
    BY <2>1, <2>2
<1>4. /\ SumOf(after, 0) = 0
      /\ \A n \in 0..Window : SumOf(let, n) \in Nat
      /\ \A n \in 0..Window : Allowance(gone, n) \in Nat /\ Limit <= Allowance(gone, n)
  BY SumOfNone, SumsOfTally, AllowanceIsNatural
<1>5. /\ Elapsed(d) \in 1..Window
      /\ SumOf(seen, Elapsed(d)) \in Nat
      /\ SumOf(OneMore(seen), Elapsed(d)) = SumOf(seen, Elapsed(d)) + 1
  <2>1. Elapsed(d) \in 1..Window /\ Elapsed(d) \in 0..Window
    BY <1>1, <1>2 DEF Elapsed
  <2> QED
    BY <2>1, SumsOfTally, SumsOfOneMore
<1> HIDE DEF d
<1>6. CASE c.left = 0
  <2>1. Elapsed(d) = 1 /\ d.count = 1
    BY <1>1, <1>2, <1>6 DEF Elapsed
  <2>2. ASSUME NEW n \in 0..Window
        PROVE  /\ SumOf(after, n) < d.count + Allowance(gone, n)
               /\ SumOf(after, n) < Limit + Allowance(gone, n)
    <3>1. SumOf(let, n) < Allowance(gone, n)
      BY <1>6, <2>2 DEF WindowHolds
    <3>2. SumOf(after, n) <= SumOf(let, n) + 1
      BY <1>1, <1>3, <1>4, <2>2
    <3>3. SumOf(after, n) \in Nat
      BY <1>1, <1>3, <1>4, <2>2
    <3> QED
      BY <1>1, <1>4, <2>1, <2>2, <3>1, <3>2, <3>3
  <2>3. ASSUME NEW n \in 0..(Elapsed(d) - 1)
        PROVE  SumOf(after, n) < d.count /\ SumOf(after, n) < Limit
    <3>1. n = 0
      BY <2>1
    <3> QED
      BY <1>1, <1>4, <2>1, <3>1
  <2>4. d.count <= SumOf(OneMore(seen), Elapsed(d))
    BY <1>5, <2>1
  <2> QED
    BY <1>1, <1>2, <2>2, <2>3, <2>4 DEF WindowHolds, d
<1>7. CASE c.left > 0
  <2>1. Elapsed(d) = Elapsed(c)
    BY <1>1, <1>2, <1>7 DEF Elapsed
  <2>2. ASSUME NEW n \in 0..Window
        PROVE  /\ SumOf(after, n) < d.count + Allowance(gone, n)
               /\ SumOf(after, n) < Limit + Allowance(gone, n)
    <3>1. /\ SumOf(let, n) < c.count + Allowance(gone, n)
          /\ SumOf(let, n) < Limit + Allowance(gone, n)
      BY <1>7, <2>2 DEF WindowHolds
    <3>2. CASE n = 0
      BY <1>1, <1>2, <1>4, <2>2, <3>2
    <3>3. CASE n # 0
      <4>1. SumOf(after, n) = SumOf(let, n) + i /\ SumOf(let, n) \in Nat
            /\ Allowance(gone, n) \in Nat
        BY <1>1, <1>3, <1>4, <2>2, <3>3
      <4> QED
        BY <1>1, <1>2, <1>3, <3>1, <4>1
    <3> QED
      BY <3>2, <3>3
  <2>3. ASSUME NEW n \in 0..(Elapsed(d) - 1)
        PROVE  SumOf(after, n) < d.count /\ SumOf(after, n) < Limit
    <3>1. SumOf(let, n) < c.count /\ SumOf(let, n) < Limit /\ n \in 0..Window
      BY <1>1, <1>5, <1>7, <2>1, <2>3 DEF WindowHolds
    <3>2. CASE n = 0
      BY <1>1, <1>2, <1>4, <3>2
    <3>3. CASE n # 0
      <4>1. SumOf(after, n) = SumOf(let, n) + i /\ SumOf(let, n) \in Nat
        BY <1>1, <1>3, <1>4, <3>1, <3>3
      <4> QED
        BY <1>1, <1>2, <1>3, <3>1, <4>1
    <3> QED
      BY <3>2, <3>3
  <2>4. d.count <= SumOf(OneMore(seen), Elapsed(d))
    <3>1. c.count <= SumOf(seen, Elapsed(d))
      BY <1>7, <2>1 DEF WindowHolds
    <3> QED
      BY <1>1, <1>2, <1>5, <3>1
  <2> QED
    BY <1>1, <1>2, <2>2, <2>3, <2>4 DEF WindowHolds, d
<1> QED
  BY <1>1, <1>6, <1>7 DEF d

\* A tick, after which the window has one tick less to run or is over.
LEMMA TickKeepsWindow ==
  ASSUME NEW c \in Counter, NEW d \in Counter,
         NEW seen \in Tally, NEW let \in Tally, NEW gone \in Tally,
         WindowHolds(c, seen, let, gone),
         \/ c.left <= 1 /\ d.left = 0
         \/ c.left > 1 /\ d.left = c.left - 1 /\ d.count = c.count
  PROVE  WindowHolds(d, Older(seen), Older(let), Older(gone))
<1>1. /\ c.count \in Nat /\ c.left \in 0..Window
      /\ Window \in Nat \ {0} /\ Limit \in Nat \ {0}
  BY RateLimiterAssumption DEF Counter
<1>2. /\ SumOf(Older(let), 0) = 0 /\ Allowance(Older(gone), 0) = Limit
      /\ \A n \in 1..Window :
           /\ n - 1 \in 0..Window
           /\ SumOf(Older(let), n) = SumOf(let, n - 1)
           /\ Allowance(Older(gone), n) = Allowance(gone, n - 1)
           /\ SumOf(let, n - 1) \in Nat
           /\ Allowance(gone, n - 1) \in Nat /\ Limit <= Allowance(gone, n - 1)
  <2>1. SumOf(Older(let), 0) = 0 /\ Allowance(Older(gone), 0) = Limit
    BY SumsOfOlder, AllowanceIsNatural
  <2>2. ASSUME NEW n \in 1..Window
        PROVE  /\ n - 1 \in 0..Window
               /\ SumOf(Older(let), n) = SumOf(let, n - 1)
               /\ Allowance(Older(gone), n) = Allowance(gone, n - 1)
    <3>1. n - 1 \in 0..(Window - 1) /\ n - 1 \in 0..Window /\ (n - 1) + 1 = n
      BY <1>1
    <3>2. /\ SumOf(Older(let), (n - 1) + 1) = SumOf(let, n - 1)
          /\ Allowance(Older(gone), (n - 1) + 1) = Allowance(gone, n - 1)
      BY <3>1, SumsOfOlder, AllowanceOfOlder
    <3> QED
      BY <3>1, <3>2
  <2> QED
    BY <2>1, <2>2, SumsOfTally, AllowanceIsNatural
<1>3. CASE c.left = 0
  <2>1. ASSUME NEW n \in 0..Window
        PROVE  SumOf(Older(let), n) < Allowance(Older(gone), n)
    <3>1. CASE n = 0
      BY <1>1, <1>2, <3>1
    <3>2. CASE n # 0
      BY <1>1, <1>2, <1>3, <2>1, <3>2 DEF WindowHolds
    <3> QED
      BY <3>1, <3>2
  <2>2. d.left = 0
    BY <1>1, <1>3
  <2> QED
    BY <1>1, <2>1, <2>2 DEF WindowHolds
<1>4. CASE c.left = 1
  <2>1. ASSUME NEW n \in 0..Window
        PROVE  SumOf(Older(let), n) < Allowance(Older(gone), n)
    <3>1. CASE n = 0
      BY <1>1, <1>2, <3>1
    <3>2. CASE n # 0
      <4>1. n \in 1..Window /\ n - 1 \in 0..(Elapsed(c) - 1)
        BY <1>1, <1>4, <2>1, <3>2 DEF Elapsed
      <4>2. SumOf(let, n - 1) < Limit
        BY <1>4, <4>1 DEF WindowHolds
      <4> QED
        BY <1>1, <1>2, <4>1, <4>2
    <3> QED
      BY <3>1, <3>2
  <2>2. d.left = 0
    BY <1>1, <1>4
  <2> QED
    BY <1>1, <2>1, <2>2 DEF WindowHolds
<1>5. CASE c.left > 1
  <2>1. /\ d.left = c.left - 1 /\ d.count = c.count /\ c.left > 0 /\ d.left > 0
        /\ Elapsed(d) = Elapsed(c) + 1
        /\ Elapsed(c) \in 0..(Window - 1) /\ Elapsed(c) \in 1..Window
    BY <1>1, <1>5 DEF Elapsed
  <2>2. c.count > 0
    <3>1. 0 \in 0..(Elapsed(c) - 1) /\ SumOf(let, 0) = 0
      BY <1>1, <2>1, SumOfNone
    <3> QED
      BY <2>1, <3>1 DEF WindowHolds
  <2>3. d.count <= SumOf(Older(seen), Elapsed(d))
    BY <2>1, SumsOfOlder DEF WindowHolds
  <2>4. ASSUME NEW n \in 0..(Elapsed(d) - 1)
        PROVE  SumOf(Older(let), n) < d.count /\ SumOf(Older(let), n) < Limit
    <3>1. CASE n = 0
      BY <1>1, <1>2, <2>1, <2>2, <3>1
    <3>2. CASE n # 0
      <4>1. n \in 1..Window /\ n - 1 \in 0..(Elapsed(c) - 1)
        BY <1>1, <2>1, <2>4, <3>2
      <4>2. SumOf(let, n - 1) < c.count /\ SumOf(let, n - 1) < Limit
        BY <2>1, <4>1 DEF WindowHolds
      <4> QED
        BY <1>2, <2>1, <4>1, <4>2
    <3> QED
      BY <3>1, <3>2
  <2>5. ASSUME NEW n \in 0..Window
        PROVE  /\ SumOf(Older(let), n) < d.count + Allowance(Older(gone), n)
               /\ SumOf(Older(let), n) < Limit + Allowance(Older(gone), n)
    <3>1. CASE n = 0
      BY <1>1, <1>2, <2>1, <2>2, <3>1
    <3>2. CASE n # 0
      <4>1. n \in 1..Window /\ n - 1 \in 0..Window
        BY <1>1, <2>5, <3>2
      <4>2. /\ SumOf(let, n - 1) < c.count + Allowance(gone, n - 1)
            /\ SumOf(let, n - 1) < Limit + Allowance(gone, n - 1)
        BY <2>1, <4>1 DEF WindowHolds
      <4> QED
        BY <1>2, <2>1, <4>1, <4>2
    <3> QED
      BY <3>1, <3>2
  <2> QED
    BY <2>1, <2>3, <2>4, <2>5 DEF WindowHolds
<1> QED
  BY <1>1, <1>3, <1>4, <1>5

\* A counter with a tick less to run.
LEMMA OneTickLess ==
  ASSUME NEW c \in Counter, c.left > 0
  PROVE  /\ [c EXCEPT !.left = @ - 1] \in Counter
         /\ [c EXCEPT !.left = @ - 1].left = c.left - 1
         /\ [c EXCEPT !.left = @ - 1].count = c.count
<1>1. [c EXCEPT !.left = @ - 1] = [count |-> c.count, left |-> c.left - 1]
  BY DEF Counter
<1>2. c.count \in Nat /\ c.left - 1 \in 0..Window
  BY RateLimiterAssumption DEF Counter
<1> QED
  BY <1>1, <1>2 DEF Counter

\* A counter that is lost: the window that ran is one of those the losses pay
\* for.
LEMMA LossKeepsWindow ==
  ASSUME NEW c \in Counter, NEW seen \in Tally, NEW let \in Tally, NEW gone \in Tally,
         WindowHolds(c, seen, let, gone)
  PROVE  WindowHolds(Nothing, seen, let, OneMore(gone))
<1>1. c.left \in 0..Window /\ Window \in Nat \ {0} /\ Limit \in Nat \ {0}
  BY RateLimiterAssumption DEF Counter
<1>2. ASSUME NEW n \in 0..Window
      PROVE  SumOf(let, n) < Allowance(OneMore(gone), n)
  <2>1. SumOf(let, n) \in Nat /\ Allowance(gone, n) \in Nat
    BY SumsOfTally, AllowanceIsNatural
  <2>2. SumOf(let, n) < Limit + Allowance(gone, n)
    <3>1. CASE c.left = 0
      <4>1. SumOf(let, n) < Allowance(gone, n)
        BY <3>1 DEF WindowHolds
      <4> QED
        BY <1>1, <2>1, <4>1
    <3>2. CASE c.left > 0
      BY <3>2 DEF WindowHolds
    <3> QED
      BY <1>1, <3>1, <3>2
  <2>3. CASE n = 0
    <3>1. SumOf(let, 0) = 0 /\ Allowance(OneMore(gone), 0) = Limit
      BY SumOfNone, SumsOfOneMore, AllowanceIsNatural
    <3> QED
      BY <1>1, <2>3, <3>1
  <2>4. CASE n # 0
    <3>1. n \in 1..Window
      BY <1>1, <1>2, <2>4
    <3>2. Allowance(OneMore(gone), n) = Allowance(gone, n) + Limit
      BY <3>1, AllowanceOfLoss
    <3> QED
      BY <1>1, <2>1, <2>2, <3>2
  <2> QED
    BY <2>3, <2>4
<1> QED
  BY <1>2 DEF WindowHolds, Nothing

\* A counter that has counted nothing.
LEMMA FreshWindow == WindowHolds(Nothing, None, None, None)
<1>1. Limit \in Nat \ {0}
  BY RateLimiterAssumption
<1>2. ASSUME NEW n \in 0..Window
      PROVE  SumOf(None, n) < Allowance(None, n)
  <2>1. None \in Tally /\ SumOf(None, n) = 0
    BY SumsOfNone
  <2>2. Allowance(None, n) \in Nat /\ Limit <= Allowance(None, n)
    BY <2>1, AllowanceIsNatural
  <2> QED
    BY <1>1, <2>1, <2>2
<1> QED
  BY <1>2 DEF WindowHolds, Nothing

-----------------------------------------------------------------------------
(* The limiter *)

\* What the two actions on a counter do to the histories, and to the others.
LEMMA HistoryTypes ==
  ASSUME TypeOK, NEW s \in Counters, NEW k \in Keys
  PROVE  /\ counted[s][k] \in Tally
         /\ allowed[s][k] \in Tally
         /\ lost[s] \in Tally
         /\ Held(s, k) \in Counter
         /\ Noted(counted, s, k) \in History
         /\ Noted(allowed, s, k) \in History
         /\ Noted(counted, s, k)[s][k] = OneMore(counted[s][k])
         /\ Noted(allowed, s, k)[s][k] = OneMore(allowed[s][k])
         /\ \A t \in Counters, i \in Keys : <<t, i>> # <<s, k>> =>
              /\ Noted(counted, s, k)[t][i] = counted[t][i]
              /\ Noted(allowed, s, k)[t][i] = allowed[t][i]
<1>1. 1 \in Ages
  BY RateLimiterAssumption DEF Ages
<1>2. ASSUME NEW h \in History
      PROVE  /\ h[s][k] \in Tally
             /\ Noted(h, s, k) \in History
             /\ Noted(h, s, k)[s][k] = OneMore(h[s][k])
             /\ \A t \in Counters, i \in Keys : <<t, i>> # <<s, k>> =>
                  Noted(h, s, k)[t][i] = h[t][i]
  <2>1. h[s] \in [Keys -> Tally] /\ h[s][k] \in Tally
    BY DEF History, Tally
  <2>2. OneMore(h[s][k]) \in Tally
    BY <2>1, SumsOfOneMore
  <2>3. Noted(h, s, k) = [h EXCEPT ![s] = [h[s] EXCEPT ![k] = OneMore(h[s][k])]]
    BY <2>1 DEF Noted, OneMore, History
  <2>4. [h[s] EXCEPT ![k] = OneMore(h[s][k])] \in [Keys -> Tally]
    BY <2>1, <2>2
  <2>5. Noted(h, s, k) \in History
    BY <2>3, <2>4 DEF History, Tally
  <2> HIDE DEF Tally
  <2> QED
    BY <2>1, <2>3, <2>5 DEF History
<1>3. Held(s, k) \in Counter /\ lost[s] \in Tally
  BY DEF Held, TypeOK, Tally
<1> QED
  BY <1>2, <1>3 DEF TypeOK

\* One more attempt at the counter s of the key k, which keeps what all of
\* them promise.
LEMMA AttemptKeepsAll ==
  ASSUME IInv, NEW s \in Counters, NEW k \in Keys, NEW c \in Counter,
         c.left = 0 => c.count = 0,
         WindowHolds(c, counted[s][k], allowed[s][k], lost[s]),
         UNCHANGED lost, counted' = Noted(counted, s, k),
         \/ allowed' = allowed
         \/ allowed' = Noted(allowed, s, k) /\ c.count + 1 <= Limit,
         Held(s, k)' = Counted(c),
         \A t \in Counters, i \in Keys : <<t, i>> # <<s, k>> =>
           WindowHolds(Held(t, i)', counted[t][i], allowed[t][i], lost[t])
  PROVE  /\ counted' \in History /\ allowed' \in History
         /\ \A t \in Counters, i \in Keys :
              WindowHolds(Held(t, i)', counted'[t][i], allowed'[t][i], lost'[t])
<1>1. TypeOK
  BY DEF IInv
<1>2. /\ counted' = Noted(counted, s, k)
      /\ \/ allowed' = allowed
         \/ allowed' = Noted(allowed, s, k) /\ c.count + 1 <= Limit
  OBVIOUS
<1>3. counted' \in History /\ allowed' \in History
  BY <1>1, <1>2, HistoryTypes DEF TypeOK
<1>4. counted'[s][k] = OneMore(counted[s][k]) /\ lost'[s] = lost[s]
  BY <1>1, <1>2, HistoryTypes
<1>5. WindowHolds(Held(s, k)', counted'[s][k], allowed'[s][k], lost'[s])
  <2>1. counted[s][k] \in Tally /\ allowed[s][k] \in Tally /\ lost[s] \in Tally
    BY <1>1, HistoryTypes
  <2>2. CASE allowed'[s][k] = OneMore(allowed[s][k]) /\ c.count + 1 <= Limit
    BY <1>4, <2>1, <2>2, AttemptKeepsWindow
  <2>3. CASE allowed'[s][k] = allowed[s][k] /\ allowed[s][k] # OneMore(allowed[s][k])
    BY <1>4, <2>1, <2>3, AttemptKeepsWindow
  <2>4. allowed[s][k] # OneMore(allowed[s][k])
    <3>1. 1 \in Ages
      BY RateLimiterAssumption DEF Ages
    <3> QED
      BY <2>1, <3>1 DEF OneMore, Tally
  <2> QED
    BY <1>1, <1>2, <2>2, <2>3, <2>4, HistoryTypes
<1>6. ASSUME NEW t \in Counters, NEW i \in Keys, <<t, i>> # <<s, k>>
      PROVE  WindowHolds(Held(t, i)', counted'[t][i], allowed'[t][i], lost'[t])
  <2>1. counted'[t][i] = counted[t][i] /\ allowed'[t][i] = allowed[t][i]
    BY <1>1, <1>2, <1>6, HistoryTypes
  <2> QED
    BY <1>6, <2>1
<1> QED
  BY <1>3, <1>5, <1>6

\* An attempt in Redis: INCR and EXPIRE NX leave a running window its end.
LEMMA CountInRedisKeepsIInv ==
  ASSUME IInv, NEW k \in Keys, NEW o \in {"ok", "fail", "lost"}, CountInRedis(k, o)
  PROVE  IInv'
<1>1. TypeOK /\ Window \in Nat \ {0}
  BY RateLimiterAssumption DEF IInv
<1>2. UNCHANGED <<windows, known, lost>> /\ falling' \in [Keys -> Nat]
  BY <1>1 DEF CountInRedis, TypeOK
<1>3. CASE UNCHANGED <<redis, counted, allowed>>
  BY <1>2, <1>3 DEF IInv, TypeOK, Held
<1>4. CASE /\ redis' = [redis EXCEPT ![k] = IncrExpireNX(@)]
           /\ Counts("redis", k, redis[k].count + 1, o = "ok")
  <2>1. redis[k] \in Counter /\ redis[k].left = 0 => redis[k].count = 0
    BY <1>1 DEF TypeOK, Counter
  <2>2. redis' = [redis EXCEPT ![k] = Counted(redis[k])]
    BY <1>4 DEF IncrExpireNX, Counted
  <2>3. /\ Counted(redis[k]) \in Counter
        /\ Counted(redis[k]).count > 0 /\ Counted(redis[k]).left > 0
    BY <1>1 DEF TypeOK, Counted, Counter
  <2>4. /\ redis' \in [Keys -> Counter]
        /\ \A i \in Keys : redis'[i].count > 0 <=> redis'[i].left > 0
    BY <1>1, <2>2, <2>3 DEF TypeOK
  <2>5. /\ Held("redis", k)' = Counted(redis[k])
        /\ \A t \in Counters, i \in Keys : <<t, i>> # <<"redis", k>> =>
             Held(t, i)' = Held(t, i)
    BY <1>1, <1>2, <2>2 DEF Held, TypeOK, Counters
  <2>6. WindowHolds(redis[k], counted["redis"][k], allowed["redis"][k], lost["redis"])
    BY DEF IInv, Held, Counters
  <2>7. \A t \in Counters, i \in Keys : <<t, i>> # <<"redis", k>> =>
          WindowHolds(Held(t, i)', counted[t][i], allowed[t][i], lost[t])
    BY <2>5 DEF IInv
  <2>8. /\ "redis" \in Counters
        /\ counted' = Noted(counted, "redis", k)
        /\ \/ allowed' = allowed
           \/ allowed' = Noted(allowed, "redis", k) /\ redis[k].count + 1 <= Limit
    BY <1>4 DEF Counters, Counts
  <2>9. redis[k].left = 0 => redis[k].count = 0
    BY <1>1 DEF TypeOK, Counter
  <2>10. /\ counted' \in History /\ allowed' \in History
         /\ \A t \in Counters, i \in Keys :
              WindowHolds(Held(t, i)', counted'[t][i], allowed'[t][i], lost'[t])
    <3>1. redis[k] \in Counter
      BY <1>1 DEF TypeOK
    <3> QED
      BY <1>2, <2>5, <2>6, <2>7, <2>8, <2>9, <3>1, AttemptKeepsAll
  <2> QED
    BY <1>1, <1>2, <2>4, <2>10 DEF IInv, TypeOK
<1> QED
  BY <1>3, <1>4 DEF CountInRedis

\* An attempt in memory: a window that has run out is a new one, and pruning
\* removes only those.
LEMMA CountInMemoryKeepsIInv ==
  ASSUME IInv, NEW k \in Keys, CountInMemory(k)
  PROVE  IInv'
<1> DEFINE w == IF k \in Kept /\ windows[k].left > 0 THEN windows[k]
                ELSE [count |-> 0, left |-> Window]
           c == IF k \in Kept /\ windows[k].left > 0 THEN windows[k] ELSE Nothing
<1>1. TypeOK /\ Window \in Nat \ {0}
  BY RateLimiterAssumption DEF IInv
<1>2. /\ windows' = [i \in Keys |-> IF i = k THEN [w EXCEPT !.count = @ + 1]
                                    ELSE IF i \in Kept THEN windows[i] ELSE Nothing]
      /\ Counts("memory", k, w.count + 1, TRUE)
      /\ known' = Kept \cup {k}
      /\ UNCHANGED <<redis, lost>>
      /\ falling' = [falling EXCEPT ![k] = @ - 1] /\ falling[k] > 0
  BY DEF CountInMemory
<1>3. Kept \subseteq known /\ \A i \in known \ Kept : windows[i].left = 0
  BY DEF Kept, Pruned, Expired
<1>4. \A i \in Keys \ Kept : windows[i].left = 0
  <2>1. \A i \in Keys \ known : windows[i].left = 0
    BY <1>1 DEF IInv, TypeOK, Counter
  <2> QED
    BY <1>3, <2>1
<1>5. /\ c \in Counter
      /\ c.left = 0 => c.count = 0
      /\ w.count = c.count
      /\ [w EXCEPT !.count = @ + 1] = Counted(c)
  <2>1. CASE k \in Kept /\ windows[k].left > 0
    BY <1>1, <2>1 DEF TypeOK, Counter, Counted
  <2>2. CASE ~(k \in Kept /\ windows[k].left > 0)
    <3>1. w = [count |-> 0, left |-> Window] /\ c = Nothing
      BY <2>2
    <3> HIDE DEF w, c
    <3> QED
      BY <1>1, <3>1 DEF Counter, Counted, Nothing
  <2> QED
    BY <2>1, <2>2
<1>6. WindowHolds(c, counted["memory"][k], allowed["memory"][k], lost["memory"])
  <2>1. WindowHolds(windows[k], counted["memory"][k], allowed["memory"][k], lost["memory"])
    BY DEF IInv, Held, Counters
  <2>2. CASE k \in Kept /\ windows[k].left > 0
    BY <2>1, <2>2
  <2>3. CASE ~(k \in Kept /\ windows[k].left > 0)
    <3>1. windows[k].left = 0
      BY <1>1, <1>4, <2>3 DEF TypeOK, Counter
    <3> QED
      BY <2>1, <2>3, <3>1 DEF WindowHolds, Nothing
  <2> QED
    BY <2>2, <2>3
<1>7. /\ Counted(c) \in Counter /\ Counted(c).count > 0 /\ Nothing \in Counter
  <2> HIDE DEF c
  <2> QED
    BY <1>1, <1>5 DEF Counted, Counter, Nothing
<1>8. /\ windows' \in [Keys -> Counter]
      /\ \A i \in Keys : i \in known' <=> windows'[i].count > 0
      /\ \A i \in Keys : windows'[i].left > 0 => windows'[i].count > 0
  <2>1. windows' = [i \in Keys |-> IF i = k THEN Counted(c)
                                   ELSE IF i \in Kept THEN windows[i] ELSE Nothing]
    BY <1>2, <1>5
  <2> HIDE DEF c
  <2>2. ASSUME NEW i \in Keys
        PROVE  /\ windows'[i] \in Counter
               /\ i \in known' <=> windows'[i].count > 0
               /\ windows'[i].left > 0 => windows'[i].count > 0
    <3>1. CASE i = k
      BY <1>2, <1>7, <2>1, <3>1
    <3>2. CASE i # k /\ i \in Kept
      <4>1. windows'[i] = windows[i] /\ i \in known' /\ i \in known
        BY <1>2, <1>3, <2>1, <3>2
      <4>2. windows[i] \in Counter /\ windows[i].count > 0
        BY <1>1, <4>1 DEF TypeOK
      <4> QED
        BY <4>1, <4>2
    <3>3. CASE i # k /\ i \notin Kept
      <4>1. windows'[i] = Nothing /\ i \notin known'
        BY <1>2, <2>1, <3>3
      <4>2. Nothing.count = 0 /\ Nothing.left = 0
        BY DEF Nothing
      <4> QED
        BY <1>7, <4>1, <4>2
    <3> QED
      BY <3>1, <3>2, <3>3
  <2> QED
    BY <2>1, <2>2
<1>9. /\ Held("memory", k)' = Counted(c)
      /\ "memory" \in Counters
  BY <1>2, <1>5 DEF Held, Counters
<1>10. ASSUME NEW t \in Counters, NEW i \in Keys, <<t, i>> # <<"memory", k>>
       PROVE  WindowHolds(Held(t, i)', counted[t][i], allowed[t][i], lost[t])
  <2>1. WindowHolds(Held(t, i), counted[t][i], allowed[t][i], lost[t])
    BY DEF IInv
  <2>2. CASE t = "redis"
    BY <1>2, <2>1, <2>2 DEF Held
  <2>3. CASE t = "memory" /\ i \in Kept
    <3>1. Held(t, i)' = Held(t, i)
      BY <1>2, <1>10, <2>3 DEF Held
    <3> QED
      BY <2>1, <3>1
  <2>4. CASE t = "memory" /\ i \notin Kept
    <3>1. Held(t, i)' = Nothing /\ Held(t, i).left = 0
      BY <1>2, <1>4, <1>10, <2>4 DEF Held
    <3> QED
      BY <2>1, <3>1 DEF WindowHolds, Nothing
  <2> QED
    BY <2>2, <2>3, <2>4 DEF Counters
<1>11. /\ counted' = Noted(counted, "memory", k)
       /\ \/ allowed' = allowed
          \/ allowed' = Noted(allowed, "memory", k) /\ c.count + 1 <= Limit
  BY <1>2, <1>5 DEF Counts
<1>12. /\ counted' \in History /\ allowed' \in History
       /\ \A t \in Counters, i \in Keys :
            WindowHolds(Held(t, i)', counted'[t][i], allowed'[t][i], lost'[t])
  <2> HIDE DEF c, w
  <2> QED
    BY <1>2, <1>5, <1>6, <1>9, <1>10, <1>11, AttemptKeepsAll
<1>13. known' \subseteq Keys /\ falling' \in [Keys -> Nat]
  BY <1>1, <1>2, <1>3 DEF TypeOK
<1> QED
  BY <1>1, <1>2, <1>8, <1>12, <1>13 DEF IInv, TypeOK

\* A tick moves every window and every history on.
LEMMA TickKeepsIInv ==
  ASSUME IInv, Tick
  PROVE  IInv'
<1>1. TypeOK /\ Window \in Nat \ {0}
  BY RateLimiterAssumption DEF IInv
<1>2. /\ redis' = [k \in Keys |-> IF redis[k].left <= 1 THEN Nothing
                                  ELSE [redis[k] EXCEPT !.left = @ - 1]]
      /\ windows' = [k \in Keys |-> IF windows[k].left = 0 THEN windows[k]
                                    ELSE [windows[k] EXCEPT !.left = @ - 1]]
      /\ counted' = Later(counted) /\ allowed' = Later(allowed)
      /\ lost' = [s \in Counters |-> Older(lost[s])]
      /\ UNCHANGED <<known, falling>>
  BY DEF Tick
<1>3. ASSUME NEW s \in Counters, NEW k \in Keys
      PROVE  /\ counted'[s][k] = Older(counted[s][k])
             /\ allowed'[s][k] = Older(allowed[s][k])
             /\ lost'[s] = Older(lost[s])
             /\ counted'[s][k] \in Tally
             /\ allowed'[s][k] \in Tally
  <2>1. /\ counted'[s][k] = Older(counted[s][k]) /\ allowed'[s][k] = Older(allowed[s][k])
        /\ lost'[s] = Older(lost[s])
    BY <1>2 DEF Later
  <2> QED
    BY <1>1, <2>1, HistoryTypes, SumsOfOlder
<1>4. /\ counted' \in History /\ allowed' \in History
      /\ lost' \in [Counters -> [Ages -> Nat]]
  <2>1. counted' \in History /\ allowed' \in History
    BY <1>2, <1>3 DEF Later, History, Tally
  <2>2. \A s \in Counters : Older(lost[s]) \in Tally
    BY <1>1, SumsOfOlder DEF TypeOK, Tally
  <2> QED
    BY <1>2, <2>1, <2>2 DEF Tally
<1>5. ASSUME NEW k \in Keys
      PROVE  /\ redis'[k] \in Counter
             /\ redis'[k].count > 0 <=> redis'[k].left > 0
             /\ \/ redis[k].left <= 1 /\ redis'[k].left = 0
                \/ /\ redis[k].left > 1
                   /\ redis'[k].left = redis[k].left - 1 /\ redis'[k].count = redis[k].count
  <2>1. /\ redis[k].count \in Nat /\ redis[k].left \in 0..Window
        /\ redis[k].count > 0 <=> redis[k].left > 0
    BY <1>1 DEF TypeOK, Counter
  <2>2. CASE redis[k].left <= 1
    BY <1>1, <1>2, <2>2 DEF Nothing, Counter
  <2>3. CASE redis[k].left > 1
    <3>1. redis'[k] = [redis[k] EXCEPT !.left = @ - 1] /\ redis[k] \in Counter
      BY <1>1, <1>2, <2>1, <2>3 DEF TypeOK
    <3>2. /\ redis'[k] \in Counter
          /\ redis'[k].left = redis[k].left - 1 /\ redis'[k].count = redis[k].count
      <4>1. redis[k].left > 0
        BY <1>1, <2>1, <2>3
      <4> QED
        BY <3>1, <4>1, OneTickLess
    <3> QED
      BY <2>1, <2>3, <3>2
  <2> QED
    BY <2>1, <2>2, <2>3
<1>6. ASSUME NEW k \in Keys
      PROVE  /\ windows'[k] \in Counter
             /\ windows'[k].count = windows[k].count
             /\ windows'[k].left > 0 => windows[k].left > 0
             /\ \/ windows[k].left <= 1 /\ windows'[k].left = 0
                \/ windows[k].left > 1 /\ windows'[k].left = windows[k].left - 1
  <2>1. windows[k] \in Counter /\ windows[k].left \in 0..Window
    BY <1>1 DEF TypeOK, Counter
  <2>2. CASE windows[k].left = 0
    BY <1>2, <2>1, <2>2
  <2>3. CASE windows[k].left # 0
    <3>1. windows'[k] = [windows[k] EXCEPT !.left = @ - 1]
      BY <1>2, <2>3
    <3>2. windows[k].left > 0
      BY <2>1, <2>3, RateLimiterAssumption
    <3>3. /\ windows'[k] \in Counter
          /\ windows'[k].left = windows[k].left - 1 /\ windows'[k].count = windows[k].count
      BY <2>1, <3>1, <3>2, OneTickLess
    <3> QED
      BY <1>1, <2>1, <2>3, <3>2, <3>3
  <2> QED
    BY <2>2, <2>3
<1>7. redis' \in [Keys -> Counter] /\ windows' \in [Keys -> Counter]
  BY <1>2, <1>5, <1>6
<1>8. TypeOK'
  BY <1>1, <1>2, <1>4, <1>5, <1>6, <1>7 DEF TypeOK
<1>9. ASSUME NEW s \in Counters, NEW k \in Keys
      PROVE  WindowHolds(Held(s, k)', counted'[s][k], allowed'[s][k], lost'[s])
  <2>1. /\ Held(s, k)' \in Counter
        /\ \/ Held(s, k).left <= 1 /\ Held(s, k)'.left = 0
           \/ /\ Held(s, k).left > 1 /\ Held(s, k)'.left = Held(s, k).left - 1
              /\ Held(s, k)'.count = Held(s, k).count
    BY <1>5, <1>6 DEF Held
  <2>2. WindowHolds(Held(s, k), counted[s][k], allowed[s][k], lost[s])
    BY DEF IInv
  <2>3. /\ Held(s, k) \in Counter
        /\ counted[s][k] \in Tally /\ allowed[s][k] \in Tally /\ lost[s] \in Tally
    BY <1>1, HistoryTypes
  <2>4. WindowHolds(Held(s, k)', Older(counted[s][k]), Older(allowed[s][k]), Older(lost[s]))
    BY <2>1, <2>2, <2>3, TickKeepsWindow
  <2> QED
    BY <1>3, <2>4
<1>10. \A k \in Keys : windows'[k].left > 0 => windows'[k].count > 0
  BY <1>6 DEF IInv
<1> QED
  BY <1>8, <1>9, <1>10 DEF IInv

\* One counter is lost, and the loss is on record.
LEMMA ForgetKeepsWindows ==
  ASSUME IInv, NEW s \in Counters, Forget(s),
         \A k \in Keys : Held(s, k)' = Nothing,
         \A t \in Counters \ {s}, k \in Keys : Held(t, k)' = Held(t, k)
  PROVE  /\ UNCHANGED <<counted, allowed>> /\ lost' \in [Counters -> [Ages -> Nat]]
         /\ \A t \in Counters, k \in Keys :
              WindowHolds(Held(t, k)', counted'[t][k], allowed'[t][k], lost'[t])
<1>1. TypeOK /\ lost \in [Counters -> Tally]
  BY DEF IInv, TypeOK, Tally
<1>2. UNCHANGED <<counted, allowed>> /\ lost' = [lost EXCEPT ![s] = OneMore(lost[s])]
  BY <1>1 DEF Forget, OneMore
<1>3. OneMore(lost[s]) \in Tally
  BY <1>1, SumsOfOneMore
<1>4. lost' \in [Counters -> [Ages -> Nat]]
  BY <1>1, <1>2, <1>3 DEF Tally
<1>5. ASSUME NEW k \in Keys
      PROVE  WindowHolds(Held(s, k)', counted'[s][k], allowed'[s][k], lost'[s])
  <2>1. /\ counted'[s][k] = counted[s][k] /\ allowed'[s][k] = allowed[s][k]
        /\ lost'[s] = OneMore(lost[s]) /\ Held(s, k)' = Nothing
    BY <1>1, <1>2
  <2>2. WindowHolds(Held(s, k), counted[s][k], allowed[s][k], lost[s])
    BY DEF IInv
  <2>3. WindowHolds(Nothing, counted[s][k], allowed[s][k], OneMore(lost[s]))
    BY <1>1, <2>2, HistoryTypes, LossKeepsWindow
  <2> QED
    BY <2>1, <2>3
<1>6. ASSUME NEW t \in Counters \ {s}, NEW k \in Keys
      PROVE  WindowHolds(Held(t, k)', counted'[t][k], allowed'[t][k], lost'[t])
  <2>1. counted' = counted /\ allowed' = allowed /\ lost'[t] = lost[t]
    BY <1>1, <1>2
  <2>2. WindowHolds(Held(t, k), counted[t][k], allowed[t][k], lost[t])
    BY DEF IInv
  <2> QED
    BY <2>1, <2>2
<1> QED
  BY <1>2, <1>4, <1>5, <1>6

\* Redis comes back empty.
LEMMA RedisForgetsKeepsIInv ==
  ASSUME IInv, RedisForgets
  PROVE  IInv'
<1>1. /\ redis' = [k \in Keys |-> Nothing] /\ Forget("redis")
      /\ UNCHANGED <<windows, known, falling>>
  BY DEF RedisForgets
<1>2. /\ \A k \in Keys : Held("redis", k)' = Nothing
      /\ \A t \in Counters \ {"redis"}, k \in Keys : Held(t, k)' = Held(t, k)
      /\ "redis" \in Counters
  BY <1>1 DEF Held, Counters
<1>3. /\ UNCHANGED <<counted, allowed>> /\ lost' \in [Counters -> [Ages -> Nat]]
      /\ \A t \in Counters, k \in Keys :
           WindowHolds(Held(t, k)', counted'[t][k], allowed'[t][k], lost'[t])
  BY <1>1, <1>2, ForgetKeepsWindows
<1>4. /\ redis' \in [Keys -> Counter]
      /\ \A k \in Keys : redis'[k].count > 0 <=> redis'[k].left > 0
  BY <1>1, RateLimiterAssumption DEF Nothing, Counter
<1> QED
  BY <1>1, <1>3, <1>4 DEF IInv, TypeOK

\* The server starts again.
LEMMA RestartKeepsIInv ==
  ASSUME IInv, Restart
  PROVE  IInv'
<1>1. /\ windows' = [k \in Keys |-> Nothing] /\ Forget("memory")
      /\ known' = {} /\ falling' = [k \in Keys |-> 0] /\ UNCHANGED redis
  BY DEF Restart
<1>2. /\ \A k \in Keys : Held("memory", k)' = Nothing
      /\ \A t \in Counters \ {"memory"}, k \in Keys : Held(t, k)' = Held(t, k)
      /\ "memory" \in Counters
  BY <1>1 DEF Held, Counters
<1>3. /\ UNCHANGED <<counted, allowed>> /\ lost' \in [Counters -> [Ages -> Nat]]
      /\ \A t \in Counters, k \in Keys :
           WindowHolds(Held(t, k)', counted'[t][k], allowed'[t][k], lost'[t])
  BY <1>1, <1>2, ForgetKeepsWindows
<1>4. /\ windows' \in [Keys -> Counter]
      /\ \A k \in Keys : windows'[k].count = 0 /\ windows'[k].left = 0
  BY <1>1, RateLimiterAssumption DEF Nothing, Counter
<1> QED
  BY <1>1, <1>3, <1>4 DEF IInv, TypeOK

\* A limiter that has counted nothing.
LEMMA InitIInv == Init => IInv
<1> SUFFICES ASSUME Init PROVE IInv
  OBVIOUS
<1>1. /\ NoHistory \in History /\ \A s \in Counters, k \in Keys : NoHistory[s][k] = None
      /\ lost \in [Counters -> [Ages -> Nat]] /\ \A s \in Counters : lost[s] = None
  BY DEF NoHistory, History, None, Init
<1>2. Nothing \in Counter /\ Nothing.count = 0 /\ Nothing.left = 0
  BY RateLimiterAssumption DEF Nothing, Counter
<1>3. TypeOK
  BY <1>1, <1>2 DEF Init, TypeOK
<1>4. \A s \in Counters, k \in Keys : WindowHolds(Held(s, k), counted[s][k], allowed[s][k], lost[s])
  BY <1>1, FreshWindow DEF Init, Held
<1> QED
  BY <1>2, <1>3, <1>4 DEF IInv, Init

\* Every step keeps it, action by action.
LEMMA NextIInv == IInv /\ [Next]_vars => IInv'
<1> SUFFICES ASSUME IInv, [Next]_vars PROVE IInv'
  OBVIOUS
<1>1. ASSUME NEW k \in Keys, CountInMemory(k)
      PROVE  IInv'
  BY <1>1, CountInMemoryKeepsIInv
<1>2. ASSUME NEW k \in Keys, NEW o \in {"ok", "fail", "lost"}, CountInRedis(k, o)
      PROVE  IInv'
  BY <1>2, CountInRedisKeepsIInv
<1>3. CASE Tick
  BY <1>3, TickKeepsIInv
<1>4. CASE RedisForgets
  BY <1>4, RedisForgetsKeepsIInv
<1>5. CASE Restart
  BY <1>5, RestartKeepsIInv
<1>6. CASE UNCHANGED vars
  BY <1>6 DEF IInv, TypeOK, Held, vars
<1> QED
  BY <1>1, <1>2, <1>3, <1>4, <1>5, <1>6 DEF Next

\* Everything below rests on this.
THEOREM Invariance == Spec => []IInv
BY InitIInv, NextIInv, PTL DEF Spec

-----------------------------------------------------------------------------
(* Consequences *)

\* Every variable always has its type, and no counter in Redis is without a
\* time to live.
THEOREM TypeCorrect == Spec => []TypeOK
BY Invariance, PTL DEF IInv

\* Nobody is refused for attempts that are older than a window or were counted
\* elsewhere.
THEOREM OnlyTheBusyAreRefused == Spec => []RefusedOnlyIfBusy
<1>1. ASSUME IInv
      PROVE  RefusedOnlyIfBusy
  <2> SUFFICES ASSUME NEW s \in Counters, NEW k \in Keys
               PROVE  Found(s, k) <= Recently(counted, s, k)
    BY DEF RefusedOnlyIfBusy
  <2>1. TypeOK /\ Window \in Nat \ {0} /\ counted[s][k] \in Tally /\ Held(s, k) \in Counter
    BY <1>1, HistoryTypes, RateLimiterAssumption DEF IInv
  <2>2. Recently(counted, s, k) = SumOf(counted[s][k], Window)
    BY DEF Recently
  <2>3. CASE Held(s, k).left > 0
    <3>1. Found(s, k) = Held(s, k).count
      BY <2>3 DEF Found, Held, Counters
    <3>2. Held(s, k).count <= SumOf(counted[s][k], Elapsed(Held(s, k)))
      BY <1>1, <2>3 DEF IInv, WindowHolds
    <3>3. Elapsed(Held(s, k)) \in 0..Window /\ Window \in 0..Window
          /\ Elapsed(Held(s, k)) <= Window
      BY <2>1, <2>3 DEF Elapsed, Counter
    <3>4. /\ SumOf(counted[s][k], Elapsed(Held(s, k))) <= SumOf(counted[s][k], Window)
          /\ SumOf(counted[s][k], Elapsed(Held(s, k))) \in Nat
          /\ SumOf(counted[s][k], Window) \in Nat
      BY <2>1, <3>3, SumsOfTally
    <3>5. Held(s, k).count \in Nat
      BY <2>1 DEF Counter
    <3> QED
      BY <2>2, <3>1, <3>2, <3>4, <3>5
  <2>4. CASE Held(s, k).left = 0
    <3>1. Found(s, k) = 0
      BY <2>1, <2>4 DEF Found, Held, Counters, TypeOK, Counter
    <3>2. SumOf(counted[s][k], Window) \in Nat
      BY <2>1, SumsOfTally
    <3> QED
      BY <2>2, <3>1, <3>2
  <2> QED
    BY <2>1, <2>3, <2>4 DEF Counter
<1> QED
  BY <1>1, Invariance, PTL

\* In any Window ticks a counter lets fewer attempts through than two windows'
\* worth, and one window's worth more for each loss in those ticks.
THEOREM BurstsHaveABound == Spec => []BurstsAreBounded
<1>1. ASSUME IInv
      PROVE  BurstsAreBounded
  <2> SUFFICES ASSUME NEW s \in Counters, NEW k \in Keys
               PROVE  Recently(allowed, s, k) < (2 + LostRecently(s)) * Limit
    BY DEF BurstsAreBounded
  <2> DEFINE x == SumOf(lost[s], Window)
             T == SumOf(allowed[s][k], Window)
  <2>1. /\ TypeOK /\ Window \in Nat \ {0} /\ Limit \in Nat
        /\ allowed[s][k] \in Tally /\ lost[s] \in Tally /\ Held(s, k) \in Counter
    BY <1>1, HistoryTypes, RateLimiterAssumption DEF IInv
  <2>2. Window \in 0..Window
    BY <2>1
  <2>3. T \in Nat /\ x \in Nat /\ Allowance(lost[s], Window) \in Nat
    BY <2>1, <2>2, SumsOfTally, AllowanceIsNatural
  <2>4. T < Limit + Allowance(lost[s], Window)
    <3>1. CASE Held(s, k).left > 0
      BY <1>1, <2>2, <3>1 DEF IInv, WindowHolds
    <3>2. CASE Held(s, k).left = 0
      <4>1. T < Allowance(lost[s], Window)
        BY <1>1, <2>2, <3>2 DEF IInv, WindowHolds
      <4> HIDE DEF T, x
      <4> QED
        BY <2>1, <2>3, <4>1
    <3> QED
      BY <2>1, <3>1, <3>2 DEF Counter
  <2>5. Allowance(lost[s], Window) = (1 + x) * Limit
    BY DEF Allowance
  <2>6. Recently(allowed, s, k) = T /\ LostRecently(s) = x
    BY DEF Recently, LostRecently
  <2> HIDE DEF T, x
  <2>7. Limit + (1 + x) * Limit = (2 + x) * Limit
    BY <2>1, <2>3, SMT
  <2> QED
    BY <2>4, <2>5, <2>6, <2>7
<1> QED
  BY <1>1, Invariance, PTL

=============================================================================
