--------------------------- MODULE EcbClient_proofs ---------------------------
(***************************************************************************)
(* Safety of a call of the ECB client for every retry policy: any number   *)
(* of attempts, also zero or fewer, any delays in a Duration of any width, *)
(* and documents of any length.                                            *)
(*                                                                         *)
(* The inductive invariant relates the loop variable to the requests and   *)
(* the requests to the two counters, place by place: each attempt sends at *)
(* most one request, and only a counted, retriable failure leads back to   *)
(* the head of the loop.  What a delay and a map of rates are is proved by *)
(* induction, on the powers of two and on the length of the document.      *)
(***************************************************************************)
EXTENDS EcbClient, TLAPS, WellFoundedInduction

------------------------------------------------------------------------------
(* Induction and recursion over the naturals.  The premises of the         *)
(* library's induction theorems are operators; here they are sets and      *)
(* functions.                                                              *)

Less == {ss \in Nat \X Nat : ss[1] < ss[2]}

LEMMA LessIsWellFounded == IsWellFoundedOn(Less, Nat)
  BY NatLessThanWellFounded DEF OpToRel, Less

\* A set with 0 and the successor of each of its numbers has all numbers.
LEMMA SetInduction ==
  ASSUME NEW S, 0 \in S, \A n \in Nat : n \in S => n + 1 \in S
  PROVE  \A n \in Nat : n \in S
  <1> SUFFICES ASSUME Nat \ S # {} PROVE FALSE
    OBVIOUS
  <1>1. PICK m \in Nat \ S : \A k \in Nat \ S : <<k, m>> \notin Less
    BY WFMin, LessIsWellFounded
  <1>2. \A k \in Nat \ S : ~(k < m)
    BY <1>1 DEF Less
  <1>3. m # 0 /\ m - 1 \in Nat /\ m - 1 < m
    OBVIOUS
  <1>4. QED
    BY <1>2, <1>3

\* The functions on 0..n that start with base and go on by step.
Unfoldings(T, base, step, n) ==
  {g \in [0..n -> T] : g[0] = base /\ \A i \in 1..n : g[i] = step[<<i, g[i - 1]>>]}

\* There is one, however far.
LEMMA UnfoldingExists ==
  ASSUME NEW T, NEW base \in T, NEW step \in [Nat \X T -> T], NEW n \in Nat
  PROVE  \E g : g \in Unfoldings(T, base, step, n)
  <1> DEFINE S == {i \in Nat : \E g : g \in Unfoldings(T, base, step, i)}
  <1>1. 0 \in S
    <2>1. [i \in 0..0 |-> base] \in Unfoldings(T, base, step, 0)
      BY DEF Unfoldings
    <2>2. QED
      BY <2>1
  <1>2. ASSUME NEW i \in Nat, i \in S PROVE i + 1 \in S
    <2>1. PICK g : g \in Unfoldings(T, base, step, i)
      BY <1>2
    <2> DEFINE h == [j \in 0..(i + 1) |-> IF j = i + 1 THEN step[<<i + 1, g[i]>>] ELSE g[j]]
    <2>2. g[i] \in T /\ step[<<i + 1, g[i]>>] \in T
      BY <2>1 DEF Unfoldings
    <2>3. h \in [0..(i + 1) -> T] /\ h[0] = base
      BY <2>1, <2>2 DEF Unfoldings
    <2>4. ASSUME NEW j \in 1..(i + 1) PROVE h[j] = step[<<j, h[j - 1]>>]
      <3>1. j - 1 \in 0..i /\ h[j - 1] = g[j - 1]
        OBVIOUS
      <3>2. h[i + 1] = step[<<i + 1, g[i]>>]
        OBVIOUS
      <3>3. ASSUME j \in 1..i PROVE h[j] = g[j] /\ g[j] = step[<<j, g[j - 1]>>]
        BY <2>1, <3>3 DEF Unfoldings
      <3> HIDE DEF h
      <3>4. CASE j = i + 1
        BY <3>1, <3>2, <3>4
      <3>5. CASE j \in 1..i
        BY <3>1, <3>3, <3>5
      <3>6. QED
        BY <3>4, <3>5
    <2>5. h \in Unfoldings(T, base, step, i + 1)
      BY <2>3, <2>4 DEF Unfoldings
    <2>6. QED
      BY <2>5
  <1> HIDE DEF S
  <1>3. n \in S
    BY <1>1, <1>2, SetInduction
  <1>4. QED
    BY <1>3 DEF S

\* They agree where both are defined.
LEMMA UnfoldingsAgree ==
  ASSUME NEW T, NEW base, NEW step, NEW m \in Nat, NEW n \in Nat, m <= n,
         NEW g \in Unfoldings(T, base, step, m), NEW h \in Unfoldings(T, base, step, n)
  PROVE  g[m] = h[m]
  <1> DEFINE S == {i \in Nat : i <= m => g[i] = h[i]}
  <1>1. 0 \in S
    BY DEF Unfoldings
  <1>2. ASSUME NEW i \in Nat, i \in S PROVE i + 1 \in S
    <2> SUFFICES ASSUME i + 1 <= m PROVE g[i + 1] = h[i + 1]
      OBVIOUS
    <2>1. g[i] = h[i]
      BY <1>2
    <2>2. i + 1 \in 1..m /\ i + 1 \in 1..n /\ (i + 1) - 1 = i
      OBVIOUS
    <2>3. g[i + 1] = step[<<i + 1, g[i]>>] /\ h[i + 1] = step[<<i + 1, h[i]>>]
      BY <2>2 DEF Unfoldings
    <2>4. QED
      BY <2>1, <2>3
  <1> HIDE DEF S
  <1>3. m \in S
    BY <1>1, <1>2, SetInduction
  <1>4. QED
    BY <1>3 DEF S

\* Pow2 is what its equation says.
LEMMA Pow2Def == \A n \in Nat : Pow2[n] \in Nat \ {0} /\ Pow2[0] = 1 /\ Pow2[n + 1] = 2 * Pow2[n]
  <1> DEFINE step == [p \in Nat \X Nat |-> 2 * p[2]]
             run(n) == CHOOSE g : g \in Unfoldings(Nat, 1, step, n)
             f == [n \in Nat |-> run(n)[n]]
             S == {n \in Nat : Pow2[n] \in Nat \ {0}}
  <1>1. step \in [Nat \X Nat -> Nat] /\ \A i, k \in Nat : step[<<i, k>>] = 2 * k
    OBVIOUS
  <1> HIDE DEF step
  <1>2. \A n \in Nat : run(n) \in Unfoldings(Nat, 1, step, n)
    BY <1>1, UnfoldingExists
  <1> HIDE DEF run
  <1>3. \A n \in Nat : run(n) \in [0..n -> Nat] /\ run(n)[0] = 1
    BY <1>2 DEF Unfoldings
  <1>4. ASSUME NEW n \in Nat, n # 0 PROVE run(n)[n] = 2 * run(n - 1)[n - 1]
    <2>1. n - 1 \in Nat /\ n - 1 \in 0..n /\ n \in 1..n /\ n - 1 <= n
      BY <1>4
    <2>2. run(n)[n] = step[<<n, run(n)[n - 1]>>]
      BY <1>2, <2>1 DEF Unfoldings
    <2>3. run(n - 1)[n - 1] = run(n)[n - 1]
      BY <1>2, <2>1, UnfoldingsAgree
    <2>4. run(n)[n - 1] \in Nat
      BY <1>3, <2>1
    <2>5. QED
      BY <1>1, <2>2, <2>3, <2>4
  <1>5. f = [n \in Nat |-> IF n = 0 THEN 1 ELSE 2 * f[n - 1]]
    BY <1>3, <1>4
  <1> HIDE DEF f
  <1>6. Pow2 = [n \in Nat |-> IF n = 0 THEN 1 ELSE 2 * Pow2[n - 1]]
    BY <1>5 DEF Pow2
  <1>7. Pow2[0] = 1 /\ \A n \in Nat : Pow2[n + 1] = 2 * Pow2[n]
    BY <1>6
  <1>8. 0 \in S /\ \A n \in Nat : n \in S => n + 1 \in S
    BY <1>7
  <1> HIDE DEF S
  <1>9. \A n \in Nat : n \in S
    BY <1>8, SetInduction
  <1>10. QED
    BY <1>7, <1>9 DEF S

\* And it grows.
LEMMA Pow2Grows == ASSUME NEW m \in Nat, NEW n \in Nat, m <= n PROVE Pow2[m] <= Pow2[n]
  <1> DEFINE S == {d \in Nat : Pow2[m] <= Pow2[m + d]}
  <1>1. 0 \in S
    BY Pow2Def
  <1>2. ASSUME NEW d \in Nat, d \in S PROVE d + 1 \in S
    <2>1. Pow2[m + d] \in Nat /\ Pow2[(m + d) + 1] = 2 * Pow2[m + d] /\ Pow2[m] \in Nat
      BY Pow2Def
    <2>2. QED
      BY <1>2, <2>1
  <1> HIDE DEF S
  <1>3. n - m \in S
    BY <1>1, <1>2, SetInduction
  <1>4. QED
    BY <1>3 DEF S

------------------------------------------------------------------------------
(* The delays.  Half is what a Duration cannot hold any more.              *)

Half == Pow2[Width - 1]

LEMMA HalfType == Half \in Nat \ {0}
  BY EcbClientAssumption, Pow2Def DEF Half

LEMMA ModRange ==
  /\ \A x \in Int, k \in Nat \ {0} : x % k \in 0..(k - 1)
  /\ \A x \in Nat, k \in Nat \ {0} : x % k <= x
  /\ \A k \in Nat \ {0} : \A x \in 0..(k - 1) : x % k = x
  OBVIOUS

LEMMA Products ==
  /\ \A b, x, y \in Nat : x <= y => b * x <= b * y
  /\ \A b \in Nat \ {0}, x \in Nat : x <= b * x
  /\ \A b, x \in Nat : b * x \in Nat
  /\ \A b \in Nat, x \in Int : b * x \in Int
  /\ \A x \in Int : 0 * x = 0
  OBVIOUS

\* A Duration holds what it can hold, and never makes more of a number.
LEMMA WrapBounds ==
  /\ \A n \in Int : Wrap(n) \in Int /\ Wrap(n) < Half
  /\ \A n \in Nat : Wrap(n) <= n
  /\ \A n \in Nat : n < Half => Wrap(n) = n
  <1>1. Half \in Nat \ {0} /\ 2 * Half \in Nat \ {0}
    BY HalfType
  <1>2. \A n \in Int : Wrap(n) = ((n + Half) % (2 * Half)) - Half
    BY DEF Wrap, Half
  <1> HIDE DEF Half
  <1>3. ASSUME NEW n \in Int PROVE Wrap(n) \in Int /\ Wrap(n) < Half
    <2>1. (n + Half) % (2 * Half) \in 0..(2 * Half - 1)
      BY <1>1, ModRange
    <2>2. QED
      BY <1>1, <1>2, <2>1
  <1>4. ASSUME NEW n \in Nat PROVE Wrap(n) <= n
    <2> DEFINE x == n + Half
               k == 2 * Half
    <2>1. x \in Nat /\ k \in Nat \ {0} /\ Wrap(n) = (x % k) - Half /\ x - Half = n
      BY <1>1, <1>2
    <2> HIDE DEF x, k
    <2>2. x % k <= x /\ x % k \in 0..(k - 1)
      BY <2>1
    <2>3. QED
      BY <1>1, <2>1, <2>2
  <1>5. ASSUME NEW n \in Nat, n < Half PROVE Wrap(n) = n
    <2>1. n + Half \in 0..(2 * Half - 1)
      BY <1>1, <1>5
    <2>2. (n + Half) % (2 * Half) = n + Half
      BY <1>1, <2>1, ModRange
    <2>3. QED
      BY <1>1, <1>2, <2>2
  <1>6. QED
    BY <1>3, <1>4, <1>5

\* 1 << n in a Duration: 2^n, its sign bit, or nothing.
LEMMA Shifts ==
  ASSUME NEW n \in Nat
  PROVE  /\ n < Width - 1 => ShiftLeft(n) = Pow2[n]
         /\ n >= Width => ShiftLeft(n) = 0
         /\ ShiftLeft(n) \in Int
  <1>1. Pow2[n] \in Nat \ {0} /\ Pow2[n + 1] = 2 * Pow2[n] /\ Half \in Nat \ {0}
    BY Pow2Def, HalfType
  <1>2. n < Width - 1 => Pow2[n] < Half
    <2>1. n < Width - 1 => Pow2[n + 1] <= Half
      BY EcbClientAssumption, Pow2Grows DEF Half
    <2>2. QED
      BY <1>1, <2>1
  <1>3. n < Width - 1 => Wrap(Pow2[n]) = Pow2[n]
    BY <1>1, <1>2, WrapBounds
  <1>4. Wrap(Pow2[n]) \in Int
    BY <1>1, WrapBounds
  <1>5. QED
    BY <1>3, <1>4, EcbClientAssumption DEF ShiftLeft

\* The delay before the jitter, without a Duration's width.
Exact(n) == LET e == BaseDelay * Pow2[n] IN IF e > MaxDelay THEN MaxDelay ELSE e

\* An overflow makes a delay shorter, or negative, but never longer.
LEMMA CappedAtMost == \A n \in Nat : Exact(n) \in Nat /\ Capped(n) \in Int /\ Capped(n) <= Exact(n)
  <1> SUFFICES ASSUME NEW n \in Nat
               PROVE  Exact(n) \in Nat /\ Capped(n) \in Int /\ Capped(n) <= Exact(n)
    OBVIOUS
  <1> DEFINE e == BaseDelay * Pow2[n]
             d == Wrap(BaseDelay * ShiftLeft(n))
  <1>1. BaseDelay \in Nat /\ MaxDelay \in Nat /\ Width \in Nat \ {0}
    BY EcbClientAssumption
  <1>2. Pow2[n] \in Nat \ {0} /\ Half \in Nat \ {0} /\ ShiftLeft(n) \in Int
    BY Pow2Def, HalfType, Shifts
  <1>3. e \in Nat
    BY <1>1, <1>2, Products
  <1>4. BaseDelay * ShiftLeft(n) \in Int
    BY <1>1, <1>2, Products
  <1>5. d \in Int /\ d < Half
    BY <1>4, WrapBounds
  <1>6. d <= e
    <2>1. CASE BaseDelay = 0
      <3>1. BaseDelay * ShiftLeft(n) = 0
        BY <1>2, <2>1, Products
      <3>2. d <= 0
        BY <3>1, WrapBounds
      <3>3. QED
        BY <1>3, <1>5, <3>2
    <2>2. CASE n < Width - 1
      <3>1. d = Wrap(e)
        BY <2>2, Shifts
      <3>2. QED
        BY <1>3, <3>1, WrapBounds
    <2>3. CASE BaseDelay # 0 /\ n = Width - 1
      <3>1. Half <= e
        BY <1>1, <1>2, <2>3, Products DEF Half
      <3>2. QED
        BY <1>2, <1>3, <1>5, <3>1
    <2>4. CASE n >= Width
      <3>1. BaseDelay * ShiftLeft(n) = 0
        BY <1>1, <2>4, Shifts
      <3>2. d <= 0
        BY <3>1, WrapBounds
      <3>3. QED
        BY <1>3, <1>5, <3>2
    <2>5. QED
      BY <1>1, <2>1, <2>2, <2>3, <2>4
  <1>7. /\ Capped(n) = IF d > MaxDelay THEN MaxDelay ELSE d
        /\ Exact(n) = IF e > MaxDelay THEN MaxDelay ELSE e
    BY DEF Capped, Exact
  <1> HIDE DEF d, e
  <1>8. QED
    BY <1>1, <1>3, <1>5, <1>6, <1>7

\* Where a Duration holds the power and the product, the delay is the exact one.
LEMMA CappedExact ==
  ASSUME NEW n \in Nat, BaseDelay * Pow2[n] < Half PROVE Capped(n) = Exact(n)
  <1>1. BaseDelay \in Nat /\ MaxDelay \in Nat /\ Width \in Nat \ {0}
    BY EcbClientAssumption
  <1>2. Pow2[n] \in Nat \ {0} /\ ShiftLeft(n) \in Int
    BY Pow2Def, Shifts
  <1>3. BaseDelay * ShiftLeft(n) = BaseDelay * Pow2[n]
    <2>1. CASE BaseDelay = 0
      BY <1>2, <2>1, Products
    <2>2. CASE BaseDelay # 0
      <3>1. Pow2[n] < Half
        BY <1>1, <1>2, <2>2, HalfType, Products
      <3>2. ~(Half <= Pow2[n])
        BY <3>1, <1>2, HalfType
      <3>3. n < Width - 1
        BY <1>1, <3>2, Pow2Grows DEF Half
      <3>4. QED
        BY <3>3, Shifts
    <2>3. QED
      BY <2>1, <2>2
  <1>4. BaseDelay * Pow2[n] \in Nat
    BY <1>1, <1>2, Products
  <1>5. Wrap(BaseDelay * ShiftLeft(n)) = BaseDelay * Pow2[n]
    BY <1>3, <1>4, WrapBounds
  <1>6. QED
    BY <1>5 DEF Capped, Exact

\* The jitter keeps a delay within 13 tenths, and above 7 tenths less one unit.
LEMMA TenthsBounds ==
  ASSUME NEW c \in Int, NEW f \in 7..12
  PROVE  /\ Tenths(c, f) \in Int
         /\ c < 0 => Tenths(c, f) <= 0
         /\ c >= 0 => 10 * Tenths(c, f) <= 13 * c /\ 10 * Tenths(c, f) > 7 * c - 10
  <1>1. \A x \in Nat : x \div 10 \in Nat /\ 10 * (x \div 10) <= x /\ 10 * (x \div 10) > x - 10
    OBVIOUS
  <1>2. CASE c >= 0
    <2>1. c * f \in Nat /\ c * f <= 12 * c /\ c * f >= 7 * c
      BY <1>2
    <2>2. Tenths(c, f) = (c * f) \div 10
      BY <1>2 DEF Tenths
    <2>3. QED
      BY <1>1, <1>2, <2>1, <2>2
  <1>3. CASE c < 0
    <2>1. -c * f \in Nat
      BY <1>3
    <2>2. Tenths(c, f) = -((-c * f) \div 10)
      BY <1>3 DEF Tenths
    <2>3. QED
      BY <1>1, <1>3, <2>1, <2>2
  <1>4. QED
    BY <1>2, <1>3

\* What becomes of an overflow: from the attempt on that shifts the 1 out of a Duration, retries
\* follow each other without a delay.
THEOREM ShiftedOutDelaysAreZero == \A n \in Nat : n >= Width => Backoffs(n) = {0}
  <1> SUFFICES ASSUME NEW n \in Nat, n >= Width PROVE Backoffs(n) = {0}
    OBVIOUS
  <1>1. Wrap(BaseDelay * ShiftLeft(n)) = 0
    BY HalfType, WrapBounds, Shifts, Products, EcbClientAssumption
  <1>2. Capped(n) = 0
    BY <1>1, EcbClientAssumption DEF Capped
  <1>3. \A f \in 7..12 : Tenths(Capped(n), f) = 0
    BY <1>2 DEF Tenths
  <1>4. QED
    BY <1>3 DEF Backoffs

------------------------------------------------------------------------------
(* The rates of a document.                                                *)

\* What a caller gets: numbers under some of the days.
RateMaps == UNION {[D -> Values] : D \in SUBSET Days}

\* The recursion of RatesOf over a document without a malformed observation.
Loop(doc, g) ==
  /\ g \in [0..Len(doc) -> RateMaps]
  /\ g[0] = NoRates
  /\ \A i \in 1..Len(doc) :
       g[i] = IF Skipped(doc[i]) THEN g[i - 1] ELSE Put(g[i - 1], doc[i])

LEMMA PutIsRateMap ==
  ASSUME NEW r \in RateMaps, NEW obs, obs.day \in Days, obs.value \in Values
  PROVE  Put(r, obs) \in RateMaps
  <1>1. PICK D \in SUBSET Days : r \in [D -> Values]
    BY DEF RateMaps
  <1>2. Put(r, obs) \in [D \cup {obs.day} -> Values]
    BY <1>1 DEF Put
  <1>3. QED
    BY <1>2 DEF RateMaps

LEMMA NoRatesIsRateMap == NoRates \in RateMaps
  <1>1. NoRates \in [{} -> Values]
    BY DEF NoRates
  <1>2. QED
    BY <1>1 DEF RateMaps

\* A document is a sequence of observations.
LEMMA DocumentType ==
  ASSUME NEW doc \in Documents
  PROVE  /\ Len(doc) \in Nat /\ DOMAIN doc = 1..Len(doc)
         /\ \A i \in 1..Len(doc) : doc[i] \in Observations
  <1>1. PICK n \in 0..MaxObs : doc \in [1..n -> Observations]
    BY DEF Documents
  <1>2. doc \in Seq(Observations) /\ Len(doc) = n
    BY <1>1, EcbDocumentAssumption
  <1>3. QED
    BY <1>1, <1>2, EcbDocumentAssumption

\* What is neither skipped nor malformed has a day and a number.
LEMMA CompleteObservation ==
  ASSUME NEW obs \in Observations, ~Skipped(obs), ~Malformed(obs)
  PROVE  obs.day \in Days /\ obs.value \in Values
  BY DEF Observations, Skipped, Malformed

LEMMA RatesOfLoop ==
  ASSUME NEW doc \in Documents, ~Refused(doc)
  PROVE  \E g : Loop(doc, g) /\ RatesOf(doc) = g[Len(doc)]
  <1> DEFINE L == Len(doc)
             Body(f, n) == IF n = 0 THEN NoRates
                           ELSE IF Skipped(doc[n]) THEN f[n - 1] ELSE Put(f[n - 1], doc[n])
             step == [p \in Nat \X RateMaps |->
                        IF p[1] \in 1..L /\ ~Skipped(doc[p[1]]) THEN Put(p[2], doc[p[1]]) ELSE p[2]]
             after == CHOOSE f : f = [n \in 0..L |-> Body(f, n)]
  <1>1. L \in Nat /\ \A i \in 1..L : doc[i] \in Observations
    BY DocumentType
  <1>2. \A i \in 1..L : ~Skipped(doc[i]) => doc[i].day \in Days /\ doc[i].value \in Values
    BY <1>1, DocumentType, CompleteObservation DEF Refused
  <1>3. RatesOf(doc) = after[L]
    BY DEF RatesOf
  <1> HIDE DEF L
  <1>4. step \in [Nat \X RateMaps -> RateMaps]
    BY <1>2, PutIsRateMap
  <1>5. PICK g : g \in Unfoldings(RateMaps, NoRates, step, L)
    BY <1>1, <1>4, NoRatesIsRateMap, UnfoldingExists
  <1>6. g \in [0..L -> RateMaps] /\ g[0] = NoRates
    BY <1>5 DEF Unfoldings
  <1>7. ASSUME NEW i \in 1..L
        PROVE  g[i] = IF Skipped(doc[i]) THEN g[i - 1] ELSE Put(g[i - 1], doc[i])
    <2>1. g[i - 1] \in RateMaps /\ i \in Nat
      BY <1>1, <1>6
    <2>2. g[i] = step[<<i, g[i - 1]>>]
      BY <1>5 DEF Unfoldings
    <2>3. step[<<i, g[i - 1]>>] =
            IF i \in 1..L /\ ~Skipped(doc[i]) THEN Put(g[i - 1], doc[i]) ELSE g[i - 1]
      BY <2>1
    <2>4. QED
      BY <2>2, <2>3
  <1> HIDE DEF step
  <1>8. g = [n \in 0..L |-> Body(g, n)]
    BY <1>1, <1>6, <1>7
  <1>9. after = [n \in 0..L |-> Body(after, n)]
    BY <1>8
  <1> HIDE DEF after
  <1> DEFINE S == {i \in Nat : i <= L => after[i] = g[i]}
  <1>10. 0 \in S
    BY <1>1, <1>6, <1>9
  <1>11. ASSUME NEW i \in Nat, i \in S PROVE i + 1 \in S
    <2> SUFFICES ASSUME i + 1 <= L PROVE after[i + 1] = g[i + 1]
      OBVIOUS
    <2>1. i + 1 \in 0..L /\ i + 1 \in 1..L /\ i + 1 # 0 /\ (i + 1) - 1 = i /\ after[i] = g[i]
      BY <1>1, <1>11
    <2>2. after[i + 1] = Body(after, i + 1) /\ g[i + 1] = Body(g, i + 1)
      BY <1>8, <1>9, <2>1
    <2>3. QED
      BY <2>1, <2>2
  <1> HIDE DEF S
  <1>12. L \in S
    BY <1>1, <1>10, <1>11, SetInduction
  <1>13. after[L] = g[L]
    BY <1>1, <1>12 DEF S
  <1>14. QED
    BY <1>3, <1>6, <1>7, <1>13 DEF Loop, L

\* The first i observations that name the day and lack nothing.
Of(doc, day, i) ==
  {k \in 1..i : {doc[k].day, doc[k].value} \cap {Missing, Garbled} = {} /\ doc[k].day = day}

LEMMA OfNext ==
  ASSUME NEW doc \in Documents, ~Refused(doc), NEW i \in Nat, i + 1 \in 1..Len(doc), NEW day
  PROVE  Of(doc, day, i + 1) = IF ~Skipped(doc[i + 1]) /\ doc[i + 1].day = day
                               THEN Of(doc, day, i) \cup {i + 1} ELSE Of(doc, day, i)
  <1>1. doc[i + 1] \in Observations /\ ~Malformed(doc[i + 1])
    BY DocumentType DEF Refused
  <1>2. Skipped(doc[i + 1]) <=>
          {doc[i + 1].day, doc[i + 1].value} \cap {Missing, Garbled} # {}
    BY <1>1, CompleteObservation, EcbDocumentAssumption DEF Skipped
  <1>3. 1..(i + 1) = (1..i) \cup {i + 1}
    OBVIOUS
  <1>4. QED
    BY <1>2, <1>3 DEF Of

\* After i observations the map has the last number of each day it has.
LEMMA LoopPublishes ==
  ASSUME NEW doc \in Documents, ~Refused(doc), NEW g, Loop(doc, g), NEW day \in Days,
         NEW n \in 0..Len(doc)
  PROVE  /\ Of(doc, day, n) # {} => day \in DOMAIN g[n]
         /\ day \in DOMAIN g[n] =>
              \E k \in Of(doc, day, n) : /\ \A j \in Of(doc, day, n) : j <= k
                                         /\ g[n][day] = doc[k].value
  <1> DEFINE P(i) == /\ Of(doc, day, i) # {} => day \in DOMAIN g[i]
                     /\ day \in DOMAIN g[i] =>
                          \E k \in Of(doc, day, i) : /\ \A j \in Of(doc, day, i) : j <= k
                                                     /\ g[i][day] = doc[k].value
             S == {i \in Nat : i <= Len(doc) => P(i)}
  <1>1. Len(doc) \in Nat
    BY DocumentType
  <1>2. 0 \in S
    <2>1. Of(doc, day, 0) = {} /\ DOMAIN g[0] = {}
      BY DEF Of, Loop, NoRates
    <2>2. QED
      BY <2>1
  <1>3. ASSUME NEW i \in Nat, i \in S PROVE i + 1 \in S
    <2> SUFFICES ASSUME i + 1 <= Len(doc) PROVE P(i + 1)
      OBVIOUS
    <2> DEFINE obs == doc[i + 1]
    <2>1. i + 1 \in 1..Len(doc) /\ (i + 1) - 1 = i /\ P(i)
      BY <1>1, <1>3
    <2> HIDE DEF P
    <2>2. g[i + 1] = IF Skipped(obs) THEN g[i] ELSE Put(g[i], obs)
      BY <2>1 DEF Loop
    <2>3. CASE Skipped(obs)
      BY <2>1, <2>2, <2>3, OfNext DEF P
    <2>4. CASE ~Skipped(obs) /\ obs.day # day
      <3>1. Of(doc, day, i + 1) = Of(doc, day, i)
        BY <2>1, <2>4, OfNext
      <3>2. day \in DOMAIN g[i + 1] <=> day \in DOMAIN g[i]
        BY <2>2, <2>4 DEF Put
      <3>3. day \in DOMAIN g[i] => g[i + 1][day] = g[i][day]
        BY <2>2, <2>4 DEF Put
      <3>4. QED
        BY <2>1, <3>1, <3>2, <3>3 DEF P
    <2>5. CASE ~Skipped(obs) /\ obs.day = day
      <3>1. Of(doc, day, i + 1) = Of(doc, day, i) \cup {i + 1}
        BY <2>1, <2>5, OfNext
      <3>2. \A j \in Of(doc, day, i + 1) : j <= i + 1
        BY DEF Of
      <3>3. day \in DOMAIN g[i + 1] /\ g[i + 1][day] = obs.value
        BY <2>2, <2>5 DEF Put
      <3>4. QED
        BY <3>1, <3>2, <3>3 DEF P
    <2>6. QED
      BY <2>3, <2>4, <2>5
  <1> HIDE DEF S, P
  <1>4. n \in S /\ n <= Len(doc)
    BY <1>1, <1>2, <1>3, SetInduction
  <1>5. QED
    BY <1>4 DEF S, P

\* So RatesOf is its reference, and what a caller expects.
LEMMA RatesOfIsPublished ==
  ASSUME NEW doc \in Documents, ~Refused(doc)
  PROVE  RatesOf(doc) \in RateMaps /\ Published(RatesOf(doc), doc)
  <1>1. PICK g : Loop(doc, g) /\ RatesOf(doc) = g[Len(doc)]
    BY RatesOfLoop
  <1> DEFINE L == Len(doc)
             r == RatesOf(doc)
  <1>2. L \in Nat /\ L \in 0..L /\ DOMAIN doc = 1..L
    BY DocumentType
  <1>3. r \in RateMaps
    BY <1>1, <1>2 DEF Loop
  <1>4. DOMAIN r \subseteq Days
    BY <1>3 DEF RateMaps
  <1>5. ASSUME NEW day \in Days
        PROVE  LET at == Of(doc, day, L)
               IN  /\ day \in DOMAIN r <=> at # {}
                   /\ at # {} => r[day] = doc[CHOOSE i \in at : \A j \in at : j <= i].value
    <2> DEFINE at == Of(doc, day, L)
    <2>1. /\ at # {} => day \in DOMAIN r
          /\ day \in DOMAIN r =>
               \E k \in at : (\A j \in at : j <= k) /\ r[day] = doc[k].value
      BY <1>1, <1>2, LoopPublishes
    <2>2. at \subseteq Nat
      BY <1>2 DEF Of
    <2> HIDE DEF at, r
    <2>3. ASSUME at # {}
          PROVE  r[day] = doc[CHOOSE i \in at : \A j \in at : j <= i].value
      <3>1. PICK k \in at : (\A j \in at : j <= k) /\ r[day] = doc[k].value
        BY <2>1, <2>3
      <3>2. \A m \in at : (\A j \in at : j <= m) => m = k
        BY <2>2, <3>1
      <3>3. (CHOOSE i \in at : \A j \in at : j <= i) = k
        BY <3>1, <3>2
      <3>4. QED
        BY <3>1, <3>3
    <2>4. QED
      BY <2>1, <2>3 DEF at
  <1> HIDE DEF r
  <1> DEFINE At(day) == {i \in DOMAIN doc :
                           /\ {doc[i].day, doc[i].value} \cap {Missing, Garbled} = {}
                           /\ doc[i].day = day}
  <1>6. ASSUME NEW day \in Days
        PROVE  /\ day \in DOMAIN r <=> At(day) # {}
               /\ At(day) # {} =>
                    r[day] = doc[CHOOSE i \in At(day) : \A j \in At(day) : j <= i].value
    <2>1. At(day) = Of(doc, day, L)
      BY <1>2 DEF Of
    <2> HIDE DEF At
    <2>2. QED
      BY <1>5, <2>1
  <1>7. Published(r, doc)
    BY <1>4, <1>6 DEF Published
  <1>8. QED
    BY <1>3, <1>7 DEF r

------------------------------------------------------------------------------
(* The call.                                                               *)

\* requests, observed and errors when the last request was sent, was answered, or
\* failed and was counted.
AllCounted == observed = requests /\ errors = requests
Answered   == observed = requests /\ errors = requests - 1
InFlight   == observed = requests - 1 /\ errors = requests - 1

Places == {"top", "build", "sending", "reading", "judging", "waiting", "returned"}

TypeInv ==
  /\ pc \in Places
  /\ attempt \in Nat /\ requests \in Nat /\ observed \in Nat /\ errors \in Nat
  /\ result = "pending" <=> pc # "returned"

LoopInv ==
  /\ pc \in {"build", "sending", "reading", "judging"} => attempt < MaxAttempts
  /\ pc \in {"top", "build"} => requests = attempt
  /\ pc \in {"sending", "reading", "waiting"} => requests = attempt + 1
  /\ pc = "judging" => IF lastErr \in Retriable THEN requests = attempt + 1
                       ELSE requests \in {attempt, attempt + 1}
  /\ pc \in {"top", "build"} => attempt = 0 \/ lastErr \in Retriable
  /\ pc = "waiting" => lastErr \in Retriable

MetricsInv ==
  /\ pc \in {"top", "build", "waiting"} => AllCounted
  /\ pc = "sending" => requests > 0 /\ InFlight
  /\ pc = "reading" => requests > 0 /\ Answered
  /\ pc \in {"judging", "returned"} =>
       \/ AllCounted
       \/ requests > 0 /\ InFlight /\ lastErr \in {"ctx", "timeout"}
       \/ requests > 0 /\ Answered /\ lastErr \notin {"ctx", "timeout"}
  /\ pc = "judging" /\ lastErr \in Retriable => AllCounted
  /\ pc \in {"top", "build", "sending", "reading"} => lastErr \notin {"ctx", "timeout"}

ClientInv == TypeInv /\ LoopInv /\ MetricsInv

\* The invariant holds before the call.
LEMMA ClientInit == Init => ClientInv
  BY DEF Init, ClientInv, TypeInv, LoopInv, MetricsInv, Places, AllCounted, Retriable

\* The induction step: one case per action of the client.
LEMMA ClientStep == ClientInv /\ [Next]_vars => ClientInv'
  <1> SUFFICES ASSUME ClientInv, [Next]_vars PROVE ClientInv'
    OBVIOUS
  <1> USE EcbClientAssumption
      DEF ClientInv, TypeInv, LoopInv, MetricsInv, Places, AllCounted, Answered, InFlight,
          Retriable, counters
  <1>1. CASE EndCtx
    BY <1>1 DEF EndCtx
  <1>2. CASE Exhaust \/ TopRefused \/ GiveUp
    BY <1>2 DEF Exhaust, LoopOver, TopRefused, GiveUp, ReturnError, Return
  <1>3. CASE TopEnters \/ Send
    BY <1>3 DEF TopEnters, Send
  <1>4. CASE BuildFails \/ DoFailsByCtx \/ DoTimesOut
    BY <1>4 DEF BuildFails, DoFailsByCtx, DoTimesOut, FailUncounted, Fail
  <1>5. CASE DoBreaks \/ BadStatus
    BY <1>5 DEF DoBreaks, BadStatus, FailCounted, Fail, Statuses
  <1>6. CASE StatusOK
    BY <1>6 DEF StatusOK
  <1>7. CASE BodyFails \/ Decodes
    BY <1>7 DEF BodyFails, Decodes, FailUncounted, Fail, Return
  <1>8. CASE BackOff
    BY <1>8 DEF BackOff
  <1>9. CASE TimerFires \/ CtxWins
    BY <1>9 DEF TimerFires, CtxWins, ReturnError, Return
  <1>10. CASE UNCHANGED vars
    BY <1>10 DEF vars
  <1>11. QED
    BY <1>1, <1>2, <1>3, <1>4, <1>5, <1>6, <1>7, <1>8, <1>9, <1>10
       DEF Next, Local, Do, Read, Wait, Done

\* The state of a call keeps its types; rates are only handed out as data.
THEOREM TypeCorrect == Safety => []TypeOK
  <1>1. Init => TypeOK
    <2>1. 0 \in 0..MaxObs /\ <<>> \in [1..0 -> Observations]
      BY EcbDocumentAssumption
    <2>2. <<>> \in Documents
      BY <2>1 DEF Documents
    <2>3. QED
      BY <2>2 DEF Init, TypeOK
  <1>2. TypeOK /\ ClientInv /\ [Next]_vars => TypeOK'
    <2> SUFFICES ASSUME TypeOK, ClientInv, [Next]_vars PROVE TypeOK'
      OBVIOUS
    <2> USE DEF TypeOK, ClientInv, TypeInv, LoopInv, Retriable, Final, counters, answer
    <2>1. CASE EndCtx
      BY <2>1 DEF EndCtx
    <2>2. CASE Exhaust \/ TopRefused \/ GiveUp \/ CtxWins
      BY <2>2 DEF Exhaust, LoopOver, TopRefused, GiveUp, CtxWins, ReturnError, Return
    <2>3. CASE Decodes
      BY <2>3 DEF Decodes, Return
    <2>4. CASE TopEnters \/ Send \/ StatusOK \/ TimerFires
      BY <2>4 DEF TopEnters, Send, StatusOK, TimerFires
    <2>5. CASE BuildFails \/ DoFailsByCtx \/ DoTimesOut \/ BodyFails
      BY <2>5 DEF BuildFails, DoFailsByCtx, DoTimesOut, BodyFails, FailUncounted, Fail
    <2>6. CASE DoBreaks \/ BadStatus
      BY <2>6 DEF DoBreaks, BadStatus, FailCounted, Fail, Statuses
    <2>7. CASE BackOff
      BY <2>7 DEF BackOff
    <2>8. CASE UNCHANGED vars
      BY <2>8 DEF vars
    <2>9. QED
      BY <2>1, <2>2, <2>3, <2>4, <2>5, <2>6, <2>7, <2>8 DEF Next, Local, Do, Read, Wait, Done
  <1>3. QED
    BY ClientInit, ClientStep, <1>1, <1>2, PTL DEF Safety

\* When the call is over the histogram missed at most its last request, and the
\* error counter has every request that was retried.
THEOREM MetricsOfTheCall == Safety => []MetricsMissAtMostTheLast
  <1>1. ClientInv => MetricsMissAtMostTheLast
    BY DEF ClientInv, TypeInv, MetricsInv, MetricsMissAtMostTheLast, AllCounted, Answered,
         InFlight
  <1>2. QED
    BY ClientInit, ClientStep, <1>1, PTL DEF Safety

\* A request is sent again only after an error that is marked retriable, and none when
\* the context is over.
THEOREM RetryOnlyRetriable == Safety => OnlyRetriableIsRetried
  <1>1. ClientInv /\ [Next]_vars =>
          [requests' > requests => /\ requests = 0 \/ lastErr \in Retriable
                                   /\ ctx = "live"]_vars
    BY DEF ClientInv, TypeInv, LoopInv, Next, EndCtx, Live, Local, Exhaust, TopRefused, TopEnters,
         BuildFails, Send, GiveUp, BackOff, Do, DoFailsByCtx, DoTimesOut, DoBreaks, BadStatus,
         StatusOK, Read, BodyFails, Decodes, Wait, TimerFires, CtxWins, Done, ReturnError, Return,
         Fail, FailUncounted, FailCounted, counters, vars
  <1>2. QED
    BY ClientInit, ClientStep, <1>1, PTL DEF Safety, OnlyRetriableIsRetried

\* The call implements the safety of FetchCall: it never sends more requests than
\* MaxAttempts and only says "exhausted" when it sent them all.
THEOREM CallSafety == Safety => Call!Safety
  <1>1. Init => Call!Init
    BY DEF Init, Call!Init
  <1>2. ClientInv /\ [Next]_vars => [Call!Next]_(Call!call)
    <2> SUFFICES ASSUME ClientInv, [Next]_vars PROVE [Call!Next]_(Call!call)
      OBVIOUS
    <2> USE EcbClientAssumption DEF ClientInv, TypeInv, LoopInv, counters, Call!call
    <2>1. ASSUME NEW v \in {"data", "exhausted", "error", "ctx"}, pc # "returned", Return(v),
                 v = "data" => requests > 0, v = "exhausted" => requests >= MaxAttempts
          PROVE  Call!Next
      BY <2>1 DEF Return, Call!Next, Call!Return, Call!Results
    <2>2. CASE Exhaust \/ TopRefused \/ GiveUp \/ Decodes \/ CtxWins
      BY <2>1, <2>2 DEF Exhaust, LoopOver, TopRefused, GiveUp, Decodes, CtxWins,
           ReturnError, MetricsInv
    <2>3. CASE Send
      BY <2>3 DEF Send, Call!Next, Call!Request
    <2>4. CASE \/ EndCtx \/ TopEnters \/ BuildFails \/ BackOff \/ Do \/ BodyFails \/ TimerFires
               \/ UNCHANGED vars
      BY <2>4 DEF EndCtx, TopEnters, BuildFails, BackOff, Do, DoFailsByCtx, DoTimesOut,
           DoBreaks, BadStatus, StatusOK, BodyFails, TimerFires, Fail, FailUncounted,
           FailCounted, vars
    <2>5. QED
      BY <2>2, <2>3, <2>4 DEF Next, Local, Read, Wait, Done
  <1>3. QED
    BY ClientInit, ClientStep, <1>1, <1>2, PTL DEF Safety, Call!Safety

\* The sleep between two attempts has a delay of its attempt.
DelayInv ==
  pc = "waiting" => attempt \in 0..(MaxAttempts - 2) /\ delay \in Backoffs(attempt)

LEMMA DelayStep == ClientInv /\ DelayInv /\ [Next]_vars => DelayInv'
  <1> SUFFICES ASSUME ClientInv, DelayInv, [Next]_vars, pc' = "waiting"
               PROVE  attempt' \in 0..(MaxAttempts - 2) /\ delay' \in Backoffs(attempt')
    BY DEF DelayInv, Backoffs, Capped, ShiftLeft
  <1>1. CASE BackOff
    <2>1. /\ attempt \in Nat /\ attempt' = attempt
          /\ attempt < MaxAttempts /\ attempt # MaxAttempts - 1
      BY <1>1 DEF BackOff, ClientInv, TypeInv, LoopInv
    <2>2. delay' \in Backoffs(attempt)
      BY <1>1 DEF BackOff
    <2>3. QED
      BY <2>1, <2>2, EcbClientAssumption
  <1>2. CASE EndCtx \/ UNCHANGED vars
    BY <1>2 DEF EndCtx, vars, DelayInv
  <1>3. QED
    BY <1>1, <1>2 DEF Next, Local, Exhaust, TopRefused, TopEnters, BuildFails, Send, GiveUp, Do,
       DoFailsByCtx, DoTimesOut, DoBreaks, BadStatus, StatusOK, Read, BodyFails, Decodes, Wait,
       TimerFires, CtxWins, Done, ReturnError, Return, Fail, FailUncounted, FailCounted, vars,
       DelayInv

LEMMA DelayBounds ==
  ASSUME NEW n \in Nat, NEW b \in Backoffs(n)
  PROVE  /\ 10 * b <= 13 * Exact(n)
         /\ BaseDelay * Pow2[n] < Half => 10 * b > 7 * Exact(n) - 10
  <1>1. PICK f \in 7..12 : b = Tenths(Capped(n), f)
    BY DEF Backoffs
  <1>2. Exact(n) \in Nat /\ Capped(n) \in Int /\ Capped(n) <= Exact(n)
    BY CappedAtMost
  <1>3. BaseDelay * Pow2[n] < Half => Capped(n) = Exact(n)
    BY CappedExact
  <1>4. /\ b \in Int
        /\ Capped(n) < 0 => b <= 0
        /\ Capped(n) >= 0 => 10 * b <= 13 * Capped(n) /\ 10 * b > 7 * Capped(n) - 10
    BY <1>1, <1>2, TenthsBounds
  <1>5. QED
    BY <1>2, <1>3, <1>4

\* Whatever the policy, a sleep is at most 13 tenths of what the comment says, and of
\* MaxDelay: an overflow of backoff shortens it or leaves it out.
THEOREM DelayIsBounded ==
  Safety => [](pc = "waiting" => 10 * delay <= 13 * Exact(attempt))
  <1>1. Init => DelayInv
    BY DEF Init, DelayInv
  <1>2. DelayInv => (pc = "waiting" => 10 * delay <= 13 * Exact(attempt))
    BY DelayBounds, EcbClientAssumption DEF DelayInv
  <1>3. QED
    BY ClientInit, ClientStep, DelayStep, <1>1, <1>2, PTL DEF Safety

\* The delays of a policy that never shifts a bit into or over the sign of a Duration.
NoOverflow == \A n \in 0..(MaxAttempts - 2) : BaseDelay * Pow2[n] < Pow2[Width - 1]

\* Then each sleep is what the comments of backoff say, within the jitter.
THEOREM DelayIsAsCommented ==
  ASSUME NoOverflow
  PROVE  Safety => []DelayFollowsComment
  <1>1. Init => DelayInv
    BY DEF Init, DelayInv
  <1>2. DelayInv => DelayFollowsComment
    <2> SUFFICES ASSUME DelayInv, pc = "waiting"
                 PROVE  10 * delay > 7 * Exact(attempt) - 10 /\ 10 * delay <= 13 * Exact(attempt)
      BY DEF DelayFollowsComment, Exact
    <2>1. attempt \in Nat /\ delay \in Backoffs(attempt) /\ BaseDelay * Pow2[attempt] < Half
      BY EcbClientAssumption DEF DelayInv, NoOverflow, Half
    <2>2. QED
      BY <2>1, DelayBounds
  <1>3. QED
    BY ClientInit, ClientStep, DelayStep, <1>1, <1>2, PTL DEF Safety

\* What a call returned as data is what it makes of a document without a malformed
\* observation.
DecodedInv ==
  IF result = "data"
  THEN document \in Documents /\ ~Refused(document) /\ rates = RatesOf(document)
  ELSE rates = NoRates

LEMMA DecodedStep == ClientInv /\ DecodedInv /\ [Next]_vars => DecodedInv'
  <1> SUFFICES ASSUME ClientInv, DecodedInv, [Next]_vars PROVE DecodedInv'
    OBVIOUS
  <1>1. CASE Decodes
    BY <1>1 DEF Decodes, Return, DecodedInv, Refused
  <1>2. ASSUME UNCHANGED answer, result' = "data" <=> result = "data" PROVE DecodedInv'
    BY <1>2 DEF answer, DecodedInv, Refused
  <1>3. pc = "returned" <=> result # "pending"
    BY DEF ClientInv, TypeInv
  <1>4. QED
    BY <1>1, <1>2, <1>3
       DEF Next, EndCtx, Local, Exhaust, LoopOver, TopRefused, TopEnters, BuildFails, Send, GiveUp,
           BackOff, Do, DoFailsByCtx, DoTimesOut, DoBreaks, BadStatus, StatusOK, Read, BodyFails,
           Wait, TimerFires, CtxWins, Done, ReturnError, Return, Fail, FailUncounted, FailCounted,
           vars

LEMMA DecodedHolds == Safety => []DecodedInv
  <1>1. Init => DecodedInv
    BY DEF Init, DecodedInv
  <1>2. QED
    BY ClientInit, ClientStep, DecodedStep, <1>1, PTL DEF Safety

\* All or nothing: what a call returns as data is made of a document without a malformed
\* observation, and it has the last number of each day that has one, and no other day.
THEOREM AnswersArePublished == Safety => []AnswerIsPublished
  <1>1. DecodedInv => AnswerIsPublished
    <2> SUFFICES ASSUME DecodedInv, result = "data"
                 PROVE  /\ Published(rates, document)
                        /\ \A i \in DOMAIN document :
                             Garbled \in {document[i].day, document[i].value} =>
                               Missing \in {document[i].day, document[i].value}
      BY DEF AnswerIsPublished
    <2>1. Published(rates, document) /\ ~Refused(document)
      BY RatesOfIsPublished DEF DecodedInv
    <2>2. QED
      BY <2>1 DEF Refused, Malformed, Skipped
  <1>2. QED
    BY DecodedHolds, <1>1, PTL

\* Whatever the call returns is a map from days to numbers: the answers FetchWorker takes
\* for granted.
THEOREM AnswersAreRateMaps == Safety => [](rates \in RateMaps)
  <1>1. DecodedInv => rates \in RateMaps
    BY RatesOfIsPublished, NoRatesIsRateMap DEF DecodedInv
  <1>2. QED
    BY DecodedHolds, <1>1, PTL

------------------------------------------------------------------------------
(* Progress.                                                               *)

\* Steps from a place to the end of its attempt.
AttemptLeft == [top |-> 6, build |-> 5, sending |-> 4, reading |-> 3, judging |-> 2,
                waiting |-> 1, returned |-> 0]

\* Bounds the steps a call still takes: eight for each attempt to come, those of this one,
\* and the end of the context.
StepsLeft ==
  LET toCome == IF attempt < MaxAttempts THEN MaxAttempts - attempt ELSE 0
  IN  8 * toCome + AttemptLeft[pc] + (IF Live THEN 1 ELSE 0)

\* A call cannot go on for ever: each step, of the loop, of the network or of the context,
\* brings it nearer to its return, and it takes at most 8 * MaxAttempts + 7 of them.
THEOREM EveryStepIsProgress ==
  Safety => [][StepsLeft' < StepsLeft /\ StepsLeft' \in Nat]_vars
  <1>1. ASSUME ClientInv, DelayInv, [Next]_vars, ~UNCHANGED vars
        PROVE  StepsLeft' < StepsLeft /\ StepsLeft' \in Nat
    <2> USE <1>1, EcbClientAssumption DEF ClientInv, TypeInv, Places, StepsLeft, AttemptLeft, Live
    <2>1. CASE EndCtx
      BY <2>1 DEF EndCtx
    <2>2. CASE Exhaust \/ TopRefused \/ GiveUp \/ CtxWins \/ Decodes
      BY <2>2 DEF Exhaust, LoopOver, TopRefused, GiveUp, CtxWins, Decodes, ReturnError, Return
    <2>3. CASE TopEnters \/ Send \/ StatusOK \/ BackOff
      BY <2>3 DEF TopEnters, Send, StatusOK, BackOff
    <2>4. CASE BuildFails \/ DoFailsByCtx \/ DoTimesOut \/ DoBreaks \/ BadStatus \/ BodyFails
      BY <2>4 DEF BuildFails, DoFailsByCtx, DoTimesOut, DoBreaks, BadStatus, BodyFails, Fail,
           FailUncounted, FailCounted
    <2>5. CASE TimerFires
      <3>1. attempt + 1 < MaxAttempts
        BY <2>5 DEF TimerFires, DelayInv
      <3>2. QED
        BY <2>5, <3>1 DEF TimerFires
    <2>6. QED
      BY <2>1, <2>2, <2>3, <2>4, <2>5 DEF Next, Local, Do, Read, Wait, Done
  <1>2. Init => DelayInv
    BY DEF Init, DelayInv
  <1>3. ClientInv /\ DelayInv /\ [Next]_vars => [StepsLeft' < StepsLeft /\ StepsLeft' \in Nat]_vars
    BY <1>1
  <1>4. QED
    BY ClientInit, ClientStep, DelayStep, <1>2, <1>3, PTL DEF Safety

===============================================================================
