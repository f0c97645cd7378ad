----------------------------- MODULE RateLimitProofs -----------------------------
(***************************************************************************)
(* Safety of RateLimit, for every value of its constants.                  *)
(***************************************************************************)
EXTENDS RateLimit, FiniteSetTheorems, TLAPS

Counting(f) == f \in [Ages -> Nat] /\ IsFiniteSet(Stamps(f))

\* A set of stamps, a tick later.
Shifted(S) == {s \in Ages \X Nat : s[1] # 0 /\ <<s[1] - 1, s[2]>> \in S}

\* The attempts that Redis has allowed within a window are those of a counter
\* that has expired, those of the counter there is, and the attempt whose
\* EXPIRE gave this counter its TTL, which is as old as the TTL is spent.
Split(old, new, opener) ==
  /\ Stamps(allowed) = old \cup new \cup opener
  /\ Cardinality(old) <= Limit - 1
  /\ Cardinality(opener) <= 1
  /\ counter = 0 => new = {}
  /\ counter # 0 => Cardinality(new) <= counter - 1 /\ Cardinality(new) <= Limit - 1
  /\ left = 0 => opener = {}
  /\ left # 0 => /\ \A s \in old : s[1] >= Window - left
                 /\ \A s \in opener : s[1] = Window - left

WindowsSplit ==
  \E old, new, opener \in SUBSET Stamps(allowed) : Split(old, new, opener)

\* The counter has a TTL only if there is one; the thread that is to give it
\* one is alone, and the counter has none yet.
OneOpener ==
  /\ counter = 0 => left = 0
  /\ \A t \in Threads : pc[t] = "expire" =>
       /\ counter # 0 /\ left = 0
       /\ \A u \in Threads : pc[u] = "expire" => u = t

MemoryInv ==
  \A p \in Processes : /\ Counting(hits[p])
                       /\ Total(hits[p]) <= Limit
                       /\ allowedHere[p] = hits[p]

\* The inductive invariant.
RInv ==
  /\ counter \in 0 .. Limit + 1
  /\ left \in 0 .. Window
  /\ pc \in [Threads -> {"idle", "expire", "memory"}]
  /\ expireLost \in BOOLEAN
  /\ hits \in [Processes -> [Ages -> Nat]]
  /\ allowedHere \in [Processes -> [Ages -> Nat]]
  /\ Counting(allowed)
  /\ MemoryInv
  /\ OneOpener
  /\ WindowsSplit
-----------------------------------------------------------------------------
(* Counts of stamps by age.                                                *)

\* A function of counts stands for the set of its stamps.
LEMMA StampsSet ==
  ASSUME NEW f \in [Ages -> Nat]
  PROVE  Stamps(f) = {s \in Ages \X Nat : 1 <= s[2] /\ s[2] <= f[s[1]]}
<1> DEFINE R == {s \in Ages \X Nat : 1 <= s[2] /\ s[2] <= f[s[1]]}
<1>1. ASSUME NEW s \in Stamps(f) PROVE s \in R
  <2>1. PICK a \in Ages : s \in {<<a, k>> : k \in 1 .. f[a]}
    BY <1>1 DEF Stamps
  <2>2. PICK k \in 1 .. f[a] : s = <<a, k>>
    BY <2>1
  <2>3. k \in Nat /\ 1 <= k /\ k <= f[a]
    BY <2>2
  <2> QED
    BY <2>2, <2>3
<1>2. ASSUME NEW s \in R PROVE s \in Stamps(f)
  <2>1. s = <<s[1], s[2]>> /\ s[1] \in Ages /\ s[2] \in 1 .. f[s[1]]
    BY <1>2
  <2>2. s \in {<<s[1], k>> : k \in 1 .. f[s[1]]}
    BY <2>1
  <2> QED
    BY <2>1, <2>2 DEF Stamps
<1> QED
  BY <1>1, <1>2

\* Nothing counted, no stamps.
LEMMA NoStampsCount == Counting(NoStamps) /\ Stamps(NoStamps) = {} /\ Total(NoStamps) = 0
<1>1. NoStamps \in [Ages -> Nat]
  BY DEF NoStamps
<1>2. Stamps(NoStamps) = {}
  BY <1>1, StampsSet DEF NoStamps
<1> QED
  BY <1>1, <1>2, FS_EmptySet DEF Counting, Total

\* A new stamp is one more.
LEMMA StampAdds ==
  ASSUME NEW f, Counting(f)
  PROVE  /\ Counting(Stamp(f))
         /\ Stamps(Stamp(f)) = Stamps(f) \cup {<<0, f[0] + 1>>}
         /\ Total(Stamp(f)) = Total(f) + 1
<1>1. 0 \in Ages /\ f \in [Ages -> Nat] /\ IsFiniteSet(Stamps(f))
  BY RateLimitAssumption DEF Ages, Counting
<1>2. Stamp(f) \in [Ages -> Nat]
  BY <1>1 DEF Stamp
<1>3. \A a \in Ages : Stamp(f)[a] = IF a = 0 THEN f[0] + 1 ELSE f[a]
  BY <1>1 DEF Stamp
<1>4. f[0] \in Nat
  BY <1>1
<1>5. Stamps(Stamp(f)) = Stamps(f) \cup {<<0, f[0] + 1>>}
  <2>1. ASSUME NEW s \in Ages \X Nat
        PROVE  (1 <= s[2] /\ s[2] <= Stamp(f)[s[1]]) <=>
                 ((1 <= s[2] /\ s[2] <= f[s[1]]) \/ s = <<0, f[0] + 1>>)
    <3>1. s = <<s[1], s[2]>> /\ s[1] \in Ages /\ s[2] \in Nat
      OBVIOUS
    <3>2. CASE s[1] = 0
      BY <1>1, <1>3, <1>4, <3>1, <3>2
    <3>3. CASE s[1] # 0
      BY <1>3, <3>1, <3>3
    <3> QED
      BY <3>2, <3>3
  <2>2. <<0, f[0] + 1>> \in Ages \X Nat
    BY <1>1, <1>4
  <2> QED
    BY <1>1, <1>2, <2>1, <2>2, StampsSet
<1>6. <<0, f[0] + 1>> \notin Stamps(f)
  BY <1>1, <1>4, StampsSet
<1> QED
  BY <1>1, <1>2, <1>5, <1>6, FS_AddElement DEF Counting, Total

\* A tick shifts the stamps and drops the oldest.
LEMMA OlderShifts ==
  ASSUME NEW f \in [Ages -> Nat]
  PROVE  Older(f) \in [Ages -> Nat] /\ Stamps(Older(f)) = Shifted(Stamps(f))
<1>1. \A a \in Ages : a \in Nat /\ (a # 0 => a - 1 \in Ages)
  BY RateLimitAssumption DEF Ages
<1>2. Older(f) \in [Ages -> Nat]
  BY <1>1 DEF Older
<1>3. ASSUME NEW s \in Ages \X Nat
      PROVE  (1 <= s[2] /\ s[2] <= Older(f)[s[1]]) <=>
               (s[1] # 0 /\ <<s[1] - 1, s[2]>> \in Stamps(f))
  <2>1. s[1] \in Ages /\ s[2] \in Nat /\ s[1] \in Nat
    BY <1>1
  <2>2. CASE s[1] = 0
    <3>1. Older(f)[s[1]] = 0
      BY <2>1, <2>2 DEF Older
    <3> QED
      BY <2>1, <2>2, <3>1
  <2>3. CASE s[1] # 0
    <3> DEFINE u == <<s[1] - 1, s[2]>>
    <3>1. Older(f)[s[1]] = f[s[1] - 1]
      BY <2>1, <2>3 DEF Older
    <3>2. u \in Ages \X Nat /\ u[1] = s[1] - 1 /\ u[2] = s[2]
      BY <1>1, <2>1, <2>3
    <3>3. u \in Stamps(f) <=> 1 <= s[2] /\ s[2] <= f[s[1] - 1]
      BY <3>2, StampsSet
    <3> QED
      BY <2>3, <3>1, <3>3
  <2> QED
    BY <2>2, <2>3
<1> QED
  BY <1>2, <1>3, StampsSet DEF Shifted

\* No stamp becomes two.
LEMMA ShiftedCardinality ==
  ASSUME NEW S, IsFiniteSet(S)
  PROVE  IsFiniteSet(Shifted(S)) /\ Cardinality(Shifted(S)) <= Cardinality(S)
<1> DEFINE g == [s \in Shifted(S) |-> <<s[1] - 1, s[2]>>]
<1>1. g \in [Shifted(S) -> S]
  BY DEF Shifted
<1>2. ASSUME NEW s \in Shifted(S), NEW u \in Shifted(S), g[s] = g[u]
      PROVE  s = u
  <2>1. /\ s = <<s[1], s[2]>> /\ u = <<u[1], u[2]>>
        /\ s[1] \in Int /\ u[1] \in Int
    BY RateLimitAssumption DEF Shifted, Ages
  <2>2. s[1] - 1 = u[1] - 1 /\ s[2] = u[2]
    BY <1>2
  <2> QED
    BY <2>1, <2>2
<1>3. g \in Injection(Shifted(S), S)
  BY <1>1, <1>2 DEF Injection, IsInjective
<1> QED
  BY <1>3, FS_Injection

\* So a tick leaves at most as many.
LEMMA OlderCounts ==
  ASSUME NEW f, Counting(f)
  PROVE  /\ Counting(Older(f))
         /\ Total(Older(f)) <= Total(f)
BY OlderShifts, ShiftedCardinality DEF Counting, Total

\* No age counts more than all ages together.
LEMMA CountBounded ==
  ASSUME NEW f, Counting(f), NEW a \in Ages
  PROVE  f[a] <= Total(f)
<1> DEFINE T == {a} \X (1 .. f[a])
<1>1. f[a] \in Nat
  BY DEF Counting
<1>2. IsFiniteSet(T) /\ Cardinality(T) = f[a]
  <2>1. IsFiniteSet(1 .. f[a]) /\ Cardinality(1 .. f[a]) = f[a]
    BY <1>1, FS_Interval
  <2>2. IsFiniteSet({a}) /\ Cardinality({a}) = 1
    BY FS_Singleton
  <2>3. IsFiniteSet(T) /\ Cardinality(T) = 1 * f[a]
    BY <2>1, <2>2, FS_Product
  <2> QED
    BY <1>1, <2>3
<1>3. T \in SUBSET Stamps(f)
  BY <1>1, StampsSet DEF Counting
<1> QED
  BY <1>2, <1>3, FS_Subset DEF Counting, Total

-----------------------------------------------------------------------------
(* The counter of Redis.                                                   *)

LEMMA SplitIsFinite ==
  ASSUME Counting(allowed), NEW S \in SUBSET Stamps(allowed)
  PROVE  IsFiniteSet(S) /\ Cardinality(S) \in Nat
BY FS_Subset, FS_CardinalityType DEF Counting

\* An INCR that opens a window: whatever was allowed before is of the last one.
LEMMA OpenWindow ==
  ASSUME RInv, counter = 0, counter' = 1, left' = left, allowed' = allowed
  PROVE  WindowsSplit'
<1>1. PICK old \in SUBSET Stamps(allowed), new \in SUBSET Stamps(allowed),
           opener \in SUBSET Stamps(allowed) : Split(old, new, opener)
  BY DEF RInv, WindowsSplit
<1>2. left = 0 /\ new = {} /\ opener = {}
  BY <1>1 DEF Split, RInv, OneOpener
<1>3. Cardinality({}) = 0
  BY FS_EmptySet
<1>4. Split(old, {}, {})'
  BY <1>1, <1>2, <1>3, RateLimitAssumption DEF Split
<1> QED
  BY <1>4 DEF WindowsSplit

\* A further INCR, whose attempt is allowed up to the limit.
LEMMA CountOne ==
  ASSUME RInv, counter # 0, counter' = Incremented, left' = left,
         allowed' = IF counter' <= Limit THEN Stamp(allowed) ELSE allowed
  PROVE  WindowsSplit'
<1>1. PICK old \in SUBSET Stamps(allowed), new \in SUBSET Stamps(allowed),
           opener \in SUBSET Stamps(allowed) : Split(old, new, opener)
  BY DEF RInv, WindowsSplit
<1>2. /\ Counting(allowed) /\ counter \in 0 .. Limit + 1 /\ Limit \in Nat \ {0}
      /\ Window \in Nat \ {0} /\ left \in 0 .. Window
  BY RateLimitAssumption DEF RInv
<1>3. counter' \in 1 .. Limit + 1 /\ counter' >= counter
  BY <1>2 DEF Incremented
<1>4. IsFiniteSet(new) /\ Cardinality(new) \in Nat
  BY <1>2, SplitIsFinite
<1>5. CASE counter' <= Limit
  <2> PICK s : s = <<0, allowed[0] + 1>>
    OBVIOUS
  <2>1. /\ allowed' = Stamp(allowed) /\ counter' = counter + 1
    BY <1>2, <1>5 DEF Incremented
  <2>2. Stamps(allowed') = Stamps(allowed) \cup {s}
    BY <1>2, <2>1, StampAdds
  <2>3. Cardinality(new \cup {s}) <= Cardinality(new) + 1
        /\ Cardinality(new \cup {s}) \in Nat
    <3>1. /\ IsFiniteSet(new \cup {s})
          /\ Cardinality(new \cup {s})
               = IF s \in new THEN Cardinality(new) ELSE Cardinality(new) + 1
      BY <1>4, FS_AddElement
    <3> QED
      BY <1>4, <3>1
  <2>4. Cardinality(new) <= counter - 1
    BY <1>1 DEF Split
  <2>5. Cardinality(new \cup {s}) <= counter' - 1
        /\ Cardinality(new \cup {s}) <= Limit - 1
    BY <1>2, <1>4, <1>5, <2>1, <2>3, <2>4
  <2>6. Split(old, new \cup {s}, opener)'
    BY <1>1, <1>3, <2>2, <2>5 DEF Split
  <2>7. /\ old \in SUBSET Stamps(allowed') /\ opener \in SUBSET Stamps(allowed')
        /\ new \cup {s} \in SUBSET Stamps(allowed')
    BY <2>2
  <2> QED
    BY <2>6, <2>7 DEF WindowsSplit
<1>6. CASE ~(counter' <= Limit)
  <2>1. Split(old, new, opener)'
    BY <1>1, <1>2, <1>3, <1>4, <1>6 DEF Split
  <2> QED
    BY <1>6, <2>1 DEF WindowsSplit
<1> QED
  BY <1>5, <1>6

\* EXPIRE comes late, after other attempts of the same window, and answers
\* that of the thread that makes it.
LEMMA StartExpiry ==
  ASSUME RInv, counter # 0, left = 0, left' = Window, counter' = counter,
         allowed' \in {allowed, Stamp(allowed)}
  PROVE  WindowsSplit'
<1>1. PICK old \in SUBSET Stamps(allowed), new \in SUBSET Stamps(allowed),
           opener \in SUBSET Stamps(allowed) : Split(old, new, opener)
  BY DEF RInv, WindowsSplit
<1>2. Counting(allowed) /\ Window \in Nat \ {0} /\ opener = {}
  BY <1>1, RateLimitAssumption DEF RInv, Split
<1>3. \A s \in Stamps(allowed) : s[1] \in Nat
  BY <1>2, StampsSet DEF Counting, Ages
<1>4. \A s \in old : s[1] >= Window - left'
  BY <1>2, <1>3
<1>5. CASE allowed' = allowed
  <2>1. Split(old, new, {})'
    BY <1>1, <1>2, <1>4, <1>5 DEF Split
  <2> QED
    BY <1>5, <2>1 DEF WindowsSplit
<1>6. CASE allowed' = Stamp(allowed)
  <2> PICK s : s = <<0, allowed[0] + 1>>
    OBVIOUS
  <2>1. Stamps(allowed') = Stamps(allowed) \cup {s}
    BY <1>2, <1>6, StampAdds
  <2>2. Cardinality({s}) = 1 /\ s[1] = Window - left'
    BY <1>2, FS_Singleton
  <2>3. Stamps(allowed') = old \cup new \cup {s}
    BY <1>1, <1>2, <2>1 DEF Split
  <2>4. Split(old, new, {s})'
    BY <1>1, <1>2, <1>4, <2>2, <2>3 DEF Split
  <2>5. /\ old \in SUBSET Stamps(allowed') /\ new \in SUBSET Stamps(allowed')
        /\ {s} \in SUBSET Stamps(allowed')
    BY <2>1
  <2> QED
    BY <2>4, <2>5 DEF WindowsSplit
<1> QED
  BY <1>5, <1>6

\* Time passes. When the key expires, everything older than the TTL and the
\* attempt that gave it are out of the window, and only the rest is left.
LEMMA TickSplits == RInv /\ Tick => WindowsSplit'
<1> SUFFICES ASSUME RInv, Tick PROVE WindowsSplit'
  OBVIOUS
<1>1. PICK old \in SUBSET Stamps(allowed), new \in SUBSET Stamps(allowed),
           opener \in SUBSET Stamps(allowed) : Split(old, new, opener)
  BY DEF RInv, WindowsSplit
<1>2. /\ Counting(allowed) /\ Window \in Nat \ {0} /\ Limit \in Nat \ {0}
      /\ left \in 0 .. Window /\ counter \in 0 .. Limit + 1
      /\ counter = 0 => left = 0
  BY RateLimitAssumption DEF RInv, OneOpener
<1>3. /\ left' = IF left = 0 THEN 0 ELSE left - 1
      /\ counter' = IF left = 1 THEN 0 ELSE counter
      /\ allowed' = Older(allowed)
  BY DEF Tick
<1>4. Stamps(allowed') = Shifted(Stamps(allowed))
  BY <1>2, <1>3, OlderShifts DEF Counting
<1>5. ASSUME NEW S \in SUBSET Stamps(allowed)
      PROVE  /\ Shifted(S) \in SUBSET Stamps(allowed')
             /\ Cardinality(Shifted(S)) <= Cardinality(S)
             /\ Cardinality(S) \in Nat /\ Cardinality(Shifted(S)) \in Nat
             /\ \A n \in Int : (\A s \in S : s[1] >= n) =>
                                 \A s \in Shifted(S) : s[1] >= n + 1
             /\ \A n \in Int : (\A s \in S : s[1] = n) =>
                                 \A s \in Shifted(S) : s[1] = n + 1
  <2>1. Shifted(S) \in SUBSET Stamps(allowed')
    BY <1>4 DEF Shifted
  <2>2. IsFiniteSet(S) /\ Cardinality(S) \in Nat
    BY <1>2, SplitIsFinite
  <2>3. IsFiniteSet(Shifted(S)) /\ Cardinality(Shifted(S)) <= Cardinality(S)
    BY <2>2, ShiftedCardinality
  <2>4. Cardinality(Shifted(S)) \in Nat
    BY <2>3, FS_CardinalityType
  <2>5. ASSUME NEW s \in Shifted(S)
        PROVE  /\ s[1] \in Int
               /\ \E u \in S : s[1] = u[1] + 1
    <3>1. s[1] \in Int /\ <<s[1] - 1, s[2]>> \in S
      BY <1>2 DEF Shifted, Ages
    <3>2. s[1] = <<s[1] - 1, s[2]>>[1] + 1
      BY <3>1
    <3> QED
      BY <3>1, <3>2
  <2>6. \A s \in S : s[1] \in Int
    BY <1>2, StampsSet DEF Counting, Ages
  <2> QED
    BY <2>1, <2>2, <2>3, <2>4, <2>5, <2>6
<1>6. Stamps(allowed') = Shifted(old) \cup Shifted(new) \cup Shifted(opener)
  BY <1>1, <1>4 DEF Split, Shifted
<1>7. \A s \in Stamps(allowed') : s[1] \in Int /\ s[1] < Window
  <2>1. allowed' \in [Ages -> Nat]
    BY <1>2, <1>3, OlderShifts DEF Counting
  <2> QED
    BY <1>2, <2>1, StampsSet DEF Ages
<1>8. CASE left = 0
  <2>1. opener = {} /\ Shifted(opener) = {}
    BY <1>1, <1>8 DEF Split, Shifted
  <2>2. Split(Shifted(old), Shifted(new), {})'
    BY <1>1, <1>2, <1>3, <1>5, <1>6, <1>8, <2>1, FS_EmptySet DEF Split, Shifted
  <2> QED
    BY <1>5, <2>2 DEF WindowsSplit
<1>9. CASE left = 1
  <2>1. Shifted(old) = {}
    <3>1. \A s \in old : s[1] >= Window - 1
      BY <1>1, <1>9 DEF Split
    <3>2. \A s \in Shifted(old) : s[1] >= (Window - 1) + 1
      BY <1>2, <1>5, <3>1
    <3> QED
      BY <1>2, <1>5, <1>7, <3>2
  <2>2. Shifted(opener) = {}
    <3>1. \A s \in opener : s[1] = Window - 1
      BY <1>1, <1>9 DEF Split
    <3>2. \A s \in Shifted(opener) : s[1] = (Window - 1) + 1
      BY <1>2, <1>5, <3>1
    <3> QED
      BY <1>2, <1>5, <1>7, <3>2
  <2>3. Cardinality(new) <= Limit - 1
    BY <1>1, <1>2, <1>9 DEF Split
  <2>4. Cardinality(Shifted(new)) <= Limit - 1
    BY <1>2, <1>5, <2>3
  <2>5. Split(Shifted(new), {}, {})'
    BY <1>2, <1>3, <1>6, <1>9, <2>1, <2>2, <2>4, FS_EmptySet DEF Split
  <2> QED
    BY <1>5, <2>5 DEF WindowsSplit
<1>10. CASE left > 1
  <2>1. left' = left - 1 /\ counter' = counter /\ counter # 0
    BY <1>2, <1>3, <1>10
  <2>2. /\ \A s \in Shifted(old) : s[1] >= Window - left'
        /\ \A s \in Shifted(opener) : s[1] = Window - left'
    <3>1. /\ Window - left \in Int /\ (Window - left) + 1 = Window - left'
          /\ \A s \in old : s[1] >= Window - left
          /\ \A s \in opener : s[1] = Window - left
      BY <1>1, <1>2, <1>10, <2>1 DEF Split
    <3>2. \A s \in Shifted(old) : s[1] >= (Window - left) + 1
      BY <1>5, <3>1
    <3>3. \A s \in Shifted(opener) : s[1] = (Window - left) + 1
      BY <1>5, <3>1
    <3> QED
      BY <3>1, <3>2, <3>3
  <2>3. /\ Cardinality(Shifted(old)) <= Limit - 1
        /\ Cardinality(Shifted(new)) <= counter - 1
        /\ Cardinality(Shifted(new)) <= Limit - 1
        /\ Cardinality(Shifted(opener)) <= 1
    BY <1>1, <1>2, <1>5, <2>1 DEF Split
  <2>4. Split(Shifted(old), Shifted(new), Shifted(opener))'
    BY <1>2, <1>6, <1>10, <2>1, <2>2, <2>3 DEF Split
  <2> QED
    BY <1>5, <2>4 DEF WindowsSplit
<1> QED
  BY <1>2, <1>8, <1>9, <1>10

\* Redis and its threads: what the steps that do not touch the memories keep.
LEMMA RedisStep ==
  ASSUME RInv, NEW t \in Threads,
         Increment(t) \/ RedisFails(t) \/ Expire(t)
  PROVE  RInv'
<1> USE RateLimitAssumption
<1>1. UNCHANGED <<hits, allowedHere>> /\ MemoryInv'
  BY DEF Increment, RedisFails, Expire, Answer, RInv, MemoryInv
<1>2. /\ counter \in 0 .. Limit + 1 /\ left \in 0 .. Window
      /\ pc \in [Threads -> {"idle", "expire", "memory"}]
      /\ Counting(allowed) /\ OneOpener /\ WindowsSplit /\ expireLost \in BOOLEAN
  BY DEF RInv
<1>3. CASE Increment(t)
  <2>1. /\ counter' = Incremented /\ counter' \in 1 .. Limit + 1
        /\ left' = left /\ expireLost' = expireLost
    BY <1>2, <1>3 DEF Increment, Incremented
  <2>2. CASE counter = 0
    <3>1. counter' = 1 /\ allowed' = allowed /\ pc' = [pc EXCEPT ![t] = "expire"]
      BY <1>2, <1>3, <2>1, <2>2 DEF Increment, Incremented, Goto
    <3>2. WindowsSplit'
      BY <2>1, <2>2, <3>1, OpenWindow
    <3>3. OneOpener'
      BY <1>2, <2>1, <2>2, <3>1 DEF OneOpener
    <3> QED
      BY <1>1, <1>2, <2>1, <3>1, <3>2, <3>3 DEF RInv
  <2>3. CASE counter # 0
    <3>1. counter' # 1
      BY <1>2, <2>1, <2>3 DEF Incremented
    <3>2. /\ allowed' = IF counter' <= Limit THEN Stamp(allowed) ELSE allowed
          /\ pc' = [pc EXCEPT ![t] = "idle"]
      BY <1>3, <3>1 DEF Increment, Answer, Goto
    <3>3. Counting(allowed)'
      BY <1>2, <3>2, StampAdds DEF Counting
    <3>4. WindowsSplit'
      BY <2>1, <2>3, <3>2, CountOne
    <3>5. OneOpener'
      BY <1>2, <2>1, <2>3, <3>2 DEF OneOpener
    <3> QED
      BY <1>1, <1>2, <2>1, <3>2, <3>3, <3>4, <3>5 DEF RInv
  <2> QED
    BY <2>2, <2>3
<1>4. CASE Expire(t)
  <2>1. /\ counter' = counter /\ left' = Window /\ allowed' = Stamp(allowed)
        /\ pc[t] = "expire" /\ pc' = [pc EXCEPT ![t] = "idle"]
        /\ expireLost' = expireLost
    BY <1>4 DEF Expire, Expiry, Answer, Goto
  <2>2. counter # 0 /\ left = 0
    BY <1>2, <2>1 DEF OneOpener
  <2>3. Counting(allowed)' /\ WindowsSplit'
    BY <1>2, <2>1, <2>2, StampAdds, StartExpiry DEF Counting
  <2>4. OneOpener'
    BY <1>2, <2>1, <2>2 DEF OneOpener
  <2> QED
    BY <1>1, <1>2, <2>1, <2>3, <2>4 DEF RInv
<1>5. CASE RedisFails(t)
  <2>1. /\ pc' = [pc EXCEPT ![t] = "memory"] /\ allowed' = allowed
        /\ expireLost' \in BOOLEAN
    BY <1>5 DEF RedisFails, Goto
  <2>2. CASE UNCHANGED <<counter, left>>
    <3>1. WindowsSplit'
      BY <1>2, <2>1, <2>2 DEF WindowsSplit, Split
    <3>2. OneOpener'
      BY <1>2, <2>1, <2>2 DEF OneOpener
    <3> QED
      BY <1>1, <1>2, <2>1, <2>2, <3>1, <3>2 DEF RInv
  <2>3. CASE pc[t] = "idle" /\ counter' = Incremented /\ left' = left
    <3>1. counter' \in 1 .. Limit + 1 /\ (counter = 0 => counter' = 1)
      BY <1>2, <2>3 DEF Incremented
    <3>2. OneOpener'
      BY <1>2, <2>1, <2>3, <3>1 DEF OneOpener
    <3>3. WindowsSplit'
      <4>1. CASE counter = 0
        BY <2>1, <2>3, <3>1, <4>1, OpenWindow
      <4>2. CASE counter # 0
        <5>1. PICK old \in SUBSET Stamps(allowed),
                   new \in SUBSET Stamps(allowed),
                   opener \in SUBSET Stamps(allowed) : Split(old, new, opener)
          BY <1>2 DEF WindowsSplit
        <5>2. IsFiniteSet(new) /\ Cardinality(new) \in Nat
          BY <1>2, SplitIsFinite
        <5>3. counter' >= counter
          BY <1>2, <2>3 DEF Incremented
        <5>4. Split(old, new, opener)'
          BY <1>2, <2>1, <2>3, <3>1, <4>2, <5>1, <5>2, <5>3 DEF Split
        <5> QED
          BY <2>1, <5>4 DEF WindowsSplit
      <4> QED
        BY <4>1, <4>2
    <3> QED
      BY <1>1, <1>2, <2>1, <2>3, <3>1, <3>2, <3>3 DEF RInv
  <2>4. CASE pc[t] = "expire" /\ counter' = counter /\ left' = Window
    <3>1. counter # 0 /\ left = 0
      BY <1>2, <2>4 DEF OneOpener
    <3>2. WindowsSplit'
      BY <2>1, <2>4, <3>1, StartExpiry
    <3>3. OneOpener'
      BY <1>2, <2>1, <2>4, <3>1 DEF OneOpener
    <3> QED
      BY <1>1, <1>2, <2>1, <2>4, <3>2, <3>3 DEF RInv
  <2> QED
    BY <1>5, <2>2, <2>3, <2>4 DEF RedisFails, Expiry
<1> QED
  BY <1>3, <1>4, <1>5

\* The memory of a process lets an attempt pass only below the limit.
LEMMA MemoryStep ==
  ASSUME RInv, NEW t \in Threads, MemoryAllow(t)
  PROVE  RInv'
<1> DEFINE p == Process(t)
<1>1. p \in Processes
  BY RateLimitAssumption DEF Process
<1>2. /\ UNCHANGED <<counter, left, allowed, expireLost>>
      /\ pc[t] = "memory" /\ pc' = [pc EXCEPT ![t] = "idle"]
  BY DEF MemoryAllow, Goto
<1>3. /\ hits \in [Processes -> [Ages -> Nat]] /\ MemoryInv
      /\ allowedHere \in [Processes -> [Ages -> Nat]]
      /\ pc \in [Threads -> {"idle", "expire", "memory"}] /\ OneOpener
  BY DEF RInv
<1>4. OneOpener' /\ WindowsSplit'
  <2>1. OneOpener'
    BY <1>2, <1>3 DEF OneOpener
  <2>2. WindowsSplit'
    BY <1>2 DEF RInv, WindowsSplit, Split
  <2> QED
    BY <2>1, <2>2
<1>5. CASE Room(p)
  <2>1. /\ hits' = [hits EXCEPT ![p] = Stamp(hits[p])]
        /\ allowedHere' = [allowedHere EXCEPT ![p] = Stamp(allowedHere[p])]
    BY <1>5 DEF MemoryAllow
  <2>2. /\ Counting(Stamp(hits[p]))
        /\ Total(Stamp(hits[p])) = Total(hits[p]) + 1
    BY <1>1, <1>3, StampAdds DEF MemoryInv
  <2>3. Total(Stamp(hits[p])) <= Limit
    <3>1. Total(hits[p]) \in Nat /\ Total(hits[p]) < Limit
      BY <1>1, <1>3, <1>5, FS_CardinalityType
      DEF Room, MemoryInv, Counting, Total
    <3> QED
      BY <2>2, <3>1, RateLimitAssumption
  <2>4. /\ hits' \in [Processes -> [Ages -> Nat]]
        /\ allowedHere' \in [Processes -> [Ages -> Nat]]
    BY <1>1, <1>3, <2>1, <2>2 DEF Counting, MemoryInv
  <2>5. MemoryInv'
    BY <1>1, <1>3, <2>1, <2>2, <2>3 DEF MemoryInv
  <2> QED
    BY <1>2, <1>3, <1>4, <2>4, <2>5 DEF RInv, Counting
<1>6. CASE ~Room(p)
  <2>1. UNCHANGED <<hits, allowedHere>>
    BY <1>6 DEF MemoryAllow
  <2> QED
    BY <1>2, <1>3, <1>4, <2>1 DEF RInv, Counting, MemoryInv
<1> QED
  BY <1>5, <1>6

LEMMA TickStep == RInv /\ Tick => RInv'
<1> SUFFICES ASSUME RInv, Tick PROVE RInv'
  OBVIOUS
<1> USE RateLimitAssumption
<1>1. WindowsSplit'
  BY TickSplits
<1>2. /\ counter' \in 0 .. Limit + 1 /\ left' \in 0 .. Window
      /\ pc' = pc /\ pc' \in [Threads -> {"idle", "expire", "memory"}]
      /\ expireLost' \in BOOLEAN
  BY DEF Tick, RInv
<1>3. Counting(allowed)'
  BY OlderCounts DEF Tick, RInv, Counting
<1>4. ASSUME NEW p \in Processes
      PROVE  /\ hits'[p] = Older(hits[p]) /\ allowedHere'[p] = Older(hits[p])
             /\ Counting(Older(hits[p])) /\ Total(Older(hits[p])) <= Limit
  <2>1. Counting(hits[p]) /\ Total(hits[p]) <= Limit /\ allowedHere[p] = hits[p]
    BY DEF RInv, MemoryInv
  <2>2. Counting(Older(hits[p])) /\ Total(Older(hits[p])) <= Total(hits[p])
    BY <2>1, OlderCounts
  <2>3. Total(hits[p]) \in Nat /\ Total(Older(hits[p])) \in Nat
    BY <2>1, <2>2, FS_CardinalityType DEF Counting, Total
  <2> QED
    BY <2>1, <2>2, <2>3 DEF Tick
<1>5. MemoryInv'
  BY <1>4 DEF MemoryInv
<1>6. /\ hits' \in [Processes -> [Ages -> Nat]]
      /\ allowedHere' \in [Processes -> [Ages -> Nat]]
  BY <1>4 DEF Tick, Counting
<1>7. OneOpener'
  BY <1>2 DEF OneOpener, Tick, RInv
<1> QED
  BY <1>1, <1>2, <1>3, <1>5, <1>6, <1>7 DEF RInv

\* The invariant: an attempt allowed in a window is counted by the Redis counter
\* of that time, or by the memory of its process.
THEOREM RateLimitInvariant == Spec => []RInv
<1>1. Init => RInv
  <2> SUFFICES ASSUME Init PROVE RInv
    OBVIOUS
  <2>1. /\ Counting(NoStamps) /\ Stamps(NoStamps) = {} /\ Total(NoStamps) = 0
        /\ NoStamps \in [Ages -> Nat] /\ Cardinality({}) = 0
    BY NoStampsCount, FS_EmptySet DEF Counting
  <2>2. Split({}, {}, {})
    BY <2>1, RateLimitAssumption DEF Init, Split
  <2>3. WindowsSplit
    BY <2>2 DEF WindowsSplit
  <2>4. MemoryInv
    BY <2>1, RateLimitAssumption DEF Init, MemoryInv
  <2>5. OneOpener
    BY DEF Init, OneOpener
  <2>6. /\ counter \in 0 .. Limit + 1 /\ left \in 0 .. Window
        /\ pc \in [Threads -> {"idle", "expire", "memory"}]
    BY RateLimitAssumption DEF Init
  <2>7. expireLost \in BOOLEAN
    BY Zenon DEF Init
  <2>8. /\ hits \in [Processes -> [Ages -> Nat]]
        /\ allowedHere \in [Processes -> [Ages -> Nat]]
        /\ Counting(allowed)
    BY <2>1 DEF Init
  <2> QED
    BY <2>3, <2>4, <2>5, <2>6, <2>7, <2>8 DEF RInv
<1>2. RInv /\ [Next]_vars => RInv'
  <2> SUFFICES ASSUME RInv, [Next]_vars PROVE RInv'
    OBVIOUS
  <2>1. CASE UNCHANGED vars
    BY <2>1 DEF vars, RInv, Counting, MemoryInv, OneOpener, WindowsSplit, Split
  <2> QED
    BY <2>1, TickStep, RedisStep, MemoryStep DEF Next, Finish
<1> QED
  BY <1>1, <1>2, PTL DEF Spec

\* Counters, TTLs and time stamps stay within their bounds; a process
\* remembers no more time stamps of an age than the limit.
THEOREM RateLimitTypes == Spec => []TypeOK
<1>1. RInv => TypeOK
  <2> SUFFICES ASSUME RInv PROVE TypeOK
    OBVIOUS
  <2>1. ASSUME NEW p \in Processes PROVE hits[p] \in [Ages -> 0 .. Limit]
    <3>1. /\ Counting(hits[p]) /\ Total(hits[p]) <= Limit
          /\ Total(hits[p]) \in Nat
      BY FS_CardinalityType DEF RInv, MemoryInv, Counting, Total
    <3>2. \A a \in Ages : hits[p][a] \in Nat /\ hits[p][a] <= Total(hits[p])
      BY <3>1, CountBounded DEF Counting
    <3> QED
      BY <3>1, <3>2, RateLimitAssumption DEF Counting
  <2> QED
    BY <2>1 DEF RInv, TypeOK, Counting
<1> QED
  BY <1>1, RateLimitInvariant, PTL

\* Each process numbers what its memory has allowed within a window from 1 to
\* at most the limit.
LEMMA MemoryBound ==
  ASSUME RInv
  PROVE  /\ Cardinality(AllowedInMemory) <= Cardinality(Processes) * Limit
         /\ Cardinality(AllowedInMemory) \in Nat
<1> DEFINE Numbered(p) == {f \in [Stamps(allowedHere[p]) -> 1 .. Limit] :
                             \A s, u \in Stamps(allowedHere[p]) :
                               f[s] = f[u] => s = u}
<1>1. ASSUME NEW p \in Processes PROVE Numbered(p) # {}
  <2> DEFINE S == Stamps(allowedHere[p])
  <2>1. IsFiniteSet(S) /\ Cardinality(S) <= Limit
    BY DEF RInv, MemoryInv, Counting, Total
  <2>2. Cardinality(S) \in Nat
    BY <2>1, FS_CardinalityType
  <2>3. ExistsBijection(S, 1 .. Cardinality(S))
    BY <2>1, <2>2, FS_Interval, FS_SameCardinalityBij
  <2>4. PICK f : f \in Bijection(S, 1 .. Cardinality(S))
    BY <2>3 DEF ExistsBijection
  <2>5. f \in [S -> 1 .. Cardinality(S)] /\ \A s, u \in S : f[s] = f[u] => s = u
    BY <2>4 DEF Bijection, Injection, IsInjective
  <2>6. 1 .. Cardinality(S) \subseteq 1 .. Limit
    BY <2>1, <2>2, RateLimitAssumption
  <2>7. f \in [S -> 1 .. Limit]
    BY <2>5, <2>6
  <2>8. f \in Numbered(p)
    BY <2>5, <2>7
  <2> QED
    BY <2>8
<1> DEFINE number == [p \in Processes |-> CHOOSE f \in Numbered(p) : TRUE]
<1>2. \A p \in Processes : number[p] \in Numbered(p)
  BY <1>1
<1> DEFINE g == [x \in AllowedInMemory |-> <<x[1], number[x[1]][x[2]]>>]
<1>3. \A x \in AllowedInMemory :
        /\ x = <<x[1], x[2]>> /\ x[1] \in Processes
        /\ x[2] \in Stamps(allowedHere[x[1]])
  BY DEF AllowedInMemory
<1>4. \A x \in AllowedInMemory : number[x[1]] \in Numbered(x[1])
  BY <1>2, <1>3
<1> HIDE DEF number
<1>5. g \in [AllowedInMemory -> Processes \X (1 .. Limit)]
  BY <1>3, <1>4
<1>6. ASSUME NEW x \in AllowedInMemory, NEW y \in AllowedInMemory, g[x] = g[y]
      PROVE  x = y
  <2>1. x[1] = y[1] /\ number[x[1]][x[2]] = number[y[1]][y[2]]
    BY <1>6
  <2>2. x[2] = y[2]
    BY <1>3, <1>4, <2>1
  <2> QED
    BY <1>3, <2>1, <2>2
<1>7. g \in Injection(AllowedInMemory, Processes \X (1 .. Limit))
  BY <1>5, <1>6 DEF Injection, IsInjective
<1>8. /\ IsFiniteSet(1 .. Limit) /\ Cardinality(1 .. Limit) = Limit
      /\ IsFiniteSet(Processes)
  BY RateLimitAssumption, FS_Interval
<1>9. /\ IsFiniteSet(Processes \X (1 .. Limit))
      /\ Cardinality(Processes \X (1 .. Limit)) = Cardinality(Processes) * Limit
  BY <1>8, FS_Product
<1>10. /\ IsFiniteSet(AllowedInMemory)
       /\ Cardinality(AllowedInMemory) <= Cardinality(Processes \X (1 .. Limit))
  BY <1>7, <1>9, FS_Injection
<1> QED
  BY <1>9, <1>10, FS_CardinalityType

\* Within a window Redis lets the attempts of two of its counters pass but one,
\* since the attempt that opens a counter is over when it expires, or was not
\* allowed by Redis at all.
LEMMA RedisBound ==
  ASSUME RInv
  PROVE  Total(allowed) <= 2 * Limit - 1 /\ Total(allowed) \in Nat
<1>1. PICK old \in SUBSET Stamps(allowed), new \in SUBSET Stamps(allowed),
           opener \in SUBSET Stamps(allowed) : Split(old, new, opener)
  BY DEF RInv, WindowsSplit
<1>2. /\ IsFiniteSet(old) /\ IsFiniteSet(new) /\ IsFiniteSet(opener)
      /\ Cardinality(old) \in Nat /\ Cardinality(new) \in Nat
      /\ Cardinality(opener) \in Nat
  BY SplitIsFinite DEF RInv
<1>3. /\ IsFiniteSet(old \cup new)
      /\ Cardinality(old \cup new)
           = Cardinality(old) + Cardinality(new) - Cardinality(old \cap new)
  BY <1>2, FS_Union
<1>4. Cardinality((old \cup new) \cup opener)
        = Cardinality(old \cup new) + Cardinality(opener)
            - Cardinality((old \cup new) \cap opener)
  BY <1>2, <1>3, FS_Union
<1>5. /\ IsFiniteSet(old \cap new) /\ IsFiniteSet((old \cup new) \cap opener)
  BY <1>2, <1>3, FS_Intersection
<1>6. /\ Cardinality(old \cap new) \in Nat
      /\ Cardinality((old \cup new) \cap opener) \in Nat
  BY <1>5, FS_CardinalityType
<1>7. Total(allowed) <= Cardinality(old) + Cardinality(new) + Cardinality(opener)
  BY <1>1, <1>2, <1>3, <1>4, <1>6 DEF Split, Total
<1>8. Total(allowed) \in Nat
  BY FS_CardinalityType DEF RInv, Counting, Total
<1>9. Cardinality({}) = 0
  BY FS_EmptySet
<1>10. Cardinality(new) <= Limit - 1
  BY <1>1, <1>2, <1>9, RateLimitAssumption DEF Split
<1>11. Cardinality(old) <= Limit - 1 /\ Cardinality(opener) <= 1
  BY <1>1 DEF Split
<1> QED
  BY <1>2, <1>7, <1>8, <1>10, <1>11, RateLimitAssumption

\* In any period as long as the window at most 2 * Limit - 1 attempts pass, and
\* Limit more in each process, though Redis may fail at every call, before or
\* after it has had its effect.
THEOREM RateLimitBound == Spec => []AllowedIsBounded
<1>1. RInv => AllowedIsBounded
  <2> SUFFICES ASSUME RInv PROVE AllowedIsBounded
    OBVIOUS
  <2>1. Cardinality(Processes) * Limit \in Nat
    <3>1. Cardinality(Processes) \in Nat
      BY RateLimitAssumption, FS_CardinalityType
    <3> QED
      BY <3>1, RateLimitAssumption
  <2> QED
    BY <2>1, RedisBound, MemoryBound, RateLimitAssumption DEF AllowedIsBounded
<1> QED
  BY <1>1, RateLimitInvariant, PTL
================================================================================
