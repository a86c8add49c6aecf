---------------------------- MODULE RateLimitProofs ----------------------------
(***************************************************************************)
(* What TLAPS proves of RateLimit, for any number of requests and routes   *)
(* and any limits.                                                         *)
(***************************************************************************)
EXTENDS RateLimit, Sums

USE DEF Goto, counter, history

-----------------------------------------------------------------------------
(* Type correctness, and the counter's time to live.                       *)

LEMMA TypeInit == Init => TypeOK /\ CounterExpires
<1> SUFFICES ASSUME Init PROVE TypeOK /\ CounterExpires
  OBVIOUS
<1>1. 0 \in 0 .. MaxCount /\ FALSE \in BOOLEAN
  BY RateAssumption
<1>2. ~ (count > 0)
  BY DEF Init
<1> QED BY <1>1, <1>2 DEF Init, TypeOK, CounterExpires

\* A count that INCR returns is positive.
LEMMA Next1Facts ==
  ASSUME TypeOK, NEW r \in Requests, pc[r] # "idle"
  PROVE  /\ MaxCount \in Nat \ {0}
         /\ Next1(count) \in 1 .. MaxCount
         /\ Next1(count) = IF count < MaxCount THEN count + 1 ELSE MaxCount
BY RateAssumption DEF TypeOK, Next1

LEMMA TypeStep ==
  TypeOK /\ CounterExpires /\ [Next]_vars => (TypeOK /\ CounterExpires)'
<1> SUFFICES ASSUME TypeOK, CounterExpires, [Next]_vars
             PROVE  (TypeOK /\ CounterExpires)'
  OBVIOUS
<1> USE DEF TypeOK, CounterExpires
<1>1. ASSUME NEW r \in Requests, NEW l \in Routes, Arrive(r, l)
      PROVE  (TypeOK /\ CounterExpires)'
  BY <1>1 DEF Arrive
<1>2. ASSUME NEW r \in Requests, Incr(r) PROVE (TypeOK /\ CounterExpires)'
  <2>1. Next1(count) \in 1 .. MaxCount
    BY <1>2, Next1Facts DEF Incr
  <2>2. count = 0 => SetsExpiry(Next1(count))
    BY <1>2, Next1Facts DEF Incr, SetsExpiry
  <2> QED BY <1>2, <2>1, <2>2 DEF Incr
<1>3. ASSUME NEW r \in Requests, IncrReplyLost(r) PROVE (TypeOK /\ CounterExpires)'
  <2>1. Next1(count) \in 1 .. MaxCount
    BY <1>3, Next1Facts DEF IncrReplyLost
  <2> QED BY <1>3, <2>1 DEF IncrReplyLost
<1>4. ASSUME NEW r \in Requests, IncrFails(r) PROVE (TypeOK /\ CounterExpires)'
  BY <1>4, RateAssumption DEF IncrFails, Leave
<1>5. ASSUME NEW r \in Requests, Expire(r) PROVE (TypeOK /\ CounterExpires)'
  BY <1>5, RateAssumption DEF Expire
<1>6. ASSUME NEW r \in Requests, ExpireFails(r) PROVE (TypeOK /\ CounterExpires)'
  BY <1>6 DEF ExpireFails
<1>7. ASSUME NEW r \in Requests, Compare(r) PROVE (TypeOK /\ CounterExpires)'
  <2>1. 0 \in 0 .. MaxCount /\ route[r] \in Routes
    BY <1>7, RateAssumption DEF Compare
  <2>2. admitted' \in [Routes -> Nat]
    BY <1>7, <2>1 DEF Compare
  <2> QED BY <1>7, <2>1, <2>2 DEF Compare, Leave
<1>8. CASE Tick
  <2>1. CASE left > 1 /\ left \in 1 .. Window
    BY <1>8, <2>1, RateAssumption DEF Tick
  <2>2. CASE ~ (left > 1)
    <3>1. /\ left' = NoTTL /\ count' = 0 /\ present' = {} /\ broken' = FALSE
          /\ admitted' = [l \in Routes |-> 0] /\ UNCHANGED <<pc, route, reply>>
      BY <1>8, <2>2 DEF Tick
    <3>2. 0 \in 0 .. MaxCount /\ ~ (count' > 0) /\ FALSE \in BOOLEAN
      BY <3>1, RateAssumption
    <3> QED BY <3>1, <3>2
  <2> QED BY <1>8, <2>1, <2>2 DEF Tick
<1>9. CASE Crash
  <2>1. 0 \in 0 .. MaxCount
    BY RateAssumption
  <2>2. broken' \in BOOLEAN
    BY <1>9 DEF Crash
  <2>3. \/ broken' = TRUE /\ present # {}
        \/ broken' = broken /\ ~ \E r \in present : pc[r] = "expire"
    BY <1>9, <2>2 DEF Crash
  <2> QED BY <1>9, <2>1, <2>2, <2>3 DEF Crash
<1>10. CASE UNCHANGED vars
  BY <1>10 DEF vars
<1> QED BY <1>1, <1>2, <1>3, <1>4, <1>5, <1>6, <1>7, <1>8, <1>9, <1>10
        DEF Next, RateLimitHandler

\* The variables keep their types: a counter that does not exist has no time
\* to live, and nobody has a reply of it.
THEOREM TypeCorrect == Spec => []TypeOK
BY TypeInit, TypeStep, PTL DEF Spec

\* INCR and EXPIRE are two calls, and other requests and the process may come
\* between them: a counter that has no time to live nonetheless has a request
\* about to set it, unless a call on it went wrong.
THEOREM CounterIsBounded == Spec => []CounterExpires
BY TypeInit, TypeStep, PTL DEF Spec

-----------------------------------------------------------------------------
(* The limit.                                                              *)

\* The routes whose limit is at most n, what they have let pass, and the
\* requests that may still pass there: they have read n or less.
Under(n)   == {m \in Routes : Limit[m] <= n}
Spent(n)   == SumFunctionOnSet(admitted, Under(n))
Pending(n) == {r \in present : pc[r] \in {"expire", "compare"} /\ reply[r] <= n}

\* Every count is read once: whoever has passed or may still pass under n has
\* used up one of the counts up to n that INCR has returned.
Budget ==
  /\ IsFiniteSet(present)
  /\ \A n \in 0 .. MaxCount - 1 :
       /\ Spent(n) + Cardinality(Pending(n)) <= n
       /\ Spent(n) + Cardinality(Pending(n)) <= count

LEMMA UnderFacts == \A n : IsFiniteSet(Under(n)) /\ Under(n) \subseteq Routes
BY RateAssumption, FS_Subset DEF Under

LEMMA SpentType == TypeOK => \A n : Spent(n) \in Int
<1> SUFFICES ASSUME TypeOK, NEW n PROVE Spent(n) \in Int
  OBVIOUS
<1>1. \A m \in Under(n) : admitted[m] \in Int
  BY UnderFacts DEF TypeOK
<1> QED BY <1>1, UnderFacts, SumIsInt DEF Spent

LEMMA PendingType ==
  IsFiniteSet(present) =>
    \A n : IsFiniteSet(Pending(n)) /\ Cardinality(Pending(n)) \in Nat
BY FS_Subset, FS_CardinalityType DEF Pending

\* Fewer requests are pending and nobody passes: the budget holds.
LEMMA BudgetShrinks ==
  ASSUME TypeOK, Budget, admitted' = admitted, count' \in Int, count <= count',
         IsFiniteSet(present'),
         \A n \in 0 .. MaxCount - 1 : Pending(n)' \subseteq Pending(n)
  PROVE  Budget'
<1> SUFFICES ASSUME NEW n \in 0 .. MaxCount - 1
             PROVE  /\ Spent(n)' + Cardinality(Pending(n)') <= n
                    /\ Spent(n)' + Cardinality(Pending(n)') <= count'
  BY DEF Budget, Spent, Pending
<1>1. Spent(n)' = Spent(n) /\ Spent(n) \in Int
  BY SpentType DEF Spent, Under
<1>2. /\ Cardinality(Pending(n)') <= Cardinality(Pending(n))
      /\ Cardinality(Pending(n)') \in Nat /\ Cardinality(Pending(n)) \in Nat
  BY PendingType, FS_Subset, FS_CardinalityType DEF Budget
<1>3. n \in Int /\ count \in Int
  BY RateAssumption DEF TypeOK
<1> QED BY <1>1, <1>2, <1>3 DEF Budget

\* INCR hands out the next count, which is below n only if n is not used up.
LEMMA IncrStep ==
  ASSUME TypeOK, Budget, NEW r \in Requests, Incr(r)
  PROVE  Budget'
<1>1. /\ pc[r] = "incr" /\ pc'[r] \in {"expire", "compare"}
      /\ count' = Next1(count) /\ reply'[r] = Next1(count)
      /\ present' = present \cup {r} /\ admitted' = admitted
      /\ \A q \in Requests : q # r => pc'[q] = pc[q] /\ reply'[q] = reply[q]
  BY DEF Incr, TypeOK
<1>2. /\ Next1(count) \in 1 .. MaxCount /\ count \in 0 .. MaxCount
      /\ Next1(count) = IF count < MaxCount THEN count + 1 ELSE MaxCount
  BY <1>1, Next1Facts DEF TypeOK
<1>3. IsFiniteSet(present')
  BY <1>1, FS_AddElement DEF Budget
<1> SUFFICES ASSUME NEW n \in 0 .. MaxCount - 1
             PROVE  /\ Spent(n)' + Cardinality(Pending(n)') <= n
                    /\ Spent(n)' + Cardinality(Pending(n)') <= count'
  BY <1>3 DEF Budget, Spent, Pending
<1>4. Spent(n)' = Spent(n) /\ Spent(n) \in Int
  BY <1>1, SpentType DEF Spent, Under
<1>5. r \notin Pending(n)
  BY <1>1 DEF Pending
<1>6. Pending(n)' = IF Next1(count) <= n THEN Pending(n) \cup {r} ELSE Pending(n)
  BY <1>1, <1>5 DEF Pending, TypeOK
<1>7. /\ IsFiniteSet(Pending(n)) /\ Cardinality(Pending(n)) \in Nat
      /\ Cardinality(Pending(n) \cup {r}) = Cardinality(Pending(n)) + 1
  BY <1>5, PendingType, FS_AddElement DEF Budget
<1>8. /\ Spent(n) + Cardinality(Pending(n)) <= n
      /\ Spent(n) + Cardinality(Pending(n)) <= count
      /\ n \in Int /\ n < MaxCount /\ MaxCount \in Nat
  BY RateAssumption DEF Budget
<1> QED BY <1>1, <1>2, <1>4, <1>6, <1>7, <1>8

\* Whoever passes had read a count within the limit of its route, and leaves.
LEMMA CompareStep ==
  ASSUME TypeOK, Budget, NEW r \in Requests, Compare(r)
  PROVE  Budget'
<1> DEFINE l == route[r]
<1>1. /\ pc[r] = "compare" /\ l \in Routes /\ UNCHANGED count
      /\ present' = present \ {r} /\ Limit[l] \in Nat /\ reply[r] \in Nat
      /\ \A q \in Requests : q # r => pc'[q] = pc[q] /\ reply'[q] = reply[q]
  BY RateAssumption DEF Compare, Leave, TypeOK
<1>2. IsFiniteSet(present')
  BY <1>1, FS_Subset DEF Budget
<1>3. \A n \in 0 .. MaxCount - 1 : Pending(n)' = Pending(n) \ {r}
  BY <1>1 DEF Pending, TypeOK
<1>4. CASE ~ Limited(r) /\ r \in present
  <2> SUFFICES ASSUME NEW n \in 0 .. MaxCount - 1
               PROVE  /\ Spent(n)' + Cardinality(Pending(n)') <= n
                      /\ Spent(n)' + Cardinality(Pending(n)') <= count'
    BY <1>2 DEF Budget, Spent, Pending
  <2>1. admitted' = [admitted EXCEPT ![l] = @ + 1]
    BY <1>4 DEF Compare
  <2>2. /\ \A m \in Under(n) : admitted[m] \in Int /\ admitted'[m] \in Int
        /\ admitted'[l] = admitted[l] + 1 /\ admitted[l] \in Int
        /\ \A m \in Routes : m # l => admitted'[m] = admitted[m]
    BY <1>1, <2>1, UnderFacts DEF TypeOK
  <2>3. Spent(n)' = SumFunctionOnSet(admitted', Under(n))
    BY DEF Spent, Under
  <2>4. /\ IsFiniteSet(Pending(n)) /\ Cardinality(Pending(n)) \in Nat
        /\ IsFiniteSet(Pending(n) \ {r}) /\ Cardinality(Pending(n) \ {r}) \in Nat
        /\ Cardinality(Pending(n) \ {r}) <= Cardinality(Pending(n))
        /\ r \in Pending(n) =>
             Cardinality(Pending(n) \ {r}) = Cardinality(Pending(n)) - 1
    BY PendingType, FS_Subset, FS_CardinalityType, FS_RemoveElement DEF Budget
  <2>5. /\ Spent(n) + Cardinality(Pending(n)) <= n
        /\ Spent(n) + Cardinality(Pending(n)) <= count
        /\ Spent(n) \in Int /\ n \in Int /\ count \in Int
    BY SpentType, RateAssumption DEF Budget, TypeOK
  <2> DEFINE c == Cardinality(Pending(n))
             d == Cardinality(Pending(n) \ {r})
  <2>a. /\ Cardinality(Pending(n)') = d /\ count' = count
        /\ c \in Nat /\ d \in Nat /\ d <= c /\ (r \in Pending(n) => d = c - 1)
    BY <1>1, <1>3, <2>4
  <2>b. Spent(n) + c <= n /\ Spent(n) + c <= count
    BY <2>5
  <2>6. CASE Limit[l] <= n
    <3>1. l \in Under(n)
      BY <1>1, <2>6 DEF Under
    <3>2. Spent(n)' = Spent(n) - admitted[l] + admitted'[l]
      BY <2>2, <2>3, <3>1, UnderFacts, SumChange DEF Spent
    <3>3. r \in Pending(n)
      BY <1>1, <1>4, <2>6 DEF Pending, Limited
    <3>4. Spent(n)' = Spent(n) + 1 /\ d = c - 1
      BY <2>2, <2>5, <2>a, <3>2, <3>3
    <3> HIDE DEF c, d
    <3> QED BY <2>5, <2>a, <2>b, <3>4
  <2>7. CASE ~ (Limit[l] <= n)
    <3>1. l \notin Under(n)
      BY <2>7 DEF Under
    <3>2. Spent(n)' = Spent(n)
      BY <2>2, <2>3, <3>1, UnderFacts, SumSame DEF Spent
    <3> HIDE DEF c, d
    <3> QED BY <2>5, <2>a, <2>b, <3>2
  <2> QED BY <2>6, <2>7
<1>5. CASE Limited(r) \/ r \notin present
  <2>1. admitted' = admitted
    BY <1>5 DEF Compare
  <2>2. count' \in Int /\ count <= count'
    BY <1>1, RateAssumption DEF TypeOK
  <2> QED BY <1>2, <1>3, <2>1, <2>2, BudgetShrinks
<1> QED BY <1>4, <1>5

LEMMA BudgetInit == Init => Budget
<1> SUFFICES ASSUME Init PROVE Budget
  OBVIOUS
<1>1. IsFiniteSet(present) /\ \A n : Cardinality(Pending(n)) = 0
  BY FS_EmptySet DEF Init, Pending
<1>2. \A n : \A m \in Under(n) : admitted[m] = 0
  BY UnderFacts DEF Init
<1>3. \A n : Spent(n) = 0
  BY <1>2, UnderFacts, SumZero DEF Spent
<1> QED BY <1>1, <1>3, RateAssumption DEF Init, Budget

LEMMA BudgetStep == TypeOK /\ Budget /\ [Next]_vars => Budget'
<1> SUFFICES ASSUME TypeOK, Budget, [Next]_vars PROVE Budget'
  OBVIOUS
<1>0. count \in Nat /\ \A n : Pending(n) \subseteq present
  BY RateAssumption DEF TypeOK, Pending
<1>1. ASSUME NEW r \in Requests, NEW l \in Routes, Arrive(r, l) PROVE Budget'
  <2>1. /\ UNCHANGED <<count, present, admitted>>
        /\ \A n : Pending(n)' = Pending(n)
    BY <1>1 DEF Arrive, Pending, TypeOK
  <2> QED BY <1>0, <2>1, BudgetShrinks DEF Budget
<1>2. ASSUME NEW r \in Requests, IncrReplyLost(r) PROVE Budget'
  <2>1. UNCHANGED <<pc, reply, present, admitted>>
    BY <1>2 DEF IncrReplyLost
  <2>2. count' \in Int /\ count <= count'
    BY <1>2, Next1Facts, RateAssumption DEF IncrReplyLost, TypeOK
  <2>3. \A n : Pending(n)' = Pending(n)
    BY <2>1 DEF Pending
  <2> QED BY <2>1, <2>2, <2>3, BudgetShrinks DEF Budget
<1>3. ASSUME NEW r \in Requests, IncrFails(r) PROVE Budget'
  <2>1. UNCHANGED <<count, admitted>> /\ present' = present \ {r}
    BY <1>3 DEF IncrFails, Leave
  <2>2. \A n : Pending(n)' \subseteq Pending(n)
    BY <1>3 DEF IncrFails, Leave, Pending, TypeOK
  <2>3. IsFiniteSet(present')
    BY <2>1, FS_Subset DEF Budget
  <2> QED BY <1>0, <2>1, <2>2, <2>3, BudgetShrinks
<1>4. ASSUME NEW r \in Requests, Expire(r) \/ ExpireFails(r) PROVE Budget'
  <2>1. UNCHANGED <<count, reply, present, admitted>>
    BY <1>4 DEF Expire, ExpireFails
  <2>2. \A n : Pending(n)' = Pending(n)
    BY <1>4, <2>1 DEF Expire, ExpireFails, Pending, TypeOK
  <2> QED BY <1>0, <2>1, <2>2, BudgetShrinks DEF Budget
<1>5. CASE Tick
  <2>1. CASE left > 1
    <3>1. UNCHANGED <<count, pc, reply, present, admitted>>
      BY <1>5, <2>1 DEF Tick
    <3>2. \A n : Pending(n)' = Pending(n)
      BY <3>1 DEF Pending
    <3> QED BY <1>0, <3>1, <3>2, BudgetShrinks DEF Budget
  <2>2. CASE ~ (left > 1)
    <3>1. count' = 0 /\ present' = {} /\ admitted' = [m \in Routes |-> 0]
      BY <1>5, <2>2 DEF Tick
    <3>2. IsFiniteSet(present') /\ \A n : Cardinality(Pending(n)') = 0
      BY <3>1, FS_EmptySet DEF Pending
    <3>3. \A n : \A m \in Under(n) : admitted'[m] = 0
      BY <3>1, UnderFacts
    <3>4. \A n : Spent(n)' = 0
      BY <3>3, UnderFacts, SumZero DEF Spent, Under
    <3>5. ASSUME NEW n \in 0 .. MaxCount - 1
          PROVE  /\ Spent(n)' + Cardinality(Pending(n)') <= n
                 /\ Spent(n)' + Cardinality(Pending(n)') <= count'
      BY <3>1, <3>2, <3>4, RateAssumption
    <3> QED BY <3>2, <3>5 DEF Budget, Spent, Pending
  <2> QED BY <2>1, <2>2
<1>6. CASE Crash
  <2>1. UNCHANGED <<count, admitted>> /\ present' = {}
    BY <1>6 DEF Crash
  <2>2. IsFiniteSet(present') /\ \A n : Pending(n)' \subseteq Pending(n)
    BY <2>1, FS_EmptySet DEF Pending
  <2> QED BY <1>0, <2>1, <2>2, BudgetShrinks
<1>7. CASE UNCHANGED vars
  <2>1. \A n : Pending(n)' = Pending(n)
    BY <1>7 DEF vars, Pending
  <2> QED BY <1>0, <1>7, <2>1, BudgetShrinks DEF vars, Budget
<1> QED BY <1>1, <1>2, <1>3, <1>4, <1>5, <1>6, <1>7, IncrStep, CompareStep
        DEF Next, RateLimitHandler

\* While a counter lives, a route and the stricter ones together pass no more
\* requests than its limit, in whatever order the requests increment, read
\* and compare: a count below the limit is read once.
THEOREM LimitIsKept == Spec => []LimitHolds
<1>1. TypeOK /\ Budget => LimitHolds
  <2> SUFFICES ASSUME TypeOK, Budget, NEW l \in Routes
               PROVE  SumFunctionOnSet(admitted, Under(Limit[l])) <= Limit[l]
    BY DEF LimitHolds, Under
  <2>1. Limit[l] \in 0 .. MaxCount - 1
    BY RateAssumption
  <2>2. Spent(Limit[l]) + Cardinality(Pending(Limit[l])) <= Limit[l]
    BY <2>1 DEF Budget
  <2>3. Spent(Limit[l]) \in Int /\ Cardinality(Pending(Limit[l])) \in Nat
    BY SpentType, PendingType DEF Budget
  <2>4. Limit[l] \in Nat
    BY RateAssumption
  <2> QED BY <2>2, <2>3, <2>4 DEF Spent
<1> QED BY <1>1, TypeInit, TypeStep, BudgetInit, BudgetStep, PTL DEF Spec
=============================================================================
