--------------------------- MODULE ThrottleProofs ---------------------------
(* The rate of admissions and the patience that suffices, for every rate,  *)
(* every resolution of time and any number of users and restarts.          *)
EXTENDS Throttle, TLAPS

-----------------------------------------------------------------------------
(* Arithmetic. *)

(* The capacity is at least one token, and more. *)
LEMMA CapacityType == Capacity \in Nat /\ Capacity >= 3
BY ThrottleAssumption DEF Capacity

LEMMA ProductType ==
  ASSUME NEW a \in Nat, NEW b \in Nat
  PROVE  a * b \in Nat
OBVIOUS

LEMMA ProductOfDifference ==
  ASSUME NEW p \in Nat, NEW a \in Int, NEW b \in Int, NEW c \in Int
  PROVE  p * (c - a) = p * (b - a) + p * (c - b)
OBVIOUS

LEMMA ProductMonotone ==
  ASSUME NEW p \in Nat, NEW a \in Int, NEW b \in Int, a <= b
  PROVE  p * a <= p * b
OBVIOUS

LEMMA FullType == Full \in Nat /\ Full >= 3 * Minute
<1>1. Capacity * Minute \in Nat
  BY CapacityType, ProductType, ThrottleAssumption
<1>2. Minute * 3 <= Minute * Capacity
  BY CapacityType, ProductMonotone, ThrottleAssumption
<1> QED BY <1>1, <1>2, CapacityType, ThrottleAssumption DEF Full

(* What a tick brings is counted once. *)
LEMMA RefilledType ==
  ASSUME NEW b \in Bucket, TypeOK, b.updated <= clock
  PROVE  /\ Refilled(b) \in 0..Full
         /\ Refilled(b) <= b.tokens + PerMinute * (clock - b.updated)
         /\ Refilled(b) < Full => Refilled(b) = b.tokens + PerMinute * (clock - b.updated)
<1>1. b.tokens \in 0..Full /\ b.updated \in Nat /\ clock \in Nat
  BY DEF Bucket, TypeOK
<1>2. (clock - b.updated) * PerMinute = PerMinute * (clock - b.updated)
  BY <1>1, ThrottleAssumption
<1>3. PerMinute * (clock - b.updated) \in Nat
  BY <1>1, ProductType, ThrottleAssumption
<1> HIDE DEF Full
<1> QED BY <1>1, <1>2, <1>3, FullType DEF Refilled

-----------------------------------------------------------------------------
(* Types. *)

(* What Put writes. *)
LEMMA PutType ==
  ASSUME TypeOK, NEW u \in Allowed, NEW n \in 0..Full, Put(u, n)
  PROVE  /\ buckets' \in [Allowed -> Bucket \union {NoBucket}]
         /\ buckets'[u] = [tokens |-> n, updated |-> clock]
         /\ buckets'[u] # NoBucket
         /\ \A v \in Allowed \ {u} : buckets'[v] = buckets[v]
<1>1. [tokens |-> n, updated |-> clock] \in Bucket
  BY DEF Bucket, TypeOK
<1> QED BY <1>1, NoBucketAssumption DEF Put, TypeOK

(* One step of Receive by a user on the list, as its three outcomes. *)
Outcome(u, n) ==
  /\ Put(u, n) /\ n \in 0..Full
  /\ UNCHANGED <<clock, restarts, mark, lives>>

LEMMA ReceiveOutcomes ==
  ASSUME TypeOK, NEW u \in Users \union {Nobody}, Receive(u)
  PROVE  \/ u \notin Allowed /\ Reject(u)
         \/ /\ u \in Allowed /\ buckets[u] = NoBucket
            /\ Outcome(u, Full - Minute) /\ Handle(u)
         \/ /\ u \in Allowed /\ buckets[u] # NoBucket
            /\ Refilled(buckets[u]) >= Minute
            /\ Outcome(u, Refilled(buckets[u]) - Minute) /\ Handle(u)
         \/ /\ u \in Allowed /\ buckets[u] # NoBucket
            /\ Refilled(buckets[u]) < Minute
            /\ Outcome(u, Refilled(buckets[u]))
            /\ answer' = Answer(u, "refused") /\ UNCHANGED <<handledAt, seen>>
<1>1. CASE u \notin Allowed
  BY <1>1 DEF Receive
<1>2. CASE u \in Allowed /\ buckets[u] = NoBucket
  <2>1. Full - Minute \in 0..Full
    BY FullType, ThrottleAssumption
  <2> QED BY <1>2, <2>1 DEF Receive, FirstUpdate, NextUpdate, Outcome
<1>3. CASE u \in Allowed /\ buckets[u] # NoBucket
  <2>1. Refilled(buckets[u]) \in 0..Full
    BY <1>3, RefilledType DEF TypeOK
  <2>2. NextUpdate(u)
    BY <1>3 DEF Receive, FirstUpdate
  <2>3. Refilled(buckets[u]) >= Minute => Refilled(buckets[u]) - Minute \in 0..Full
    BY <2>1, FullType, ThrottleAssumption
  <2> QED BY <1>3, <2>1, <2>2, <2>3, FullType, ThrottleAssumption DEF NextUpdate, Outcome
<1> QED BY <1>1, <1>2, <1>3

LEMMA TypeInitially == Init => TypeOK
<1> SUFFICES ASSUME Init PROVE TypeOK
  OBVIOUS
<1>1. buckets \in [Allowed -> Bucket \union {NoBucket}]
  BY DEF Init, NoBuckets
<1>2. answer \in [to : Users \union {Nobody}, what : {"nothing", "handled", "refused", "private"}]
  BY DEF Init, Silence, Answer
<1>3. \A u \in Allowed : buckets[u] = NoBucket \/ buckets[u].updated <= clock
  BY DEF Init, NoBuckets
<1>4. seen \in [Allowed -> Nat] /\ handledAt \in [Allowed -> Nat] /\ mark \in 0..clock
  BY DEF Init
<1> QED BY <1>1, <1>2, <1>3, <1>4, ThrottleAssumption DEF Init, TypeOK

LEMMA TypeStep == TypeOK /\ [Next]_vars => TypeOK'
<1> SUFFICES ASSUME TypeOK, [Next]_vars PROVE TypeOK'
  OBVIOUS
<1>1. ASSUME NEW u \in Users \union {Nobody}, Receive(u) PROVE TypeOK'
  <2>1. ASSUME u \in Allowed, NEW n \in 0..Full, Outcome(u, n),
               \/ Handle(u)
               \/ answer' = Answer(u, "refused") /\ UNCHANGED <<handledAt, seen>>
        PROVE  TypeOK'
    <3>1. /\ buckets' \in [Allowed -> Bucket \union {NoBucket}]
          /\ \A v \in Allowed : buckets'[v] = NoBucket \/ buckets'[v].updated <= clock
      <4>1. PICK b \in Bucket : b.updated = clock /\ buckets' = [buckets EXCEPT ![u] = b]
        BY <2>1 DEF Outcome, Put, Bucket, TypeOK
      <4> QED BY <2>1, <4>1 DEF TypeOK, Outcome
    <3>2. /\ answer' \in [to : Users \union {Nobody}, what : {"nothing", "handled", "refused", "private"}]
          /\ handledAt' \in [Allowed -> Nat] /\ seen' \in [Allowed -> Nat]
      BY <2>1 DEF Handle, TypeOK, Answer
    <3> QED BY <2>1, <3>1, <3>2 DEF Outcome, TypeOK
  <2>2. CASE u \notin Allowed /\ Reject(u)
    BY <2>2 DEF Reject, TypeOK, Silence, Answer, observer
  <2> QED BY <1>1, <2>1, <2>2, ReceiveOutcomes DEF Outcome
<1>2. CASE Tick
  BY <1>2 DEF Tick, TypeOK, Silence, Answer, observer, Bucket
<1>3. CASE Restart
  BY <1>3 DEF Restart, TypeOK, Silence, Answer, NoBuckets
<1>4. CASE Observe
  BY <1>4 DEF Observe, TypeOK, Silence, Answer
<1>5. CASE UNCHANGED vars
  BY <1>5 DEF vars, TypeOK, observer
<1> QED BY <1>1, <1>2, <1>3, <1>4, <1>5 DEF Next

(* Buckets belong to users on the list, hold at most the capacity and were not *)
(* written in the future (ThrottleMiddleware._buckets).                        *)
THEOREM ThrottleTypeCorrect == Spec => []TypeOK
<1> QED BY TypeInitially, TypeStep, PTL DEF Spec

-----------------------------------------------------------------------------
(* The rate.  What the observer has seen handled, and what is left in the   *)
(* bucket, were there when the count began, have come with a restart, or    *)
(* have been brought by the time up to the last refill.                     *)
Spent(u) == Minute * seen[u]
Lent(n) == Full * n
Brought(t) == PerMinute * (t - mark)

RateInv ==
  \A u \in Allowed :
    \/ buckets[u] = NoBucket /\ Spent(u) <= Lent(lives) + Brought(clock)
    \/ /\ buckets[u] # NoBucket /\ buckets[u].updated < mark
       /\ Spent(u) <= Lent(lives)
    \/ /\ buckets[u] # NoBucket /\ buckets[u].updated >= mark
       /\ Spent(u) + buckets[u].tokens <= Lent(1 + lives) + Brought(buckets[u].updated)

LEMMA AccountTypes ==
  ASSUME TypeOK
  PROVE  /\ \A u \in Allowed : Spent(u) \in Nat
         /\ \A n \in Nat : Lent(n) \in Nat /\ Lent(1 + n) = Lent(n) + Full
         /\ \A t \in Nat : Brought(t) \in Int
         /\ \A t \in Nat : t >= mark => Brought(t) \in Nat
         /\ \A s, t \in Nat : /\ Brought(t) = Brought(s) + PerMinute * (t - s)
                              /\ s <= t => Brought(s) <= Brought(t)
<1>1. ASSUME NEW u \in Allowed PROVE Spent(u) \in Nat
  BY ProductType, ThrottleAssumption DEF Spent, TypeOK
<1>2. ASSUME NEW n \in Nat PROVE Lent(n) \in Nat /\ Lent(1 + n) = Lent(n) + Full
  <2> HIDE DEF Full
  <2> QED BY FullType, ProductType DEF Lent
<1>3. ASSUME NEW t \in Nat PROVE Brought(t) \in Int /\ (t >= mark => Brought(t) \in Nat)
  <2>1. t - mark \in Int /\ (t >= mark => t - mark \in Nat)
    BY DEF TypeOK
  <2> QED BY <2>1, ProductType, ThrottleAssumption DEF Brought
<1>4. ASSUME NEW s \in Nat, NEW t \in Nat
      PROVE  /\ Brought(t) = Brought(s) + PerMinute * (t - s)
             /\ s <= t => Brought(s) <= Brought(t)
  <2>1. mark \in Int /\ s - mark \in Int /\ t - mark \in Int
    BY DEF TypeOK
  <2> QED BY <2>1, ProductOfDifference, ProductMonotone, ThrottleAssumption DEF Brought
<1> QED BY <1>1, <1>2, <1>3, <1>4

LEMMA Counters ==
  ASSUME TypeOK
  PROVE  lives \in Nat /\ clock \in Nat /\ mark \in Nat /\ clock >= mark
BY DEF TypeOK

LEMMA RateInitially == Init /\ TypeOK => RateInv
<1> SUFFICES ASSUME Init, TypeOK, NEW u \in Allowed
             PROVE  buckets[u] = NoBucket /\ Spent(u) <= Lent(lives) + Brought(clock)
  BY DEF RateInv
<1>1. Spent(u) = 0
  BY ThrottleAssumption DEF Init, Spent
<1>2. Lent(lives) \in Nat /\ Brought(clock) \in Nat
  BY AccountTypes, Counters
<1> QED BY <1>1, <1>2 DEF Init, NoBuckets

(* What an admission or a refusal leaves of the account of its user. *)
LEMMA AccountOfUser ==
  ASSUME TypeOK, RateInv, NEW u \in Allowed, NEW n \in 0..Full, Outcome(u, n),
         \/ /\ buckets[u] = NoBucket /\ n = Full - Minute
            /\ Handle(u)
         \/ /\ buckets[u] # NoBucket /\ n = Refilled(buckets[u]) - Minute
            /\ Handle(u)
         \/ /\ buckets[u] # NoBucket /\ n = Refilled(buckets[u])
            /\ UNCHANGED seen
  PROVE  Spent(u)' + n <= Lent(1 + lives) + Brought(clock)
<1>1. /\ Spent(u) \in Nat /\ Lent(lives) \in Nat /\ Lent(1 + lives) = Lent(lives) + Full
      /\ Brought(clock) \in Nat /\ Full \in Nat /\ Minute \in Nat
  BY AccountTypes, Counters, FullType, ThrottleAssumption
<1>2. Handle(u) => Spent(u)' = Spent(u) + Minute
  <2>1. Handle(u) => seen'[u] = seen[u] + 1
    BY DEF Handle, TypeOK
  <2>2. seen[u] \in Nat
    BY DEF TypeOK
  <2> QED BY <2>1, <2>2, ThrottleAssumption DEF Spent
<1>3. UNCHANGED seen => Spent(u)' = Spent(u)
  BY DEF Spent
<1>4. CASE buckets[u] = NoBucket
  <2>1. Spent(u) <= Lent(lives) + Brought(clock)
    BY <1>4 DEF RateInv
  <2> QED BY <1>1, <1>2, <1>4, <2>1
<1>5. CASE buckets[u] # NoBucket
  <2>1. buckets[u] \in Bucket /\ buckets[u].updated <= clock
    BY <1>5 DEF TypeOK
  <2>2. buckets[u].tokens \in Nat /\ buckets[u].updated \in Nat /\ clock \in Nat
    BY <2>1 DEF Bucket, TypeOK
  <2>3. /\ Refilled(buckets[u]) \in 0..Full
        /\ Refilled(buckets[u]) <= buckets[u].tokens + PerMinute * (clock - buckets[u].updated)
    BY <2>1, RefilledType
  <2>4. Spent(u) + Refilled(buckets[u]) <= Lent(1 + lives) + Brought(clock)
    <3>1. CASE buckets[u].updated < mark
      <4>1. Spent(u) <= Lent(lives)
        BY <1>5, <3>1, <2>2 DEF RateInv, TypeOK
      <4> QED BY <1>1, <2>3, <4>1
    <3>2. CASE buckets[u].updated >= mark
      <4>1. Spent(u) + buckets[u].tokens <= Lent(1 + lives) + Brought(buckets[u].updated)
        BY <1>5, <3>2, <2>2 DEF RateInv, TypeOK
      <4>2. /\ Brought(clock) = Brought(buckets[u].updated)
                                  + PerMinute * (clock - buckets[u].updated)
            /\ Brought(buckets[u].updated) \in Int
        BY <2>2, AccountTypes
      <4>3. PerMinute * (clock - buckets[u].updated) \in Nat
        BY <2>1, <2>2, ProductType, ThrottleAssumption
      <4> QED BY <1>1, <2>2, <2>3, <4>1, <4>2, <4>3
    <3> QED BY <3>1, <3>2, <2>2 DEF TypeOK
  <2> QED BY <1>1, <1>2, <1>3, <1>5, <2>3, <2>4
<1> QED BY <1>4, <1>5

(* An update of one user leaves the accounts of the others alone. *)
LEMMA AccountOfOthers ==
  ASSUME TypeOK, RateInv, NEW u \in Allowed, NEW n \in 0..Full, Outcome(u, n),
         Handle(u) \/ UNCHANGED seen, NEW v \in Allowed, v # u
  PROVE  \/ buckets'[v] = NoBucket /\ Spent(v)' <= Lent(lives) + Brought(clock)
         \/ /\ buckets'[v] # NoBucket /\ buckets'[v].updated < mark
            /\ Spent(v)' <= Lent(lives)
         \/ /\ buckets'[v] # NoBucket /\ buckets'[v].updated >= mark
            /\ Spent(v)' + buckets'[v].tokens <= Lent(1 + lives) + Brought(buckets'[v].updated)
<1>1. buckets'[v] = buckets[v]
  BY PutType DEF Outcome
<1>2. seen'[v] = seen[v]
  BY DEF Handle, TypeOK
<1>3. Spent(v)' = Spent(v)
  BY <1>2 DEF Spent
<1> QED BY <1>1, <1>3 DEF RateInv

LEMMA RateStep == TypeOK /\ RateInv /\ [Next]_vars => RateInv'
<1> SUFFICES ASSUME TypeOK, RateInv, [Next]_vars PROVE RateInv'
  OBVIOUS
<1>1. ASSUME NEW u \in Users \union {Nobody}, Receive(u) PROVE RateInv'
  <2>1. ASSUME u \in Allowed, NEW n \in 0..Full, Outcome(u, n),
               \/ /\ buckets[u] = NoBucket /\ n = Full - Minute
                  /\ Handle(u)
               \/ /\ buckets[u] # NoBucket /\ n = Refilled(buckets[u]) - Minute
                  /\ Handle(u)
               \/ /\ buckets[u] # NoBucket /\ n = Refilled(buckets[u])
                  /\ UNCHANGED seen
        PROVE  RateInv'
    <3>1. /\ \A t : Brought(t)' = Brought(t)
          /\ \A m : Lent(m)' = Lent(m)
          /\ clock' = clock /\ mark' = mark /\ lives' = lives
      BY <2>1 DEF Outcome, Brought, Lent
    <3>2. /\ buckets'[u] # NoBucket /\ buckets'[u].updated >= mark
          /\ Spent(u)' + buckets'[u].tokens <= Lent(1 + lives) + Brought(buckets'[u].updated)
      <4>1. buckets'[u] = [tokens |-> n, updated |-> clock] /\ buckets'[u] # NoBucket
        BY <2>1, PutType DEF Outcome
      <4>2. Spent(u)' + n <= Lent(1 + lives) + Brought(clock)
        BY <2>1, AccountOfUser
      <4> QED BY <4>1, <4>2, Counters
    <3> QED BY <2>1, <3>1, <3>2, AccountOfOthers DEF RateInv
  <2>2. CASE u \notin Allowed /\ Reject(u)
    BY <2>2 DEF Reject, observer, RateInv, Spent, Lent, Brought
  <2>3. /\ Full - Minute \in Nat => Full - Minute \in 0..Full
        /\ Outcome(u, Full - Minute) => Full - Minute \in 0..Full
        /\ Outcome(u, Refilled(buckets[u])) => Refilled(buckets[u]) \in 0..Full
        /\ Outcome(u, Refilled(buckets[u]) - Minute) => Refilled(buckets[u]) - Minute \in 0..Full
    BY FullType, ThrottleAssumption DEF Outcome
  <2> QED BY <1>1, <2>1, <2>2, <2>3, ReceiveOutcomes
<1>2. CASE Tick
  <2>1. UNCHANGED <<buckets, mark, seen, lives>> /\ clock' = clock + 1
    BY <1>2 DEF Tick, observer
  <2>2. Brought(clock) <= Brought(clock + 1)
    BY AccountTypes, Counters
  <2>3. /\ \A u \in Allowed : Spent(u)' = Spent(u)
        /\ Lent(lives)' = Lent(lives) /\ Lent(1 + lives)' = Lent(1 + lives)
        /\ Brought(clock)' = Brought(clock + 1) /\ \A t : Brought(t)' = Brought(t)
    BY <2>1 DEF Spent, Lent, Brought
  <2>4. ASSUME NEW u \in Allowed, Spent(u) <= Lent(lives) + Brought(clock)
        PROVE  Spent(u) <= Lent(lives) + Brought(clock + 1)
    <3>1. /\ Spent(u) \in Nat /\ Lent(lives) \in Nat
          /\ Brought(clock) \in Int /\ Brought(clock + 1) \in Int
      BY AccountTypes, Counters
    <3> QED BY <2>2, <2>4, <3>1
  <2> QED BY <2>1, <2>3, <2>4 DEF RateInv
<1>3. CASE Restart
  <2> SUFFICES ASSUME NEW u \in Allowed
               PROVE  buckets'[u] = NoBucket /\ (Spent(u) <= Lent(lives) + Brought(clock))'
    BY DEF RateInv
  <2>1. /\ buckets'[u] = NoBucket /\ Spent(u)' = Spent(u) /\ Lent(lives)' = Lent(1 + lives)
        /\ Brought(clock)' = Brought(clock)
    BY <1>3, Counters DEF Restart, NoBuckets, Spent, Lent, Brought
  <2>2. /\ Spent(u) \in Nat /\ Lent(lives) \in Nat /\ Lent(1 + lives) = Lent(lives) + Full
        /\ Brought(clock) \in Nat /\ Full \in Nat
    BY AccountTypes, Counters, FullType
  <2>3. ASSUME buckets[u] # NoBucket, buckets[u].updated >= mark
        PROVE  /\ buckets[u].tokens \in Nat
               /\ Brought(buckets[u].updated) \in Int
               /\ Brought(buckets[u].updated) <= Brought(clock)
    <3>1. buckets[u] \in Bucket /\ buckets[u].updated <= clock
      BY <2>3 DEF TypeOK
    <3>2. buckets[u].tokens \in Nat /\ buckets[u].updated \in Nat
      BY <3>1 DEF Bucket
    <3> QED BY <3>1, <3>2, AccountTypes, Counters
  <2> QED BY <2>1, <2>2, <2>3 DEF RateInv
<1>4. CASE Observe
  <2> SUFFICES ASSUME NEW u \in Allowed
               PROVE  \/ buckets[u] = NoBucket /\ (Spent(u) <= Lent(lives) + Brought(clock))'
                      \/ /\ buckets[u] # NoBucket /\ buckets[u].updated < clock
                         /\ (Spent(u) <= Lent(lives))'
                      \/ /\ buckets[u] # NoBucket /\ buckets[u].updated >= clock
                         /\ Spent(u)' + buckets[u].tokens
                              <= Lent(1 + lives)' + Brought(buckets[u].updated)'
    BY <1>4 DEF RateInv, Observe
  <2>1. Spent(u)' = 0 /\ Lent(lives)' = 0 /\ Lent(1 + lives)' = Full /\ Brought(clock)' = 0
    <3>1. seen'[u] = 0 /\ lives' = 0 /\ mark' = clock /\ clock' = clock
      BY <1>4 DEF Observe
    <3>2. clock \in Nat /\ Minute \in Nat /\ Full \in Nat /\ PerMinute \in Nat
      BY Counters, FullType, ThrottleAssumption
    <3> HIDE DEF Full
    <3> QED BY <3>1, <3>2 DEF Spent, Lent, Brought
  <2>2. CASE buckets[u] = NoBucket
    BY <2>1, <2>2
  <2>3. CASE buckets[u] # NoBucket
    <3>1. buckets[u].tokens \in 0..Full /\ buckets[u].updated \in Nat
          /\ buckets[u].updated <= clock
      BY <2>3 DEF TypeOK, Bucket
    <3>2. buckets[u].updated >= clock => Brought(buckets[u].updated)' = 0
      BY <1>4, <2>1, <3>1, Counters DEF Observe, Brought
    <3> QED BY <2>1, <2>3, <3>1, <3>2, Counters, FullType
  <2> QED BY <2>2, <2>3
<1>5. CASE UNCHANGED vars
  BY <1>5 DEF vars, observer, RateInv, Spent, Lent, Brought
<1> QED BY <1>1, <1>2, <1>3, <1>4, <1>5 DEF Next

LEMMA RateFollows == TypeOK /\ RateInv => RateBounded
<1> SUFFICES ASSUME TypeOK, RateInv, NEW u \in Allowed
             PROVE  Spent(u) <= Lent(1 + lives) + Brought(clock)
  BY DEF RateBounded, Spent, Lent, Brought
<1>1. /\ Spent(u) \in Nat /\ Lent(lives) \in Nat /\ Lent(1 + lives) = Lent(lives) + Full
      /\ Brought(clock) \in Nat /\ Full \in Nat
  BY AccountTypes, Counters, FullType
<1>2. CASE buckets[u] = NoBucket
  BY <1>1, <1>2 DEF RateInv
<1>3. CASE buckets[u] # NoBucket
  <2>1. /\ buckets[u].tokens \in Nat /\ buckets[u].updated \in Nat
        /\ buckets[u].updated <= clock
    BY <1>3 DEF TypeOK, Bucket
  <2>2. /\ Brought(buckets[u].updated) \in Int
        /\ Brought(buckets[u].updated) <= Brought(clock)
    BY <2>1, AccountTypes, Counters
  <2> QED BY <1>1, <1>3, <2>1, <2>2 DEF RateInv
<1> QED BY <1>2, <1>3

(* No user gets more through in any interval than one bucket, one more for every *)
(* restart, and what the rate brings (ThrottleMiddleware._allow).                *)
THEOREM TheRateIsBounded == Spec => []RateBounded
<1>1. Init => TypeOK /\ RateInv
  BY TypeInitially, RateInitially
<1>2. (TypeOK /\ RateInv) /\ [Next]_vars => (TypeOK /\ RateInv)'
  BY TypeStep, RateStep
<1>3. TypeOK /\ RateInv => RateBounded
  BY RateFollows
<1> QED BY <1>1, <1>2, <1>3, PTL DEF Spec

-----------------------------------------------------------------------------
(* Patience.  A bucket with less than a token holds all that has come since the *)
(* last update that was handled, and nothing that was refused took any of it.   *)
Since(u, t) == PerMinute * (t - handledAt[u])

PatienceInv ==
  /\ \A u \in Allowed : buckets[u] # NoBucket =>
       buckets[u].tokens >= Minute \/ buckets[u].tokens >= Since(u, buckets[u].updated)
  /\ PatienceIsServed

LEMMA PatienceStep == TypeOK /\ PatienceInv /\ [Next]_vars => PatienceInv'
<1> SUFFICES ASSUME TypeOK, PatienceInv, [Next]_vars PROVE PatienceInv'
  OBVIOUS
<1> DEFINE Holds(u) == buckets[u] # NoBucket =>
             buckets[u].tokens >= Minute \/ buckets[u].tokens >= Since(u, buckets[u].updated)
<1>1. ASSUME UNCHANGED <<buckets, handledAt>>, answer'.what # "refused"
      PROVE  PatienceInv'
  BY <1>1 DEF PatienceInv, PatienceIsServed, Since, Answer
<1>2. ASSUME NEW u \in Allowed, NEW n \in 0..Full, Outcome(u, n), Handle(u)
      PROVE  PatienceInv'
  <2>1. buckets'[u] = [tokens |-> n, updated |-> clock]
        /\ \A v \in Allowed \ {u} : buckets'[v] = buckets[v] /\ handledAt'[v] = handledAt[v]
    BY <1>2, PutType DEF Outcome, Handle, TypeOK
  <2>2. PerMinute * (clock - handledAt'[u]) = 0
    BY <1>2, ThrottleAssumption DEF Handle, TypeOK
  <2>3. Holds(u)'
    BY <2>1, <2>2 DEF Since
  <2>4. \A v \in Allowed \ {u} : Holds(v)'
    BY <2>1 DEF PatienceInv, Since
  <2> QED BY <1>2, <2>3, <2>4 DEF PatienceInv, PatienceIsServed, Handle, Answer
<1>3. ASSUME NEW u \in Allowed, buckets[u] # NoBucket, Refilled(buckets[u]) < Minute,
             Outcome(u, Refilled(buckets[u])), answer' = Answer(u, "refused"),
             UNCHANGED handledAt
      PROVE  PatienceInv'
  <2> DEFINE n == Refilled(buckets[u])
  <2>1. /\ buckets[u] \in Bucket /\ buckets[u].updated <= clock
        /\ buckets[u].tokens \in Nat /\ buckets[u].updated \in Nat
        /\ clock \in Nat /\ handledAt[u] \in Nat
    BY <1>3 DEF TypeOK, Bucket
  <2>2. n \in 0..Full /\ n < Full
    BY <1>3, <2>1, RefilledType, FullType, ThrottleAssumption
  <2>3. n = buckets[u].tokens + PerMinute * (clock - buckets[u].updated)
    BY <2>1, <2>2, RefilledType
  <2>4. /\ Since(u, clock) = Since(u, buckets[u].updated)
                               + PerMinute * (clock - buckets[u].updated)
        /\ Since(u, buckets[u].updated) \in Int
        /\ PerMinute * (clock - buckets[u].updated) \in Nat
    BY <2>1, ProductOfDifference, ProductType, ThrottleAssumption DEF Since
  <2>5. n >= Since(u, clock)
    BY <1>3, <2>1, <2>2, <2>3, <2>4, ThrottleAssumption DEF PatienceInv
  <2>6. /\ buckets'[u] = [tokens |-> n, updated |-> clock]
        /\ \A v \in Allowed \ {u} : buckets'[v] = buckets[v]
        /\ clock' = clock
    BY <1>3, <2>2, PutType DEF Outcome
  <2>7. Holds(u)'
    BY <1>3, <2>5, <2>6 DEF Since
  <2>8. \A v \in Allowed \ {u} : Holds(v)'
    BY <1>3, <2>6 DEF PatienceInv, Since
  <2>9. PatienceIsServed'
    <3>1. Since(u, clock) < Minute
      BY <1>3, <2>2, <2>4, <2>5, ThrottleAssumption
    <3> QED BY <1>3, <2>6, <3>1 DEF PatienceIsServed, Since, Answer
  <2> QED BY <2>7, <2>8, <2>9 DEF PatienceInv
<1>4. ASSUME NEW u \in Users \union {Nobody}, Receive(u) PROVE PatienceInv'
  <2>1. /\ Outcome(u, Full - Minute) => Full - Minute \in 0..Full
        /\ Outcome(u, Refilled(buckets[u]) - Minute) => Refilled(buckets[u]) - Minute \in 0..Full
    BY DEF Outcome
  <2>2. CASE u \notin Allowed /\ Reject(u)
    BY <1>1, <2>2 DEF Reject, Answer, Silence
  <2> QED BY <1>2, <1>3, <1>4, <2>1, <2>2, ReceiveOutcomes
<1>5. CASE Tick
  BY <1>1, <1>5 DEF Tick, Silence, Answer
<1>6. CASE Restart
  BY <1>6 DEF Restart, NoBuckets, Silence, Answer, PatienceInv, PatienceIsServed
<1>7. CASE Observe
  BY <1>1, <1>7 DEF Observe, Silence, Answer
<1>8. CASE UNCHANGED vars
  BY <1>8 DEF vars, PatienceInv, PatienceIsServed, Since
<1> QED BY <1>4, <1>5, <1>6, <1>7, <1>8 DEF Next

(* Whoever has waited for one token since the last update that was handled is *)
(* never told to slow down (ThrottleMiddleware._allow).                       *)
THEOREM PatienceSuffices == Spec => []PatienceIsServed
<1>1. Init => PatienceInv
  BY DEF Init, NoBuckets, Silence, Answer, PatienceInv, PatienceIsServed
<1>2. PatienceInv => PatienceIsServed
  BY DEF PatienceInv
<1> QED BY <1>1, <1>2, PatienceStep, ThrottleTypeCorrect, PTL DEF Spec
=============================================================================
