-------------------------- MODULE RecognitionProofs --------------------------
(* Theorems about recognising and replacing what is sensitive: the NER      *)
(* circuit breaker, for any set of callers and any threshold, interval and  *)
(* timeout, and the sanitiser, for any texts, hits, answers and deltas.     *)
EXTENDS NERCircuitBreaker, Sanitizer, Integers, FiniteSetTheorems, WellFoundedInduction,
        SequenceTheorems, TLAPS

-----------------------------------------------------------------------------
(* Type correctness. *)

(* Every step of Recognize, of the clock and of the environment keeps the   *)
(* breaker's fields in range: in particular open() caps the failure count.  *)
THEOREM TypeCorrect == Spec => []TypeOK
<1>1. Init => TypeOK
  <2> SUFFICES ASSUME Init PROVE TypeOK
    OBVIOUS
  <2> USE DEF Init
  <2>1. failures \in 0..FailureThreshold /\ remaining \in 0..OpenInterval
    BY ThresholdAssumption, IntervalAssumption
  <2>2. left \in [Callers -> 0..CallTimeout]
    BY TimeoutAssumption
  <2>3. probeInFlight \in BOOLEAN /\ healthy \in BOOLEAN
    OBVIOUS
  <2>4. QED
    BY <2>1, <2>2, <2>3 DEF TypeOK, Closed, Open, HalfOpen
<1>2. TypeOK /\ [Next]_vars => TypeOK'
  <2> SUFFICES ASSUME TypeOK, [Next]_vars PROVE TypeOK'
    OBVIOUS
  <2> USE ThresholdAssumption, IntervalAssumption, TimeoutAssumption
          DEF TypeOK, Closed, Open, HalfOpen
  <2>1. ASSUME NEW c \in Callers, AdmitCall(c) PROVE TypeOK'
    BY <2>1 DEF AdmitCall, SendToNER
  <2>2. ASSUME NEW c \in Callers, AdmitProbe(c) PROVE TypeOK'
    BY <2>2 DEF AdmitProbe, SendToNER
  <2>3. ASSUME NEW c \in Callers, BookFailure(c) PROVE TypeOK'
    BY <2>3 DEF BookFailure, TakeBack, OpenBreaker
  <2>4. ASSUME NEW c \in Callers, BookSuccess(c) PROVE TypeOK'
    BY <2>4 DEF BookSuccess, TakeBack
  <2>5. ASSUME Tick PROVE TypeOK'
    BY <2>5 DEF Tick, InFlight
  <2>6. ASSUME HealthChanges PROVE TypeOK'
    BY <2>6 DEF HealthChanges
  <2>7. CASE UNCHANGED vars
    BY <2>7 DEF vars
  <2>8. QED
    BY <2>1, <2>2, <2>3, <2>4, <2>5, <2>6, <2>7 DEF Next
<1>3. QED
  BY <1>1, <1>2, PTL DEF Spec

-----------------------------------------------------------------------------
(* The half-open state. *)

(* The flag that keeps a second probe out is always backed by a probe that  *)
(* will give it back, whatever stale answers are booked in between: the     *)
(* breaker cannot refuse every call for ever.                               *)
THEOREM HalfOpenIsNeverStuck == Spec => []NeverStuckHalfOpen
<1>1. Init => NeverStuckHalfOpen
  BY DEF Init, NeverStuckHalfOpen, Closed, HalfOpen
<1>2. TypeOK /\ NeverStuckHalfOpen /\ [Next]_vars => NeverStuckHalfOpen'
  <2> SUFFICES ASSUME TypeOK, NeverStuckHalfOpen, [Next]_vars
               PROVE NeverStuckHalfOpen'
    OBVIOUS
  <2> USE DEF TypeOK, NeverStuckHalfOpen, Probing, Closed, Open, HalfOpen
  <2>1. ASSUME NEW c \in Callers, AdmitCall(c) PROVE NeverStuckHalfOpen'
    BY <2>1 DEF AdmitCall, SendToNER
  <2>2. ASSUME NEW c \in Callers, AdmitProbe(c) PROVE NeverStuckHalfOpen'
    <3>1. c \in Probing'
      BY <2>2 DEF AdmitProbe, SendToNER
    <3>2. probeInFlight'
      BY <2>2 DEF AdmitProbe
    <3>3. QED
      BY <3>1, <3>2
  <2>3. ASSUME NEW c \in Callers, BookFailure(c) PROVE NeverStuckHalfOpen'
    BY <2>3 DEF BookFailure, TakeBack, OpenBreaker, InFlight, FailureCounts
  <2>4. ASSUME NEW c \in Callers, BookSuccess(c) PROVE NeverStuckHalfOpen'
    BY <2>4 DEF BookSuccess, TakeBack, InFlight
  <2>5. ASSUME Tick PROVE NeverStuckHalfOpen'
    BY <2>5 DEF Tick
  <2>6. ASSUME HealthChanges PROVE NeverStuckHalfOpen'
    BY <2>6 DEF HealthChanges
  <2>7. CASE UNCHANGED vars
    BY <2>7 DEF vars
  <2>8. QED
    BY <2>1, <2>2, <2>3, <2>4, <2>5, <2>6, <2>7 DEF Next
<1>3. QED
  BY <1>1, <1>2, TypeCorrect, PTL DEF Spec

-----------------------------------------------------------------------------
(* One probe at a time. *)

(***************************************************************************)
(* SingleProbe is not inductive: a second probe is kept out by the flag    *)
(* while the breaker is half open and by the clock while it is open.  The  *)
(* strengthening says that a call still out when the breaker opened times  *)
(* out before the interval ends, so the probe starts alone.                *)
(***************************************************************************)
ProbeStartsAlone ==
    CallTimeout < OpenInterval =>
        /\ state = Open => \A c \in InFlight : /\ call[c] = "calling"
                                               /\ left[c] < remaining
        /\ state = HalfOpen => \A c, d \in InFlight : c = d
        /\ state = Closed => Probing = {}

(* The strengthening is an invariant.                                      *)
LEMMA ProbeStartsAloneInvariant == Spec => []ProbeStartsAlone
<1>1. Init => ProbeStartsAlone
  BY DEF Init, ProbeStartsAlone, InFlight, Probing, Closed, Open, HalfOpen
<1>2. TypeOK /\ NeverStuckHalfOpen /\ ProbeStartsAlone /\ [Next]_vars
        => ProbeStartsAlone'
  <2> SUFFICES ASSUME TypeOK, NeverStuckHalfOpen, ProbeStartsAlone, [Next]_vars,
                      CallTimeout < OpenInterval
               PROVE ProbeStartsAlone'
    BY DEF ProbeStartsAlone
  <2> USE ThresholdAssumption, IntervalAssumption, TimeoutAssumption
          DEF TypeOK, ProbeStartsAlone, InFlight, Probing, Closed, Open, HalfOpen
  <2>1. ASSUME NEW c \in Callers, AdmitCall(c) PROVE ProbeStartsAlone'
    BY <2>1 DEF AdmitCall, SendToNER
  <2>2. ASSUME NEW c \in Callers, AdmitProbe(c) PROVE ProbeStartsAlone'
    <3>1. state = Open /\ remaining = 0
      BY <2>2 DEF AdmitProbe, MayProbe, NeverStuckHalfOpen
    <3>2. InFlight = {}
      BY <3>1
    <3>3. \A d \in Callers : call'[d] # "idle" => d = c
      BY <2>2, <3>2 DEF AdmitProbe, SendToNER
    <3>4. state' = HalfOpen
      BY <2>2 DEF AdmitProbe
    <3>5. QED
      BY <3>3, <3>4
  <2>3. ASSUME NEW c \in Callers, BookFailure(c) PROVE ProbeStartsAlone'
    <3> USE DEF BookFailure, TakeBack, FailureCounts
    <3>1. CASE call[c] = "probing"
      <4>1. state = HalfOpen
        BY <2>3, <3>1
      <4>2. InFlight' = {} /\ state' = Open
        BY <2>3, <3>1, <4>1 DEF OpenBreaker
      <4>3. QED
        BY <4>2
    <3>2. CASE call[c] = "calling" /\ state = Closed
      BY <2>3, <3>2 DEF OpenBreaker
    <3>3. CASE call[c] = "calling" /\ state # Closed
      BY <2>3, <3>3
    <3>4. QED
      BY <2>3, <3>1, <3>2, <3>3
  <2>4. ASSUME NEW c \in Callers, BookSuccess(c) PROVE ProbeStartsAlone'
    BY <2>4 DEF BookSuccess, TakeBack
  <2>5. ASSUME Tick PROVE ProbeStartsAlone'
    BY <2>5 DEF Tick
  <2>6. ASSUME HealthChanges PROVE ProbeStartsAlone'
    BY <2>6 DEF HealthChanges
  <2>7. CASE UNCHANGED vars
    BY <2>7 DEF vars
  <2>8. QED
    BY <2>1, <2>2, <2>3, <2>4, <2>5, <2>6, <2>7 DEF Next
<1>3. QED
  BY <1>1, <1>2, TypeCorrect, HalfOpenIsNeverStuck, PTL DEF Spec

(* The breaker sends one probe at a time to a NER that may be down, for     *)
(* every configuration whose client timeout is below its open interval.     *)
THEOREM OneProbeAtATime == Spec => []SingleProbe
<1>1. TypeOK /\ ProbeStartsAlone => SingleProbe
  <2> SUFFICES ASSUME TypeOK, ProbeStartsAlone, CallTimeout < OpenInterval,
                      NEW c \in Probing, NEW d \in Probing
               PROVE c = d
    BY DEF SingleProbe
  <2>1. state = HalfOpen
    BY DEF TypeOK, ProbeStartsAlone, InFlight, Probing, Closed, Open, HalfOpen
  <2>2. QED
    BY <2>1 DEF ProbeStartsAlone, InFlight, Probing
<1>2. QED
  BY <1>1, TypeCorrect, ProbeStartsAloneInvariant, PTL

-----------------------------------------------------------------------------
(* The fail-fast window. *)

(* A failure of a call admitted before the breaker opened never prolongs    *)
(* the window, for any configuration.                                       *)
THEOREM WindowIsNotProlonged == Spec => LateFailuresDoNotProlong
<1> DEFINE Step == state = Open /\ state' = Open /\ remaining' > remaining
                     => \E c \in Probing : call'[c] = "idle"
<1>1. TypeOK /\ [Next]_vars => [Step]_vars
  <2> SUFFICES ASSUME TypeOK, [Next]_vars,
                      state = Open, state' = Open, remaining' > remaining
               PROVE \E c \in Probing : call'[c] = "idle"
    OBVIOUS
  <2> USE DEF TypeOK, Closed, Open, HalfOpen
  <2>1. ASSUME NEW c \in Callers, AdmitCall(c) PROVE FALSE
    BY <2>1 DEF AdmitCall
  <2>2. ASSUME NEW c \in Callers, AdmitProbe(c) PROVE FALSE
    BY <2>2 DEF AdmitProbe
  <2>3. ASSUME NEW c \in Callers, BookFailure(c)
        PROVE  c \in Probing /\ call'[c] = "idle"
    BY <2>3 DEF BookFailure, TakeBack, FailureCounts, Probing, InFlight
  <2>4. ASSUME NEW c \in Callers, BookSuccess(c) PROVE FALSE
    BY <2>4 DEF BookSuccess
  <2>5. ASSUME Tick PROVE FALSE
    BY <2>5 DEF Tick
  <2>6. ASSUME HealthChanges PROVE FALSE
    BY <2>6 DEF HealthChanges
  <2>7. CASE UNCHANGED vars
    BY <2>7 DEF vars
  <2>8. QED
    BY <2>1, <2>2, <2>3, <2>4, <2>5, <2>6, <2>7 DEF Next
<1>2. QED
  BY <1>1, TypeCorrect, PTL DEF Spec, LateFailuresDoNotProlong

-----------------------------------------------------------------------------
(* Numbers and slices. *)

LEMMA Least ==
    ASSUME NEW N \in SUBSET Nat, N # {}
    PROVE  Min(N) \in N /\ \A n \in N : Min(N) <= n
<1>1. IsWellFoundedOn(OpToRel(<, Nat), Nat)
  BY NatLessThanWellFounded
<1> DEFINE R == OpToRel(<, Nat)
<1>2. \A m, n \in Nat : <<n, m>> \in R <=> n < m
  BY DEF OpToRel
<1>3. IsWellFoundedOn(R, Nat)
  BY <1>1
<1> HIDE DEF R
<1>4. PICK least \in N : \A n \in N : ~ (n < least)
  BY <1>2, <1>3, WFMin
<1>5. \A n \in N : least <= n
  BY <1>4
<1> QED
  BY <1>5 DEF Min

(* Induction on the naturals, said of a set: what contains each number if it *)
(* contains the smaller ones contains all.                                   *)
LEMMA AllNumbers ==
    ASSUME NEW N \in SUBSET Nat, \A n \in Nat : (\A m \in Nat : m < n => m \in N) => n \in N
    PROVE  N = Nat
<1> SUFFICES ASSUME Nat \ N # {} PROVE FALSE
  OBVIOUS
<1>1. Min(Nat \ N) \in Nat \ N /\ \A n \in Nat \ N : Min(Nat \ N) <= n
  BY Least
<1> DEFINE least == Min(Nat \ N)
<1> HIDE DEF least
<1>2. least \in Nat \ N /\ \A n \in Nat \ N : least <= n
  BY <1>1 DEF least
<1>3. \A m \in Nat : m < least => m \in N
  BY <1>2
<1> QED
  BY <1>2, <1>3

LEMMA Greatest ==
    ASSUME NEW m \in Nat, NEW P \in SUBSET (1..m), P # {}
    PROVE  Max(P) \in P /\ \A i \in P : Max(P) >= i
<1> DEFINE N == {m - i : i \in P}
<1>1. N \in SUBSET Nat /\ N # {}
  <2>1. \A i \in P : i \in Int /\ i <= m
    OBVIOUS
  <2>2. \A i \in P : m - i \in Nat
    BY <2>1
  <2> QED
    BY <2>2
<1>2. Min(N) \in N /\ \A n \in N : Min(N) <= n
  BY <1>1, Least
<1>3. PICK p \in P : Min(N) = m - p
  BY <1>2
<1>4. \A i \in P : m - p <= m - i
  BY <1>2, <1>3
<1>5. \A i \in P : p >= i
  BY <1>4
<1> QED
  BY <1>5 DEF Max

LEMMA Slice ==
    ASSUME NEW S, NEW t \in Seq(S), NEW l \in Int, NEW r \in Int, l >= 1, r <= Len(t)
    PROVE  /\ SubSeq(t, l, r) \in Seq(S)
           /\ Len(SubSeq(t, l, r)) = IF l <= r THEN r - l + 1 ELSE 0
           /\ \A i \in 1..(r - l + 1) : SubSeq(t, l, r)[i] = t[l + i - 1]
<1>1. Len(t) \in Nat
  OBVIOUS
<1>2. \A i \in l..r : i \in 1..Len(t)
  BY <1>1
<1>3. \A i \in l..r : t[i] \in S
  BY <1>2, ElementOfSeq
<1> QED
  BY <1>3, SubSeqProperties

LEMMA AppendedTo ==
    ASSUME NEW S, NEW d \in Seq(S), NEW e \in S
    PROVE  /\ Len(Append(d, e)) = Len(d) + 1
           /\ \A i \in 1..Len(d) : Append(d, e)[i] = d[i]
           /\ Append(d, e)[Len(d) + 1] = e
BY AppendProperties

-----------------------------------------------------------------------------
(***************************************************************************)
(* Stable sorting.  What is ahead of each position is a strict order; how  *)
(* much is ahead of a position is its place, and each place is taken once. *)
(***************************************************************************)
Orders(ahead, n) ==
    /\ ahead \in [1..n -> SUBSET (1..n)]
    /\ \A k \in 1..n : k \notin ahead[k]
    /\ \A j, k \in 1..n : j # k => j \in ahead[k] \/ k \in ahead[j]
    /\ \A j, k \in 1..n : j \in ahead[k] => ahead[j] \subseteq ahead[k]

LEMMA Places ==
    ASSUME NEW n \in Nat, NEW ahead, Orders(ahead, n)
    PROVE  /\ \A k \in 1..n : Cardinality(ahead[k]) \in 0..(n - 1)
           /\ \A i \in 1..n : \E k \in 1..n : Cardinality(ahead[k]) = i - 1
           /\ \A j, k \in 1..n : j # k => Cardinality(ahead[j]) # Cardinality(ahead[k])
           /\ \A j, k \in 1..n : Cardinality(ahead[j]) < Cardinality(ahead[k]) => j \in ahead[k]
<1> USE DEF Orders
<1>1. IsFiniteSet(1..n) /\ Cardinality(1..n) = n
  BY FS_Interval
<1>2. IsFiniteSet(0..(n - 1)) /\ Cardinality(0..(n - 1)) = n
  <2>1. 0 \in Int /\ n - 1 \in Int /\ (0 > n - 1 => n = 0) /\ (n - 1) - 0 + 1 = n
    OBVIOUS
  <2> QED
    BY <2>1, FS_Interval
<1>3. ASSUME NEW k \in 1..n
      PROVE  IsFiniteSet(ahead[k]) /\ Cardinality(ahead[k]) \in 0..(n - 1)
  <2>1. ahead[k] \in SUBSET (1..n) /\ ahead[k] # 1..n
    OBVIOUS
  <2>2. IsFiniteSet(ahead[k]) /\ Cardinality(ahead[k]) <= n /\ Cardinality(ahead[k]) # n
    BY <2>1, <1>1, FS_Subset
  <2>3. Cardinality(ahead[k]) \in Nat
    BY <2>2, FS_CardinalityType
  <2> QED
    BY <2>2, <2>3
<1>4. ASSUME NEW j \in 1..n, NEW k \in 1..n, j \in ahead[k]
      PROVE  Cardinality(ahead[j]) < Cardinality(ahead[k])
  <2>1. ahead[j] \in SUBSET ahead[k] /\ ahead[j] # ahead[k]
    BY <1>4
  <2>2. /\ Cardinality(ahead[j]) <= Cardinality(ahead[k])
        /\ Cardinality(ahead[j]) # Cardinality(ahead[k])
    BY <2>1, <1>3, FS_Subset
  <2> QED
    BY <2>2, <1>3
<1>5. ASSUME NEW j \in 1..n, NEW k \in 1..n, j # k
      PROVE  Cardinality(ahead[j]) # Cardinality(ahead[k])
  <2>1. j \in ahead[k] \/ k \in ahead[j]
    BY <1>5
  <2>2. \/ Cardinality(ahead[j]) < Cardinality(ahead[k])
        \/ Cardinality(ahead[k]) < Cardinality(ahead[j])
    BY <2>1, <1>4
  <2> QED
    BY <2>2, <1>3
<1> DEFINE place == [k \in 1..n |-> Cardinality(ahead[k])]
<1>6. place \in Injection(1..n, 0..(n - 1))
  <2>1. place \in [1..n -> 0..(n - 1)]
    BY <1>3
  <2>2. \A j, k \in 1..n : j # k => place[j] # place[k]
    BY <1>5
  <2> QED
    BY <2>1, <2>2 DEF Injection, IsInjective
<1>7. place \in Surjection(1..n, 0..(n - 1))
  <2> HIDE DEF place
  <2> QED
    BY <1>1, <1>2, <1>6, FS_Injection
<1>8. \A i \in 1..n : \E k \in 1..n : Cardinality(ahead[k]) = i - 1
  <2>1. \A t \in 0..(n - 1) : \E k \in 1..n : place[k] = t
    BY <1>7 DEF Surjection
  <2>2. \A i \in 1..n : i - 1 \in 0..(n - 1)
    OBVIOUS
  <2> QED
    BY <2>1, <2>2
<1>9. ASSUME NEW j \in 1..n, NEW k \in 1..n, Cardinality(ahead[j]) < Cardinality(ahead[k])
      PROVE  j \in ahead[k]
  <2>1. j # k /\ ~ (Cardinality(ahead[k]) < Cardinality(ahead[j]))
    BY <1>9, <1>3
  <2> QED
    BY <2>1, <1>4
<1> QED
  BY <1>3, <1>5, <1>8, <1>9

\* at[i] is the position whose place is the i-th.
Takes(at, ahead, n) ==
    at = [i \in 1..n |-> CHOOSE k \in 1..n : Cardinality(ahead[k]) = i - 1]

Placed(at, ahead, n) ==
    /\ at \in [1..n -> 1..n]
    /\ \A k \in 1..n : \E i \in 1..n : at[i] = k
    /\ \A i, j \in 1..n : i # j => at[i] # at[j]
    /\ \A i, j \in 1..n : i < j => at[i] \in ahead[at[j]]

LEMMA InPlace ==
    ASSUME NEW n \in Nat, NEW ahead, Orders(ahead, n), NEW at, Takes(at, ahead, n)
    PROVE  Placed(at, ahead, n)
<1>1. /\ \A k \in 1..n : Cardinality(ahead[k]) \in 0..(n - 1)
      /\ \A i \in 1..n : \E k \in 1..n : Cardinality(ahead[k]) = i - 1
      /\ \A j, k \in 1..n : j # k => Cardinality(ahead[j]) # Cardinality(ahead[k])
      /\ \A j, k \in 1..n : Cardinality(ahead[j]) < Cardinality(ahead[k]) => j \in ahead[k]
  BY Places
<1>2. \A i \in 1..n : at[i] \in 1..n /\ Cardinality(ahead[at[i]]) = i - 1
  BY <1>1 DEF Takes
<1>3. at \in [1..n -> 1..n]
  BY <1>2 DEF Takes
<1>4. \A i, j \in 1..n : i # j => at[i] # at[j]
  BY <1>2
<1>5. ASSUME NEW k \in 1..n
      PROVE  \E i \in 1..n : at[i] = k
  <2>1. Cardinality(ahead[k]) + 1 \in 1..n /\ (Cardinality(ahead[k]) + 1) - 1 = Cardinality(ahead[k])
    BY <1>1
  <2> DEFINE i == Cardinality(ahead[k]) + 1
  <2>2. Cardinality(ahead[at[i]]) = Cardinality(ahead[k])
    BY <2>1, <1>2
  <2>3. at[i] = k
    BY <2>1, <2>2, <1>1, <1>2
  <2> QED
    BY <2>1, <2>3
<1>6. ASSUME NEW i \in 1..n, NEW j \in 1..n, i < j
      PROVE  at[i] \in ahead[at[j]]
  <2>1. Cardinality(ahead[at[i]]) < Cardinality(ahead[at[j]])
    BY <1>2, <1>6
  <2> QED
    BY <2>1, <1>1, <1>2
<1> QED
  BY <1>3, <1>4, <1>5, <1>6 DEF Placed

(* sort.SliceStable puts each element of the merged hits in one place.      *)
Hit == [start : Int, end : Int, source : Sources]

Permutes(at, t, s) ==
    /\ at \in [1..Len(s) -> 1..Len(s)]
    /\ t = [i \in 1..Len(s) |-> s[at[i]]]
    /\ \A k \in 1..Len(s) : \E i \in 1..Len(s) : at[i] = k
    /\ \A i, j \in 1..Len(s) : i # j => at[i] # at[j]

LEMMA StableByStart ==
    ASSUME NEW s \in Seq(Hit)
    PROVE  \E at : Permutes(at, SliceStable(s, ByStart), s)
<1> DEFINE n == Len(s)
           ahead == [k \in 1..n |-> AheadOf(k, s, ByStart)]
           at == [i \in 1..n |-> CHOOSE k \in 1..n : Cardinality(AheadOf(k, s, ByStart)) = i - 1]
<1>1. n \in Nat /\ DOMAIN s = 1..n
  OBVIOUS
<1>2. \A k \in 1..n : s[k].start \in Int
  <2>1. \A k \in 1..n : s[k] \in Hit
    BY ElementOfSeq
  <2> QED
    BY <2>1 DEF Hit
<1>3. \A j, k \in 1..n :
        j \in ahead[k] <=> s[j].start < s[k].start \/ (j < k /\ ~ (s[k].start < s[j].start))
  BY <1>1 DEF AheadOf, ByStart
<1>4. Orders(ahead, n)
  <2>1. ahead \in [1..n -> SUBSET (1..n)]
    BY <1>1 DEF AheadOf
  <2> HIDE DEF ahead
  <2>2. \A k \in 1..n : k \notin ahead[k]
    BY <1>1, <1>2, <1>3
  <2>3. \A j, k \in 1..n : j # k => j \in ahead[k] \/ k \in ahead[j]
    BY <1>1, <1>2, <1>3
  <2>4. \A i, j, k \in 1..n : i \in ahead[j] /\ j \in ahead[k] => i \in ahead[k]
    BY <1>1, <1>2, <1>3
  <2>5. \A j, k \in 1..n : j \in ahead[k] => ahead[j] \subseteq ahead[k]
    BY <2>1, <2>4
  <2> QED
    BY <2>1, <2>2, <2>3, <2>5 DEF Orders
<1>5. SliceStable(s, ByStart) = [i \in 1..n |-> s[at[i]]]
  BY <1>1 DEF SliceStable
<1>6. Takes(at, ahead, n)
  <2>1. \A k \in 1..n : ahead[k] = AheadOf(k, s, ByStart)
    OBVIOUS
  <2>2. \A i \in 1..n : (CHOOSE k \in 1..n : Cardinality(AheadOf(k, s, ByStart)) = i - 1)
                          = (CHOOSE k \in 1..n : Cardinality(ahead[k]) = i - 1)
    BY <2>1
  <2> QED
    BY <2>2 DEF Takes
<1> HIDE DEF ahead, at
<1>7. Permutes(at, SliceStable(s, ByStart), s)
  BY <1>1, <1>4, <1>5, <1>6, InPlace DEF Permutes, Placed
<1> QED
  BY <1>7

(* A set of hits becomes the sequence of its elements, by start. *)
InOrder(s) == \A i, j \in 1..Len(s) : i < j => s[i].start <= s[j].start

LEMMA Elements ==
    ASSUME NEW S, IsFiniteSet(S)
    PROVE  SetToSeq(S) \in Seq(S) /\ ToSet(SetToSeq(S)) = S
<1> DEFINE n == Cardinality(S)
           P(f) == IsInjective(f)
<1>1. n \in Nat /\ ExistsBijection(1..n, S)
  BY FS_CardinalityType
<1>2. PICK f \in Bijection(1..n, S) : TRUE
  BY <1>1 DEF ExistsBijection
<1>3. f \in [1..n -> S] /\ IsInjective(f)
  BY <1>2 DEF Bijection, Injection
<1>4. SetToSeq(S) \in [1..n -> S] /\ IsInjective(SetToSeq(S))
  BY <1>3 DEF SetToSeq
<1> DEFINE g == SetToSeq(S)
<1> HIDE DEF g
<1>5. g \in Injection(1..n, S)
  BY <1>4 DEF Injection, g
<1>6. g \in Surjection(1..n, S)
  <2>1. Cardinality(1..n) = n
    BY <1>1, FS_Interval
  <2> QED
    BY <1>5, <2>1, FS_Injection
<1>7. g \in [1..n -> S] /\ \A h \in S : \E i \in 1..n : g[i] = h
  BY <1>6 DEF Surjection
<1>8. g \in Seq(S) /\ DOMAIN g = 1..n
  BY <1>1, <1>7
<1>9. ToSet(g) = S
  BY <1>7, <1>8 DEF ToSet
<1> QED
  BY <1>8, <1>9 DEF g

LEMMA Sorted ==
    ASSUME NEW S \in SUBSET Hit, IsFiniteSet(S)
    PROVE  Sort(S) \in Seq(S) /\ ToSet(Sort(S)) = S /\ InOrder(Sort(S))
<1> DEFINE s == SetToSeq(S)
           n == Len(s)
           ahead == [k \in 1..n |-> AheadOf(k, s, Before)]
           at == [i \in 1..n |-> CHOOSE k \in 1..n : Cardinality(AheadOf(k, s, Before)) = i - 1]
<1>0. s \in Seq(S) /\ ToSet(s) = S
  BY Elements
<1> HIDE DEF s
<1>1. n \in Nat /\ DOMAIN s = 1..n /\ s \in [1..n -> S] /\ \A h \in S : \E k \in 1..n : s[k] = h
  BY <1>0 DEF ToSet
<1>2. \A k \in 1..n : /\ s[k].start \in Int /\ Priority(s[k]) \in Int /\ Length(s[k]) \in Int
  <2>1. \A k \in 1..n : s[k] \in Hit
    BY <1>1
  <2> QED
    BY <2>1 DEF Hit, Priority, Length, Sources
<1> DEFINE b == [k \in 1..n |-> s[k].start]
           p == [k \in 1..n |-> Priority(s[k])]
           l == [k \in 1..n |-> Length(s[k])]
           Less(j, k) == \/ b[j] < b[k]
                         \/ b[j] = b[k] /\ p[j] > p[k]
                         \/ b[j] = b[k] /\ p[j] = p[k] /\ l[j] > l[k]
<1>3. \A j, k \in 1..n :
        j \in ahead[k] <=> Less(j, k) \/ (j < k /\ ~ Less(k, j))
  BY <1>1 DEF AheadOf, Before
<1>4. Orders(ahead, n)
  <2>1. ahead \in [1..n -> SUBSET (1..n)]
    BY <1>1 DEF AheadOf
  <2>0. \A k \in 1..n : b[k] \in Int /\ p[k] \in Int /\ l[k] \in Int
    BY <1>2
  <2> HIDE DEF ahead, b, p, l
  <2>2. \A k \in 1..n : k \notin ahead[k]
    BY <1>1, <2>0, <1>3
  <2>3. \A j, k \in 1..n : j # k => j \in ahead[k] \/ k \in ahead[j]
    BY <1>1, <2>0, <1>3
  <2>4. ASSUME NEW i \in 1..n, NEW j \in 1..n, NEW k \in 1..n, i \in ahead[j], j \in ahead[k]
        PROVE  i \in ahead[k]
    <3>1. Less(i, j) \/ (i < j /\ ~ Less(j, i))
      BY <1>3, <2>4
    <3>2. Less(j, k) \/ (j < k /\ ~ Less(k, j))
      BY <1>3, <2>4
    <3>3. Less(i, k) \/ (i < k /\ ~ Less(k, i))
      <4>1. i \in Int /\ j \in Int /\ k \in Int
        BY <1>1
      <4> QED
        BY <2>0, <3>1, <3>2, <4>1, SMTT(60)
    <3> QED
      BY <1>3, <3>3
  <2>5. \A j, k \in 1..n : j \in ahead[k] => ahead[j] \subseteq ahead[k]
    BY <2>1, <2>4
  <2> QED
    BY <2>1, <2>2, <2>3, <2>5 DEF Orders
<1>5. Sort(S) = [i \in 1..n |-> s[at[i]]]
  BY <1>1 DEF SliceStable, Sort, s
<1>6. Takes(at, ahead, n)
  <2>1. \A k \in 1..n : ahead[k] = AheadOf(k, s, Before)
    OBVIOUS
  <2>2. \A i \in 1..n : (CHOOSE k \in 1..n : Cardinality(AheadOf(k, s, Before)) = i - 1)
                          = (CHOOSE k \in 1..n : Cardinality(ahead[k]) = i - 1)
    BY <2>1
  <2> QED
    BY <2>2 DEF Takes
<1> HIDE DEF at
<1>7. Placed(at, ahead, n)
  <2> HIDE DEF ahead, n
  <2> QED
    BY <1>1, <1>4, <1>6, InPlace
<1> DEFINE t == [i \in 1..n |-> s[at[i]]]
<1>8. t \in Seq(S) /\ Len(t) = n /\ DOMAIN t = 1..n
  <2>1. \A i \in 1..n : at[i] \in 1..n
    BY <1>7 DEF Placed
  <2>2. t \in [1..n -> S]
    BY <1>1, <2>1
  <2> HIDE DEF t, n
  <2> QED
    BY <1>1, <2>2
<1>9. ToSet(t) = S
  BY <1>1, <1>7, <1>8 DEF ToSet, Placed
<1>10. \A i, j \in 1..n : i < j => t[i].start <= t[j].start
  <2> SUFFICES ASSUME NEW i \in 1..n, NEW j \in 1..n, i < j
               PROVE  t[i].start <= t[j].start
    OBVIOUS
  <2>1. at[i] \in 1..n /\ at[j] \in 1..n /\ at[i] \in ahead[at[j]]
    BY <1>7 DEF Placed
  <2>2. Less(at[i], at[j]) \/ ~ Less(at[j], at[i])
    BY <1>3, <2>1
  <2>3. b[at[i]] <= b[at[j]]
    <3> DEFINE x == at[i]
               y == at[j]
    <3>1. b[x] \in Int /\ b[y] \in Int
      BY <1>2, <2>1
    <3> HIDE DEF b, p, l, x, y
    <3>2. Less(x, y) \/ ~ Less(y, x)
      BY <2>2 DEF x, y
    <3>3. b[x] <= b[y]
      BY <3>1, <3>2
    <3> QED
      BY <3>3 DEF x, y
  <2> QED
    BY <2>1, <2>3
<1> QED
  BY <1>5, <1>8, <1>9, <1>10 DEF InOrder
(***************************************************************************)
(* Merging.  What has been merged does not overlap and begins no later     *)
(* than what is still to be merged, so that a hit overlaps one merged hit  *)
(* at most; and each hit is among them, or has been beaten.                *)
(***************************************************************************)
Found == {h \in Hit : h.start < h.end}

LEMMA SameOrder ==
    \A h, g \in Hit : /\ Outranks(h, g) <=> BetterHit(h, g)
                      /\ BetterHit(h, g) => ~ BetterHit(g, h)
<1> SUFFICES ASSUME NEW h \in Hit, NEW g \in Hit
             PROVE  /\ Outranks(h, g) <=> BetterHit(h, g)
                    /\ BetterHit(h, g) => ~ BetterHit(g, h)
  OBVIOUS
<1>1. \A f \in Hit : Rank[f.source] = Priority(f) /\ Priority(f) \in Int /\ Length(f) \in Int
  BY DEF Hit, Sources, Rank, Priority, Length
<1> QED
  BY <1>1 DEF Outranks, BetterHit

(* Beats orders any two hits.                                               *)
LEMMA BeatsIsAnOrder ==
    /\ \A h \in Hit : ~ Beats(h, h)
    /\ \A h, g \in Hit : h # g => Beats(h, g) \/ Beats(g, h)
    /\ \A h, g \in Hit : Beats(h, g) => ~ Beats(g, h)
    /\ \A h, g, f \in Hit : Beats(h, g) /\ Beats(g, f) => Beats(h, f)
<1>1. \A f \in Hit : /\ Rank[f.source] \in Int /\ Length(f) \in Int /\ f.start \in Int
  BY DEF Hit, Sources, Rank, Length
<1>2. \A h, g \in Hit : Rank[h.source] = Rank[g.source] => h.source = g.source
  BY DEF Hit, Sources, Rank
<1>3. ASSUME NEW h \in Hit, NEW g \in Hit,
             h.source = g.source, Length(h) = Length(g), h.start = g.start
      PROVE  h = g
  <2>1. h.end = g.end
    BY <1>3 DEF Hit, Length
  <2> QED
    BY <1>3, <2>1 DEF Hit
<1>4. \A h, g \in Hit : h # g => Beats(h, g) \/ Beats(g, h)
  BY <1>1, <1>2, <1>3 DEF Beats, Outranks
<1>5. \A h, g, f \in Hit : Beats(h, g) /\ Beats(g, f) => Beats(h, f)
  BY <1>1 DEF Beats, Outranks
<1>6. \A h, g \in Hit : Beats(h, g) => ~ Beats(g, h)
  BY <1>1 DEF Beats, Outranks
<1> QED
  BY <1>4, <1>5, <1>6

Beaten(h) == \E g \in hits \ {h} : Overlaps(h, g) /\ Beats(g, h)

Apart(s) == \A i, j \in 1..Len(s) : i # j => ~ Overlaps(s[i], s[j])

MergeInv ==
    /\ IsFiniteSet(hits) /\ hits \subseteq Found
    /\ todo \in Seq(hits) /\ merged \in Seq(hits)
    /\ phase = "recognising" => todo = <<>> /\ merged = <<>>
    /\ phase = "applied" => todo = <<>>
    /\ InOrder(todo) /\ Apart(merged)
    /\ \A i \in 1..Len(merged), j \in 1..Len(todo) : merged[i].start <= todo[j].start
    /\ phase \in {"merging", "mergingNER", "applied"} =>
         \A h \in hits :
           \/ h \in ToSet(todo) \union ToSet(merged) \/ Beaten(h)
           \/ phase = "merging" /\ h.source = "ner"

\* Where a hit overlaps two merged hits, these overlap.
LEMMA OneOverlap ==
    ASSUME NEW h \in Found, NEW e \in Found, NEW f \in Found,
           e.start <= h.start, f.start <= h.start, Overlaps(h, e), Overlaps(h, f)
    PROVE  Overlaps(e, f)
  BY DEF Found, Hit, Overlaps

LEMMA OverlapsBoth ==
    \A h, e : Overlaps(h, e) <=> Overlaps(e, h)
  BY DEF Overlaps

LEMMA MergingStarts == SanitizerInit => MergeInv
<1> SUFFICES ASSUME SanitizerInit PROVE MergeInv
  OBVIOUS
<1>1. hits = {} /\ todo = <<>> /\ merged = <<>> /\ phase \in {"recognising", "answering"}
  BY DEF SanitizerInit, Request, Answer
<1>2. IsFiniteSet({})
  BY FS_EmptySet
<1> QED
  BY <1>1, <1>2 DEF MergeInv, InOrder, Apart

LEMMA RecognizeKeeps == MergeInv /\ Recognize => MergeInv'
<1> SUFFICES ASSUME MergeInv, Recognize PROVE MergeInv'
  OBVIOUS
<1> USE DEF MergeInv, Recognize
<1>1. PICK h \in HitsIn(text) : hits' = hits \union {h}
  OBVIOUS
<1>2. h \in Found
  BY DEF HitsIn, Found, Hit
<1>3. IsFiniteSet(hits')
  BY <1>1, FS_AddElement
<1> QED
  BY <1>1, <1>2, <1>3 DEF InOrder, Apart

LEMMA RecognizedKeeps == MergeInv /\ Recognized => MergeInv'
<1> SUFFICES ASSUME MergeInv, Recognized PROVE MergeInv'
  OBVIOUS
<1> DEFINE S == {h \in hits : h.source # "ner"}
<1>1. phase' = "merging" /\ todo' = Sort(S) /\ merged' = <<>> /\ hits' = hits
  BY DEF MergeInv, Recognized
<1>2. IsFiniteSet(S) /\ S \in SUBSET Hit /\ S \subseteq hits
  BY FS_Subset DEF MergeInv, Found
<1> HIDE DEF S
<1>3. todo' \in Seq(S) /\ ToSet(todo') = S /\ InOrder(todo')
  BY <1>1, <1>2, Sorted
<1>4. todo' \in Seq(hits)
  BY <1>2, <1>3
<1> QED
  BY <1>1, <1>3, <1>4 DEF MergeInv, Apart, S, InOrder

LEMMA HeadAndTail ==
    ASSUME NEW S, NEW s \in Seq(S), s # <<>>
    PROVE  /\ Head(s) = s[1] /\ Head(s) \in S /\ 1 \in 1..Len(s)
           /\ Tail(s) \in Seq(S)
           /\ \A j \in 1..Len(Tail(s)) : j + 1 \in 1..Len(s) /\ Tail(s)[j] = s[j + 1]
           /\ ToSet(s) = ToSet(Tail(s)) \union {Head(s)}
<1> DEFINE n == Len(s)
           t == Tail(s)
<1>1. n \in Nat /\ n > 0 /\ Head(s) = s[1] /\ Head(s) \in S /\ DOMAIN s = 1..n
  OBVIOUS
<1>2. t \in Seq(S) /\ Len(t) = n - 1 /\ DOMAIN t = 1..(n - 1)
      /\ \A j \in 1..(n - 1) : t[j] = s[j + 1]
  OBVIOUS
<1> HIDE DEF n, t
<1>3. \A j \in 1..(n - 1) : j + 1 \in 1..n
  BY <1>1
<1>4. \A i \in 1..n : i = 1 \/ (i - 1 \in 1..(n - 1) /\ (i - 1) + 1 = i)
  BY <1>1
<1>5. ASSUME NEW i \in 1..n
      PROVE  s[i] = s[1] \/ \E j \in 1..(n - 1) : t[j] = s[i]
  BY <1>2, <1>4
<1>6. \A j \in 1..(n - 1) : \E i \in 1..n : s[i] = t[j]
  BY <1>2, <1>3
<1>7. ToSet(s) = ToSet(t) \union {s[1]}
  <2>1. \A x : x \in ToSet(s) <=> \E i \in 1..n : s[i] = x
    BY <1>1 DEF ToSet
  <2>2. \A x : x \in ToSet(t) <=> \E j \in 1..(n - 1) : t[j] = x
    BY <1>2 DEF ToSet
  <2>3. 1 \in 1..n
    BY <1>1
  <2>4. \A x : x \in ToSet(s) <=> x \in ToSet(t) \/ x = s[1]
    BY <2>1, <2>2, <2>3, <1>5, <1>6
  <2> QED
    BY <2>4
<1> QED
  BY <1>1, <1>2, <1>3, <1>7 DEF n, t

LEMMA MergeKeeps == MergeInv /\ Merge => MergeInv'
<1> SUFFICES ASSUME MergeInv, Merge PROVE MergeInv'
  OBVIOUS
<1> DEFINE h == Head(todo)
           n == Len(merged)
           overlapped == {i \in DOMAIN merged : Overlaps(h, merged[i])}
           k == Min(overlapped)
<1>1. /\ phase \in {"merging", "mergingNER"} /\ phase' = phase /\ hits' = hits
      /\ todo # <<>> /\ todo' = Tail(todo)
      /\ merged' = IF overlapped = {} THEN Append(merged, h)
                   ELSE IF BetterHit(h, merged[k]) THEN [merged EXCEPT ![k] = h] ELSE merged
  BY DEF Merge
<1>2. /\ todo \in Seq(hits) /\ merged \in Seq(hits) /\ hits \subseteq Found /\ IsFiniteSet(hits)
      /\ n \in Nat /\ DOMAIN merged = 1..n
  BY DEF MergeInv
<1>3. /\ h \in hits /\ h = todo[1] /\ 1 \in 1..Len(todo) /\ todo' \in Seq(hits)
      /\ \A j \in 1..Len(todo') : j + 1 \in 1..Len(todo) /\ todo'[j] = todo[j + 1]
      /\ ToSet(todo) = ToSet(todo') \union {h}
  BY <1>1, <1>2, HeadAndTail
<1>4. InOrder(todo') /\ \A j \in 1..Len(todo') : h.start <= todo'[j].start
  <2>1. \A i, j \in 1..Len(todo') : i < j => i + 1 < j + 1
    OBVIOUS
  <2>2. InOrder(todo')
    BY <2>1, <1>3 DEF MergeInv, InOrder
  <2>3. \A j \in 1..Len(todo') : 1 < j + 1
    OBVIOUS
  <2> QED
    BY <2>2, <2>3, <1>3 DEF MergeInv, InOrder
<1>5. \A i \in 1..n : merged[i] \in hits /\ merged[i].start <= h.start
  BY <1>2, <1>3, ElementOfSeq DEF MergeInv
<1> DEFINE Goal == /\ merged' \in Seq(hits) /\ Apart(merged')
                   /\ \A i \in 1..Len(merged') : merged'[i].start <= h.start
                   /\ ToSet(merged) \union {h} \subseteq
                        ToSet(merged') \union {g \in hits : Beaten(g)}
<1>6. ASSUME overlapped = {} PROVE Goal
  <2>1. merged' = Append(merged, h)
    BY <1>1, <1>6
  <2>2. /\ merged' \in Seq(hits) /\ Len(merged') = n + 1 /\ merged'[n + 1] = h
        /\ \A i \in 1..n : merged'[i] = merged[i]
    BY <2>1, <1>2, <1>3
  <2>3. \A i \in 1..(n + 1) : i \in 1..n \/ i = n + 1
    BY <1>2
  <2>4. \A i \in 1..n : ~ Overlaps(h, merged[i]) /\ ~ Overlaps(merged[i], h)
    BY <1>2, <1>6, OverlapsBoth
  <2>5. Apart(merged')
    BY <2>2, <2>3, <2>4 DEF MergeInv, Apart
  <2>6. \A i \in 1..Len(merged') : merged'[i].start <= h.start
    <3>1. h.start <= h.start
      BY <1>2, <1>3 DEF Found, Hit
    <3> QED
      BY <2>2, <2>3, <1>5, <3>1
  <2>7. ToSet(merged) \union {h} \subseteq ToSet(merged')
    <3>1. \A i \in 1..n : i \in 1..(n + 1)
      BY <1>2
    <3>2. n + 1 \in 1..(n + 1) /\ DOMAIN merged' = 1..(n + 1)
      BY <1>2, <2>2
    <3> QED
      BY <1>2, <2>2, <3>1, <3>2 DEF ToSet
  <2> QED
    BY <2>2, <2>5, <2>6, <2>7
<1>7. ASSUME overlapped # {} PROVE Goal
  <2>1. k \in 1..n /\ Overlaps(h, merged[k])
    <3>1. overlapped \in SUBSET Nat
      BY <1>2
    <3>2. k \in overlapped
      BY <1>7, <3>1, Least
    <3> QED
      BY <3>2, <1>2
  <2> DEFINE e == merged[k]
  <2>2. e \in hits /\ e.start <= h.start /\ e \in ToSet(merged)
    BY <2>1, <1>5, <1>2 DEF ToSet
  <2> HIDE DEF k, overlapped
  <2>3. CASE BetterHit(h, e)
    <3>1. merged' = [merged EXCEPT ![k] = h]
      BY <1>1, <1>7, <2>3
    <3>2. /\ merged' \in Seq(hits) /\ Len(merged') = n /\ merged'[k] = h
          /\ \A i \in 1..n : i # k => merged'[i] = merged[i]
      BY <3>1, <2>1, <1>2, <1>3
    <3>3. \A i \in 1..n : i # k => ~ Overlaps(h, merged[i]) /\ ~ Overlaps(merged[i], h)
      <4> SUFFICES ASSUME NEW i \in 1..n, i # k, Overlaps(h, merged[i]) PROVE FALSE
        BY OverlapsBoth
      <4>1. Overlaps(e, merged[i])
        BY <1>2, <1>3, <1>5, <2>1, <2>2, OneOverlap
      <4> QED
        BY <4>1, <2>1 DEF MergeInv, Apart
    <3>4. Apart(merged')
      BY <3>2, <3>3, <2>1 DEF MergeInv, Apart
    <3>5. \A i \in 1..n : merged'[i].start <= h.start
      <4>1. h.start <= h.start
        BY <1>2, <1>3 DEF Found, Hit
      <4> QED
        BY <3>2, <1>5, <4>1
    <3>6. Beaten(e)
      <4>1. Beats(h, e) /\ h # e
        BY <2>3, <2>2, <1>2, <1>3, SameOrder DEF Found, Beats
      <4> QED
        BY <4>1, <1>3, <2>1, OverlapsBoth DEF Beaten
    <3>7. ToSet(merged) \union {h} \subseteq ToSet(merged') \union {e}
      <4>1. DOMAIN merged' = 1..n
        BY <3>2
      <4> QED
        BY <4>1, <3>2, <2>1, <1>2 DEF ToSet
    <3> QED
      BY <3>2, <3>4, <3>5, <3>6, <3>7, <2>2
  <2>4. CASE ~ BetterHit(h, e)
    <3>1. merged' = merged
      BY <1>1, <1>7, <2>4
    <3>2. h = e \/ Beaten(h)
      <4>1. h \in Hit /\ e \in Hit /\ e.start <= h.start /\ h.start \in Int /\ e.start \in Int
        BY <2>2, <1>2, <1>3 DEF Found, Hit
      <4>2. ~ Outranks(h, e)
        BY <2>4, <4>1, SameOrder
      <4>3. ~ Beats(h, e) \/ (~ Outranks(e, h) /\ h.start < e.start)
        BY <4>2 DEF Beats
      <4>4. h = e \/ Beats(e, h)
        BY <4>1, <4>3, BeatsIsAnOrder
      <4> QED
        BY <4>4, <2>1, <2>2 DEF Beaten
    <3> QED
      BY <3>1, <3>2, <2>2, <1>2, <1>3, <1>5 DEF MergeInv
  <2> QED
    BY <2>3, <2>4
<1>8. Goal
  BY <1>6, <1>7
<1>9. \A g : Beaten(g) => Beaten(g)'
  BY <1>1 DEF Beaten
<1>10. \A i \in 1..Len(merged'), j \in 1..Len(todo') : merged'[i].start <= todo'[j].start
  <2> SUFFICES ASSUME NEW i \in 1..Len(merged'), NEW j \in 1..Len(todo')
               PROVE  merged'[i].start <= todo'[j].start
    OBVIOUS
  <2>1. merged'[i] \in Found /\ todo'[j] \in Found /\ h \in Found
    BY <1>2, <1>3, <1>8, ElementOfSeq
  <2>2. merged'[i].start \in Int /\ todo'[j].start \in Int /\ h.start \in Int
    BY <2>1 DEF Found, Hit
  <2>3. merged'[i].start <= h.start /\ h.start <= todo'[j].start
    BY <1>4, <1>8
  <2> QED
    BY <2>2, <2>3
<1>11. ASSUME NEW g \in hits
       PROVE \/ g \in ToSet(todo') \union ToSet(merged') \/ Beaten(g)'
             \/ phase' = "merging" /\ g.source = "ner"
  <2>1. \/ g \in ToSet(todo) \union ToSet(merged) \/ Beaten(g)
        \/ phase = "merging" /\ g.source = "ner"
    BY <1>1 DEF MergeInv
  <2>2. g \in ToSet(todo) => g \in ToSet(todo') \/ g = h
    BY <1>3
  <2>3. g \in ToSet(merged) \union {h} => g \in ToSet(merged') \/ Beaten(g)
    BY <1>8
  <2> QED
    BY <1>1, <1>9, <2>1, <2>2, <2>3
<1> HIDE DEF h
<1> QED
  BY <1>1, <1>2, <1>3, <1>4, <1>8, <1>10, <1>11 DEF MergeInv, Apart, InOrder

LEMMA AddNERKeeps == MergeInv /\ AddNER => MergeInv'
<1> SUFFICES ASSUME MergeInv, AddNER PROVE MergeInv'
  OBVIOUS
<1> DEFINE S == ToSet(merged) \union {h \in hits : h.source = "ner"}
<1>1. /\ phase = "merging" /\ phase' = "mergingNER" /\ todo = <<>> /\ todo' = Sort(S)
      /\ merged' = <<>> /\ hits' = hits
  BY DEF AddNER
<1>2. S \subseteq hits
  <2>1. \A i \in DOMAIN merged : merged[i] \in hits
    BY DEF MergeInv
  <2> QED
    BY <2>1 DEF ToSet
<1>3. IsFiniteSet(S) /\ S \in SUBSET Hit
  BY <1>2, FS_Subset DEF MergeInv, Found
<1>4. \A h \in hits : h \in S \/ Beaten(h)
  <2>1. ToSet(todo) = {}
    BY <1>1 DEF ToSet
  <2> QED
    BY <1>1, <2>1 DEF MergeInv
<1> HIDE DEF S
<1>5. todo' \in Seq(S) /\ ToSet(todo') = S /\ InOrder(todo')
  BY <1>1, <1>3, Sorted
<1>6. todo' \in Seq(hits)
  BY <1>2, <1>5
<1>7. \A h \in hits : Beaten(h) => Beaten(h)'
  BY <1>1 DEF Beaten
<1> QED
  BY <1>1, <1>4, <1>5, <1>6, <1>7 DEF MergeInv, Apart, InOrder

LEMMA ApplyPlaceholdersKeeps == MergeInv /\ ApplyPlaceholders => MergeInv'
<1> SUFFICES ASSUME MergeInv, ApplyPlaceholders PROVE MergeInv'
  OBVIOUS
<1>1. /\ phase = "mergingNER" /\ phase' = "applied" /\ todo = <<>> /\ todo' = <<>>
      /\ merged' = SliceStable(merged, ByStart) /\ hits' = hits
  BY DEF ApplyPlaceholders
<1>2. merged \in Seq(hits) /\ hits \subseteq Hit /\ Len(merged) \in Nat /\ DOMAIN merged = 1..Len(merged)
  BY DEF MergeInv, Found
<1>3. merged \in Seq(Hit)
  BY <1>2
<1>4. PICK at : Permutes(at, merged', merged)
  BY <1>1, <1>3, StableByStart
<1> DEFINE n == Len(merged)
<1>5. /\ \A i \in 1..n : at[i] \in 1..n /\ merged'[i] = merged[at[i]]
      /\ \A k \in 1..n : \E i \in 1..n : at[i] = k
      /\ \A i, j \in 1..n : i # j => at[i] # at[j]
  BY <1>4 DEF Permutes
<1>6. merged' \in Seq(hits) /\ Len(merged') = n /\ DOMAIN merged' = 1..n
  <2>1. \A k \in 1..n : merged[k] \in hits
    BY <1>2
  <2>2. merged' \in [1..n -> hits]
    BY <1>4, <1>5, <2>1 DEF Permutes
  <2> HIDE DEF n
  <2>3. n \in Nat
    BY <1>2 DEF n
  <2> QED
    BY <2>2, <2>3
<1>7. Apart(merged')
  <2> SUFFICES ASSUME NEW i \in 1..n, NEW j \in 1..n, i # j
               PROVE  ~ Overlaps(merged'[i], merged'[j])
    BY <1>6 DEF Apart
  <2>1. at[i] \in 1..n /\ at[j] \in 1..n /\ at[i] # at[j]
    BY <1>5
  <2>2. ~ Overlaps(merged[at[i]], merged[at[j]])
    BY <2>1 DEF MergeInv, Apart
  <2> QED
    BY <2>2, <1>5
<1>8. ToSet(merged') = ToSet(merged)
  <2>1. \A x : x \in ToSet(merged) <=> \E k \in 1..n : merged[k] = x
    BY <1>2 DEF ToSet
  <2>2. \A x : x \in ToSet(merged') <=> \E i \in 1..n : merged'[i] = x
    BY <1>6 DEF ToSet
  <2>3. \A i \in 1..n : \E k \in 1..n : merged[k] = merged'[i]
    BY <1>5
  <2>4. \A k \in 1..n : \E i \in 1..n : merged'[i] = merged[k]
    BY <1>5
  <2>5. \A x : x \in ToSet(merged') <=> x \in ToSet(merged)
    BY <2>1, <2>2, <2>3, <2>4
  <2> QED
    BY <2>5
<1>9. \A h \in hits : Beaten(h) => Beaten(h)'
  BY <1>1 DEF Beaten
<1>10. \A h \in hits : h \in ToSet(merged) \/ Beaten(h)
  <2>1. ToSet(todo) = {}
    BY <1>1 DEF ToSet
  <2> QED
    BY <1>1, <2>1 DEF MergeInv
<1> QED
  BY <1>1, <1>6, <1>7, <1>8, <1>9, <1>10 DEF MergeInv, Apart, InOrder

LEMMA MergingInvariant == SanitizerSpec => []MergeInv
<1>1. MergeInv /\ [SanitizerNext]_sanitizerVars => MergeInv'
  <2> SUFFICES ASSUME MergeInv, [SanitizerNext]_sanitizerVars PROVE MergeInv'
    OBVIOUS
  <2>1. CASE Recognize \/ Recognized
    BY <2>1, RecognizeKeeps, RecognizedKeeps
  <2>2. CASE Merge \/ AddNER \/ ApplyPlaceholders
    BY <2>2, MergeKeeps, AddNERKeeps, ApplyPlaceholdersKeeps
  <2>3. CASE \/ \E n \in 1..MaxDelta : \E delta \in [1..n -> Alphabet] : Push(delta)
             \/ Flush \/ UNCHANGED sanitizerVars
    <3>1. /\ hits' = hits /\ todo' = todo /\ merged' = merged
          /\ phase' = phase \/ phase' = "ended"
      BY <2>3 DEF Push, Flush, sanitizerVars
    <3>2. \A h : Beaten(h) => Beaten(h)'
      BY <3>1 DEF Beaten
    <3> QED
      BY <3>1, <3>2 DEF MergeInv, Apart, InOrder
  <2> QED
    BY <2>1, <2>2, <2>3 DEF SanitizerNext
<1> QED
  BY <1>1, MergingStarts, PTL DEF SanitizerSpec

(* Of finitely many hits there is one that none of the others beats.         *)
LEMMA NoneBeatsTheBest ==
    ASSUME NEW S \in SUBSET Hit, IsFiniteSet(S), S # {}
    PROVE  \E h \in S : \A g \in S : ~ Beats(g, h)
<1> DEFINE Better(h) == {g \in S : Beats(g, h)}
           N == {Cardinality(Better(h)) : h \in S}
<1>1. \A h \in S : IsFiniteSet(Better(h)) /\ Cardinality(Better(h)) \in Nat
  <2> SUFFICES ASSUME NEW h \in S
               PROVE  IsFiniteSet(Better(h)) /\ Cardinality(Better(h)) \in Nat
    OBVIOUS
  <2>1. IsFiniteSet(Better(h))
    BY FS_Subset
  <2> QED
    BY <2>1, FS_CardinalityType
<1>2. N \in SUBSET Nat /\ N # {}
  BY <1>1
<1>3. Min(N) \in N /\ \A n \in N : Min(N) <= n
  BY <1>2, Least
<1>4. PICK h \in S : \A g \in S : Cardinality(Better(h)) <= Cardinality(Better(g))
  BY <1>3
<1>5. ASSUME NEW g \in S, Beats(g, h) PROVE FALSE
  <2>1. Better(g) \subseteq Better(h) /\ g \in Better(h) /\ g \notin Better(g)
    BY <1>5, BeatsIsAnOrder
  <2> DEFINE B == Better(h)
             C == Better(g)
  <2>2. IsFiniteSet(B) /\ C \in SUBSET B /\ B # C
        /\ Cardinality(B) \in Nat /\ Cardinality(C) \in Nat
        /\ Cardinality(B) <= Cardinality(C)
    BY <1>1, <1>4, <2>1
  <2> HIDE DEF B, C
  <2>3. /\ Cardinality(C) <= Cardinality(B)
        /\ Cardinality(B) = Cardinality(C) => B = C
    BY <2>2, FS_Subset
  <2> QED
    BY <2>2, <2>3
<1> QED
  BY <1>5

(* Merging in two passes, each hit compared with the first that it overlaps  *)
(* (merge.go, processor.go): of hits that beat whatever else they overlap    *)
(* one is kept, for any text and any number of hits.  The best of them beats *)
(* all that it overlaps, and a hit is dropped for a better one only.         *)
THEOREM TheUnbeatenAreKept == SanitizerSpec => []MergeKeepsTheUnbeaten
<1>1. MergeInv => MergeKeepsTheUnbeaten
  <2> SUFFICES ASSUME MergeInv, phase = "applied"
               PROVE  /\ \A i, j \in DOMAIN merged : i # j => ~ Overlaps(merged[i], merged[j])
                      /\ \A group \in (SUBSET hits) \ {{}} :
                           Unbeaten(group) => group \intersect Kept # {}
    BY DEF MergeKeepsTheUnbeaten
  <2>1. \A i, j \in DOMAIN merged : i # j => ~ Overlaps(merged[i], merged[j])
    BY DEF MergeInv, Apart
  <2>2. \A h \in hits : h \in Kept \/ Beaten(h)
    <3>1. ToSet(todo) = {}
      BY DEF MergeInv, ToSet
    <3> QED
      BY <3>1 DEF MergeInv, Kept
  <2>3. ASSUME NEW group \in SUBSET hits, group # {}, Unbeaten(group)
        PROVE  group \intersect Kept # {}
    <3>1. hits \subseteq Hit /\ IsFiniteSet(group)
      BY FS_Subset DEF MergeInv, Found
    <3>2. PICK h \in group : \A g \in group : ~ Beats(g, h)
      BY <2>3, <3>1, NoneBeatsTheBest
    <3>3. ~ Beaten(h)
      <4> SUFFICES ASSUME NEW g \in hits \ {h}, Overlaps(h, g), Beats(g, h) PROVE FALSE
        BY DEF Beaten
      <4>1. g \notin group
        BY <3>2
      <4>2. Beats(h, g)
        BY <2>3, <4>1 DEF Unbeaten
      <4> QED
        BY <3>1, <4>2, BeatsIsAnOrder
    <3> QED
      BY <2>2, <3>2, <3>3
  <2> QED
    BY <2>1, <2>3
<1> QED
  BY <1>1, MergingInvariant, PTL

-----------------------------------------------------------------------------
(***************************************************************************)
(* Replacing a placeholder in a text.                                      *)
(***************************************************************************)
ScanStep(t, old, new, done, n) ==
    IF n = 0 THEN <<>>
    ELSE IF EndsAt(t, n, old) THEN done[n - Len(old)] \o new
    ELSE Append(done[n - 1], t[n])

Scan(t, old, new, done, m) == done = [n \in 0..m |-> ScanStep(t, old, new, done, n)]

LEMMA ScansExist ==
    ASSUME NEW t, NEW old, Len(old) \in Nat \ {0}, NEW new, NEW m \in Nat
    PROVE  \E done : Scan(t, old, new, done, m)
<1> DEFINE N == {n \in Nat : \E done : Scan(t, old, new, done, n)}
<1>1. 0 \in N
  <2> DEFINE done == [n \in 0..0 |-> <<>>]
  <2>1. \A n \in 0..0 : n = 0
    OBVIOUS
  <2>2. done = [n \in 0..0 |-> ScanStep(t, old, new, done, n)]
    BY <2>1 DEF ScanStep
  <2> HIDE DEF done
  <2> QED
    BY <2>2 DEF Scan
<1>2. ASSUME NEW n \in N PROVE n + 1 \in N
  <2>1. PICK done : Scan(t, old, new, done, n)
    BY <1>2
  <2> DEFINE longer == [i \in 0..(n + 1) |-> ScanStep(t, old, new, done, i)]
  <2>2. \A i \in 0..n : done[i] = ScanStep(t, old, new, done, i)
    BY <2>1 DEF Scan
  <2>3. \A i \in 0..(n + 1) : i # 0 =>
          /\ i - 1 \in 0..n
          /\ Len(old) <= i => i - Len(old) \in 0..n
    OBVIOUS
  <2>4. \A i \in 0..n : i \in 0..(n + 1)
    OBVIOUS
  <2>5. \A i \in 0..n : longer[i] = done[i]
    BY <2>2, <2>4
  <2>6. \A i \in 0..(n + 1) : ScanStep(t, old, new, done, i) = ScanStep(t, old, new, longer, i)
    <3> HIDE DEF longer
    <3> QED
      BY <2>3, <2>5 DEF ScanStep, EndsAt
  <2>7. longer = [i \in 0..(n + 1) |-> ScanStep(t, old, new, longer, i)]
    <3>1. \A i \in 0..(n + 1) : longer[i] = ScanStep(t, old, new, longer, i)
      BY <2>6
    <3>2. longer = [i \in 0..(n + 1) |-> longer[i]]
      OBVIOUS
    <3> HIDE DEF longer
    <3> QED
      BY <3>1, <3>2
  <2> HIDE DEF longer
  <2>8. Scan(t, old, new, longer, n + 1)
    BY <2>7 DEF Scan
  <2> QED
    BY <2>8
<1>3. N \in SUBSET Nat
  OBVIOUS
<1> HIDE DEF N
<1>4. ASSUME NEW n \in Nat, \A k \in Nat : k < n => k \in N PROVE n \in N
  <2>1. n = 0 \/ (n - 1 \in Nat /\ n - 1 < n /\ (n - 1) + 1 = n)
    OBVIOUS
  <2> QED
    BY <2>1, <1>1, <1>2, <1>4
<1>5. N = Nat
  BY <1>3, <1>4, AllNumbers
<1> QED
  BY <1>5 DEF N

\* Placeholders are three symbols long.
EndsAtThree(t, n, old) ==
    3 <= n /\ t[n - 2] = old[1] /\ t[n - 1] = old[2] /\ t[n] = old[3]

LEMMA EndsAtIs ==
    ASSUME NEW S, NEW t \in Seq(S), NEW old \in Seq(S), Len(old) = 3, NEW n \in 1..Len(t)
    PROVE  EndsAt(t, n, old) <=> EndsAtThree(t, n, old)
<1> SUFFICES ASSUME 3 <= n
             PROVE  SubSeq(t, n - 2, n) = old <=>
                      t[n - 2] = old[1] /\ t[n - 1] = old[2] /\ t[n] = old[3]
  <2>1. n - Len(old) + 1 = n - 2
    OBVIOUS
  <2> QED
    BY <2>1 DEF EndsAt, EndsAtThree
<1> DEFINE part == SubSeq(t, n - 2, n)
<1>1. \A i \in (n - 2)..n : i \in 1..Len(t)
  OBVIOUS
<1>2. /\ part \in Seq(S) /\ Len(part) = 3
      /\ \A i \in 1..3 : part[i] = t[(n - 2) + i - 1]
  <2>1. \A i \in (n - 2)..n : t[i] \in S
    BY <1>1
  <2> DEFINE m == n - 2
  <2>2. m \in Int /\ n \in Int /\ m <= n /\ n - m + 1 = 3
    OBVIOUS
  <2>3. \A i \in m..n : t[i] \in S
    BY <2>1
  <2> HIDE DEF m
  <2>4. /\ SubSeq(t, m, n) \in Seq(S)
        /\ Len(SubSeq(t, m, n)) = IF m <= n THEN n - m + 1 ELSE 0
        /\ \A i \in 1..(n - m + 1) : SubSeq(t, m, n)[i] = t[m + i - 1]
    BY <2>2, <2>3, SubSeqProperties
  <2> QED
    BY <2>2, <2>4 DEF m
<1>3. /\ 1 \in 1..3 /\ 2 \in 1..3 /\ 3 \in 1..3 /\ \A i \in 1..3 : i = 1 \/ i = 2 \/ i = 3
      /\ (n - 2) + 1 - 1 = n - 2 /\ (n - 2) + 2 - 1 = n - 1 /\ (n - 2) + 3 - 1 = n
  OBVIOUS
<1>4. part[1] = t[n - 2] /\ part[2] = t[n - 1] /\ part[3] = t[n]
  BY <1>2, <1>3
<1> HIDE DEF part
<1>5. part = old <=> part[1] = old[1] /\ part[2] = old[2] /\ part[3] = old[3]
  <2>1. ASSUME part[1] = old[1], part[2] = old[2], part[3] = old[3] PROVE part = old
    <3>1. \A i \in 1..Len(part) : part[i] = old[i]
      BY <1>2, <1>3, <2>1
    <3> QED
      BY <3>1, <1>2, SeqEqual
  <2> QED
    BY <2>1
<1> QED
  BY <1>4, <1>5 DEF part

\* What is replaced: a placeholder by what it stands for.
Replaces(S, old, new) == old \in Seq(S) /\ Len(old) = 3 /\ new \in Seq(S)

Substituted(t, old, new, done) ==
    /\ done[0] = <<>>
    /\ \A n \in 1..Len(t) :
         done[n] = IF EndsAtThree(t, n, old) THEN done[n - 3] \o new ELSE Append(done[n - 1], t[n])
    /\ Substitute(t, old, new) = done[Len(t)]

\* Replacing, without the function that it is defined by.
LEMMA SubstituteIs ==
    ASSUME NEW S, NEW t \in Seq(S), NEW old, NEW new, Replaces(S, old, new)
    PROVE  \E done : Substituted(t, old, new, done)
<1> DEFINE m == Len(t)
           done == CHOOSE f : Scan(t, old, new, f, m)
<1>1. m \in Nat /\ Len(old) = 3 /\ old \in Seq(S)
  BY DEF Replaces
<1>2. Scan(t, old, new, done, m)
  <2> HIDE DEF m
  <2>0. Len(old) \in Nat \ {0}
    BY <1>1
  <2>1. \E f : Scan(t, old, new, f, m)
    BY <1>1, <2>0, ScansExist
  <2> QED
    BY <2>1
<1>3. Substitute(t, old, new) = done[m]
  BY DEF Substitute, Scan, ScanStep
<1> HIDE DEF done
<1>4. \A n \in 0..m : done[n] = ScanStep(t, old, new, done, n)
  BY <1>2 DEF Scan
<1>5. \A n \in 1..m : EndsAt(t, n, old) <=> EndsAtThree(t, n, old)
  BY <1>1, EndsAtIs
<1>6. 0 \in 0..m /\ \A n \in 1..m : n \in 0..m /\ n # 0
  BY <1>1
<1>7. done[0] = <<>>
  BY <1>4, <1>6 DEF ScanStep
<1>8. \A n \in 1..m :
        done[n] = IF EndsAtThree(t, n, old) THEN done[n - 3] \o new ELSE Append(done[n - 1], t[n])
  BY <1>1, <1>4, <1>5, <1>6 DEF ScanStep
<1>9. Substituted(t, old, new, done)
  BY <1>3, <1>7, <1>8 DEF Substituted
<1> QED
  BY <1>9

LEMMA SubstitutedTyped ==
    ASSUME NEW S, NEW t \in Seq(S), NEW old, NEW new, Replaces(S, old, new),
           NEW done, Substituted(t, old, new, done)
    PROVE  \A n \in 0..Len(t) : done[n] \in Seq(S)
<1> DEFINE m == Len(t)
           N == {n \in Nat : n <= m => done[n] \in Seq(S)}
<1>1. m \in Nat /\ new \in Seq(S) /\ \A n \in 1..m : t[n] \in S
  BY ElementOfSeq DEF Replaces
<1>2. ASSUME NEW n \in Nat, \A k \in Nat : k < n => k \in N, n <= m
      PROVE  done[n] \in Seq(S)
  <2>1. CASE n = 0
    BY <2>1, EmptySeq DEF Substituted
  <2>2. CASE n # 0
    <3>1. /\ n \in 1..m /\ n - 1 \in Nat /\ n - 1 < n /\ n - 1 <= m
          /\ 3 <= n => n - 3 \in Nat /\ n - 3 < n /\ n - 3 <= m
      BY <1>1, <1>2, <2>2
    <3>2. done[n - 1] \in Seq(S) /\ (3 <= n => done[n - 3] \in Seq(S))
      BY <3>1, <1>2
    <3>3. done[n] = IF EndsAtThree(t, n, old) THEN done[n - 3] \o new ELSE Append(done[n - 1], t[n])
      BY <3>1 DEF Substituted
    <3>4. Append(done[n - 1], t[n]) \in Seq(S) /\ (3 <= n => done[n - 3] \o new \in Seq(S))
      BY <1>1, <3>1, <3>2, AppendProperties, ConcatProperties
    <3> QED
      BY <3>3, <3>4 DEF EndsAtThree
  <2> QED
    BY <2>1, <2>2
<1>3. N \in SUBSET Nat /\ \A n \in Nat : (\A k \in Nat : k < n => k \in N) => n \in N
  BY <1>2
<1> HIDE DEF N
<1>4. N = Nat
  BY <1>3, AllNumbers
<1> QED
  BY <1>1, <1>4 DEF N

LEMMA SubstituteTyped ==
    ASSUME NEW S, NEW t \in Seq(S), NEW old, NEW new, Replaces(S, old, new)
    PROVE  Substitute(t, old, new) \in Seq(S)
<1>1. PICK done : Substituted(t, old, new, done)
  BY SubstituteIs
<1>2. Len(t) \in 0..Len(t)
  OBVIOUS
<1> QED
  BY <1>1, <1>2, SubstitutedTyped DEF Substituted

\* A text in which a placeholder does not occur stays as it is.
LEMMA NothingToReplace ==
    ASSUME NEW S, NEW t \in Seq(S), NEW old, NEW new, Replaces(S, old, new),
           \A n \in 1..Len(t) : ~ EndsAtThree(t, n, old)
    PROVE  Substitute(t, old, new) = t
<1>1. PICK done : Substituted(t, old, new, done)
  BY SubstituteIs
<1> DEFINE m == Len(t)
           N == {n \in Nat : n <= m => done[n] = SubSeq(t, 1, n)}
<1>2. m \in Nat
  OBVIOUS
<1>3. ASSUME NEW n \in Nat, \A k \in Nat : k < n => k \in N, n <= m
      PROVE  done[n] = SubSeq(t, 1, n)
  <2>1. CASE n = 0
    <3>1. SubSeq(t, 1, 0) = <<>>
      BY SubSeqEmpty
    <3> QED
      BY <1>1, <2>1, <3>1 DEF Substituted
  <2>2. CASE n # 0
    <3>1. n \in 1..m /\ n - 1 \in Nat /\ n - 1 < n /\ n - 1 <= m /\ 1 \in 1..m /\ n \in 1..m
      BY <1>2, <1>3, <2>2
    <3>2. done[n] = Append(done[n - 1], t[n]) /\ done[n - 1] = SubSeq(t, 1, n - 1)
      BY <1>1, <1>3, <3>1 DEF Substituted
    <3>3. SubSeq(t, 1, n) = SubSeq(t, 1, n - 1) \o <<t[n]>>
      BY <3>1, SubSeqRecursiveSecond
    <3>4. SubSeq(t, 1, n - 1) \in Seq(S) /\ t[n] \in S
      <4>1. \A i \in 1..(n - 1) : t[i] \in S
        BY <3>1, ElementOfSeq
      <4>2. 1 \in Int /\ n - 1 \in Int
        OBVIOUS
      <4> QED
        BY <3>1, <4>1, <4>2, SubSeqProperties, ElementOfSeq
    <3> QED
      BY <3>2, <3>3, <3>4, AppendIsConcat
  <2> QED
    BY <2>1, <2>2
<1>4. N \in SUBSET Nat /\ \A n \in Nat : (\A k \in Nat : k < n => k \in N) => n \in N
  BY <1>3
<1> HIDE DEF N
<1>5. N = Nat
  BY <1>4, AllNumbers
<1>6. done[m] = SubSeq(t, 1, m)
  BY <1>2, <1>5 DEF N
<1> QED
  BY <1>1, <1>6, SubSeqFull DEF Substituted

\* No placeholder lies across the seam of a and b.
Seamless(a, b, old) ==
    \A n \in 1..Len(b) : EndsAtThree(a \o b, Len(a) + n, old) => EndsAtThree(b, n, old)

\* Two texts without a placeholder across their seam are replaced one by one.
LEMMA SubstituteJoins ==
    ASSUME NEW S, NEW a \in Seq(S), NEW b \in Seq(S), NEW old, NEW new, Replaces(S, old, new),
           Seamless(a, b, old)
    PROVE  Substitute(a \o b, old, new) = Substitute(a, old, new) \o Substitute(b, old, new)
<1> DEFINE t == a \o b
           k == Len(a)
           m == Len(b)
<1>1. /\ k \in Nat /\ m \in Nat /\ t \in Seq(S) /\ Len(t) = k + m
      /\ \A i \in 1..k : t[i] = a[i] /\ i \in 1..(k + m)
      /\ \A i \in 1..m : t[k + i] = b[i] /\ k + i \in 1..(k + m)
  <2>1. k \in Nat /\ m \in Nat
    OBVIOUS
  <2>2. /\ t \in Seq(S) /\ Len(t) = k + m
        /\ \A i \in 1..(k + m) : t[i] = IF i <= k THEN a[i] ELSE b[i - k]
    BY ConcatProperties
  <2> HIDE DEF k, m, t
  <2>3. \A i \in 1..k : i \in 1..(k + m) /\ i <= k
    BY <2>1
  <2>4. \A i \in 1..m : k + i \in 1..(k + m) /\ ~ (k + i <= k) /\ (k + i) - k = i
    BY <2>1
  <2> QED
    BY <2>1, <2>2, <2>3, <2>4
<1>2. PICK doneA : Substituted(a, old, new, doneA)
  BY SubstituteIs
<1>3. PICK doneB : Substituted(b, old, new, doneB)
  BY SubstituteIs
<1>4. PICK doneT : Substituted(t, old, new, doneT)
  BY <1>1, SubstituteIs
<1> HIDE DEF t
<1>5. \A n \in 0..k : doneA[n] \in Seq(S)
  BY <1>2, SubstitutedTyped
<1>6. \A n \in 0..m : doneB[n] \in Seq(S)
  BY <1>3, SubstitutedTyped
<1>7. \A n \in 1..k : EndsAtThree(t, n, old) <=> EndsAtThree(a, n, old)
  <2> SUFFICES ASSUME NEW n \in 1..k, 3 <= n
               PROVE  t[n - 2] = a[n - 2] /\ t[n - 1] = a[n - 1] /\ t[n] = a[n]
    BY DEF EndsAtThree
  <2>1. n - 2 \in 1..k /\ n - 1 \in 1..k
    BY <1>1
  <2> QED
    BY <1>1, <2>1
<1>8. \A n \in 1..m : EndsAtThree(t, k + n, old) <=> EndsAtThree(b, n, old)
  <2> SUFFICES ASSUME NEW n \in 1..m, EndsAtThree(b, n, old)
               PROVE  EndsAtThree(t, k + n, old)
    BY DEF Seamless, t
  <2>1. /\ 3 <= n /\ n - 2 \in 1..m /\ n - 1 \in 1..m /\ 3 <= k + n
        /\ (k + n) - 2 = k + (n - 2) /\ (k + n) - 1 = k + (n - 1)
    BY <1>1 DEF EndsAtThree
  <2> QED
    BY <1>1, <2>1 DEF EndsAtThree
<1>9. \A n \in 0..k : doneT[n] = doneA[n]
  <2> DEFINE N == {n \in Nat : n <= k => doneT[n] = doneA[n]}
  <2>1. ASSUME NEW n \in Nat, \A j \in Nat : j < n => j \in N, n <= k
        PROVE  doneT[n] = doneA[n]
    <3>1. CASE n = 0
      BY <1>2, <1>4, <3>1 DEF Substituted
    <3>2. CASE n # 0
      <4>1. /\ n \in 1..k /\ n \in 1..(k + m) /\ n - 1 \in Nat /\ n - 1 < n /\ n - 1 <= k
            /\ 3 <= n => n - 3 \in Nat /\ n - 3 < n /\ n - 3 <= k
        BY <1>1, <2>1, <3>2
      <4>2. doneT[n - 1] = doneA[n - 1] /\ (3 <= n => doneT[n - 3] = doneA[n - 3])
        BY <4>1, <2>1
      <4>3. doneA[n] = IF EndsAtThree(a, n, old) THEN doneA[n - 3] \o new
                       ELSE Append(doneA[n - 1], a[n])
        BY <4>1, <1>2 DEF Substituted
      <4>4. doneT[n] = IF EndsAtThree(t, n, old) THEN doneT[n - 3] \o new
                       ELSE Append(doneT[n - 1], t[n])
        BY <4>1, <1>1, <1>4 DEF Substituted
      <4>5. EndsAtThree(t, n, old) => 3 <= n
        BY DEF EndsAtThree
      <4>6. t[n] = a[n] /\ (EndsAtThree(t, n, old) <=> EndsAtThree(a, n, old))
        BY <4>1, <1>1, <1>7
      <4> QED
        BY <4>2, <4>3, <4>4, <4>5, <4>6
    <3> QED
      BY <3>1, <3>2
  <2>2. N \in SUBSET Nat /\ \A n \in Nat : (\A j \in Nat : j < n => j \in N) => n \in N
    BY <2>1
  <2> HIDE DEF N
  <2>3. N = Nat
    BY <2>2, AllNumbers
  <2> QED
    BY <1>1, <2>3 DEF N
<1>10. \A n \in 0..m : doneT[k + n] = doneA[k] \o doneB[n]
  <2> DEFINE N == {n \in Nat : n <= m => doneT[k + n] = doneA[k] \o doneB[n]}
  <2>0. doneA[k] \in Seq(S) /\ new \in Seq(S)
    <3>1. k \in 0..k
      BY <1>1
    <3> QED
      BY <1>5, <3>1 DEF Replaces
  <2>9. \A x, y \in Seq(S) : (doneA[k] \o x) \o y = doneA[k] \o (x \o y)
    <3> DEFINE z == doneA[k]
    <3>1. z \in Seq(S)
      BY <2>0
    <3> HIDE DEF z
    <3>2. \A x, y \in Seq(S) : (z \o x) \o y = z \o (x \o y)
      <4> SUFFICES ASSUME NEW x \in Seq(S), NEW y \in Seq(S)
                   PROVE  (z \o x) \o y = z \o (x \o y)
        OBVIOUS
      <4> QED
        BY <3>1, ConcatAssociative, SMTT(60)
    <3> QED
      BY <3>2 DEF z
  <2>1. ASSUME NEW n \in Nat, \A j \in Nat : j < n => j \in N, n <= m
        PROVE  doneT[k + n] = doneA[k] \o doneB[n]
    <3>1. CASE n = 0
      <4>1. k + n = k /\ k \in 0..k
        BY <1>1, <3>1
      <4>2. doneB[n] = <<>>
        BY <1>3, <3>1 DEF Substituted
      <4> QED
        BY <4>1, <4>2, <1>9, <2>0, ConcatEmptySeq
    <3>2. CASE n # 0
      <4>1. /\ n \in 1..m /\ k + n \in 1..(k + m) /\ n - 1 \in Nat /\ n - 1 < n /\ n - 1 <= m
            /\ n - 1 \in 0..m /\ (k + n) - 1 = k + (n - 1)
            /\ 3 <= n => /\ n - 3 \in Nat /\ n - 3 < n /\ n - 3 <= m /\ n - 3 \in 0..m
                         /\ (k + n) - 3 = k + (n - 3)
        BY <1>1, <2>1, <3>2
      <4>2. /\ doneT[k + (n - 1)] = doneA[k] \o doneB[n - 1]
            /\ 3 <= n => doneT[k + (n - 3)] = doneA[k] \o doneB[n - 3]
        BY <4>1, <2>1
      <4>3. doneB[n] = IF EndsAtThree(b, n, old) THEN doneB[n - 3] \o new
                       ELSE Append(doneB[n - 1], b[n])
        BY <4>1, <1>3 DEF Substituted
      <4>4. doneT[k + n] = IF EndsAtThree(t, k + n, old) THEN doneT[(k + n) - 3] \o new
                           ELSE Append(doneT[(k + n) - 1], t[k + n])
        BY <4>1, <1>1, <1>4 DEF Substituted
      <4>5. t[k + n] = b[n] /\ (EndsAtThree(t, k + n, old) <=> EndsAtThree(b, n, old))
        BY <4>1, <1>1, <1>8
      <4>6. CASE EndsAtThree(b, n, old)
        <5>1. 3 <= n
          BY <4>6 DEF EndsAtThree
        <5>2. doneT[k + n] = (doneA[k] \o doneB[n - 3]) \o new
          BY <5>1, <4>1, <4>2, <4>4, <4>5, <4>6
        <5>3. doneB[n - 3] \in Seq(S)
          BY <5>1, <4>1, <1>6
        <5>4. (doneA[k] \o doneB[n - 3]) \o new = doneA[k] \o (doneB[n - 3] \o new)
          BY <5>3, <2>0, <2>9
        <5> QED
          BY <5>2, <5>4, <4>3, <4>6
      <4>7. CASE ~ EndsAtThree(b, n, old)
        <5>1. doneT[k + n] = Append(doneA[k] \o doneB[n - 1], b[n])
          BY <4>1, <4>2, <4>4, <4>5, <4>7
        <5>2. doneB[n - 1] \in Seq(S) /\ b[n] \in S /\ <<b[n]>> \in Seq(S)
          BY <4>1, <1>6, ElementOfSeq
        <5>3. doneA[k] \o doneB[n - 1] \in Seq(S)
          BY <5>2, <2>0, ConcatProperties
        <5>4. Append(doneA[k] \o doneB[n - 1], b[n]) = (doneA[k] \o doneB[n - 1]) \o <<b[n]>>
          BY <5>2, <5>3, AppendIsConcat
        <5>5. (doneA[k] \o doneB[n - 1]) \o <<b[n]>> = doneA[k] \o (doneB[n - 1] \o <<b[n]>>)
          BY <5>2, <2>9
        <5>6. Append(doneB[n - 1], b[n]) = doneB[n - 1] \o <<b[n]>>
          BY <5>2, AppendIsConcat
        <5> QED
          BY <5>1, <5>4, <5>5, <5>6, <4>3, <4>7
      <4> QED
        BY <4>6, <4>7
    <3> QED
      BY <3>1, <3>2
  <2>2. N \in SUBSET Nat /\ \A n \in Nat : (\A j \in Nat : j < n => j \in N) => n \in N
    BY <2>1
  <2> HIDE DEF N
  <2>3. N = Nat
    BY <2>2, AllNumbers
  <2>4. \A n \in 0..m : n \in Nat /\ n <= m
    BY <1>1
  <2>5. \A n \in Nat : n <= m => doneT[k + n] = doneA[k] \o doneB[n]
    BY <2>3 DEF N
  <2> QED
    BY <2>4, <2>5
<1>11. doneT[k + m] = doneA[k] \o doneB[m]
  <2>1. m \in 0..m
    BY <1>1
  <2> QED
    BY <2>1, <1>10
<1> QED
  BY <1>1, <1>2, <1>3, <1>4, <1>11 DEF Substituted, t

-----------------------------------------------------------------------------
(***************************************************************************)
(* Restoring: one placeholder after the other.                             *)
(***************************************************************************)
RestoreStep(maps, t, done, i) ==
    IF i = 0 THEN t ELSE Substitute(done[i - 1], maps[i].placeholder, maps[i].original)

RestoreSteps(maps, t, done, m) == done = [i \in 0..m |-> RestoreStep(maps, t, done, i)]

LEMMA RestoreStepsExist ==
    ASSUME NEW maps, NEW t, NEW m \in Nat
    PROVE  \E done : RestoreSteps(maps, t, done, m)
<1> DEFINE N == {n \in Nat : \E done : RestoreSteps(maps, t, done, n)}
<1>1. 0 \in N
  <2> DEFINE done == [n \in 0..0 |-> t]
  <2>1. \A n \in 0..0 : n = 0
    OBVIOUS
  <2>2. done = [n \in 0..0 |-> RestoreStep(maps, t, done, n)]
    BY <2>1 DEF RestoreStep
  <2> HIDE DEF done
  <2> QED
    BY <2>2 DEF RestoreSteps
<1>2. ASSUME NEW n \in N PROVE n + 1 \in N
  <2>1. PICK done : RestoreSteps(maps, t, done, n)
    BY <1>2
  <2> DEFINE longer == [i \in 0..(n + 1) |-> RestoreStep(maps, t, done, i)]
  <2>2. \A i \in 0..n : done[i] = RestoreStep(maps, t, done, i)
    BY <2>1 DEF RestoreSteps
  <2>3. \A i \in 0..(n + 1) : i # 0 => i - 1 \in 0..n
    OBVIOUS
  <2>4. \A i \in 0..n : i \in 0..(n + 1)
    OBVIOUS
  <2>5. \A i \in 0..n : longer[i] = done[i]
    BY <2>2, <2>4
  <2>6. \A i \in 0..(n + 1) : RestoreStep(maps, t, done, i) = RestoreStep(maps, t, longer, i)
    <3> HIDE DEF longer
    <3> QED
      BY <2>3, <2>5 DEF RestoreStep
  <2>7. longer = [i \in 0..(n + 1) |-> RestoreStep(maps, t, longer, i)]
    <3>1. \A i \in 0..(n + 1) : longer[i] = RestoreStep(maps, t, longer, i)
      BY <2>6
    <3>2. longer = [i \in 0..(n + 1) |-> longer[i]]
      OBVIOUS
    <3> HIDE DEF longer
    <3> QED
      BY <3>1, <3>2
  <2> HIDE DEF longer
  <2>8. RestoreSteps(maps, t, longer, n + 1)
    BY <2>7 DEF RestoreSteps
  <2> QED
    BY <2>8
<1>3. N \in SUBSET Nat
  OBVIOUS
<1> HIDE DEF N
<1>4. ASSUME NEW n \in Nat, \A k \in Nat : k < n => k \in N PROVE n \in N
  <2>1. n = 0 \/ (n - 1 \in Nat /\ n - 1 < n /\ (n - 1) + 1 = n)
    OBVIOUS
  <2> QED
    BY <2>1, <1>1, <1>2, <1>4
<1>5. N = Nat
  BY <1>3, <1>4, AllNumbers
<1> QED
  BY <1>5 DEF N

ReplacesAll(S, maps) ==
    /\ Len(maps) \in Nat
    /\ \A i \in 1..Len(maps) : Replaces(S, maps[i].placeholder, maps[i].original)

Restored(maps, t, done) ==
    /\ done[0] = t
    /\ \A i \in 1..Len(maps) :
         done[i] = Substitute(done[i - 1], maps[i].placeholder, maps[i].original)
    /\ Restore(maps, t) = done[Len(maps)]

LEMMA RestoreIs ==
    ASSUME NEW maps, Len(maps) \in Nat, NEW t
    PROVE  \E done : Restored(maps, t, done)
<1> DEFINE m == Len(maps)
           done == CHOOSE f : RestoreSteps(maps, t, f, m)
<1>1. RestoreSteps(maps, t, done, m)
  <2> HIDE DEF m
  <2>1. m \in Nat
    BY DEF m
  <2>2. \E f : RestoreSteps(maps, t, f, m)
    BY <2>1, RestoreStepsExist
  <2> QED
    BY <2>2
<1>2. Restore(maps, t) = done[m]
  BY DEF Restore, RestoreSteps, RestoreStep
<1> HIDE DEF done
<1>3. \A i \in 0..m : done[i] = RestoreStep(maps, t, done, i)
  BY <1>1 DEF RestoreSteps
<1>4. 0 \in 0..m /\ \A i \in 1..m : i \in 0..m /\ i # 0
  OBVIOUS
<1>5. Restored(maps, t, done)
  BY <1>2, <1>3, <1>4 DEF Restored, RestoreStep
<1> QED
  BY <1>5

LEMMA RestoredTyped ==
    ASSUME NEW S, NEW maps, ReplacesAll(S, maps), NEW t \in Seq(S), NEW done, Restored(maps, t, done)
    PROVE  \A i \in 0..Len(maps) : done[i] \in Seq(S)
<1> DEFINE m == Len(maps)
           N == {n \in Nat : n <= m => done[n] \in Seq(S)}
<1>1. m \in Nat
  BY DEF ReplacesAll
<1>2. ASSUME NEW n \in Nat, \A k \in Nat : k < n => k \in N, n <= m
      PROVE  done[n] \in Seq(S)
  <2>1. CASE n = 0
    BY <2>1 DEF Restored
  <2>2. CASE n # 0
    <3>1. n \in 1..m /\ n - 1 \in Nat /\ n - 1 < n /\ n - 1 <= m
      BY <1>1, <1>2, <2>2
    <3>2. done[n - 1] \in Seq(S)
      BY <3>1, <1>2
    <3>3. done[n] = Substitute(done[n - 1], maps[n].placeholder, maps[n].original)
      BY <3>1 DEF Restored
    <3>4. Replaces(S, maps[n].placeholder, maps[n].original)
      BY <3>1 DEF ReplacesAll
    <3> QED
      BY <3>2, <3>3, <3>4, SubstituteTyped
  <2> QED
    BY <2>1, <2>2
<1>3. N \in SUBSET Nat /\ \A n \in Nat : (\A k \in Nat : k < n => k \in N) => n \in N
  BY <1>2
<1> HIDE DEF N
<1>4. N = Nat
  BY <1>3, AllNumbers
<1> QED
  BY <1>1, <1>4 DEF N

LEMMA RestoreTyped ==
    ASSUME NEW S, NEW maps, ReplacesAll(S, maps), NEW t \in Seq(S)
    PROVE  Restore(maps, t) \in Seq(S)
<1>1. Len(maps) \in Nat /\ Len(maps) \in 0..Len(maps)
  BY DEF ReplacesAll
<1>2. PICK done : Restored(maps, t, done)
  BY <1>1, RestoreIs
<1> QED
  BY <1>1, <1>2, RestoredTyped DEF Restored

(***************************************************************************)
(* A text is restored in pieces if no placeholder lies across the seam,    *)
(* whichever placeholders have been replaced before.  Cuts is a set of     *)
(* such pairs of pieces that replacing does not lead out of.               *)
(***************************************************************************)
KeepsCuts(S, maps, Cuts) ==
    \A x, y \in Seq(S) : <<x, y>> \in Cuts =>
      \A i \in 1..Len(maps) :
        /\ Seamless(x, y, maps[i].placeholder)
        /\ <<Substitute(x, maps[i].placeholder, maps[i].original),
             Substitute(y, maps[i].placeholder, maps[i].original)>> \in Cuts

LEMMA RestoreJoins ==
    ASSUME NEW S, NEW maps, ReplacesAll(S, maps), NEW Cuts, KeepsCuts(S, maps, Cuts),
           NEW a \in Seq(S), NEW b \in Seq(S), <<a, b>> \in Cuts
    PROVE  Restore(maps, a \o b) = Restore(maps, a) \o Restore(maps, b)
<1>1. Len(maps) \in Nat
  BY DEF ReplacesAll
<1>2. PICK doneA : Restored(maps, a, doneA)
  BY <1>1, RestoreIs
<1>3. PICK doneB : Restored(maps, b, doneB)
  BY <1>1, RestoreIs
<1>4. PICK doneT : Restored(maps, a \o b, doneT)
  BY <1>1, RestoreIs
<1> DEFINE m == Len(maps)
           N == {n \in Nat : n <= m => doneT[n] = doneA[n] \o doneB[n] /\ <<doneA[n], doneB[n]>> \in Cuts}
<1>5. /\ \A i \in 0..m : doneA[i] \in Seq(S)
      /\ \A i \in 0..m : doneB[i] \in Seq(S)
  BY <1>2, <1>3, RestoredTyped
<1>6. ASSUME NEW n \in Nat, \A k \in Nat : k < n => k \in N, n <= m
      PROVE  doneT[n] = doneA[n] \o doneB[n] /\ <<doneA[n], doneB[n]>> \in Cuts
  <2>1. CASE n = 0
    BY <2>1, <1>2, <1>3, <1>4 DEF Restored
  <2>2. CASE n # 0
    <3>1. n \in 1..m /\ n - 1 \in Nat /\ n - 1 < n /\ n - 1 <= m /\ n - 1 \in 0..m
      BY <1>1, <1>6, <2>2
    <3> DEFINE old == maps[n].placeholder
               new == maps[n].original
               x == doneA[n - 1]
               y == doneB[n - 1]
    <3>2. x \in Seq(S) /\ y \in Seq(S) /\ doneT[n - 1] = x \o y /\ <<x, y>> \in Cuts
      BY <3>1, <1>5, <1>6
    <3>3. /\ doneA[n] = Substitute(x, old, new) /\ doneB[n] = Substitute(y, old, new)
          /\ doneT[n] = Substitute(doneT[n - 1], old, new)
      BY <3>1, <1>2, <1>3, <1>4 DEF Restored
    <3>4. Replaces(S, old, new)
      BY <3>1 DEF ReplacesAll
    <3>5. Seamless(x, y, old) /\ <<Substitute(x, old, new), Substitute(y, old, new)>> \in Cuts
      BY <3>1, <3>2 DEF KeepsCuts
    <3> HIDE DEF x, y, old, new
    <3>6. Substitute(x \o y, old, new) = Substitute(x, old, new) \o Substitute(y, old, new)
      BY <3>2, <3>4, <3>5, SubstituteJoins
    <3> QED
      BY <3>2, <3>3, <3>5, <3>6
  <2> QED
    BY <2>1, <2>2
<1>7. N \in SUBSET Nat /\ \A n \in Nat : (\A k \in Nat : k < n => k \in N) => n \in N
  BY <1>6
<1> HIDE DEF N
<1>8. N = Nat
  BY <1>7, AllNumbers
<1>9. doneT[m] = doneA[m] \o doneB[m]
  <2>1. m \in Nat /\ m <= m
    BY <1>1
  <2>2. \A n \in Nat : n <= m => doneT[n] = doneA[n] \o doneB[n]
    BY <1>8 DEF N
  <2> QED
    BY <2>1, <2>2
<1> QED
  BY <1>2, <1>3, <1>4, <1>9 DEF Restored

LEMMA RestoreNothing ==
    ASSUME NEW S, NEW maps, ReplacesAll(S, maps)
    PROVE  Restore(maps, <<>>) = <<>>
<1>1. Len(maps) \in Nat
  BY DEF ReplacesAll
<1>2. PICK done : Restored(maps, <<>>, done)
  BY <1>1, RestoreIs
<1> DEFINE m == Len(maps)
           N == {n \in Nat : n <= m => done[n] = <<>>}
<1>3. ASSUME NEW n \in Nat, \A k \in Nat : k < n => k \in N, n <= m
      PROVE  done[n] = <<>>
  <2>1. CASE n = 0
    BY <2>1, <1>2 DEF Restored
  <2>2. CASE n # 0
    <3>1. n \in 1..m /\ n - 1 \in Nat /\ n - 1 < n /\ n - 1 <= m
      BY <1>1, <1>3, <2>2
    <3>2. done[n] = Substitute(<<>>, maps[n].placeholder, maps[n].original)
      BY <3>1, <1>2, <1>3 DEF Restored
    <3>3. Replaces(S, maps[n].placeholder, maps[n].original)
      BY <3>1 DEF ReplacesAll
    <3> DEFINE none == <<>>
    <3>4. none \in Seq(S) /\ Len(none) = 0
      BY EmptySeq
    <3>5. done[n] = Substitute(none, maps[n].placeholder, maps[n].original)
      BY <3>2
    <3> HIDE DEF none
    <3>6. \A j \in 1..Len(none) : ~ EndsAtThree(none, j, maps[n].placeholder)
      BY <3>4
    <3>7. Substitute(none, maps[n].placeholder, maps[n].original) = none
      BY <3>3, <3>4, <3>6, NothingToReplace
    <3> QED
      BY <3>5, <3>7 DEF none
  <2> QED
    BY <2>1, <2>2
<1>4. N \in SUBSET Nat /\ \A n \in Nat : (\A k \in Nat : k < n => k \in N) => n \in N
  BY <1>3
<1> HIDE DEF N
<1>5. N = Nat
  BY <1>4, AllNumbers
<1>6. m \in Nat /\ m <= m
  BY <1>1
<1>7. \A n \in Nat : n <= m => done[n] = <<>>
  BY <1>5 DEF N
<1> QED
  BY <1>2, <1>6, <1>7 DEF Restored

-----------------------------------------------------------------------------
(***************************************************************************)
(* Where an answer is cut.  What is emitted does not end where a           *)
(* placeholder begins, or what comes next does not begin where one goes    *)
(* on; replacing placeholders by characters keeps it so.                   *)
(***************************************************************************)
Numbers == Types \X Nat

\* A placeholder does not begin at the end of s.
Shut(s) ==
    /\ Len(s) >= 1 => s[Len(s)] # Start
    /\ Len(s) >= 2 => ~ (s[Len(s) - 1] = Start /\ s[Len(s)] \in Numbers)

\* A placeholder does not go on at the beginning of s.
Fresh(s) == Len(s) >= 1 => s[1] # End /\ s[1] \notin Numbers

\* The seams at which an answer is cut.
Cuts == {c \in Seq(Symbols) \X Seq(Symbols) : Shut(c[1]) \/ Fresh(c[2])}

\* A placeholder and the characters that it stands for.
Stands(old, new) ==
    /\ \E type \in Types, n \in Nat : old = Placeholder(type, n)
    /\ new \in Seq(Characters) /\ new # <<>>

LEMMA Symbolic ==
    /\ Start \in Symbols /\ End \in Symbols /\ Numbers \subseteq Symbols /\ Characters \subseteq Symbols
    /\ Start # End /\ Start \notin Numbers /\ End \notin Numbers
    /\ \A c \in Characters : c # Start /\ c # End /\ c \notin Numbers
<1>1. Start # End
  BY DEF Start, End
<1>2. Start \notin Numbers /\ End \notin Numbers
  <2>1. \A p \in Numbers : Len(p) = 2
    BY DEF Numbers
  <2>2. Len(Start) = 1 /\ Len(End) = 1
    BY DEF Start, End
  <2> QED
    BY <2>1, <2>2
<1> QED
  BY <1>1, <1>2, SymbolsAssumption DEF Symbols, Numbers

LEMMA StandsReplaces ==
    ASSUME NEW old, NEW new, Stands(old, new)
    PROVE  /\ Replaces(Symbols, old, new)
           /\ old[1] = Start /\ old[2] \in Numbers /\ old[3] = End
           /\ Len(new) \in Nat /\ Len(new) >= 1 /\ \A i \in 1..Len(new) : new[i] \in Characters
<1>1. PICK type \in Types, n \in Nat : old = Placeholder(type, n)
  BY DEF Stands
<1>2. <<type, n>> \in Numbers
  BY DEF Numbers
<1>3. old = <<Start, <<type, n>>, End>>
  BY <1>1 DEF Placeholder
<1> DEFINE k == <<type, n>>
<1>4. k \in Numbers /\ k \in Symbols /\ Start \in Symbols /\ End \in Symbols
  BY <1>2, Symbolic
<1>5. old = <<Start, k, End>>
  BY <1>3
<1> HIDE DEF k
<1>6. old \in Seq(Symbols) /\ Len(old) = 3 /\ old[1] = Start /\ old[2] = k /\ old[3] = End
  BY <1>4, <1>5
<1>7. new \in Seq(Characters) /\ new # <<>>
  BY DEF Stands
<1>8. Len(new) \in Nat /\ Len(new) >= 1 /\ \A i \in 1..Len(new) : new[i] \in Characters
  <2>1. Len(new) \in Nat /\ Len(new) # 0
    BY <1>7, EmptySeq, LenProperties
  <2> QED
    BY <1>7, <2>1, ElementOfSeq
<1>9. new \in Seq(Symbols)
  <2>1. \A i \in 1..Len(new) : new[i] \in Symbols
    BY <1>8, Symbolic
  <2>2. new = [i \in 1..Len(new) |-> new[i]]
    BY <1>7, LenProperties
  <2> QED
    BY <1>8, <2>1, <2>2, IsASeq
<1> QED
  BY <1>4, <1>6, <1>8, <1>9 DEF Replaces

\* No placeholder lies across such a seam,
LEMMA CutsAreSeamless ==
    ASSUME NEW x, NEW y, <<x, y>> \in Cuts,
           NEW old, old[1] = Start, old[2] \in Numbers, old[3] = End
    PROVE  Seamless(x, y, old)
<1>1. x \in Seq(Symbols) /\ y \in Seq(Symbols) /\ (Shut(x) \/ Fresh(y))
  BY DEF Cuts
<1>2. old[1] = Start /\ old[2] \in Numbers /\ old[3] = End
  OBVIOUS
<1> DEFINE k == Len(x)
           m == Len(y)
           t == x \o y
<1>3. k \in Nat /\ m \in Nat
  BY <1>1
<1>4. \A i \in 1..(k + m) : t[i] = IF i <= k THEN x[i] ELSE y[i - k]
  BY <1>1, ConcatProperties
<1> SUFFICES ASSUME NEW n \in 1..m, EndsAtThree(t, k + n, old)
             PROVE  EndsAtThree(y, n, old)
  BY DEF Seamless
<1>5. /\ 3 <= k + n /\ t[(k + n) - 2] \in {Start} /\ t[(k + n) - 1] \in Numbers /\ t[k + n] = End
      /\ t[(k + n) - 2] = old[1] /\ t[(k + n) - 1] = old[2] /\ t[k + n] = old[3]
  BY <1>2 DEF EndsAtThree
<1> HIDE DEF t
<1>6. CASE n = 1
  <2>1. /\ k + n = k + 1 /\ (k + n) - 1 = k /\ (k + n) - 2 = k - 1 /\ k >= 2 /\ m >= 1
        /\ k \in 1..(k + m) /\ k - 1 \in 1..(k + m) /\ k + 1 \in 1..(k + m) /\ (k + 1) - k = 1
        /\ ~ (k + 1 <= k) /\ k - 1 <= k /\ k <= k
    BY <1>3, <1>5, <1>6
  <2>2. x[k - 1] = Start /\ x[k] \in Numbers /\ y[1] = End
    BY <1>4, <1>5, <2>1
  <2> QED
    BY <1>1, <2>1, <2>2 DEF Shut, Fresh
<1>7. CASE n = 2
  <2>1. /\ (k + n) - 1 = k + 1 /\ (k + n) - 2 = k /\ k >= 1 /\ m >= 1
        /\ k \in 1..(k + m) /\ k + 1 \in 1..(k + m) /\ (k + 1) - k = 1
        /\ ~ (k + 1 <= k) /\ k <= k
    BY <1>3, <1>5, <1>7
  <2>2. x[k] = Start /\ y[1] \in Numbers
    BY <1>4, <1>5, <2>1
  <2> QED
    BY <1>1, <2>1, <2>2 DEF Shut, Fresh
<1>8. CASE n >= 3
  <2>1. \A j \in {0, 1, 2} : /\ (k + n) - j \in 1..(k + m) /\ ~ ((k + n) - j <= k)
                             /\ ((k + n) - j) - k = n - j
    BY <1>3, <1>8
  <2>2. \A j \in {0, 1, 2} : t[(k + n) - j] = y[n - j]
    BY <1>4, <2>1
  <2>3. (k + n) - 0 = k + n /\ n - 0 = n
    BY <1>3
  <2> QED
    BY <1>5, <1>8, <2>2, <2>3 DEF EndsAtThree
<1> QED
  BY <1>6, <1>7, <1>8

\* The first symbol of a text in which placeholders have been replaced.
LEMMA StaysFresh ==
    ASSUME NEW y \in Seq(Symbols), Fresh(y), NEW old, NEW new, Stands(old, new)
    PROVE  Fresh(Substitute(y, old, new))
<1>1. Replaces(Symbols, old, new)
  BY StandsReplaces
<1>2. PICK done : Substituted(y, old, new, done)
  BY <1>1, SubstituteIs
<1>3. \A n \in 0..Len(y) : done[n] \in Seq(Symbols)
  BY <1>1, <1>2, SubstitutedTyped
<1> DEFINE m == Len(y)
           N == {n \in Nat : n <= m => Fresh(done[n]) /\ (n # 0 => Len(done[n]) >= 1)}
<1>4. m \in Nat /\ Len(new) \in Nat /\ Len(new) >= 1 /\ new \in Seq(Symbols)
  BY StandsReplaces DEF Replaces
<1>5. new[1] \in Characters
  <2>1. 1 \in 1..Len(new)
    BY <1>4
  <2> QED
    BY <2>1, StandsReplaces
<1>6. ASSUME NEW n \in Nat, \A k \in Nat : k < n => k \in N, n <= m
      PROVE  Fresh(done[n]) /\ (n # 0 => Len(done[n]) >= 1)
  <2>1. CASE n = 0
    <3>1. done[n] = <<>> /\ Len(<<>>) = 0
      BY <1>2, <2>1 DEF Substituted
    <3> QED
      BY <2>1, <3>1 DEF Fresh
  <2>2. CASE n # 0
    <3>1. /\ n \in 1..m /\ n - 1 \in Nat /\ n - 1 < n /\ n - 1 <= m /\ n - 1 \in 0..m
          /\ 3 <= n => n - 3 \in Nat /\ n - 3 < n /\ n - 3 <= m /\ n - 3 \in 0..m
      BY <1>4, <1>6, <2>2
    <3>2. done[n] = IF EndsAtThree(y, n, old) THEN done[n - 3] \o new ELSE Append(done[n - 1], y[n])
      BY <1>2, <3>1 DEF Substituted
    <3>3. CASE EndsAtThree(y, n, old)
      <4>1. 3 <= n
        BY <3>3 DEF EndsAtThree
      <4> DEFINE d == done[n - 3]
      <4>2. d \in Seq(Symbols) /\ Fresh(d)
        BY <1>3, <1>6, <3>1, <4>1
      <4>3. done[n] = d \o new
        BY <3>2, <3>3
      <4> HIDE DEF d
      <4>4. /\ Len(d \o new) = Len(d) + Len(new)
            /\ \A i \in 1..(Len(d) + Len(new)) : (d \o new)[i] = IF i <= Len(d) THEN d[i] ELSE new[i - Len(d)]
        BY <1>4, <4>2, ConcatProperties
      <4>5. Len(d) \in Nat
        BY <4>2
      <4>6. /\ Len(d) + Len(new) >= 1 /\ 1 \in 1..(Len(d) + Len(new))
            /\ 1 <= Len(d) <=> Len(d) >= 1 /\ ~ (1 <= Len(d)) => 1 - Len(d) = 1
        BY <1>4, <4>5
      <4>7. ((d \o new)[1] = d[1] /\ Len(d) >= 1) \/ (d \o new)[1] = new[1]
        BY <4>4, <4>6
      <4>8. Fresh(d \o new)
        BY <1>5, <4>2, <4>7, Symbolic DEF Fresh
      <4> QED
        BY <4>3, <4>4, <4>6, <4>8
    <3>4. CASE ~ EndsAtThree(y, n, old)
      <4> DEFINE d == done[n - 1]
      <4>2. d \in Seq(Symbols) /\ Fresh(d) /\ (n - 1 # 0 => Len(d) >= 1) /\ (n - 1 = 0 => d = <<>>)
        BY <1>2, <1>3, <1>6, <3>1 DEF Substituted
      <4>3. done[n] = Append(d, y[n])
        BY <3>2, <3>4
      <4>4. y[n] \in Symbols
        BY <3>1, ElementOfSeq
      <4> HIDE DEF d
      <4>5. /\ Len(Append(d, y[n])) = Len(d) + 1
            /\ \A i \in 1..Len(d) : Append(d, y[n])[i] = d[i]
            /\ Append(d, y[n])[Len(d) + 1] = y[n]
        BY <4>2, <4>4, AppendProperties
      <4>6. Len(d) \in Nat /\ Len(d) + 1 >= 1
        BY <4>2
      <4>7. CASE n - 1 = 0
        <5>1. Len(d) = 0 /\ n = 1 /\ m >= 1 /\ Len(d) + 1 = 1
          BY <3>1, <4>2, <4>7
        <5>2. Append(d, y[n])[1] = y[1]
          BY <4>5, <5>1
        <5> QED
          BY <4>3, <4>5, <4>6, <5>1, <5>2 DEF Fresh
      <4>8. CASE n - 1 # 0
        <5>1. 1 \in 1..Len(d) /\ Len(d) >= 1
          BY <4>2, <4>6, <4>8
        <5>2. Append(d, y[n])[1] = d[1]
          BY <4>5, <5>1
        <5> QED
          BY <4>2, <4>3, <4>5, <4>6, <5>1, <5>2 DEF Fresh
      <4> QED
        BY <4>7, <4>8
    <3> QED
      BY <3>3, <3>4
  <2> QED
    BY <2>1, <2>2
<1>7. N \in SUBSET Nat /\ \A n \in Nat : (\A k \in Nat : k < n => k \in N) => n \in N
  BY <1>6
<1> HIDE DEF N
<1>8. N = Nat
  BY <1>7, AllNumbers
<1>9. m \in Nat /\ m <= m
  BY <1>4
<1>10. \A n \in Nat : n <= m => Fresh(done[n])
  BY <1>8 DEF N
<1> QED
  BY <1>2, <1>9, <1>10 DEF Substituted

\* Its last symbols.
LEMMA StaysShut ==
    ASSUME NEW x \in Seq(Symbols), Shut(x), NEW old, NEW new, Stands(old, new)
    PROVE  Shut(Substitute(x, old, new))
<1>1. Replaces(Symbols, old, new)
  BY StandsReplaces
<1>2. PICK done : Substituted(x, old, new, done)
  BY <1>1, SubstituteIs
<1>3. \A n \in 0..Len(x) : done[n] \in Seq(Symbols)
  BY <1>1, <1>2, SubstitutedTyped
<1> DEFINE m == Len(x)
           last(s) == s[Len(s)]
<1>4. m \in Nat /\ Len(new) \in Nat /\ Len(new) >= 1 /\ new \in Seq(Symbols)
  BY StandsReplaces DEF Replaces
<1>5. \A n \in 1..m : \/ Len(done[n]) >= 1 /\ last(done[n]) \in Characters
                      \/ /\ done[n] = Append(done[n - 1], x[n])
                         /\ Len(done[n]) = Len(done[n - 1]) + 1
                         /\ last(done[n]) = x[n]
                         /\ Len(done[n]) >= 2 => done[n][Len(done[n]) - 1] = last(done[n - 1])
  <2> SUFFICES ASSUME NEW n \in 1..m
               PROVE  \/ Len(done[n]) >= 1 /\ last(done[n]) \in Characters
                      \/ /\ done[n] = Append(done[n - 1], x[n])
                         /\ Len(done[n]) = Len(done[n - 1]) + 1
                         /\ last(done[n]) = x[n]
                         /\ Len(done[n]) >= 2 => done[n][Len(done[n]) - 1] = last(done[n - 1])
    OBVIOUS
  <2>1. n - 1 \in 0..m /\ (3 <= n => n - 3 \in 0..m)
    BY <1>4
  <2>2. done[n] = IF EndsAtThree(x, n, old) THEN done[n - 3] \o new ELSE Append(done[n - 1], x[n])
    BY <1>2 DEF Substituted
  <2>3. CASE EndsAtThree(x, n, old)
    <3> DEFINE d == done[n - 3]
    <3>1. 3 <= n
      BY <2>3 DEF EndsAtThree
    <3>2. d \in Seq(Symbols) /\ done[n] = d \o new
      BY <1>3, <2>1, <2>2, <2>3, <3>1
    <3> HIDE DEF d
    <3>3. Len(d) \in Nat
      BY <3>2
    <3>4. /\ Len(d \o new) = Len(d) + Len(new)
          /\ \A i \in 1..(Len(d) + Len(new)) : (d \o new)[i] = IF i <= Len(d) THEN d[i] ELSE new[i - Len(d)]
      BY <1>4, <3>2, ConcatProperties
    <3>5. /\ Len(d) + Len(new) \in 1..(Len(d) + Len(new)) /\ ~ (Len(d) + Len(new) <= Len(d))
          /\ (Len(d) + Len(new)) - Len(d) = Len(new) /\ Len(d) + Len(new) >= 1
      BY <1>4, <3>3
    <3>6. last(d \o new) = new[Len(new)] /\ Len(d \o new) >= 1
      BY <3>4, <3>5
    <3>7. new[Len(new)] \in Characters
      <4>1. Len(new) \in 1..Len(new)
        BY <1>4
      <4> QED
        BY <4>1, StandsReplaces
    <3> QED
      BY <3>2, <3>6, <3>7
  <2>4. CASE ~ EndsAtThree(x, n, old)
    <3> DEFINE d == done[n - 1]
    <3>1. d \in Seq(Symbols) /\ done[n] = Append(d, x[n]) /\ x[n] \in Symbols
      BY <1>3, <2>1, <2>2, <2>4, ElementOfSeq
    <3> HIDE DEF d
    <3>2. /\ Len(Append(d, x[n])) = Len(d) + 1
          /\ \A i \in 1..Len(d) : Append(d, x[n])[i] = d[i]
          /\ Append(d, x[n])[Len(d) + 1] = x[n]
      BY <3>1, AppendProperties
    <3>3. Len(d) \in Nat
      BY <3>1
    <3>4. (Len(d) + 1) - 1 = Len(d) /\ (Len(d) + 1 >= 2 => Len(d) \in 1..Len(d))
      BY <3>3
    <3>5. /\ done[n] = Append(d, x[n])
          /\ Len(done[n]) = Len(d) + 1
          /\ last(done[n]) = x[n]
          /\ Len(done[n]) >= 2 => done[n][Len(done[n]) - 1] = last(d)
      BY <3>1, <3>2, <3>4
    <3> QED
      BY <3>5 DEF d
  <2> QED
    BY <2>3, <2>4
<1>6. done[0] = <<>> /\ Len(<<>>) = 0
  BY <1>2 DEF Substituted
<1>7. \A n \in 1..m : Len(done[n]) >= 1 /\ last(done[n]) = Start => x[n] = Start
  BY <1>5, Symbolic
<1>8. CASE m = 0
  BY <1>2, <1>6, <1>8 DEF Substituted, Shut
<1>9. CASE m # 0
  <2>1. m \in 1..m /\ m >= 1 /\ (m - 1 = 0 \/ (m - 1 \in 1..m /\ m >= 2))
    <3> HIDE DEF m
    <3> QED
      BY <1>4, <1>9
  <2> DEFINE s == done[m]
  <2>2. s \in Seq(Symbols)
    BY <1>3, <1>4
  <2>3. ~ (Len(s) >= 1 /\ last(s) = Start)
    BY <1>7, <2>1 DEF Shut
  <2>4. ASSUME Len(s) >= 2, s[Len(s) - 1] = Start, last(s) \in Numbers
        PROVE  FALSE
    <3>1. /\ Len(s) = Len(done[m - 1]) + 1 /\ last(s) = x[m] /\ s[Len(s) - 1] = last(done[m - 1])
      BY <1>5, <2>1, <2>4, Symbolic
    <3>2. Len(done[m - 1]) \in Nat
      <4>1. m - 1 \in 0..m
        BY <1>4, <2>1
      <4>2. done[m - 1] \in Seq(Symbols)
        BY <1>3, <4>1
      <4> QED
        BY <4>2
    <3>3. Len(done[m - 1]) >= 1
      BY <2>4, <3>1, <3>2
    <3>4. ASSUME m - 1 = 0 PROVE FALSE
      <4>1. done[m - 1] = <<>>
        BY <1>6, <3>4
      <4> QED
        BY <1>6, <3>3, <4>1
    <3>5. x[m - 1] = Start
      BY <1>7, <2>1, <2>4, <3>1, <3>3, <3>4
    <3> QED
      BY <2>1, <2>4, <3>1, <3>4, <3>5 DEF Shut
  <2>5. Shut(s)
    BY <2>3, <2>4 DEF Shut
  <2> QED
    BY <1>2, <2>5 DEF Substituted
<1> QED
  BY <1>8, <1>9

\* and the seam stays one when placeholders have been replaced.
LEMMA CutsAreKept ==
    ASSUME NEW x, NEW y, <<x, y>> \in Cuts, NEW old, NEW new, Stands(old, new)
    PROVE  <<Substitute(x, old, new), Substitute(y, old, new)>> \in Cuts
<1>1. x \in Seq(Symbols) /\ y \in Seq(Symbols) /\ (Shut(x) \/ Fresh(y))
  BY DEF Cuts
<1>2. Replaces(Symbols, old, new)
  BY StandsReplaces
<1>3. Substitute(x, old, new) \in Seq(Symbols) /\ Substitute(y, old, new) \in Seq(Symbols)
  BY <1>1, <1>2, SubstituteTyped
<1>4. Shut(Substitute(x, old, new)) \/ Fresh(Substitute(y, old, new))
  BY <1>1, StaysFresh, StaysShut
<1> QED
  BY <1>3, <1>4 DEF Cuts

Standing(maps) ==
    /\ Len(maps) \in Nat
    /\ \A i \in 1..Len(maps) : Stands(maps[i].placeholder, maps[i].original)

LEMMA StandingReplacesAll ==
    ASSUME NEW maps, Standing(maps)
    PROVE  ReplacesAll(Symbols, maps)
BY StandsReplaces DEF Standing, ReplacesAll

LEMMA AnswersStand ==
    ASSUME NEW maps \in Answers
    PROVE  Standing(maps)
<1>1. /\ maps \in Seq(Mappings)
      /\ \A i \in DOMAIN maps :
           /\ maps[i].original \in Seq(Characters) /\ maps[i].original # <<>>
           /\ \E type \in Types, n \in 1..Len(maps) : maps[i].placeholder = Placeholder(type, n)
  BY AnswersAssumption
<1>2. Len(maps) \in Nat /\ DOMAIN maps = 1..Len(maps)
  BY <1>1
<1>3. \A n \in 1..Len(maps) : n \in Nat
  BY <1>2
<1>4. ASSUME NEW i \in 1..Len(maps) PROVE Stands(maps[i].placeholder, maps[i].original)
  BY <1>1, <1>2, <1>3 DEF Stands
<1> QED
  BY <1>2, <1>4 DEF Standing

\* Where an answer may be cut: anywhere if there is nothing to put back.
Cut(maps, e, rest) == maps = <<>> \/ Shut(e) \/ Fresh(rest)

\* An answer cut there is restored piece by piece.
LEMMA CutAnswersJoin ==
    ASSUME NEW maps, Standing(maps), NEW e \in Seq(Symbols), NEW rest \in Seq(Symbols), Cut(maps, e, rest)
    PROVE  Restore(maps, e \o rest) = Restore(maps, e) \o Restore(maps, rest)
<1>1. ReplacesAll(Symbols, maps)
  BY StandingReplacesAll
<1>2. CASE maps = <<>>
  <2> DEFINE All == Seq(Symbols) \X Seq(Symbols)
  <2>1. Len(maps) = 0
    BY <1>2
  <2>2. KeepsCuts(Symbols, maps, All)
    BY <2>1 DEF KeepsCuts
  <2>3. <<e, rest>> \in All
    OBVIOUS
  <2> HIDE DEF All
  <2> QED
    BY <1>1, <2>2, <2>3, RestoreJoins
<1>3. CASE Shut(e) \/ Fresh(rest)
  <2>1. <<e, rest>> \in Cuts
    BY <1>3 DEF Cuts
  <2>2. KeepsCuts(Symbols, maps, Cuts)
    <3> SUFFICES ASSUME NEW x \in Seq(Symbols), NEW y \in Seq(Symbols), <<x, y>> \in Cuts,
                        NEW i \in 1..Len(maps)
                 PROVE  /\ Seamless(x, y, maps[i].placeholder)
                        /\ <<Substitute(x, maps[i].placeholder, maps[i].original),
                             Substitute(y, maps[i].placeholder, maps[i].original)>> \in Cuts
      BY DEF KeepsCuts
    <3>1. Stands(maps[i].placeholder, maps[i].original)
      BY DEF Standing
    <3> QED
      BY <3>1, StandsReplaces, CutsAreSeamless, CutsAreKept
  <2> QED
    BY <1>1, <2>1, <2>2, RestoreJoins
<1> QED
  BY <1>2, <1>3 DEF Cut

LEMMA Three ==
    ASSUME NEW P, 3 \in P, 0 \in P, \A n \in P : n = 3 \/ n = 0
    PROVE  Max(P) = 3
<1>1. 3 \in P /\ \A n \in P : 3 >= n
  OBVIOUS
<1>2. \A k \in P : (\A n \in P : k >= n) => k = 3
  OBVIOUS
<1> QED
  BY <1>1, <1>2 DEF Max

LEMMA LongestIsThree ==
    ASSUME Standing(mappings), mappings # <<>>, DOMAIN mappings = 1..Len(mappings)
    PROVE  Longest = 3
<1> DEFINE P == {Len(mappings[i].placeholder) : i \in DOMAIN mappings} \union {0}
<1>1. \A i \in DOMAIN mappings : Len(mappings[i].placeholder) = 3
  BY StandsReplaces DEF Standing, Replaces
<1>2. 1 \in DOMAIN mappings
  OBVIOUS
<1>3. 3 \in P /\ 0 \in P /\ \A n \in P : n = 3 \/ n = 0
  BY <1>1, <1>2
<1> HIDE DEF P
<1>4. Max(P) = 3
  BY <1>3, Three
<1> QED
  BY <1>4 DEF P, Longest

\* What is held back begins like a placeholder; if nothing is, no placeholder
\* begins at the end.
LEMMA SplitTailIs ==
    ASSUME NEW t \in Seq(Symbols), t # <<>>, NEW longest \in Nat
    PROVE  /\ SplitTail(t, longest) \in 0..Len(t)
           /\ SplitTail(t, longest) # Len(t) => t[SplitTail(t, longest) + 1] = Start
           /\ longest = 3 /\ SplitTail(t, longest) = Len(t) => Shut(t)
<1> DEFINE m == Len(t)
           starts == {i \in DOMAIN t : t[i] = Start}
           start == IF starts = {} THEN Len(t) + 1 ELSE Max(starts)
           held == starts # {} /\ ~Contains(SubSeq(t, start, Len(t)), End)
                   /\ longest # 0 /\ Len(t) - start + 1 <= longest
<1>1. m \in Nat /\ m >= 1 /\ DOMAIN t = 1..m
  OBVIOUS
<1>2. SplitTail(t, longest) = IF held THEN start - 1 ELSE Len(t)
  BY DEF SplitTail
<1>3. starts \in SUBSET (1..m)
  BY <1>1
<1>4. starts # {} => Max(starts) \in starts /\ \A i \in starts : Max(starts) >= i
  <2> HIDE DEF starts, m
  <2> QED
    BY <1>1, <1>3, Greatest
<1>5. starts # {} => start \in starts /\ \A i \in starts : start >= i
  <2>1. starts # {} => start = Max(starts)
    OBVIOUS
  <2> HIDE DEF starts, start
  <2> QED
    BY <1>4, <2>1
<1>6. starts # {} => start \in 1..m /\ t[start] = Start /\ (start - 1) + 1 = start /\ start - 1 \in 0..m
                     /\ start - 1 # m
  <2>1. \A i \in starts : i \in 1..m /\ t[i] = Start
    BY <1>1
  <2> HIDE DEF starts, start, m
  <2> QED
    BY <1>1, <1>5, <2>1
<1>7. held => starts # {}
  OBVIOUS
<1>8. ASSUME longest = 3, ~ Shut(t) PROVE held
  <2>1. \/ t[m] = Start
        \/ m >= 2 /\ t[m] # Start /\ t[m - 1] = Start /\ t[m] \in Numbers
    BY <1>8 DEF Shut
  <2>4. ASSUME NEW p, p \in starts, start = p, p >= 1, \A i \in 1..m : i >= p => t[i] # End,
               m - p + 1 <= 3
        PROVE  held
    <3>1. p \in Int /\ p <= m
      BY <1>3, <2>4
    <3> DEFINE part == SubSeq(t, p, Len(t))
    <3>2. /\ Len(part) = IF p <= m THEN m - p + 1 ELSE 0
          /\ \A i \in 1..(m - p + 1) : part[i] = t[p + i - 1]
      BY <1>1, <2>4, <3>1, Slice
    <3> HIDE DEF part
    <3>3. \A i \in 1..(m - p + 1) : p + i - 1 \in 1..m /\ p + i - 1 >= p
      <4> HIDE DEF m
      <4> QED
        BY <1>1, <2>4, <3>1
    <3>4. ~ Contains(part, End)
      BY <2>4, <3>1, <3>2, <3>3 DEF Contains
    <3>5. Len(t) - start + 1 <= longest /\ longest # 0 /\ starts # {}
      BY <1>8, <2>4
    <3> HIDE DEF starts, start
    <3> QED
      BY <2>4, <3>4, <3>5 DEF part
  <2>2. CASE t[m] = Start
    <3>1. m \in starts
      BY <1>1, <2>2
    <3>2. start = m
      <4>1. start \in 1..m /\ start >= m
        <5> HIDE DEF start, starts, m
        <5> QED
          BY <1>3, <1>5, <3>1
      <4> HIDE DEF start, m
      <4> QED
        BY <1>1, <4>1
    <3>3. m >= 1 /\ \A i \in 1..m : i >= m => t[i] # End
      <4>1. t[m] # End
        BY <2>2, Symbolic
      <4> HIDE DEF m
      <4> QED
        BY <1>1, <4>1
    <3>4. m - m + 1 <= 3
      BY <1>1
    <3> QED
      BY <1>8, <2>4, <3>1, <3>2, <3>3, <3>4
  <2>3. CASE m >= 2 /\ t[m] # Start /\ t[m - 1] = Start /\ t[m] \in Numbers
    <3>1. m - 1 \in 1..m /\ m - 1 \in starts /\ m \notin starts
      BY <1>1, <2>3
    <3>2. start = m - 1
      <4>1. start \in 1..m /\ start >= m - 1 /\ start # m
        <5> HIDE DEF start, starts, m
        <5> QED
          BY <1>3, <1>5, <3>1
      <4> HIDE DEF start, m
      <4> QED
        BY <1>1, <4>1
    <3>3. m - 1 >= 1 /\ \A i \in 1..m : i >= m - 1 => t[i] # End
      <4>1. t[m] # End /\ t[m - 1] # End
        BY <2>3, Symbolic
      <4>2. m - 1 >= 1 /\ \A i \in 1..m : i >= m - 1 => i = m \/ i = m - 1
        <5> HIDE DEF m
        <5> QED
          BY <1>1, <2>3
      <4> QED
        BY <4>1, <4>2
    <3>4. m - (m - 1) + 1 <= 3
      BY <1>1
    <3> QED
      BY <1>8, <2>4, <3>1, <3>2, <3>3, <3>4
  <2> QED
    BY <2>1, <2>2, <2>3
<1> HIDE DEF held, starts, start
<1> QED
  BY <1>1, <1>2, <1>6, <1>7, <1>8

\* Of a text with nothing held back, the end decides.
LEMMA ShutAtTheEnd ==
    ASSUME NEW e \in Seq(Symbols), NEW t \in Seq(Symbols), t # <<>>, Shut(t), Len(t) = 1 => Shut(e)
    PROVE  Shut(e \o t)
<1> DEFINE k == Len(e)
           m == Len(t)
           s == e \o t
<1>1. k \in Nat /\ m \in Nat /\ m >= 1
  OBVIOUS
<1>2. Len(s) = k + m /\ \A i \in 1..(k + m) : s[i] = IF i <= k THEN e[i] ELSE t[i - k]
  BY ConcatProperties
<1>3. Shut(t) /\ (m = 1 => Shut(e))
  OBVIOUS
<1> HIDE DEF s
<1>4. s[k + m] = t[m]
  <2> HIDE DEF k, m
  <2>1. k + m \in 1..(k + m) /\ ~ (k + m <= k) /\ (k + m) - k = m
    BY <1>1
  <2> QED
    BY <1>2, <2>1
<1>5. CASE m = 1
  <2> HIDE DEF m
  <2>1. k + m >= 2 => (k + m) - 1 = k /\ k \in 1..(k + m) /\ k <= k /\ k >= 1
    <3> HIDE DEF k
    <3> QED
      BY <1>1, <1>5
  <2>2. k + m >= 2 => s[(k + m) - 1] = e[k] /\ e[k] # Start
    BY <1>2, <1>3, <1>5, <2>1 DEF Shut
  <2>3. s[k + m] # Start
    BY <1>3, <1>4, <1>5 DEF Shut, m
  <2>4. Shut(s)
    BY <1>2, <2>2, <2>3 DEF Shut
  <2> QED
    BY <2>4 DEF s
<1>6. CASE m >= 2
  <2>1. s[(k + m) - 1] = t[m - 1]
    <3> HIDE DEF k, m
    <3>1. (k + m) - 1 \in 1..(k + m) /\ ~ ((k + m) - 1 <= k) /\ ((k + m) - 1) - k = m - 1
      BY <1>1, <1>6
    <3> QED
      BY <1>2, <3>1
  <2>2. Shut(s)
    BY <1>2, <1>3, <1>4, <1>6, <2>1 DEF Shut
  <2> QED
    BY <2>2 DEF s
<1>7. m = 1 \/ m >= 2
  <2> HIDE DEF m
  <2> QED
    BY <1>1
<1> QED
  BY <1>5, <1>6, <1>7

-----------------------------------------------------------------------------
(***************************************************************************)
(* The answer: what has been emitted of it, and what is held back.         *)
(***************************************************************************)
Waits(e) == mappings = <<>> \/ Shut(e) \/ (tail # <<>> /\ tail[1] = Start)

Emitted(e) ==
    /\ e \in Seq(Symbols)
    /\ answer = e \o tail
    /\ restored = Restore(mappings, e)
    /\ Waits(e)

AnswersInv ==
    /\ phase \in {"answering", "ended"} => mappings \in Answers
    /\ phase = "answering" =>
         /\ answer \in Seq(Symbols) /\ tail \in Seq(Symbols)
         /\ \E e : Emitted(e)
    /\ phase = "ended" => answer \in Seq(Symbols) /\ tail = <<>> /\ restored = Restore(mappings, answer)

\* The tail buffer is empty; a push emits a piece cut at a seam; a flush
\* emits the rest.
LEMMA PieceInit ==
    ASSUME SanitizerInit
    PROVE  AnswersInv
<1>1. CASE Request
  BY <1>1 DEF Request, AnswersInv
<1>2. CASE Answer
  <2>1. mappings \in Answers /\ phase = "answering" /\ answer = <<>> /\ tail = <<>> /\ restored = <<>>
    BY <1>2 DEF Answer, SanitizerInit
  <2>2. Restore(mappings, <<>>) = <<>>
    BY <2>1, AnswersStand, StandingReplacesAll, RestoreNothing
  <2>3. <<>> \in Seq(Symbols) /\ Len(<<>>) = 0
    BY EmptySeq
  <2>4. Shut(<<>>)
    BY <2>3 DEF Shut
  <2>5. <<>> = <<>> \o <<>>
    BY <2>3, ConcatEmptySeq
  <2>6. Emitted(<<>>)
    BY <2>1, <2>2, <2>3, <2>4, <2>5 DEF Emitted, Waits
  <2> QED
    BY <2>1, <2>3, <2>6 DEF AnswersInv
<1> QED
  BY <1>1, <1>2 DEF SanitizerInit

LEMMA PiecePush ==
    ASSUME AnswersInv, NEW delta, delta \in Seq(Symbols), delta # <<>>, Push(delta)
    PROVE  AnswersInv'
<1>1. /\ phase = "answering" /\ phase' = phase /\ mappings' = mappings /\ mappings \in Answers
      /\ answer \in Seq(Symbols) /\ tail \in Seq(Symbols)
  BY DEF Push, AnswersInv
<1>2. PICK e : Emitted(e)
  BY <1>1 DEF AnswersInv
<1> DEFINE c == tail \o delta
           n == SplitTail(c, Longest)
           kept == SubSeq(c, 1, n)
           rest == SubSeq(c, n + 1, Len(c))
<1>3. answer' = answer \o delta /\ restored' = restored \o Restore(mappings, kept) /\ tail' = rest
  BY DEF Push
<1>4. Standing(mappings)
  BY <1>1, AnswersStand
<1>5. e \in Seq(Symbols) /\ answer = e \o tail /\ restored = Restore(mappings, e) /\ Waits(e)
  BY <1>2 DEF Emitted
<1>6. mappings \in Seq(Mappings)
  BY <1>1, AnswersAssumption
<1>7. Longest \in Nat /\ (mappings # <<>> => Longest = 3)
  <2>1. DOMAIN mappings = 1..Len(mappings)
    BY <1>6
  <2>2. mappings # <<>> => Longest = 3
    BY <1>4, <2>1, LongestIsThree
  <2>3. mappings = <<>> => Longest = 0
    <3>1. mappings = <<>> => {Len(mappings[i].placeholder) : i \in DOMAIN mappings} \union {0} = {0}
      OBVIOUS
    <3>2. Max({0}) = 0
      BY DEF Max
    <3> QED
      BY <3>1, <3>2 DEF Longest
  <2> QED
    BY <2>2, <2>3
<1>8. /\ c \in Seq(Symbols) /\ c # <<>> /\ Len(c) = Len(tail) + Len(delta)
      /\ Len(tail) \in Nat /\ Len(delta) \in Nat /\ Len(delta) >= 1
      /\ Len(tail) >= 1 => c[1] = tail[1]
  <2>1. /\ c \in Seq(Symbols) /\ Len(c) = Len(tail) + Len(delta)
        /\ \A i \in 1..(Len(tail) + Len(delta)) : c[i] = IF i <= Len(tail) THEN tail[i] ELSE delta[i - Len(tail)]
    BY <1>1, ConcatProperties
  <2>2. Len(tail) \in Nat /\ Len(delta) \in Nat /\ Len(delta) >= 1
    BY <1>1
  <2>3. Len(tail) >= 1 => 1 \in 1..(Len(tail) + Len(delta)) /\ 1 <= Len(tail)
    BY <2>2
  <2>4. Len(tail) >= 1 => c[1] = tail[1]
    BY <2>1, <2>3
  <2>5. Len(c) # 0
    BY <2>1, <2>2
  <2>6. c # <<>>
    BY <2>5
  <2> QED
    BY <2>1, <2>2, <2>4, <2>6
<1> HIDE DEF c
<1>9. /\ n \in 0..Len(c)
      /\ n # Len(c) => c[n + 1] = Start
      /\ mappings # <<>> /\ n = Len(c) => Shut(c)
  BY <1>7, <1>8, SplitTailIs
<1> HIDE DEF n
<1>10. /\ kept \in Seq(Symbols) /\ rest \in Seq(Symbols) /\ c = kept \o rest
       /\ n = Len(c) => kept = c /\ rest = <<>>
       /\ n >= 1 => Len(kept) >= 1 /\ kept[1] = c[1]
       /\ n = 0 => kept = <<>>
       /\ n # Len(c) => rest # <<>> /\ rest[1] = c[n + 1]
  <2>1. Len(c) \in Nat /\ n \in Int /\ n >= 0 /\ n <= Len(c)
    BY <1>8, <1>9
  <2>2. \A i \in 1..Len(c) : c[i] \in Symbols
    BY <1>8, ElementOfSeq
  <2>3. 1 \in Int /\ n + 1 \in Int /\ Len(c) \in Int
    BY <2>1
  <2>4. \A i \in 1..n : c[i] \in Symbols
    BY <2>1, <2>2
  <2>5. \A i \in (n + 1)..Len(c) : c[i] \in Symbols
    BY <2>1, <2>2
  <2>6. /\ kept \in Seq(Symbols)
        /\ Len(kept) = IF 1 <= n THEN n - 1 + 1 ELSE 0
        /\ \A i \in 1..(n - 1 + 1) : kept[i] = c[1 + i - 1]
    BY <2>1, <2>3, <2>4, SubSeqProperties
  <2> DEFINE l == n + 1
  <2>7. /\ SubSeq(c, l, Len(c)) \in Seq(Symbols)
        /\ Len(SubSeq(c, l, Len(c))) = IF l <= Len(c) THEN Len(c) - l + 1 ELSE 0
        /\ \A i \in 1..(Len(c) - l + 1) : SubSeq(c, l, Len(c))[i] = c[l + i - 1]
    <3>1. l \in Int /\ Len(c) \in Int /\ \A i \in l..Len(c) : c[i] \in Symbols
      BY <2>3, <2>5
    <3> HIDE DEF l
    <3> QED
      BY <3>1, SubSeqProperties
  <2>8. c = kept \o rest
    <3>1. SubSeq(c, 1, n) \o SubSeq(c, n + 1, Len(c)) = SubSeq(c, 1, Len(c))
      <4>1. 1 \in 1..(Len(c) + 1) /\ n \in 1-1..Len(c) /\ Len(c) \in n..Len(c)
        BY <2>1
      <4> QED
        BY <1>8, <4>1, ConcatAdjacentSubSeq
    <3>2. SubSeq(c, 1, Len(c)) = c
      BY <1>8, SubSeqFull
    <3> QED
      BY <3>1, <3>2
  <2>9. n = Len(c) => kept = c /\ rest = <<>>
    <3>1. SubSeq(c, 1, Len(c)) = c
      BY <1>8, SubSeqFull
    <3>2. SubSeq(c, Len(c) + 1, Len(c)) = <<>>
      BY <2>1, SubSeqEmpty
    <3> QED
      BY <3>1, <3>2
  <2>10. n >= 1 => Len(kept) >= 1 /\ kept[1] = c[1]
    <3>1. n >= 1 => 1 \in 1..(n - 1 + 1) /\ 1 + 1 - 1 = 1 /\ n - 1 + 1 >= 1
      BY <2>1
    <3> HIDE DEF kept
    <3> QED
      BY <2>1, <2>6, <3>1
  <2>11. n = 0 => kept = <<>>
    BY <2>1, SubSeqEmpty
  <2>12. n # Len(c) => rest # <<>> /\ rest[1] = c[n + 1]
    <3>1. n # Len(c) => l <= Len(c) /\ 1 \in 1..(Len(c) - l + 1) /\ l + 1 - 1 = n + 1 /\ Len(c) - l + 1 >= 1
      BY <2>1
    <3>2. rest = SubSeq(c, l, Len(c))
      OBVIOUS
    <3> HIDE DEF rest, l
    <3>3. n # Len(c) => Len(rest) >= 1 /\ rest[1] = c[n + 1]
      BY <2>7, <3>1, <3>2
    <3>4. Len(<<>>) = 0
      OBVIOUS
    <3> QED
      BY <3>3, <3>4
  <2> QED
    BY <2>6, <2>7, <2>8, <2>9, <2>10, <2>11, <2>12
<1> HIDE DEF kept, rest
<1>11. Cut(mappings, e, kept)
  <2> SUFFICES ASSUME mappings # <<>>, ~ Shut(e) PROVE Fresh(kept)
    BY DEF Cut
  <2>1. tail # <<>> /\ tail[1] = Start
    BY <1>5 DEF Waits
  <2>2. Len(tail) >= 1
    BY <1>1, <2>1
  <2>3. c[1] = Start
    BY <1>8, <2>1, <2>2
  <2>4. CASE n = 0
    <3>1. Len(<<>>) = 0
      OBVIOUS
    <3> QED
      BY <1>10, <2>4, <3>1 DEF Fresh
  <2>5. CASE n >= 1
    BY <1>10, <2>3, <2>5, Symbolic DEF Fresh
  <2> QED
    BY <1>8, <1>9, <2>4, <2>5
<1> DEFINE f == e \o kept
<1>12. restored' = Restore(mappings, f)
  BY <1>3, <1>4, <1>5, <1>10, <1>11, CutAnswersJoin
<1>13. f \in Seq(Symbols)
  BY <1>5, <1>10, ConcatProperties
<1>14. answer' = f \o rest /\ answer' \in Seq(Symbols)
  <2>1. answer \o delta = e \o (tail \o delta)
    BY <1>1, <1>5, ConcatAssociative, SMTT(60)
  <2>2. e \o (kept \o rest) = (e \o kept) \o rest
    <3>1. e \in Seq(Symbols) /\ kept \in Seq(Symbols) /\ rest \in Seq(Symbols)
      BY <1>5, <1>10
    <3> QED
      BY <3>1, ConcatAssociative, SMTT(60)
  <2>3. answer \o delta \in Seq(Symbols)
    BY <1>1, ConcatProperties
  <2> QED
    BY <1>3, <1>10, <2>1, <2>2, <2>3 DEF c
<1>15. mappings = <<>> \/ Shut(f) \/ (rest # <<>> /\ rest[1] = Start)
  <2> SUFFICES ASSUME mappings # <<>>, n = Len(c) PROVE Shut(f)
    BY <1>9, <1>10
  <2>1. kept = c /\ Shut(c)
    BY <1>9, <1>10
  <2>2. Len(c) = 1 => Shut(e)
    <3> SUFFICES ASSUME Len(c) = 1 PROVE Shut(e)
      OBVIOUS
    <3>1. Len(tail) = 0
      BY <1>8
    <3>2. tail = <<>>
      BY <1>1, <3>1, EmptySeq
    <3> QED
      BY <1>5, <3>2 DEF Waits
  <2> QED
    BY <1>5, <1>8, <2>1, <2>2, ShutAtTheEnd
<1> HIDE DEF f
<1>16. /\ f \in Seq(Symbols) /\ answer' = f \o tail' /\ restored' = Restore(mappings', f)
       /\ mappings' = <<>> \/ Shut(f) \/ (tail' # <<>> /\ tail'[1] = Start)
  BY <1>1, <1>3, <1>12, <1>13, <1>14, <1>15
<1>17. (\E g : Emitted(g))'
  BY <1>16 DEF Emitted, Waits
<1> QED
  BY <1>1, <1>3, <1>10, <1>14, <1>17 DEF AnswersInv

LEMMA PieceFlush ==
    ASSUME AnswersInv, Flush
    PROVE  AnswersInv'
<1>1. /\ phase = "answering" /\ phase' = "ended" /\ mappings' = mappings /\ mappings \in Answers
      /\ tail \in Seq(Symbols) /\ tail' = <<>> /\ answer' = answer /\ answer \in Seq(Symbols)
      /\ restored' = restored \o Restore(mappings, tail)
  BY DEF Flush, AnswersInv
<1>2. PICK e : Emitted(e)
  BY <1>1 DEF AnswersInv
<1>3. Standing(mappings)
  BY <1>1, AnswersStand
<1>4. e \in Seq(Symbols) /\ answer = e \o tail /\ restored = Restore(mappings, e) /\ Cut(mappings, e, tail)
  BY <1>2, Symbolic DEF Emitted, Waits, Cut, Fresh
<1>5. Restore(mappings, answer) = restored'
  BY <1>1, <1>3, <1>4, CutAnswersJoin
<1> QED
  BY <1>1, <1>5 DEF AnswersInv

LEMMA Pieces ==
    ASSUME AnswersInv
    PROVE  PiecesRestoreTheWhole
<1>1. CASE phase = "answering"
  <2>1. mappings \in Answers /\ tail \in Seq(Symbols)
    BY <1>1 DEF AnswersInv
  <2>2. PICK e : Emitted(e)
    BY <1>1 DEF AnswersInv
  <2>3. Standing(mappings)
    BY <2>1, AnswersStand
  <2>4. e \in Seq(Symbols) /\ answer = e \o tail /\ restored = Restore(mappings, e) /\ Cut(mappings, e, tail)
    BY <2>2, Symbolic DEF Emitted, Waits, Cut, Fresh
  <2>5. Restore(mappings, answer) = restored \o Restore(mappings, tail)
    BY <2>1, <2>3, <2>4, CutAnswersJoin
  <2> QED
    BY <2>5 DEF PiecesRestoreTheWhole
<1>2. CASE phase = "ended"
  <2>1. mappings \in Answers /\ answer \in Seq(Symbols) /\ tail = <<>> /\ restored = Restore(mappings, answer)
    BY <1>2 DEF AnswersInv
  <2>2. ReplacesAll(Symbols, mappings)
    BY <2>1, AnswersStand, StandingReplacesAll
  <2>3. Restore(mappings, <<>>) = <<>> /\ Restore(mappings, answer) \in Seq(Symbols)
    BY <2>1, <2>2, RestoreNothing, RestoreTyped
  <2>4. Restore(mappings, answer) \o <<>> = Restore(mappings, answer)
    BY <2>3, ConcatEmptySeq
  <2> QED
    BY <2>1, <2>3, <2>4 DEF PiecesRestoreTheWhole
<1> QED
  BY <1>1, <1>2 DEF PiecesRestoreTheWhole

LEMMA DeltaIsText ==
    ASSUME NEW n \in 1..MaxDelta, NEW delta \in [1..n -> Alphabet]
    PROVE  delta \in Seq(Symbols) /\ delta # <<>>
<1>1. n \in Nat /\ n >= 1
  BY SanitizerAssumption
<1>2. delta \in [1..n -> Symbols]
  BY SymbolsAssumption
<1>3. delta \in Seq(Symbols) /\ Len(delta) = n
  BY <1>1, <1>2
<1>4. Len(<<>>) = 0
  OBVIOUS
<1> QED
  BY <1>1, <1>3, <1>4

LEMMA AnswersInvariant == SanitizerSpec => []AnswersInv
<1>1. SanitizerInit => AnswersInv
  BY PieceInit
<1>2. ASSUME AnswersInv, [SanitizerNext]_sanitizerVars PROVE AnswersInv'
  <2>1. CASE Recognize
    BY <1>2, <2>1 DEF Recognize, AnswersInv
  <2>2. CASE Recognized
    BY <1>2, <2>2 DEF Recognized, AnswersInv
  <2>3. CASE Merge
    BY <1>2, <2>3 DEF Merge, AnswersInv
  <2>4. CASE AddNER
    BY <1>2, <2>4 DEF AddNER, AnswersInv
  <2>5. CASE ApplyPlaceholders
    BY <1>2, <2>5 DEF ApplyPlaceholders, AnswersInv
  <2>6. ASSUME NEW n \in 1..MaxDelta, NEW delta \in [1..n -> Alphabet], Push(delta) PROVE AnswersInv'
    BY <1>2, <2>6, DeltaIsText, PiecePush
  <2>7. CASE Flush
    BY <1>2, <2>7, PieceFlush
  <2>8. CASE UNCHANGED sanitizerVars
    BY <1>2, <2>8 DEF sanitizerVars, AnswersInv, Emitted, Waits
  <2> QED
    BY <1>2, <2>1, <2>2, <2>3, <2>4, <2>5, <2>6, <2>7, <2>8 DEF SanitizerNext
<1> QED
  BY <1>1, <1>2, PTL DEF SanitizerSpec

(* However an answer is cut into pieces, what has been emitted of it, with   *)
(* what is held back, is what restoring the whole gives (tail_buffer.go):    *)
(* for any mappings whose originals do not look like placeholders.           *)
THEOREM AnswersCome == SanitizerSpec => []PiecesRestoreTheWhole
<1>1. AnswersInv => PiecesRestoreTheWhole
  BY Pieces
<1> QED
  BY <1>1, AnswersInvariant, PTL

-----------------------------------------------------------------------------
(***************************************************************************)
(* A text in which every placeholder that begins also ends can be followed *)
(* by anything and restored apart from it.                                 *)
(***************************************************************************)
Plain(s) == \A i \in 1..Len(s) : s[i] # Start

\* Whatever begins a placeholder in s ends it in s.
CompleteAt(s, i) == i + 2 <= Len(s) /\ s[i + 1] \in Numbers /\ s[i + 2] = End
Complete(s) == \A i \in 1..Len(s) : s[i] = Start => CompleteAt(s, i)

\* A placeholder, and what it stands for when no placeholder begins in it.
Marks(old, new) ==
    /\ \E type \in Types, n \in Nat : old = Placeholder(type, n)
    /\ new \in Seq(Symbols) /\ Plain(new)

LEMMA PlaceholderIs ==
    ASSUME NEW type \in Types, NEW n \in Nat
    PROVE  /\ Placeholder(type, n) \in Seq(Symbols) /\ Len(Placeholder(type, n)) = 3
           /\ Placeholder(type, n)[1] = Start /\ Placeholder(type, n)[2] = <<type, n>>
           /\ Placeholder(type, n)[3] = End /\ <<type, n>> \in Numbers
<1> DEFINE k == <<type, n>>
<1>1. k \in Numbers
  BY DEF Numbers
<1>2. k \in Symbols /\ Start \in Symbols /\ End \in Symbols
  BY <1>1, Symbolic
<1>3. Placeholder(type, n) = <<Start, k, End>>
  BY DEF Placeholder
<1> HIDE DEF k
<1>4. /\ <<Start, k, End>> \in Seq(Symbols) /\ Len(<<Start, k, End>>) = 3
      /\ <<Start, k, End>>[1] = Start /\ <<Start, k, End>>[2] = k /\ <<Start, k, End>>[3] = End
  BY <1>2
<1>5. k = <<type, n>>
  BY DEF k
<1> QED
  BY <1>1, <1>3, <1>4, <1>5

LEMMA MarksReplaces ==
    ASSUME NEW old, NEW new, Marks(old, new)
    PROVE  /\ Replaces(Symbols, old, new) /\ Plain(new)
           /\ old[1] = Start /\ old[2] \in Numbers /\ old[3] = End
BY PlaceholderIs DEF Marks, Replaces

LEMMA CompleteIsSeamless ==
    ASSUME NEW x \in Seq(Symbols), Complete(x), NEW y \in Seq(Symbols), NEW old, NEW new, Marks(old, new)
    PROVE  Seamless(x, y, old)
<1>1. Shut(x)
  <2>1. Len(x) \in Nat
    OBVIOUS
  <2>2. Len(x) >= 1 => Len(x) \in 1..Len(x) /\ ~ (Len(x) + 2 <= Len(x))
    BY <2>1
  <2>3. Len(x) >= 2 => Len(x) - 1 \in 1..Len(x) /\ ~ ((Len(x) - 1) + 2 <= Len(x))
    BY <2>1
  <2> QED
    BY <2>2, <2>3 DEF Complete, CompleteAt, Shut
<1>2. old[1] = Start /\ old[2] \in Numbers /\ old[3] = End
  BY MarksReplaces
<1>3. <<x, y>> \in Cuts
  BY <1>1 DEF Cuts
<1> QED
  BY <1>2, <1>3, CutsAreSeamless

\* Where the texts before position n have placeholders replaced: what begins a
\* placeholder and does not end it is at the end, and is so in x.
Ends(x, n, d) ==
    \A i \in 1..Len(d) : d[i] = Start =>
      \/ CompleteAt(d, i)
      \/ i = Len(d) /\ n >= 1 /\ x[n] = Start
      \/ i + 1 = Len(d) /\ d[i + 1] \in Numbers /\ n >= 2 /\ x[n - 1] = Start

LEMMA StaysComplete ==
    ASSUME NEW x \in Seq(Symbols), Complete(x), NEW old, NEW new, Marks(old, new)
    PROVE  Complete(Substitute(x, old, new))
<1>1. Replaces(Symbols, old, new) /\ Plain(new) /\ old[1] = Start
  BY MarksReplaces
<1>2. PICK done : Substituted(x, old, new, done)
  BY <1>1, SubstituteIs
<1>3. \A n \in 0..Len(x) : done[n] \in Seq(Symbols)
  BY <1>1, <1>2, SubstitutedTyped
<1> DEFINE m == Len(x)
           N == {n \in Nat : n <= m => Ends(x, n, done[n])}
<1>4. m \in Nat /\ new \in Seq(Symbols) /\ Len(new) \in Nat
  BY <1>1 DEF Replaces
<1>5. \A i \in 1..m : x[i] = Start => i + 2 <= m /\ x[i + 1] \in Numbers /\ x[i + 2] = End
  BY DEF Complete, CompleteAt
<1>6. ASSUME NEW n \in Nat, \A k \in Nat : k < n => k \in N, n <= m
      PROVE  Ends(x, n, done[n])
  <2>1. CASE n = 0
    BY <1>2, <2>1 DEF Substituted, Ends
  <2>2. CASE n # 0
    <3>1. /\ n \in 1..m /\ n - 1 \in Nat /\ n - 1 < n /\ n - 1 <= m /\ n - 1 \in 0..m
          /\ 3 <= n => n - 3 \in Nat /\ n - 3 < n /\ n - 3 <= m /\ n - 3 \in 0..m
      BY <1>4, <1>6, <2>2
    <3>2. done[n] = IF EndsAtThree(x, n, old) THEN done[n - 3] \o new ELSE Append(done[n - 1], x[n])
      BY <1>2, <3>1 DEF Substituted
    <3>3. CASE EndsAtThree(x, n, old)
      <4>1. 3 <= n /\ x[n - 2] = Start
        BY <1>1, <3>3 DEF EndsAtThree
      <4> DEFINE d == done[n - 3]
      <4>2. d \in Seq(Symbols) /\ Ends(x, n - 3, d)
        BY <1>3, <1>6, <3>1, <4>1
      <4>3. done[n] = d \o new
        BY <3>2, <3>3
      <4> HIDE DEF d
      <4>4. /\ Len(d \o new) = Len(d) + Len(new)
            /\ \A i \in 1..(Len(d) + Len(new)) : (d \o new)[i] = IF i <= Len(d) THEN d[i] ELSE new[i - Len(d)]
        BY <1>4, <4>2, ConcatProperties
      <4>5. Len(d) \in Nat
        BY <4>2
      <4> DEFINE s == d \o new
      <4> HIDE DEF s
      <4>6. ASSUME NEW i \in 1..Len(s), s[i] = Start
            PROVE  CompleteAt(s, i)
        <5>1. i <= Len(d)
          <6> SUFFICES ASSUME ~ (i <= Len(d)) PROVE FALSE
            OBVIOUS
          <6>1. i \in 1..(Len(d) + Len(new)) /\ i - Len(d) \in 1..Len(new)
            BY <1>4, <4>4, <4>5 DEF s
          <6>2. s[i] = new[i - Len(d)]
            BY <4>4, <6>1 DEF s
          <6> QED
            BY <1>1, <4>6, <6>1, <6>2 DEF Plain
        <5>2. i \in 1..Len(d) /\ i \in 1..(Len(d) + Len(new))
          BY <1>4, <4>5, <5>1
        <5>3. d[i] = Start
          BY <4>4, <4>6, <5>1, <5>2 DEF s
        <5>4. ~ (n - 3 >= 1 /\ x[n - 3] = Start)
          <6> SUFFICES ASSUME n - 3 >= 1, x[n - 3] = Start PROVE FALSE
            OBVIOUS
          <6>1. n - 3 \in 1..m /\ (n - 3) + 1 = n - 2
            BY <3>1, <4>1
          <6>2. x[n - 2] \in Numbers
            BY <1>5, <6>1
          <6> QED
            BY <4>1, <6>2, Symbolic
        <5>5. ~ (n - 3 >= 2 /\ x[(n - 3) - 1] = Start)
          <6> SUFFICES ASSUME n - 3 >= 2, x[(n - 3) - 1] = Start PROVE FALSE
            OBVIOUS
          <6>1. (n - 3) - 1 \in 1..m /\ ((n - 3) - 1) + 2 = n - 2
            BY <3>1, <4>1
          <6>2. x[n - 2] = End
            BY <1>5, <6>1
          <6> QED
            BY <4>1, <6>2, Symbolic
        <5>6. i + 2 <= Len(d) /\ d[i + 1] \in Numbers /\ d[i + 2] = End
          BY <4>2, <5>2, <5>3, <5>4, <5>5 DEF Ends, CompleteAt
        <5>7. /\ i + 1 \in 1..(Len(d) + Len(new)) /\ i + 2 \in 1..(Len(d) + Len(new))
              /\ i + 1 <= Len(d) /\ i + 2 <= Len(d) + Len(new)
          BY <1>4, <4>5, <5>2, <5>6
        <5> QED
          BY <4>4, <5>6, <5>7 DEF CompleteAt, s
      <4> QED
        BY <4>3, <4>6 DEF Ends, s
    <3>4. CASE ~ EndsAtThree(x, n, old)
      <4> DEFINE d == done[n - 1]
      <4>1. d \in Seq(Symbols) /\ Ends(x, n - 1, d) /\ x[n] \in Symbols
        BY <1>3, <1>6, <3>1, ElementOfSeq
      <4>2. done[n] = Append(d, x[n])
        BY <3>2, <3>4
      <4> HIDE DEF d
      <4> DEFINE s == Append(d, x[n])
      <4>3. /\ Len(s) = Len(d) + 1 /\ s[Len(d) + 1] = x[n]
            /\ \A i \in 1..Len(d) : s[i] = d[i]
        BY <4>1, AppendedTo
      <4>4. Len(d) \in Nat
        BY <4>1
      <4> HIDE DEF s
      <4>5. ASSUME NEW i \in 1..Len(s), s[i] = Start
            PROVE  \/ CompleteAt(s, i)
                   \/ i = Len(s) /\ n >= 1 /\ x[n] = Start
                   \/ i + 1 = Len(s) /\ s[i + 1] \in Numbers /\ n >= 2 /\ x[n - 1] = Start
        <5>1. CASE i = Len(d) + 1
          BY <3>1, <4>3, <4>5, <5>1
        <5>2. CASE i # Len(d) + 1
          <6>1. i \in 1..Len(d)
            BY <4>3, <4>4, <5>2
          <6>2. d[i] = Start
            BY <4>3, <4>5, <6>1
          <6>3. CASE CompleteAt(d, i)
            <7>1. /\ i + 2 <= Len(d) /\ d[i + 1] \in Numbers /\ d[i + 2] = End
                  /\ i + 1 \in 1..Len(d) /\ i + 2 \in 1..Len(d) /\ i + 2 <= Len(d) + 1
              BY <4>4, <6>1, <6>3 DEF CompleteAt
            <7> QED
              BY <4>3, <7>1 DEF CompleteAt
          <6>4. CASE i = Len(d) /\ n - 1 >= 1 /\ x[n - 1] = Start
            <7>1. n - 1 \in 1..m /\ (n - 1) + 1 = n /\ n >= 2
              BY <3>1, <6>4
            <7>2. x[n] \in Numbers
              BY <1>5, <6>4, <7>1
            <7> QED
              BY <4>3, <6>4, <7>1, <7>2
          <6>5. CASE i + 1 = Len(d) /\ d[i + 1] \in Numbers /\ n - 1 >= 2 /\ x[(n - 1) - 1] = Start
            <7>1. (n - 1) - 1 \in 1..m /\ ((n - 1) - 1) + 2 = n
              BY <3>1, <6>5
            <7>2. x[n] = End
              BY <1>5, <6>5, <7>1
            <7>3. i + 2 = Len(d) + 1 /\ i + 1 \in 1..Len(d) /\ i + 2 <= Len(d) + 1
              BY <4>4, <6>1, <6>5
            <7>4. s[i + 2] = End /\ s[i + 1] \in Numbers /\ i + 2 <= Len(s)
              BY <4>3, <6>5, <7>2, <7>3
            <7> QED
              BY <7>4 DEF CompleteAt
          <6> QED
            BY <4>1, <6>1, <6>2, <6>3, <6>4, <6>5 DEF Ends
        <5> QED
          BY <5>1, <5>2
      <4>6. done[n] = s
        BY <4>2 DEF s
      <4> QED
        BY <4>5, <4>6 DEF Ends
    <3> QED
      BY <3>3, <3>4
  <2> QED
    BY <2>1, <2>2
<1>7. N \in SUBSET Nat /\ \A n \in Nat : (\A k \in Nat : k < n => k \in N) => n \in N
  BY <1>6
<1> HIDE DEF N
<1>8. N = Nat
  BY <1>7, AllNumbers
<1>9. m \in Nat /\ m <= m
  BY <1>4
<1>10. \A n \in Nat : n <= m => Ends(x, n, done[n])
  BY <1>8 DEF N
<1>11. Ends(x, m, done[m])
  BY <1>9, <1>10
<1>12. ~ (m >= 1 /\ x[m] = Start)
  <2>1. m >= 1 => m \in 1..m /\ ~ (m + 2 <= m)
    <3> HIDE DEF m
    <3> QED
      BY <1>4
  <2> QED
    BY <1>5, <2>1
<1>13. ~ (m >= 2 /\ x[m - 1] = Start)
  <2>1. m >= 2 => m - 1 \in 1..m /\ ~ ((m - 1) + 2 <= m)
    <3> HIDE DEF m
    <3> QED
      BY <1>4
  <2> QED
    BY <1>5, <2>1
<1>14. Complete(done[m])
  BY <1>11, <1>12, <1>13 DEF Ends, Complete
<1> QED
  BY <1>2, <1>14 DEF Substituted

Marking(maps) ==
    /\ Len(maps) \in Nat
    /\ \A i \in 1..Len(maps) : Marks(maps[i].placeholder, maps[i].original)

LEMMA MarkingReplacesAll ==
    ASSUME NEW maps, Marking(maps)
    PROVE  ReplacesAll(Symbols, maps)
BY MarksReplaces DEF Marking, ReplacesAll

LEMMA CompleteJoins ==
    ASSUME NEW maps, Marking(maps), NEW x \in Seq(Symbols), Complete(x), NEW y \in Seq(Symbols)
    PROVE  Restore(maps, x \o y) = Restore(maps, x) \o Restore(maps, y)
<1> DEFINE C == {c \in Seq(Symbols) \X Seq(Symbols) : Complete(c[1])}
<1>1. KeepsCuts(Symbols, maps, C)
  <2> SUFFICES ASSUME NEW a \in Seq(Symbols), NEW b \in Seq(Symbols), <<a, b>> \in C,
                      NEW i \in 1..Len(maps)
               PROVE  /\ Seamless(a, b, maps[i].placeholder)
                      /\ <<Substitute(a, maps[i].placeholder, maps[i].original),
                           Substitute(b, maps[i].placeholder, maps[i].original)>> \in C
    BY DEF KeepsCuts
  <2> DEFINE old == maps[i].placeholder
             new == maps[i].original
  <2>1. Marks(old, new) /\ Complete(a)
    BY DEF Marking
  <2> HIDE DEF old, new
  <2>2. Replaces(Symbols, old, new)
    BY <2>1, MarksReplaces
  <2>3. Seamless(a, b, old) /\ Complete(Substitute(a, old, new))
    BY <2>1, CompleteIsSeamless, StaysComplete
  <2>4. Substitute(a, old, new) \in Seq(Symbols) /\ Substitute(b, old, new) \in Seq(Symbols)
    BY <2>2, SubstituteTyped
  <2>5. <<Substitute(a, old, new), Substitute(b, old, new)>> \in C
    BY <2>3, <2>4
  <2> QED
    BY <2>3, <2>5 DEF old, new
<1>2. <<x, y>> \in C
  OBVIOUS
<1> HIDE DEF C
<1>3. ReplacesAll(Symbols, maps)
  BY MarkingReplacesAll
<1> QED
  BY <1>1, <1>2, <1>3, RestoreJoins

LEMMA PlainHasNone ==
    ASSUME NEW t \in Seq(Symbols), Plain(t), NEW old, NEW new, Marks(old, new)
    PROVE  Substitute(t, old, new) = t
<1>1. Replaces(Symbols, old, new) /\ old[1] = Start
  BY MarksReplaces
<1>2. ASSUME NEW n \in 1..Len(t), EndsAtThree(t, n, old) PROVE FALSE
  <2>1. 3 <= n /\ t[n - 2] = Start
    BY <1>1, <1>2 DEF EndsAtThree
  <2>2. n - 2 \in 1..Len(t)
    BY <2>1
  <2> QED
    BY <2>1, <2>2 DEF Plain
<1> QED
  BY <1>1, <1>2, NothingToReplace

\* Restoring leaves a text without placeholders alone,
LEMMA RestorePlain ==
    ASSUME NEW maps, Marking(maps), NEW t \in Seq(Symbols), Plain(t)
    PROVE  Restore(maps, t) = t
<1>1. Len(maps) \in Nat
  BY DEF Marking
<1>2. PICK done : Restored(maps, t, done)
  BY <1>1, RestoreIs
<1> DEFINE m == Len(maps)
           N == {n \in Nat : n <= m => done[n] = t}
<1>3. ASSUME NEW n \in Nat, \A k \in Nat : k < n => k \in N, n <= m
      PROVE  done[n] = t
  <2>1. CASE n = 0
    BY <2>1, <1>2 DEF Restored
  <2>2. CASE n # 0
    <3>1. n \in 1..m /\ n - 1 \in Nat /\ n - 1 < n /\ n - 1 <= m
      BY <1>1, <1>3, <2>2
    <3>2. done[n] = Substitute(t, maps[n].placeholder, maps[n].original)
      BY <3>1, <1>2, <1>3 DEF Restored
    <3>3. Marks(maps[n].placeholder, maps[n].original)
      BY <3>1 DEF Marking
    <3> QED
      BY <3>2, <3>3, PlainHasNone
  <2> QED
    BY <2>1, <2>2
<1>4. N \in SUBSET Nat /\ \A n \in Nat : (\A k \in Nat : k < n => k \in N) => n \in N
  BY <1>3
<1> HIDE DEF N
<1>5. N = Nat
  BY <1>4, AllNumbers
<1>6. m \in Nat /\ m <= m
  BY <1>1
<1>7. \A n \in Nat : n <= m => done[n] = t
  BY <1>5 DEF N
<1> QED
  BY <1>2, <1>6, <1>7 DEF Restored

Distinct(maps) ==
    \A i, j \in 1..Len(maps) : i # j => maps[i].placeholder # maps[j].placeholder

\* A placeholder is a text of its own in which one placeholder is found.
LEMMA SubstituteAll ==
    ASSUME NEW old, NEW new, Marks(old, new)
    PROVE  Substitute(old, old, new) = new
<1>1. Replaces(Symbols, old, new)
  BY MarksReplaces
<1>2. old \in Seq(Symbols) /\ Len(old) = 3 /\ new \in Seq(Symbols)
  BY <1>1 DEF Replaces
<1>3. PICK done : Substituted(old, old, new, done)
  BY <1>1, <1>2, SubstituteIs
<1>4. 3 \in 1..Len(old) /\ 3 <= 3 /\ 3 - 2 = 1 /\ 3 - 1 = 2 /\ 3 - 3 = 0
  BY <1>2
<1>5. EndsAtThree(old, 3, old)
  BY <1>4 DEF EndsAtThree
<1>6. done[3] = done[0] \o new /\ done[0] = <<>>
  BY <1>3, <1>4, <1>5 DEF Substituted
<1>7. <<>> \o new = new
  BY <1>2, ConcatEmptySeq
<1> QED
  BY <1>2, <1>3, <1>6, <1>7 DEF Substituted

LEMMA SubstituteOther ==
    ASSUME NEW old, NEW new, Marks(old, new), NEW t, NEW u, Marks(t, u), t # old
    PROVE  Substitute(t, old, new) = t
<1>1. Replaces(Symbols, old, new) /\ Replaces(Symbols, t, u)
  BY MarksReplaces
<1>2. t \in Seq(Symbols) /\ Len(t) = 3 /\ old \in Seq(Symbols) /\ Len(old) = 3
  BY <1>1 DEF Replaces
<1>3. ASSUME NEW n \in 1..Len(t), EndsAtThree(t, n, old) PROVE FALSE
  <2>1. n = 3 /\ t[1] = old[1] /\ t[2] = old[2] /\ t[3] = old[3]
    <3>1. n = 3 /\ 3 - 2 = 1 /\ 3 - 1 = 2
      BY <1>2, <1>3 DEF EndsAtThree
    <3> QED
      BY <1>3, <3>1 DEF EndsAtThree
  <2>2. \A i \in 1..Len(t) : t[i] = old[i]
    <3>1. \A i \in 1..3 : i = 1 \/ i = 2 \/ i = 3
      OBVIOUS
    <3> QED
      BY <1>2, <2>1, <3>1
  <2> QED
    BY <1>2, <2>2, SeqEqual
<1> QED
  BY <1>1, <1>2, <1>3, NothingToReplace

\* and a placeholder becomes what it stands for, if no two are the same.
LEMMA RestoreOne ==
    ASSUME NEW maps, Marking(maps), Distinct(maps), NEW k \in 1..Len(maps)
    PROVE  Restore(maps, maps[k].placeholder) = maps[k].original
<1> DEFINE t == maps[k].placeholder
           u == maps[k].original
           m == Len(maps)
<1>1. m \in Nat
  BY DEF Marking
<1>2. PICK done : Restored(maps, t, done)
  BY <1>1, RestoreIs
<1>3. Marks(t, u) /\ u \in Seq(Symbols) /\ Plain(u)
  BY DEF Marking, Marks
<1> DEFINE N == {n \in Nat : n <= m => done[n] = IF n < k THEN t ELSE u}
<1>4. ASSUME NEW n \in Nat, \A j \in Nat : j < n => j \in N, n <= m
      PROVE  done[n] = IF n < k THEN t ELSE u
  <2>1. CASE n = 0
    BY <2>1, <1>2 DEF Restored
  <2>2. CASE n # 0
    <3>1. n \in 1..m /\ n - 1 \in Nat /\ n - 1 < n /\ n - 1 <= m
      BY <1>1, <1>4, <2>2
    <3> DEFINE old == maps[n].placeholder
               new == maps[n].original
    <3>2. done[n] = Substitute(done[n - 1], old, new)
      BY <3>1, <1>2 DEF Restored
    <3>3. Marks(old, new)
      BY <3>1 DEF Marking
    <3>4. n # k => t # old
      BY <3>1 DEF Distinct
    <3>5. n = k => t = old /\ u = new
      OBVIOUS
    <3>6. done[n - 1] = IF n - 1 < k THEN t ELSE u
      BY <1>4, <3>1
    <3> HIDE DEF t, u, old, new, m
    <3>7. CASE n < k
      <4>1. done[n - 1] = t /\ n # k
        BY <3>6, <3>7
      <4> QED
        BY <1>3, <3>2, <3>3, <3>4, <3>7, <4>1, SubstituteOther
    <3>8. CASE n = k
      <4>1. done[n - 1] = t /\ ~ (n < k)
        BY <3>6, <3>8
      <4> QED
        BY <1>3, <3>2, <3>5, <3>8, <4>1, SubstituteAll
    <3>9. CASE n > k
      <4>1. done[n - 1] = u /\ ~ (n < k)
        BY <3>6, <3>9
      <4> QED
        BY <1>3, <3>2, <3>3, <4>1, PlainHasNone
    <3> QED
      BY <3>7, <3>8, <3>9
  <2> QED
    BY <2>1, <2>2
<1>5. N \in SUBSET Nat /\ \A n \in Nat : (\A j \in Nat : j < n => j \in N) => n \in N
  BY <1>4
<1> HIDE DEF N
<1>6. N = Nat
  BY <1>5, AllNumbers
<1>7. m \in Nat /\ m <= m /\ ~ (m < k)
  BY <1>1
<1>8. \A n \in Nat : n <= m => done[n] = IF n < k THEN t ELSE u
  BY <1>6 DEF N
<1>9. done[m] = u
  BY <1>7, <1>8
<1> QED
  BY <1>2, <1>9 DEF Restored

\* A placeholder that a text has not leaves it as the others leave it.
LEMMA RestoreMore ==
    ASSUME NEW maps \in Seq(Mappings), NEW map \in Mappings, NEW t
    PROVE  Restore(Append(maps, map), t) = Substitute(Restore(maps, t), map.placeholder, map.original)
<1> DEFINE more == Append(maps, map)
           m == Len(maps)
<1>1. m \in Nat /\ Len(more) = m + 1 /\ more[m + 1] = map /\ \A i \in 1..m : more[i] = maps[i]
  BY AppendedTo
<1>2. PICK done : Restored(maps, t, done)
  BY <1>1, RestoreIs
<1> HIDE DEF more, m
<1>3. Len(more) \in Nat /\ m + 1 \in 1..(m + 1) /\ (m + 1) - 1 = m
  BY <1>1
<1>4. PICK doneM : Restored(more, t, doneM)
  BY <1>3, RestoreIs
<1> DEFINE N == {n \in Nat : n <= m => doneM[n] = done[n]}
<1>5. ASSUME NEW n \in Nat, \A j \in Nat : j < n => j \in N, n <= m
      PROVE  doneM[n] = done[n]
  <2>1. CASE n = 0
    BY <2>1, <1>2, <1>4 DEF Restored
  <2>2. CASE n # 0
    <3>1. n \in 1..m /\ n \in 1..(m + 1) /\ n - 1 \in Nat /\ n - 1 < n /\ n - 1 <= m
      BY <1>1, <1>5, <2>2
    <3>2. done[n] = Substitute(done[n - 1], maps[n].placeholder, maps[n].original)
      BY <3>1, <1>2 DEF Restored, m
    <3>3. doneM[n] = Substitute(doneM[n - 1], more[n].placeholder, more[n].original)
      BY <3>1, <1>1, <1>4 DEF Restored
    <3> QED
      BY <3>1, <3>2, <3>3, <1>1, <1>5
  <2> QED
    BY <2>1, <2>2
<1>6. N \in SUBSET Nat /\ \A n \in Nat : (\A j \in Nat : j < n => j \in N) => n \in N
  BY <1>5
<1> HIDE DEF N
<1>7. N = Nat
  BY <1>6, AllNumbers
<1>8. m \in Nat /\ m <= m
  BY <1>1
<1>9. \A n \in Nat : n <= m => doneM[n] = done[n]
  BY <1>7 DEF N
<1>10. doneM[m] = done[m]
  BY <1>8, <1>9
<1>11. doneM[m + 1] = Substitute(doneM[m], map.placeholder, map.original)
  BY <1>1, <1>3, <1>4 DEF Restored
<1>12. Restore(maps, t) = done[m]
  BY <1>2 DEF Restored, m
<1>13. Restore(more, t) = doneM[m + 1]
  BY <1>1, <1>4 DEF Restored
<1> QED
  BY <1>10, <1>11, <1>12, <1>13 DEF more

-----------------------------------------------------------------------------
(***************************************************************************)
(* Placeholders in a text.                                                 *)
(***************************************************************************)
Mapped(maps) ==
    /\ maps \in Seq(Mappings)
    /\ \A i \in 1..Len(maps) :
         /\ Plain(maps[i].original)
         /\ \E n \in Nat : /\ n <= Cardinality(Of(maps[i].type, maps))
                           /\ maps[i].placeholder = Placeholder(maps[i].type, n)
    /\ Distinct(maps)

LEMMA MappedMarks ==
    ASSUME NEW maps, Mapped(maps)
    PROVE  Marking(maps) /\ Distinct(maps)
<1>1. maps \in Seq(Mappings) /\ Len(maps) \in Nat
  BY DEF Mapped
<1>2. ASSUME NEW i \in 1..Len(maps) PROVE Marks(maps[i].placeholder, maps[i].original)
  <2>1. maps[i] \in Mappings
    BY <1>1, ElementOfSeq
  <2>2. maps[i].original \in Seq(Symbols) /\ maps[i].type \in Types
    BY <2>1 DEF Mappings
  <2> QED
    BY <2>2 DEF Mapped, Marks
<1> QED
  BY <1>1, <1>2 DEF Mapped, Marking

LEMMA OfIsFinite ==
    ASSUME NEW maps \in Seq(Mappings), NEW type
    PROVE  IsFiniteSet(Of(type, maps)) /\ Cardinality(Of(type, maps)) \in Nat /\ Of(type, maps) \subseteq 1..Len(maps)
<1>1. DOMAIN maps = 1..Len(maps) /\ Len(maps) \in Nat
  OBVIOUS
<1>2. IsFiniteSet(1..Len(maps))
  BY <1>1, FS_Interval
<1>3. Of(type, maps) \subseteq 1..Len(maps)
  BY <1>1 DEF Of
<1> QED
  BY <1>2, <1>3, FS_Subset, FS_CardinalityType

\* A placeholder tells the type and the number.
LEMMA SamePlaceholder ==
    ASSUME NEW a \in Types, NEW b \in Types, NEW m \in Nat, NEW n \in Nat,
           Placeholder(a, m) = Placeholder(b, n)
    PROVE  a = b /\ m = n
<1>1. Placeholder(a, m)[2] = <<a, m>> /\ Placeholder(b, n)[2] = <<b, n>>
  BY PlaceholderIs
<1>2. <<a, m>> = <<b, n>>
  BY <1>1
<1> QED
  BY <1>2

\* The mapping that an entity gets when its text has none.
NewMapping(type, original, maps) ==
    [placeholder |-> Placeholder(type, Cardinality(Of(type, maps)) + 1),
     original |-> original, type |-> type]

\* A new mapping has a placeholder of its own.
LEMMA NewMappingFits ==
    ASSUME NEW maps, Mapped(maps), NEW type \in Types, NEW original \in Seq(Symbols), Plain(original)
    PROVE  /\ NewMapping(type, original, maps) \in Mappings
           /\ Mapped(Append(maps, NewMapping(type, original, maps)))
           /\ Len(maps) + 1 \in Known(type, original, Append(maps, NewMapping(type, original, maps)))
<1> DEFINE c == Cardinality(Of(type, maps))
           map == NewMapping(type, original, maps)
           more == Append(maps, map)
           k == Len(maps)
<1>1. maps \in Seq(Mappings) /\ k \in Nat /\ DOMAIN maps = 1..k /\ c \in Nat /\ c + 1 \in Nat
  BY OfIsFinite DEF Mapped
<1>2. /\ map \in Mappings /\ map.placeholder = Placeholder(type, c + 1)
      /\ map.original = original /\ map.type = type
  BY <1>1, PlaceholderIs DEF NewMapping, Mappings
<1> HIDE DEF map
<1>3. /\ more \in Seq(Mappings) /\ Len(more) = k + 1 /\ more[k + 1] = map
      /\ \A i \in 1..k : more[i] = maps[i]
  BY <1>1, <1>2, AppendProperties
<1>4. DOMAIN more = 1..(k + 1)
  BY <1>3
<1> HIDE DEF more, k
<1>5. \A i \in 1..(k + 1) : i \in 1..k \/ i = k + 1
  BY <1>1
<1>6. \A i \in 1..k : i \in 1..(k + 1) /\ i # k + 1
  BY <1>1
<1>7. k + 1 \in 1..(k + 1)
  BY <1>1
<1>8. Of(type, more) = Of(type, maps) \union {k + 1}
  <2>1. \A i \in 1..(k + 1) : i \in Of(type, more) <=> i \in Of(type, maps) \/ i = k + 1
    BY <1>1, <1>2, <1>3, <1>4, <1>5, <1>6 DEF Of
  <2>2. Of(type, more) \subseteq 1..(k + 1) /\ Of(type, maps) \subseteq 1..(k + 1)
    BY <1>1, <1>4, <1>6 DEF Of
  <2> QED
    BY <1>7, <2>1, <2>2
<1>9. Cardinality(Of(type, more)) = c + 1
  <2>1. k + 1 \notin Of(type, maps)
    BY <1>1, <1>6 DEF Of
  <2>2. IsFiniteSet(Of(type, maps))
    BY <1>1, OfIsFinite
  <2> QED
    BY <1>8, <2>1, <2>2, FS_AddElement
<1>10. \A a : a # type => Of(a, more) = Of(a, maps)
  BY <1>1, <1>2, <1>3, <1>4, <1>5, <1>6 DEF Of
<1>11. \A i \in 1..k : /\ maps[i].type \in Types /\ Plain(maps[i].original)
                       /\ \E n \in Nat : /\ n <= Cardinality(Of(maps[i].type, maps))
                                         /\ maps[i].placeholder = Placeholder(maps[i].type, n)
  <2>1. \A i \in 1..k : maps[i] \in Mappings
    BY <1>1, ElementOfSeq DEF k
  <2>2. \A i \in 1..k : maps[i].type \in Types
    BY <2>1 DEF Mappings
  <2> QED
    BY <2>2 DEF Mapped, k
<1>12. \A i \in 1..(k + 1) :
         /\ Plain(more[i].original)
         /\ \E n \in Nat : /\ n <= Cardinality(Of(more[i].type, more))
                           /\ more[i].placeholder = Placeholder(more[i].type, n)
  <2> SUFFICES ASSUME NEW i \in 1..(k + 1)
               PROVE  /\ Plain(more[i].original)
                      /\ \E n \in Nat : /\ n <= Cardinality(Of(more[i].type, more))
                                        /\ more[i].placeholder = Placeholder(more[i].type, n)
    OBVIOUS
  <2>1. CASE i = k + 1
    <3>1. c + 1 <= c + 1
      BY <1>1
    <3> HIDE DEF c
    <3> QED
      BY <1>1, <1>2, <1>3, <1>9, <2>1, <3>1
  <2>2. CASE i \in 1..k
    <3>1. more[i] = maps[i]
      BY <1>3, <2>2
    <3>2. PICK n \in Nat : /\ n <= Cardinality(Of(maps[i].type, maps))
                           /\ maps[i].placeholder = Placeholder(maps[i].type, n)
      BY <1>11, <2>2
    <3>3. n <= Cardinality(Of(maps[i].type, more))
      <4>1. CASE maps[i].type = type
        <5>1. n <= c
          BY <3>2, <4>1
        <5> HIDE DEF c
        <5>2. n <= c + 1
          BY <1>1, <5>1
        <5> QED
          BY <1>9, <4>1, <5>2
      <4>2. CASE maps[i].type # type
        BY <1>10, <3>2, <4>2
      <4> QED
        BY <4>1, <4>2
    <3> QED
      BY <1>11, <2>2, <3>1, <3>2, <3>3
  <2> QED
    BY <1>5, <2>1, <2>2
<1>13. \A i \in 1..k : maps[i].placeholder # map.placeholder
  <2> SUFFICES ASSUME NEW i \in 1..k, maps[i].placeholder = map.placeholder PROVE FALSE
    OBVIOUS
  <2>1. PICK n \in Nat : /\ n <= Cardinality(Of(maps[i].type, maps))
                         /\ maps[i].placeholder = Placeholder(maps[i].type, n)
    BY <1>11
  <2>2. maps[i].type = type /\ n = c + 1
    BY <1>1, <1>2, <1>11, <2>1, SamePlaceholder
  <2>3. n <= c
    BY <2>1, <2>2
  <2> HIDE DEF c
  <2> QED
    BY <1>1, <2>2, <2>3
<1>14. Distinct(more)
  <2> SUFFICES ASSUME NEW i \in 1..(k + 1), NEW j \in 1..(k + 1), i # j
               PROVE  more[i].placeholder # more[j].placeholder
    BY <1>3 DEF Distinct
  <2>1. CASE i \in 1..k /\ j \in 1..k
    BY <1>3, <2>1 DEF Mapped, Distinct, k
  <2>2. CASE ~ (i \in 1..k /\ j \in 1..k)
    BY <1>3, <1>5, <1>13, <2>2
  <2> QED
    BY <2>1, <2>2
<1>15. Mapped(more)
  BY <1>3, <1>12, <1>14 DEF Mapped
<1>16. k + 1 \in Known(type, original, more)
  BY <1>2, <1>3, <1>8 DEF Known
<1> QED
  BY <1>2, <1>15, <1>16 DEF more, k, map

\* Whatever an entity's text had been replaced by before, it has one mapping, and
\* what was restored with the mappings before is restored with those after.
Grows(maps, more) ==
    \A t \in Seq(Symbols) : Plain(Restore(maps, t)) => Restore(more, t) = Restore(maps, t)

LEMMA WithMappingKeeps ==
    ASSUME NEW maps, Mapped(maps), NEW type \in Types, NEW original \in Seq(Symbols), Plain(original)
    PROVE  /\ Mapped(WithMapping(type, original, maps))
           /\ Known(type, original, WithMapping(type, original, maps)) # {}
           /\ Grows(maps, WithMapping(type, original, maps))
<1>1. CASE Known(type, original, maps) # {}
  <2>1. WithMapping(type, original, maps) = maps
    BY <1>1 DEF WithMapping
  <2> QED
    BY <1>1, <2>1 DEF Grows
<1>2. CASE Known(type, original, maps) = {}
  <2> DEFINE map == NewMapping(type, original, maps)
             more == Append(maps, map)
  <2>1. WithMapping(type, original, maps) = more
    BY <1>2 DEF WithMapping, NewMapping
  <2>2. map \in Mappings /\ Mapped(more) /\ Len(maps) + 1 \in Known(type, original, more)
    BY NewMappingFits
  <2>3. Grows(maps, more)
    <3> SUFFICES ASSUME NEW t \in Seq(Symbols), Plain(Restore(maps, t))
                 PROVE  Restore(more, t) = Restore(maps, t)
      BY DEF Grows
    <3>1. maps \in Seq(Mappings)
      BY DEF Mapped
    <3> HIDE DEF map
    <3>2. Restore(more, t) = Substitute(Restore(maps, t), map.placeholder, map.original)
      BY <2>2, <3>1, RestoreMore
    <3>3. Restore(maps, t) \in Seq(Symbols)
      BY MappedMarks, MarkingReplacesAll, RestoreTyped
    <3>4. Marks(map.placeholder, map.original)
      <4>1. Len(maps) \in Nat /\ Len(more) = Len(maps) + 1 /\ more[Len(maps) + 1] = map
        BY <2>2, <3>1, AppendedTo
      <4>2. Marking(more)
        BY <2>2, MappedMarks
      <4> HIDE DEF more
      <4>3. Len(maps) + 1 \in 1..Len(more)
        BY <4>1
      <4> QED
        BY <4>1, <4>2, <4>3 DEF Marking
    <3> QED
      BY <3>2, <3>3, <3>4, PlainHasNone
  <2> QED
    BY <2>1, <2>2, <2>3
<1> QED
  BY <1>1, <1>2

Doing(done) ==
    /\ done.text \in Seq(Symbols) /\ Complete(done.text)
    /\ done.cursor \in 0..Len(text)
    /\ Mapped(done.mappings)
    /\ Restore(done.mappings, done.text) = SubSeq(text, 1, done.cursor)

LEMMA PlainSlice ==
    ASSUME NEW t \in Seq(Symbols), Plain(t), NEW l \in Int, NEW r \in Int, l >= 1, r <= Len(t)
    PROVE  SubSeq(t, l, r) \in Seq(Symbols) /\ Plain(SubSeq(t, l, r))
<1>1. /\ SubSeq(t, l, r) \in Seq(Symbols)
      /\ Len(SubSeq(t, l, r)) = IF l <= r THEN r - l + 1 ELSE 0
      /\ \A i \in 1..(r - l + 1) : SubSeq(t, l, r)[i] = t[l + i - 1]
  BY Slice
<1>2. \A i \in 1..Len(SubSeq(t, l, r)) : i \in 1..(r - l + 1) /\ l + i - 1 \in 1..Len(t)
  <2>1. Len(t) \in Nat
    OBVIOUS
  <2> QED
    BY <1>1, <2>1
<1> QED
  BY <1>1, <1>2 DEF Plain

LEMMA CompleteAfter ==
    ASSUME NEW x \in Seq(Symbols), Complete(x), NEW y \in Seq(Symbols), Complete(y)
    PROVE  x \o y \in Seq(Symbols) /\ Complete(x \o y)
<1> DEFINE s == x \o y
           k == Len(x)
           m == Len(y)
<1>1. /\ s \in Seq(Symbols) /\ Len(s) = k + m
      /\ \A i \in 1..(k + m) : s[i] = IF i <= k THEN x[i] ELSE y[i - k]
  BY ConcatProperties
<1>2. k \in Nat /\ m \in Nat
  OBVIOUS
<1>3. /\ \A i \in 1..k : x[i] = Start => i + 2 <= k /\ x[i + 1] \in Numbers /\ x[i + 2] = End
      /\ \A i \in 1..m : y[i] = Start => i + 2 <= m /\ y[i + 1] \in Numbers /\ y[i + 2] = End
  BY DEF Complete, CompleteAt
<1> HIDE DEF s, k, m
<1>4. ASSUME NEW i \in 1..(k + m), s[i] = Start PROVE CompleteAt(s, i)
  <2>1. CASE i <= k
    <3>1. i \in 1..k
      BY <1>2, <2>1
    <3>2. x[i] = Start
      BY <1>1, <1>4, <2>1
    <3>3. i + 2 <= k /\ x[i + 1] \in Numbers /\ x[i + 2] = End
      BY <1>3, <3>1, <3>2
    <3>4. /\ i + 1 \in 1..(k + m) /\ i + 1 <= k /\ i + 2 \in 1..(k + m) /\ i + 2 <= k + m
      BY <1>2, <3>1, <3>3
    <3> QED
      BY <1>1, <3>3, <3>4 DEF CompleteAt
  <2>2. CASE ~ (i <= k)
    <3>1. i - k \in 1..m
      BY <1>2, <2>2
    <3>2. y[i - k] = Start
      BY <1>1, <1>4, <2>2
    <3>3. (i - k) + 2 <= m /\ y[(i - k) + 1] \in Numbers /\ y[(i - k) + 2] = End
      BY <1>3, <3>1, <3>2
    <3>4. /\ i + 1 \in 1..(k + m) /\ ~ (i + 1 <= k) /\ (i + 1) - k = (i - k) + 1
          /\ i + 2 \in 1..(k + m) /\ ~ (i + 2 <= k) /\ (i + 2) - k = (i - k) + 2
          /\ i + 2 <= k + m
      BY <1>2, <2>2, <3>1, <3>3
    <3> QED
      BY <1>1, <3>3, <3>4 DEF CompleteAt
  <2> QED
    BY <2>1, <2>2
<1> QED
  BY <1>1, <1>4 DEF Complete, s

LEMMA PlainIsComplete ==
    ASSUME NEW t, Plain(t)
    PROVE  Complete(t)
BY DEF Plain, Complete

LEMMA MarkIsComplete ==
    ASSUME NEW old, NEW new, Marks(old, new)
    PROVE  old \in Seq(Symbols) /\ Complete(old)
<1>1. /\ old \in Seq(Symbols) /\ Len(old) = 3
      /\ old[1] = Start /\ old[2] \in Numbers /\ old[3] = End
  BY MarksReplaces DEF Replaces
<1>2. \A i \in 1..3 : old[i] = Start => i = 1
  <2>1. \A i \in 1..3 : i = 1 \/ i = 2 \/ i = 3
    OBVIOUS
  <2> QED
    BY <1>1, <2>1, Symbolic
<1>3. CompleteAt(old, 1)
  BY <1>1 DEF CompleteAt
<1> QED
  BY <1>1, <1>2, <1>3 DEF Complete

-----------------------------------------------------------------------------
\* One hit more is replaced: what has been replaced so far can be restored.
LEMMA HitIsApplied ==
    ASSUME text \in Seq(Symbols), Plain(text), NEW done, Doing(done), NEW h \in HitsIn(text)
    PROVE  Doing(ApplyHit(done, h))
<1>1. CASE h.start < done.cursor
  BY <1>1 DEF ApplyHit
<1>2. CASE ~ (h.start < done.cursor)
  <2>1. /\ h.start \in Nat /\ h.end \in Nat /\ h.start < h.end /\ h.end <= Len(text)
        /\ Type(h) \in Types /\ Len(text) \in Nat
    BY DEF HitsIn, Type, Types
  <2>2. /\ done.cursor \in Nat /\ done.cursor <= h.start
        /\ done.text \in Seq(Symbols) /\ Complete(done.text) /\ Mapped(done.mappings)
        /\ Restore(done.mappings, done.text) = SubSeq(text, 1, done.cursor)
    BY <1>2, <2>1 DEF Doing
  <2> DEFINE original == SubSeq(text, h.start + 1, h.end)
             maps == WithMapping(Type(h), original, done.mappings)
             fits(i) == Known(Type(h), original, maps) # {} => maps[i].original = original
             n == CHOOSE i \in Of(Type(h), maps) : fits(i)
             between == SubSeq(text, done.cursor + 1, h.start)
             mark == maps[n].placeholder
             before == SubSeq(text, 1, done.cursor)
             new == [text |-> done.text \o between \o mark, cursor |-> h.end, mappings |-> maps]
  <2>3. ApplyHit(done, h) = new
    BY <1>2 DEF ApplyHit
  <2>4. original \in Seq(Symbols) /\ Plain(original)
    <3>1. h.start + 1 \in Int /\ h.end \in Int /\ h.start + 1 >= 1
      BY <2>1
    <3> QED
      BY <2>1, <3>1, PlainSlice
  <2>5. between \in Seq(Symbols) /\ Plain(between) /\ before \in Seq(Symbols) /\ Plain(before)
    <3>1. /\ done.cursor + 1 \in Int /\ h.start \in Int /\ done.cursor + 1 >= 1 /\ h.start <= Len(text)
          /\ 1 \in Int /\ done.cursor \in Int /\ 1 >= 1 /\ done.cursor <= Len(text)
      BY <2>1, <2>2
    <3> QED
      BY <3>1, PlainSlice
  <2>6. before \o (between \o original) = SubSeq(text, 1, h.end)
    <3>1. before \o between = SubSeq(text, 1, h.start)
      <4>1. 1 \in 1..(Len(text) + 1) /\ done.cursor \in (1 - 1)..Len(text) /\ h.start \in done.cursor..Len(text)
        BY <2>1, <2>2
      <4> QED
        BY <4>1, ConcatAdjacentSubSeq
    <3>2. SubSeq(text, 1, h.start) \o original = SubSeq(text, 1, h.end)
      <4>1. 1 \in 1..(Len(text) + 1) /\ h.start \in (1 - 1)..Len(text) /\ h.end \in h.start..Len(text)
        BY <2>1
      <4> QED
        BY <4>1, ConcatAdjacentSubSeq
    <3> HIDE DEF before, between, original
    <3>3. before \o (between \o original) = (before \o between) \o original
      BY <2>4, <2>5, ConcatAssociative, SMTT(60)
    <3> QED
      BY <3>1, <3>2, <3>3
  <2> HIDE DEF original, between, before
  <2>7. Mapped(maps) /\ Known(Type(h), original, maps) # {} /\ Grows(done.mappings, maps)
    BY <2>1, <2>2, <2>4, WithMappingKeeps
  <2> HIDE DEF maps
  <2>8. maps \in Seq(Mappings) /\ Of(Type(h), maps) \subseteq 1..Len(maps)
    <3>1. maps \in Seq(Mappings)
      BY <2>7 DEF Mapped
    <3> QED
      BY <3>1, OfIsFinite
  <2>9. n \in 1..Len(maps) /\ maps[n].original = original
    <3>1. \E i \in Of(Type(h), maps) : maps[i].original = original
      BY <2>7 DEF Known
    <3>2. \E i \in Of(Type(h), maps) : fits(i)
      BY <3>1
    <3> HIDE DEF fits
    <3>3. n \in Of(Type(h), maps) /\ fits(n)
      BY <3>2
    <3> HIDE DEF n
    <3>4. maps[n].original = original
      BY <2>7, <3>3 DEF fits
    <3> QED
      BY <2>8, <3>3, <3>4
  <2> HIDE DEF n
  <2>10. Marking(maps) /\ Distinct(maps) /\ Marking(done.mappings)
    BY <2>2, <2>7, MappedMarks
  <2>11. mark \in Seq(Symbols) /\ Complete(mark) /\ Restore(maps, mark) = original
    BY <2>9, <2>10, MarkIsComplete, RestoreOne DEF Marking
  <2> HIDE DEF mark
  <2> DEFINE plain == done.text \o between
  <2>12. plain \in Seq(Symbols) /\ Complete(plain)
    BY <2>2, <2>5, PlainIsComplete, CompleteAfter
  <2>13. Restore(maps, done.text) = before
    BY <2>2, <2>5, <2>7 DEF Grows, before
  <2>14. Restore(maps, plain) = before \o between
    <3>1. Restore(maps, done.text \o between) = Restore(maps, done.text) \o Restore(maps, between)
      BY <2>2, <2>5, <2>10, CompleteJoins
    <3>2. Restore(maps, between) = between
      BY <2>5, <2>10, RestorePlain
    <3> QED
      BY <2>13, <3>1, <3>2
  <2> HIDE DEF plain
  <2>15. plain \o mark \in Seq(Symbols) /\ Complete(plain \o mark)
    BY <2>11, <2>12, CompleteAfter
  <2>16. Restore(maps, plain \o mark) = SubSeq(text, 1, h.end)
    <3>1. Restore(maps, plain \o mark) = Restore(maps, plain) \o Restore(maps, mark)
      BY <2>10, <2>11, <2>12, CompleteJoins
    <3>2. (before \o between) \o original = before \o (between \o original)
      BY <2>4, <2>5, ConcatAssociative, SMTT(60)
    <3> QED
      BY <2>6, <2>11, <2>14, <3>1, <3>2
  <2>17. /\ new.text = plain \o mark /\ new.cursor = h.end /\ new.mappings = maps
    BY DEF plain
  <2>18. h.end \in 0..Len(text)
    BY <2>1
  <2> HIDE DEF new
  <2> QED
    BY <2>3, <2>7, <2>15, <2>16, <2>17, <2>18 DEF Doing
<1> QED
  BY <1>1, <1>2

Nothing == [text |-> <<>>, cursor |-> 0, mappings |-> <<>>]

ApplyStep(sorted, after, i) == IF i = 0 THEN Nothing ELSE ApplyHit(after[i - 1], sorted[i])

ApplySteps(sorted, after, m) == after = [i \in 0..m |-> ApplyStep(sorted, after, i)]

LEMMA ApplyStepsExist ==
    ASSUME NEW sorted, NEW m \in Nat
    PROVE  \E after : ApplySteps(sorted, after, m)
<1> DEFINE N == {n \in Nat : \E after : ApplySteps(sorted, after, n)}
<1>1. 0 \in N
  <2> DEFINE after == [n \in 0..0 |-> Nothing]
  <2>1. \A n \in 0..0 : n = 0
    OBVIOUS
  <2>2. after = [n \in 0..0 |-> ApplyStep(sorted, after, n)]
    BY <2>1 DEF ApplyStep
  <2> HIDE DEF after
  <2> QED
    BY <2>2 DEF ApplySteps
<1>2. ASSUME NEW n \in N PROVE n + 1 \in N
  <2>1. PICK after : ApplySteps(sorted, after, n)
    BY <1>2
  <2> DEFINE longer == [i \in 0..(n + 1) |-> ApplyStep(sorted, after, i)]
  <2>2. \A i \in 0..n : after[i] = ApplyStep(sorted, after, i)
    BY <2>1 DEF ApplySteps
  <2>3. \A i \in 0..(n + 1) : i # 0 => i - 1 \in 0..n
    OBVIOUS
  <2>4. \A i \in 0..n : i \in 0..(n + 1)
    OBVIOUS
  <2>5. \A i \in 0..n : longer[i] = after[i]
    BY <2>2, <2>4
  <2>6. \A i \in 0..(n + 1) : ApplyStep(sorted, after, i) = ApplyStep(sorted, longer, i)
    <3> HIDE DEF longer
    <3> QED
      BY <2>3, <2>5 DEF ApplyStep
  <2>7. longer = [i \in 0..(n + 1) |-> ApplyStep(sorted, longer, i)]
    <3>1. \A i \in 0..(n + 1) : longer[i] = ApplyStep(sorted, longer, i)
      BY <2>6
    <3>2. longer = [i \in 0..(n + 1) |-> longer[i]]
      OBVIOUS
    <3> HIDE DEF longer
    <3> QED
      BY <3>1, <3>2
  <2> HIDE DEF longer
  <2>8. ApplySteps(sorted, longer, n + 1)
    BY <2>7 DEF ApplySteps
  <2> QED
    BY <2>8
<1>3. N \in SUBSET Nat
  OBVIOUS
<1> HIDE DEF N
<1>4. ASSUME NEW n \in Nat, \A k \in Nat : k < n => k \in N PROVE n \in N
  <2>1. n = 0 \/ (n - 1 \in Nat /\ n - 1 < n /\ (n - 1) + 1 = n)
    OBVIOUS
  <2> QED
    BY <2>1, <1>1, <1>2, <1>4
<1>5. N = Nat
  BY <1>3, <1>4, AllNumbers
<1> QED
  BY <1>5 DEF N

LEMMA NothingIsDone ==
    ASSUME text \in Seq(Symbols)
    PROVE  Doing(Nothing)
<1> DEFINE none == <<>>
<1>1. none \in Seq(Symbols) /\ Len(none) = 0 /\ none \in Seq(Mappings) /\ 0 \in 0..Len(text)
  BY EmptySeq
<1>2. Nothing.text = none /\ Nothing.cursor = 0 /\ Nothing.mappings = none
  BY DEF Nothing
<1>3. SubSeq(text, 1, 0) = none
  BY SubSeqEmpty
<1> HIDE DEF none
<1>4. Complete(none) /\ Plain(none) /\ Mapped(none)
  BY <1>1 DEF Complete, Plain, Mapped, Distinct
<1>5. Restore(none, none) = none
  BY <1>1, <1>4, MappedMarks, RestorePlain
<1> QED
  BY <1>1, <1>2, <1>3, <1>4, <1>5 DEF Doing

\* All hits have been replaced.
LEMMA ApplyIsUndone ==
    ASSUME text \in Seq(Symbols), Plain(text), NEW sorted \in Seq(HitsIn(text))
    PROVE  Restore(Apply(sorted).mappings, Apply(sorted).text) = text
<1> DEFINE m == Len(sorted)
           after == CHOOSE f : ApplySteps(sorted, f, m)
           done == after[m]
           rest == SubSeq(text, done.cursor + 1, Len(text))
<1>1. m \in Nat
  OBVIOUS
<1>2. ApplySteps(sorted, after, m)
  <2> HIDE DEF m
  <2>1. \E f : ApplySteps(sorted, f, m)
    BY <1>1, ApplyStepsExist
  <2> QED
    BY <2>1
<1>3. Apply(sorted).text = done.text \o rest /\ Apply(sorted).mappings = done.mappings
  <2>1. Apply(sorted) = [text |-> done.text \o rest, mappings |-> done.mappings]
    BY DEF Apply, ApplySteps, ApplyStep, Nothing
  <2> HIDE DEF done, rest
  <2> QED
    BY <2>1
<1> HIDE DEF after
<1>4. \A i \in 0..m : after[i] = ApplyStep(sorted, after, i)
  BY <1>2 DEF ApplySteps
<1> DEFINE N == {n \in Nat : n <= m => Doing(after[n])}
<1>5. ASSUME NEW n \in Nat, \A j \in Nat : j < n => j \in N, n <= m
      PROVE  Doing(after[n])
  <2>1. n \in 0..m
    BY <1>1, <1>5
  <2>2. CASE n = 0
    BY <1>4, <2>1, <2>2, NothingIsDone DEF ApplyStep
  <2>3. CASE n # 0
    <3>1. n \in 1..m /\ n - 1 \in Nat /\ n - 1 < n /\ n - 1 <= m
      BY <1>1, <1>5, <2>3
    <3>2. Doing(after[n - 1])
      BY <1>5, <3>1
    <3>3. sorted[n] \in HitsIn(text)
      BY <3>1, ElementOfSeq
    <3>4. after[n] = ApplyHit(after[n - 1], sorted[n])
      BY <1>4, <2>1, <2>3 DEF ApplyStep
    <3>5. Doing(ApplyHit(after[n - 1], sorted[n]))
      BY <3>2, <3>3, HitIsApplied
    <3> QED
      BY <3>4, <3>5
  <2> QED
    BY <2>2, <2>3
<1>6. N \in SUBSET Nat /\ \A n \in Nat : (\A j \in Nat : j < n => j \in N) => n \in N
  BY <1>5
<1> HIDE DEF N
<1>7. N = Nat
  BY <1>6, AllNumbers
<1>8. m \in Nat /\ m <= m
  BY <1>1
<1>9. \A n \in Nat : n <= m => Doing(after[n])
  BY <1>7 DEF N
<1>10. Doing(done)
  BY <1>8, <1>9
<1> HIDE DEF done
<1>11. /\ done.text \in Seq(Symbols) /\ Complete(done.text)
       /\ done.cursor \in Nat /\ done.cursor <= Len(text)
       /\ Mapped(done.mappings)
       /\ Restore(done.mappings, done.text) = SubSeq(text, 1, done.cursor)
  BY <1>10 DEF Doing
<1>12. rest \in Seq(Symbols) /\ Plain(rest)
  <2>1. done.cursor + 1 \in Int /\ Len(text) \in Int /\ done.cursor + 1 >= 1 /\ Len(text) <= Len(text)
    BY <1>11
  <2> QED
    BY <2>1, PlainSlice
<1>13. SubSeq(text, 1, done.cursor) \o rest = text
  <2>1. 1 \in 1..(Len(text) + 1) /\ done.cursor \in (1 - 1)..Len(text) /\ Len(text) \in done.cursor..Len(text)
    BY <1>11
  <2>2. SubSeq(text, 1, done.cursor) \o rest = SubSeq(text, 1, Len(text))
    BY <2>1, ConcatAdjacentSubSeq
  <2> QED
    BY <2>2, SubSeqFull
<1>14. Marking(done.mappings)
  BY <1>11, MappedMarks
<1> HIDE DEF rest
<1>15. Restore(done.mappings, done.text \o rest) = Restore(done.mappings, done.text) \o Restore(done.mappings, rest)
  BY <1>11, <1>12, <1>14, CompleteJoins
<1>16. Restore(done.mappings, rest) = rest
  BY <1>12, <1>14, RestorePlain
<1>17. Restore(done.mappings, done.text \o rest) = text
  BY <1>11, <1>13, <1>15, <1>16
<1> QED
  BY <1>3, <1>17

UndoInv ==
    /\ text \in Seq(Symbols) /\ hits \subseteq HitsIn(text)
    /\ phase = "applied" /\ Start \notin ToSet(text) => Restore(mappings, answer) = text

LEMMA UndoInvariant == SanitizerSpec => []UndoInv
<1>1. SanitizerInit => UndoInv
  <2> SUFFICES ASSUME SanitizerInit PROVE UndoInv
    OBVIOUS
  <2>1. hits = {} /\ phase # "applied" /\ (text \in Texts \/ text = <<>>)
    BY DEF SanitizerInit, Request, Answer
  <2>2. <<>> \in Seq(Symbols)
    BY EmptySeq
  <2> QED
    BY <2>1, <2>2, SymbolsAssumption DEF UndoInv
<1>2. MergeInv /\ UndoInv /\ [SanitizerNext]_sanitizerVars => UndoInv'
  <2> SUFFICES ASSUME MergeInv, UndoInv, [SanitizerNext]_sanitizerVars PROVE UndoInv'
    OBVIOUS
  <2>1. CASE Recognize
    BY <2>1 DEF Recognize, UndoInv
  <2>2. CASE Recognized \/ Merge \/ AddNER
    <3>1. text' = text /\ hits' = hits /\ phase' # "applied"
      BY <2>2 DEF Recognized, Merge, AddNER
    <3> QED
      BY <3>1 DEF UndoInv
  <2>3. CASE ApplyPlaceholders
    <3>1. /\ text' = text /\ hits' = hits
          /\ mappings' = Apply(merged').mappings /\ answer' = Apply(merged').text
      BY <2>3 DEF ApplyPlaceholders
    <3>2. merged' \in Seq(hits)
      <4>1. MergeInv'
        BY <2>3, ApplyPlaceholdersKeeps
      <4> QED
        BY <3>1, <4>1 DEF MergeInv
    <3> DEFINE sorted == merged'
    <3>3. sorted \in Seq(HitsIn(text))
      BY <3>2 DEF UndoInv
    <3>4. mappings' = Apply(sorted).mappings /\ answer' = Apply(sorted).text
      BY <3>1
    <3> HIDE DEF sorted
    <3>5. ASSUME Start \notin ToSet(text) PROVE Restore(mappings', answer') = text
      <4>1. text \in Seq(Symbols)
        BY DEF UndoInv
      <4>2. Plain(text)
        <5>1. DOMAIN text = 1..Len(text)
          BY <4>1
        <5> QED
          BY <3>5, <5>1 DEF Plain, ToSet
      <4> QED
        BY <3>3, <3>4, <4>1, <4>2, ApplyIsUndone
    <3> QED
      BY <3>1, <3>5 DEF UndoInv
  <2>4. CASE \/ \E n \in 1..MaxDelta : \E delta \in [1..n -> Alphabet] : Push(delta)
             \/ Flush
    <3>1. text' = text /\ hits' = hits /\ phase' # "applied"
      BY <2>4 DEF Push, Flush
    <3> QED
      BY <3>1 DEF UndoInv
  <2>5. CASE UNCHANGED sanitizerVars
    BY <2>5 DEF sanitizerVars, UndoInv
  <2> QED
    BY <2>1, <2>2, <2>3, <2>4, <2>5 DEF SanitizerNext
<1> QED
  BY <1>1, <1>2, MergingInvariant, PTL DEF SanitizerSpec

(* What the placeholders replaced can be put back (placeholder.go): for any  *)
(* text in which nothing looks like a placeholder, and any number of hits,   *)
(* restoring the sanitised text gives the text.                              *)
THEOREM TextIsRestored == SanitizerSpec => []RestoreUndoesApply
<1>1. UndoInv => RestoreUndoesApply
  BY DEF UndoInv, RestoreUndoesApply
<1> QED
  BY <1>1, UndoInvariant, PTL
=============================================================================
