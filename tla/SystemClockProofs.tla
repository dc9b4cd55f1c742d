------------------------- MODULE SystemClockProofs -------------------------
(***************************************************************************)
(* For every width of the clock's numbers and every length of a second:    *)
(* the conversion of the kernel's time is exact below the last second of   *)
(* the range, so that the age admission computes is the time that passed.  *)
(***************************************************************************)
EXTENDS SystemClock, TLAPS

----------------------------------------------------------------------------
(* The conversion *)

\* Dividing a time into seconds and nanoseconds loses nothing.
LEMMA Division ==
  ASSUME NEW t \in Nat
  PROVE  /\ t \div NS_PER_SECOND \in Nat
         /\ t % NS_PER_SECOND \in 0 .. NS_PER_SECOND - 1
         /\ (t \div NS_PER_SECOND) * NS_PER_SECOND + (t % NS_PER_SECOND) = t
  <1>1. PICK d \in Nat \ {0} : d = NS_PER_SECOND
    BY ClockAssumption
  <1>2. /\ t \div d \in Nat /\ t % d \in 0 .. d - 1
        /\ d * (t \div d) + (t % d) = t
    OBVIOUS
  <1>3. d * (t \div d) = (t \div d) * d
    BY <1>2
  <1>. QED  BY <1>1, <1>2, <1>3

\* What wraps around is a number of the range; what lies in the range stays.
LEMMA WrappedIsInRange ==
  ASSUME NEW n \in Nat
  PROVE  /\ Wrapped(n) \in 0 .. UINT64_MAX
         /\ n <= UINT64_MAX => Wrapped(n) = n
  <1>1. PICK m \in Nat \ {0} : m = UINT64_MAX + 1
    BY ClockAssumption
  <1>2. n % m \in 0 .. m - 1 /\ (n < m => n % m = n)
    OBVIOUS
  <1>. QED  BY <1>1, <1>2, ClockAssumption DEF Wrapped

\* A sample is a number of the range, or the clock fails.
LEMMA SystemTimeType ==
  ASSUME NEW t \in Nat
  PROVE  SystemTime(t) \in 0 .. UINT64_MAX \union {NULL}
  <1>1. (t \div NS_PER_SECOND) * NS_PER_SECOND + (t % NS_PER_SECOND) \in Nat
    BY Division
  <1>. QED  BY <1>1, WrappedIsInRange DEF SystemTime

\* A smaller factor gives a smaller product.
LEMMA SmallerFactor ==
  ASSUME NEW i \in Nat, NEW j \in Nat, i < j, NEW d \in Nat
  PROVE  i * d + d <= j * d
  <1>1. PICK k \in Nat : j = i + 1 + k
    <2>1. j - i - 1 \in Nat /\ j = i + 1 + (j - i - 1)
      OBVIOUS
    <2>. QED  BY <2>1
  <1>2. (i + 1 + k) * d = i * d + d + k * d /\ k * d \in Nat /\ i * d \in Nat
    OBVIOUS
  <1>. QED  BY <1>1, <1>2

\* A full turn of the range is lost: unsigned subtraction gives the difference.
LEMMA OneTurnIsLost ==
  ASSUME NEW m \in Nat \ {0}, NEW a \in Nat, a < m
  PROVE  (a + m) % m = a
  <1>1. PICK q \in Nat, r \in 0 .. m - 1 :
          q = (a + m) \div m /\ r = (a + m) % m /\ q * m + r = a + m
    <2>1. PICK n \in Nat : n = a + m
      OBVIOUS
    <2>2. /\ n \div m \in Nat /\ n % m \in 0 .. m - 1
          /\ m * (n \div m) + (n % m) = n
      OBVIOUS
    <2>3. m * (n \div m) = (n \div m) * m
      BY <2>2
    <2>. QED  BY <2>1, <2>2, <2>3
  <1>2. q = 0 => q * m = 0
    OBVIOUS
  <1>3. q = 1 => q * m = m
    OBVIOUS
  <1>4. ASSUME 1 < q  PROVE FALSE
    <2>1. 1 * m + m <= q * m
      BY <1>4, SmallerFactor
    <2>2. q * m \in Nat /\ 1 * m = m
      OBVIOUS
    <2>. QED  BY <1>1, <2>1, <2>2
  <1>. QED  BY <1>1, <1>2, <1>3, <1>4

\* A successful sample before the last second is the kernel's time.
LEMMA ConversionIsExact ==
  ASSUME NEW t \in Nat, SystemTime(t) # NULL, BeforeLastSecond(t)
  PROVE  SystemTime(t) = t /\ t <= UINT64_MAX
  <1>. DEFINE d == NS_PER_SECOND
              s == t \div d
  <1>1. /\ s \in Nat /\ t % d \in 0 .. d - 1 /\ s * d + (t % d) = t
        /\ d \in Nat /\ UINT64_MAX \in Nat
    BY Division, ClockAssumption
  <1>2. SecondsFit(s) /\ SystemTime(t) = Wrapped(s * d + (t % d))
    BY DEF SystemTime
  <1>3. /\ LastSecond \in Nat /\ LastSecond * d <= UINT64_MAX
    <2>1. /\ UINT64_MAX \div d \in Nat /\ UINT64_MAX % d \in 0 .. d - 1
          /\ (UINT64_MAX \div d) * d + (UINT64_MAX % d) = UINT64_MAX
      BY <1>1, Division
    <2>. HIDE DEF d
    <2>2. (UINT64_MAX \div d) * d \in Nat
      BY <1>1, <2>1
    <2>. QED  BY <1>1, <2>1, <2>2 DEF LastSecond, d
  <1>4. s < LastSecond
    BY <1>1, <1>2, <1>3 DEF SecondsFit, LastSecond, BeforeLastSecond
  <1>. HIDE DEF d, s
  <1>5. s * d + d <= LastSecond * d
    BY <1>1, <1>3, <1>4, SmallerFactor
  <1>6. s * d \in Nat /\ LastSecond * d \in Nat
    BY <1>1, <1>3
  <1>7. t <= UINT64_MAX
    BY <1>1, <1>3, <1>5, <1>6
  <1>. QED  BY <1>1, <1>2, <1>7, WrappedIsInRange

----------------------------------------------------------------------------
(* The inductive invariant: the receipt time is the conversion of the      *)
(* kernel's clock at the receipt, and before the last second the samples   *)
(* are behind the kernel's clock, in their order.                          *)

ReceiptIsConverted == received # NULL => received = SystemTime(receipt)

BeforeTheLast(t) == t \div NS_PER_SECOND < LastSecond
SamplesAreBehind ==
  BeforeTheLast(now) => samples[1] <= samples[2] /\ samples[2] <= now

IInv == TypeOK /\ ReceiptIsConverted /\ SamplesAreBehind

LEMMA InitIInv == Init => IInv
  <1>1. ASSUME Init  PROVE IInv
    <2>1. now \in Nat /\ 0 \in 0 .. now /\ 0 \in 0 .. UINT64_MAX
      BY <1>1, ClockAssumption DEF Init
    <2>2. samples[1] = 0 /\ samples[2] = 0
      BY <1>1 DEF Init
    <2>3. TypeOK
      BY <1>1, <2>1 DEF Init, TypeOK
    <2>. QED
      BY <1>1, <2>1, <2>2, <2>3
         DEF Init, IInv, ReceiptIsConverted, SamplesAreBehind
  <1>. QED  BY <1>1

\* A later time is not in an earlier second.
LEMMA SecondsGrow ==
  ASSUME NEW t \in Nat, NEW u \in Nat, t <= u, BeforeTheLast(u)
  PROVE  BeforeTheLast(t)
  <1>. DEFINE d == NS_PER_SECOND
  <1>1. /\ t \div d \in Nat /\ t % d \in 0 .. d - 1
        /\ (t \div d) * d + (t % d) = t
        /\ u \div d \in Nat /\ u % d \in 0 .. d - 1
        /\ (u \div d) * d + (u % d) = u
        /\ d \in Nat
    BY Division, ClockAssumption
  <1>2. LastSecond \in Nat
    BY Division, ClockAssumption DEF LastSecond
  <1>3. PICK i \in Nat, j \in Nat : i = t \div d /\ j = u \div d
    BY <1>1
  <1>. HIDE DEF d
  <1>4. ASSUME j < i  PROVE FALSE
    <2>1. j * d + d <= i * d
      BY <1>1, <1>3, <1>4, SmallerFactor
    <2>2. j * d \in Nat /\ i * d \in Nat
      BY <1>1, <1>3
    <2>. QED  BY <1>1, <1>3, <2>1, <2>2
  <1>. QED  BY <1>2, <1>3, <1>4 DEF BeforeTheLast, d

\* A sample keeps the samples in order, up to the last second.
LEMMA SampleStep ==
  ASSUME IInv, NEW time, Sample(time), now' = now
  PROVE  /\ time \in 0 .. UINT64_MAX \union {NULL}
         /\ samples' \in (0 .. UINT64_MAX) \X (0 .. UINT64_MAX)
         /\ SamplesAreBehind'
  <1>1. /\ now \in Nat /\ UINT64_MAX \in Nat
        /\ samples \in (0 .. UINT64_MAX) \X (0 .. UINT64_MAX)
        /\ samples[1] \in 0 .. UINT64_MAX /\ samples[2] \in 0 .. UINT64_MAX
    BY ClockAssumption DEF IInv, TypeOK
  <1>2. time \in 0 .. UINT64_MAX \union {NULL} /\ time \in {SystemTime(now), NULL}
    BY <1>1, SystemTimeType DEF Sample
  <1>3. CASE time = NULL
    BY <1>1, <1>2, <1>3 DEF Sample, IInv, SamplesAreBehind
  <1>4. CASE time # NULL
    <2>1. /\ samples' = <<samples[2], time>> /\ time \in 0 .. UINT64_MAX
          /\ time = SystemTime(now)
      BY <1>2, <1>4 DEF Sample
    <2>2. samples'[1] = samples[2] /\ samples'[2] = time
      BY <2>1
    <2>3. ASSUME BeforeTheLast(now)
          PROVE  samples[2] <= time /\ time <= now
      <3>1. BeforeLastSecond(now)
        BY <2>3, Division, <1>1, ClockAssumption
           DEF BeforeTheLast, BeforeLastSecond, LastSecond
      <3>2. time = now
        BY <1>1, <1>4, <2>1, <3>1, ConversionIsExact
      <3>. QED  BY <1>1, <2>3, <3>2 DEF IInv, SamplesAreBehind
    <2>. QED  BY <1>1, <1>2, <2>1, <2>2, <2>3 DEF SamplesAreBehind
  <1>. QED  BY <1>3, <1>4

\* Every step keeps the invariant.
LEMMA StepIInv == IInv /\ [Next]_vars => IInv'
  <1>. SUFFICES ASSUME IInv, [Next]_vars  PROVE IInv'
    OBVIOUS
  <1>1. /\ now \in Nat /\ receipt \in Nat /\ LastTime \in Nat /\ TypeOK
        /\ receipt <= now
    BY ClockAssumption DEF IInv, TypeOK
  <1>2. CASE Tick
    <2>1. now' \in now + 1 .. LastTime
          /\ UNCHANGED <<received, outcome, receipt, limit, samples>>
      BY <1>2 DEF Tick
    <2>2. TypeOK'
      BY <1>1, <2>1 DEF TypeOK
    <2>3. SamplesAreBehind'
      <3>1. ASSUME BeforeTheLast(now')
            PROVE  samples[1] <= samples[2] /\ samples[2] <= now'
        <4>1. BeforeTheLast(now)
          BY <1>1, <2>1, <3>1, SecondsGrow
        <4>2. samples[2] \in Nat
          BY <1>1, ClockAssumption DEF TypeOK
        <4>. QED  BY <1>1, <2>1, <4>1, <4>2 DEF IInv, SamplesAreBehind
      <3>. QED  BY <2>1, <3>1 DEF SamplesAreBehind
    <2>. QED  BY <2>1, <2>2, <2>3 DEF IInv, ReceiptIsConverted
  <1>3. CASE Install
    <2>1. PICK time \in {SystemTime(now), NULL} :
            /\ Sample(time)
            /\ IF time = NULL THEN UNCHANGED <<received, receipt>>
               ELSE received' = time /\ receipt' = now
            /\ UNCHANGED <<now, outcome, limit>>
      BY <1>3 DEF Install
    <2>2. /\ time \in 0 .. UINT64_MAX \union {NULL}
          /\ samples' \in (0 .. UINT64_MAX) \X (0 .. UINT64_MAX)
          /\ SamplesAreBehind'
      BY <2>1, SampleStep
    <2>3. TypeOK' /\ ReceiptIsConverted'
      BY <1>1, <2>1, <2>2 DEF IInv, TypeOK, ReceiptIsConverted
    <2>. QED  BY <2>2, <2>3 DEF IInv
  <1>4. ASSUME NEW max_age \in Ages, Admit(max_age)
        PROVE  IInv'
    <2>1. PICK time \in {SystemTime(now), NULL} :
            Sample(time) /\ outcome' = Admission(time, max_age)
      BY <1>4 DEF Admit
    <2>2. /\ samples' \in (0 .. UINT64_MAX) \X (0 .. UINT64_MAX)
          /\ SamplesAreBehind'
      BY <1>4, <2>1, SampleStep DEF Admit
    <2>3. outcome' \in {"OK", "TOPOLOGY_STALE", "INTERNAL_ERROR"}
      BY <2>1 DEF Admission
    <2>4. /\ received # NULL /\ limit' = max_age
          /\ UNCHANGED <<now, received, receipt>>
      BY <1>4 DEF Admit
    <2>5. TypeOK' /\ ReceiptIsConverted'
      BY <1>1, <2>2, <2>3, <2>4 DEF IInv, TypeOK, ReceiptIsConverted
    <2>. QED  BY <2>2, <2>5 DEF IInv
  <1>5. CASE UNCHANGED vars
    BY <1>1, <1>5
       DEF vars, IInv, TypeOK, ReceiptIsConverted, SamplesAreBehind
  <1>. QED  BY <1>2, <1>3, <1>4, <1>5 DEF Next

LEMMA Invariance == Spec => []IInv
  BY InitIInv, StepIInv, PTL DEF Spec

----------------------------------------------------------------------------
\* Every sample and every receipt time is a number of 64 bits, there is an
\* outcome only if there is a snapshot, and no receipt lies in the future
\* (solana_delivery.c:653-682, solana_delivery_admission.c).
THEOREM ClockTypeCorrect == Spec => []TypeOK
  BY Invariance, PTL DEF IInv

\* The age that admission computes is the time that passed.
LEMMA StepMeasuresTime ==
  ASSUME IInv, NEW max_age \in Ages, Admit(max_age),
         BeforeLastSecond(receipt), BeforeLastSecond(now)
  PROVE  /\ outcome' = "OK" => now - receipt <= max_age
         /\ outcome' = "TOPOLOGY_STALE" => now - receipt > max_age
  <1>1. PICK time \in {SystemTime(now), NULL} :
          outcome' = Admission(time, max_age)
    BY DEF Admit
  <1>2. /\ now \in Nat /\ receipt \in Nat /\ receipt <= now
        /\ max_age \in Nat /\ UINT64_MAX \in Nat
        /\ received # NULL
    BY ClockAssumption DEF IInv, TypeOK, Admit
  <1>3. CASE time = NULL
    BY <1>1, <1>3 DEF Admission
  <1>4. CASE time # NULL
    <2>1. /\ time = now /\ now <= UINT64_MAX /\ received = receipt
      BY <1>1, <1>2, <1>4, ConversionIsExact DEF IInv, ReceiptIsConverted
    <2>2. Wrapped(time + (UINT64_MAX + 1) - received) = now - receipt
      <3>1. PICK m \in Nat \ {0} : m = UINT64_MAX + 1
        BY <1>2
      <3>2. PICK a \in Nat : a = now - receipt /\ a < m
        BY <1>2, <2>1, <3>1
      <3>3. (a + m) % m = a
        BY <3>2, OneTurnIsLost
      <3>4. time + (UINT64_MAX + 1) - received = a + m
        BY <1>2, <2>1, <3>1, <3>2
      <3>. QED  BY <3>1, <3>2, <3>3, <3>4 DEF Wrapped
    <2>3. outcome' = IF time < received THEN "INTERNAL_ERROR"
                     ELSE IF now - receipt > max_age
                          THEN "TOPOLOGY_STALE" ELSE "OK"
      BY <1>1, <1>4, <2>2 DEF Admission
    <2>. QED  BY <1>2, <2>3
  <1>. QED  BY <1>3, <1>4

\* No snapshot is admitted that is older than the caller allows and none
\* refused as stale that is not, for every width of the numbers and every
\* limit, up to the last second of the range (solana_delivery_admission.c:38-51,
\* solana_delivery.c:673-681).
THEOREM AdmissionIsExact == Spec => AdmissionMeasuresTime
  <1>1. IInv /\ [Next]_vars =>
          [\A max_age \in Ages :
             (Admit(max_age) /\ BeforeLastSecond(receipt)
                /\ BeforeLastSecond(now))
             => /\ outcome' = "OK" => now - receipt <= max_age
                /\ outcome' = "TOPOLOGY_STALE" => now - receipt > max_age]_vars
    BY StepMeasuresTime
  <1>. QED  BY <1>1, Invariance, PTL DEF Spec, AdmissionMeasuresTime

\* Before the last second of the range successive samples do not go back:
\* that second is the only one in which they may (solana_delivery.c:673-681).
THEOREM SamplesGoBackOnlyAtTheEnd ==
  Spec => [](BeforeTheLast(now) => SamplesNeverGoBack)
  <1>1. IInv => (BeforeTheLast(now) => SamplesNeverGoBack)
    BY DEF IInv, SamplesAreBehind, SamplesNeverGoBack
  <1>. QED  BY <1>1, Invariance, PTL
=============================================================================
