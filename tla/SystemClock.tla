---------------------------- MODULE SystemClock ----------------------------
(***************************************************************************)
(* Time, from clock_gettime to the age of a snapshot: the conversion of    *)
(* seconds and nanoseconds to one 64-bit number (system_monotonic_time_ns, *)
(* solana_delivery.c), the receipt time of an installed snapshot, and the  *)
(* age that admission compares with the caller's limit                     *)
(* (solana_delivery_admission.c).                                          *)
(*                                                                         *)
(* The kernel's clock never goes backwards and starts anywhere; it is      *)
(* counted here in nanoseconds, without a limit of its own.  All arithmetic*)
(* of the code is modulo 2^64.                                             *)
(***************************************************************************)
EXTENDS Naturals

CONSTANTS
  NULL,
  NS_PER_SECOND,   \* 1000000000 in the code
  UINT64_MAX,
  LastTime,        \* bound on the kernel's clock
  Ages             \* the limits max_topology_age_ns that callers pass

ASSUME ClockAssumption ==
  /\ NS_PER_SECOND \in Nat \ {0}
  /\ UINT64_MAX \in Nat
  /\ LastTime \in Nat
  /\ Ages \subseteq 1 .. UINT64_MAX
  /\ NULL \notin 0 .. UINT64_MAX

VARIABLES
  now,        \* the kernel's clock
  received,   \* the receipt time of the snapshot in use, or NULL
  outcome,    \* what the last admission returned
  (* history *)
  receipt,    \* the kernel's clock when that snapshot was received
  limit,      \* of the last admission
  samples     \* the last two successful samples, oldest first

vars == <<now, received, outcome, receipt, limit, samples>>

Wrapped(n) == n % (UINT64_MAX + 1)

----------------------------------------------------------------------------
\* The check of the seconds before they are multiplied.
FaultySecondsFit(seconds) == TRUE
SecondsFit(seconds) == seconds <= UINT64_MAX \div NS_PER_SECOND

\* system_monotonic_time_ns, if clock_gettime succeeds at time t: a number,
\* or NULL for INTERNAL_ERROR.
SystemTime(t) ==
  LET seconds     == t \div NS_PER_SECOND
      nanoseconds == t % NS_PER_SECOND
  IN  IF ~SecondsFit(seconds) THEN NULL
      ELSE Wrapped(seconds * NS_PER_SECOND + nanoseconds)

\* A call of the clock: it succeeds with the present time, or fails.
Sample(time) ==
  /\ time \in {SystemTime(now), NULL}
  /\ samples' = IF time = NULL THEN samples
                ELSE <<samples[2], time>>

\* solana_delivery_client_evaluate_submission_policy at sample time.
Admission(time, max_age) ==
  IF time = NULL \/ time < received THEN "INTERNAL_ERROR"
  ELSE IF Wrapped(time + (UINT64_MAX + 1) - received) > max_age
       THEN "TOPOLOGY_STALE" ELSE "OK"

----------------------------------------------------------------------------
Tick ==
  /\ now' \in now + 1 .. LastTime
  /\ UNCHANGED <<received, outcome, receipt, limit, samples>>

\* A snapshot is installed, unless the clock fails.
FaultyInstall ==
  \E time \in {SystemTime(now), NULL} :
    /\ Sample(time)
    /\ received' = time /\ receipt' = now
    /\ UNCHANGED <<now, outcome, limit>>
Install ==
  \E time \in {SystemTime(now), NULL} :
    /\ Sample(time)
    /\ IF time = NULL THEN UNCHANGED <<received, receipt>>
       ELSE received' = time /\ receipt' = now
    /\ UNCHANGED <<now, outcome, limit>>

Admit(max_age) ==
  /\ received # NULL
  /\ \E time \in {SystemTime(now), NULL} :
       /\ Sample(time)
       /\ outcome' = Admission(time, max_age)
       /\ limit' = max_age
  /\ UNCHANGED <<now, received, receipt>>

Init ==
  /\ now \in 0 .. LastTime
  /\ received = NULL /\ outcome = NULL
  /\ receipt = 0 /\ limit = 0
  /\ samples = <<0, 0>>

Next == Tick \/ Install \/ \E max_age \in Ages : Admit(max_age)

Spec == Init /\ [][Next]_vars

----------------------------------------------------------------------------
\* The second in which UINT64_MAX nanoseconds are over; the check of the
\* seconds lets it pass as a whole.
LastSecond == UINT64_MAX \div NS_PER_SECOND
BeforeLastSecond(t) == t \div NS_PER_SECOND # LastSecond

\* There is an outcome only if there is a snapshot.
TypeOK ==
  /\ now \in 0 .. LastTime
  /\ received \in 0 .. UINT64_MAX \union {NULL}
  /\ outcome \in {"OK", "TOPOLOGY_STALE", "INTERNAL_ERROR", NULL}
  /\ outcome # NULL => received # NULL
  /\ receipt \in 0 .. now
  /\ limit \in Ages \union {0}
  /\ samples \in (0 .. UINT64_MAX) \X (0 .. UINT64_MAX)

(***************************************************************************)
(* No snapshot is admitted that is older than the caller allows, and none  *)
(* refused as stale that is not: the difference of two converted samples   *)
(* is the time that really passed, up to the end of the clock's range,     *)
(* after which the clock fails (solana_delivery_admission.c:38-51,         *)
(* solana_delivery.c:673-681).  The last, incomplete second of the range   *)
(* is left out; see SamplesNeverGoBack.                                    *)
(***************************************************************************)
AdmissionMeasuresTime ==
  [][\A max_age \in Ages :
       (Admit(max_age) /\ BeforeLastSecond(receipt) /\ BeforeLastSecond(now))
       => /\ outcome' = "OK" => now - receipt <= max_age
          /\ outcome' = "TOPOLOGY_STALE" => now - receipt > max_age]_vars

(***************************************************************************)
(* Successive samples of the client's clock do not go back: receipt times, *)
(* ages and events rely on one monotonic clock domain (delivery.h:304,     *)
(* docs/architecture/0008:69).  The check of the seconds accepts the whole *)
(* last second, of which only a part fits 64 bits                          *)
(* (solana_delivery.c:673-679).                                            *)
(***************************************************************************)
SamplesNeverGoBack == samples[1] <= samples[2]
=============================================================================
