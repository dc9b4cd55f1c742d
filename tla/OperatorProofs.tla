--------------------------- MODULE OperatorProofs ---------------------------
(***************************************************************************)
(* What the operators without state compute, for inputs of every size:     *)
(* the checks of a snapshot, the ring of events, and the two passes of the *)
(* resolver and the planner.  The proofs about the queue and the client    *)
(* rest on these lemmas and expand none of those operators themselves.     *)
(***************************************************************************)
EXTENDS EventRing, TopologyValidation, RoutePlanning, RoutePlan,
        FiniteSetTheorems, SequenceTheorems, TLAPS

----------------------------------------------------------------------------
(* Runs of checks and the validation of snapshots. *)

\* A nonempty set of naturals has a least element.  It stands in for
\* induction: a smallest counterexample leads to a contradiction.  The
\* initial segments 1..i of its members are finite sets, and those have a
\* least one.
LEMMA LeastElement ==
  ASSUME NEW T \in SUBSET Nat, T # {}
  PROVE  \E i \in T : \A j \in T : i <= j
  <1>. DEFINE R == StrictSubsetOrdering(Nat)
              F == FiniteSubsetsOf(Nat)
              Segments == {1 .. i : i \in T}
  <1>1. IsWellFoundedOn(R, F)
    BY FS_StrictSubsetOrderingWellFounded
  <1>2. Segments \subseteq F /\ Segments # {}
    <2>1. \A i \in Nat : 1 .. i \in F
      BY FS_Interval DEF FiniteSubsetsOf
    <2>. QED  BY <2>1
  <1>3. PICK s \in Segments : \A u \in Segments : <<u, s>> \notin R
    <2>. HIDE DEF R, F, Segments
    <2>. QED  BY <1>1, <1>2, WFMin
  <1>4. PICK i \in T : s = 1 .. i
    OBVIOUS
  <1>5. ASSUME NEW j \in T
        PROVE  i <= j
    <2>1. i \in Nat /\ j \in Nat
      OBVIOUS
    <2>2. SUFFICES ASSUME j < i
                   PROVE  FALSE
      BY <2>1
    <2>3. 1 .. j \subseteq 1 .. i /\ 1 .. j # 1 .. i
      BY <2>1, <2>2
    <2>4. <<1 .. j, 1 .. i>> \in R
      BY <2>1, <2>3 DEF StrictSubsetOrdering
    <2>. QED  BY <1>3, <1>4, <2>4
  <1>. QED  BY <1>5

\* The first result that is not the pass mark is the result of the run.
LEMMA FirstOtherIs ==
  ASSUME NEW S, NEW pass, NEW results \in Seq(S), NEW i \in DOMAIN results,
         results[i] # pass, \A j \in 1 .. i - 1 : results[j] = pass
  PROVE  FirstOther(pass, results) = results[i]
  <1>. DEFINE others == {k \in DOMAIN results : results[k] # pass}
              first == CHOOSE k \in others : \A j \in others : k <= j
  <1>1. others \in SUBSET Nat /\ DOMAIN results = 1 .. Len(results)
        /\ Len(results) \in Nat
    BY LenProperties
  <1>2. i \in others
    OBVIOUS
  <1>3. first \in others /\ \A j \in others : first <= j
    BY <1>1, <1>2, LeastElement
  <1>4. first = i
    <2>1. first <= i
      BY <1>2, <1>3
    <2>2. first \notin 1 .. i - 1
      BY <1>3
    <2>3. first \in Nat /\ i \in Nat /\ first >= 1
      BY <1>1, <1>3
    <2>. HIDE DEF first
    <2>. QED  BY ONLY <2>1, <2>2, <2>3
  <1>5. FirstOther(pass, results) = results[first]
    BY <1>2 DEF FirstOther
  <1>. QED  BY <1>4, <1>5

\* A run passes, or ends at its first result that is not the pass mark.
LEMMA RunEnds ==
  ASSUME NEW S, NEW pass \in S, NEW results \in Seq(S)
  PROVE  \/ /\ FirstOther(pass, results) = pass
            /\ \A i \in DOMAIN results : results[i] = pass
         \/ \E i \in DOMAIN results :
              /\ FirstOther(pass, results) = results[i]
              /\ results[i] # pass
              /\ \A j \in 1 .. i - 1 : results[j] = pass
  <1>. DEFINE others == {i \in DOMAIN results : results[i] # pass}
  <1>1. CASE others = {}
    BY <1>1 DEF FirstOther
  <1>2. CASE others # {}
    <2>1. others \in SUBSET Nat /\ DOMAIN results = 1 .. Len(results)
          /\ Len(results) \in Nat
      BY LenProperties
    <2>2. PICK i \in others : \A j \in others : i <= j
      BY <1>2, <2>1, LeastElement
    <2>3. \A j \in 1 .. i - 1 : results[j] = pass
      <3>1. SUFFICES ASSUME NEW j \in 1 .. i - 1
                     PROVE  j \notin others /\ j \in DOMAIN results
        OBVIOUS
      <3>2. /\ i \in Nat /\ i <= Len(results)
            /\ j \in Nat /\ j >= 1 /\ j < i
        BY <2>1, <2>2
      <3>. HIDE DEF others
      <3>. QED  BY <2>1, <2>2, <3>2
    <2>4. FirstOther(pass, results) = results[i]
      BY <2>2, <2>3, FirstOtherIs
    <2>. QED  BY <2>2, <2>3, <2>4
  <1>. QED  BY <1>1, <1>2

\* A run of checks returns one of its results or the pass mark, and the pass
\* mark only if every check passed.
LEMMA RunOfChecks ==
  ASSUME NEW S, NEW pass \in S, NEW results \in Seq(S)
  PROVE  /\ FirstOther(pass, results) \in S
         /\ FirstOther(pass, results) = pass =>
              \A i \in DOMAIN results : results[i] = pass
  <1>1. \A i \in DOMAIN results : results[i] \in S
    BY ElementOfSeq, LenProperties
  <1>. QED  BY <1>1, RunEnds

\* Two runs one after the other: the second counts if the first passes.
LEMMA RunOfTwo ==
  ASSUME NEW S, NEW pass \in S, NEW r \in Seq(S), NEW s \in Seq(S)
  PROVE  FirstOther(pass, r \o s) =
           IF FirstOther(pass, r) = pass THEN FirstOther(pass, s)
           ELSE FirstOther(pass, r)
  <1>1. /\ r \o s \in Seq(S)
        /\ Len(r \o s) = Len(r) + Len(s)
        /\ \A i \in 1 .. Len(r) + Len(s) :
             (r \o s)[i] = IF i <= Len(r) THEN r[i] ELSE s[i - Len(r)]
    BY ConcatProperties
  <1>2. /\ Len(r) \in Nat /\ DOMAIN r = 1 .. Len(r)
        /\ Len(s) \in Nat /\ DOMAIN s = 1 .. Len(s)
        /\ DOMAIN (r \o s) = 1 .. Len(r) + Len(s)
    BY <1>1, LenProperties
  <1>3. ASSUME NEW i \in DOMAIN r, FirstOther(pass, r) = r[i], r[i] # pass,
               \A j \in 1 .. i - 1 : r[j] = pass
        PROVE  FirstOther(pass, r \o s) = FirstOther(pass, r)
    <2>. DEFINE both == r \o s
    <2>1. i \in DOMAIN both /\ both[i] = r[i]
      BY <1>1, <1>2
    <2>2. \A j \in 1 .. i - 1 : both[j] = pass
      BY <1>1, <1>2, <1>3
    <2>3. both \in Seq(S) /\ both[i] # pass
      BY <1>1, <1>3, <2>1
    <2>4. FirstOther(pass, both) = both[i]
      <3>. HIDE DEF both
      <3>. QED  BY <2>1, <2>2, <2>3, FirstOtherIs
    <2>. QED  BY <1>3, <2>1, <2>4
  <1>4. ASSUME \A j \in DOMAIN r : r[j] = pass, NEW i \in DOMAIN s,
               FirstOther(pass, s) = s[i], s[i] # pass,
               \A j \in 1 .. i - 1 : s[j] = pass
        PROVE  FirstOther(pass, r \o s) = FirstOther(pass, s)
    <2>. DEFINE both == r \o s
                k == i + Len(r)
    <2>1. k \in DOMAIN both /\ both[k] = s[i]
      BY <1>1, <1>2
    <2>2. ASSUME NEW j \in 1 .. k - 1
          PROVE  both[j] = pass
      <3>0. j \in Nat /\ j <= Len(r) + Len(s) /\ j >= 1
        BY <1>2
      <3>1. CASE j <= Len(r)
        BY <1>1, <1>2, <1>4, <3>0, <3>1
      <3>2. CASE j > Len(r)
        <4>1. j - Len(r) \in 1 .. i - 1 /\ both[j] = s[j - Len(r)]
          BY <1>1, <1>2, <3>0, <3>2
        <4>. QED  BY <1>4, <4>1
      <3>. QED  BY <1>2, <3>0, <3>1, <3>2
    <2>3. both \in Seq(S) /\ both[k] # pass
      BY <1>1, <1>4, <2>1
    <2>4. FirstOther(pass, both) = both[k]
      <3>. HIDE DEF both, k
      <3>. QED  BY <2>1, <2>2, <2>3, FirstOtherIs
    <2>. QED  BY <1>4, <2>1, <2>4
  <1>5. ASSUME \A j \in DOMAIN r : r[j] = pass, \A j \in DOMAIN s : s[j] = pass
        PROVE  FirstOther(pass, r \o s) = pass
    <2>1. \A j \in DOMAIN (r \o s) : (r \o s)[j] = pass
      <3>1. SUFFICES ASSUME NEW j \in DOMAIN (r \o s)
                     PROVE  (r \o s)[j] = pass
        OBVIOUS
      <3>2. CASE j <= Len(r)
        BY <1>1, <1>2, <1>5, <3>2
      <3>3. CASE j > Len(r)
        BY <1>1, <1>2, <1>5, <3>3
      <3>. QED  BY <1>2, <3>2, <3>3
    <2>. QED  BY <2>1 DEF FirstOther
  <1>6. CASE FirstOther(pass, r) = pass
    <2>1. \A j \in DOMAIN r : r[j] = pass
      BY <1>6, RunOfChecks
    <2>. QED  BY <1>4, <1>5, <1>6, <2>1, RunEnds
  <1>7. CASE FirstOther(pass, r) # pass
    BY <1>3, <1>7, RunEnds
  <1>. QED  BY <1>6, <1>7

\* What the checks of arguments return: never the status of a bug.
Refusals == Statuses \ {"INTERNAL_ERROR"}

----------------------------------------------------------------------------
(* Which snapshots are sound, said without an order of checks. *)

EndpointIsSound(e) ==
  /\ e.wellformed
  /\ e.address_family \in {"IPV4", "IPV6"}
  /\ e.transport = "QUIC"
  /\ e.role = "TPU"
  /\ e.address_family = "IPV4" => e.tail_is_zero

\* A caller of a later version may mean something by it: a field is set, to a
\* value this version does not know, and the fields before it are supported.
EndpointIsUnsupported(e) ==
  /\ e.wellformed
  /\ e.address_family # "UNSPEC"
  /\ e.address_family \in {"IPV4", "IPV6"} =>
       /\ e.transport # "UNSPEC"
       /\ e.transport = "QUIC" => e.role \notin {"UNSPEC", "TPU"}

AssociationIsSound(t, a) ==
  /\ a.wellformed
  /\ InRange(a.validator_index, t.validators)
  /\ InRange(a.endpoint_index, t.endpoints)

LeaderIsSound(t, l) ==
  /\ l.wellformed
  /\ InRange(l.validator_index, t.validators)
  /\ l.first_slot <= l.last_slot

SnapshotIsSound(t) ==
  /\ t.layout_ok
  /\ \A i \in DOMAIN t.validators : t.validators[i].wellformed
  /\ \A i \in DOMAIN t.endpoints : EndpointIsSound(t.endpoints[i])
  /\ \A i \in DOMAIN t.validator_endpoints :
       AssociationIsSound(t, t.validator_endpoints[i])
  /\ \A i \in DOMAIN t.leaders : LeaderIsSound(t, t.leaders[i])

\* The first endpoint that is not sound is one of a later version.
SnapshotIsUnsupported(t) ==
  /\ t.layout_ok
  /\ \A i \in DOMAIN t.validators : t.validators[i].wellformed
  /\ \E i \in DOMAIN t.endpoints :
       /\ EndpointIsUnsupported(t.endpoints[i])
       /\ \A j \in 1 .. i - 1 : EndpointIsSound(t.endpoints[j])

\* What validation can say.
Verdicts == {"OK", "INVALID_ARGUMENT", "UNSUPPORTED"}

\* The eight checks of an endpoint.
LEMMA EndpointVerdict ==
  ASSUME NEW e
  PROVE  /\ EndpointStatus(e) \in Verdicts
         /\ EndpointStatus(e) = "OK" <=> EndpointIsSound(e)
         /\ EndpointStatus(e) = "UNSUPPORTED" <=> EndpointIsUnsupported(e)
  <1>. DEFINE family == e.address_family
              b1 == e.wellformed
              b2 == e.address_family # "UNSPEC"
              b3 == e.address_family \in {"IPV4", "IPV6"}
              b4 == e.transport # "UNSPEC"
              b5 == e.transport = "QUIC"
              b6 == e.role # "UNSPEC"
              b7 == e.role = "TPU"
              b8 == e.address_family = "IPV4" => e.tail_is_zero
              checks == << Require(b1, "INVALID_ARGUMENT"),
                           Require(b2, "INVALID_ARGUMENT"),
                           Require(b3, "UNSUPPORTED"),
                           Require(b4, "INVALID_ARGUMENT"),
                           Require(b5, "UNSUPPORTED"),
                           Require(b6, "INVALID_ARGUMENT"),
                           Require(b7, "UNSUPPORTED"),
                           Require(b8, "INVALID_ARGUMENT") >>
              status == FirstOther("OK", checks)
  <1>1. EndpointStatus(e) = status
    BY DEF EndpointStatus, FirstError
  <1>2. /\ b3 => b2
        /\ b5 => b4
        /\ b7 => b6
    OBVIOUS
  <1>3. /\ EndpointIsSound(e) <=> b1 /\ b3 /\ b5 /\ b7 /\ b8
        /\ EndpointIsUnsupported(e) <=>
             b1 /\ b2 /\ (b3 => b4 /\ (b5 => b6 /\ ~b7))
    BY DEF EndpointIsSound, EndpointIsUnsupported
  <1>. HIDE DEF b1, b2, b3, b4, b5, b6, b7, b8
  <1>4. /\ checks[1] = IF b1 THEN "OK" ELSE "INVALID_ARGUMENT"
        /\ checks[2] = IF b2 THEN "OK" ELSE "INVALID_ARGUMENT"
        /\ checks[3] = IF b3 THEN "OK" ELSE "UNSUPPORTED"
        /\ checks[4] = IF b4 THEN "OK" ELSE "INVALID_ARGUMENT"
        /\ checks[5] = IF b5 THEN "OK" ELSE "UNSUPPORTED"
        /\ checks[6] = IF b6 THEN "OK" ELSE "INVALID_ARGUMENT"
        /\ checks[7] = IF b7 THEN "OK" ELSE "UNSUPPORTED"
        /\ checks[8] = IF b8 THEN "OK" ELSE "INVALID_ARGUMENT"
        /\ DOMAIN checks = 1 .. 8
    BY DEF Require
  <1>5. checks \in Seq(Verdicts)
    BY DEF Require, Verdicts
  <1>6. "OK" \in Verdicts
    BY DEF Verdicts
  <1>. HIDE DEF checks
  <1>7. CASE \A i \in DOMAIN checks : checks[i] = "OK"
    <2>1. status = "OK"
      BY <1>7 DEF FirstOther
    <2>2. b1 /\ b2 /\ b3 /\ b4 /\ b5 /\ b6 /\ b7 /\ b8
      BY ONLY <1>4, <1>7
    <2>. QED  BY <1>1, <1>2, <1>3, <2>1, <2>2 DEF Verdicts
  <1>8. ASSUME NEW i \in DOMAIN checks, status = checks[i], checks[i] # "OK",
               \A j \in 1 .. i - 1 : checks[j] = "OK"
        PROVE  /\ status \in {"INVALID_ARGUMENT", "UNSUPPORTED"}
               /\ ~EndpointIsSound(e)
               /\ status = "UNSUPPORTED" <=> EndpointIsUnsupported(e)
    <2>. HIDE DEF status
    <2>1. i \in {1, 2, 3, 4, 5, 6, 7, 8}
      BY <1>4
    <2>2. CASE i = 1
      BY <1>2, <1>3, <1>4, <1>8, <2>2
    <2>3. CASE i = 2
      <3>1. checks[1] = "OK"
        BY <1>8, <2>3
      <3>. QED  BY <1>2, <1>3, <1>4, <1>8, <2>3, <3>1
    <2>4. CASE i = 3
      <3>1. checks[1] = "OK" /\ checks[2] = "OK"
        BY <1>8, <2>4
      <3>. QED  BY <1>2, <1>3, <1>4, <1>8, <2>4, <3>1
    <2>5. CASE i = 4
      <3>1. \A j \in {1, 2, 3} : checks[j] = "OK"
        BY <1>8, <2>5
      <3>. QED  BY <1>2, <1>3, <1>4, <1>8, <2>5, <3>1
    <2>6. CASE i = 5
      <3>1. \A j \in {1, 2, 3, 4} : checks[j] = "OK"
        BY <1>8, <2>6
      <3>. QED  BY <1>2, <1>3, <1>4, <1>8, <2>6, <3>1
    <2>7. CASE i = 6
      <3>1. \A j \in {1, 2, 3, 4, 5} : checks[j] = "OK"
        BY <1>8, <2>7
      <3>. QED  BY <1>2, <1>3, <1>4, <1>8, <2>7, <3>1
    <2>8. CASE i = 7
      <3>1. \A j \in {1, 2, 3, 4, 5, 6} : checks[j] = "OK"
        BY <1>8, <2>8
      <3>. QED  BY <1>2, <1>3, <1>4, <1>8, <2>8, <3>1
    <2>9. CASE i = 8
      <3>1. \A j \in {1, 2, 3, 4, 5, 6, 7} : checks[j] = "OK"
        BY <1>8, <2>9
      <3>. QED  BY <1>2, <1>3, <1>4, <1>8, <2>9, <3>1
    <2>. QED  BY <2>1, <2>2, <2>3, <2>4, <2>5, <2>6, <2>7, <2>8, <2>9
  <1>9. \/ \A i \in DOMAIN checks : checks[i] = "OK"
        \/ \E i \in DOMAIN checks :
             /\ status = checks[i] /\ checks[i] # "OK"
             /\ \A j \in 1 .. i - 1 : checks[j] = "OK"
    BY <1>5, <1>6, RunEnds
  <1>. HIDE DEF status
  <1>10. CASE \E i \in DOMAIN checks :
                /\ status = checks[i] /\ checks[i] # "OK"
                /\ \A j \in 1 .. i - 1 : checks[j] = "OK"
    <2>1. /\ status \in {"INVALID_ARGUMENT", "UNSUPPORTED"}
          /\ ~EndpointIsSound(e)
          /\ status = "UNSUPPORTED" <=> EndpointIsUnsupported(e)
      BY <1>8, <1>10
    <2>. QED  BY <1>1, <2>1 DEF Verdicts
  <1>. QED  BY <1>7, <1>9, <1>10

\* The same for the other elements, which have one check.
LEMMA ElementVerdicts ==
  ASSUME NEW t, NEW x
  PROVE  /\ ValidatorStatus(x) = IF x.wellformed THEN "OK"
                                 ELSE "INVALID_ARGUMENT"
         /\ AssociationStatus(t, x) = IF AssociationIsSound(t, x) THEN "OK"
                                      ELSE "INVALID_ARGUMENT"
         /\ LeaderStatus(t, x) = IF LeaderIsSound(t, x) THEN "OK"
                                 ELSE "INVALID_ARGUMENT"
  BY DEF ValidatorStatus, AssociationStatus, LeaderStatus, Require,
         AssociationIsSound, LeaderIsSound

\* The loop over an array in which nothing is unsupported.
LEMMA RunOverArray ==
  ASSUME NEW a, IsArray(a), NEW f, f = [i \in DOMAIN a |-> f[i]],
         \A i \in DOMAIN a : f[i] \in {"OK", "INVALID_ARGUMENT"}
  PROVE  /\ f \in Seq(Verdicts)
         /\ FirstOther("OK", f) = IF \A i \in DOMAIN a : f[i] = "OK" THEN "OK"
                                  ELSE "INVALID_ARGUMENT"
  <1>1. f \in Seq(Verdicts)
    <2>1. PICK n \in Nat : DOMAIN a = 1 .. n
      BY DEF IsArray
    <2>2. f \in [1 .. n -> Verdicts]
      BY <2>1 DEF Verdicts
    <2>3. \A R, m \in Nat : \A g \in [1 .. m -> R] : g \in Seq(R)
      OBVIOUS
    <2>. QED  BY ONLY <2>2, <2>3
  <1>2. "OK" \in Verdicts /\ DOMAIN f = DOMAIN a
    BY DEF Verdicts
  <1>3. \/ /\ FirstOther("OK", f) = "OK"
           /\ \A i \in DOMAIN f : f[i] = "OK"
        \/ \E i \in DOMAIN f : FirstOther("OK", f) = f[i] /\ f[i] # "OK"
    BY <1>1, <1>2, RunEnds
  <1>. QED  BY <1>1, <1>2, <1>3

\* The loop over the endpoints.
LEMMA RunOverEndpoints ==
  ASSUME NEW a, IsArray(a), NEW f, f = [i \in DOMAIN a |-> f[i]],
         \A i \in DOMAIN a : f[i] = EndpointStatus(a[i])
  PROVE  /\ f \in Seq(Verdicts)
         /\ FirstOther("OK", f) \in Verdicts
         /\ FirstOther("OK", f) = "OK" <=>
              \A i \in DOMAIN a : EndpointIsSound(a[i])
         /\ FirstOther("OK", f) = "UNSUPPORTED" <=>
              \E i \in DOMAIN a :
                /\ EndpointIsUnsupported(a[i])
                /\ \A j \in 1 .. i - 1 : EndpointIsSound(a[j])
  <1>. DEFINE status == FirstOther("OK", f)
  <1>0. PICK n \in Nat : DOMAIN a = 1 .. n
    BY DEF IsArray
  <1>1. \A i \in DOMAIN a :
          /\ f[i] \in Verdicts
          /\ f[i] = "OK" <=> EndpointIsSound(a[i])
          /\ f[i] = "UNSUPPORTED" <=> EndpointIsUnsupported(a[i])
    BY EndpointVerdict
  <1>2. f \in Seq(Verdicts) /\ DOMAIN f = DOMAIN a
    <2>1. f \in [1 .. n -> Verdicts]
      BY <1>0, <1>1
    <2>2. \A R, m \in Nat : \A g \in [1 .. m -> R] : g \in Seq(R)
      OBVIOUS
    <2>3. f \in Seq(Verdicts)
      BY ONLY <2>1, <2>2
    <2>. QED  BY <2>3
  <1>3. "OK" \in Verdicts /\ "OK" # "UNSUPPORTED"
    BY DEF Verdicts
  <1>4. \/ /\ status = "OK"
           /\ \A i \in DOMAIN a : f[i] = "OK"
        \/ \E i \in DOMAIN a :
             /\ status = f[i] /\ f[i] # "OK"
             /\ \A j \in 1 .. i - 1 : f[j] = "OK"
    BY <1>2, <1>3, RunEnds
  <1>5. ASSUME NEW i \in DOMAIN a, f[i] = "UNSUPPORTED",
               \A j \in 1 .. i - 1 : f[j] = "OK"
        PROVE  status = "UNSUPPORTED"
    <2>1. i \in DOMAIN f /\ f[i] # "OK"
      BY <1>2, <1>3, <1>5
    <2>2. FirstOther("OK", f) = f[i]
      BY ONLY <1>2, <1>5, <2>1, FirstOtherIs
    <2>. QED  BY <1>5, <2>2
  <1>. HIDE DEF status
  <1>6. \A i \in DOMAIN a : \A j \in 1 .. i - 1 : j \in DOMAIN a
    BY <1>0
  <1>7. status \in Verdicts
    BY <1>1, <1>3, <1>4
  <1>8. status = "OK" <=> \A i \in DOMAIN a : EndpointIsSound(a[i])
    BY <1>1, <1>4
  <1>9. ASSUME status = "UNSUPPORTED"
        PROVE  \E i \in DOMAIN a :
                 /\ EndpointIsUnsupported(a[i])
                 /\ \A j \in 1 .. i - 1 : EndpointIsSound(a[j])
    BY <1>1, <1>3, <1>4, <1>6, <1>9
  <1>10. ASSUME NEW i \in DOMAIN a, EndpointIsUnsupported(a[i]),
                \A j \in 1 .. i - 1 : EndpointIsSound(a[j])
         PROVE  status = "UNSUPPORTED"
    <2>1. f[i] = "UNSUPPORTED" /\ \A j \in 1 .. i - 1 : f[j] = "OK"
      BY <1>1, <1>6, <1>10
    <2>. QED  BY <1>5, <2>1
  <1>. QED  BY <1>2, <1>7, <1>8, <1>9, <1>10 DEF status

\* Validation accepts exactly the sound snapshots, of every length, and says
\* UNSUPPORTED exactly when the first fault after the layout and the
\* validators is an endpoint of a family, transport or role that this version
\* does not know: neither the order of the four loops nor an early return
\* lets a fault through or blames a sound snapshot (solana_delivery.c:117-406).
THEOREM ValidationIsExact ==
  ASSUME NEW t, IsSnapshot(t)
  PROVE  /\ TopologyStatus(t) = "OK" <=> SnapshotIsSound(t)
         /\ TopologyStatus(t) = "UNSUPPORTED" <=> SnapshotIsUnsupported(t)
         /\ TopologyStatus(t) \in {"OK", "INVALID_ARGUMENT", "UNSUPPORTED"}
  <1>. DEFINE V == [i \in DOMAIN t.validators |-> ValidatorStatus(t.validators[i])]
              E == [i \in DOMAIN t.endpoints |-> EndpointStatus(t.endpoints[i])]
              A == [i \in DOMAIN t.validator_endpoints |->
                      AssociationStatus(t, t.validator_endpoints[i])]
              L == [i \in DOMAIN t.leaders |-> LeaderStatus(t, t.leaders[i])]
              SoundV == \A i \in DOMAIN t.validators : t.validators[i].wellformed
              SoundE == \A i \in DOMAIN t.endpoints :
                          EndpointIsSound(t.endpoints[i])
              SoundA == \A i \in DOMAIN t.validator_endpoints :
                          AssociationIsSound(t, t.validator_endpoints[i])
              SoundL == \A i \in DOMAIN t.leaders : LeaderIsSound(t, t.leaders[i])
              LaterE == \E i \in DOMAIN t.endpoints :
                          /\ EndpointIsUnsupported(t.endpoints[i])
                          /\ \A j \in 1 .. i - 1 : EndpointIsSound(t.endpoints[j])
              status == FirstOther("OK", V \o E \o A \o L)
  <1>1. /\ IsArray(t.validators) /\ IsArray(t.endpoints)
        /\ IsArray(t.validator_endpoints) /\ IsArray(t.leaders)
    BY DEF IsSnapshot
  <1>2. /\ V \in Seq(Verdicts)
        /\ FirstOther("OK", V) = IF SoundV THEN "OK" ELSE "INVALID_ARGUMENT"
    <2>1. /\ V = [i \in DOMAIN t.validators |-> V[i]]
          /\ \A i \in DOMAIN t.validators :
               V[i] = IF t.validators[i].wellformed THEN "OK"
                      ELSE "INVALID_ARGUMENT"
      BY ElementVerdicts
    <2>. HIDE DEF V
    <2>2. \A i \in DOMAIN t.validators :
            /\ V[i] \in {"OK", "INVALID_ARGUMENT"}
            /\ V[i] = "OK" <=> t.validators[i].wellformed
      BY <2>1
    <2>3. /\ V \in Seq(Verdicts)
          /\ FirstOther("OK", V) =
               IF \A i \in DOMAIN t.validators : V[i] = "OK" THEN "OK"
               ELSE "INVALID_ARGUMENT"
      BY <1>1, <2>1, <2>2, RunOverArray
    <2>. QED  BY <2>2, <2>3
  <1>3. /\ E \in Seq(Verdicts)
        /\ FirstOther("OK", E) \in Verdicts
        /\ FirstOther("OK", E) = "OK" <=> SoundE
        /\ FirstOther("OK", E) = "UNSUPPORTED" <=> LaterE
    <2>1. /\ E = [i \in DOMAIN t.endpoints |-> E[i]]
          /\ \A i \in DOMAIN t.endpoints : E[i] = EndpointStatus(t.endpoints[i])
      OBVIOUS
    <2>. HIDE DEF E
    <2>. QED  BY <1>1, <2>1, RunOverEndpoints
  <1>4. /\ A \in Seq(Verdicts)
        /\ FirstOther("OK", A) = IF SoundA THEN "OK" ELSE "INVALID_ARGUMENT"
    <2>1. /\ A = [i \in DOMAIN t.validator_endpoints |-> A[i]]
          /\ \A i \in DOMAIN t.validator_endpoints :
               A[i] = IF AssociationIsSound(t, t.validator_endpoints[i])
                      THEN "OK" ELSE "INVALID_ARGUMENT"
      BY ElementVerdicts
    <2>. HIDE DEF A
    <2>2. \A i \in DOMAIN t.validator_endpoints :
            /\ A[i] \in {"OK", "INVALID_ARGUMENT"}
            /\ A[i] = "OK" <=> AssociationIsSound(t, t.validator_endpoints[i])
      BY <2>1
    <2>3. /\ A \in Seq(Verdicts)
          /\ FirstOther("OK", A) =
               IF \A i \in DOMAIN t.validator_endpoints : A[i] = "OK" THEN "OK"
               ELSE "INVALID_ARGUMENT"
      BY <1>1, <2>1, <2>2, RunOverArray
    <2>. QED  BY <2>2, <2>3
  <1>5. /\ L \in Seq(Verdicts)
        /\ FirstOther("OK", L) = IF SoundL THEN "OK" ELSE "INVALID_ARGUMENT"
    <2>1. /\ L = [i \in DOMAIN t.leaders |-> L[i]]
          /\ \A i \in DOMAIN t.leaders :
               L[i] = IF LeaderIsSound(t, t.leaders[i]) THEN "OK"
                      ELSE "INVALID_ARGUMENT"
      BY ElementVerdicts
    <2>. HIDE DEF L
    <2>2. \A i \in DOMAIN t.leaders :
            /\ L[i] \in {"OK", "INVALID_ARGUMENT"}
            /\ L[i] = "OK" <=> LeaderIsSound(t, t.leaders[i])
      BY <2>1
    <2>3. /\ L \in Seq(Verdicts)
          /\ FirstOther("OK", L) =
               IF \A i \in DOMAIN t.leaders : L[i] = "OK" THEN "OK"
               ELSE "INVALID_ARGUMENT"
      BY <1>1, <2>1, <2>2, RunOverArray
    <2>. QED  BY <2>2, <2>3
  <1>6. /\ TopologyStatus(t) = IF ~t.layout_ok THEN "INVALID_ARGUMENT"
                               ELSE status
        /\ SnapshotIsSound(t) <=>
             t.layout_ok /\ SoundV /\ SoundE /\ SoundA /\ SoundL
        /\ SnapshotIsUnsupported(t) <=> t.layout_ok /\ SoundV /\ LaterE
    BY DEF TopologyStatus, FirstError, SnapshotIsSound, SnapshotIsUnsupported
  <1>. HIDE DEF V, E, A, L, SoundV, SoundE, SoundA, SoundL, LaterE
  <1>7. status = IF ~SoundV THEN "INVALID_ARGUMENT"
                 ELSE IF ~SoundE THEN FirstOther("OK", E)
                 ELSE IF ~SoundA THEN "INVALID_ARGUMENT"
                 ELSE IF ~SoundL THEN "INVALID_ARGUMENT"
                 ELSE "OK"
    <2>. DEFINE VE == V \o E
                VEA == VE \o A
    <2>1. "OK" \in Verdicts
      BY DEF Verdicts
    <2>2. VE \in Seq(Verdicts)
      BY <1>2, <1>3, ConcatProperties
    <2>3. FirstOther("OK", VE) = IF FirstOther("OK", V) = "OK"
                                 THEN FirstOther("OK", E)
                                 ELSE FirstOther("OK", V)
      BY <1>2, <1>3, <2>1, RunOfTwo
    <2>. HIDE DEF VE
    <2>4. VEA \in Seq(Verdicts)
      BY <1>4, <2>2, ConcatProperties
    <2>5. FirstOther("OK", VEA) = IF FirstOther("OK", VE) = "OK"
                                  THEN FirstOther("OK", A)
                                  ELSE FirstOther("OK", VE)
      BY <1>4, <2>1, <2>2, RunOfTwo
    <2>. HIDE DEF VEA
    <2>6. FirstOther("OK", VEA \o L) = IF FirstOther("OK", VEA) = "OK"
                                       THEN FirstOther("OK", L)
                                       ELSE FirstOther("OK", VEA)
      BY <1>5, <2>1, <2>4, RunOfTwo
    <2>7. status = FirstOther("OK", VEA \o L)
      BY DEF VEA, VE
    <2>. HIDE DEF status
    <2>. QED  BY <1>2, <1>3, <1>4, <1>5, <2>3, <2>5, <2>6, <2>7
  <1>. HIDE DEF status
  <1>. QED  BY <1>3, <1>6, <1>7 DEF Verdicts

\* What callers of validation use of it.
LEMMA SnapshotStatus ==
  ASSUME NEW t, IsSnapshot(t)
  PROVE  TopologyStatus(t) \in Refusals
  BY ValidationIsExact DEF Refusals, Statuses

\* No index inside a snapshot that passed validation leaves its array and no
\* leader range is empty, for arrays of every length (solana_delivery.c:210-257):
\* what the resolver and the copy of targets rely on.
THEOREM ValidSnapshotsAreClosed ==
  ASSUME NEW t, IsSnapshot(t), TopologyStatus(t) = "OK"
  PROVE  /\ \A i \in DOMAIN t.validator_endpoints :
              /\ InRange(t.validator_endpoints[i].validator_index, t.validators)
              /\ InRange(t.validator_endpoints[i].endpoint_index, t.endpoints)
         /\ \A i \in DOMAIN t.leaders :
              /\ InRange(t.leaders[i].validator_index, t.validators)
              /\ t.leaders[i].first_slot <= t.leaders[i].last_slot
  <1>1. SnapshotIsSound(t)
    BY ValidationIsExact
  <1>. QED  BY <1>1 DEF SnapshotIsSound, AssociationIsSound, LeaderIsSound

----------------------------------------------------------------------------
(* The ring of events. *)

\* The events a ring holds form a sequence of the length count says.
LEMMA ContentsType ==
  ASSUME NEW E, NEW q \in Ring(E), NEW n \in 0 .. QueueCapacity
  PROVE  /\ Oldest(q, n) \in Seq(E \union {NoEvent})
         /\ Len(Oldest(q, n)) = n
         /\ DOMAIN Oldest(q, n) = 1 .. n
  <1>1. q.head \in Nat /\ q.entries \in [Slots -> E \union {NoEvent}]
    BY QueueCapacityAssumption DEF Ring, Slots
  <1>2. ASSUME NEW i \in 1 .. n
        PROVE  q.entries[(q.head + i - 1) % QueueCapacity] \in E \union {NoEvent}
    <2>1. PICK a \in Nat : a = q.head + i - 1
      BY <1>1
    <2>2. a % QueueCapacity \in Slots
      BY QueueCapacityAssumption DEF Slots
    <2>. QED  BY <2>1, <2>2, <1>1
  <1>. QED  BY <1>2, QueueCapacityAssumption DEF Oldest

\* A ring with room takes an event: it stays a ring, and the event becomes
\* the newest of those it holds.
LEMMA PushAppends ==
  ASSUME NEW E, NEW q \in Ring(E), HasCapacity(q), NEW e \in E
  PROVE  /\ Push(q, e) \in Ring(E)
         /\ Contents(Push(q, e)) = Append(Contents(q), e)
  <1>. DEFINE p == Push(q, e)
  <1>1. /\ QueueCapacity \in Nat /\ QueueCapacity # 0
        /\ q.head \in Nat /\ q.head < QueueCapacity
        /\ q.count \in Nat /\ q.count < QueueCapacity
        /\ q.entries \in [Slots -> E \union {NoEvent}]
    BY QueueCapacityAssumption DEF Ring, Slots, HasCapacity
  <1>2. TailSlot(q) \in Slots
    BY <1>1 DEF TailSlot, Slots
  <1>3. p = [entries |-> [q.entries EXCEPT ![TailSlot(q)] = e],
             head |-> q.head, count |-> q.count + 1]
    BY DEF Push
  <1>. HIDE DEF p
  <1>4. p \in Ring(E)
    <2>1. [q.entries EXCEPT ![TailSlot(q)] = e] \in [Slots -> E \union {NoEvent}]
      BY <1>1, <1>2
    <2>2. q.head \in Slots /\ q.count + 1 \in 0 .. QueueCapacity
      BY <1>1 DEF Slots
    <2>. QED  BY <2>1, <2>2, <1>3 DEF Ring
  <1>5. ASSUME NEW i \in 1 .. q.count
        PROVE  p.entries[(q.head + i - 1) % QueueCapacity]
               = q.entries[(q.head + i - 1) % QueueCapacity]
    <2>1. PICK k \in Nat : k = i - 1 /\ k < q.count
      BY <1>1
    <2>2. (q.head + k) % QueueCapacity # TailSlot(q)
      <3>1. (q.head + k) % QueueCapacity
            = IF q.head + k < QueueCapacity THEN q.head + k
                                            ELSE q.head + k - QueueCapacity
        BY <2>1, <1>1
      <3>2. TailSlot(q)
            = IF q.head + q.count < QueueCapacity
                THEN q.head + q.count ELSE q.head + q.count - QueueCapacity
        BY <1>1 DEF TailSlot
      <3>. QED  BY <3>1, <3>2, <2>1, <1>1
    <2>3. (q.head + k) % QueueCapacity \in Slots
      BY <2>1, <1>1 DEF Slots
    <2>4. q.head + i - 1 = q.head + k
      BY <2>1, <1>1
    <2>. QED  BY <2>2, <2>3, <2>4, <1>1, <1>2, <1>3
  <1>6. p.entries[(q.head + (q.count + 1) - 1) % QueueCapacity] = e
    <2>1. q.head + (q.count + 1) - 1 = q.head + q.count
      BY <1>1
    <2>. QED  BY <2>1, <1>1, <1>2, <1>3 DEF TailSlot
  <1>7. Contents(p) = Append(Contents(q), e)
    <2>. DEFINE S == E \union {NoEvent}
    <2>1. /\ Contents(q) \in Seq(S) /\ Len(Contents(q)) = q.count
          /\ Contents(p) \in Seq(S) /\ Len(Contents(p)) = q.count + 1
      <3>1. p.count = q.count + 1 /\ p.count \in 0 .. QueueCapacity
        BY <1>1, <1>3
      <3>2. q.count \in 0 .. QueueCapacity
        BY <1>1
      <3>. QED  BY <3>1, <3>2, <1>4, ContentsType DEF Contents
    <2>2. /\ Append(Contents(q), e) \in Seq(S)
          /\ Len(Append(Contents(q), e)) = q.count + 1
          /\ \A i \in 1 .. q.count : Append(Contents(q), e)[i] = Contents(q)[i]
          /\ Append(Contents(q), e)[q.count + 1] = e
      BY <2>1, AppendProperties
    <2>3. \A i \in 1 .. q.count : Contents(p)[i] = Contents(q)[i]
      BY <1>1, <1>3, <1>5 DEF Contents, Oldest
    <2>4. Contents(p)[q.count + 1] = e
      BY <1>1, <1>3, <1>6 DEF Contents, Oldest
    <2>5. \A i \in 1 .. q.count + 1 : Contents(p)[i] = Append(Contents(q), e)[i]
      BY <2>2, <2>3, <2>4, <1>1
    <2>. QED  BY <2>1, <2>2, <2>5, SeqEqual
  <1>. QED  BY <1>4, <1>7 DEF p

\* Sequences of one length with the same elements are the same.
LEMMA SameSequence ==
  ASSUME NEW S, NEW n \in Nat, NEW r \in Seq(S), NEW s \in Seq(S),
         Len(r) = n, Len(s) = n, \A i \in 1 .. n : r[i] = s[i]
  PROVE  r = s
  BY SeqEqual

\* Taking the n oldest events: the ring stays a ring, what is copied is the
\* prefix of length n and what is left is the rest.
LEMMA DrainDrops ==
  ASSUME NEW E, NEW q \in Ring(E), NEW n \in 0 .. q.count
  PROVE  /\ Drain(q, n) \in Ring(E)
         /\ Oldest(q, n) = SubSeq(Contents(q), 1, n)
         /\ Contents(Drain(q, n)) = SubSeq(Contents(q), n + 1, q.count)
  <1>. DEFINE p == Drain(q, n)
              S == E \union {NoEvent}
  <1>1. /\ QueueCapacity \in Nat /\ QueueCapacity # 0
        /\ q.head \in Nat /\ q.head < QueueCapacity
        /\ q.count \in Nat /\ q.count <= QueueCapacity
        /\ q.entries \in [Slots -> S]
        /\ n \in Nat /\ n <= q.count
    BY QueueCapacityAssumption DEF Ring, Slots
  <1>2. p = [entries |-> q.entries,
             head |-> IF q.count = n THEN 0 ELSE (q.head + n) % QueueCapacity,
             count |-> q.count - n]
    BY DEF Drain
  <1>. HIDE DEF p
  <1>3. p \in Ring(E)
    <2>1. (q.head + n) % QueueCapacity \in Slots /\ 0 \in Slots
      BY <1>1 DEF Slots
    <2>2. q.count - n \in 0 .. QueueCapacity
      BY <1>1
    <2>. QED  BY <2>1, <2>2, <1>1, <1>2 DEF Ring
  <1>4. /\ Contents(q) \in Seq(S) /\ Len(Contents(q)) = q.count
        /\ Oldest(q, n) \in Seq(S) /\ Len(Oldest(q, n)) = n
        /\ Contents(p) \in Seq(S) /\ Len(Contents(p)) = q.count - n
    <2>1. p.count = q.count - n /\ p.count \in 0 .. QueueCapacity
      BY <1>1, <1>2
    <2>2. q.count \in 0 .. QueueCapacity /\ n \in 0 .. QueueCapacity
      BY <1>1
    <2>. QED  BY <2>1, <2>2, <1>3, ContentsType DEF Contents
  <1>5. \A i \in 1 .. q.count : Contents(q)[i] \in S
    BY <1>4, ElementOfSeq
  <1>6. Oldest(q, n) = SubSeq(Contents(q), 1, n)
    <2>1. /\ SubSeq(Contents(q), 1, n) \in Seq(S)
          /\ Len(SubSeq(Contents(q), 1, n)) = n
          /\ \A i \in 1 .. n : SubSeq(Contents(q), 1, n)[i] = Contents(q)[i]
      BY <1>1, <1>5, SubSeqProperties
    <2>2. \A i \in 1 .. n : Oldest(q, n)[i] = Contents(q)[i]
      BY <1>1 DEF Contents, Oldest
    <2>. QED  BY <2>1, <2>2, <1>4, SeqEqual
  <1>7. Contents(p) = SubSeq(Contents(q), n + 1, q.count)
    <2>1. /\ SubSeq(Contents(q), n + 1, q.count) \in Seq(S)
          /\ Len(SubSeq(Contents(q), n + 1, q.count)) = q.count - n
          /\ \A i \in 1 .. q.count - n :
                 SubSeq(Contents(q), n + 1, q.count)[i] = Contents(q)[n + i]
      BY <1>1, <1>5, SubSeqProperties
    <2>2. ASSUME NEW i \in 1 .. q.count - n
          PROVE  Contents(p)[i] = Contents(q)[n + i]
      <3>1. PICK k \in Nat : k = i - 1 /\ n + k < q.count
        BY <1>1
      <3>2. /\ Contents(p)[i] = q.entries[(p.head + i - 1) % QueueCapacity]
            /\ Contents(q)[n + i] = q.entries[(q.head + (n + i) - 1) % QueueCapacity]
        <4>1. i \in 1 .. p.count /\ n + i \in 1 .. q.count
          BY <1>1, <1>2
        <4>2. Contents(p)[i] = q.entries[(p.head + i - 1) % QueueCapacity]
          BY <1>2, <4>1 DEF Contents, Oldest
        <4>3. Contents(q)[n + i]
              = q.entries[(q.head + (n + i) - 1) % QueueCapacity]
          BY ONLY <4>1 DEF Contents, Oldest
        <4>. QED  BY ONLY <4>2, <4>3
      <3>3. p.head = (q.head + n) % QueueCapacity /\ p.head \in Nat
        BY <3>1, <1>1, <1>2
      <3>4. p.head + i - 1 = p.head + k /\ q.head + (n + i) - 1 = q.head + (n + k)
        BY <3>1, <3>3, <1>1
      <3>5. (((q.head + n) % QueueCapacity) + k) % QueueCapacity
            = (q.head + (n + k)) % QueueCapacity
        <4>0. /\ q.head \in Nat /\ n \in Nat /\ QueueCapacity \in Nat
              /\ q.head + n < 2 * QueueCapacity
          BY <1>1
        <4>. DEFINE b == (q.head + n) % QueueCapacity
        <4>1. b = IF q.head + n < QueueCapacity THEN q.head + n
                                                ELSE q.head + n - QueueCapacity
          <5>1. PICK a \in Nat : a = q.head + n /\ a < 2 * QueueCapacity
            BY <4>0
          <5>2. a % QueueCapacity
                = IF a < QueueCapacity THEN a ELSE a - QueueCapacity
            BY <5>1, QueueCapacityAssumption
          <5>. QED  BY <5>1, <5>2, <4>0
        <4>2. (q.head + (n + k)) % QueueCapacity
              = IF q.head + (n + k) < QueueCapacity
                  THEN q.head + (n + k) ELSE q.head + (n + k) - QueueCapacity
          BY <3>1, <1>1
        <4>3. b \in Nat /\ b + k < 2 * QueueCapacity
          BY <4>1, <3>1, <1>1
        <4>. HIDE DEF b
        <4>4. (b + k) % QueueCapacity
              = IF b + k < QueueCapacity THEN b + k ELSE b + k - QueueCapacity
          BY <4>3, <3>1, <1>1
        <4>5. CASE q.head + n < QueueCapacity
          <5>1. b + k = q.head + (n + k)
            BY <4>1, <4>5, <4>0, <3>1
          <5>. QED  BY <5>1, <4>2, <4>4 DEF b
        <4>6. CASE ~(q.head + n < QueueCapacity)
          <5>1. b + k = q.head + (n + k) - QueueCapacity
            BY <4>1, <4>6, <4>0, <3>1
          <5>2. ~(q.head + (n + k) < QueueCapacity) /\ b + k < QueueCapacity
            BY <5>1, <4>6, <4>0, <3>1, <1>1
          <5>. QED  BY <5>1, <5>2, <4>2, <4>4 DEF b
        <4>. QED  BY <4>5, <4>6
      <3>6. Contents(p)[i] = q.entries[(p.head + k) % QueueCapacity]
        BY <3>2, <3>4
      <3>7. Contents(q)[n + i] = q.entries[(q.head + (n + k)) % QueueCapacity]
        BY <3>2, <3>4
      <3>. QED  BY ONLY <3>3, <3>5, <3>6, <3>7
    <2>. DEFINE L    == q.count - n
                left == Contents(p)
                rest == SubSeq(Contents(q), n + 1, q.count)
    <2>3. /\ L \in Nat /\ left \in Seq(S) /\ rest \in Seq(S)
          /\ Len(left) = L /\ Len(rest) = L
      BY <1>1, <1>4, <2>1
    <2>4. \A i \in 1 .. L : left[i] = rest[i]
      BY <2>1, <2>2
    <2>. HIDE DEF L, left, rest
    <2>5. left = rest
      BY ONLY <2>3, <2>4, SameSequence
    <2>. QED  BY ONLY <2>5 DEF left, rest
  <1>. QED  BY <1>3, <1>6, <1>7 DEF p

----------------------------------------------------------------------------
(* Flattening, the shape of every loop that writes what passes a test. *)

\* The first m partial concatenations of s.
PartialFlat(S, s, m, f) ==
  /\ f \in [1 .. m -> Seq(S)]
  /\ \A i \in 1 .. m : f[i] = IF i = 1 THEN s[i] ELSE f[i - 1] \o s[i]

\* The recursion of FlattenSeq has a solution: a shortest sequence of
\* sequences without one could be extended from the one before it.
LEMMA PartialFlatExists ==
  ASSUME NEW S, NEW n \in Nat, NEW s \in [1 .. n -> Seq(S)]
  PROVE  \E f : PartialFlat(S, s, n, f)
  <1>. DEFINE T == {m \in 0 .. n : ~\E f : PartialFlat(S, s, m, f)}
  <1>1. CASE T = {}
    BY <1>1, n \in 0 .. n
  <1>2. CASE T # {}
    <2>1. T \in SUBSET Nat
      OBVIOUS
    <2>2. PICK m \in T : \A j \in T : m <= j
      <3>. HIDE DEF T
      <3>. QED  BY <1>2, <2>1, LeastElement
    <2>3. m # 0
      <3>1. PartialFlat(S, s, 0, [i \in 1 .. 0 |-> << >>])
        BY DEF PartialFlat
      <3>. QED  BY <3>1
    <2>4. PICK k \in 0 .. n : m = k + 1 /\ k \notin T
      <3>1. m - 1 \in 0 .. n /\ m = (m - 1) + 1 /\ ~(m <= m - 1)
        BY <2>3
      <3>. QED  BY <3>1, <2>2
    <2>5. PICK f : PartialFlat(S, s, k, f)
      BY <2>4
    <2>. DEFINE last == IF m = 1 THEN s[m] ELSE f[k] \o s[m]
                g == [i \in 1 .. m |-> IF i = m THEN last ELSE f[i]]
    <2>6. last \in Seq(S)
      <3>1. m \in 1 .. n /\ s[m] \in Seq(S)
        BY <2>3
      <3>2. m # 1 => k \in 1 .. k
        BY <2>3, <2>4
      <3>3. m # 1 => f[k] \in Seq(S)
        BY <3>2, <2>5 DEF PartialFlat
      <3>. QED  BY <3>1, <3>3, ConcatProperties
    <2>. HIDE DEF last
    <2>7. g \in [1 .. m -> Seq(S)]
      BY <2>4, <2>5, <2>6 DEF PartialFlat
    <2>8. ASSUME NEW i \in 1 .. m
          PROVE  g[i] = IF i = 1 THEN s[i] ELSE g[i - 1] \o s[i]
      <3>1. CASE i = m
        <4>1. m # 1 => m - 1 \in 1 .. m /\ m - 1 # m /\ m - 1 = k
          BY <2>3, <2>4
        <4>. QED  BY <3>1, <4>1 DEF last
      <3>2. CASE i # m
        <4>1. i \in 1 .. k /\ (i # 1 => i - 1 \in 1 .. m /\ i - 1 # m)
          BY <2>4, <3>2
        <4>. QED  BY <3>2, <4>1, <2>5 DEF PartialFlat
      <3>. QED  BY <3>1, <3>2
    <2>9. PartialFlat(S, s, m, g)
      <3>. HIDE DEF g
      <3>. QED  BY <2>7, <2>8 DEF PartialFlat
    <2>. QED  BY <2>2, <2>9
  <1>. QED  BY <1>1, <1>2

\* FlattenSeq is the last of them.
LEMMA FlattenIsLast ==
  ASSUME NEW S, NEW n \in Nat, NEW s \in [1 .. n -> Seq(S)]
  PROVE  \E f : /\ PartialFlat(S, s, n, f)
                /\ SeqExt!FlattenSeq(s) = IF n = 0 THEN << >> ELSE f[n]
  <1>. DEFINE Body(f) == [i \in 1 .. n |-> IF i = 1 THEN s[i]
                                           ELSE f[i - 1] \o s[i]]
              flat == CHOOSE f : f = Body(f)
  <1>1. Len(s) = n /\ (n = 0 => s = << >>)
    OBVIOUS
  <1>2. PICK f : PartialFlat(S, s, n, f)
    BY PartialFlatExists
  <1>3. f = Body(f)
    BY <1>2 DEF PartialFlat
  <1>4. flat = Body(flat)
    BY <1>3
  <1>5. SeqExt!FlattenSeq(s) = IF n = 0 THEN << >> ELSE flat[n]
    BY <1>1 DEF SeqExt!FlattenSeq
  <1>. HIDE DEF flat
  <1>6. \A i \in 1 .. n : flat[i] = f[i]
    <2>. DEFINE T == {i \in 1 .. n : flat[i] # f[i]}
    <2>1. SUFFICES ASSUME T # {}  PROVE FALSE
      OBVIOUS
    <2>2. T \in SUBSET Nat
      OBVIOUS
    <2>3. PICK i \in T : \A j \in T : i <= j
      <3>. HIDE DEF T
      <3>. QED  BY <2>1, <2>2, LeastElement
    <2>4. /\ flat[i] = IF i = 1 THEN s[i] ELSE flat[i - 1] \o s[i]
          /\ f[i] = IF i = 1 THEN s[i] ELSE f[i - 1] \o s[i]
      BY <1>3, <1>4
    <2>5. i # 1 => i - 1 \in 1 .. n /\ ~(i <= i - 1)
      OBVIOUS
    <2>. QED  BY <2>3, <2>4, <2>5
  <1>. QED  BY <1>2, <1>5, <1>6

\* Where the parts of s begin in the flat sequence.
FlatPositions(s, n, P) ==
  /\ P \in [0 .. n -> Nat]
  /\ P[0] = 0
  /\ \A i \in 1 .. n : P[i] = P[i - 1] + Len(s[i])

\* A sequence that holds the parts of s where P says.
HoldsParts(flat, s, n, P) ==
  /\ Len(flat) = P[n]
  /\ \A i \in 1 .. n : \A j \in 1 .. Len(s[i]) :
       flat[P[i - 1] + j] = s[i][j]

\* A later part does not begin before an earlier one.
LEMMA PositionsIncrease ==
  ASSUME NEW S, NEW n \in Nat, NEW s \in [1 .. n -> Seq(S)], NEW P,
         FlatPositions(s, n, P), NEW i \in 0 .. n, NEW m \in i .. n
  PROVE  P[i] <= P[m]
  <1>. DEFINE T == {k \in i .. n : ~(P[i] <= P[k])}
  <1>1. SUFFICES ASSUME T # {}  PROVE FALSE
    OBVIOUS
  <1>2. T \in SUBSET Nat
    OBVIOUS
  <1>3. PICK k \in T : \A j \in T : k <= j
    <2>. HIDE DEF T
    <2>. QED  BY <1>1, <1>2, LeastElement
  <1>4. \A j \in 0 .. n : P[j] \in Nat
    BY DEF FlatPositions
  <1>5. k # i
    BY <1>4
  <1>6. k - 1 \in i .. n /\ k \in 1 .. n /\ ~(k <= k - 1)
    BY <1>5
  <1>7. P[i] <= P[k - 1]
    BY <1>3, <1>6
  <1>8. P[k] = P[k - 1] + Len(s[k]) /\ Len(s[k]) \in Nat
    BY <1>6, LenProperties DEF FlatPositions
  <1>9. k - 1 \in 0 .. n /\ k \in 0 .. n
    BY <1>6
  <1>. QED  BY <1>3, <1>4, <1>7, <1>8, <1>9

\* The flat sequence consists of its parts, one behind the other.
LEMMA FlattenPositions ==
  ASSUME NEW S, NEW n \in Nat, NEW s \in [1 .. n -> Seq(S)]
  PROVE  \E P : /\ FlatPositions(s, n, P)
                /\ SeqExt!FlattenSeq(s) \in Seq(S)
                /\ HoldsParts(SeqExt!FlattenSeq(s), s, n, P)
  <1>1. PICK f : /\ PartialFlat(S, s, n, f)
                 /\ SeqExt!FlattenSeq(s) = IF n = 0 THEN << >> ELSE f[n]
    BY FlattenIsLast
  <1>. DEFINE P == [i \in 0 .. n |-> IF i = 0 THEN 0 ELSE Len(f[i])]
  <1>2. \A i \in 1 .. n : f[i] \in Seq(S) /\ s[i] \in Seq(S) /\ Len(s[i]) \in Nat
    BY <1>1, LenProperties DEF PartialFlat
  <1>3. ASSUME NEW i \in 1 .. n
        PROVE  /\ Len(f[i]) = P[i - 1] + Len(s[i])
               /\ i # 1 => f[i] = f[i - 1] \o s[i]
               /\ \A j \in 1 .. Len(s[i]) : f[i][P[i - 1] + j] = s[i][j]
    <2>1. CASE i = 1
      BY <1>1, <1>2, <2>1 DEF PartialFlat
    <2>2. CASE i # 1
      <3>1. i - 1 \in 1 .. n
        BY <2>2
      <3>2. f[i] = f[i - 1] \o s[i] /\ P[i - 1] = Len(f[i - 1])
        <4>1. f[i] = f[i - 1] \o s[i]
          BY <1>1, <2>2 DEF PartialFlat
        <4>2. P[i - 1] = Len(f[i - 1])
          BY <3>1
        <4>. QED  BY <4>1, <4>2
      <3>3. /\ Len(f[i - 1] \o s[i]) = Len(f[i - 1]) + Len(s[i])
            /\ \A k \in 1 .. Len(f[i - 1]) + Len(s[i]) :
                 (f[i - 1] \o s[i])[k] = IF k <= Len(f[i - 1]) THEN f[i - 1][k]
                                         ELSE s[i][k - Len(f[i - 1])]
        BY <1>2, <3>1, ConcatProperties
      <3>4. Len(f[i - 1]) \in Nat
        BY <1>2, <3>1, LenProperties
      <3>5. ASSUME NEW j \in 1 .. Len(s[i])
            PROVE  f[i][P[i - 1] + j] = s[i][j]
        <4>1. /\ Len(f[i - 1]) + j \in 1 .. Len(f[i - 1]) + Len(s[i])
              /\ ~(Len(f[i - 1]) + j <= Len(f[i - 1]))
              /\ (Len(f[i - 1]) + j) - Len(f[i - 1]) = j
          BY <1>2, <3>4
        <4>2. (f[i - 1] \o s[i])[Len(f[i - 1]) + j] = s[i][j]
          BY ONLY <3>3, <4>1
        <4>. HIDE DEF P
        <4>. QED  BY ONLY <3>2, <4>2
      <3>. HIDE DEF P
      <3>. QED  BY <3>2, <3>3, <3>5
    <2>. QED  BY <2>1, <2>2
  <1>4. FlatPositions(s, n, P)
    <2>1. P \in [0 .. n -> Nat]
      BY <1>2, LenProperties
    <2>2. P[0] = 0 /\ \A i \in 1 .. n : P[i] = Len(f[i])
      OBVIOUS
    <2>. HIDE DEF P
    <2>. QED  BY <1>3, <2>1, <2>2 DEF FlatPositions
  <1>5. ASSUME NEW i \in 1 .. n
        PROVE  \A k \in 1 .. P[i] : f[n][k] = f[i][k]
    <2>. DEFINE T == {m \in i .. n : \E k \in 1 .. P[i] : f[m][k] # f[i][k]}
    <2>1. SUFFICES ASSUME T # {}  PROVE FALSE
      BY n \in i .. n
    <2>2. T \in SUBSET Nat
      OBVIOUS
    <2>3. PICK m \in T : \A j \in T : m <= j
      <3>. HIDE DEF T
      <3>. QED  BY <2>1, <2>2, LeastElement
    <2>4. PICK k \in 1 .. P[i] : f[m][k] # f[i][k]
      BY <2>3
    <2>5. m # i /\ m \in 1 .. n /\ i \in 0 .. n
      BY <2>4
    <2>6. m - 1 \in i .. n /\ m - 1 \in 1 .. n /\ m # 1 /\ ~(m <= m - 1)
      BY <2>5
    <2>7. f[m - 1][k] = f[i][k]
      BY <2>3, <2>6
    <2>8. P[i] <= P[m - 1] /\ P[i] \in Nat /\ P[m - 1] = Len(f[m - 1])
      <3>1. P[m - 1] = Len(f[m - 1])
        BY <2>5, <2>6
      <3>. HIDE DEF P
      <3>2. P[i] <= P[m - 1]
        BY <1>4, <2>5, <2>6, PositionsIncrease
      <3>3. P[i] \in Nat
        BY <1>4, <2>5 DEF FlatPositions
      <3>. QED  BY <3>1, <3>2, <3>3
    <2>9. f[m] = f[m - 1] \o s[m] /\ Len(f[m - 1]) \in Nat
      BY <1>2, <1>3, <2>5, <2>6, LenProperties
    <2>10. k \in 1 .. Len(f[m - 1]) + Len(s[m]) /\ k <= Len(f[m - 1])
      <3>1. Len(s[m]) \in Nat
        BY <1>2, <2>5
      <3>. DEFINE a == P[i]
                  b == Len(f[m - 1])
                  c == Len(s[m])
      <3>2. /\ a \in Nat /\ b \in Nat /\ c \in Nat /\ a <= b /\ k \in 1 .. a
        BY <2>8, <2>9, <3>1
      <3>. HIDE DEF a, b, c
      <3>3. k \in 1 .. b + c /\ k <= b
        BY ONLY <3>2
      <3>. QED  BY ONLY <3>3 DEF b, c
    <2>11. (f[m - 1] \o s[m])[k] = f[m - 1][k]
      BY <1>2, <2>5, <2>6, <2>10, ConcatProperties
    <2>. QED  BY <2>4, <2>7, <2>9, <2>11
  <1>6. CASE n = 0
    BY <1>1, <1>4, <1>6 DEF HoldsParts
  <1>7. CASE n # 0
    <2>1. /\ n \in 1 .. n /\ n \in 0 .. n
          /\ SeqExt!FlattenSeq(s) = f[n] /\ f[n] \in Seq(S) /\ P[n] = Len(f[n])
      BY <1>1, <1>2, <1>7
    <2>2. ASSUME NEW i \in 1 .. n, NEW j \in 1 .. Len(s[i])
          PROVE  f[n][P[i - 1] + j] = s[i][j]
      <3>1. P[i - 1] \in Nat /\ P[i] = P[i - 1] + Len(s[i])
        BY <1>4, i - 1 \in 0 .. n DEF FlatPositions
      <3>. HIDE DEF P
      <3>2. P[i - 1] + j \in 1 .. P[i]
        BY <1>2, <3>1
      <3>. QED  BY <1>3, <1>5, <3>2
    <2>. HIDE DEF P
    <2>3. HoldsParts(SeqExt!FlattenSeq(s), s, n, P)
      BY ONLY <2>1, <2>2 DEF HoldsParts
    <2>. QED  BY ONLY <1>4, <2>1, <2>3
  <1>. QED  BY <1>6, <1>7

\* The positions of the parts, and H lists all of them in their order.
PartPositions(s, n) == {p \in (1 .. n) \X Nat : p[2] \in 1 .. Len(s[p[1]])}

ListsInOrder(H, L, pairs) ==
  /\ H \in [1 .. L -> pairs]
  /\ \A k, m \in 1 .. L : k < m => Before(H[k], H[m])
  /\ \A p \in pairs : \E k \in 1 .. L : H[k] = p

\* flat lists what s has at those positions, as H does the positions.
ListsParts(H, flat, s, n) ==
  /\ ListsInOrder(H, Len(flat), PartPositions(s, n))
  /\ \A k \in 1 .. Len(flat) : flat[k] = s[H[k][1]][H[k][2]]

\* Every position of the flat sequence is one position of one part, and the
\* order is that of the parts and, in each, its own.
LEMMA FlattenInOrder ==
  ASSUME NEW S, NEW n \in Nat, NEW s \in [1 .. n -> Seq(S)]
  PROVE  LET flat == SeqExt!FlattenSeq(s) IN
         /\ flat \in Seq(S)
         /\ \E H : ListsParts(H, flat, s, n)
  <1>. DEFINE flat == SeqExt!FlattenSeq(s)
              L == Len(flat)
  <1>0. flat = SeqExt!FlattenSeq(s) /\ L = Len(flat)
    OBVIOUS
  <1>. HIDE DEF flat, L
  <1>1. PICK P : /\ FlatPositions(s, n, P)
                 /\ flat \in Seq(S)
                 /\ L = P[n]
                 /\ \A i \in 1 .. n : \A j \in 1 .. Len(s[i]) :
                      flat[P[i - 1] + j] = s[i][j]
    <2>1. PICK P : /\ FlatPositions(s, n, P)
                   /\ SeqExt!FlattenSeq(s) \in Seq(S)
                   /\ HoldsParts(SeqExt!FlattenSeq(s), s, n, P)
      BY FlattenPositions
    <2>. QED  BY <1>0, <2>1 DEF HoldsParts
  <1>2. /\ \A i \in 0 .. n : P[i] \in Nat
        /\ \A i \in 1 .. n : i - 1 \in 0 .. n /\ P[i] = P[i - 1] + Len(s[i])
        /\ P[0] = 0 /\ L \in Nat
    BY <1>1 DEF FlatPositions
  <1>3. \A i \in 1 .. n : Len(s[i]) \in Nat
    BY LenProperties
  <1>4. \A i \in 0 .. n : \A m \in i .. n : P[i] <= P[m]
    BY <1>1, PositionsIncrease
  <1>. DEFINE In(i, k) == P[i - 1] < k /\ k <= P[i]
              row(k) == CHOOSE i \in 1 .. n : In(i, k)
              pair(k) == <<row(k), k - P[row(k) - 1]>>
              H == [k \in 1 .. L |-> pair(k)]
  <1>5. ASSUME NEW k \in 1 .. L
        PROVE  row(k) \in 1 .. n /\ In(row(k), k)
    <2>. DEFINE T == {i \in 1 .. n : k <= P[i]}
    <2>1. n \in T
      <3>1. n # 0
        BY <1>1, <1>2
      <3>. QED  BY <1>1, <1>2, <3>1
    <2>2. T \in SUBSET Nat
      OBVIOUS
    <2>3. PICK i \in T : \A j \in T : i <= j
      <3>. HIDE DEF T
      <3>. QED  BY <2>1, <2>2, LeastElement
    <2>4. P[i - 1] < k
      <3>1. CASE i = 1
        BY <1>2, <3>1
      <3>2. CASE i # 1
        <4>1. i - 1 \in 1 .. n /\ ~(i <= i - 1)
          BY <3>2
        <4>2. ~(k <= P[i - 1])
          BY <2>3, <4>1
        <4>. QED  BY <1>2, <4>1, <4>2
      <3>. QED  BY <3>1, <3>2
    <2>5. \E j \in 1 .. n : In(j, k)
      BY <2>3, <2>4
    <2>. HIDE DEF In
    <2>. QED  BY <2>5
  <1>6. \A i, j \in 1 .. n, k, m \in 1 .. L :
           In(i, k) /\ In(j, m) /\ k <= m => i <= j
    <2>1. SUFFICES ASSUME NEW i \in 1 .. n, NEW j \in 1 .. n,
                          NEW k \in 1 .. L, NEW m \in 1 .. L,
                          In(i, k), In(j, m), k <= m, j < i
                   PROVE  FALSE
      OBVIOUS
    <2>2. j \in 0 .. n /\ i - 1 \in j .. n /\ i - 1 \in 0 .. n
      BY <2>1
    <2>3. P[j] <= P[i - 1]
      BY <1>4, <2>2
    <2>. QED  BY <1>2, <2>1, <2>2, <2>3
  <1>7. ASSUME NEW k \in 1 .. L
        PROVE  /\ H[k][1] = row(k) /\ H[k][2] = k - P[row(k) - 1]
               /\ H[k] \in (1 .. n) \X Nat
               /\ H[k][2] \in 1 .. Len(s[row(k)])
               /\ flat[k] = s[row(k)][H[k][2]]
    <2>. DEFINE r == row(k)
    <2>1. r \in 1 .. n /\ P[r - 1] < k /\ k <= P[r]
      BY <1>5
    <2>2. H[k] = <<r, k - P[r - 1]>>
      OBVIOUS
    <2>. HIDE DEF r, H
    <2>3. /\ P[r - 1] \in Nat /\ P[r] = P[r - 1] + Len(s[r]) /\ Len(s[r]) \in Nat
      BY <1>2, <1>3, <2>1
    <2>4. k - P[r - 1] \in 1 .. Len(s[r])
      BY <2>1, <2>3
    <2>5. P[r - 1] + (k - P[r - 1]) = k
      BY <2>3
    <2>6. flat[k] = s[r][k - P[r - 1]]
      BY <1>1, <2>1, <2>4, <2>5
    <2>7. /\ H[k][1] = r /\ H[k][2] = k - P[r - 1]
          /\ k - P[r - 1] \in Nat
      BY <2>1, <2>2, <2>3
    <2>8. H[k] \in (1 .. n) \X Nat
      BY ONLY <2>1, <2>2, <2>7
    <2>. QED  BY <2>4, <2>6, <2>7, <2>8 DEF r
  <1>8. H \in [1 .. L -> PartPositions(s, n)]
    <2>1. \A k \in 1 .. L : pair(k) \in PartPositions(s, n)
      <3>1. \A k \in 1 .. L : H[k] = pair(k)
        OBVIOUS
      <3>. HIDE DEF H, pair
      <3>2. SUFFICES ASSUME NEW k \in 1 .. L
                     PROVE  H[k] \in PartPositions(s, n)
        BY <3>1
      <3>. QED  BY <1>7 DEF PartPositions
    <2>. HIDE DEF pair
    <2>. QED  BY <2>1
  <1>9. ASSUME NEW k \in 1 .. L, NEW m \in 1 .. L, k < m
        PROVE  Before(H[k], H[m])
    <2>1. row(k) \in 1 .. n /\ row(m) \in 1 .. n /\ row(k) <= row(m)
      <3>. HIDE DEF row, In
      <3>. QED  BY <1>5, <1>6, <1>9
    <2>2. P[row(k) - 1] \in Nat
      BY <1>2, <2>1
    <2>3. row(k) = row(m) => k - P[row(k) - 1] < m - P[row(m) - 1]
      <3>. HIDE DEF row
      <3>. QED  BY <1>9, <2>2
    <2>4. /\ H[k][1] = row(k) /\ H[k][2] = k - P[row(k) - 1]
          /\ H[m][1] = row(m) /\ H[m][2] = m - P[row(m) - 1]
      BY <1>7
    <2>. HIDE DEF H, row
    <2>. QED  BY <2>1, <2>3, <2>4 DEF Before
  <1>10. ASSUME NEW i \in 1 .. n, NEW j \in 1 .. Len(s[i])
         PROVE  \E k \in 1 .. L : H[k] = <<i, j>>
    <2>1. /\ P[i - 1] \in Nat /\ P[i] = P[i - 1] + Len(s[i])
          /\ Len(s[i]) \in Nat
      BY <1>2, <1>3
    <2>2. P[i] <= L
      BY <1>1, <1>4, i \in 0 .. n, n \in i .. n
    <2>3. PICK k \in 1 .. L : k = P[i - 1] + j
      BY <1>2, <2>1, <2>2
    <2>4. In(i, k)
      BY <2>1, <2>3
    <2>5. row(k) = i
      <3>1. row(k) \in 1 .. n /\ In(row(k), k)
        BY <1>5
      <3>. HIDE DEF row, In
      <3>2. row(k) <= i /\ i <= row(k)
        BY <1>6, <2>4, <3>1
      <3>. QED  BY <3>1, <3>2
    <2>6. H[k] = <<i, k - P[i - 1]>>
      <3>. HIDE DEF row
      <3>. QED  BY <2>5
    <2>7. k - P[i - 1] = j
      BY <2>1, <2>3
    <2>. HIDE DEF H
    <2>. QED  BY <2>6, <2>7
  <1>. HIDE DEF H
  <1>11. ListsInOrder(H, L, PartPositions(s, n))
    <2>1. ASSUME NEW p \in PartPositions(s, n)
          PROVE  \E k \in 1 .. L : H[k] = p
      <3>1. p[1] \in 1 .. n /\ p[2] \in 1 .. Len(s[p[1]]) /\ p = <<p[1], p[2]>>
        BY DEF PartPositions
      <3>. QED  BY <1>10, <3>1
    <2>. QED  BY <1>8, <1>9, <2>1 DEF ListsInOrder
  <1>12. \A k \in 1 .. L : flat[k] = s[H[k][1]][H[k][2]]
    BY <1>7
  <1>13. ListsParts(H, flat, s, n)
    BY <1>11, <1>12 DEF L, ListsParts
  <1>. QED  BY <1>1, <1>13 DEF flat

\* A list of all of T without repetition has as many entries as T.
ListsOnce(f, L, T) ==
  /\ f \in [1 .. L -> T]
  /\ \A k, m \in 1 .. L : k < m => f[k] # f[m]
  /\ \A x \in T : \E k \in 1 .. L : f[k] = x

LEMMA ListCounts ==
  ASSUME NEW T, NEW L \in Nat, NEW f, ListsOnce(f, L, T)
  PROVE  IsFiniteSet(T) /\ Cardinality(T) = L
  <1>0. /\ f \in [1 .. L -> T]
        /\ \A k, m \in 1 .. L : k < m => f[k] # f[m]
        /\ \A x \in T : \E k \in 1 .. L : f[k] = x
    BY DEF ListsOnce
  <1>1. \A a, b \in 1 .. L : f[a] = f[b] => a = b
    <2>1. SUFFICES ASSUME NEW a \in 1 .. L, NEW b \in 1 .. L, a # b
                   PROVE  f[a] # f[b]
      OBVIOUS
    <2>2. a < b \/ b < a
      BY <2>1
    <2>. QED  BY <1>0, <2>2
  <1>2. f \in Bijection(1 .. L, T)
    <2>1. f \in Injection(1 .. L, T)
      BY <1>0, <1>1 DEF Injection, IsInjective
    <2>2. f \in Surjection(1 .. L, T)
      BY <1>0 DEF Surjection
    <2>. QED  BY <2>1, <2>2 DEF Bijection
  <1>3. ExistsBijection(1 .. L, T)
    BY <1>2 DEF ExistsBijection
  <1>. QED  BY <1>3, FS_CountingElements, FS_NatBijection

LEMMA OrderedListCounts ==
  ASSUME NEW L \in Nat, NEW H, NEW pairs \in SUBSET (Nat \X Nat),
         ListsInOrder(H, L, pairs)
  PROVE  IsFiniteSet(pairs) /\ Cardinality(pairs) = L
  <1>1. /\ H \in [1 .. L -> pairs]
        /\ \A k, m \in 1 .. L : k < m => Before(H[k], H[m])
        /\ \A p \in pairs : \E k \in 1 .. L : H[k] = p
    BY DEF ListsInOrder
  <1>2. \A p \in pairs : ~Before(p, p)
    BY DEF Before
  <1>3. \A k, m \in 1 .. L : k < m => H[k] # H[m]
    BY <1>1, <1>2
  <1>4. ListsOnce(H, L, pairs)
    BY <1>1, <1>3 DEF ListsOnce
  <1>. QED  BY <1>4, ListCounts

----------------------------------------------------------------------------
\* The list of the members of K, in order.
ListsKept(I, L, K) ==
  /\ I \in [1 .. L -> K]
  /\ \A k, m \in 1 .. L : k < m => I[k] < I[m]
  /\ \A i \in K : \E k \in 1 .. L : I[k] = i

\* kept lists the elements of v that K selects, as I does their positions.
Keeps(I, kept, v, K) ==
  /\ ListsKept(I, Len(kept), K)
  /\ \A k \in 1 .. Len(kept) : kept[k] = v[I[k]]

\* What a loop over 1 .. n appends that writes v[i] for each i in K, and only
\* then.
Selects(s, n, v, K) ==
  s = [i \in 1 .. n |-> IF i \in K THEN <<v[i]>> ELSE << >>]

\* Such a loop writes as many elements as K has, in order.
LEMMA KeptInOrder ==
  ASSUME NEW S, NEW n \in Nat, NEW v \in [1 .. n -> S],
         NEW K \in SUBSET (1 .. n), NEW s, Selects(s, n, v, K)
  PROVE  LET kept == SeqExt!FlattenSeq(s)
         IN  /\ kept \in Seq(S)
             /\ IsFiniteSet(K) /\ Cardinality(K) = Len(kept)
             /\ \E I : Keeps(I, kept, v, K)
  <1>. DEFINE kept == SeqExt!FlattenSeq(s)
              L == Len(kept)
  <1>1. s \in [1 .. n -> Seq(S)]
    BY DEF Selects
  <1>2. \A i \in 1 .. n : /\ i \in K => s[i] = <<v[i]>>
                          /\ i \notin K => s[i] = << >>
    BY DEF Selects
  <1>0. \A i \in 1 .. n : /\ i \in K => Len(s[i]) = 1 /\ s[i][1] = v[i]
                          /\ i \notin K => Len(s[i]) = 0
    <2>1. \A x : Len(<<x>>) = 1 /\ <<x>>[1] = x
      OBVIOUS
    <2>2. Len(<< >>) = 0
      OBVIOUS
    <2>. QED  BY <1>2, <2>1, <2>2
  <1>3. /\ kept \in Seq(S)
        /\ \E H : ListsParts(H, kept, s, n)
    BY <1>1, FlattenInOrder
  <1>. HIDE DEF kept
  <1>4. PICK H : /\ ListsInOrder(H, L, PartPositions(s, n))
                 /\ \A k \in 1 .. L : kept[k] = s[H[k][1]][H[k][2]]
    BY <1>3 DEF ListsParts
  <1>5. L \in Nat
    BY <1>3, LenProperties
  <1>. HIDE DEF L
  <1>6. ASSUME NEW p
        PROVE  p \in PartPositions(s, n) <=> \E i \in K : p = <<i, 1>>
    <2>1. ASSUME p \in PartPositions(s, n)
          PROVE  \E i \in K : p = <<i, 1>>
      <3>1. p[1] \in 1 .. n /\ p[2] \in 1 .. Len(s[p[1]]) /\ p = <<p[1], p[2]>>
        BY <2>1 DEF PartPositions
      <3>2. p[1] \in K
        BY <1>0, <3>1
      <3>3. Len(s[p[1]]) = 1
        BY <1>0, <3>1, <3>2
      <3>. QED  BY <3>1, <3>2, <3>3
    <2>2. ASSUME NEW i \in K, p = <<i, 1>>
          PROVE  p \in PartPositions(s, n)
      <3>1. i \in 1 .. n /\ Len(s[i]) = 1
        BY <1>0
      <3>2. <<i, 1>>[1] = i /\ <<i, 1>>[2] = 1
        OBVIOUS
      <3>3. <<i, 1>> \in (1 .. n) \X Nat /\ 1 \in 1 .. Len(s[i])
        BY <3>1
      <3>. QED  BY <2>2, <3>2, <3>3 DEF PartPositions
    <2>. QED  BY <2>1, <2>2
  <1>. DEFINE I == [k \in 1 .. L |-> H[k][1]]
  <1>7. \A k \in 1 .. L : /\ H[k][1] \in K /\ H[k][2] = 1
                          /\ kept[k] = v[H[k][1]]
    <2>1. SUFFICES ASSUME NEW k \in 1 .. L
                   PROVE  /\ H[k][1] \in K /\ H[k][2] = 1
                          /\ kept[k] = v[H[k][1]]
      OBVIOUS
    <2>2. H[k] \in PartPositions(s, n)
      BY <1>4 DEF ListsInOrder
    <2>3. PICK i \in K : H[k] = <<i, 1>>
      BY <1>6, <2>2
    <2>4. H[k][1] = i /\ H[k][2] = 1 /\ i \in 1 .. n /\ s[i][1] = v[i]
      BY <1>0, <2>3
    <2>5. kept[k] = s[H[k][1]][H[k][2]]
      BY <1>4
    <2>. QED  BY <2>4, <2>5
  <1>8. ListsKept(I, L, K)
    <2>1. I \in [1 .. L -> K]
      BY <1>7
    <2>2. \A k, m \in 1 .. L : k < m => I[k] < I[m]
      BY <1>4, <1>7 DEF ListsInOrder, Before
    <2>3. ASSUME NEW i \in K
          PROVE  \E k \in 1 .. L : I[k] = i
      <3>1. <<i, 1>> \in PartPositions(s, n)
        BY <1>6
      <3>2. PICK k \in 1 .. L : H[k] = <<i, 1>>
        BY <1>4, <3>1 DEF ListsInOrder
      <3>. QED  BY <3>2
    <2>. HIDE DEF I
    <2>. QED  BY <2>1, <2>2, <2>3 DEF ListsKept
  <1>9. \A k \in 1 .. L : kept[k] = v[I[k]]
    BY <1>7
  <1>. HIDE DEF I
  <1>10. IsFiniteSet(K) /\ Cardinality(K) = L
    <2>1. /\ I \in [1 .. L -> K]
          /\ \A k, m \in 1 .. L : k < m => I[k] < I[m]
          /\ \A i \in K : \E k \in 1 .. L : I[k] = i
      BY <1>8 DEF ListsKept
    <2>2. \A i \in K : ~(i < i)
      OBVIOUS
    <2>3. \A k, m \in 1 .. L : k < m => I[k] # I[m]
      BY <2>1, <2>2
    <2>4. ListsOnce(I, L, K)
      BY <2>1, <2>3 DEF ListsOnce
    <2>. QED  BY <1>5, <2>4, ListCounts
  <1>11. Keeps(I, kept, v, K)
    BY <1>8, <1>9 DEF Keeps, L
  <1>. QED  BY <1>3, <1>10, <1>11 DEF kept, L

----------------------------------------------------------------------------
(* The resolver and the planner. *)

\* The resolver's counter is the size of a finite set.
LEMMA CandidateCountType ==
  ASSUME NEW t, IsSnapshot(t), NEW slot
  PROVE  CountSlotCandidates(t, slot) \in Nat
  <1>. DEFINE pairs == (DOMAIN t.leaders) \X (DOMAIN t.validator_endpoints)
              hits == {h \in pairs :
                         /\ LeaderContainsSlot(t.leaders[h[1]], slot)
                         /\ Serves(t.validator_endpoints[h[2]], t.leaders[h[1]])}
  <1>1. IsFiniteSet(DOMAIN t.leaders) /\ IsFiniteSet(DOMAIN t.validator_endpoints)
    <2>1. \A n \in Nat : IsFiniteSet(1 .. n)
      BY FS_Interval
    <2>2. /\ Len(t.leaders) \in Nat /\ DOMAIN t.leaders = 1 .. Len(t.leaders)
          /\ Len(t.validator_endpoints) \in Nat
          /\ DOMAIN t.validator_endpoints = 1 .. Len(t.validator_endpoints)
      BY DEF IsSnapshot, IsArray
    <2>. QED  BY <2>1, <2>2
  <1>2. IsFiniteSet(pairs)
    BY <1>1, FS_Product
  <1>. HIDE DEF pairs
  <1>3. hits \subseteq pairs
    OBVIOUS
  <1>. HIDE DEF hits
  <1>4. IsFiniteSet(hits)
    BY <1>2, <1>3, FS_Subset
  <1>. QED  BY <1>4, FS_CardinalityType DEF CountSlotCandidates, hits, pairs

\* The resolver returns a status of the API and a count.
LEMMA ResolutionType ==
  ASSUME NEW t, IsSnapshot(t), NEW slot, NEW capacity
  PROVE  /\ ResolveSlot(t, slot, capacity).status \in Statuses
         /\ ResolveSlot(t, slot, capacity).count \in Nat
  BY CandidateCountType DEF ResolveSlot, Statuses

----------------------------------------------------------------------------
\* There are at most as many first occurrences as candidates.
LEMMA UniqueCountType ==
  ASSUME NEW candidates, NEW n \in Nat
  PROVE  CountUniqueTargets(candidates, n) \in 0 .. n
  <1>. DEFINE firsts == {i \in 1 .. n : CandidateIsFirstOccurrence(candidates, i)}
  <1>1. IsFiniteSet(1 .. n) /\ Cardinality(1 .. n) = n
    BY FS_Interval
  <1>2. firsts \subseteq 1 .. n
    OBVIOUS
  <1>. HIDE DEF firsts
  <1>3. /\ IsFiniteSet(firsts)
        /\ Cardinality(firsts) <= n
    BY <1>1, <1>2, FS_Subset
  <1>4. Cardinality(firsts) \in Nat
    BY <1>3, FS_CardinalityType
  <1>. QED  BY <1>3, <1>4 DEF CountUniqueTargets, firsts

\* The planner never selects more targets than the caller's limit or than
\* there are distinct ones, nor, when it says OK, more than its caller has
\* room for; and it never finds more distinct ones than candidates.  So the
\* array submit allocates from target_count is no longer than its candidates,
\* and its check unique_target_count < target_count never fires
\* (solana_delivery_route.c:54-120, solana_delivery_submission.c:262-270).
THEOREM PlanCounts ==
  ASSUME NEW candidates, NEW n \in Nat, NEW limit \in Nat, NEW capacity \in Nat
  PROVE  LET plan == PlanRoutes(candidates, n, limit, capacity) IN
         /\ plan.status \in Statuses
         /\ plan.target_count \in Nat
         /\ plan.unique_target_count \in Nat
         /\ plan.target_count <= limit
         /\ plan.target_count <= plan.unique_target_count
         /\ plan.unique_target_count <= n
         /\ plan.status = "OK" => plan.target_count <= capacity
  BY UniqueCountType DEF PlanRoutes, SelectedCount, Statuses

----------------------------------------------------------------------------
\* What the resolver writes for a hit.
CandidateOf(t, h) ==
  [leader_index    |-> h[1] - 1,
   validator_index |-> Destination(t, h)[1],
   endpoint_index  |-> Destination(t, h)[2]]

\* found is what the hits of t lead to, in the order of the list G of them.
FollowsHits(found, G, t, slot) ==
  /\ ListsInOrder(G, Len(found), Hits(t, slot))
  /\ \A k \in 1 .. Len(found) : found[k] = CandidateOf(t, G[k])

\* The second pass of the resolver writes one candidate for each hit of the
\* slot, in their order, and as many as the first pass counted.
LEMMA CandidatesFollowHits ==
  ASSUME NEW t, IsSnapshot(t), NEW slot \in Nat
  PROVE  LET found == SlotCandidates(t, slot) IN
         /\ Len(found) \in Nat
         /\ DOMAIN found = 1 .. Len(found)
         /\ Len(found) = CountSlotCandidates(t, slot)
         /\ \E G : FollowsHits(found, G, t, slot)
  <1>. DEFINE n == Len(t.leaders)
              m == Len(t.validator_endpoints)
              Candidate(l, a) ==
                [leader_index    |-> l - 1,
                 validator_index |-> t.leaders[l].validator_index,
                 endpoint_index  |-> t.validator_endpoints[a].endpoint_index]
              S == {Candidate(l, a) : l \in 1 .. n, a \in 1 .. m}
              K(l) == {a \in 1 .. m :
                         Serves(t.validator_endpoints[a], t.leaders[l])}
              kept(l) ==
                SeqExt!FlattenSeq([a \in DOMAIN t.validator_endpoints |->
                  IF Serves(t.validator_endpoints[a], t.leaders[l])
                  THEN <<Candidate(l, a)>> ELSE << >>])
              s == [l \in DOMAIN t.leaders |->
                      IF LeaderContainsSlot(t.leaders[l], slot)
                      THEN kept(l) ELSE << >>]
              found == SlotCandidates(t, slot)
              L == Len(found)
              Lists(I, l) ==
                /\ ListsKept(I, Len(kept(l)), K(l))
                /\ \A k \in 1 .. Len(kept(l)) : kept(l)[k] = Candidate(l, I[k])
              list(l) == CHOOSE I : Lists(I, l)
  <1>1. /\ n \in Nat /\ m \in Nat
        /\ DOMAIN t.leaders = 1 .. n
        /\ DOMAIN t.validator_endpoints = 1 .. m
        /\ \A l \in 1 .. n : /\ t.leaders[l].first_slot \in Nat
                             /\ t.leaders[l].last_slot \in Nat
    BY DEF IsSnapshot, IsArray
  <1>2. found = SeqExt!FlattenSeq(s)
    BY DEF SlotCandidates
  <1>3. ASSUME NEW l \in 1 .. n
        PROVE  kept(l) \in Seq(S) /\ Lists(list(l), l)
    <2>. DEFINE v == [a \in 1 .. m |-> Candidate(l, a)]
                parts == [a \in 1 .. m |->
                            IF a \in K(l) THEN <<v[a]>> ELSE << >>]
    <2>1. kept(l) = SeqExt!FlattenSeq(parts)
      <3>. DEFINE wrote == [a \in DOMAIN t.validator_endpoints |->
                        IF Serves(t.validator_endpoints[a], t.leaders[l])
                        THEN <<Candidate(l, a)>> ELSE << >>]
      <3>1. DOMAIN wrote = 1 .. m /\ DOMAIN parts = 1 .. m
        BY <1>1
      <3>2. \A a \in 1 .. m : v[a] = Candidate(l, a)
        OBVIOUS
      <3>. HIDE DEF v, Candidate
      <3>3. \A a \in 1 .. m : wrote[a] = parts[a]
        BY <1>1, <3>2
      <3>4. wrote = [a \in 1 .. m |-> wrote[a]] /\ parts = [a \in 1 .. m |-> parts[a]]
        BY <1>1
      <3>5. wrote = parts
        <4>. HIDE DEF wrote, parts
        <4>. QED  BY <3>3, <3>4
      <3>. QED  BY <3>5
    <2>2. v \in [1 .. m -> S] /\ \A a \in K(l) : v[a] = Candidate(l, a)
      OBVIOUS
    <2>3. K(l) \in SUBSET (1 .. m)
      OBVIOUS
    <2>4. Selects(parts, m, v, K(l))
      BY DEF Selects
    <2>. HIDE DEF v, K, S, kept, Candidate, parts
    <2>5. /\ kept(l) \in Seq(S)
          /\ \E I : Keeps(I, kept(l), v, K(l))
      <3>1. m \in Nat /\ v \in [1 .. m -> S]
        BY <1>1, <2>2
      <3>2. /\ SeqExt!FlattenSeq(parts) \in Seq(S)
            /\ \E I : Keeps(I, SeqExt!FlattenSeq(parts), v, K(l))
        BY ONLY <3>1, <2>3, <2>4, KeptInOrder
      <3>. QED  BY <2>1, <3>2
    <2>6. \E I : Lists(I, l)
      BY <2>2, <2>5 DEF Keeps, ListsKept
    <2>. HIDE DEF Lists
    <2>. QED  BY <2>5, <2>6
  <1>. HIDE DEF n, m, S, K, kept, list, Candidate, found
  <1>4. s \in [1 .. n -> Seq(S)]
    BY <1>1, <1>3
  <1>5. \A l \in 1 .. n : s[l] = IF LeaderContainsSlot(t.leaders[l], slot)
                                 THEN kept(l) ELSE << >>
    BY <1>1
  <1>. HIDE DEF s
  <1>6. /\ found \in Seq(S)
        /\ \E H : ListsParts(H, found, s, n)
    BY <1>1, <1>2, <1>4, FlattenInOrder
  <1>7. PICK H : /\ ListsInOrder(H, L, PartPositions(s, n))
                 /\ \A k \in 1 .. L : found[k] = s[H[k][1]][H[k][2]]
    BY <1>6 DEF ListsParts
  <1>8. L \in Nat /\ DOMAIN found = 1 .. L
    BY <1>6, LenProperties
  <1>. HIDE DEF L
  <1>9. ASSUME NEW l, NEW j
        PROVE  <<l, j>> \in PartPositions(s, n) <=>
                 /\ l \in 1 .. n /\ LeaderContainsSlot(t.leaders[l], slot)
                 /\ j \in 1 .. Len(kept(l))
    <2>1. Len(<< >>) = 0 /\ \A x \in 1 .. 0 : FALSE
      OBVIOUS
    <2>2. <<l, j>> \in PartPositions(s, n) <=> l \in 1 .. n /\ j \in Nat /\ j \in 1 .. Len(s[l])
      BY DEF PartPositions
    <2>3. ASSUME l \in 1 .. n
          PROVE  Len(kept(l)) \in Nat
      BY <1>3, <2>3, LenProperties
    <2>. QED  BY <1>5, <2>1, <2>2, <2>3
  <1>10. ASSUME NEW l, NEW a
         PROVE  <<l, a>> \in Hits(t, slot) <=>
                  /\ l \in 1 .. n /\ LeaderContainsSlot(t.leaders[l], slot)
                  /\ a \in K(l)
    BY <1>1 DEF Hits, IsHit, LeaderContainsSlot, Serves, K
  <1>11. \A k \in 1 .. L :
            /\ H[k] \in PartPositions(s, n) /\ H[k] = <<H[k][1], H[k][2]>>
    BY <1>7 DEF ListsInOrder, PartPositions
  <1>. DEFINE G == [k \in 1 .. L |-> <<H[k][1], list(H[k][1])[H[k][2]]>>]
  <1>12. ASSUME NEW k \in 1 .. L
         PROVE  /\ H[k][1] \in 1 .. n /\ H[k][2] \in 1 .. Len(kept(H[k][1]))
                /\ LeaderContainsSlot(t.leaders[H[k][1]], slot)
                /\ G[k] = <<H[k][1], list(H[k][1])[H[k][2]]>>
                /\ G[k] \in Hits(t, slot)
                /\ found[k] = Candidate(G[k][1], G[k][2])
    <2>1. /\ H[k][1] \in 1 .. n /\ H[k][2] \in 1 .. Len(kept(H[k][1]))
          /\ LeaderContainsSlot(t.leaders[H[k][1]], slot)
      <3>1. <<H[k][1], H[k][2]>> \in PartPositions(s, n)
        BY <1>11
      <3>. QED  BY ONLY <3>1, <1>9
    <2>2. PICK l \in 1 .. n : l = H[k][1]
      BY <2>1
    <2>3. PICK j \in 1 .. Len(kept(l)) : j = H[k][2]
      BY <2>1, <2>2
    <2>4. Lists(list(l), l)
      BY <1>3
    <2>5. list(l)[j] \in K(l) /\ kept(l)[j] = Candidate(l, list(l)[j])
      BY <2>4 DEF ListsKept
    <2>6. found[k] = kept(l)[j]
      BY <1>5, <1>7, <2>1, <2>2, <2>3
    <2>. QED  BY <1>10, <2>1, <2>2, <2>3, <2>5, <2>6
  <1>13. ListsInOrder(G, L, Hits(t, slot))
    <2>1. G \in [1 .. L -> Hits(t, slot)]
      BY <1>12
    <2>2. ASSUME NEW k \in 1 .. L, NEW i \in 1 .. L, k < i
          PROVE  Before(G[k], G[i])
      <3>1. Before(H[k], H[i])
        BY <1>7, <2>2 DEF ListsInOrder
      <3>2. CASE H[k][1] = H[i][1]
        <4>1. Lists(list(H[k][1]), H[k][1])
          BY <1>3, <1>12
        <4>2. H[k][2] < H[i][2]
          <5>0. \A l \in 1 .. n : l \in Nat
            BY <1>1
          <5>1. H[k][1] \in Nat
            BY <1>12, <5>0
          <5>. QED  BY <3>1, <3>2, <5>1 DEF Before
        <4>3. list(H[k][1])[H[k][2]] < list(H[k][1])[H[i][2]]
          BY <1>12, <3>2, <4>1, <4>2 DEF ListsKept
        <4>. QED  BY <1>12, <3>2, <4>3 DEF Before
      <3>3. CASE H[k][1] < H[i][1]
        BY <1>12, <3>3 DEF Before
      <3>. QED  BY <3>1, <3>2, <3>3 DEF Before
    <2>3. ASSUME NEW h \in Hits(t, slot)
          PROVE  \E k \in 1 .. L : G[k] = h
      <3>1. h = <<h[1], h[2]>>
        BY DEF Hits
      <3>2. /\ h[1] \in 1 .. n /\ LeaderContainsSlot(t.leaders[h[1]], slot)
            /\ h[2] \in K(h[1])
        BY <1>10, <3>1
      <3>3. Lists(list(h[1]), h[1])
        BY <1>3, <3>2
      <3>4. PICK j \in 1 .. Len(kept(h[1])) : list(h[1])[j] = h[2]
        BY <3>2, <3>3 DEF ListsKept
      <3>5. <<h[1], j>> \in PartPositions(s, n)
        BY <1>9, <3>2
      <3>6. PICK k \in 1 .. L : H[k] = <<h[1], j>>
        BY <1>7, <3>5 DEF ListsInOrder
      <3>. QED  BY <1>12, <3>1, <3>4, <3>6
    <2>. HIDE DEF G
    <2>. QED  BY <2>1, <2>2, <2>3 DEF ListsInOrder
  <1>. HIDE DEF G
  <1>14. \A k \in 1 .. L : found[k] = CandidateOf(t, G[k])
    <2>1. SUFFICES ASSUME NEW k \in 1 .. L
                   PROVE  found[k] = CandidateOf(t, G[k])
      OBVIOUS
    <2>2. found[k] = Candidate(G[k][1], G[k][2])
      BY <1>12
    <2>. QED  BY <2>2 DEF CandidateOf, Destination, Candidate
  <1>15. Hits(t, slot) \in SUBSET (Nat \X Nat)
    BY <1>1 DEF Hits
  <1>16. Cardinality(Hits(t, slot)) = L
    BY <1>8, <1>13, <1>15, OrderedListCounts
  <1>17. CountSlotCandidates(t, slot) = Cardinality(Hits(t, slot))
    <2>. DEFINE hits == {h \in (DOMAIN t.leaders) \X (DOMAIN t.validator_endpoints) :
                 /\ LeaderContainsSlot(t.leaders[h[1]], slot)
                 /\ Serves(t.validator_endpoints[h[2]], t.leaders[h[1]])}
    <2>1. Hits(t, slot) = hits
      BY <1>1 DEF Hits, IsHit, LeaderContainsSlot, Serves
    <2>. QED  BY <2>1 DEF CountSlotCandidates
  <1>. QED  BY <1>8, <1>13, <1>14, <1>16, <1>17 DEF FollowsHits, found, L
----------------------------------------------------------------------------
\* The indices of the first occurrences.
Firsts(candidates, n) ==
  {i \in 1 .. n : CandidateIsFirstOccurrence(candidates, i)}

\* Every candidate is, or repeats the target of, a first occurrence.
LEMMA FirstsCoverAll ==
  ASSUME NEW candidates, NEW n \in Nat, NEW k \in 1 .. n
  PROVE  \E m \in Firsts(candidates, n) :
           m <= k /\ CandidateHasSameTarget(candidates[m], candidates[k])
  <1>. DEFINE T == {m \in 1 .. k :
                      CandidateHasSameTarget(candidates[m], candidates[k])}
  <1>1. T \in SUBSET Nat /\ k \in T
    BY DEF CandidateHasSameTarget
  <1>2. PICK m \in T : \A j \in T : m <= j
    <2>. HIDE DEF T
    <2>. QED  BY <1>1, LeastElement
  <1>3. ASSUME NEW prior \in 1 .. m - 1
        PROVE  ~CandidateHasSameTarget(candidates[prior], candidates[m])
    <2>1. prior \in 1 .. k /\ ~(m <= prior)
      OBVIOUS
    <2>2. prior \notin T
      BY <1>2, <2>1
    <2>. QED  BY <2>1, <2>2 DEF CandidateHasSameTarget
  <1>4. m \in 1 .. n /\ m <= k
    OBVIOUS
  <1>. QED  BY <1>3, <1>4 DEF Firsts, CandidateIsFirstOccurrence

\* routes are the first occurrences, in the order of the list I of them.
FollowsFirsts(routes, selected, I, candidates, n) ==
  /\ ListsKept(I, CountUniqueTargets(candidates, n), Firsts(candidates, n))
  /\ \A k \in 1 .. selected : routes[k] = candidates[I[k]]

\* The fill loop of the planner writes the first occurrences in their order,
\* and there are as many as the counting loop found.
LEMMA TargetsFollowFirsts ==
  ASSUME NEW n \in Nat, NEW candidates, DOMAIN candidates = 1 .. n,
         NEW selected \in Nat, selected <= CountUniqueTargets(candidates, n)
  PROVE  \E I : FollowsFirsts(SelectTargets(candidates, n, selected), selected,
                              I, candidates, n)
  <1>. DEFINE S == {candidates[i] : i \in 1 .. n}
              v == [i \in 1 .. n |-> candidates[i]]
              K == Firsts(candidates, n)
              s == [i \in 1 .. n |->
                      IF CandidateIsFirstOccurrence(candidates, i)
                      THEN <<candidates[i]>> ELSE << >>]
              kept == SeqExt!FlattenSeq(s)
              routes == SelectTargets(candidates, n, selected)
  <1>1. v \in [1 .. n -> S] /\ K \in SUBSET (1 .. n)
    BY DEF Firsts
  <1>2. Selects(s, n, v, K)
    <2>. DEFINE parts == [i \in 1 .. n |-> IF i \in K THEN <<v[i]>> ELSE << >>]
    <2>1. \A i \in 1 .. n : s[i] = parts[i]
      BY DEF Firsts
    <2>2. s = [i \in 1 .. n |-> s[i]] /\ parts = [i \in 1 .. n |-> parts[i]]
      OBVIOUS
    <2>3. s = parts
      <3>. HIDE DEF s, parts
      <3>. QED  BY <2>1, <2>2
    <2>. HIDE DEF s
    <2>. QED  BY <2>3 DEF Selects
  <1>3. routes = [k \in 1 .. selected |-> kept[k]]
    BY DEF SelectTargets
  <1>4. \A i \in K : v[i] = candidates[i]
    BY DEF Firsts
  <1>. HIDE DEF s, v, S, K, routes
  <1>5. /\ Cardinality(K) = Len(kept)
        /\ \E I : Keeps(I, kept, v, K)
    <2>. HIDE DEF kept
    <2>. QED  BY ONLY n \in Nat, <1>1, <1>2, KeptInOrder DEF kept
  <1>. HIDE DEF kept
  <1>6. PICK I : Keeps(I, kept, v, K)
    BY <1>5
  <1>7. CountUniqueTargets(candidates, n) = Len(kept)
    BY <1>5 DEF CountUniqueTargets, K, Firsts
  <1>8. CountUniqueTargets(candidates, n) \in Nat
    BY UniqueCountType
  <1>9. ASSUME NEW k \in 1 .. selected
        PROVE  routes[k] = candidates[I[k]]
    <2>1. k \in 1 .. Len(kept)
      BY <1>7, <1>8
    <2>2. kept[k] = v[I[k]] /\ I[k] \in K
      BY <1>6, <2>1 DEF Keeps, ListsKept
    <2>. QED  BY <1>3, <1>4, <2>2
  <1>10. ListsKept(I, CountUniqueTargets(candidates, n), Firsts(candidates, n))
    BY <1>6, <1>7 DEF Keeps, K
  <1>11. FollowsFirsts(routes, selected, I, candidates, n)
    BY <1>9, <1>10 DEF FollowsFirsts
  <1>. QED  BY <1>11 DEF routes

----------------------------------------------------------------------------
\* What the client computes for a slot of a snapshot.
PlanFollows(t, slot, limit, G, I) ==
  LET found  == SlotCandidates(t, slot)
      n      == CountSlotCandidates(t, slot)
      unique == CountUniqueTargets(found, n)
      chosen == SelectedCount(unique, limit)
      routes == SelectTargets(found, n, chosen)
  IN  /\ n \in Nat /\ unique \in Nat /\ chosen \in Nat /\ chosen <= unique
      /\ chosen = IF unique < limit THEN unique ELSE limit
      /\ ListsInOrder(G, n, Hits(t, slot))
      /\ ListsKept(I, unique, Firsts(found, n))
      /\ \A k \in 1 .. n : found[k] = CandidateOf(t, G[k])
      /\ \A k \in 1 .. chosen : routes[k] = CandidateOf(t, G[I[k]])

LEMMA PlanIsThere ==
  ASSUME NEW t, IsSnapshot(t), NEW slot \in Nat, NEW limit \in Nat
  PROVE  \E G, I : PlanFollows(t, slot, limit, G, I)
  <1>. DEFINE found  == SlotCandidates(t, slot)
              n      == CountSlotCandidates(t, slot)
              unique == CountUniqueTargets(found, n)
              chosen == SelectedCount(unique, limit)
              routes == SelectTargets(found, n, chosen)
  <1>1. /\ n \in Nat /\ Len(found) = n
        /\ \E G : FollowsHits(found, G, t, slot)
    BY CandidatesFollowHits
  <1>2. PICK G : FollowsHits(found, G, t, slot)
    BY <1>1
  <1>3. unique \in Nat
    BY <1>1, UniqueCountType
  <1>4. /\ chosen \in Nat /\ chosen <= unique
        /\ chosen = IF unique < limit THEN unique ELSE limit
    BY <1>3 DEF SelectedCount
  <1>5. DOMAIN found = 1 .. n
    BY <1>1, CandidatesFollowHits
  <1>. HIDE DEF found, n, unique, chosen, routes
  <1>6. \E I : FollowsFirsts(routes, chosen, I, found, n)
    BY <1>1, <1>3, <1>4, <1>5, TargetsFollowFirsts DEF routes, unique
  <1>7. PICK I : FollowsFirsts(routes, chosen, I, found, n)
    BY <1>6
  <1>8. /\ ListsInOrder(G, n, Hits(t, slot))
        /\ \A k \in 1 .. n : found[k] = CandidateOf(t, G[k])
    BY <1>1, <1>2 DEF FollowsHits
  <1>9. ListsKept(I, unique, Firsts(found, n))
    BY <1>7 DEF FollowsFirsts, unique
  <1>10. ASSUME NEW k \in 1 .. chosen
         PROVE  routes[k] = CandidateOf(t, G[I[k]])
    <2>1. k \in 1 .. unique
      BY <1>3, <1>4
    <2>2. I[k] \in Firsts(found, n)
      BY <1>9, <2>1 DEF ListsKept
    <2>3. I[k] \in 1 .. n
      BY <2>2 DEF Firsts
    <2>. QED  BY <1>7, <1>8, <2>3 DEF FollowsFirsts
  <1>11. PlanFollows(t, slot, limit, G, I)
    BY <1>1, <1>3, <1>4, <1>8, <1>9, <1>10
       DEF PlanFollows, found, n, unique, chosen, routes
  <1>. QED  BY <1>11
----------------------------------------------------------------------------
\* Two candidates have the same target if and only if their hits lead to the
\* same destination.
LEMMA SameTargetIsSameDestination ==
  ASSUME NEW t, NEW g, NEW h
  PROVE  CandidateHasSameTarget(CandidateOf(t, g), CandidateOf(t, h))
           <=> Destination(t, g) = Destination(t, h)
  BY DEF CandidateHasSameTarget, CandidateOf, Destination

\* A route of the plan and what it leads to.
RouteDestination(route) == <<route.validator_index, route.endpoint_index>>

\* The plan as the resolver and the planner leave it, in routes: each is a
\* candidate of a hit, no two have the same destination, and whatever comes
\* before the hit of a route leads where an earlier route leads.
RoutesAreAPlan(t, slot, chosen, routes) ==
  /\ \A i, j \in 1 .. chosen :
       RouteDestination(routes[i]) = RouteDestination(routes[j]) => i = j
  /\ \A i \in 1 .. chosen :
       \E h \in Hits(t, slot) :
         /\ routes[i] = CandidateOf(t, h)
         /\ \A g \in Hits(t, slot) :
              Before(g, h) =>
                \E j \in 1 .. i - 1 :
                  RouteDestination(routes[j]) = Destination(t, g)

LEMMA PlanIsAPlan ==
  ASSUME NEW t, IsSnapshot(t), NEW slot, NEW limit \in Nat \ {0},
         NEW G, NEW I, PlanFollows(t, slot, limit, G, I)
  PROVE  LET found  == SlotCandidates(t, slot)
             n      == CountSlotCandidates(t, slot)
             unique == CountUniqueTargets(found, n)
             chosen == SelectedCount(unique, limit)
             routes == SelectTargets(found, n, chosen)
         IN  /\ RoutesAreAPlan(t, slot, chosen, routes)
             /\ n > 0 => chosen > 0
             /\ unique = Cardinality(Destinations(t, slot))
  <1>. DEFINE found  == SlotCandidates(t, slot)
              n      == CountSlotCandidates(t, slot)
              unique == CountUniqueTargets(found, n)
              chosen == SelectedCount(unique, limit)
              routes == SelectTargets(found, n, chosen)
              D(k) == Destination(t, G[k])
  <1>1. /\ n \in Nat /\ unique \in Nat /\ chosen \in Nat /\ chosen <= unique
        /\ chosen = IF unique < limit THEN unique ELSE limit
        /\ ListsInOrder(G, n, Hits(t, slot))
        /\ ListsKept(I, unique, Firsts(found, n))
        /\ \A k \in 1 .. n : found[k] = CandidateOf(t, G[k])
        /\ \A k \in 1 .. chosen : routes[k] = CandidateOf(t, G[I[k]])
    BY DEF PlanFollows
  <1>. HIDE DEF found, n, unique, chosen, routes, D
  <1>2. \A a, b \in 1 .. n : CandidateHasSameTarget(found[a], found[b])
                               <=> D(a) = D(b)
    BY <1>1, SameTargetIsSameDestination DEF D
  <1>3. /\ \A k \in 1 .. unique : I[k] \in 1 .. n
        /\ \A k, m \in 1 .. unique : k < m => I[k] < I[m]
        /\ \A k \in 1 .. n : \E m \in 1 .. unique : I[m] <= k /\ D(I[m]) = D(k)
    <2>1. \A k \in 1 .. unique : I[k] \in 1 .. n
      BY <1>1 DEF ListsKept, Firsts
    <2>2. \A k, m \in 1 .. unique : k < m => I[k] < I[m]
      BY <1>1 DEF ListsKept
    <2>3. ASSUME NEW k \in 1 .. n
          PROVE  \E m \in 1 .. unique : I[m] <= k /\ D(I[m]) = D(k)
      <3>1. PICK a \in Firsts(found, n) :
              a <= k /\ CandidateHasSameTarget(found[a], found[k])
        BY <1>1, FirstsCoverAll
      <3>2. a \in 1 .. n
        BY DEF Firsts
      <3>3. PICK m \in 1 .. unique : I[m] = a
        BY <1>1 DEF ListsKept
      <3>. QED  BY <1>2, <3>1, <3>2, <3>3
    <2>. QED  BY <2>1, <2>2, <2>3
  <1>4. ASSUME NEW k \in 1 .. unique, NEW m \in 1 .. unique, k < m
        PROVE  D(I[k]) # D(I[m])
    <2>1. I[m] \in Firsts(found, n)
      BY <1>1 DEF ListsKept
    <2>2. I[k] \in 1 .. n /\ I[m] \in 1 .. n /\ I[k] < I[m]
      BY <1>3, <1>4
    <2>3. I[k] \in 1 .. I[m] - 1
      BY <1>1, <2>2
    <2>4. ~CandidateHasSameTarget(found[I[k]], found[I[m]])
      BY <2>1, <2>3 DEF Firsts, CandidateIsFirstOccurrence
    <2>. QED  BY <1>2, <2>2, <2>4
  <1>5. \A k \in 1 .. chosen : k \in 1 .. unique
    BY <1>1
  <1>6. \A k \in 1 .. chosen : RouteDestination(routes[k]) = D(I[k])
    <2>1. \A h : RouteDestination(CandidateOf(t, h)) = Destination(t, h)
      BY DEF RouteDestination, CandidateOf, Destination
    <2>. QED  BY <1>1, <2>1 DEF D
  <1>7. \A i, j \in 1 .. chosen :
          RouteDestination(routes[i]) = RouteDestination(routes[j]) => i = j
    <2>1. SUFFICES ASSUME NEW i \in 1 .. chosen, NEW j \in 1 .. chosen, i # j
                   PROVE  D(I[i]) # D(I[j])
      BY <1>6
    <2>2. i \in 1 .. unique /\ j \in 1 .. unique /\ (i < j \/ j < i)
      BY <1>5, <2>1
    <2>. QED  BY <1>4, <2>2
  <1>8. ASSUME NEW i \in 1 .. chosen
        PROVE  \E h \in Hits(t, slot) :
                 /\ routes[i] = CandidateOf(t, h)
                 /\ \A g \in Hits(t, slot) :
                      Before(g, h) =>
                        \E j \in 1 .. i - 1 :
                          RouteDestination(routes[j]) = Destination(t, g)
    <2>1. I[i] \in 1 .. n
      BY <1>3, <1>5
    <2>2. G[I[i]] \in Hits(t, slot) /\ routes[i] = CandidateOf(t, G[I[i]])
      BY <1>1, <2>1 DEF ListsInOrder
    <2>3. ASSUME NEW g \in Hits(t, slot), Before(g, G[I[i]])
          PROVE  \E j \in 1 .. i - 1 :
                   RouteDestination(routes[j]) = Destination(t, g)
      <3>1. PICK k \in 1 .. n : G[k] = g
        BY <1>1 DEF ListsInOrder
      <3>2. k < I[i]
        <4>1. SUFFICES ASSUME k = I[i] \/ I[i] < k
                       PROVE  FALSE
          BY <2>1, <1>1
        <4>2. Before(G[I[i]], G[I[i]]) \/ Before(G[I[i]], G[k])
          BY <1>1, <2>1, <2>3, <3>1, <4>1 DEF ListsInOrder
        <4>3. \A h \in Hits(t, slot) : h[1] \in Int /\ h[2] \in Int
          BY DEF Hits, IsSnapshot, IsArray
        <4>. QED  BY <2>2, <2>3, <3>1, <4>2, <4>3 DEF Before
      <3>3. PICK m \in 1 .. unique : I[m] <= k /\ D(I[m]) = D(k)
        BY <1>3
      <3>4. m < i
        <4>1. SUFFICES ASSUME m = i \/ i < m
                       PROVE  FALSE
          BY <1>1
        <4>2. I[i] <= I[m]
          BY <1>3, <1>5, <2>1, <4>1
        <4>3. I[m] \in 1 .. n
          BY <1>3
        <4>. QED  BY <1>1, <2>1, <3>2, <3>3, <4>2, <4>3
      <3>5. m \in 1 .. i - 1 /\ m \in 1 .. chosen
        BY <1>1, <3>4
      <3>. QED  BY <1>6, <3>1, <3>3, <3>5 DEF D
    <2>. QED  BY <2>2, <2>3
  <1>9. RoutesAreAPlan(t, slot, chosen, routes)
    BY <1>7, <1>8 DEF RoutesAreAPlan
  <1>10. n > 0 => chosen > 0
    <2>1. SUFFICES ASSUME n > 0
                   PROVE  chosen > 0
      OBVIOUS
    <2>2. \E m \in 1 .. unique : TRUE
      BY <1>1, <1>3, <2>1, 1 \in 1 .. n
    <2>. QED  BY <1>1, <2>2
  <1>11. unique = Cardinality(Destinations(t, slot))
    <2>. DEFINE f == [k \in 1 .. unique |-> D(I[k])]
    <2>1. f \in [1 .. unique -> Destinations(t, slot)]
      <3>1. \A k \in 1 .. unique : G[I[k]] \in Hits(t, slot)
        BY <1>1, <1>3 DEF ListsInOrder
      <3>. QED  BY <3>1 DEF Destinations, D
    <2>2. \A k, m \in 1 .. unique : k < m => f[k] # f[m]
      BY <1>4
    <2>3. ASSUME NEW x \in Destinations(t, slot)
          PROVE  \E k \in 1 .. unique : f[k] = x
      <3>1. PICK h \in Hits(t, slot) : x = Destination(t, h)
        BY DEF Destinations
      <3>2. PICK k \in 1 .. n : G[k] = h
        BY <1>1 DEF ListsInOrder
      <3>. QED  BY <1>3, <3>1, <3>2 DEF D
    <2>. HIDE DEF f
    <2>4. ListsOnce(f, unique, Destinations(t, slot))
      BY <2>1, <2>2, <2>3 DEF ListsOnce
    <2>. QED  BY <1>1, <2>4, ListCounts
  <1>. QED  BY <1>9, <1>10, <1>11 DEF found, n, unique, chosen, routes

\* What the client computes from a snapshot and a slot, for snapshots of every
\* size: the routes make a plan, there is one if there is a candidate, and as
\* many distinct targets are counted as the hits have destinations.
LEMMA RoutesArePlanned ==
  ASSUME NEW t, IsSnapshot(t), NEW slot \in Nat, NEW limit \in Nat \ {0}
  PROVE  LET found  == SlotCandidates(t, slot)
             n      == CountSlotCandidates(t, slot)
             unique == CountUniqueTargets(found, n)
             chosen == SelectedCount(unique, limit)
             routes == SelectTargets(found, n, chosen)
         IN  /\ Len(found) = n
             /\ Len(routes) = chosen
             /\ chosen \in Nat /\ unique \in Nat /\ chosen <= unique
             /\ chosen = IF unique < limit THEN unique ELSE limit
             /\ RoutesAreAPlan(t, slot, chosen, routes)
             /\ n > 0 => chosen > 0
             /\ unique = Cardinality(Destinations(t, slot))
  <1>1. PICK G, I : PlanFollows(t, slot, limit, G, I)
    BY PlanIsThere
  <1>2. Len(SlotCandidates(t, slot)) = CountSlotCandidates(t, slot)
    BY CandidatesFollowHits
  <1>3. \A c, n, s : s \in Nat => Len(SelectTargets(c, n, s)) = s
    BY DEF SelectTargets
  <1>. QED  BY <1>1, <1>2, <1>3, PlanIsAPlan DEF PlanFollows
=============================================================================
