----------------------- MODULE DiscoveryRefreshProofs -----------------------
(***************************************************************************)
(* Theorems about refresh for all providers, places and snapshots: the     *)
(* composition is a client, borrows are settled, the install reads lent    *)
(* memory only, and refresh reports what happened.  At the end, the two    *)
(* example programs: they use client and refresh as callers may, exit with *)
(* the right code and leave nothing behind.                                *)
(***************************************************************************)
EXTENDS ExamplePrograms, DeliverySafetyProofs

----------------------------------------------------------------------------
(* The inductive invariant. *)

RefreshType ==
  [point : RefreshPoints \union {"idle"}, status : Statuses,
   context : Contexts \union {NULL}, release : Releases,
   location : Locations \union {NULL}, before : Nat]

Lending == {"hand_over", "install", "release"}

\* Between acquire and the end there is a place; only a provider with a
\* release waits for it.
PlaceIsKnown ==
  /\ refresh.point \in Lending => refresh.location \in Locations
  /\ refresh.point = "release" => refresh.release # NULL

\* What has been installed so far on behalf of the refresh.
InstalledSoFar ==
  /\ refresh.point \in {"acquire", "hand_over", "install"} =>
       Len(installed) = refresh.before
  /\ refresh.point = "release" =>
       IF refresh.status = "OK"
       THEN /\ Len(installed) = refresh.before + 1
            /\ topology.view = storage[refresh.location]
       ELSE Len(installed) = refresh.before

RInv == /\ provider \in Providers \union {NULL}
        /\ refresh \in RefreshType
        /\ storage \in [Locations -> Snapshots]
        /\ PlaceIsKnown
        /\ InstallReadsLentMemory
        /\ InstalledSoFar
        /\ BorrowsAreSettled
        /\ owed \in [ReleaseCall -> Nat]

----------------------------------------------------------------------------
(* What the install steps of the client do, seen from refresh. *)

\* An install that starts goes on with the snapshot it was given, or returns
\* an error.
LEMMA InstallStarts ==
  ASSUME NEW t \in Snapshots, Install(t)
  PROVE  /\ UNCHANGED <<installed, topology>>
         /\ \/ pc' = "validators" /\ source' = t
            \/ pc' = "idle" /\ result'.status \in Statuses \ {"OK"}
  <1>1. InstallStatus(t) \in Statuses
    BY InstallStatusType
  <1>2. CASE InstallStatus(t) # "OK"
    BY <1>1, <1>2 DEF Install, Return, client_vars
  <1>3. CASE InstallStatus(t) = "OK"
    BY <1>3 DEF Install, Continue, client_vars
  <1>. QED  BY <1>2, <1>3

\* A step of an install goes on reading the same snapshot, fails with an
\* error and nothing installed, or returns OK with one snapshot more.
LEMMA InstallGoesOn ==
  ASSUME IInv, InstallStep, pc \in InstallPoints
  PROVE  \/ /\ pc' \in InstallPoints /\ source' = source
            /\ UNCHANGED <<installed, topology>>
         \/ /\ pc' = "idle" /\ result'.status \in Statuses \ {"OK"}
            /\ UNCHANGED <<installed, topology>>
         \/ /\ pc' = "idle" /\ result'.status = "OK"
            /\ Len(installed') = Len(installed) + 1
            /\ topology'.view = source
  <1>1. ASSUME NEW array \in ArrayNames, CloneArray(array)
        PROVE  \/ /\ pc' \in InstallPoints /\ source' = source
                  /\ UNCHANGED <<installed, topology>>
               \/ /\ pc' = "idle" /\ result'.status \in Statuses \ {"OK"}
                  /\ UNCHANGED <<installed, topology>>
    <2>1. AfterClone(array) \in InstallPoints
      BY DEF AfterClone, InstallPoints, ArrayNames
    <2>2. UNCHANGED <<installed, topology>>
      BY <1>1 DEF CloneArray, client_vars
    <2>3. CASE FailInstall("RESOURCE_EXHAUSTED")
      BY <2>2, <2>3 DEF FailInstall, Return, Statuses
    <2>4. CASE Continue(AfterClone(array)) /\ UNCHANGED source
      BY <2>1, <2>2, <2>4 DEF Continue
    <2>. QED  BY <1>1, <2>3, <2>4 DEF CloneArray
  <1>2. CASE ReceiptFails
    <2>1. PICK error \in ClockErrors : FailInstall(error)
      BY <1>2 DEF ReceiptFails
    <2>2. error \in Statuses \ {"OK"}
      BY EnvironmentAssumption
    <2>. QED
      BY <1>2, <2>1, <2>2 DEF ReceiptFails, FailInstall, Return, client_vars
  <1>3. ASSUME NEW t \in Times, Swap(t)
        PROVE  /\ pc' = "idle" /\ result'.status = "OK"
               /\ Len(installed') = Len(installed) + 1
               /\ topology'.view = source
    <2>1. /\ installed \in Seq([view : Snapshots, received : Times])
          /\ source \in Snapshots
      BY <1>3 DEF IInv, TypeOK, InstallIsNewer, InstallPoints, Swap
    <2>2. [view |-> source, received |-> t]
            \in [view : Snapshots, received : Times]
      BY <2>1
    <2>3. Len(installed') = Len(installed) + 1
      <3>. DEFINE R == [view : Snapshots, received : Times]
                  r == [view |-> source, received |-> t]
      <3>1. installed \in Seq(R) /\ r \in R /\ installed' = Append(installed, r)
        BY <1>3, <2>1, <2>2 DEF Swap
      <3>. HIDE DEF R, r
      <3>. QED  BY <3>1, AppendProperties
    <2>. QED  BY <1>3, <2>3 DEF Swap, Return
  <1>. QED  BY <1>1, <1>2, <1>3 DEF InstallStep

----------------------------------------------------------------------------
\* The call whose release is due is one that can be owed.
LEMMA OwedType ==
  ASSUME refresh \in RefreshType, NEW l \in Locations
  PROVE  Owed(l) \in ReleaseCall
  BY DEF Owed, ReleaseCall, RefreshType

\* The values of a refresh that has returned.
LEMMA EndType ==
  ASSUME NEW status \in Statuses, EndRefresh(status)
  PROVE  /\ refresh' \in RefreshType /\ provider' = NULL
         /\ refresh'.point = "idle" /\ refresh'.status = status
  BY DEF EndRefresh, NoRefresh, RefreshType, Releases

\* A returned refresh satisfies every part but what was owed.
LEMMA EndRInv ==
  ASSUME RInv, NEW status \in Statuses, EndRefresh(status),
         storage' \in [Locations -> Snapshots],
         \A call \in ReleaseCall : owed'[call] = 0,
         owed' \in [ReleaseCall -> Nat]
  PROVE  RInv'
  <1>1. /\ refresh' \in RefreshType /\ provider' = NULL
        /\ refresh'.point = "idle"
    BY EndType
  <1>2. PlaceIsKnown' /\ InstallReadsLentMemory' /\ InstalledSoFar'
    BY <1>1 DEF PlaceIsKnown, InstallReadsLentMemory, InstalledSoFar, Lending
  <1>3. BorrowsAreSettled'
    BY <1>1 DEF BorrowsAreSettled, HoldsBorrow
  <1>. QED  BY <1>1, <1>2, <1>3 DEF RInv

\* Nothing is owed unless refresh holds a borrow.
LEMMA NothingOwed ==
  ASSUME RInv, ~HoldsBorrow
  PROVE  \A call \in ReleaseCall : owed[call] = 0
  BY DEF RInv, BorrowsAreSettled

----------------------------------------------------------------------------
(* Every action preserves the invariant. *)

LEMMA ProviderStatusType ==
  ASSUME NEW p
  PROVE  ProviderStatus(p) \in Statuses
  <1>. DEFINE a == Require(p.wellformed, "INVALID_ARGUMENT")
              b == Require(p.flags_are_none, "UNSUPPORTED")
              c == Require(p.has_acquire, "INVALID_ARGUMENT")
  <1>1. /\ a \in Statuses /\ b \in Statuses /\ c \in Statuses
        /\ "OK" \in Statuses
    BY DEF Require, Statuses
  <1>2. ProviderStatus(p) = FirstOther("OK", <<a, b, c>>)
    BY DEF ProviderStatus, FirstError
  <1>. HIDE DEF a, b, c
  <1>3. <<a, b, c>> \in Seq(Statuses)
    BY <1>1, ThreeChecks
  <1>4. FirstOther("OK", <<a, b, c>>) \in Statuses
    BY ONLY <1>1, <1>3, RunOfChecks
  <1>. QED  BY ONLY <1>2, <1>4

LEMMA RefreshRInv ==
  ASSUME IInv, RInv, NEW p \in Providers, Refresh(p)
  PROVE  RInv'
  <1>1. /\ refresh.point = "idle"
        /\ UNCHANGED <<pc, source, installed, topology, storage, owed>>
    BY DEF Refresh, vars, client_vars, install_vars
  <1>2. \A call \in ReleaseCall : owed'[call] = 0
    BY <1>1, NothingOwed DEF HoldsBorrow
  <1>3. CASE ProviderStatus(p) # "OK"
    <2>1. ProviderStatus(p) \in Statuses
      BY ProviderStatusType
    <2>2. EndRefresh(ProviderStatus(p))
      BY <1>3 DEF Refresh
    <2>. QED  BY <1>1, <1>2, <2>1, <2>2, EndRInv DEF RInv
  <1>4. CASE ProviderStatus(p) = "OK"
    <2>1. /\ provider' = p
          /\ refresh' = [NoRefresh EXCEPT !.point   = "acquire",
                                          !.context = p.context,
                                          !.release = p.release,
                                          !.before  = Len(installed)]
      BY <1>4 DEF Refresh
    <2>2. Len(installed) \in Nat
      BY LenProperties DEF IInv, TypeOK
    <2>3. p.context \in Contexts /\ p.release \in Releases
      BY DEF Contexts, Releases
    <2>4. /\ refresh' \in RefreshType /\ refresh'.point = "acquire"
          /\ refresh'.before = Len(installed)
      BY <2>1, <2>2, <2>3 DEF NoRefresh, RefreshType, RefreshPoints, Statuses
    <2>5. PlaceIsKnown' /\ InstallReadsLentMemory' /\ InstalledSoFar'
      BY <1>1, <2>4
         DEF PlaceIsKnown, InstallReadsLentMemory, InstalledSoFar, Lending
    <2>6. BorrowsAreSettled'
      BY <1>2, <2>4 DEF BorrowsAreSettled, HoldsBorrow
    <2>. QED  BY <1>1, <2>1, <2>4, <2>5, <2>6 DEF RInv
  <1>. QED  BY <1>3, <1>4

LEMMA AcquireFailsRInv ==
  ASSUME IInv, RInv, AcquireFails
  PROVE  RInv'
  <1>1. refresh.point = "acquire" /\ UNCHANGED <<storage, owed>>
    BY DEF AcquireFails
  <1>2. \A call \in ReleaseCall : owed'[call] = 0
    BY <1>1, NothingOwed DEF HoldsBorrow
  <1>3. PICK status \in Statuses : EndRefresh(status)
    BY ProvidersAssumption DEF AcquireFails, Statuses
  <1>. QED  BY <1>1, <1>2, <1>3, EndRInv DEF RInv

LEMMA AcquireRInv ==
  ASSUME IInv, RInv, NEW l \in Locations, Acquire(l)
  PROVE  RInv'
  <1>1. /\ refresh.point = "acquire"
        /\ refresh' = [refresh EXCEPT !.point = "hand_over", !.location = l]
        /\ provider' \in Providers
        /\ UNCHANGED <<installed, topology, storage, pc, source>>
    BY DEF Acquire, vars, client_vars, install_vars
  <1>2. /\ refresh' \in RefreshType /\ refresh'.point = "hand_over"
        /\ refresh'.location = l /\ refresh'.release = refresh.release
        /\ refresh'.context = refresh.context
        /\ refresh'.before = refresh.before
    BY <1>1 DEF RInv, RefreshType, RefreshPoints
  <1>3. PlaceIsKnown' /\ InstallReadsLentMemory' /\ InstalledSoFar'
    BY <1>1, <1>2
       DEF RInv, PlaceIsKnown, InstallReadsLentMemory, InstalledSoFar, Lending
  <1>4. \A call \in ReleaseCall : owed[call] = 0
    BY <1>1, NothingOwed DEF HoldsBorrow
  <1>5. Owed(l) \in ReleaseCall /\ Owed(l)' = Owed(l)
    BY <1>2, OwedType DEF RInv, Owed
  <1>6. owed' \in [ReleaseCall -> Nat] /\ BorrowsAreSettled'
    <2>1. CASE refresh.release = NULL
      <3>1. owed' = owed /\ ~HoldsBorrow'
        BY <1>2, <2>1 DEF Acquire, HoldsBorrow
      <3>. QED  BY <1>4, <3>1 DEF RInv, BorrowsAreSettled
    <2>2. CASE refresh.release # NULL
      <3>1. owed' = [owed EXCEPT ![Owed(l)] = @ + 1] /\ HoldsBorrow'
        BY <1>2, <2>2 DEF Acquire, HoldsBorrow
      <3>2. owed \in [ReleaseCall -> Nat]
        BY DEF RInv
      <3>3. Owed(refresh.location)' = Owed(l)
        BY <1>2, <1>5 DEF Owed
      <3>4. owed' \in [ReleaseCall -> Nat]
        BY <1>5, <3>1, <3>2
      <3>5. \A call \in ReleaseCall :
              owed'[call] = IF call = Owed(l) THEN 1 ELSE 0
        BY <1>4, <1>5, <3>1, <3>2
      <3>. QED  BY <3>1, <3>3, <3>4, <3>5 DEF BorrowsAreSettled
    <2>. QED  BY <2>1, <2>2
  <1>. QED  BY <1>1, <1>2, <1>3, <1>6 DEF RInv

\* What is owed is settled alike at every point from hand_over to release.
LEMMA StillLending ==
  ASSUME RInv, refresh.point \in Lending, refresh'.point \in Lending,
         UNCHANGED <<owed>>, refresh'.location = refresh.location,
         refresh'.release = refresh.release, refresh'.context = refresh.context
  PROVE  BorrowsAreSettled' /\ owed' \in [ReleaseCall -> Nat]
  <1>1. /\ HoldsBorrow' <=> HoldsBorrow
        /\ Owed(refresh.location)' = Owed(refresh.location)
    BY DEF HoldsBorrow, Owed, Lending
  <1>. QED  BY <1>1 DEF RInv, BorrowsAreSettled

\* From the install back to refresh.
LEMMA AfterInstallRInv ==
  ASSUME RInv, NEW status \in Statuses, AfterInstall(status),
         refresh.point \in Lending, UNCHANGED <<storage, owed>>,
         IF status = "OK"
         THEN /\ Len(installed') = refresh.before + 1
              /\ topology'.view = storage[refresh.location]
         ELSE Len(installed') = refresh.before
  PROVE  RInv'
  <1>1. CASE refresh.release = NULL
    <2>1. \A call \in ReleaseCall : owed'[call] = 0
      BY <1>1, NothingOwed DEF HoldsBorrow
    <2>2. EndRefresh(status)
      BY <1>1 DEF AfterInstall
    <2>. QED  BY <2>1, <2>2, EndRInv DEF RInv
  <1>2. CASE refresh.release # NULL
    <2>1. /\ refresh' = [refresh EXCEPT !.point = "release", !.status = status]
          /\ UNCHANGED provider
      BY <1>2 DEF AfterInstall
    <2>2. /\ refresh' \in RefreshType /\ refresh'.point = "release"
          /\ refresh'.status = status
          /\ refresh'.location = refresh.location
          /\ refresh'.release = refresh.release
          /\ refresh'.context = refresh.context
          /\ refresh'.before = refresh.before
      BY <2>1 DEF RInv, RefreshType, RefreshPoints
    <2>3. BorrowsAreSettled' /\ owed' \in [ReleaseCall -> Nat]
      BY <2>2, StillLending DEF Lending
    <2>4. PlaceIsKnown' /\ InstallReadsLentMemory'
      BY <1>2, <2>2 DEF RInv, PlaceIsKnown, InstallReadsLentMemory, Lending
    <2>5. InstalledSoFar'
      BY <2>2 DEF InstalledSoFar
    <2>. QED  BY <2>1, <2>2, <2>3, <2>4, <2>5 DEF RInv
  <1>. QED  BY <1>1, <1>2

\* The install goes on.
LEMMA InstallingRInv ==
  ASSUME RInv, refresh.point \in Lending,
         refresh' = [refresh EXCEPT !.point = "install"],
         UNCHANGED <<provider, storage, owed>>,
         pc' \in InstallPoints, source' = storage[refresh.location],
         Len(installed') = refresh.before
  PROVE  RInv'
  <1>1. /\ refresh' \in RefreshType /\ refresh'.point = "install"
        /\ refresh'.location = refresh.location
        /\ refresh'.release = refresh.release
        /\ refresh'.context = refresh.context
        /\ refresh'.before = refresh.before
    BY DEF RInv, RefreshType, RefreshPoints
  <1>2. BorrowsAreSettled' /\ owed' \in [ReleaseCall -> Nat]
    BY <1>1, StillLending DEF Lending
  <1>3. PlaceIsKnown' /\ InstallReadsLentMemory' /\ InstalledSoFar'
    BY <1>1 DEF RInv, PlaceIsKnown, InstallReadsLentMemory, InstalledSoFar,
                Lending
  <1>. QED  BY <1>1, <1>2, <1>3 DEF RInv

LEMMA HandOverRInv ==
  ASSUME IInv, RInv, HandOver
  PROVE  RInv'
  <1>1. /\ refresh.point = "hand_over" /\ refresh.point \in Lending
        /\ refresh.location \in Locations
        /\ storage[refresh.location] \in Snapshots
        /\ Len(installed) = refresh.before
    BY DEF HandOver, RInv, PlaceIsKnown, Lending, InstalledSoFar
  <1>2. Install(storage[refresh.location]) /\ UNCHANGED <<storage, owed>>
    BY DEF HandOver
  <1>3. UNCHANGED <<installed, topology>>
    BY <1>1, <1>2, InstallStarts
  <1>4. CASE pc' = "validators" /\ source' = storage[refresh.location]
    <2>1. /\ refresh' = [refresh EXCEPT !.point = "install"]
          /\ UNCHANGED provider
      BY <1>4 DEF HandOver, DuringInstall
    <2>2. pc' \in InstallPoints
      BY <1>4 DEF InstallPoints, ArrayNames
    <2>. QED  BY <1>1, <1>2, <1>3, <1>4, <2>1, <2>2, InstallingRInv
  <1>5. CASE pc' = "idle" /\ result'.status \in Statuses \ {"OK"}
    <2>1. AfterInstall(result'.status)
      BY <1>5 DEF HandOver, DuringInstall
    <2>. QED  BY <1>1, <1>2, <1>3, <1>5, <2>1, AfterInstallRInv
  <1>. QED  BY <1>1, <1>2, <1>4, <1>5, InstallStarts

LEMMA InstallLentRInv ==
  ASSUME IInv, RInv, InstallLent
  PROVE  RInv'
  <1>1. /\ refresh.point = "install" /\ refresh.point \in Lending
        /\ Len(installed) = refresh.before
        /\ pc \in InstallPoints /\ source = storage[refresh.location]
        /\ InstallStep /\ DuringInstall /\ UNCHANGED <<storage, owed>>
    BY DEF InstallLent, RInv, InstallReadsLentMemory, Lending, InstalledSoFar
  <1>2. CASE /\ pc' \in InstallPoints /\ source' = source
             /\ UNCHANGED <<installed, topology>>
    <2>1. pc' # "idle"
      BY <1>2 DEF InstallPoints, ArrayNames
    <2>2. /\ refresh' = [refresh EXCEPT !.point = "install"]
          /\ UNCHANGED provider
      BY <1>1, <2>1 DEF DuringInstall
    <2>. QED  BY <1>1, <1>2, <2>2, InstallingRInv
  <1>3. CASE /\ pc' = "idle" /\ result'.status \in Statuses \ {"OK"}
             /\ UNCHANGED <<installed, topology>>
    BY <1>1, <1>3, AfterInstallRInv DEF DuringInstall
  <1>4. CASE /\ pc' = "idle" /\ result'.status = "OK"
             /\ Len(installed') = Len(installed) + 1
             /\ topology'.view = source
    <2>1. "OK" \in Statuses
      BY DEF Statuses
    <2>. QED  BY <1>1, <1>4, <2>1, AfterInstallRInv DEF DuringInstall
  <1>. QED  BY <1>1, <1>2, <1>3, <1>4, InstallGoesOn

LEMMA ReleaseRInv ==
  ASSUME IInv, RInv, Release
  PROVE  RInv'
  <1>1. /\ refresh.point = "release" /\ refresh.release # NULL
        /\ refresh.location \in Locations /\ refresh.status \in Statuses
        /\ owed' = [owed EXCEPT ![CalledRelease] = @ - 1]
        /\ EndRefresh(refresh.status) /\ UNCHANGED storage
    BY DEF Release, RInv, PlaceIsKnown, Lending, RefreshType
  <1>2. CalledRelease = Owed(refresh.location) /\ CalledRelease \in ReleaseCall
    BY <1>1, OwedType DEF CalledRelease, Owed, RInv
  <1>3. \A call \in ReleaseCall :
          owed[call] = IF call = CalledRelease THEN 1 ELSE 0
    BY <1>1, <1>2 DEF RInv, BorrowsAreSettled, HoldsBorrow
  <1>4. owed \in [ReleaseCall -> Nat]
    BY DEF RInv
  <1>5. \A call \in ReleaseCall : owed'[call] = 0
    BY <1>1, <1>2, <1>3, <1>4
  <1>6. owed' = [call \in ReleaseCall |-> owed'[call]]
    BY <1>1, <1>4
  <1>7. owed' \in [ReleaseCall -> Nat]
    BY <1>5, <1>6
  <1>. QED  BY <1>1, <1>5, <1>7, EndRInv DEF RInv

\* A provider publishes elsewhere than in the place that is lent.
LEMMA PublishRInv ==
  ASSUME IInv, RInv, NEW l \in Locations, NEW t \in Snapshots, Publish(l, t)
  PROVE  RInv'
  <1>1. /\ storage' = [storage EXCEPT ![l] = t] /\ ~IsLent(l)
        /\ UNCHANGED <<provider, refresh, owed, pc, source, installed,
                       topology>>
    BY DEF Publish, vars, client_vars, install_vars
  <1>2. storage' \in [Locations -> Snapshots]
    BY <1>1 DEF RInv
  <1>3. refresh.point \in Lending =>
          storage'[refresh.location] = storage[refresh.location]
    <2>1. SUFFICES ASSUME refresh.point \in Lending
                   PROVE  refresh.location # l
      BY <1>1 DEF RInv
    <2>2. CASE refresh.release = NULL
      BY <1>1, <2>2 DEF IsLent
    <2>3. CASE refresh.release # NULL
      <3>1. Owed(refresh.location) \in ReleaseCall
        BY <2>1, OwedType DEF RInv, PlaceIsKnown
      <3>2. owed[Owed(refresh.location)] = 1
        BY <2>1, <2>3, <3>1 DEF RInv, BorrowsAreSettled, HoldsBorrow, Lending
      <3>3. Owed(refresh.location).location = refresh.location
        BY DEF Owed
      <3>. QED  BY <1>1, <3>1, <3>2, <3>3 DEF IsLent
    <2>. QED  BY <2>2, <2>3
  <1>4. PlaceIsKnown' /\ BorrowsAreSettled'
    BY <1>1 DEF RInv, PlaceIsKnown, BorrowsAreSettled, HoldsBorrow, Owed
  <1>5. InstallReadsLentMemory' /\ InstalledSoFar'
    BY <1>1, <1>3 DEF RInv, InstallReadsLentMemory, InstalledSoFar, Lending
  <1>. QED  BY <1>1, <1>2, <1>4, <1>5 DEF RInv

\* The other calls on the client happen when refresh is idle.
LEMMA ClientStepRInv ==
  ASSUME IInv, RInv, ClientStep
  PROVE  RInv'
  <1>1. refresh.point = "idle" /\ UNCHANGED <<provider, refresh, storage, owed>>
    BY DEF ClientStep, refresh_vars
  <1>2. InstallReadsLentMemory' /\ InstalledSoFar'
    BY <1>1 DEF InstallReadsLentMemory, InstalledSoFar
  <1>3. PlaceIsKnown' /\ BorrowsAreSettled'
    BY <1>1 DEF RInv, PlaceIsKnown, BorrowsAreSettled, HoldsBorrow, Owed
  <1>. QED  BY <1>1, <1>2, <1>3 DEF RInv

LEMMA StepRInv == IInv /\ RInv /\ [RefreshNext]_all_vars => RInv'
  <1>. SUFFICES ASSUME IInv, RInv, [RefreshNext]_all_vars
                PROVE  RInv'
    OBVIOUS
  <1>1. CASE UNCHANGED all_vars
    <2>1. UNCHANGED <<provider, refresh, storage, owed, pc, source, installed,
                      topology>>
      BY <1>1 DEF all_vars, refresh_vars, vars, client_vars, install_vars
    <2>. QED
      BY <2>1 DEF RInv, PlaceIsKnown, InstallReadsLentMemory, InstalledSoFar,
                  BorrowsAreSettled, HoldsBorrow, Owed
  <1>. QED
    BY <1>1, RefreshRInv, AcquireFailsRInv, AcquireRInv, HandOverRInv,
       InstallLentRInv, ReleaseRInv, PublishRInv, ClientStepRInv
       DEF RefreshNext, RefreshStep

LEMMA InitRInv == RefreshInit => RInv
  <1>. SUFFICES ASSUME RefreshInit  PROVE RInv
    OBVIOUS
  <1>1. refresh \in RefreshType /\ refresh.point = "idle"
    BY DEF RefreshInit, NoRefresh, RefreshType, Statuses, Releases
  <1>2. PlaceIsKnown /\ InstallReadsLentMemory /\ InstalledSoFar
    BY <1>1 DEF PlaceIsKnown, InstallReadsLentMemory, InstalledSoFar, Lending
  <1>3. BorrowsAreSettled /\ owed \in [ReleaseCall -> Nat]
    BY <1>1 DEF RefreshInit, BorrowsAreSettled, HoldsBorrow
  <1>. QED  BY <1>1, <1>2, <1>3 DEF RInv, RefreshInit

----------------------------------------------------------------------------
(* Refinement. *)

\* A step with refresh is a step of the client, or none.
LEMMA StepOfClient == RInv /\ [RefreshNext]_all_vars => [Next]_vars
  <1>. SUFFICES ASSUME RInv, [RefreshNext]_all_vars
                PROVE  [Next]_vars
    OBVIOUS
  <1>1. CASE UNCHANGED all_vars
    BY <1>1 DEF all_vars
  <1>2. ASSUME NEW p \in Providers, Refresh(p)
        PROVE  UNCHANGED vars
    BY <1>2 DEF Refresh
  <1>3. ASSUME NEW l \in Locations, Acquire(l)
        PROVE  UNCHANGED vars
    BY <1>3 DEF Acquire
  <1>4. CASE AcquireFails \/ Release
    BY <1>4 DEF AcquireFails, Release
  <1>5. CASE HandOver
    <2>1. storage[refresh.location] \in Snapshots
      BY <1>5 DEF HandOver, RInv, PlaceIsKnown, Lending
    <2>2. Install(storage[refresh.location])
      BY <1>5 DEF HandOver
    <2>. QED  BY <2>1, <2>2 DEF Next, Call
  <1>6. CASE InstallLent
    BY <1>6 DEF InstallLent, Next
  <1>7. CASE ClientStep
    BY <1>7 DEF ClientStep
  <1>8. ASSUME NEW l \in Locations, NEW t \in Snapshots, Publish(l, t)
        PROVE  UNCHANGED vars
    BY <1>8 DEF Publish
  <1>. QED
    BY <1>1, <1>2, <1>3, <1>4, <1>5, <1>6, <1>7, <1>8
       DEF RefreshNext, RefreshStep

LEMMA RefreshInvariance == RefreshSpec => [](IInv /\ RInv)
  <1>1. RefreshInit => IInv /\ RInv
    BY InitIInv, InitRInv DEF RefreshInit
  <1>2. IInv /\ RInv /\ [RefreshNext]_all_vars => IInv' /\ RInv'
    BY StepRInv, StepOfClient, StepIInv
  <1>. QED  BY <1>1, <1>2, PTL DEF RefreshSpec

\* What refresh reports when it returns, as one step.
Truth ==
  (refresh.point # "idle" /\ refresh'.point = "idle") =>
    IF refresh'.status = "OK"
    THEN /\ Len(installed') = refresh.before + 1
         /\ topology'.view = storage[refresh.location]
    ELSE Len(installed') = refresh.before

\* An install that has returned ends refresh, or sends it to the release.
LEMMA AfterInstallEnds ==
  ASSUME RInv, NEW status \in Statuses, AfterInstall(status),
         refresh'.point = "idle"
  PROVE  refresh'.status = status
  BY EndType DEF AfterInstall, RInv, RefreshType

LEMMA StepTruth == IInv /\ RInv /\ [RefreshNext]_all_vars => Truth
  <1>. SUFFICES ASSUME IInv, RInv, [RefreshNext]_all_vars,
                       refresh.point # "idle", refresh'.point = "idle"
                PROVE  Truth
    BY DEF Truth
  <1>1. CASE UNCHANGED all_vars
    BY <1>1 DEF all_vars, refresh_vars
  <1>2. /\ ~(\E p \in Providers : Refresh(p))
        /\ ~ClientStep
        /\ ~(\E l \in Locations, t \in Snapshots : Publish(l, t))
    BY DEF Refresh, ClientStep, Publish
  <1>3. ~(\E l \in Locations : Acquire(l))
    BY DEF Acquire, RInv, RefreshType
  <1>4. CASE AcquireFails
    <2>1. Len(installed) = refresh.before /\ UNCHANGED vars
      BY <1>4 DEF AcquireFails, RInv, InstalledSoFar
    <2>2. PICK status \in Statuses \ {"OK"} : EndRefresh(status)
      BY <1>4, ProvidersAssumption DEF AcquireFails, Statuses
    <2>3. refresh'.status # "OK"
      BY <2>2, EndType
    <2>. QED  BY <2>1, <2>3 DEF Truth, vars, install_vars
  <1>5. CASE HandOver
    <2>1. /\ Len(installed) = refresh.before
          /\ storage[refresh.location] \in Snapshots
          /\ Install(storage[refresh.location]) /\ DuringInstall
      BY <1>5 DEF HandOver, RInv, PlaceIsKnown, Lending, InstalledSoFar
    <2>2. CASE pc' = "validators"
      BY <2>1, <2>2 DEF DuringInstall, RInv, RefreshType
    <2>3. CASE pc' = "idle" /\ result'.status \in Statuses \ {"OK"}
      <3>1. refresh'.status = result'.status
        BY <2>1, <2>3, AfterInstallEnds DEF DuringInstall
      <3>2. Len(installed') = Len(installed)
        BY <2>1, InstallStarts
      <3>. QED  BY <2>1, <2>3, <3>1, <3>2 DEF Truth
    <2>. QED  BY <2>1, <2>2, <2>3, InstallStarts
  <1>6. CASE InstallLent
    <2>1. /\ Len(installed) = refresh.before
          /\ pc \in InstallPoints /\ source = storage[refresh.location]
          /\ InstallStep /\ DuringInstall
      BY <1>6 DEF InstallLent, RInv, InstallReadsLentMemory, InstalledSoFar
    <2>2. CASE pc' \in InstallPoints
      <3>1. pc' # "idle"
        BY <2>2 DEF InstallPoints, ArrayNames
      <3>. QED  BY <2>1, <3>1 DEF DuringInstall, RInv, RefreshType
    <2>3. ASSUME pc' = "idle", result'.status \in Statuses
          PROVE  refresh'.status = result'.status
      BY <2>1, <2>3, AfterInstallEnds DEF DuringInstall
    <2>4. "OK" \in Statuses
      BY DEF Statuses
    <2>. QED  BY <2>1, <2>2, <2>3, <2>4, InstallGoesOn DEF Truth
  <1>7. CASE Release
    <2>1. /\ refresh.point = "release" /\ EndRefresh(refresh.status)
          /\ refresh.status \in Statuses /\ UNCHANGED vars
      BY <1>7 DEF Release, RInv, RefreshType
    <2>2. refresh'.status = refresh.status
      BY <2>1, EndType
    <2>3. UNCHANGED <<installed, topology>>
      BY <2>1 DEF vars, client_vars, install_vars
    <2>. QED  BY <2>1, <2>2, <2>3 DEF Truth, RInv, InstalledSoFar
  <1>. QED
    BY <1>1, <1>2, <1>4, <1>5, <1>6, <1>7, <1>3
       DEF RefreshNext, RefreshStep

\* A client that is also refreshed through providers is a client as without
\* them, so that everything proved of the latter holds of it: refresh changes
\* it only by an ordinary install (solana_delivery_discovery.c:83-86).
THEOREM RefreshImplementsClient == RefreshSpec => ImplementsClient
  <1>1. RefreshInit => Init
    BY DEF RefreshInit
  <1>. QED
    BY <1>1, StepOfClient, RefreshInvariance, PTL
       DEF RefreshSpec, ImplementsClient, Spec

\* Every refresh keeps its types: in particular nothing is given back that
\* was not borrowed, which would make owed negative.
THEOREM RefreshTypeCorrect == RefreshSpec => []RefreshTypeOK
  <1>1. RInv => RefreshTypeOK
    BY DEF RInv, RefreshTypeOK, RefreshType
  <1>. QED  BY <1>1, RefreshInvariance, PTL

\* Each borrow is given back exactly once, through the callback and context
\* it was acquired with, for all providers, descriptors rewritten by acquire
\* included, and all outcomes of the install
\* (solana_delivery_discovery.c:65-90).
THEOREM BorrowsSettled == RefreshSpec => []BorrowsAreSettled
  <1>1. RInv => BorrowsAreSettled
    BY DEF RInv
  <1>. QED  BY <1>1, RefreshInvariance, PTL

\* What the install of a refresh reads is what the provider lent, whatever
\* it publishes meanwhile (solana_delivery_discovery.c:83).
THEOREM InstallsReadLentMemory == RefreshSpec => []InstallReadsLentMemory
  <1>1. RInv => InstallReadsLentMemory
    BY DEF RInv
  <1>. QED  BY <1>1, RefreshInvariance, PTL

\* refresh returns OK exactly when it has installed the snapshot it was lent,
\* and otherwise nothing was installed, whichever step failed and whether or
\* not there was a release to call (solana_delivery_discovery.c:73-92).
THEOREM RefreshReportsTheInstall == RefreshSpec => RefreshTellsTheTruth
  <1>1. IInv /\ RInv /\ [RefreshNext]_all_vars => [Truth]_all_vars
    BY StepTruth
  <1>. QED
    BY <1>1, RefreshInvariance, PTL
       DEF RefreshSpec, RefreshTellsTheTruth, Truth

----------------------------------------------------------------------------
(* Progress: the part of BorrowsAreReturned that is a matter of safety. *)

\* How many steps a refresh at a point can still take, with the client at pc.
RefreshStepsLeft ==
  CASE refresh.point = "acquire"   -> 8
    [] refresh.point = "hand_over" -> 7
    [] refresh.point = "install"   -> 1 + StepsLeft(pc)
    [] refresh.point = "release"   -> 1
    [] OTHER                       -> 0

\* Each step of a refresh leaves fewer; meanwhile only a provider that
\* publishes can take a step, and it holds up nothing.
RefreshesAreBounded ==
  [][refresh.point # "idle" =>
       \/ RefreshStepsLeft' < RefreshStepsLeft
       \/ UNCHANGED <<vars, provider, refresh, owed>>]_all_vars

LEMMA InstallStepsLeft ==
  \A point \in InstallPoints : StepsLeft(point) \in 1 .. 5
  BY DEF InstallPoints, ArrayNames, StepsLeft

\* A step that ends the install, or moves it on to where n steps are left.
LEMMA DuringInstallLeaves ==
  ASSUME RInv, RInv', DuringInstall, NEW n \in 2 .. 7,
         pc' # "idle" => 1 + StepsLeft(pc') < n
  PROVE  RefreshStepsLeft' < n
  <1>1. CASE pc' # "idle"
    <2>1. refresh'.point = "install"
      BY <1>1 DEF DuringInstall, RInv, RefreshType
    <2>. QED  BY <1>1, <2>1 DEF RefreshStepsLeft
  <1>2. CASE pc' = "idle"
    <2>1. refresh'.point \in {"idle", "release"}
      BY <1>2, EndType DEF DuringInstall, AfterInstall, EndRefresh, NoRefresh,
                           RInv, RefreshType
    <2>2. RefreshStepsLeft' \in {0, 1}
      BY <2>1 DEF RefreshStepsLeft
    <2>. QED  BY <2>2
  <1>. QED  BY <1>1, <1>2

LEMMA RefreshAdvances ==
  ASSUME IInv, RInv, RInv', RefreshStep
  PROVE  RefreshStepsLeft' < RefreshStepsLeft
  <1>1. CASE AcquireFails \/ Release
    <2>1. refresh'.point = "idle"
      BY <1>1 DEF AcquireFails, Release, EndRefresh, NoRefresh
    <2>2. refresh.point \in {"acquire", "release"}
      BY <1>1 DEF AcquireFails, Release
    <2>. QED  BY <2>1, <2>2 DEF RefreshStepsLeft
  <1>2. ASSUME NEW l \in Locations, Acquire(l)
        PROVE  RefreshStepsLeft' < RefreshStepsLeft
    <2>1. refresh.point = "acquire" /\ refresh'.point = "hand_over"
      BY <1>2 DEF Acquire, RInv, RefreshType
    <2>. QED  BY <2>1 DEF RefreshStepsLeft
  <1>3. CASE HandOver
    <2>1. refresh.point = "hand_over" /\ DuringInstall
      BY <1>3 DEF HandOver
    <2>2. pc' # "idle" => pc' = "validators"
      BY <1>3 DEF HandOver, Install, Return, Continue
    <2>3. pc' # "idle" => 1 + StepsLeft(pc') < 7
      BY <2>2 DEF StepsLeft
    <2>4. RefreshStepsLeft' < 7
      BY <2>1, <2>3, DuringInstallLeaves
    <2>. QED  BY <2>1, <2>4 DEF RefreshStepsLeft
  <1>4. CASE InstallLent
    <2>1. /\ refresh.point = "install" /\ DuringInstall /\ InstallStep
          /\ pc \in InstallPoints
      BY <1>4 DEF InstallLent, RInv, InstallReadsLentMemory
    <2>2. StepsLeft(pc) \in 1 .. 5
      BY <2>1, InstallStepsLeft
    <2>3. pc # "idle"
      BY <2>1 DEF InstallPoints, ArrayNames
    <2>4. StepsLeft(pc') < StepsLeft(pc)
      BY <2>1, <2>3, StepAdvances DEF Next
    <2>5. pc' \in SubmitPoints \union InstallPoints \union {"idle"}
      BY <2>1, InstallGoesOn
    <2>6. StepsLeft(pc') \in 0 .. 7
      BY <2>5, PointsCount
    <2>7. 1 + StepsLeft(pc) \in 2 .. 7 /\ 1 + StepsLeft(pc') < 1 + StepsLeft(pc)
      BY <2>2, <2>4, <2>6
    <2>8. RefreshStepsLeft' < 1 + StepsLeft(pc)
      BY <2>1, <2>7, DuringInstallLeaves
    <2>. QED  BY <2>1, <2>8 DEF RefreshStepsLeft
  <1>. QED  BY <1>1, <1>2, <1>3, <1>4 DEF RefreshStep

\* A refresh returns after at most eight steps of its own, and then nothing
\* is owed: a borrow is given back however the install ends and whatever the
\* provider publishes meanwhile (solana_delivery_discovery.c:54-93).
THEOREM RefreshesReturn ==
  /\ RefreshSpec => RefreshesAreBounded
  /\ RefreshSpec => [](/\ RefreshStepsLeft \in 0 .. 8
                       /\ RefreshStepsLeft = 0 =>
                            /\ refresh.point = "idle"
                            /\ \A call \in ReleaseCall : owed[call] = 0)
  <1>1. RInv => /\ RefreshStepsLeft \in 0 .. 8
                /\ RefreshStepsLeft = 0 =>
                     /\ refresh.point = "idle"
                     /\ \A call \in ReleaseCall : owed[call] = 0
    <2>. SUFFICES ASSUME RInv
                  PROVE  /\ RefreshStepsLeft \in 0 .. 8
                         /\ RefreshStepsLeft = 0 => refresh.point = "idle"
                         /\ refresh.point = "idle" =>
                              \A call \in ReleaseCall : owed[call] = 0
      OBVIOUS
    <2>1. refresh.point \in {"idle", "acquire", "hand_over", "install", "release"}
      BY DEF RInv, RefreshType, RefreshPoints
    <2>2. refresh.point = "install" => StepsLeft(pc) \in 1 .. 5
      BY InstallStepsLeft DEF RInv, InstallReadsLentMemory
    <2>3. /\ RefreshStepsLeft \in 0 .. 8
          /\ RefreshStepsLeft = 0 => refresh.point = "idle"
      BY <2>1, <2>2 DEF RefreshStepsLeft
    <2>4. refresh.point = "idle" => \A call \in ReleaseCall : owed[call] = 0
      BY DEF RInv, BorrowsAreSettled, HoldsBorrow
    <2>. QED  BY <2>3, <2>4
  <1>2. IInv /\ RInv /\ RInv' /\ [RefreshNext]_all_vars =>
          [refresh.point # "idle" =>
             \/ RefreshStepsLeft' < RefreshStepsLeft
             \/ UNCHANGED <<vars, provider, refresh, owed>>]_all_vars
    <2>. SUFFICES ASSUME IInv, RInv, RInv', RefreshNext, refresh.point # "idle"
                  PROVE  \/ RefreshStepsLeft' < RefreshStepsLeft
                         \/ UNCHANGED <<vars, provider, refresh, owed>>
      OBVIOUS
    <2>1. ~ClientStep /\ \A p : ~Refresh(p)
      BY DEF ClientStep, Refresh
    <2>2. CASE RefreshStep
      BY <2>2, RefreshAdvances
    <2>3. ASSUME NEW l \in Locations, NEW t \in Snapshots, Publish(l, t)
          PROVE  UNCHANGED <<vars, provider, refresh, owed>>
      BY <2>3 DEF Publish
    <2>. QED  BY <2>1, <2>2, <2>3 DEF RefreshNext
  <1>. QED
    BY <1>1, <1>2, RefreshInvariance, PTL DEF RefreshSpec, RefreshesAreBounded

----------------------------------------------------------------------------
(* The example programs: each of their steps is one of a client that is    *)
(* also refreshed.                                                         *)

\* Only the line that refreshes has a refresh in progress.
RefreshInTurn == refresh.point # "idle" => line = "refresh"

\* The other lines leave the locals of refresh alone.
LEMMA StepInTurn ==
  RefreshInTurn /\ [ProgramNext]_program_vars => RefreshInTurn'
  <1>. SUFFICES ASSUME RefreshInTurn, [ProgramNext]_program_vars
                PROVE  RefreshInTurn'
    OBVIOUS
  <1>1. CASE CreateLine \/ InstallLine \/ SubmitLine \/ PollLine \/ DestroyLine
    <2>1. refresh' = refresh /\ line # "refresh"
      BY <1>1 DEF CreateLine, InstallLine, SubmitLine, PollLine, DestroyLine,
                  refresh_vars
    <2>. QED  BY <2>1 DEF RefreshInTurn
  <1>2. CASE RefreshLine
    BY <1>2 DEF RefreshLine, RefreshInTurn
  <1>3. CASE UNCHANGED program_vars
    BY <1>3 DEF program_vars, main_vars, all_vars, refresh_vars, RefreshInTurn
  <1>. QED  BY <1>1, <1>2, <1>3 DEF ProgramNext

\* Each line is a call on the client or a step of the refresh.
LEMMA StepOfRefresh ==
  RefreshInTurn /\ [ProgramNext]_program_vars => [RefreshNext]_all_vars
  <1>. SUFFICES ASSUME RefreshInTurn, [ProgramNext]_program_vars
                PROVE  [RefreshNext]_all_vars
    OBVIOUS
  <1>1. ASSUME line # "refresh", Next, UNCHANGED refresh_vars
        PROVE  RefreshNext
    BY <1>1 DEF RefreshInTurn, ClientStep, RefreshNext
  <1>2. CASE CreateLine
    BY <1>1, <1>2 DEF CreateLine, Next, Call
  <1>3. CASE InstallLine
    BY <1>1, <1>3, ProgramsAssumption DEF InstallLine, Next, Call
  <1>4. CASE SubmitLine
    BY <1>1, <1>4, ProgramsAssumption DEF SubmitLine, Next, Call
  <1>5. CASE PollLine
    <2>1. 1 \in 0 .. MaxRoom
      BY ProgramsAssumption, BoundsAssumption
    <2>. QED  BY <1>1, <1>5, <2>1 DEF PollLine, Next, Call
  <1>6. CASE DestroyLine
    BY <1>1, <1>6 DEF DestroyLine, Next, Call
  <1>7. CASE RefreshLine
    BY <1>7, ProgramsAssumption
       DEF RefreshLine, AcquirePlace, ReleasePlace, RefreshNext, RefreshStep
  <1>8. CASE UNCHANGED program_vars
    BY <1>8 DEF program_vars
  <1>. QED  BY <1>2, <1>3, <1>4, <1>5, <1>6, <1>7, <1>8 DEF ProgramNext

\* The two programs use the library as its callers may: what is proved of a
\* client and of refresh holds of them (delivery_local_acceptance.c:53-107,
\* discovery_refresh.c:95-125).
THEOREM ProgramsUseTheLibrary == ProgramSpec => RefreshSpec
  <1>1. ProgramInit => RefreshInit /\ RefreshInTurn
    BY DEF ProgramInit, RefreshInit, RefreshInTurn, NoRefresh
  <1>. QED
    BY <1>1, StepInTurn, StepOfRefresh, PTL DEF ProgramSpec, RefreshSpec

\* What callers see of a client that providers feed, and of the one in each
\* program, is the service: a call is one step or none, also when its snapshot
\* is borrowed (solana_delivery_discovery.c:54-93).
THEOREM RefreshImplementsService ==
  (RefreshSpec => ImplementsService) /\ (ProgramSpec => ImplementsService)
  BY RefreshImplementsClient, ClientImplementsService, ProgramsUseTheLibrary,
     PTL DEF ImplementsClient

\* The invariants of the client and of refresh hold in a program.
LEMMA LibraryInvariance ==
  ProgramSpec => [](IInv /\ RInv /\ PlanInv /\ Memory)
  BY ProgramsUseTheLibrary, RefreshInvariance, RefreshImplementsClient,
     MemoryInvariance, PTL DEF ImplementsClient

\* What is invariant of the library; it holds before and after each step.
Library == IInv /\ RInv /\ PlanInv /\ Memory

----------------------------------------------------------------------------
(* What main has at each line. *)

\* Nothing has been accepted, handed out or given back yet.
NothingDone ==
  /\ exit_code = 1 /\ request_id = 0 /\ release_count = 0
  /\ requests = << >> /\ polled = << >>

\* The state a line finds.
AtLine ==
  /\ line \in {"create", "install", "refresh"} => NothingDone
  /\ line = "submit" => /\ exit_code = 1 /\ release_count = 0
                        /\ requests = << >> /\ polled = << >>
  /\ line = "poll" => /\ exit_code = 1 /\ release_count = 0
                      /\ polled = << >> /\ Len(requests) = 1
                      /\ request_id = requests[1].request_id
                      /\ request_id # 0
  /\ line \in {"install", "submit", "poll"} => program = "local_acceptance"
  /\ line = "refresh" => program = "discovery_refresh"

\* The one refresh, of the one place, finds nothing installed.
AtRefresh ==
  /\ line = "create" => installed = << >>
  /\ line = "refresh" =>
       IF refresh.point = "idle" THEN installed = << >> ELSE refresh.before = 0
  /\ refresh.point \in Lending => refresh.location = Place
  /\ storage[Place] = Topology

\* The invariant of main.
ProgramInv ==
  /\ ProgramTypeOK
  /\ RefreshInTurn
  /\ AtLine
  /\ AtRefresh
  /\ ExitTellsTheTruth

\* A program that has not polled has demonstrated nothing.
LEMMA NothingDemonstrated ==
  ASSUME exit_code' = 1, polled' = << >> \/ program' # "local_acceptance",
         release_count' = 0
  PROVE  ExitTellsTheTruth'
  BY DEF ExitTellsTheTruth, Demonstrated

LEMMA CreateLineStep ==
  ASSUME Library, ProgramInv, CreateLine
  PROVE  ProgramInv'
  <1>1. /\ line = "create" /\ Create /\ client = NULL
        /\ line' = IF result'.status # "OK" THEN "exited"
                   ELSE IF program = "local_acceptance" THEN "install"
                        ELSE "refresh"
        /\ UNCHANGED <<refresh, storage, program, exit_code, request_id,
                       release_count>>
        /\ UNCHANGED <<topology, requests, polled, installed>>
    BY DEF CreateLine, Create, refresh_vars
  <1>2. /\ refresh.point = "idle" /\ installed = << >> /\ NothingDone
        /\ program \in {"local_acceptance", "discovery_refresh"}
    BY <1>1 DEF ProgramInv, RefreshInTurn, AtRefresh, AtLine, ProgramTypeOK
  <1>3. \/ result'.status = "OK" /\ client' # NULL
        \/ result'.status # "OK" /\ client' = NULL
    <2>1. CanAllocate => FreshBlock # NULL
      BY FreshBlockType, EnvironmentAssumption
    <2>. QED  BY <1>1, <2>1 DEF Create, Return
  <1>4. ProgramTypeOK'
    BY <1>1, <1>2, <1>3 DEF ProgramInv, ProgramTypeOK, Lines
  <1>5. RefreshInTurn' /\ AtRefresh' /\ AtLine'
    BY <1>1, <1>2 DEF ProgramInv, RefreshInTurn, AtRefresh, Lending, AtLine, NothingDone
  <1>6. ExitTellsTheTruth'
    BY <1>1 DEF ExitTellsTheTruth
  <1>. QED  BY <1>4, <1>5, <1>6 DEF ProgramInv

LEMMA InstallLineStep ==
  ASSUME Library, ProgramInv, InstallLine
  PROVE  ProgramInv'
  <1>1. /\ line = "install" /\ line' \in {"install", "submit", "destroy"}
        /\ UNCHANGED <<refresh, storage, program, exit_code, request_id,
                       release_count>>
    BY DEF InstallLine, AfterCall, refresh_vars
  <1>2. UNCHANGED <<client, requests, polled>>
    BY DEF InstallLine, Install, InstallStep, CloneArray, ReceiptFails, Swap,
           client_vars
  <1>3. /\ refresh.point = "idle" /\ NothingDone /\ client # NULL
        /\ program = "local_acceptance"
    BY <1>1 DEF ProgramInv, RefreshInTurn, AtLine, ProgramTypeOK
  <1>4. ProgramTypeOK' /\ RefreshInTurn' /\ AtLine'
    BY <1>1, <1>2, <1>3 DEF ProgramInv, ProgramTypeOK, Lines, RefreshInTurn,
                            AtLine, NothingDone
  <1>5. AtRefresh'
    BY <1>1, <1>3 DEF ProgramInv, AtRefresh, Lending
  <1>6. ExitTellsTheTruth'
    BY <1>1, <1>2, <1>3, NothingDemonstrated DEF NothingDone
  <1>. QED  BY <1>4, <1>5, <1>6 DEF ProgramInv

\* A submission goes on, fails with nothing accepted, or has accepted the
\* request whose identifier it returns.
LEMMA SubmitLineStep ==
  ASSUME Library, Library', ProgramInv, SubmitLine
  PROVE  ProgramInv'
  <1>1. /\ line = "submit" /\ request_id' = result'.request_id
        /\ line' = IF pc' # "idle" THEN line
                   ELSE IF result'.status = "OK" THEN "poll" ELSE "destroy"
        /\ UNCHANGED <<refresh, storage, program, exit_code, release_count>>
    BY DEF SubmitLine, AfterCall, refresh_vars
  <1>2. /\ refresh.point = "idle" /\ client # NULL
        /\ exit_code = 1 /\ release_count = 0
        /\ requests = << >> /\ polled = << >>
        /\ program = "local_acceptance"
    BY <1>1 DEF ProgramInv, RefreshInTurn, AtLine, ProgramTypeOK
  <1>3. /\ UNCHANGED <<client, polled>>
        /\ pc' # "idle" => requests' = << >>
        /\ pc' = "idle" /\ result'.status = "OK" =>
             /\ Len(requests') = 1
             /\ result'.request_id = requests'[1].request_id
             /\ result'.request_id # 0
    <2>1. CASE Submit(Bytes, SubmitOption)
      BY <1>2, <2>1 DEF Submit, Return, Continue, client_vars
    <2>2. CASE SubmitStep
      <3>1. pc \in SubmitPoints /\ UNCHANGED <<client, polled>>
        BY <2>2 DEF SubmitStep, Admit, AllocateCandidates, AllocateRoutes,
                    AllocateTransaction, AllocateTargets, AllocateRequest,
                    Allocate, Accept, SubmitPoints, TempNames, OwnedNames,
                    client_vars
      <3>2. pc' # "idle" => UNCHANGED requests
        BY <2>2 DEF SubmitStep, Admit, AllocateCandidates, AllocateRoutes,
                    AllocateTransaction, AllocateTargets, AllocateRequest,
                    Allocate, Accept, EndSubmit, Return, client_vars
      <3>3. pc' = "idle" /\ result'.status = "OK" =>
              /\ Len(requests') = Len(requests) + 1
              /\ result'.request_id = requests'[1].request_id
              /\ result'.request_id # 0
        <4>1. PlanInv /\ [Next]_vars /\ (pc' = "idle" => vars' # vars)
          BY <2>2, <3>1 DEF Next, Library, vars, SubmitPoints, TempNames,
                            OwnedNames
        <4>. QED  BY <3>1, <4>1, StepTellsTheTruth
      <3>. QED  BY <1>2, <3>1, <3>2, <3>3
    <2>. QED  BY <2>1, <2>2 DEF SubmitLine
  <1>4. result'.request_id \in 0 .. MaxRequestId
    BY DEF Library, IInv, TypeOK
  <1>5. ProgramTypeOK' /\ RefreshInTurn' /\ AtLine'
    BY <1>1, <1>2, <1>3, <1>4 DEF ProgramInv, ProgramTypeOK, Lines,
                                  RefreshInTurn, AtLine, NothingDone
  <1>6. AtRefresh'
    BY <1>1, <1>2 DEF ProgramInv, AtRefresh, Lending
  <1>7. ExitTellsTheTruth'
    BY <1>1, <1>2, <1>3, NothingDemonstrated
  <1>. QED  BY <1>5, <1>6, <1>7 DEF ProgramInv

LEMMA PollLineStep ==
  ASSUME Library, Library', ProgramInv, PollLine
  PROVE  ProgramInv'
  <1>1. /\ line = "poll" /\ line' = "destroy"
        /\ UNCHANGED <<refresh, storage, program, request_id, release_count>>
        /\ UNCHANGED <<client, requests>>
    BY DEF PollLine, Poll, refresh_vars
  <1>2. /\ refresh.point = "idle" /\ client # NULL
        /\ polled = << >> /\ Len(requests) = 1
        /\ request_id = requests[1].request_id /\ request_id # 0
        /\ program = "local_acceptance"
    BY <1>1 DEF ProgramInv, RefreshInTurn, AtLine, ProgramTypeOK
  <1>3. /\ exit_code' = IF /\ Len(polled') = 1
                           /\ polled'[1].request_id = request_id
                        THEN 0 ELSE 1
    <2>1. exit_code' = IF /\ Len(polled') = Len(polled) + 1
                          /\ request_id # 0
                          /\ polled'[Len(polled')].request_id = request_id
                       THEN 0 ELSE 1
      BY DEF PollLine
    <2>. QED  BY <1>2, <2>1
  <1>4. ProgramTypeOK' /\ RefreshInTurn' /\ AtLine'
    BY <1>1, <1>2, <1>3 DEF ProgramInv, ProgramTypeOK, Lines, RefreshInTurn,
                            AtLine
  <1>5. AtRefresh'
    BY <1>1, <1>2 DEF ProgramInv, AtRefresh, Lending
  <1>6. ExitTellsTheTruth'
    BY <1>1, <1>2, <1>3 DEF ExitTellsTheTruth, Demonstrated
  <1>. QED  BY <1>4, <1>5, <1>6 DEF ProgramInv

LEMMA DestroyLineStep ==
  ASSUME ProgramInv, DestroyLine
  PROVE  ProgramInv'
  <1>1. /\ line = "destroy" /\ line' = "exited"
        /\ UNCHANGED <<refresh, storage, program, exit_code, request_id,
                       release_count>>
        /\ client' = NULL
    BY DEF DestroyLine, Destroy, refresh_vars
  <1>2. ProgramTypeOK' /\ RefreshInTurn' /\ AtLine'
    BY <1>1 DEF ProgramInv, ProgramTypeOK, Lines, RefreshInTurn, AtLine
  <1>3. AtRefresh' /\ ExitTellsTheTruth'
    BY <1>1 DEF ProgramInv, RefreshInTurn, AtRefresh, Lending, ExitTellsTheTruth
  <1>. QED  BY <1>2, <1>3 DEF ProgramInv

\* What a step of the refresh does to the locals of main and of refresh.
LEMMA RefreshLineCases ==
  ASSUME Library, ProgramInv, RefreshLine
  PROVE  /\ line = "refresh"
         /\ UNCHANGED <<client, requests, polled, storage, program, request_id>>
         /\ release_count = 0 /\ release_count' \in 0 .. 1
         /\ refresh'.point \in Lending => refresh'.location = Place
         /\ \/ /\ refresh'.point # "idle" /\ refresh'.before = 0
               /\ release_count' = 0
            \/ /\ refresh'.point = "idle" /\ refresh.point # "idle"
            \/ /\ refresh'.point = "idle" /\ release_count' = 0
               /\ refresh'.status # "OK"
  <1>1. /\ line = "refresh" /\ release_count = 0
        /\ refresh.point \in Lending => refresh.location = Place
        /\ IF refresh.point = "idle" THEN installed = << >>
           ELSE refresh.before = 0
        /\ UNCHANGED <<program, request_id>>
        /\ refresh \in RefreshType
    BY DEF RefreshLine, ProgramInv, AtLine, NothingDone, AtRefresh, Library,
           RInv
  <1>2. ASSUME NEW status, EndRefresh(status)
        PROVE  refresh'.point = "idle" /\ refresh'.status = status
    BY <1>2 DEF EndRefresh, NoRefresh
  <1>3. CASE Refresh(Descriptor)
    <2>1. /\ refresh.point = "idle"
          /\ UNCHANGED <<client, requests, polled, storage>>
          /\ release_count' = 0
      BY <1>1, <1>3 DEF Refresh, vars, client_vars, RefreshLine, ReleasePlace,
                        Release
    <2>2. CASE ProviderStatus(Descriptor) # "OK"
      BY <1>1, <1>2, <1>3, <2>1, <2>2 DEF Refresh, Lending
    <2>3. CASE ProviderStatus(Descriptor) = "OK"
      <3>1. refresh'.point = "acquire" /\ refresh'.before = Len(installed)
        BY <1>3, <2>3 DEF Refresh, NoRefresh
      <3>. QED  BY <1>1, <2>1, <3>1 DEF Lending
    <2>. QED  BY <2>2, <2>3
  <1>4. CASE AcquirePlace
    <2>1. /\ refresh.point = "acquire"
          /\ refresh' = [refresh EXCEPT !.point = "hand_over",
                                        !.location = Place]
          /\ UNCHANGED <<client, requests, polled, storage>>
      BY <1>4 DEF AcquirePlace, Acquire, vars, client_vars
    <2>2. release_count' = 0
      BY <1>1, <2>1 DEF RefreshLine, ReleasePlace, Release
    <2>3. /\ refresh'.point = "hand_over" /\ refresh'.location = Place
          /\ refresh'.before = refresh.before
      BY <1>1, <2>1 DEF RefreshType
    <2>. QED  BY <1>1, <2>1, <2>2, <2>3
  <1>5. CASE HandOver \/ InstallLent
    <2>1. /\ refresh.point \in {"hand_over", "install"} /\ DuringInstall
          /\ UNCHANGED <<client, requests, polled, storage>>
      BY <1>5 DEF HandOver, InstallLent, Install, InstallStep, CloneArray,
                  ReceiptFails, Swap, client_vars
    <2>2. release_count' = 0
      BY <1>1, <2>1 DEF RefreshLine, ReleasePlace, Release
    <2>3. \/ refresh'.point = "idle"
          \/ refresh'.location = Place /\ refresh'.before = 0
             /\ refresh'.point # "idle"
      BY <1>1, <1>2, <2>1 DEF DuringInstall, AfterInstall, RefreshType, Lending
    <2>. QED  BY <1>1, <2>1, <2>2, <2>3 DEF Lending
  <1>6. CASE ReleasePlace
    <2>1. /\ refresh.point = "release" /\ EndRefresh(refresh.status)
          /\ UNCHANGED <<client, requests, polled, storage>>
          /\ release_count' = IF refresh.location = Place THEN 1 ELSE 0
      BY <1>1, <1>6 DEF ReleasePlace, Release, vars, client_vars
    <2>. QED  BY <1>1, <1>2, <2>1 DEF Lending
  <1>. QED  BY <1>1, <1>3, <1>4, <1>5, <1>6 DEF RefreshLine

\* refresh goes on, or has returned: then Truth says what was installed.
LEMMA RefreshLineStep ==
  ASSUME Library, Library', ProgramInv, RefreshLine
  PROVE  ProgramInv'
  <1>1. /\ line = "refresh"
        /\ UNCHANGED <<client, requests, polled, storage, program, request_id>>
        /\ release_count' \in 0 .. 1
        /\ refresh'.point \in Lending => refresh'.location = Place
    BY RefreshLineCases
  <1>2. /\ client # NULL /\ program = "discovery_refresh" /\ NothingDone
        /\ storage[Place] = Topology
    BY <1>1 DEF ProgramInv, AtLine, AtRefresh, ProgramTypeOK
  <1>3. CASE refresh'.point # "idle"
    <2>1. refresh'.before = 0 /\ release_count' = 0
      BY <1>3, RefreshLineCases
    <2>2. UNCHANGED <<line, exit_code>>
      BY <1>3 DEF RefreshLine
    <2>3. ProgramTypeOK' /\ RefreshInTurn' /\ AtLine'
      BY <1>1, <1>2, <2>1, <2>2 DEF ProgramInv, ProgramTypeOK, RefreshInTurn,
                                    AtLine, NothingDone
    <2>4. AtRefresh' /\ ExitTellsTheTruth'
      BY <1>1, <1>2, <1>3, <2>1, <2>2
         DEF AtRefresh, ExitTellsTheTruth
    <2>. QED  BY <2>3, <2>4 DEF ProgramInv
  <1>4. CASE refresh'.point = "idle"
    <2>1. /\ line' = "destroy"
          /\ exit_code' = ExitOf(refresh'.status, release_count')
      BY <1>4 DEF RefreshLine
    <2>2. ProgramTypeOK' /\ RefreshInTurn' /\ AtLine'
      BY <1>1, <1>2, <1>4, <2>1 DEF ProgramInv, ProgramTypeOK, RefreshInTurn,
                                    AtLine, Lines, ExitOf
    <2>3. AtRefresh'
      BY <1>1, <1>2, <1>4, <2>1 DEF AtRefresh, Lending
    <2>4. release_count' # 0 =>
            (refresh'.status = "OK"
               <=> has_topology' /\ topology'.view = Topology)
      <3>. SUFFICES ASSUME release_count' # 0
           PROVE  refresh'.status = "OK"
                    <=> has_topology' /\ topology'.view = Topology
        OBVIOUS
      <3>1. refresh.point # "idle"
        BY <1>4, RefreshLineCases
      <3>2. refresh.before = 0 /\ refresh.location = Place
        <4>1. refresh.point = "release"
          BY RefreshLineCases DEF RefreshLine, ReleasePlace, Release
        <4>. QED  BY <1>1, <3>1, <4>1 DEF ProgramInv, AtRefresh, Lending
      <3>3. Truth
        BY StepTruth, StepOfRefresh DEF Library, ProgramInv, ProgramNext
      <3>4. has_topology' <=> Len(installed') # 0
        <4>1. installed' = << >> <=> Len(installed') = 0
          BY EmptySeq DEF Library, IInv, TypeOK
        <4>2. has_topology' = (installed' # << >>)
          BY Zenon DEF Library, PlanInv, GenerationsIncrease
        <4>. QED  BY ONLY <4>1, <4>2, Zenon
      <3>. HIDE DEF Topology
      <3>5. CASE refresh'.status = "OK"
        BY <1>2, <1>4, <3>1, <3>2, <3>3, <3>4, <3>5 DEF Truth
      <3>6. CASE refresh'.status # "OK"
        BY <1>4, <3>1, <3>2, <3>3, <3>4, <3>6 DEF Truth
      <3>. QED  BY <3>5, <3>6
    <2>5. ExitTellsTheTruth'
      BY <1>1, <1>2, <2>1, <2>4 DEF ExitTellsTheTruth, Demonstrated, ExitOf
    <2>. QED  BY <2>2, <2>3, <2>5 DEF ProgramInv
  <1>. QED  BY <1>3, <1>4

LEMMA StepProgram ==
  ASSUME Library, Library', ProgramInv, [ProgramNext]_program_vars
  PROVE  ProgramInv'
  <1>1. CASE UNCHANGED program_vars
    <2>1. /\ UNCHANGED <<main_vars, refresh, storage>>
          /\ UNCHANGED <<client, has_topology, topology, requests, polled,
                         installed>>
      BY <1>1 DEF program_vars, all_vars, refresh_vars, vars, client_vars
    <2>. QED
      BY <2>1 DEF main_vars, ProgramInv, ProgramTypeOK, RefreshInTurn, AtLine,
                  NothingDone, AtRefresh,
                  ExitTellsTheTruth, Demonstrated
  <1>. QED
    BY <1>1, CreateLineStep, InstallLineStep, SubmitLineStep, PollLineStep,
       RefreshLineStep, DestroyLineStep DEF ProgramNext

LEMMA InitProgram == ProgramInit => ProgramInv
  <1>. SUFFICES ASSUME ProgramInit  PROVE ProgramInv
    OBVIOUS
  <1>1. /\ client = NULL /\ topology = NoTopology /\ requests = << >>
        /\ polled = << >> /\ installed = << >>
        /\ refresh.point = "idle" /\ storage[Place] = Topology
    BY DEF ProgramInit, RefreshInit, Init, NoRefresh
  <1>2. ProgramTypeOK /\ AtLine /\ ExitTellsTheTruth
    BY <1>1, BoundsAssumption
       DEF ProgramInit, ProgramTypeOK, Lines, AtLine, NothingDone,
           ExitTellsTheTruth
  <1>3. RefreshInTurn /\ AtRefresh
    BY <1>1 DEF ProgramInit, RefreshInTurn, AtRefresh, Lending
  <1>. QED  BY <1>2, <1>3 DEF ProgramInv

LEMMA ProgramInvariance == ProgramSpec => [](Library /\ ProgramInv)
  <1>1. ProgramSpec => []Library
    BY LibraryInvariance DEF Library
  <1>2. Library /\ Library' /\ ProgramInv /\ [ProgramNext]_program_vars
          => ProgramInv'
    BY StepProgram
  <1>. QED  BY <1>1, <1>2, InitProgram, PTL DEF ProgramSpec

\* main uses the client only between its creation and its destruction, and
\* release is called at most once.
THEOREM ProgramTypeCorrect == ProgramSpec => []ProgramTypeOK
  <1>1. ProgramInv => ProgramTypeOK
    BY DEF ProgramInv
  <1>. QED  BY <1>1, ProgramInvariance, PTL

\* A program exits with 0 exactly when it has done what it demonstrates,
\* whichever call fails: at each line main knows what the calls before it have
\* left (delivery_local_acceptance.c:98-107, discovery_refresh.c:122-125).
THEOREM ExitsTellTheTruth == ProgramSpec => []ExitTellsTheTruth
  <1>1. ProgramInv => ExitTellsTheTruth
    BY DEF ProgramInv
  <1>. QED  BY <1>1, ProgramInvariance, PTL

\* A program that has exited has given back every block and every borrow,
\* whichever call failed: it has destroyed its client, or created none, and
\* nothing outlives that (delivery_local_acceptance.c:53-107,
\* discovery_refresh.c:106-125).
THEOREM ExitsAreClean == ProgramSpec => []ExitIsClean
  <1>1. Library /\ ProgramInv /\ (client = NULL => heap = {}) => ExitIsClean
    <2>. SUFFICES ASSUME Library, ProgramInv, line = "exited",
                         client = NULL => heap = {}
                  PROVE  ExitIsClean
      BY DEF ExitIsClean
    <2>1. client = NULL /\ refresh.point = "idle"
      BY DEF ProgramInv, ProgramTypeOK, RefreshInTurn
    <2>2. \A call \in ReleaseCall : owed[call] = 0
      BY <2>1 DEF Library, RInv, BorrowsAreSettled, HoldsBorrow
    <2>. QED  BY <2>1, <2>2 DEF ExitIsClean
  <1>2. ProgramSpec => [](client = NULL => heap = {})
    BY NothingOutlivesTheClient, ProgramsUseTheLibrary, RefreshImplementsClient,
       PTL DEF ImplementsClient
  <1>. QED  BY <1>1, <1>2, ProgramInvariance, PTL
=============================================================================
