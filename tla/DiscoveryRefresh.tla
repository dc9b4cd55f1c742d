-------------------------- MODULE DiscoveryRefresh --------------------------
(***************************************************************************)
(* solana_delivery_client_refresh_topology (solana_delivery_discovery.c):  *)
(* a snapshot is borrowed from a provider, installed and given back.       *)
(*                                                                         *)
(* The provider is code of the caller behind two callbacks, acquire and    *)
(* release, and a descriptor that names them.  refresh calls it twice, so  *)
(* the provider runs in the middle of refresh: acquire may fail, return no *)
(* snapshot, return one of its own places in memory, and change the        *)
(* descriptor it was called through.  Between calls, and on threads of its *)
(* own during them, the provider publishes other snapshots in the places   *)
(* it has not lent.                                                        *)
(*                                                                         *)
(* The install inside refresh is the one of DeliveryClient, step by step.  *)
(* The client's other calls happen only outside refresh: calls on one      *)
(* client are serialised by its caller.                                    *)
(***************************************************************************)
EXTENDS DeliveryClient, Integers

CONSTANTS
  Providers,      \* what descriptors contain, valid or not
  Locations,      \* the places where providers keep snapshots
  AcquireErrors   \* the statuses a failing acquire returns

ASSUME ProvidersAssumption ==
  /\ NULL \notin Locations
  /\ AcquireErrors \subseteq Statuses \ {"OK"}
  /\ \A p \in Providers :
       /\ p.wellformed \in BOOLEAN
       /\ p.flags_are_none \in BOOLEAN
       /\ p.has_acquire \in BOOLEAN

VARIABLES
  provider,  \* the contents of the descriptor during a refresh, else NULL
  refresh,   \* the locals of the refresh in progress, or of the last one
  storage,   \* the snapshot in each place
  owed       \* how often each release is still to be called

refresh_vars == <<provider, refresh, storage, owed>>
all_vars     == <<vars, refresh_vars>>

----------------------------------------------------------------------------
Contexts == {p.context : p \in Providers}
Releases == {p.release : p \in Providers} \union {NULL}

\* A call release(context, topology).
ReleaseCall ==
  [release : Releases, context : Contexts \union {NULL},
   location : Locations \union {NULL}]

\* before is the number of snapshots installed when the refresh began.
NoRefresh == [point |-> "idle", status |-> "OK", context |-> NULL,
              release |-> NULL, location |-> NULL, before |-> 0]

RefreshPoints == {"acquire", "hand_over", "install", "release"}

RefreshTypeOK ==
  /\ provider \in Providers \union {NULL}
  /\ refresh \in [point : RefreshPoints \union {"idle"}, status : Statuses,
                  context : Contexts \union {NULL}, release : Releases,
                  location : Locations \union {NULL}, before : Nat]
  /\ storage \in [Locations -> Snapshots]
  /\ owed \in [ReleaseCall -> Nat]

----------------------------------------------------------------------------
\* validate_provider; wellformed also covers a missing descriptor.
ProviderStatus(p) ==
  FirstError(<<Require(p.wellformed,     "INVALID_ARGUMENT"),
               Require(p.flags_are_none, "UNSUPPORTED"),
               Require(p.has_acquire,    "INVALID_ARGUMENT")>>)

\* refresh returns; nothing of the descriptor is retained.
EndRefresh(status) ==
  /\ refresh' = [NoRefresh EXCEPT !.status = status]
  /\ provider' = NULL

\* The three fields are read once, before the provider runs.
Refresh(p) ==
  /\ Ready
  /\ refresh.point = "idle"
  /\ IF ProviderStatus(p) # "OK"
     THEN EndRefresh(ProviderStatus(p))
     ELSE /\ provider' = p
          /\ refresh' = [NoRefresh EXCEPT !.point   = "acquire",
                                          !.context = p.context,
                                          !.release = p.release,
                                          !.before  = Len(installed)]
  /\ UNCHANGED <<vars, storage, owed>>

\* acquire returns an error, or OK without a snapshot: nothing was borrowed.
AcquireFails ==
  /\ refresh.point = "acquire"
  /\ \/ \E error \in AcquireErrors : EndRefresh(error)
     \/ EndRefresh("INTERNAL_ERROR")
  /\ UNCHANGED <<vars, storage, owed>>

\* What a borrow of place l obliges refresh to call, by the descriptor that
\* the provider was acquired through.
Owed(l) == [release |-> refresh.release, context |-> refresh.context,
            location |-> l]

\* acquire lends place l and may leave anything in the descriptor.
Acquire(l) ==
  /\ refresh.point = "acquire"
  /\ refresh' = [refresh EXCEPT !.point = "hand_over", !.location = l]
  /\ provider' \in Providers
  /\ owed' = IF refresh.release = NULL THEN owed
             ELSE [owed EXCEPT ![Owed(l)] = @ + 1]
  /\ UNCHANGED <<vars, storage>>

\* Where refresh goes with the status of the install: to the release, which
\* a provider may not have.
FaultyAfterInstall(status) ==
  IF refresh.release = NULL \/ status # "OK"
  THEN EndRefresh(status)
  ELSE /\ refresh' = [refresh EXCEPT !.point = "release", !.status = status]
       /\ UNCHANGED provider
ForgetfulAfterInstall(status) ==
  IF refresh.release = NULL
  THEN EndRefresh(refresh.status)
  ELSE /\ refresh' = [refresh EXCEPT !.point = "release"]
       /\ UNCHANGED provider
AfterInstall(status) ==
  IF refresh.release = NULL
  THEN EndRefresh(status)
  ELSE /\ refresh' = [refresh EXCEPT !.point = "release", !.status = status]
       /\ UNCHANGED provider

\* The install goes on, or has returned.
DuringInstall ==
  IF pc' = "idle" THEN AfterInstall(result'.status)
  ELSE refresh' = [refresh EXCEPT !.point = "install"] /\ UNCHANGED provider

\* The lent snapshot is passed to install_topology.
FaultyHandOver ==
  /\ refresh.point = "hand_over"
  /\ Continue("validators") /\ source' = storage[refresh.location]
  /\ DuringInstall
  /\ UNCHANGED <<client_vars, replacement, submit_vars, heap, clock_floor,
                 polled, installed, storage, owed>>
EarlyHandOver ==
  /\ refresh.point = "hand_over"
  /\ Install(storage[refresh.location])
  /\ DuringInstall
  /\ owed' = IF refresh.release = NULL THEN owed
             ELSE [owed EXCEPT ![Owed(refresh.location)] = @ - 1]
  /\ UNCHANGED storage
HandOver ==
  /\ refresh.point = "hand_over"
  /\ Install(storage[refresh.location])
  /\ DuringInstall
  /\ UNCHANGED <<storage, owed>>

InstallLent ==
  /\ refresh.point = "install"
  /\ InstallStep
  /\ DuringInstall
  /\ UNCHANGED <<storage, owed>>

\* The callback and the context are the captured ones.
FaultyCalledRelease ==
  [release |-> provider.release, context |-> provider.context,
   location |-> refresh.location]
CalledRelease ==
  [release |-> refresh.release, context |-> refresh.context,
   location |-> refresh.location]

Release ==
  /\ refresh.point = "release"
  /\ owed' = [owed EXCEPT ![CalledRelease] = @ - 1]
  /\ EndRefresh(refresh.status)
  /\ UNCHANGED <<vars, storage>>

----------------------------------------------------------------------------
(* The provider. *)

\* A lent place is left alone until its release returns; one lent by a
\* provider without release, until refresh returns.
IsLent(l) ==
  \/ \E call \in ReleaseCall : call.location = l /\ owed[call] > 0
  \/ refresh.location = l /\ refresh.release = NULL

Publish(l, t) ==
  /\ ~IsLent(l)
  /\ storage[l] # t
  /\ storage' = [storage EXCEPT ![l] = t]
  /\ UNCHANGED <<vars, provider, refresh, owed>>

----------------------------------------------------------------------------
RefreshInit ==
  /\ Init
  /\ provider = NULL
  /\ refresh = NoRefresh
  /\ storage \in [Locations -> Snapshots]
  /\ owed = [call \in ReleaseCall |-> 0]

RefreshStep ==
  \/ AcquireFails
  \/ \E l \in Locations : Acquire(l)
  \/ HandOver
  \/ InstallLent
  \/ Release

\* The other calls on the client.
ClientStep ==
  /\ refresh.point = "idle"
  /\ Next
  /\ UNCHANGED refresh_vars

RefreshNext ==
  \/ \E p \in Providers : Refresh(p)
  \/ RefreshStep
  \/ ClientStep
  \/ \E l \in Locations, t \in Snapshots : Publish(l, t)

RefreshSpec == RefreshInit /\ [][RefreshNext]_all_vars

\* A refresh runs on: acquire, the allocator, the clock and release return.
ReturningSpec == RefreshSpec /\ WF_all_vars(RefreshStep)

----------------------------------------------------------------------------
(***************************************************************************)
(* The composition adds no behaviour to the client: an install reached     *)
(* through a provider goes through the same validation, generation rule    *)
(* and copying as a direct one, and nothing else of refresh touches the    *)
(* client (solana_delivery_discovery.c:83-86).  Every property of          *)
(* DeliveryClient thus holds with providers too.                           *)
(***************************************************************************)
ImplementsClient == Spec

(***************************************************************************)
(* Every borrow is given back exactly once, with the callback and the      *)
(* context it was acquired through whatever acquire made of the            *)
(* descriptor, and nothing is given back that was not borrowed: while a    *)
(* refresh holds a snapshot exactly its own release is owed, otherwise     *)
(* none (solana_delivery_discovery.c:65-90).                               *)
(***************************************************************************)
HoldsBorrow ==
  /\ refresh.point \in {"hand_over", "install", "release"}
  /\ refresh.release # NULL

BorrowsAreSettled ==
  \A call \in ReleaseCall :
    owed[call] =
      IF HoldsBorrow /\ call = Owed(refresh.location) THEN 1 ELSE 0

(***************************************************************************)
(* The install of a refresh reads lent memory only: as long as it clones,  *)
(* the place still holds the snapshot that was validated, although the     *)
(* provider publishes others meanwhile (solana_delivery_discovery.c:83).   *)
(***************************************************************************)
InstallReadsLentMemory ==
  refresh.point = "install" =>
    /\ pc \in InstallPoints
    /\ source = storage[refresh.location]

(***************************************************************************)
(* refresh returns OK exactly when one more snapshot was installed, and    *)
(* then the snapshot in use is the one the provider lent; after any other  *)
(* status, from acquire, install or the descriptor, nothing was installed  *)
(* (solana_delivery_discovery.c:73-92).                                    *)
(***************************************************************************)
RefreshTellsTheTruth ==
  [][(refresh.point # "idle" /\ refresh'.point = "idle") =>
       IF refresh'.status = "OK"
       THEN /\ Len(installed') = refresh.before + 1
            /\ topology'.view = storage[refresh.location]
       ELSE Len(installed') = refresh.before]_all_vars

(***************************************************************************)
(* A borrowed snapshot is given back in the end, whether the install       *)
(* succeeds or fails (solana_delivery_discovery.c:88).                     *)
(***************************************************************************)
BorrowsAreReturned ==
  (\E call \in ReleaseCall : owed[call] > 0)
    ~> (\A call \in ReleaseCall : owed[call] = 0)
=============================================================================
