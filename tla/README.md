# A verification project for solana-tpu-client

The library accepts already-signed transactions on behalf of a caller, plans
which validators they are for from a topology snapshot the caller supplies, and
reports each acceptance as an event the caller polls for. A second, independent
part receives fixed-size records as datagrams and hands them to a callback. The delivery client has no threads and
no transport yet: what is hard in it is not parallelism but *partial failure*
and *long call sequences*. Every call may be stopped halfway by the allocator or
by the clock, both of which the caller can replace; the counting and the writing
passes of two nested two-call protocols must agree; a request outlives the
snapshot it was planned on; a ring of event slots is reused forever. Two places do meet
concurrency: a provider of snapshots runs while its snapshot is being installed, and
receivers on several threads share the descriptor table of their process.

This directory models that, model-checks it with TLC, and proves with TLAPS the
safety of every part for every capacity and every bound.

## 1. Inventory

| Component | Source | State it keeps | Operations |
|---|---|---|---|
| Event queue | `src/solana_delivery_events.c`, struct in `solana_delivery_internal.h:72` | ring of 64 events, `head`, `count` | `..._event_queue_push` (internal), `..._client_poll_events` |
| Client lifecycle | `src/solana_delivery.c:684-766` | the `client` block: allocator, clock, owned topology, `has_topology`, `next_request_id`, `request_head`, the queue | `create`, `destroy` |
| Topology validation | `src/solana_delivery.c:117-406` | none | `topology_validate` |
| Topology installation | `src/solana_delivery.c:470-680, 768-820` | the owned copy: four arrays and a receipt time | `install_topology` |
| Admission | `src/solana_delivery_admission.c` | none | `evaluate_submission_policy` |
| Slot resolution | `src/solana_delivery_resolution.c` | none | `resolve_slot`, called once to count and once to write |
| Route planning | `src/solana_delivery_route.c` | none | `plan_routes`, called once to count and once to write |
| Submission | `src/solana_delivery_submission.c` | the request list, the identifier counter | `submit` |
| Discovery refresh | `src/solana_delivery_discovery.c` | none; borrows a snapshot from a provider | `refresh_topology` |
| Ingress receiver | `src/solana_ingress.c` | a socket, the sequence counter; `errno` of the thread | `solana_ingress_run_local`, `solana_ingress_decode` |
| Public ABI | `include/solana/*.h`, the array helpers of `src/solana_delivery.c:75-105, 470-541` | none | layouts, status codes; arrays given by base, count and stride |
| System clock | `system_monotonic_time_ns` in `src/solana_delivery.c` | none | one `clock_gettime` converted to nanoseconds |
| Example programs | `examples/*.c` | the locals of `main` | the calls from `main` to exit |

How they interact. Everything happens inside a call the caller makes on one
client, and the caller serialises those calls (`include/solana/delivery.h:36`
and `:267`). `submit` drives the others in a fixed order: option checks, the
admission policy (first clock sample), resolver (count), *allocate*, resolver
(write), planner (count), *allocate*, planner (write), *allocate* the
transaction copy, *allocate* the targets, copy them, *allocate* the request,
check identifier and queue room, second clock sample, push the event, link the
request, step the identifier; any failure goes to one `cleanup` label that is
also the exit of success. `install_topology` validates, compares generations,
clones four arrays with four allocations, samples the clock, and swaps. `poll`
copies out the oldest events. `refresh_topology` brackets an install between
the `acquire` and `release` callbacks of a provider.

The allocator and the clock are function pointers in the client
(`solana_delivery_internal.h:13-34`), and the tests install failing ones. They
are the environment: any allocation may return NULL, any sample may fail with a
status or go backwards.

The ingress receiver shares no state with the client. It talks to the kernel (socket,
setsockopt, two fcntl, bind, recvfrom, close) and to two callbacks, `should_continue` and
`on_event`. The example programs are, besides the tests, the only callers that go from
creation to exit.

### What is hard, and what makes each component correct

* **Memory on failing paths.** Up to five blocks are live when `submit` fails and
  four when an install does; success keeps three of the five. Every block must
  have exactly one owner in every state.
* **Failure atomicity.** A call that fails after any allocation or sample must leave
  topology, identifiers, requests and events alone.
* **Count, then write.** The writing loops test no bound of their own: what they
  write must have exactly the length the counting passes allocated for.
* **Identifiers.** Dense, never reused, exhausted in an explicit state (0), and none
  consumed by a failed call.
* **Request and event together.** The event, the link and the counter are three
  statements: each accepted request has one event, in order, however polls
  come between.
* **Snapshots replaced under requests.** A request must own what it was planned
  with, and its recorded generation must still name one snapshot.
* **Unsigned time.** A clock that goes backwards must be refused before an unsigned
  subtraction.
* **The ring.** First-in first-out through wraparound and the rewind to slot 0.
* **Defensive branches.** `INTERNAL_ERROR` is for states that should not exist.
* **Discovery.** Release exactly once, through the callback and with the context captured before
  `acquire`, and not before the last array is cloned; the status returned is that of the install.
* **Ingress.** One open descriptor from `socket` to `close` on every path, never closed twice (its number
  may be another thread's by then); `errno` of the call that failed, although `close` follows; a stop
  that is obeyed under a flood and in silence; numbers whose gaps are exactly the malformed datagrams.
* **Caller-described arrays.** Index times stride must not wrap around or leave the buffer, and a
  copy must not keep the size field of another revision of the struct.
* **The range of the clock.** Seconds become nanoseconds in 64 bits.

`PROJECT.json` lists these as `hazards`, each at its line, with the properties
that would catch it.

## 2. Modules

| Module | What it is |
|---|---|
| `EventRing` | the ring as operators on a record; shared by the queue and the client |
| `EventQueue` | state machine of push and poll alone |
| `EventChannel` | abstract: a bounded first-in first-out channel |
| `EventQueueProofs` | proofs: types, contents and the refinement of the two above |
| `TopologyValidation` | `topology_validate` as a function from a snapshot to a status |
| `RoutePlanning` | resolver and planner, both passes of each |
| `RoutePlan` | abstract: which target lists are plans of a snapshot, said declaratively |
| `DeliveryClient` | the core: one client and every call on it, cut where the code calls out |
| `DeliveryService` | abstract: the same calls, each one step or no step |
| `DeliveryRefinement` | the mapping from the client to the service |
| `OperatorProofs` | proofs: what the ring, the checks of a snapshot, the resolver and the planner compute, for inputs of every size |
| `DeliveryClientProofs` | proofs: the inductive invariant of the client, identifiers, events, generations |
| `DeliverySafetyProofs` | proofs: plans, memory, times, defensive branches, the refinement of the service, and that calls and polls make progress |
| `DiscoveryRefresh` | `refresh_topology` and the providers it calls, on top of `DeliveryClient` |
| `DiscoveryRefreshProofs` | proofs: the composition is still a client; every borrow is settled; a refresh ends; the example programs |
| `IngressReceiver` | receivers on several threads, system call by system call |
| `IngressStream` | the same with histories: what was sent, taken and delivered |
| `IngressReceiverProofs` | proofs: types, ownership of descriptors, results; a stop is final; the numbers of the events |
| `AbiLayout` | the tests and offsets of strided arrays, as operators in wrapping arithmetic |
| `ArrayCopy` | the copying loops of `clone_array` and `poll_events`, byte by byte |
| `AbiLayoutProofs` | proofs: what the tests guarantee about the offsets, and what the copying loops write |
| `SystemClock` | from `clock_gettime` to the age of a snapshot, in 64-bit arithmetic |
| `SystemClockProofs` | proofs: samples and ages outside the last second of the range |
| `ExamplePrograms` | two `main` functions over the client and the refresh |
| `MC...` | instances for TLC |

`DeliveryClient` EXTENDS `EventRing`, `TopologyValidation` and `RoutePlanning`
(the code its calls run through) and `RoutePlan` (the reference its properties
compare with). `DeliveryRefinement` and `EventQueue` INSTANCE their abstract
specification. `DiscoveryRefresh` EXTENDS `DeliveryClient` and uses its `Install` and
`InstallStep` for the install inside a refresh, `ExamplePrograms` EXTENDS `DiscoveryRefresh`
and puts the actions of both in the order of the two programs, `IngressStream` EXTENDS
`IngressReceiver`, `ArrayCopy` EXTENDS `AbiLayout`. `SystemClock` stands alone: the client takes its
clock from its caller and only the default one is this code.

### Granularity

One action per stretch of code between two *callouts*. Inside such a stretch
nobody else can act: calls on a client are serialised by contract, and there is
no other thread. At a callout the environment decides: `calloc` returns a block or
NULL, the clock returns a time or a status. `pc` names the callout a call is
waiting at (`"validators"` ... `"leaders"`, `"receipt"` for install; `"admit"`, the
five names of the locals being allocated, and `"accept"` for submit). `free` decides
nothing and stays inside steps. A caller can be stopped between two steps only
by the process ending, after which nothing is left to be wrong: the library persists
nothing.

### Correspondence, core module

| Variable of `DeliveryClient` | In the code |
|---|---|
| `client` | the block of `struct solana_delivery_client`, or NULL |
| `has_topology`, `topology` | the members of the same name; `topology.view` is the content of the copy, `.received` its `received_monotonic_ns`, `.blocks` the four array pointers |
| `next_request_id` | member; 0 is `SOLANA_DELIVERY_REQUEST_ID_NONE`, "used up" |
| `requests` | the list from `request_head`, newest first, with the three blocks each request owns |
| `event_queue` | member |
| `source`, `replacement` | install's argument and `owned_topology` being built |
| `submission`, `counts`, `scratch`, `temp` | submit's arguments and locals: values, counts, contents of the two work arrays, and the five pointers |
| `heap` | blocks that `calloc` returned and `free` did not take back |
| `clock_floor` | with a monotonic clock, the last sample |
| `result`, `polled` | what callers see: status and identifier of the last call (`"PENDING"` inside one), and every event handed out |
| `installed` | history: every snapshot that was swapped in |

| Action | Code |
|---|---|
| `Create`, `Destroy` | `..._create_with_dependencies`, `..._destroy` |
| `Install` | validation and the generation rule |
| `CloneArray`, `ReceiptFails`, `Swap` | `build_owned_topology`, clock sample, free the old copy, assign |
| `Submit` | the checks before the first sample |
| `Admit` | first sample, admission policy, counting query to the resolver |
| `AllocateCandidates` | allocate, resolver writes, planner counts |
| `AllocateRoutes` | allocate, planner writes, counts compared |
| `AllocateTransaction`, `AllocateTargets` | allocate and copy; targets are checked index by index |
| `AllocateRequest` | allocate; identifier left? queue slot left? |
| `Accept` | second sample, push, link, step the identifier, cleanup |
| `Poll` | `poll_events` |

The failing outcome of an allocation is a disjunct of the action at its point, and
every error after it, with the state of the five pointers at that moment, goes through
`EndSubmit`, which models `cleanup`.

### Correspondence, the other modules

*Discovery refresh.* `refresh` is the locals of `solana_delivery_client_refresh_topology`: the captured
`release` and `context`, the acquired pointer (`location`) and the status; its `point` is the
callback or install it is at. `provider` is the content of the caller's descriptor, which `acquire`
may rewrite. `storage` is the memory of the providers and `owed` counts, per callback, context and place, the releases still
to come. `Refresh` is everything before `acquire`; `AcquireFails` and `Acquire` its outcomes; `HandOver`
the call of `install_topology` up to its first allocation; `InstallLent` the rest of it, one
callout at a time; `Release` the last callback and the return. `Publish` is the provider, on any thread, in a
place it has not lent: it may act between any two of the above. `ClientStep` is every other call of the client.

*Ingress receiver.* Each receiver has its locals in `local[r]`, with `point` the system call or callback it is about to
make. `Call` to `Shutdown` are the lines of `solana_ingress_run_local` between two of them; a failing set-up call and a
failing `recvfrom` go through `FailOpen` and `Abort` (`close_preserving_errno`), and the return value of the last `close` is that of
the run (`Shutdown`). `sockets` is the kernel's table: flags, port and queue of each descriptor. `Accept` is the
body of the loop for one datagram and `Decodes` the decision of `solana_ingress_decode`. `Stop` and `Send` are the world.
`cause` and, in `IngressStream`, `sent`, `taken` and `delivered` are histories, named by the properties only.

*Arrays.* One behaviour of `ArrayCopy` is one call on one array with arbitrary count, stride and size: validation,
allocation, the loop of `memcpy`, the normalisation of `struct_size`; or the tests and the loop of a poll. Each byte of the
target says which source byte it is a copy of.

*Clock.* `now` is the kernel's clock in nanoseconds, `SystemTime` the conversion, `received` the receipt time of
the snapshot in use, `Admission` the age test.

*Example programs.* `line` is the call `main` is at. Each `...Line` action is one step of that call, taken from
`DeliveryClient` or `DiscoveryRefresh`, and what `main` does with the result when the call has returned.

## 3. Runs

All runs are exhaustive over their instance.

| Run | Asks |
|---|---|
| `event_queue` | Is the ring a first-in first-out channel? Ring of 3 slots, two kinds of event, buffers of 0 to 4: every head, count and stale slot content, every wraparound, a buffer larger than the ring. |
| `client_safety` | Memory, identifiers, events, plans, generations, failure atomicity and the truth of what submit returns, with every allocation and sample free to fail and a clock free to go backwards. |
| `client_monotonic` | Are the `INTERNAL_ERROR` branches dead, and are events ordered by time, once the clock is monotone? |
| `client_refinement` | Does the client implement the atomic service? |
| `client_polling` | Is every accepted event handed out to a caller that keeps polling? |
| `discovery_refresh` | Is every borrow given back once and by the right callback, and in the end; does the install read lent memory only; does the returned status tell what was installed; is the client with refreshes still the client? |
| `ingress_receiver` | Two receivers, any system call failing: who owns which descriptor, what do the result and `errno` say, does a stop end the run? |
| `ingress_stream` | Which events come of which datagrams, with which numbers, and can a datagram block the ones behind it? |
| `array_copy` | Are accepted arrays copied exactly, and does a poll stay in its buffer, for every count, stride and size? |
| `system_clock` | Is what admission compares with the caller's limit the time that passed? |
| `clock_range` | Do samples never go back? (They do, see section 4.) |
| `example_programs` | Does every exit of the two programs return everything, and is the exit code true? |

### Bounds, and why they are enough

* `QueueCapacity` = 2 or 3 for 64. The code depends on it only through comparison
  with `count` and remainders. With 2, one submission fits after a poll with the head
  in either slot, full and empty are distinct, and the wraparound happens within
  three requests. For the ring alone, the proofs of section 5 hold for every capacity.
* `MaxRequestId` = 2 or 3 for 2^64 - 1: exhaustion is reached with the queue full, and
  with the queue empty, so that the two checks in `AllocateRequest` are told apart.
* `Times` = 0..1 or 0..2: a sample before, at and after a receipt time, an age within,
  at and beyond the limit, and a different second sample.
* `Addr` = 19 addresses: client 1, a retained copy and a replacement 4 + 4, three
  requests of 3, and the locals of a submission 5, when not all at once: the allocator
  never refuses for want of an address (it may refuse at will), and the least free
  one is reused at once, which is the case in which a stale pointer would do harm.
* `MaxRoom` = 1 or 2: a poll with no room, less room than events, and enough.
* Snapshots (`MCDeliveryClient`): `Rich` (5 candidates, 3 distinct, out of 4 leaders, the first
  of them for other slots; unlike indices and order of appearance), `Next1` (newer, other elements
  under the same indices), `Twin1` (same generation, other content), `Empty2` (no arrays at all:
  installs without allocating, resolves to nothing), `Dangling` and `TcpEndpoint` (refused, one
  for an index, one for an unsupported transport).
* Options: limits below, equal to and above the number of distinct targets; refused ones.
* `discovery_refresh`: four valid descriptors that differ in context and in release, one of them without a release, and an
  invalid one, so that a rewritten descriptor has the wrong callback, the wrong context or both; two places, so that one is
  lent while the other changes; snapshots that are older, newer and invalid; the client with one array to clone, no
  submissions (`client_safety` has them and `ImplementsClient` carries over what it shows).
  `Addr` = 3: client, copy in use, replacement.
* `ingress_receiver`: two threads and two descriptors, so that a number closed by one thread is taken by the other while the
  first goes on (`socket` fails at will, also for want of a descriptor); two errno values, so that `close` can leave a wrong one; queue of 1 (full and empty); the counter wraps at
  `MaxSequence` = 1. The threads never touch each other's locals, so a third adds no new pair; section 5 has any number.
* `ingress_stream`: four datagrams out of empty, too long, wrong side and good, in every order, through a queue of 2 that fills;
  `MaxSequence` = `MaxSent`, as 2^64 datagrams cannot be sent. Wrapping of the counter is in `ingress_receiver`.
* `array_copy`: words of 5 bits, elements of 4 bytes aligned to 2, a size field of 1 byte, up to 3 events: every count, stride and
  `struct_size` of 0..31, with products that fit, just fit and wrap.
* `system_clock`: 4 nanoseconds to the second and `UINT64_MAX` = 17 keep the shape of the code's numbers: the range ends inside a
  second. The clock runs to 26, beyond the range by two seconds.
* `example_programs`: the programs' own data; every failing allocation and sample.

Deadlock is checked wherever something can always go on: a client can always be created, destroyed or polled, a receiver called. It is
not checked in `array_copy` and `example_programs`: a copying call and a program end.

### Fairness

`client_polling`: weak fairness of the steps inside a call: the code after a
callout runs on because the allocator and the clock return (`calloc` and
`clock_gettime` do not block). Strong fairness of a poll with room: this is the promise of
the *caller* in the property, not of the code, and it has to be strong because a poll is
disabled during each other call. Nothing is assumed of submissions, installs or
destroys, and nothing of allocations or samples succeeding.

`discovery_refresh`: weak fairness of the steps of a refresh, because `acquire`, `release`, the allocator and the clock return. Nothing
of providers publishing or of which outcome `acquire` has.

`ingress_receiver`, `ingress_stream`: weak fairness of each receiver, for threads are scheduled and callbacks and system calls
return. The one call that need not return is a `recvfrom` that waits; it is not enabled in the model until a
datagram is there, and its failing is kept out of the fair part (`Run`), so that a wait is not ended by an error that
nobody owes. Nobody has to send, to stop sending or to ask for a stop.

### Seeded faults

Operators named `Faulty...`, `Early...` or `Forgetful...` are not used by any specification. Each is a
plausible mistake in the definition that follows it (cleanup that forgets blocks, a
capacity test off by one, a generation rule with `>=`, a tail computed without the head, an
identifier that wraps instead of stopping, a swap before the receipt time is known), and
`PROJECT.json` says which property must fail when it takes that definition's place.

## 4. What the checks show

* On every path through `install` and `submit`, each block has exactly one owner
  (`EveryBlockHasOneOwner`): the single `cleanup` label handles success and the
  failures correctly because the pointers handed to the request are kept apart by
  `status` alone.
* `ScratchFits` and `NoInternalError`: the counting and the writing passes agree, and with a
  monotone clock the twelve defensive branches are dead code. They become live
  only when the clock fails with `INTERNAL_ERROR` itself or goes backwards.
* `SubmitTellsTheTruth` and `RequestsMatchTheirSnapshot` compare resolver and planner with
  `RoutePlan`, which does not mention passes or counts: a request holds the first
  `target_limit` distinct validator/endpoint pairs of its slot in leader order.
* `ImplementsService`: callers cannot see a half-done call.
* `BorrowsAreSettled`, `InstallReadsLentMemory`: capturing three fields before `acquire` and releasing after the install is
  enough against providers that rewrite their descriptor and publish from other threads. A provider without `release` lends until
  `refresh` returns.
* `DescriptorsAreOwned`, `ResultTellsTheTruth`: the set-up chain closes once on each of its failing paths, and the number is not used again.
* `StopIsObeyed` needs the non-blocking flag: without it (the seeded fault) a receiver in silence never asks again.
* `EventsAreNumbered`: a consumer that sees numbers 3 and 5 knows that one datagram arrived in between and did not decode; it cannot
  learn of empty datagrams or of those the kernel dropped.
* `CloneIsExact`, `PollIsExact`: the layout tests admit no array whose offsets wrap around, and the size fields of the copy
  are those of this version.

One disagreement between code and documentation, shown by `clock_range`: `system_monotonic_time_ns`
(`solana_delivery.c:673`) guards the multiplication of the seconds, not the sum with the nanoseconds. In the last,
incomplete second of the 64-bit range the sample wraps around to a small number instead of failing, while `delivery.h:304`
and `docs/architecture/0008-request-attempt-event-model.md:69` call the clock monotonic. This is 584 years from the
clock's origin. POSIX leaves the origin open, so the code cannot exclude it; Linux counts from boot and never gets
there. `AdmissionMeasuresTime` therefore excludes samples in that second and holds everywhere else.

Other points a maintainer may like to know; none contradicts the documentation:

* Freshness is judged at the first sample only. The second sample is compared with the
  receipt time but not with the age limit, so a snapshot may be too old when the request is
  accepted.
* The identifier and queue-room checks come after all five allocations: a caller that never
  polls pays for a full plan before it is refused.
* With a clock that goes backwards, event times need not be ordered; the code guarantees only
  that each is at or after the receipt time of the snapshot.
* The overflow guard of the resolver's counter cannot be reached: two 32-bit counts multiply
  into a 64-bit `size_t`.

## 5. Proofs

Every safety invariant, every action property and every refinement of a passing run is stated by
a theorem below, for every value of the constants. What is assumed of them is named where they are declared:

| Assumption | Says |
|---|---|
| `QueueCapacityAssumption`, `BoundsAssumption`, `MaxRoomAssumption` | capacity and identifiers start at 1; the other bounds are natural numbers |
| `EventAssumption`, `NoEventAssumption`, `NoSnapshotAssumption` | the values that stand for "none" are not values of the program |
| `SnapshotsAssumption`, `OptionsAssumption` | snapshots are records of arrays with natural numbers for their numbers (the shape of `solana_delivery_topology_view_t`, nothing about its content); options hold natural numbers |
| `EnvironmentAssumption` | `NULL` is no address; a failing clock returns a status other than OK |
| `ProvidersAssumption` | so does a failing `acquire`; descriptors hold Booleans |
| `ProgramsAssumption` | what the two programs pass is among the inputs the library is modelled for |
| `ReceiverAssumption` | the errno values of failing calls are not the two the code compares with or sets itself; queues have room for a datagram |
| `MaxSentAssumption` | datagrams carry the numbers they were sent under, and fewer are sent than the counter can count (2^64) |
| `LayoutAssumption`, `CopyAssumption` | the element size is positive, fits in 32 bits and is a multiple of the alignment; `size_t` is at least as wide as `uint32_t`; the size field lies in the element |
| `ClockAssumption` | a second has nanoseconds, and an age limit is a positive 64-bit number, as the option checks require |

In particular nothing is assumed of the size of a snapshot, of the
clock going forward, or of allocations succeeding.

| Theorem | Says |
|---|---|
| `QueueTypeCorrect`, `QueueRewinds`, `QueueHoldsEvents`, `QueueImplementsChannel` | the ring is well formed, rewinds when drained, never hands out a stale slot, and implements the bounded channel |
| `ValidSnapshotsAreClosed` | a snapshot that passes validation has no index out of range and no empty leader range |
| `ValidationIsExact` | a snapshot is accepted if and only if it is sound; it is refused with UNSUPPORTED if and only if its first fault is an endpoint of an unknown family, transport or role, else with INVALID_ARGUMENT |
| `PlanCounts` | the planner selects at most the limit, the distinct targets and the room |
| `PlansAreFull` | what the passes of resolver and planner leave is the plan `RoutePlan` declares: the first `target_limit` distinct targets of the slot, in leader order |
| `ClientTypeCorrect` | `TypeOK` of the client |
| `IdentifiersAreDense`, `OneEventPerRequest`, `FailuresAreAtomic`, `GenerationsAreOrdered` | `RequestIdsAreDense`, `EveryRequestHasOneEvent`, `OnlySuccessCommits`, `GenerationsIncrease` |
| `RequestsArePlanned`, `SubmitIsTruthful` | `RequestsMatchTheirSnapshot`, `SubmitTellsTheTruth` |
| `MemoryIsSafe`, `WritesFit` | `EveryBlockHasOneOwner`, `ScratchFits` |
| `NothingOutlivesTheClient` | between calls only the client, its topology and its requests have memory; without a client nothing is allocated |
| `TimesAreOrdered` | `EventTimesAreOrdered`, if the clock is monotone |
| `NothingIsAcceptedEarly` | with any clock, no event is older than the receipt of the snapshot its request was planned on |
| `NoDefensiveBranchIsTaken` | `NoInternalError`, if the clock is monotone and does not itself fail with that status |
| `ClientImplementsService` | the client implements `DeliveryService` |
| `CallsReturn` | a call takes at most seven steps |
| `EventsComeInTurn` | the event of request *k* is the *k*-th handed out; a poll with room hands out at least one if one waits |
| `RefreshImplementsClient` | `DiscoveryRefresh` implements `DeliveryClient`: the theorems about the client hold with providers |
| `RefreshTypeCorrect`, `BorrowsSettled`, `InstallsReadLentMemory`, `RefreshReportsTheInstall` | the safety properties of `discovery_refresh`, for all providers, places and snapshots |
| `RefreshesReturn` | a refresh takes at most eight steps of its own, and then owes nothing |
| `ProgramsUseTheLibrary` | the two programs are clients that are refreshed: the theorems about both hold in them |
| `RefreshImplementsService` | so both implement `DeliveryService` |
| `ProgramTypeCorrect`, `ExitsTellTheTruth`, `ExitsAreClean` | the properties of `example_programs`, for any data |
| `ReceiverTypeCorrect`, `DescriptorsOwned`, `ResultsTellTheTruth` | the safety properties of `ingress_receiver`, for any number of threads and descriptors |
| `StopBoundsTheRun` | a receiver that was asked to stop takes at most nine more steps, and does not block |
| `EventsNumbered`, `StreamIsOfReceivers` | `EventsAreNumbered`; the histories of `IngressStream` restrict nothing |
| `AcceptedElementsAreExact`, `AcceptedElementsAreDisjoint` | no offset in an accepted array wraps around, and its elements do not overlap |
| `PolledEventsAreInside`, `AcceptedArraysCanBeCloned` | every byte written by a poll is inside the caller's buffer; an accepted array passes the size test of `clone_array` |
| `CopyTypeCorrect`, `ClonesAreExact`, `PollsAreExact` | the invariants of `array_copy`, for every count, stride, element size and width of `size_t` |
| `ClockTypeCorrect`, `AdmissionIsExact` | the properties of `system_clock` |
| `SamplesGoBackOnlyAtTheEnd` | what `clock_range` refutes holds before the last second of the range |

The arguments:

* **Ring.** `OperatorProofs` shows what `Push` and `Drain` do to `Contents`, the first-in
  first-out reading of the ring: push appends, drain of *n* drops the first *n*. The only arithmetic
  is modulo the capacity. The refinement of `EventQueue` to `EventChannel` is then one step per
  action, and the client reuses the same lemmas. The invariant adds to the types what
  `RetainedAreReal` says of the slots between head and tail.
* **Validation.** The code stops at the first failing check; the model says `FirstOther("OK",
  statuses)`, the first element that is not OK. That there is a first one if there is any is an
  induction over the length in disguise, done here with the least counterexample: a nonempty set of
  naturals has a least element (`LeastElement`, from the well-foundedness of strict
  inclusion on finite sets). From it follow how a run of checks ends (`RunEnds`) and that two runs in a row end as the
  first does, or as the second if the first found nothing (`RunOfTwo`). `ValidationIsExact` joins the four loops with that, and compares them with `SnapshotIsSound` and
  `SnapshotIsUnsupported`, which quantify over the elements and know of no order of loops.
* **Resolver and planner.** Their writing loops append what passes a test, and the model writes them as
  the concatenation (`FlattenSeq`) of lists with one element or none. Its recursion is unfolded by least counterexample
  again (`PartialFlatExists`, `FlattenIsLast`). From it follow where each part lies in the result
  (`FlattenPositions`) and that order is kept (`FlattenInOrder`, `KeptInOrder`). So the candidates are in
  order-preserving bijection with the pairs of leader and association that serve the slot
  (`CandidatesFollowHits`), which is why counting those pairs gives the length of the list; the targets are in
  bijection with the first occurrences (`TargetsFollowFirsts`), and each destination has one (`FirstsCoverAll`).
* **Client types.** `TypeOK` is not inductive. A call in progress depends on what its earlier
  steps checked, and the invariant `IInv` says so, one part per dependency: a call in progress has a client and
  without a client everything is empty (`ClientIsThere`); a submission in progress has a topology and a
  transaction (`TopologyIsThere`); an install in progress has passed the generation rule
  (`InstallIsNewer`: nothing between the check and the swap may change the topology in use); each allocation
  point of a submission has the blocks of the points before it, and acceptance also an identifier and a
  free queue slot (`SubmitIsReady`: they were checked a clock sample earlier); the queue holds
  real events, not stale slots (`QueuedAreReal`). There is one lemma per action.
* **Identifiers and events.** `Books` is `IInv` with the two properties, which have to be proved together:
  the new event has the next identifier because identifiers are dense, and the room for it is that of
  `SubmitIsReady`. Only acceptance adds to the books; a poll moves a prefix from the queue to the
  caller without changing their concatenation; every other step leaves both alone (`BooksStep`).
* **Generations.** Only a swap touches the topology in use (`TopologyStep`), and `InstallIsNewer`
  makes the swapped generation larger than the last one, so than all before it.
* **Plans.** `PlanInv` adds to `Books` that the topology in use, and one being installed, passed validation (`SnapshotsAreValid`),
  and what a submission must have worked out at each of its points (`CandidatesArePlanned`): the topology cannot change under
  it, so that what was counted is still what is written. One lemma per point lists how its step may end
  (`AdmitCases` to `AcceptFails`); plans, memory, times and the refinement all argue from these lists.
  A request then matches the snapshot of its generation for as long as there is only one of that generation, which is `GenerationsIncrease`.
* **Memory.** `EveryBlockHasOneOwner` compares the heap with a union and is awkward as an induction hypothesis. `Memory` has it
  as five holders (the client, the copy in use, the replacement, the locals of a submission, the requests) that are pairwise disjoint
  and together the heap (`Held`), none of which points to a block twice, and with the pointers not yet allocated at each point
  NULL (`AheadIsNull`). Between calls the replacement and the locals are empty, and without a client there is no copy and there are no
  requests, which leaves nothing (`NothingOutlivesTheClient`). A step moves a block between two holders, adds a fresh one to one of them, or empties some (`HeldStep`,
  `HeldMore`, `HeldCommit`).
* **Times.** `TimesInv`: with a monotone clock the samples taken are not behind the last event or receipt; the events are
  ordered by it; and, with any clock, acceptance is not before receipt, which is the test in `Accept`.
* **Defensive branches.** Each is refuted at its point by `CandidatesArePlanned` (the counts agree), `SnapshotsAreValid` (no index is
  out of range) or `TimesInv` (no sample is before the receipt).
* **The service.** `DeliveryRefinement` maps the client to what callers see of it. Steps between two
  callouts map to stutters; the swap, the acceptance and each return map to one step of the service, whose condition on the plan is `PlansAreFull`. The
  one addition to the invariant is `LimitIsGiven`: the limit of a submission in progress is one of `Options`.
* **Refresh.** Each step of a refresh is a step of the client or leaves it alone; that gives `RefreshImplementsClient`, and with it the
  invariant of the client for free. The invariant `RInv` of the composition says which point of a refresh goes
  with which point of the client, that exactly the release of the refresh in progress is owed, and that the
  source of the install is the content of the lent place. `Publish` keeps the last because a lent place is owed or has no
  release; both are in `RInv`. For the status returned, `RInv` also counts the installed snapshots since the refresh began.
* **Example programs.** A line takes steps of the library only (`ProgramsUseTheLibrary`), so that `RInv`, `PlanInv` and `Memory` are
  there for use. `ProgramInv` adds what `main` has at each line. At an exit there is no client, so nothing is
  allocated (`NothingOutlivesTheClient`), and no refresh, so that nothing is owed.
* **Receivers.** `DescriptorsAreOwned` compares two sets and is awkward as an induction hypothesis. The invariant `IInv` of
  `IngressReceiverProofs` has it as two facts: each receiver past `socket` holds an open descriptor that no other
  receiver holds, and each open descriptor has an owner (`Owners`). With it go what set-up has done so far (`Configured`) and how
  `cause`, `saved_errno` and `keep` relate at each point (`Progress`).
  A step of one receiver changes one element of each function, so that one lemma per kind of step serves all threads.
* **Progress.** Each liveness property has a half that is safety. A rank counts the steps that a call, a refresh or a receiver that was asked
  to stop can still take (`StepsLeft`, `RefreshStepsLeft`); each of its steps lowers the rank, no other actor's step raises it, and rank 0
  is the end. There is one case per action again. For polls the rank is the number of requests whose event was not handed out
  yet: `PollAppends` gets from `Drain` that a poll with room makes it smaller.
* **Stream.** `Numbers` says of a list of events that it is that of the datagrams which decode, with their places, and in order.
  `StreamInv` adds that the counter of a run is the number of datagrams it has taken, and that these and the waiting ones are no more
  than were sent (`Counting`), so that the counter does not wrap around. A datagram that decodes appends to both lists, any other to one.
* **Layout.** `count - 1 <= (SIZE_MAX - size) / stride` is turned into `(count - 1) * stride + size <= SIZE_MAX` by the
  division lemma; monotonicity of the product does the rest.
* **Copying loops.** `CopyInv` says what each loop has written so far: of a clone, which elements are copied (`Cloned`) and then which
  size fields are set (`Normalized`); of a poll, also how many bytes in all (`Counted`) and that they are behind
  the next slot (`Below`), so that the next `memcpy` writes only fresh ones. Since accepted offsets do not wrap around, one `memcpy` writes one interval,
  and a byte of the target lies in one element only.
* **Clock.** Quotient and remainder are put together again exactly below the last second; an age of two samples there
  is the difference of the times, and larger ages are lost by one turn of the range at most (`OneTurnIsLost`).

Each inductive invariant was evaluated by TLC before it was proved, as an invariant of the run over the same component
(a module that EXTENDS the run's and the proofs, with `INVARIANTS IInv Books` and so on): `IInv` and `Books` on `client_safety`,
`PlanInv`, `Memory`, `TimesInv` and `LimitIsGiven` on `client_refinement`, the first three also on `client_monotonic`, `RInv` on
`discovery_refresh`, `Library` and `ProgramInv` on `example_programs`, the `IInv` of queue, receivers and clock on `event_queue`, `ingress_receiver` and
`system_clock`, `StreamInv` on `ingress_stream`, `CopyInv` on `array_copy`.

Only model-checked: `EveryEventIsPolled`, `BorrowsAreReturned`, `StopIsObeyed` and `DatagramsAreTaken`, because liveness under
fairness is out of the prover's reach. Of the first three the part that needs no fairness is proved for every value of the constants:
`CallsReturn` and `EventsComeInTurn`, `RefreshesReturn`, `StopBoundsTheRun` say that each step brings the end nearer. What TLC
adds is that under the stated fairness the next such step is taken, which involves `ENABLED`. `DatagramsAreTaken` has no such rank of its own
actor, for new datagrams may arrive at each turn of the loop.
`SamplesNeverGoBack` is the property of a run that refutes it; the theorem
`SamplesGoBackOnlyAtTheEnd` says where. What the proofs trust is the model: that an action is what its lines of C do.

## 6. Not modelled

* In the client, byte layouts: strides, `struct_size`, alignment, reserved bytes, ports and the IPv4 tail are one
  Boolean per element (`wellformed`, `tail_is_zero`), `layout_ok` for the outer struct. The
  order of these checks among themselves does not change the status they return. What they guarantee is the subject
  of `AbiLayout` and `ArrayCopy`, where the base address is tested for NULL and alignment only, as in the code.
* Structs with trailing padding: `LayoutAssumption` says that the size up to the last field and `sizeof` agree, which is so for
  the declared ones.
* NULL arguments of the public calls, which return before any state is read.
* The constants of an event: class, code, and `request_sequence`, always 1 since an accepted
  event is the only one a request ever has. Identities, addresses, ports and
  transaction bytes are values that are copied and never inspected.
* Calls on one client from several threads, and a provider's callback that calls back into the client it is called
  from: both are outside the contract (`delivery.h:36`, `discovery.h:97`), and the code has no defence against them.
* In the ingress receiver: the bytes of an integer (`load_u64_le`), and two receivers on one port. `SO_REUSEADDR` would let the kernel
  choose between them for each datagram, and no code of the receiver depends on the choice.
* `examples/ingress_decode.c` decodes one constant buffer and has no state.
* Tests, fuzzers, the benchmark and tools hold no state of the system.

## 7. Plan

Done: event ring, queue and channel; validation, resolver and planner; the client; the
service and the refinement; discovery refresh with its providers; ingress receiver and stream; array layout and
copying; the system clock; the example programs; the theorems of section 5, which cover every safety property of the passing runs.

Left open: what callers rely on (dense identifiers, one event per request, plans, generations) is proved of the client
directly. It could be proved of `DeliveryService` alone and carried over by `ClientImplementsService`, which would shorten no proof
here: the refinement rests on the same invariants. It becomes worth doing when there is a second implementation of the service.
