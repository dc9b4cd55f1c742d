------------------------ MODULE DeliveryClientProofs ------------------------
(***************************************************************************)
(* Theorems about the client for every capacity, every bound and all       *)
(* snapshots, options and clocks: its type, the density of identifiers,    *)
(* the one event of every request, the order of generations and the        *)
(* atomicity of failing calls.                                             *)
(***************************************************************************)
EXTENDS DeliveryClient, OperatorProofs

----------------------------------------------------------------------------
(* The inductive invariant.  Each part says what one stretch of a call     *)
(* leaves for the next.                                                    *)

\* A call in progress has a client, and without a client there is nothing.
ClientIsThere ==
  /\ pc # "idle" => client # NULL
  /\ client = NULL => /\ has_topology = FALSE
                      /\ requests = << >>
                      /\ polled = << >>
                      /\ event_queue.count = 0

\* A topology is a snapshot some caller passed; a submission needs one.
TopologyIsThere ==
  /\ has_topology => topology.view \in Snapshots
  /\ pc \in SubmitPoints => /\ has_topology
                            /\ submission.transaction \in Transactions

\* An install in progress has passed the generation rule.
InstallIsNewer ==
  pc \in InstallPoints =>
    /\ source \in Snapshots
    /\ has_topology => source.generation > topology.view.generation

\* The blocks a submission has when it comes to the next allocation, and what
\* it has checked when it comes to acceptance.
SubmitIsReady ==
  /\ pc \in {"owned_targets", "request", "accept"} =>
       temp["transaction_copy"] \in Addr
  /\ pc \in {"request", "accept"} => temp["owned_targets"] \in Addr
  /\ pc = "accept" => /\ temp["request"] \in Addr
                      /\ next_request_id \in RequestIds
                      /\ HasCapacity(event_queue)

\* Only real events are queued.
QueuedAreReal == Contents(event_queue) \in Seq(Event)

IInv == /\ TypeOK
        /\ ClientIsThere
        /\ TopologyIsThere
        /\ InstallIsNewer
        /\ SubmitIsReady
        /\ QueuedAreReal

----------------------------------------------------------------------------
\* The record types of the locals of a submission.
SubmissionType ==
  [transaction : Transactions \union {NULL}, max_topology_age : Nat,
   target_limit : Nat, routing_slot : Nat, targets : Seq(Target)]

CountsType ==
  [candidate_count : Nat, target_count : Nat, unique_target_count : Nat]

\* The values variables are reset to have their types.
LEMMA RestTypes ==
  /\ NoBlocks \in [ArrayNames -> Addr \union {NULL}]
  /\ NoTemp \in [TempNames -> Addr \union {NULL}]
  /\ NoSubmission \in SubmissionType
  /\ NoCounts \in CountsType
  /\ NoTopology \in [view : Snapshots \union {NULL}, received : Times,
                     blocks : [ArrayNames -> Addr \union {NULL}]]
  /\ EmptyRing \in Ring(Event)
  /\ Contents(EmptyRing) = << >>
  <1>1. NoBlocks \in [ArrayNames -> Addr \union {NULL}]
    BY DEF NoBlocks
  <1>2. NoTemp \in [TempNames -> Addr \union {NULL}]
    BY DEF NoTemp
  <1>3. << >> \in Seq(Target)
    OBVIOUS
  <1>4. NoSubmission \in SubmissionType
    BY <1>3 DEF NoSubmission, SubmissionType
  <1>5. NoCounts \in CountsType
    BY DEF NoCounts, CountsType
  <1>6. 0 \in Times
    BY BoundsAssumption DEF Times
  <1>7. NoTopology \in [view : Snapshots \union {NULL}, received : Times,
                        blocks : [ArrayNames -> Addr \union {NULL}]]
    BY <1>1, <1>6 DEF NoTopology
  <1>8. EmptyRing \in Ring(Event)
    BY QueueCapacityAssumption DEF EmptyRing, Ring, Slots
  <1>9. Contents(EmptyRing) = << >>
    BY DEF EmptyRing, Contents, Oldest
  <1>. QED  BY <1>1, <1>2, <1>4, <1>5, <1>7, <1>8, <1>9

\* calloc returns an address.
LEMMA FreshBlockType ==
  ASSUME CanAllocate
  PROVE  FreshBlock \in Addr
  BY DEF CanAllocate, FreshBlock

----------------------------------------------------------------------------

\* The program starts without a client, which satisfies every part.
LEMMA InitIInv == Init => IInv
  <1>. SUFFICES ASSUME Init  PROVE IInv
    OBVIOUS
  <1>1. TypeOK
    <2>1. 0 \in 0 .. MaxRequestId
      BY BoundsAssumption
    <2>2. /\ << >> \in Seq(Request) /\ << >> \in Seq(Event)
          /\ << >> \in Seq([view : Snapshots, received : Times])
      OBVIOUS
    <2>3. "OK" \in Statuses /\ 0 \in Times
      BY BoundsAssumption DEF Statuses, Times
    <2>4. result \in [status : Statuses \union {"PENDING"},
                      request_id : 0 .. MaxRequestId]
      BY <2>1, <2>3 DEF Init
    <2>. QED
      BY <2>1, <2>2, <2>3, <2>4, RestTypes
         DEF Init, TypeOK, SubmissionType, CountsType
  <1>2. QueuedAreReal
    BY RestTypes DEF Init, QueuedAreReal
  <1>3. ClientIsThere
    BY DEF Init, ClientIsThere, EmptyRing
  <1>4. TopologyIsThere /\ InstallIsNewer /\ SubmitIsReady
    BY DEF Init, TopologyIsThere, InstallIsNewer, SubmitIsReady,
           SubmitPoints, InstallPoints, TempNames, OwnedNames, ArrayNames
  <1>. QED  BY <1>1, <1>2, <1>3, <1>4 DEF IInv

----------------------------------------------------------------------------
(* The calls between calls. *)

\* Return and Continue leave a status and a request identifier.
LEMMA ReturnType ==
  /\ \A status \in Statuses, id \in 0 .. MaxRequestId :
       Return(status, id) =>
         /\ pc' = "idle"
         /\ result' \in [status : Statuses \union {"PENDING"},
                         request_id : 0 .. MaxRequestId]
  /\ \A point : Continue(point) =>
         /\ pc' = point
         /\ result' \in [status : Statuses \union {"PENDING"},
                         request_id : 0 .. MaxRequestId]
  <1>1. 0 \in 0 .. MaxRequestId
    BY BoundsAssumption
  <1>. QED  BY <1>1 DEF Return, Continue

\* A new client is empty (solana_delivery.c:684-740).
LEMMA CreateIInv == IInv /\ Create => IInv'
  <1>. SUFFICES ASSUME IInv, Create  PROVE IInv'
    OBVIOUS
  <1>1. /\ UNCHANGED <<has_topology, topology, requests, event_queue, source,
                       replacement, submission, counts, scratch, temp,
                       clock_floor, polled, installed>>
        /\ pc = "idle" /\ client = NULL
    BY DEF Create, install_vars, submit_vars
  <1>2. /\ pc' = "idle"
        /\ result' \in [status : Statuses \union {"PENDING"},
                        request_id : 0 .. MaxRequestId]
        /\ client' \in Addr \union {NULL} /\ heap' \subseteq Addr
        /\ next_request_id' \in 0 .. MaxRequestId
    <2>1. /\ "OK" \in Statuses /\ "RESOURCE_EXHAUSTED" \in Statuses
          /\ 0 \in 0 .. MaxRequestId /\ 1 \in 0 .. MaxRequestId
      BY BoundsAssumption DEF Statuses
    <2>2. CASE Return("RESOURCE_EXHAUSTED", 0)
               /\ UNCHANGED <<client, next_request_id, heap>>
      BY <2>1, <2>2, ReturnType DEF IInv, TypeOK
    <2>3. CASE /\ CanAllocate
               /\ client' = FreshBlock
               /\ heap' = heap \union {FreshBlock}
               /\ next_request_id' = 1
               /\ Return("OK", 0)
      BY <2>1, <2>3, ReturnType, FreshBlockType DEF IInv, TypeOK
    <2>. QED  BY <2>2, <2>3 DEF Create
  <1>3. TypeOK'
    BY <1>1, <1>2 DEF IInv, TypeOK
  <1>4. /\ ClientIsThere' /\ TopologyIsThere' /\ InstallIsNewer'
        /\ SubmitIsReady' /\ QueuedAreReal'
    BY <1>1, <1>2
       DEF IInv, ClientIsThere, TopologyIsThere, InstallIsNewer,
           SubmitIsReady, QueuedAreReal, SubmitPoints, InstallPoints,
           TempNames, OwnedNames, ArrayNames, Contents, Oldest
  <1>. QED  BY <1>3, <1>4 DEF IInv

\* Destroying the client leaves nothing behind (solana_delivery.c:742-766).
LEMMA DestroyIInv == IInv /\ Destroy => IInv'
  <1>. SUFFICES ASSUME IInv, Destroy  PROVE IInv'
    OBVIOUS
  <1>1. /\ UNCHANGED <<source, replacement, submission, counts, scratch, temp,
                       clock_floor>>
        /\ client' = NULL /\ has_topology' = FALSE /\ topology' = NoTopology
        /\ next_request_id' = 0 /\ requests' = << >>
        /\ event_queue' = EmptyRing /\ polled' = << >> /\ installed' = << >>
        /\ heap' \subseteq heap
        /\ Return("OK", 0)
    BY DEF Destroy, install_vars, submit_vars
  <1>2. /\ pc' = "idle"
        /\ result' \in [status : Statuses \union {"PENDING"},
                        request_id : 0 .. MaxRequestId]
    BY <1>1, ReturnType, BoundsAssumption DEF Statuses
  <1>3. TypeOK'
    <2>1. /\ << >> \in Seq(Request) /\ << >> \in Seq(Event)
          /\ << >> \in Seq([view : Snapshots, received : Times])
          /\ 0 \in 0 .. MaxRequestId
      BY BoundsAssumption
    <2>. QED  BY <1>1, <1>2, <2>1, RestTypes DEF IInv, TypeOK
  <1>4. QueuedAreReal'
    BY <1>1, RestTypes DEF QueuedAreReal
  <1>5. /\ ClientIsThere' /\ TopologyIsThere' /\ InstallIsNewer'
        /\ SubmitIsReady'
    BY <1>1, <1>2
       DEF ClientIsThere, TopologyIsThere, InstallIsNewer, SubmitIsReady,
           SubmitPoints, InstallPoints, TempNames, OwnedNames, ArrayNames,
           EmptyRing
  <1>. QED  BY <1>3, <1>4, <1>5 DEF IInv

----------------------------------------------------------------------------
(* install_topology *)

\* An install that goes on has passed validation and the generation rule.
LEMMA InstallStatusType ==
  ASSUME NEW t \in Snapshots
  PROVE  /\ InstallStatus(t) \in Refusals /\ InstallStatus(t) \in Statuses
         /\ InstallStatus(t) = "OK" =>
              /\ TopologyStatus(t) = "OK"
              /\ has_topology => t.generation > topology.view.generation
  <1>. DEFINE checks == <<TopologyStatus(t), GenerationStatus(t)>>
  <1>0. Refusals \subseteq Statuses /\ "OK" \in Refusals
    BY DEF Refusals, Statuses
  <1>1. IsSnapshot(t)
    BY SnapshotsAssumption
  <1>2. /\ GenerationStatus(t) \in Refusals
        /\ GenerationStatus(t) = "OK" /\ has_topology =>
              t.generation > topology.view.generation
    BY DEF GenerationStatus, Require, Refusals, Statuses
  <1>3. /\ checks \in Seq(Refusals) /\ 1 \in DOMAIN checks /\ 2 \in DOMAIN checks
        /\ checks[1] = TopologyStatus(t) /\ checks[2] = GenerationStatus(t)
    BY <1>1, <1>2, SnapshotStatus
  <1>. HIDE DEF checks
  <1>4. /\ FirstOther("OK", checks) \in Refusals
        /\ FirstOther("OK", checks) = "OK" =>
             \A i \in DOMAIN checks : checks[i] = "OK"
    BY <1>0, <1>3, RunOfChecks
  <1>5. InstallStatus(t) = FirstOther("OK", checks)
    BY DEF InstallStatus, FirstError, checks
  <1>. QED  BY <1>0, <1>2, <1>3, <1>4, <1>5

\* An install starts copying only after the generation rule has passed.
LEMMA InstallIInv ==
  ASSUME IInv, NEW t \in Snapshots, Install(t)
  PROVE  IInv'
  <1>1. /\ UNCHANGED <<client, has_topology, topology, next_request_id,
                       requests, event_queue, replacement, submission, counts,
                       scratch, temp, heap, clock_floor, polled, installed>>
        /\ client # NULL
    BY DEF Install, Ready, client_vars, submit_vars
  <1>2. /\ pc' \in {"idle", "validators"}
        /\ result' \in [status : Statuses \union {"PENDING"},
                        request_id : 0 .. MaxRequestId]
        /\ source' \in Snapshots \union {NULL}
        /\ pc' = "validators" =>
             /\ source' \in Snapshots
             /\ has_topology => source'.generation > topology.view.generation
    <2>1. CASE InstallStatus(t) # "OK"
      <3>1. Return(InstallStatus(t), 0) /\ UNCHANGED source
        BY <2>1 DEF Install
      <3>. QED
        BY <3>1, ReturnType, InstallStatusType, BoundsAssumption
           DEF IInv, TypeOK
    <2>2. CASE InstallStatus(t) = "OK"
      <3>1. Continue("validators") /\ source' = t
        BY <2>2 DEF Install
      <3>. QED  BY <2>2, <3>1, ReturnType, InstallStatusType
    <2>. QED  BY <2>1, <2>2
  <1>3. TypeOK'
    BY <1>1, <1>2 DEF IInv, TypeOK, InstallPoints, ArrayNames
  <1>4. InstallIsNewer'
    BY <1>1, <1>2 DEF InstallIsNewer, InstallPoints, ArrayNames
  <1>5. ClientIsThere' /\ TopologyIsThere' /\ SubmitIsReady' /\ QueuedAreReal'
    BY <1>1, <1>2
       DEF IInv, ClientIsThere, TopologyIsThere, SubmitIsReady, QueuedAreReal,
           SubmitPoints, TempNames, OwnedNames, Contents, Oldest
  <1>. QED  BY <1>3, <1>4, <1>5 DEF IInv

\* What an install in progress leaves alone.
LEMMA InstallStepIInv ==
  ASSUME IInv, pc \in InstallPoints,
         UNCHANGED <<client, has_topology, topology, next_request_id, requests,
                     event_queue, submission, counts, scratch, temp, polled,
                     installed>>,
         clock_floor' \in Times,
         heap' \subseteq Addr,
         replacement' \in [ArrayNames -> Addr \union {NULL}],
         result' \in [status : Statuses \union {"PENDING"},
                      request_id : 0 .. MaxRequestId],
         \/ pc' = "idle" /\ source' = NULL
         \/ pc' \in InstallPoints /\ source' = source
  PROVE  IInv'
  <1>1. /\ pc' \in {"idle"} \union InstallPoints
        /\ source' \in Snapshots \union {NULL}
    BY DEF IInv, TypeOK
  <1>2. TypeOK'
    BY <1>1 DEF IInv, TypeOK
  <1>3. pc \notin SubmitPoints /\ pc' \notin SubmitPoints /\ pc # "idle"
    BY <1>1 DEF InstallPoints, SubmitPoints, ArrayNames, TempNames, OwnedNames
  <1>4. InstallIsNewer'
    BY <1>1, "idle" \notin InstallPoints
       DEF IInv, InstallIsNewer, InstallPoints, ArrayNames
  <1>5. SubmitIsReady'
    BY <1>3 DEF SubmitIsReady, SubmitPoints, TempNames, OwnedNames
  <1>6. ClientIsThere' /\ TopologyIsThere' /\ QueuedAreReal'
    BY <1>3 DEF IInv, ClientIsThere, TopologyIsThere, QueuedAreReal, Contents,
                Oldest
  <1>. QED  BY <1>2, <1>4, <1>5, <1>6 DEF IInv

\* An install that fails leaves the client as it was.
LEMMA FailInstallIInv ==
  ASSUME IInv, pc \in InstallPoints,
         UNCHANGED <<client_vars, submit_vars, clock_floor, polled, installed>>,
         NEW status \in Statuses, FailInstall(status)
  PROVE  IInv'
  <1>1. /\ heap' \subseteq Addr /\ replacement' = NoBlocks /\ source' = NULL
        /\ Return(status, 0)
    BY DEF FailInstall, IInv, TypeOK
  <1>2. /\ replacement' \in [ArrayNames -> Addr \union {NULL}]
        /\ pc' = "idle"
        /\ result' \in [status : Statuses \union {"PENDING"},
                        request_id : 0 .. MaxRequestId]
    BY <1>1, RestTypes, ReturnType, BoundsAssumption
  <1>3. clock_floor' \in Times
    BY DEF IInv, TypeOK
  <1>. QED
    BY <1>1, <1>2, <1>3, InstallStepIInv DEF client_vars, submit_vars

\* Copying one array moves the install to the next array or ends it.
LEMMA CloneArrayIInv ==
  ASSUME IInv, NEW array \in ArrayNames, CloneArray(array)
  PROVE  IInv'
  <1>1. /\ pc \in InstallPoints
        /\ UNCHANGED <<client_vars, submit_vars, clock_floor, polled, installed>>
    BY DEF CloneArray, InstallPoints
  <1>2. AfterClone(array) \in InstallPoints
    BY DEF AfterClone, InstallPoints, ArrayNames
  <1>3. CASE FailInstall("RESOURCE_EXHAUSTED")
    BY <1>1, <1>3, FailInstallIInv, "RESOURCE_EXHAUSTED" \in Statuses
       DEF Statuses
  <1>4. ASSUME Continue(AfterClone(array)), UNCHANGED source,
               heap' \subseteq Addr,
               replacement' \in [ArrayNames -> Addr \union {NULL}]
        PROVE  IInv'
    <2>1. /\ pc' \in InstallPoints
          /\ result' \in [status : Statuses \union {"PENDING"},
                          request_id : 0 .. MaxRequestId]
      BY <1>2, <1>4, ReturnType
    <2>2. clock_floor' \in Times
      BY <1>1 DEF IInv, TypeOK
    <2>. QED
      BY <1>1, <1>4, <2>1, <2>2, InstallStepIInv DEF client_vars, submit_vars
  <1>5. CASE /\ Continue(AfterClone(array))
             /\ UNCHANGED <<replacement, source, heap>>
    BY <1>4, <1>5 DEF IInv, TypeOK
  <1>6. CASE /\ CanAllocate
             /\ replacement' = [replacement EXCEPT ![array] = FreshBlock]
             /\ heap' = heap \union {FreshBlock}
             /\ Continue(AfterClone(array))
             /\ UNCHANGED source
    <2>1. replacement' \in [ArrayNames -> Addr \union {NULL}]
      BY <1>6, FreshBlockType DEF IInv, TypeOK
    <2>2. heap' \subseteq Addr
      BY <1>6, FreshBlockType DEF IInv, TypeOK
    <2>. QED  BY <1>4, <1>6, <2>1, <2>2
  <1>. QED  BY <1>3, <1>5, <1>6 DEF CloneArray

\* A clock that fails before the receipt ends the install.
LEMMA ReceiptFailsIInv ==
  ASSUME IInv, ReceiptFails
  PROVE  IInv'
  <1>1. PICK error \in ClockErrors : FailInstall(error)
    BY DEF ReceiptFails
  <1>2. error \in Statuses
    BY EnvironmentAssumption
  <1>. QED
    BY <1>1, <1>2, FailInstallIInv DEF ReceiptFails, InstallPoints

\* The swap makes the copied snapshot the topology in use.
LEMMA SwapIInv ==
  ASSUME IInv, NEW t \in Times, Swap(t)
  PROVE  IInv'
  <1>1. /\ UNCHANGED <<client, next_request_id, requests, event_queue,
                       submission, counts, scratch, temp, polled>>
        /\ pc = "receipt" /\ source \in Snapshots
        /\ topology' = [view |-> source, received |-> t, blocks |-> replacement]
        /\ has_topology' = TRUE
        /\ installed' = Append(installed, [view |-> source, received |-> t])
        /\ replacement' = NoBlocks /\ source' = NULL
        /\ heap' \subseteq heap
        /\ Return("OK", 0)
        /\ clock_floor' \in Times
    BY DEF Swap, submit_vars, ReadClock, IInv, TypeOK, InstallIsNewer,
           InstallPoints
  <1>2. /\ pc' = "idle"
        /\ result' \in [status : Statuses \union {"PENDING"},
                        request_id : 0 .. MaxRequestId]
    BY <1>1, ReturnType, BoundsAssumption DEF Statuses
  <1>3. /\ topology' \in [view : Snapshots \union {NULL}, received : Times,
                          blocks : [ArrayNames -> Addr \union {NULL}]]
        /\ topology'.view \in Snapshots
    BY <1>1 DEF IInv, TypeOK
  <1>4. installed' \in Seq([view : Snapshots, received : Times])
    BY <1>1, AppendProperties DEF IInv, TypeOK
  <1>5. TypeOK'
    BY <1>1, <1>2, <1>3, <1>4, RestTypes DEF IInv, TypeOK
  <1>6. client # NULL
    BY <1>1 DEF IInv, ClientIsThere
  <1>7. /\ ClientIsThere' /\ TopologyIsThere' /\ InstallIsNewer'
        /\ SubmitIsReady'
    BY <1>1, <1>2, <1>3, <1>6
       DEF ClientIsThere, TopologyIsThere, InstallIsNewer, SubmitIsReady,
           SubmitPoints, InstallPoints, TempNames, OwnedNames, ArrayNames
  <1>8. QueuedAreReal'
    BY <1>1 DEF IInv, QueuedAreReal, Contents, Oldest
  <1>. QED  BY <1>5, <1>7, <1>8 DEF IInv

----------------------------------------------------------------------------
(* submit *)

\* A run of three checks is a sequence of three results.
LEMMA ThreeChecks ==
  ASSUME NEW S, NEW a \in S, NEW b \in S, NEW c \in S
  PROVE  /\ <<a, b, c>> \in Seq(S)
         /\ DOMAIN <<a, b, c>> = 1 .. 3
         /\ <<a, b, c>>[1] = a /\ <<a, b, c>>[2] = b /\ <<a, b, c>>[3] = c
  OBVIOUS

\* A submission that goes on has a transaction, a topology and a limit.
LEMMA SubmitStatusType ==
  ASSUME NEW bytes, NEW o
  PROVE  /\ SubmitStatus(bytes, o) \in Refusals
         /\ SubmitStatus(bytes, o) \in Statuses
         /\ SubmitStatus(bytes, o) = "OK" =>
              bytes # NULL /\ has_topology /\ o.target_limit # 0
  <1>. DEFINE first  == Require(bytes # NULL, "INVALID_ARGUMENT")
              third  == Require(has_topology, "TOPOLOGY_UNAVAILABLE")
              a == Require(o.wellformed, "INVALID_ARGUMENT")
              b == Require(o.flags_are_none, "UNSUPPORTED")
              c == Require(/\ o.reserved_is_zero
                           /\ o.max_topology_age # 0
                           /\ o.target_limit # 0, "INVALID_ARGUMENT")
              checks == <<first, OptionsStatus(o), third>>
  <1>1. "OK" \in Refusals /\ Refusals \subseteq Statuses
    BY DEF Refusals, Statuses
  <1>2. /\ OptionsStatus(o) \in Refusals
        /\ OptionsStatus(o) = "OK" => o.target_limit # 0
    <2>1. /\ a \in Refusals /\ b \in Refusals /\ c \in Refusals
          /\ c = "OK" => o.target_limit # 0
      BY DEF Require, Refusals, Statuses
    <2>2. OptionsStatus(o) = FirstOther("OK", <<a, b, c>>)
      BY DEF OptionsStatus, FirstError
    <2>. HIDE DEF a, b, c
    <2>3. /\ <<a, b, c>> \in Seq(Refusals)
          /\ 3 \in DOMAIN <<a, b, c>> /\ <<a, b, c>>[3] = c
      BY <2>1, ThreeChecks
    <2>. QED  BY <1>1, <2>1, <2>2, <2>3, RunOfChecks
  <1>3. /\ first \in Refusals /\ third \in Refusals
        /\ first = "OK" => bytes # NULL
        /\ third = "OK" => has_topology
    BY DEF Require, Refusals, Statuses
  <1>. HIDE DEF first, third
  <1>4. /\ checks \in Seq(Refusals)
        /\ 1 \in DOMAIN checks /\ checks[1] = first
        /\ 2 \in DOMAIN checks /\ checks[2] = OptionsStatus(o)
        /\ 3 \in DOMAIN checks /\ checks[3] = third
    BY <1>2, <1>3, ThreeChecks
  <1>. HIDE DEF checks
  <1>5. /\ FirstOther("OK", checks) \in Refusals
        /\ FirstOther("OK", checks) = "OK" =>
             \A i \in DOMAIN checks : checks[i] = "OK"
    BY <1>1, <1>4, RunOfChecks
  <1>6. SubmitStatus(bytes, o) = FirstOther("OK", checks)
    BY DEF SubmitStatus, FirstError, checks, first, third
  <1>. QED  BY <1>1, <1>2, <1>3, <1>4, <1>5, <1>6

\* A submission that passes its first checks goes on to admission.
LEMMA SubmitIInv ==
  ASSUME IInv, NEW bytes \in Transactions \union {NULL}, NEW o \in Options,
         Submit(bytes, o)
  PROVE  IInv'
  <1>1. /\ UNCHANGED <<client, has_topology, topology, next_request_id,
                       requests, event_queue, source, replacement, counts,
                       scratch, temp, heap, clock_floor, polled, installed>>
        /\ client # NULL
    BY DEF Submit, Ready, client_vars, install_vars
  <1>2. /\ pc' \in {"idle", "admit"}
        /\ result' \in [status : Statuses \union {"PENDING"},
                        request_id : 0 .. MaxRequestId]
        /\ submission' \in SubmissionType
        /\ pc' = "admit" => /\ has_topology
                            /\ submission'.transaction \in Transactions
    <2>1. CASE SubmitStatus(bytes, o) # "OK"
      <3>1. Return(SubmitStatus(bytes, o), 0) /\ UNCHANGED submission
        BY <2>1 DEF Submit
      <3>. QED
        BY <3>1, ReturnType, SubmitStatusType, BoundsAssumption
           DEF IInv, TypeOK, SubmissionType
    <2>2. CASE SubmitStatus(bytes, o) = "OK"
      <3>1. /\ Continue("admit")
            /\ submission' = [NoSubmission EXCEPT
                                !.transaction = bytes,
                                !.max_topology_age = o.max_topology_age,
                                !.target_limit = o.target_limit]
        BY <2>2 DEF Submit
      <3>2. bytes \in Transactions /\ has_topology
        BY <2>2, SubmitStatusType
      <3>3. /\ submission' \in SubmissionType
            /\ submission'.transaction = bytes
        BY <3>1, RestTypes, OptionsAssumption DEF SubmissionType
      <3>. QED  BY <3>1, <3>2, <3>3, ReturnType
    <2>. QED  BY <2>1, <2>2
  <1>3. TypeOK'
    BY <1>1, <1>2 DEF IInv, TypeOK, SubmitPoints, SubmissionType
  <1>4. TopologyIsThere'
    BY <1>1, <1>2 DEF IInv, TopologyIsThere, SubmitPoints, TempNames, OwnedNames
  <1>5. ClientIsThere' /\ InstallIsNewer' /\ SubmitIsReady' /\ QueuedAreReal'
    BY <1>1, <1>2
       DEF IInv, ClientIsThere, InstallIsNewer, SubmitIsReady, QueuedAreReal,
           InstallPoints, ArrayNames, Contents, Oldest
  <1>. QED  BY <1>3, <1>4, <1>5 DEF IInv

\* What every step of a submission but the accepting one leaves alone.
LEMMA SubmitStepIInv ==
  ASSUME IInv, pc \in SubmitPoints,
         UNCHANGED <<client_vars, install_vars, polled, installed>>,
         clock_floor' \in Times,
         heap' \subseteq Addr,
         submission' \in SubmissionType,
         counts' \in CountsType,
         temp' \in [TempNames -> Addr \union {NULL}],
         result' \in [status : Statuses \union {"PENDING"},
                      request_id : 0 .. MaxRequestId],
         \/ pc' = "idle"
         \/ /\ pc' \in SubmitPoints
            /\ submission'.transaction = submission.transaction
            /\ SubmitIsReady'
  PROVE  IInv'
  <1>1. UNCHANGED <<client, has_topology, topology, next_request_id, requests,
                    event_queue, source, replacement, polled, installed>>
    BY DEF client_vars, install_vars
  <1>2. pc' \in {"idle"} \union SubmitPoints
    OBVIOUS
  <1>3. TypeOK'
    BY <1>1, <1>2 DEF IInv, TypeOK, SubmissionType, CountsType
  <1>4. pc' \notin InstallPoints /\ pc # "idle"
    BY <1>2 DEF InstallPoints, SubmitPoints, ArrayNames, TempNames, OwnedNames
  <1>5. SubmitIsReady'
    BY DEF SubmitIsReady
  <1>6. TopologyIsThere'
    BY <1>1, "idle" \notin SubmitPoints
       DEF IInv, TopologyIsThere, SubmitPoints, TempNames, OwnedNames
  <1>7. ClientIsThere' /\ InstallIsNewer' /\ QueuedAreReal'
    BY <1>1, <1>4 DEF IInv, ClientIsThere, InstallIsNewer, QueuedAreReal,
                      Contents, Oldest
  <1>. QED  BY <1>3, <1>5, <1>6, <1>7 DEF IInv

\* A submission that ends without accepting anything.
LEMMA FailSubmitIInv ==
  ASSUME IInv, pc \in SubmitPoints,
         UNCHANGED <<client_vars, install_vars, polled, installed>>,
         clock_floor' \in Times,
         NEW status \in Statuses, EndSubmit(status, 0)
  PROVE  IInv'
  <1>1. /\ heap' \subseteq Addr /\ submission' = NoSubmission
        /\ counts' = NoCounts /\ temp' = NoTemp /\ Return(status, 0)
    BY DEF EndSubmit, IInv, TypeOK
  <1>2. /\ pc' = "idle"
        /\ result' \in [status : Statuses \union {"PENDING"},
                        request_id : 0 .. MaxRequestId]
    BY <1>1, ReturnType, BoundsAssumption
  <1>. QED  BY <1>1, <1>2, RestTypes, SubmitStepIInv

Outcomes == Statuses \union {"PROCEED"}

\* A run of stops has an outcome, and goes on only if none of them stopped it.
LEMMA StopsType ==
  ASSUME NEW results \in Seq(Outcomes)
  PROVE  /\ FirstStop(results) \in Outcomes
         /\ FirstStop(results) = "PROCEED" =>
              \A i \in DOMAIN results : results[i] = "PROCEED"
  <1>1. "PROCEED" \in Outcomes
    BY DEF Outcomes
  <1>. QED  BY <1>1, RunOfChecks DEF FirstStop

\* Two checks in a row, in the order the code makes them.
LEMMA TwoStops ==
  ASSUME NEW a \in Outcomes, NEW b \in Outcomes
  PROVE  /\ FirstStop(<<a, b>>) \in Outcomes
         /\ FirstStop(<<a, b>>) = "PROCEED" => a = "PROCEED" /\ b = "PROCEED"
  <1>1. /\ <<a, b>> \in Seq(Outcomes)
        /\ 1 \in DOMAIN <<a, b>> /\ 2 \in DOMAIN <<a, b>>
        /\ <<a, b>>[1] = a /\ <<a, b>>[2] = b
    OBVIOUS
  <1>. QED  BY <1>1, StopsType

\* Admission samples the clock against the topology in use.
LEMMA AdmitIInv ==
  ASSUME IInv, Admit
  PROVE  IInv'
  <1>1. /\ UNCHANGED <<client_vars, install_vars, polled, installed>>
        /\ pc = "admit" /\ pc \in SubmitPoints
    BY DEF Admit, SubmitPoints
  <1>2. topology.view \in Snapshots /\ IsSnapshot(topology.view)
    BY <1>1, SnapshotsAssumption DEF IInv, TopologyIsThere
  <1>3. ASSUME NEW error \in ClockErrors, EndSubmit(error, 0),
               UNCHANGED clock_floor
        PROVE  IInv'
    <2>1. error \in Statuses /\ clock_floor' \in Times
      BY <1>3, EnvironmentAssumption DEF IInv, TypeOK
    <2>. QED  BY <1>1, <1>3, <2>1, FailSubmitIInv
  <1>. DEFINE slot == topology.view.current_slot
              query == ResolveSlot(topology.view, slot, 0)
              outcome(t) == FirstStop(<<AgeOutcome(t), QueryOutcome(query)>>)
  <1>4. slot \in Nat /\ query.status \in Statuses /\ query.count \in Nat
    BY <1>2, ResolutionType DEF IsSnapshot
  <1>. HIDE DEF slot, query
  <1>5. ASSUME NEW t \in Times
        PROVE  outcome(t) \in Outcomes
    <2>1. AgeOutcome(t) \in Outcomes
      <3>1. /\ Stop(t < topology.received, "INTERNAL_ERROR") \in Outcomes
            /\ Stop(/\ t >= topology.received
                    /\ t - topology.received > submission.max_topology_age,
                    "TOPOLOGY_STALE") \in Outcomes
        BY DEF Stop, Statuses, Outcomes
      <3>. QED  BY <3>1, TwoStops DEF AgeOutcome
    <2>2. QueryOutcome(query) \in Outcomes
      <3>1. /\ Stop(query.status # "RESOURCE_EXHAUSTED", query.status)
                 \in Outcomes
            /\ Stop(query.count = 0, "INTERNAL_ERROR") \in Outcomes
        BY <1>4 DEF Stop, Statuses, Outcomes
      <3>. QED  BY <3>1, TwoStops DEF QueryOutcome
    <2>. QED  BY <2>1, <2>2, TwoStops
  <1>6. ASSUME NEW t \in Times, ReadClock(t), outcome(t) # "PROCEED",
               EndSubmit(outcome(t), 0)
        PROVE  IInv'
    <2>1. outcome(t) \in Statuses
      BY <1>5, <1>6 DEF Outcomes
    <2>2. clock_floor' \in Times
      BY <1>6 DEF ReadClock, IInv, TypeOK
    <2>. HIDE DEF outcome
    <2>. QED  BY <1>1, <1>6, <2>1, <2>2, FailSubmitIInv
  <1>7. ASSUME NEW t \in Times, ReadClock(t), Continue("candidates"),
               submission' = [submission EXCEPT !.routing_slot = slot],
               counts' = [counts EXCEPT !.candidate_count = query.count],
               UNCHANGED <<scratch, temp, heap>>
        PROVE  IInv'
    <2>1. clock_floor' \in Times
      BY <1>7 DEF ReadClock, IInv, TypeOK
    <2>2. /\ submission' \in SubmissionType
          /\ submission'.transaction = submission.transaction
      BY <1>4, <1>7 DEF IInv, TypeOK, SubmissionType
    <2>3. counts' \in CountsType
      BY <1>4, <1>7 DEF IInv, TypeOK, CountsType
    <2>4. /\ pc' = "candidates" /\ pc' \in SubmitPoints
          /\ result' \in [status : Statuses \union {"PENDING"},
                          request_id : 0 .. MaxRequestId]
      BY <1>7, ReturnType DEF SubmitPoints, TempNames
    <2>5. SubmitIsReady'
      BY <2>4 DEF SubmitIsReady
    <2>6. /\ heap' \subseteq Addr
          /\ temp' \in [TempNames -> Addr \union {NULL}]
      BY <1>7 DEF IInv, TypeOK
    <2>. QED
      BY <1>1, <2>1, <2>2, <2>3, <2>4, <2>5, <2>6, SubmitStepIInv
  <1>8. \/ \E error \in ClockErrors : EndSubmit(error, 0) /\ UNCHANGED clock_floor
        \/ \E t \in Times :
             /\ ReadClock(t)
             /\ IF outcome(t) # "PROCEED" THEN EndSubmit(outcome(t), 0)
                ELSE /\ Continue("candidates")
                     /\ submission' = [submission EXCEPT !.routing_slot = slot]
                     /\ counts' = [counts EXCEPT !.candidate_count = query.count]
                     /\ UNCHANGED <<scratch, temp, heap>>
    BY DEF Admit, slot, query
  <1>. HIDE DEF outcome
  <1>. QED  BY <1>3, <1>6, <1>7, <1>8

\* One allocation: if the call goes on, next must be the point the code comes
\* to, with what SubmitIsReady asks for there.
LEMMA AllocateIInv ==
  ASSUME IInv, NEW name \in TempNames, NEW outcome \in Outcomes, NEW next,
         NEW locals, NEW numbers, NEW written,
         Allocate(name, outcome, next, locals, numbers, written),
         outcome = "PROCEED" =>
           /\ next \in SubmitPoints
           /\ locals \in SubmissionType /\ numbers \in CountsType
           /\ locals.transaction = submission.transaction
           /\ next = "owned_targets" => name = "transaction_copy"
           /\ next = "request" => name = "owned_targets"
           /\ next = "accept" => /\ name = "request"
                                 /\ next_request_id \in RequestIds
                                 /\ HasCapacity(event_queue)
  PROVE  IInv'
  <1>1. /\ UNCHANGED <<client_vars, install_vars, clock_floor, polled, installed>>
        /\ pc = name /\ pc \in SubmitPoints
        /\ clock_floor' \in Times
    BY DEF Allocate, SubmitPoints, IInv, TypeOK
  <1>2. CASE EndSubmit("RESOURCE_EXHAUSTED", 0)
    BY <1>1, <1>2, FailSubmitIInv, "RESOURCE_EXHAUSTED" \in Statuses
       DEF Statuses
  <1>3. CASE outcome # "PROCEED" /\ EndSubmit(outcome, 0)
    BY <1>1, <1>3, FailSubmitIInv DEF Outcomes
  <1>4. CASE /\ outcome = "PROCEED" /\ CanAllocate
             /\ temp' = [temp EXCEPT ![name] = FreshBlock]
             /\ heap' = heap \union {FreshBlock}
             /\ submission' = locals
             /\ counts' = numbers
             /\ Continue(next)
    <2>1. /\ heap' \subseteq Addr
          /\ temp' \in [TempNames -> Addr \union {NULL}]
          /\ temp'[name] \in Addr
          /\ \A n \in TempNames \ {name} : temp'[n] = temp[n]
      BY <1>4, FreshBlockType DEF IInv, TypeOK
    <2>2. /\ pc' = next
          /\ result' \in [status : Statuses \union {"PENDING"},
                          request_id : 0 .. MaxRequestId]
      BY <1>4, ReturnType
    <2>3. SubmitIsReady'
      <3>1. /\ {"transaction_copy", "owned_targets", "request"} \subseteq TempNames
            /\ UNCHANGED <<next_request_id, event_queue>>
        BY <1>1 DEF TempNames, OwnedNames, client_vars
      <3>2. CASE pc' = "owned_targets"
        BY <1>4, <2>1, <2>2, <3>2 DEF SubmitIsReady
      <3>3. CASE pc' = "request"
        BY <1>1, <1>4, <2>1, <2>2, <3>1, <3>3 DEF IInv, SubmitIsReady
      <3>4. CASE pc' = "accept"
        BY <1>1, <1>4, <2>1, <2>2, <3>1, <3>4
           DEF IInv, SubmitIsReady, HasCapacity
      <3>5. CASE pc' \notin {"owned_targets", "request", "accept"}
        BY <3>5 DEF SubmitIsReady
      <3>. QED  BY <3>2, <3>3, <3>4, <3>5
    <2>. QED  BY <1>1, <1>4, <2>1, <2>2, <2>3, SubmitStepIInv
  <1>. QED  BY <1>2, <1>3, <1>4 DEF Allocate

\* Four stops in a row.
LEMMA FourStops ==
  ASSUME NEW a \in Outcomes, NEW b \in Outcomes, NEW c \in Outcomes,
         NEW d \in Outcomes
  PROVE  FirstStop(<<a, b, c, d>>) \in Outcomes
  <1>1. <<a, b, c, d>> \in Seq(Outcomes)
    OBVIOUS
  <1>. QED  BY <1>1, StopsType

\* What a submission in progress can rely on.
LEMMA SubmitPremises ==
  ASSUME IInv, pc \in SubmitPoints
  PROVE  /\ topology.view \in Snapshots /\ IsSnapshot(topology.view)
         /\ submission \in SubmissionType /\ counts \in CountsType
         /\ submission.target_limit \in Nat
         /\ counts.candidate_count \in Nat /\ counts.target_count \in Nat
  BY SnapshotsAssumption
     DEF IInv, TopologyIsThere, TypeOK, SubmissionType, CountsType

\* Allocating the candidates keeps the invariant.
LEMMA AllocateCandidatesIInv ==
  ASSUME IInv, AllocateCandidates
  PROVE  IInv'
  <1>. DEFINE fill  == ResolveSlot(topology.view, submission.routing_slot,
                                   counts.candidate_count)
              query == PlanRoutes(fill.candidates, counts.candidate_count,
                                  submission.target_limit, 0)
              a == Stop(fill.status # "OK", fill.status)
              b == Stop(fill.count # counts.candidate_count, "INTERNAL_ERROR")
              c == Stop(query.status # "RESOURCE_EXHAUSTED", query.status)
              d == Stop(\/ query.target_count = 0
                        \/ query.unique_target_count < query.target_count,
                        "INTERNAL_ERROR")
              outcome == FirstStop(<<a, b, c, d>>)
              numbers == [counts EXCEPT
                            !.target_count = query.target_count,
                            !.unique_target_count = query.unique_target_count]
              written == [scratch EXCEPT !.candidates = fill.candidates]
  <1>1. /\ Allocate("candidates", outcome, "routes", submission, numbers, written)
        /\ pc \in SubmitPoints
    BY DEF AllocateCandidates, Allocate, SubmitPoints, TempNames
  <1>2. fill.status \in Statuses
    BY <1>1, SubmitPremises, ResolutionType
  <1>. HIDE DEF fill
  <1>3. /\ query.status \in Statuses
        /\ query.target_count \in Nat /\ query.unique_target_count \in Nat
    <2>1. 0 \in Nat
      OBVIOUS
    <2>. QED  BY <1>1, <2>1, SubmitPremises, PlanCounts
  <1>. HIDE DEF query
  <1>4. outcome \in Outcomes
    <2>1. a \in Outcomes /\ b \in Outcomes /\ c \in Outcomes /\ d \in Outcomes
      BY <1>2, <1>3 DEF Stop, Statuses, Outcomes
    <2>. HIDE DEF a, b, c, d
    <2>. QED  BY <2>1, FourStops
  <1>. HIDE DEF outcome
  <1>5. numbers \in CountsType
    BY <1>1, <1>3, SubmitPremises DEF CountsType
  <1>. HIDE DEF numbers, written
  <1>6. /\ "candidates" \in TempNames /\ "routes" \in SubmitPoints
        /\ submission \in SubmissionType
    BY <1>1, SubmitPremises DEF TempNames, SubmitPoints
  <1>. QED  BY <1>1, <1>4, <1>5, <1>6, AllocateIInv

\* Allocating the routes and planning them keeps the invariant.
LEMMA AllocateRoutesIInv ==
  ASSUME IInv, AllocateRoutes
  PROVE  IInv'
  <1>. DEFINE plan == PlanRoutes(scratch.candidates, counts.candidate_count,
                                 submission.target_limit, counts.target_count)
              a == Stop(plan.status # "OK", plan.status)
              b == Stop(\/ plan.target_count # counts.target_count
                        \/ plan.unique_target_count
                             # counts.unique_target_count, "INTERNAL_ERROR")
              outcome == FirstStop(<<a, b>>)
              written == [scratch EXCEPT !.routes = plan.targets]
  <1>1. /\ Allocate("routes", outcome, "transaction_copy", submission, counts,
                    written)
        /\ pc \in SubmitPoints
    BY DEF AllocateRoutes, Allocate, SubmitPoints, TempNames
  <1>2. plan.status \in Statuses
    BY <1>1, SubmitPremises, PlanCounts
  <1>. HIDE DEF plan
  <1>3. outcome \in Outcomes
    <2>1. a \in Outcomes /\ b \in Outcomes
      BY <1>2 DEF Stop, Statuses, Outcomes
    <2>. HIDE DEF a, b
    <2>. QED  BY <2>1, TwoStops
  <1>. HIDE DEF outcome, written
  <1>4. /\ "routes" \in TempNames /\ "transaction_copy" \in SubmitPoints
        /\ submission \in SubmissionType /\ counts \in CountsType
    BY <1>1, SubmitPremises DEF TempNames, OwnedNames, SubmitPoints
  <1>. QED  BY <1>1, <1>3, <1>4, AllocateIInv

\* Copying the transaction gives the submission its first kept block.
LEMMA AllocateTransactionIInv ==
  ASSUME IInv, AllocateTransaction
  PROVE  IInv'
  <1>1. /\ Allocate("transaction_copy", "PROCEED", "owned_targets", submission,
                    counts, scratch)
        /\ pc \in SubmitPoints
    BY DEF AllocateTransaction, Allocate, SubmitPoints, TempNames, OwnedNames
  <1>2. /\ "transaction_copy" \in TempNames /\ "owned_targets" \in SubmitPoints
        /\ "PROCEED" \in Outcomes
        /\ submission \in SubmissionType /\ counts \in CountsType
    BY <1>1, SubmitPremises DEF TempNames, OwnedNames, SubmitPoints, Outcomes
  <1>. QED  BY <1>1, <1>2, AllocateIInv

\* A route in range of a snapshot leads to a target of the declared type.
LEMMA TargetType ==
  ASSUME NEW t \in Snapshots, NEW route, RouteInRange(t, route)
  PROVE  TargetOf(t, route) \in Target
  <1>1. /\ Len(t.leaders) \in Nat /\ Len(t.validators) \in Nat
        /\ Len(t.endpoints) \in Nat
        /\ DOMAIN t.validators = 1 .. Len(t.validators)
        /\ DOMAIN t.endpoints = 1 .. Len(t.endpoints)
    BY SnapshotsAssumption DEF IsSnapshot, IsArray
  <1>2. /\ route.leader_index \in Nat
        /\ route.validator_index \in Nat
        /\ route.endpoint_index \in Nat
        /\ route.validator_index + 1 \in DOMAIN t.validators
        /\ route.endpoint_index + 1 \in DOMAIN t.endpoints
    BY <1>1 DEF RouteInRange, InRange
  <1>3. t.validators[route.validator_index + 1].identity \in Identities
    BY <1>2 DEF Identities
  <1>4. t.endpoints[route.endpoint_index + 1] \in Endpoints
    BY <1>2 DEF Endpoints
  <1>. QED  BY <1>2, <1>3, <1>4 DEF TargetOf, Target

\* Copying the targets gives the submission its second kept block.
LEMMA AllocateTargetsIInv ==
  ASSUME IInv, AllocateTargets
  PROVE  IInv'
  <1>. DEFINE bad == \/ counts.target_count = 0
                     \/ \E i \in 1 .. counts.target_count :
                          ~RouteInRange(topology.view, scratch.routes[i])
              outcome == Stop(bad, "INTERNAL_ERROR")
              targets == [i \in 1 .. counts.target_count |->
                            TargetOf(topology.view, scratch.routes[i])]
              locals == [submission EXCEPT !.targets = targets]
  <1>1. /\ Allocate("owned_targets", outcome, "request", locals, counts, scratch)
        /\ pc \in SubmitPoints
    BY DEF AllocateTargets, Allocate, SubmitPoints, TempNames, OwnedNames
  <1>2. /\ outcome \in Outcomes
        /\ outcome = "PROCEED" => ~bad
    BY DEF Stop, Outcomes, Statuses
  <1>3. outcome = "PROCEED" => targets \in Seq(Target)
    <2>1. SUFFICES ASSUME ~bad  PROVE targets \in Seq(Target)
      BY <1>2
    <2>2. topology.view \in Snapshots /\ counts.target_count \in Nat
      BY <1>1, SubmitPremises
    <2>3. \A i \in 1 .. counts.target_count :
            TargetOf(topology.view, scratch.routes[i]) \in Target
      BY <2>1, <2>2, TargetType
    <2>. QED  BY <2>2, <2>3
  <1>. HIDE DEF outcome, targets
  <1>4. outcome = "PROCEED" => /\ locals \in SubmissionType
                               /\ locals.transaction = submission.transaction
    BY <1>1, <1>3, SubmitPremises DEF SubmissionType
  <1>. HIDE DEF locals
  <1>5. /\ "owned_targets" \in TempNames /\ "request" \in SubmitPoints
        /\ counts \in CountsType
    BY <1>1, SubmitPremises DEF TempNames, OwnedNames, SubmitPoints
  <1>. QED  BY <1>1, <1>2, <1>4, <1>5, AllocateIInv

\* A submission reaches acceptance with its blocks, an identifier and room.
LEMMA AllocateRequestIInv ==
  ASSUME IInv, AllocateRequest
  PROVE  IInv'
  <1>. DEFINE a == Stop(next_request_id = 0, "RESOURCE_EXHAUSTED")
              b == Stop(~HasCapacity(event_queue), "RESOURCE_EXHAUSTED")
              outcome == FirstStop(<<a, b>>)
  <1>1. /\ Allocate("request", outcome, "accept", submission, counts, scratch)
        /\ pc \in SubmitPoints
    BY DEF AllocateRequest, Allocate, SubmitPoints, TempNames, OwnedNames
  <1>2. /\ outcome \in Outcomes
        /\ outcome = "PROCEED" => a = "PROCEED" /\ b = "PROCEED"
    <2>1. a \in Outcomes /\ b \in Outcomes
      BY DEF Stop, Statuses, Outcomes
    <2>. HIDE DEF a, b
    <2>. QED  BY <2>1, TwoStops
  <1>3. /\ a = "PROCEED" => next_request_id # 0
        /\ b = "PROCEED" => HasCapacity(event_queue)
    BY DEF Stop
  <1>. HIDE DEF a, b, outcome
  <1>4. next_request_id # 0 => next_request_id \in RequestIds
    BY BoundsAssumption DEF IInv, TypeOK, RequestIds
  <1>5. /\ "request" \in TempNames /\ "accept" \in SubmitPoints
        /\ submission \in SubmissionType /\ counts \in CountsType
    BY <1>1, SubmitPremises DEF TempNames, OwnedNames, SubmitPoints
  <1>. QED  BY <1>1, <1>2, <1>3, <1>4, <1>5, AllocateIInv

----------------------------------------------------------------------------
(* Acceptance: the step that commits. *)

\* What Accept does when it accepts at time t.
Commit(t) ==
  /\ event_queue' = Push(event_queue, [request_id |-> next_request_id,
                                       monotonic_time_ns |-> t])
  /\ requests' = <<NewRequest>> \o requests
  /\ next_request_id' = NextRequestId(next_request_id)
  /\ EndSubmit("OK", next_request_id)

\* Accept either ends without accepting anything or commits.
LEMMA AcceptCases ==
  ASSUME IInv, Accept
  PROVE  /\ pc = "accept" /\ pc \in SubmitPoints
         /\ UNCHANGED <<client, has_topology, topology, install_vars, polled,
                        installed>>
         /\ clock_floor' \in Times
         /\ \/ /\ \E status \in Statuses \ {"OK"} : EndSubmit(status, 0)
               /\ UNCHANGED <<requests, next_request_id, event_queue>>
            \/ \E t \in Times : t >= topology.received /\ Commit(t)
  <1>1. /\ pc = "accept" /\ pc \in SubmitPoints
        /\ UNCHANGED <<client, has_topology, topology, install_vars, polled,
                       installed>>
    BY DEF Accept, SubmitPoints
  <1>2. CASE /\ \E error \in ClockErrors : EndSubmit(error, 0)
             /\ UNCHANGED <<clock_floor, requests, next_request_id, event_queue>>
    BY <1>1, <1>2, EnvironmentAssumption DEF IInv, TypeOK
  <1>3. ASSUME NEW t \in Times, ReadClock(t), t < topology.received,
               EndSubmit("INTERNAL_ERROR", 0),
               UNCHANGED <<requests, next_request_id, event_queue>>
        PROVE  /\ clock_floor' \in Times
               /\ \E status \in Statuses \ {"OK"} : EndSubmit(status, 0)
    BY <1>3, "INTERNAL_ERROR" \in Statuses \ {"OK"}
       DEF ReadClock, IInv, TypeOK, Statuses
  <1>4. ASSUME NEW t \in Times, ReadClock(t), ~(t < topology.received),
               Commit(t)
        PROVE  clock_floor' \in Times /\ t >= topology.received
    <2>1. t \in Nat /\ topology.received \in Nat
      BY BoundsAssumption DEF Times, IInv, TypeOK
    <2>. QED  BY <1>4, <2>1 DEF ReadClock, IInv, TypeOK
  <1>. QED  BY <1>1, <1>2, <1>3, <1>4 DEF Accept, Commit

\* The committed request and event have their types.
LEMMA CommitTypes ==
  ASSUME IInv, pc = "accept", NEW t \in Times, Commit(t)
  PROVE  /\ NewRequest \in Request
         /\ [request_id |-> next_request_id, monotonic_time_ns |-> t] \in Event
         /\ requests' \in Seq(Request)
         /\ event_queue' \in Ring(Event)
         /\ Contents(event_queue')
              = Append(Contents(event_queue),
                       [request_id |-> next_request_id,
                        monotonic_time_ns |-> t])
         /\ Contents(event_queue') \in Seq(Event)
         /\ next_request_id \in RequestIds
         /\ next_request_id' \in 0 .. MaxRequestId
  <1>. DEFINE e == [request_id |-> next_request_id, monotonic_time_ns |-> t]
  <1>1. /\ next_request_id \in RequestIds /\ HasCapacity(event_queue)
        /\ temp["transaction_copy"] \in Addr
        /\ temp["owned_targets"] \in Addr /\ temp["request"] \in Addr
        /\ event_queue \in Ring(Event) /\ Contents(event_queue) \in Seq(Event)
        /\ requests \in Seq(Request)
    BY DEF IInv, SubmitIsReady, QueuedAreReal, TypeOK
  <1>2. e \in Event
    BY <1>1 DEF Event
  <1>3. NewRequest \in Request
    <2>1. pc \in SubmitPoints
      BY DEF SubmitPoints
    <2>2. /\ topology.view.generation \in Nat
          /\ submission.routing_slot \in Nat
          /\ submission.targets \in Seq(Target)
          /\ submission.transaction \in Transactions
      BY <2>1, SubmitPremises
         DEF IInv, TopologyIsThere, SubmissionType, IsSnapshot
    <2>3. [n \in OwnedNames |-> temp[n]] \in [OwnedNames -> Addr]
      BY <1>1 DEF OwnedNames
    <2>. QED  BY <1>1, <2>2, <2>3 DEF NewRequest, Request
  <1>4. requests' \in Seq(Request)
    <2>1. <<NewRequest>> \in Seq(Request)
      BY <1>3
    <2>. QED  BY <1>1, <2>1, ConcatProperties DEF Commit
  <1>5. event_queue' = Push(event_queue, e)
    BY DEF Commit
  <1>. HIDE DEF e
  <1>6. /\ event_queue' \in Ring(Event)
        /\ Contents(event_queue') = Append(Contents(event_queue), e)
    BY <1>1, <1>2, <1>5, PushAppends
  <1>7. Contents(event_queue') \in Seq(Event)
    BY <1>1, <1>2, <1>6, AppendProperties
  <1>8. next_request_id' \in 0 .. MaxRequestId
    BY <1>1, BoundsAssumption DEF Commit, NextRequestId, RequestIds
  <1>. QED  BY <1>1, <1>2, <1>3, <1>4, <1>6, <1>7, <1>8 DEF e

\* Acceptance commits a real request and a real event, or nothing.
LEMMA AcceptIInv ==
  ASSUME IInv, Accept
  PROVE  IInv'
  <1>1. CASE /\ \E status \in Statuses \ {"OK"} : EndSubmit(status, 0)
             /\ UNCHANGED <<requests, next_request_id, event_queue>>
    BY <1>1, AcceptCases, FailSubmitIInv DEF client_vars
  <1>2. ASSUME NEW t \in Times, Commit(t)
        PROVE  IInv'
    <2>1. /\ pc = "accept" /\ pc \in SubmitPoints
          /\ UNCHANGED <<client, has_topology, topology, source, replacement,
                         polled, installed>>
          /\ clock_floor' \in Times
      BY AcceptCases DEF install_vars
    <2>2. /\ requests' \in Seq(Request) /\ event_queue' \in Ring(Event)
          /\ Contents(event_queue') \in Seq(Event)
          /\ next_request_id' \in 0 .. MaxRequestId
          /\ next_request_id \in 0 .. MaxRequestId
      <3>1. next_request_id \in 0 .. MaxRequestId
        BY DEF IInv, TypeOK
      <3>. QED  BY <1>2, <2>1, <3>1, CommitTypes
    <2>3. /\ heap' \subseteq Addr /\ submission' = NoSubmission
          /\ counts' = NoCounts /\ temp' = NoTemp
          /\ Return("OK", next_request_id)
      BY <1>2 DEF Commit, EndSubmit, IInv, TypeOK
    <2>4. /\ pc' = "idle"
          /\ result' \in [status : Statuses \union {"PENDING"},
                          request_id : 0 .. MaxRequestId]
      BY <2>2, <2>3, ReturnType, "OK" \in Statuses DEF Statuses
    <2>5. TypeOK'
      BY <2>1, <2>2, <2>3, <2>4, RestTypes
         DEF IInv, TypeOK, SubmissionType, CountsType
    <2>6. client # NULL
      BY <2>1 DEF IInv, ClientIsThere
    <2>7. QueuedAreReal'
      <3>1. Contents(event_queue)' = Contents(event_queue')
        BY DEF Contents, Oldest
      <3>. QED  BY <2>2, <3>1 DEF QueuedAreReal
    <2>8. ClientIsThere' /\ TopologyIsThere' /\ InstallIsNewer' /\ SubmitIsReady'
      BY <2>1, <2>4, <2>6
         DEF IInv, ClientIsThere, TopologyIsThere, InstallIsNewer,
             SubmitIsReady, SubmitPoints, InstallPoints, TempNames, OwnedNames,
             ArrayNames
    <2>. QED  BY <2>5, <2>7, <2>8 DEF IInv
  <1>. QED  BY <1>1, <1>2, AcceptCases

----------------------------------------------------------------------------
(* poll_events *)

\* Any prefix of a sequence and the rest make up the sequence.
LEMMA SplitSequence ==
  ASSUME NEW S, NEW s \in Seq(S), NEW n \in 0 .. Len(s)
  PROVE  /\ SubSeq(s, 1, n) \in Seq(S)
         /\ SubSeq(s, n + 1, Len(s)) \in Seq(S)
         /\ SubSeq(s, 1, n) \o SubSeq(s, n + 1, Len(s)) = s
  <1>1. Len(s) \in Nat /\ n \in Nat /\ n <= Len(s)
    BY LenProperties
  <1>2. \A i \in 1 .. Len(s) : s[i] \in S
    BY ElementOfSeq
  <1>3. SubSeq(s, 1, n) \in Seq(S)
    BY <1>1, <1>2, SubSeqProperties
  <1>4. SubSeq(s, n + 1, Len(s)) \in Seq(S)
    BY <1>1, <1>2, SubSeqProperties
  <1>5. SubSeq(s, 1, n) \o SubSeq(s, n + 1, Len(s)) = SubSeq(s, 1, Len(s))
    <2>1. 1 \in 1 .. Len(s) + 1 /\ n \in 1 - 1 .. Len(s) /\ Len(s) \in n .. Len(s)
      BY <1>1
    <2>. QED  BY <2>1, ConcatAdjacentSubSeq
  <1>. QED  BY <1>3, <1>4, <1>5, SubSeqFull

\* Moving a prefix from one sequence to the end of another changes nothing
\* of the two together.
LEMMA MovePrefix ==
  ASSUME NEW S, NEW p \in Seq(S), NEW s \in Seq(S), NEW n \in 0 .. Len(s)
  PROVE  (p \o SubSeq(s, 1, n)) \o SubSeq(s, n + 1, Len(s)) = p \o s
  <1>. DEFINE a == SubSeq(s, 1, n)
              b == SubSeq(s, n + 1, Len(s))
  <1>1. a \in Seq(S) /\ b \in Seq(S) /\ a \o b = s
    BY SplitSequence
  <1>2. \A x, y \in Seq(S) : (p \o x) \o y = p \o (x \o y)
    BY ConcatAssociative
  <1>. HIDE DEF a, b
  <1>3. (p \o a) \o b = p \o (a \o b)
    BY <1>1, <1>2
  <1>. QED  BY <1>1, <1>3 DEF a, b

\* What a poll hands out and what it leaves are together what was queued.
LEMMA PollSplits ==
  ASSUME IInv, NEW room \in 0 .. MaxRoom, NEW layout_ok \in BOOLEAN,
         Poll(room, layout_ok)
  PROVE  /\ event_queue' \in Ring(Event)
         /\ polled' \in Seq(Event)
         /\ Contents(event_queue') \in Seq(Event)
         /\ polled' \o Contents(event_queue') = polled \o Contents(event_queue)
         /\ Return("OK", 0) \/ Return("INVALID_ARGUMENT", 0)
  <1>1. /\ event_queue \in Ring(Event) /\ polled \in Seq(Event)
        /\ Contents(event_queue) \in Seq(Event)
    BY DEF IInv, TypeOK, QueuedAreReal
  <1>2. CASE room # 0 /\ ~layout_ok
    BY <1>1, <1>2 DEF Poll
  <1>3. CASE ~(room # 0 /\ ~layout_ok)
    <2>. DEFINE n == CopyCount(event_queue, room)
                c == Contents(event_queue)
    <2>1. /\ event_queue.count \in Nat /\ n \in 0 .. event_queue.count
          /\ room = 0 => n = 0
      BY <1>1, QueueCapacityAssumption, BoundsAssumption DEF Ring, CopyCount
    <2>2. /\ polled' = polled \o Oldest(event_queue, n)
          /\ event_queue' = IF room = 0 THEN event_queue
                                        ELSE Drain(event_queue, n)
          /\ Return("OK", 0)
      BY <1>3 DEF Poll
    <2>. HIDE DEF n
    <2>3. /\ Drain(event_queue, n) \in Ring(Event)
          /\ Oldest(event_queue, n) = SubSeq(c, 1, n)
          /\ Contents(Drain(event_queue, n))
               = SubSeq(c, n + 1, event_queue.count)
      BY <1>1, <2>1, DrainDrops
    <2>4. Len(c) = event_queue.count
      <3>1. event_queue.count \in 0 .. QueueCapacity
        BY <1>1 DEF Ring
      <3>. QED  BY <1>1, <3>1, ContentsType DEF Contents
    <2>. HIDE DEF c
    <2>5. /\ c \in Seq(Event)
          /\ SubSeq(c, 1, n) \in Seq(Event)
          /\ SubSeq(c, n + 1, event_queue.count) \in Seq(Event)
          /\ SubSeq(c, 1, n) \o SubSeq(c, n + 1, event_queue.count) = c
      BY <1>1, <2>1, <2>4, SplitSequence DEF c
    <2>6. CASE room = 0
      <3>1. event_queue' = event_queue /\ Oldest(event_queue, n) = << >>
        BY <2>1, <2>2, <2>6 DEF Oldest
      <3>2. polled' = polled
        BY <1>1, <2>2, <3>1, ConcatEmptySeq
      <3>. QED  BY <1>1, <2>2, <3>1, <3>2
    <2>7. CASE room # 0
      <3>1. /\ event_queue' = Drain(event_queue, n)
            /\ Contents(event_queue') = SubSeq(c, n + 1, event_queue.count)
            /\ polled' = polled \o SubSeq(c, 1, n)
        BY <2>2, <2>3, <2>7
      <3>2. polled' \in Seq(Event)
        BY <1>1, <2>5, <3>1, ConcatProperties
      <3>3. polled' \o Contents(event_queue') = polled \o c
        <4>1. (polled \o SubSeq(c, 1, n)) \o SubSeq(c, n + 1, Len(c)) = polled \o c
          BY <1>1, <2>1, <2>4, <2>5, MovePrefix
        <4>. QED  BY <2>4, <3>1, <4>1
      <3>. QED  BY <2>2, <2>3, <2>5, <3>1, <3>2, <3>3 DEF c
    <2>. QED  BY <2>6, <2>7
  <1>. QED  BY <1>2, <1>3

\* Polling moves real events from the queue to the caller.
LEMMA PollIInv ==
  ASSUME IInv, NEW room \in 0 .. MaxRoom, NEW layout_ok \in BOOLEAN,
         Poll(room, layout_ok)
  PROVE  IInv'
  <1>1. /\ UNCHANGED <<client, has_topology, topology, next_request_id,
                       requests, source, replacement, submission, counts,
                       scratch, temp, heap, clock_floor, installed>>
        /\ client # NULL
    BY DEF Poll, Ready, install_vars, submit_vars
  <1>2. /\ pc' = "idle"
        /\ result' \in [status : Statuses \union {"PENDING"},
                        request_id : 0 .. MaxRequestId]
    BY PollSplits, ReturnType, BoundsAssumption,
       "OK" \in Statuses, "INVALID_ARGUMENT" \in Statuses DEF Statuses
  <1>3. event_queue' \in Ring(Event) /\ polled' \in Seq(Event)
        /\ Contents(event_queue') \in Seq(Event)
    BY PollSplits
  <1>4. TypeOK'
    BY <1>1, <1>2, <1>3 DEF IInv, TypeOK
  <1>5. QueuedAreReal'
    <2>1. Contents(event_queue)' = Contents(event_queue')
      BY DEF Contents, Oldest
    <2>. QED  BY <1>3, <2>1 DEF QueuedAreReal
  <1>6. ClientIsThere' /\ TopologyIsThere' /\ InstallIsNewer' /\ SubmitIsReady'
    BY <1>1, <1>2
       DEF IInv, ClientIsThere, TopologyIsThere, InstallIsNewer, SubmitIsReady,
           SubmitPoints, InstallPoints, TempNames, OwnedNames, ArrayNames
  <1>. QED  BY <1>4, <1>5, <1>6 DEF IInv

----------------------------------------------------------------------------

\* Every step keeps the invariant.
LEMMA StepIInv == IInv /\ [Next]_vars => IInv'
  <1>. SUFFICES ASSUME IInv, [Next]_vars  PROVE IInv'
    OBVIOUS
  <1>1. CASE Call
    BY <1>1, CreateIInv, DestroyIInv, InstallIInv, SubmitIInv, PollIInv DEF Call
  <1>2. CASE InstallStep
    BY <1>2, CloneArrayIInv, ReceiptFailsIInv, SwapIInv DEF InstallStep
  <1>3. CASE SubmitStep
    BY <1>3, AdmitIInv, AllocateCandidatesIInv, AllocateRoutesIInv,
       AllocateTransactionIInv, AllocateTargetsIInv, AllocateRequestIInv,
       AcceptIInv DEF SubmitStep
  <1>4. CASE UNCHANGED vars
    BY <1>4
       DEF vars, client_vars, install_vars, submit_vars, IInv, TypeOK,
           ClientIsThere, TopologyIsThere, InstallIsNewer, SubmitIsReady,
           QueuedAreReal, HasCapacity, Contents, Oldest
  <1>. QED  BY <1>1, <1>2, <1>3, <1>4 DEF Next

\* The invariant holds of every behavior.
LEMMA Invariance == Spec => []IInv
  BY InitIInv, StepIInv, PTL DEF Spec

\* The state of a client and of a call in progress keeps its type on every
\* path, failing ones included, for every capacity, every last identifier and
\* all snapshots, options and clocks.
THEOREM ClientTypeCorrect == Spec => []TypeOK
  <1>1. IInv => TypeOK
    BY DEF IInv
  <1>. QED  BY <1>1, Invariance, PTL

----------------------------------------------------------------------------
(* Requests, identifiers and events *)

\* The steps that are not a commit, seen from the books the client keeps: a
\* poll moves events from one side of EventLog to the other and everything
\* else leaves them alone, except that a client opens or closes them.
LEMMA BooksStep ==
  ASSUME IInv, [Next]_vars
  PROVE  \/ /\ UNCHANGED <<client, requests, next_request_id>>
            /\ EventLog' = EventLog
         \/ /\ client = NULL /\ next_request_id' = 1
            /\ UNCHANGED <<requests, polled, event_queue>>
         \/ /\ client' = NULL /\ requests' = << >>
            /\ polled' = << >> /\ event_queue' = EmptyRing
         \/ /\ pc = "accept" /\ UNCHANGED <<client, polled>>
            /\ \E t \in Times : Commit(t)
  <1>1. ASSUME UNCHANGED <<client, requests, next_request_id, event_queue, polled>>
        PROVE  /\ UNCHANGED <<client, requests, next_request_id>>
               /\ EventLog' = EventLog
    BY <1>1 DEF EventLog, Contents, Oldest
  <1>2. CASE Create
    <2>1. \/ UNCHANGED <<client, next_request_id>>
          \/ client = NULL /\ next_request_id' = 1
      BY <1>2 DEF Create
    <2>2. UNCHANGED <<requests, event_queue, polled>>
      BY <1>2 DEF Create
    <2>. QED  BY <1>1, <2>1, <2>2
  <1>3. CASE Destroy
    BY <1>3 DEF Destroy
  <1>4. ASSUME NEW t \in Snapshots, Install(t)
        PROVE  UNCHANGED <<client, requests, next_request_id, event_queue, polled>>
    BY <1>4 DEF Install, client_vars
  <1>5. ASSUME NEW bytes, NEW o, Submit(bytes, o)
        PROVE  UNCHANGED <<client, requests, next_request_id, event_queue, polled>>
    BY <1>5 DEF Submit, client_vars
  <1>6. ASSUME NEW room \in 0 .. MaxRoom, NEW layout_ok \in BOOLEAN,
               Poll(room, layout_ok)
        PROVE  /\ UNCHANGED <<client, requests, next_request_id>>
               /\ EventLog' = EventLog
    <2>1. Contents(event_queue)' = Contents(event_queue')
      BY DEF Contents, Oldest
    <2>2. UNCHANGED <<client, requests, next_request_id>>
      BY <1>6 DEF Poll
    <2>. QED  BY <1>6, <2>1, <2>2, PollSplits DEF EventLog
  <1>7. CASE InstallStep
    <2>1. ASSUME NEW array \in ArrayNames, CloneArray(array)
          PROVE  UNCHANGED <<client, requests, next_request_id, event_queue, polled>>
      BY <2>1 DEF CloneArray, client_vars
    <2>2. CASE ReceiptFails
      BY <1>1, <2>2 DEF ReceiptFails, client_vars
    <2>3. ASSUME NEW t \in Times, Swap(t)
          PROVE  UNCHANGED <<client, requests, next_request_id, event_queue, polled>>
      BY <2>3 DEF Swap
    <2>. QED  BY <1>1, <1>7, <2>1, <2>2, <2>3 DEF InstallStep
  <1>8. CASE Admit
    BY <1>1, <1>8 DEF Admit, client_vars
  <1>9. CASE \/ AllocateCandidates \/ AllocateRoutes \/ AllocateTransaction
             \/ AllocateTargets \/ AllocateRequest
    BY <1>1, <1>9
       DEF AllocateCandidates, AllocateRoutes, AllocateTransaction,
           AllocateTargets, AllocateRequest, Allocate, client_vars
  <1>10. CASE Accept
    BY <1>1, <1>10, AcceptCases
  <1>11. CASE UNCHANGED vars
    BY <1>1, <1>11 DEF vars, client_vars
  <1>. QED
    BY <1>1, <1>2, <1>3, <1>4, <1>5, <1>6, <1>7, <1>8, <1>9, <1>10, <1>11
       DEF Next, Call, SubmitStep

\* The books agree: as many events as requests, numbered alike.
Books == IInv /\ RequestIdsAreDense /\ EveryRequestHasOneEvent

\* Before the first request the books are empty.
LEMMA InitBooks == Init => Books
  <1>. SUFFICES ASSUME Init  PROVE Books
    OBVIOUS
  <1>1. requests = << >> /\ client = NULL
    BY DEF Init
  <1>2. EventLog = << >>
    <2>1. polled = << >> /\ Contents(event_queue) = << >>
      BY RestTypes DEF Init
    <2>2. << >> \in Seq(Event)
      OBVIOUS
    <2>. QED  BY <2>1, <2>2, ConcatEmptySeq DEF EventLog
  <1>. QED
    BY <1>1, <1>2, InitIInv DEF Books, RequestIdsAreDense,
                                EveryRequestHasOneEvent

\* The list of requests and the log of events are sequences.
LEMMA BooksType ==
  ASSUME IInv
  PROVE  /\ requests \in Seq(Request) /\ Len(requests) \in Nat
         /\ DOMAIN requests = 1 .. Len(requests)
         /\ EventLog \in Seq(Event) /\ Len(EventLog) \in Nat
         /\ DOMAIN EventLog = 1 .. Len(EventLog)
  <1>1. requests \in Seq(Request) /\ polled \in Seq(Event)
        /\ Contents(event_queue) \in Seq(Event)
    BY DEF IInv, TypeOK, QueuedAreReal
  <1>2. EventLog \in Seq(Event)
    BY <1>1, ConcatProperties DEF EventLog
  <1>. QED  BY <1>1, <1>2, LenProperties

\* Appending to the second of two sequences appends to both together.
LEMMA AppendToSecond ==
  ASSUME NEW S, NEW p \in Seq(S), NEW s \in Seq(S), NEW e \in S
  PROVE  p \o Append(s, e) = Append(p \o s, e)
  <1>1. Append(s, e) = s \o <<e>>
    BY AppendIsConcat
  <1>2. p \o s \in Seq(S) /\ <<e>> \in Seq(S)
    BY ConcatProperties
  <1>3. Append(p \o s, e) = (p \o s) \o <<e>>
    BY <1>2, AppendIsConcat
  <1>4. \A u \in Seq(S) : (p \o s) \o u = p \o (s \o u)
    BY ConcatAssociative
  <1>. QED  BY <1>1, <1>2, <1>3, <1>4

\* A commit adds its event at the end of the log.
LEMMA CommitLog ==
  ASSUME IInv, pc = "accept", UNCHANGED polled, NEW t \in Times, Commit(t)
  PROVE  /\ Len(EventLog) \in Nat /\ DOMAIN EventLog = 1 .. Len(EventLog)
         /\ Len(EventLog') = Len(EventLog) + 1
         /\ DOMAIN EventLog' = 1 .. Len(EventLog) + 1
         /\ \A k \in 1 .. Len(EventLog) : EventLog'[k] = EventLog[k]
         /\ EventLog'[Len(EventLog) + 1]
              = [request_id |-> next_request_id, monotonic_time_ns |-> t]
  <1>. DEFINE e == [request_id |-> next_request_id, monotonic_time_ns |-> t]
  <1>1. /\ polled \in Seq(Event) /\ Contents(event_queue) \in Seq(Event)
        /\ e \in Event
        /\ Contents(event_queue') = Append(Contents(event_queue), e)
    BY CommitTypes DEF IInv, TypeOK, QueuedAreReal
  <1>2. Contents(event_queue)' = Contents(event_queue')
    BY DEF Contents, Oldest
  <1>3. EventLog \in Seq(Event) /\ DOMAIN EventLog = 1 .. Len(EventLog)
    BY BooksType
  <1>. HIDE DEF e
  <1>4. polled \o Append(Contents(event_queue), e)
          = Append(polled \o Contents(event_queue), e)
    BY <1>1, AppendToSecond
  <1>5. EventLog' = Append(EventLog, e)
    BY <1>1, <1>2, <1>4 DEF EventLog
  <1>6. /\ Len(EventLog) \in Nat /\ Len(EventLog') = Len(EventLog) + 1
        /\ DOMAIN EventLog' = 1 .. Len(EventLog) + 1
        /\ \A k \in 1 .. Len(EventLog) : EventLog'[k] = EventLog[k]
        /\ EventLog'[Len(EventLog) + 1] = e
    BY <1>1, <1>3, <1>5, AppendProperties, LenProperties
  <1>. QED  BY <1>3, <1>6 DEF e

\* A commit adds one line to both books, with the next number.
LEMMA CommitBooks ==
  ASSUME Books, pc = "accept", UNCHANGED <<client, polled>>,
         NEW t \in Times, Commit(t)
  PROVE  RequestIdsAreDense' /\ EveryRequestHasOneEvent'
  <1>. DEFINE n == Len(requests)
              e == [request_id |-> next_request_id, monotonic_time_ns |-> t]
  <1>1. IInv /\ client # NULL
    BY DEF Books, IInv, ClientIsThere
  <1>2. n \in Nat /\ n < MaxRequestId /\ next_request_id = n + 1
    <2>1. next_request_id \in RequestIds
      BY <1>1, CommitTypes
    <2>2. n \in Nat
      BY <1>1, BooksType
    <2>3. next_request_id = IF n = MaxRequestId THEN 0 ELSE n + 1
      BY <1>1 DEF Books, RequestIdsAreDense
    <2>. QED  BY <2>1, <2>2, <2>3, BoundsAssumption DEF RequestIds
  <1>3. /\ requests' = <<NewRequest>> \o requests
        /\ NewRequest \in Request /\ requests \in Seq(Request)
        /\ NewRequest.request_id = n + 1
        /\ \A i \in 1 .. n : requests[i].request_id = n + 1 - i
    BY <1>1, <1>2, CommitTypes, BooksType
       DEF Commit, NewRequest, Books, RequestIdsAreDense
  <1>4. /\ Len(requests') = n + 1 /\ DOMAIN requests' = 1 .. n + 1
        /\ requests'[1] = NewRequest
        /\ \A i \in 2 .. n + 1 : requests'[i] = requests[i - 1]
    <2>1. /\ <<NewRequest>> \in Seq(Request) /\ Len(<<NewRequest>>) = 1
          /\ <<NewRequest>>[1] = NewRequest
      BY <1>3
    <2>2. /\ <<NewRequest>> \o requests \in Seq(Request)
          /\ Len(<<NewRequest>> \o requests) = 1 + n
          /\ \A i \in 1 .. 1 + n :
               (<<NewRequest>> \o requests)[i]
                 = IF i <= 1 THEN <<NewRequest>>[i] ELSE requests[i - 1]
      BY <1>3, <2>1, ConcatProperties
    <2>. QED  BY <1>2, <1>3, <2>1, <2>2, LenProperties
  <1>5. \A i \in 1 .. n + 1 : requests'[i].request_id = (n + 1) + 1 - i
    <2>1. ASSUME NEW i \in 1 .. n + 1
          PROVE  requests'[i].request_id = (n + 1) + 1 - i
      <3>1. CASE i = 1
        BY <1>2, <1>3, <1>4, <3>1
      <3>2. CASE i # 1
        <4>1. PICK k \in 1 .. n : k = i - 1
          BY <1>2, <3>2
        <4>2. requests'[i] = requests[k] /\ requests[k].request_id = n + 1 - k
          BY <1>2, <1>3, <1>4, <3>2, <4>1
        <4>. QED  BY <1>2, <4>1, <4>2
      <3>. QED  BY <3>1, <3>2
    <2>. QED  BY <2>1
  <1>6. next_request_id' = IF n + 1 = MaxRequestId THEN 0 ELSE (n + 1) + 1
    BY <1>2 DEF Commit, NextRequestId
  <1>7. Len(EventLog) = n /\ \A k \in 1 .. n : EventLog[k].request_id = k
    BY <1>1, BooksType DEF Books, EveryRequestHasOneEvent
  <1>8. /\ Len(EventLog') = n + 1 /\ DOMAIN EventLog' = 1 .. n + 1
        /\ \A k \in 1 .. n : EventLog'[k] = EventLog[k]
        /\ EventLog'[n + 1] = e
    BY <1>1, <1>7, CommitLog
  <1>9. \A k \in 1 .. n + 1 : EventLog'[k].request_id = k
    BY <1>2, <1>7, <1>8
  <1>10. RequestIdsAreDense'
    BY <1>4, <1>5, <1>6 DEF RequestIdsAreDense
  <1>11. EveryRequestHasOneEvent'
    BY <1>4, <1>8, <1>9 DEF EveryRequestHasOneEvent
  <1>. QED  BY <1>10, <1>11

\* Every step keeps the books.
LEMMA StepBooks == Books /\ [Next]_vars => Books'
  <1>. SUFFICES ASSUME Books, [Next]_vars  PROVE Books'
    OBVIOUS
  <1>1. IInv /\ IInv'
    BY StepIInv DEF Books
  <1>2. CASE /\ UNCHANGED <<client, requests, next_request_id>>
             /\ EventLog' = EventLog
    BY <1>1, <1>2 DEF Books, RequestIdsAreDense, EveryRequestHasOneEvent
  <1>3. CASE /\ client = NULL /\ next_request_id' = 1
             /\ UNCHANGED <<requests, polled, event_queue>>
    <2>1. requests' = << >> /\ EventLog' = EventLog
      BY <1>1, <1>3 DEF IInv, ClientIsThere, EventLog, Contents, Oldest
    <2>2. Len(requests') = 0 /\ DOMAIN requests' = {} /\ requests' = requests
      BY <1>3, <2>1
    <2>3. RequestIdsAreDense'
      BY <1>3, <2>2, BoundsAssumption DEF RequestIdsAreDense
    <2>4. EveryRequestHasOneEvent'
      BY <2>1, <2>2 DEF Books, EveryRequestHasOneEvent
    <2>. QED  BY <1>1, <2>3, <2>4 DEF Books
  <1>4. CASE /\ client' = NULL /\ requests' = << >>
             /\ polled' = << >> /\ event_queue' = EmptyRing
    <2>1. Contents(event_queue') = << >>
      BY <1>4, RestTypes
    <2>2. Contents(event_queue)' = Contents(event_queue')
      BY DEF Contents, Oldest
    <2>3. << >> \in Seq(Event)
      OBVIOUS
    <2>4. EventLog' = << >>
      BY <1>4, <2>1, <2>2, <2>3, ConcatEmptySeq DEF EventLog
    <2>. QED
      BY <1>1, <1>4, <2>4
         DEF Books, RequestIdsAreDense, EveryRequestHasOneEvent
  <1>5. CASE /\ pc = "accept" /\ UNCHANGED <<client, polled>>
             /\ \E t \in Times : Commit(t)
    BY <1>1, <1>5, CommitBooks DEF Books
  <1>. QED  BY <1>1, <1>2, <1>3, <1>4, <1>5, BooksStep

\* The books hold of every behavior.
LEMMA BooksInvariance == Spec => []Books
  BY InitBooks, StepBooks, PTL DEF Spec

\* Identifiers are dense and never reused, whichever calls fail and where,
\* up to the explicit end of the identifiers (solana_delivery_submission.c:352-429).
THEOREM IdentifiersAreDense == Spec => []RequestIdsAreDense
  <1>1. Books => RequestIdsAreDense
    BY DEF Books
  <1>. QED  BY <1>1, BooksInvariance, PTL

\* Every accepted request has exactly one event, in order, however polls and
\* submissions alternate and whatever the capacity of the queue
\* (solana_delivery_submission.c:413-429, solana_delivery_events.c).
THEOREM OneEventPerRequest == Spec => []EveryRequestHasOneEvent
  <1>1. Books => EveryRequestHasOneEvent
    BY DEF Books
  <1>. QED  BY <1>1, BooksInvariance, PTL

----------------------------------------------------------------------------
(* Failure atomicity *)

\* A step that does not end a call with OK leaves the client alone.
LEMMA StepCommitsOnSuccess ==
  [Next]_vars => [result'.status # "OK" => UNCHANGED client_vars]_vars
  <1>. SUFFICES ASSUME Next, result'.status # "OK"
                PROVE  UNCHANGED client_vars
    OBVIOUS
  <1>1. CASE Create
    <2>1. ~Return("OK", 0)
      BY DEF Return
    <2>. QED  BY <1>1, <2>1 DEF Create, client_vars
  <1>2. CASE Destroy
    BY <1>2 DEF Destroy, Return
  <1>3. ASSUME NEW t \in Snapshots, Install(t)
        PROVE  UNCHANGED client_vars
    BY <1>3 DEF Install
  <1>4. ASSUME NEW bytes, NEW o, Submit(bytes, o)
        PROVE  UNCHANGED client_vars
    BY <1>4 DEF Submit
  <1>5. ASSUME NEW room \in 0 .. MaxRoom, NEW layout_ok \in BOOLEAN,
               Poll(room, layout_ok)
        PROVE  UNCHANGED client_vars
    <2>1. ~Return("OK", 0)
      BY DEF Return
    <2>. QED  BY <1>5, <2>1 DEF Poll, client_vars
  <1>6. CASE InstallStep
    <2>1. ASSUME NEW array \in ArrayNames, CloneArray(array)
          PROVE  UNCHANGED client_vars
      BY <2>1 DEF CloneArray
    <2>2. CASE ReceiptFails
      BY <2>2 DEF ReceiptFails
    <2>3. ASSUME NEW t \in Times, Swap(t)
          PROVE  FALSE
      BY <2>3 DEF Swap, Return
    <2>. QED  BY <1>6, <2>1, <2>2, <2>3 DEF InstallStep
  <1>7. CASE Admit
    BY <1>7 DEF Admit
  <1>8. CASE \/ AllocateCandidates \/ AllocateRoutes \/ AllocateTransaction
             \/ AllocateTargets \/ AllocateRequest
    BY <1>8 DEF AllocateCandidates, AllocateRoutes, AllocateTransaction,
                AllocateTargets, AllocateRequest, Allocate
  <1>9. CASE Accept
    <2>1. ~EndSubmit("OK", next_request_id)
      BY DEF EndSubmit, Return
    <2>. QED  BY <1>9, <2>1 DEF Accept, client_vars
  <1>. QED
    BY <1>1, <1>2, <1>3, <1>4, <1>5, <1>6, <1>7, <1>8, <1>9
       DEF Next, Call, SubmitStep

\* A call that has not ended with OK has changed nothing the client holds,
\* after whichever of its allocations or clock samples it failed
\* (delivery.h:222 and :264).
THEOREM FailuresAreAtomic == Spec => OnlySuccessCommits
  BY StepCommitsOnSuccess, PTL DEF Spec, OnlySuccessCommits

----------------------------------------------------------------------------
(* Generations *)

\* Only a swap or the end of the client touches the topology in use.
LEMMA TopologyStep ==
  ASSUME [Next]_vars
  PROVE  \/ UNCHANGED <<has_topology, topology, installed>>
         \/ /\ has_topology' = FALSE /\ topology' = NoTopology
            /\ installed' = << >>
         \/ \E t \in Times : Swap(t)
  <1>1. CASE Create \/ Destroy
    BY <1>1 DEF Create, Destroy
  <1>2. ASSUME NEW t \in Snapshots, Install(t)
        PROVE  UNCHANGED <<has_topology, topology, installed>>
    BY <1>2 DEF Install, client_vars
  <1>3. ASSUME NEW bytes, NEW o, Submit(bytes, o)
        PROVE  UNCHANGED <<has_topology, topology, installed>>
    BY <1>3 DEF Submit, client_vars
  <1>4. ASSUME NEW room \in 0 .. MaxRoom, NEW layout_ok \in BOOLEAN,
               Poll(room, layout_ok)
        PROVE  UNCHANGED <<has_topology, topology, installed>>
    BY <1>4 DEF Poll
  <1>5. CASE InstallStep
    <2>1. ASSUME NEW array \in ArrayNames, CloneArray(array)
          PROVE  UNCHANGED <<has_topology, topology, installed>>
      BY <2>1 DEF CloneArray, client_vars
    <2>2. CASE ReceiptFails
      BY <2>2 DEF ReceiptFails, client_vars
    <2>. QED  BY <1>5, <2>1, <2>2 DEF InstallStep
  <1>6. CASE Admit \/ Accept
    BY <1>6 DEF Admit, Accept, client_vars
  <1>7. CASE \/ AllocateCandidates \/ AllocateRoutes \/ AllocateTransaction
             \/ AllocateTargets \/ AllocateRequest
    BY <1>7
       DEF AllocateCandidates, AllocateRoutes, AllocateTransaction,
           AllocateTargets, AllocateRequest, Allocate, client_vars
  <1>8. CASE UNCHANGED vars
    BY <1>8 DEF vars, client_vars
  <1>. QED
    BY <1>1, <1>2, <1>3, <1>4, <1>5, <1>6, <1>7, <1>8
       DEF Next, Call, SubmitStep

\* Before the first swap there is nothing to compare.
LEMMA NothingInstalled ==
  ASSUME has_topology = FALSE, installed = << >>
  PROVE  GenerationsIncrease
  <1>1. DOMAIN installed = {}
    OBVIOUS
  <1>2. has_topology = (installed # << >>)
    BY Zenon
  <1>. QED  BY <1>1, <1>2, Zenon DEF GenerationsIncrease

\* A swap adds a snapshot that is newer than the last one, hence than all.
LEMMA SwapGenerations ==
  ASSUME IInv, GenerationsIncrease, NEW t \in Times, Swap(t)
  PROVE  GenerationsIncrease'
  <1>. DEFINE n == Len(installed)
              r == [view |-> source, received |-> t]
              R == [view : Snapshots, received : Times]
  <1>1. /\ source \in Snapshots
        /\ has_topology => source.generation > topology.view.generation
        /\ installed \in Seq(R) /\ r \in R
        /\ has_topology \in BOOLEAN
    BY DEF Swap, IInv, TypeOK, InstallIsNewer, InstallPoints
  <1>2. /\ installed' = Append(installed, r)
        /\ has_topology' = TRUE
        /\ topology'.view = source /\ topology'.received = t
    BY DEF Swap
  <1>3. /\ n \in Nat /\ DOMAIN installed = 1 .. n
        /\ \A k \in 1 .. n : installed[k] \in R
    BY <1>1, LenProperties, ElementOfSeq
  <1>4. /\ Len(installed') = n + 1 /\ DOMAIN installed' = 1 .. n + 1
        /\ \A k \in 1 .. n : installed'[k] = installed[k]
        /\ installed'[n + 1] = r
    <2>. HIDE DEF r, R
    <2>. QED  BY <1>1, <1>2, <1>3, AppendProperties, LenProperties
  <1>5. \A k \in 1 .. n : installed[k].view.generation < source.generation
    <2>1. SUFFICES ASSUME NEW k \in 1 .. n
                   PROVE  installed[k].view.generation < source.generation
      OBVIOUS
    <2>2. /\ n \in 1 .. n /\ installed # << >>
          /\ k <= n
      BY <1>3
    <2>3. has_topology /\ topology.view = installed[n].view
      BY <2>2 DEF GenerationsIncrease
    <2>4. k < n => installed[k].view.generation < installed[n].view.generation
      BY <1>3, <2>2 DEF GenerationsIncrease
    <2>5. /\ installed[k].view.generation \in Nat
          /\ installed[n].view.generation \in Nat
          /\ source.generation \in Nat
      BY <1>1, <1>3, <2>2, SnapshotsAssumption DEF IsSnapshot
    <2>. QED  BY <1>1, <1>3, <2>2, <2>3, <2>4, <2>5
  <1>6. \A j, k \in DOMAIN installed' :
           j < k => installed'[j].view.generation < installed'[k].view.generation
    <2>1. SUFFICES ASSUME NEW j \in 1 .. n + 1, NEW k \in 1 .. n + 1, j < k
                   PROVE  installed'[j].view.generation
                            < installed'[k].view.generation
      BY <1>4
    <2>2. j \in 1 .. n
      BY <1>3, <2>1
    <2>3. CASE k \in 1 .. n
      BY <1>3, <1>4, <2>1, <2>2, <2>3 DEF GenerationsIncrease
    <2>4. CASE k = n + 1
      BY <1>4, <1>5, <2>2, <2>4
    <2>. QED  BY <1>3, <2>3, <2>4
  <1>7. installed' # << >>
    BY <1>3, <1>4
  <1>8. installed'[Len(installed')] = r
    BY <1>4
  <1>9. /\ topology'.view = installed'[Len(installed')].view
        /\ topology'.received = installed'[Len(installed')].received
    BY <1>2, <1>8
  <1>10. has_topology' = (installed' # << >>)
    BY ONLY <1>2, <1>7, Zenon
  <1>. HIDE DEF n, r, R
  <1>. QED
    BY ONLY <1>6, <1>9, <1>10, Zenon DEF GenerationsIncrease

\* Every step keeps the order of generations.
LEMMA StepGenerations ==
  IInv /\ GenerationsIncrease /\ [Next]_vars => GenerationsIncrease'
  <1>. SUFFICES ASSUME IInv, GenerationsIncrease, [Next]_vars
                PROVE  GenerationsIncrease'
    OBVIOUS
  <1>1. CASE UNCHANGED <<has_topology, topology, installed>>
    BY <1>1, Zenon DEF GenerationsIncrease
  <1>2. CASE has_topology' = FALSE /\ installed' = << >>
    <2>1. DOMAIN installed' = {}
      BY <1>2
    <2>2. has_topology' = (installed' # << >>)
      BY <1>2, Zenon
    <2>. QED  BY <1>2, <2>1, <2>2, Zenon DEF GenerationsIncrease
  <1>. QED  BY <1>1, <1>2, TopologyStep, SwapGenerations

\* The generations of the snapshots one client installs increase strictly,
\* and the one in use is the last: a generation names one snapshot, however
\* installs fail, are repeated or arrive late (solana_delivery.c:783-820).
THEOREM GenerationsAreOrdered == Spec => []GenerationsIncrease
  <1>1. Init => GenerationsIncrease
    <2>. SUFFICES ASSUME Init
                  PROVE  GenerationsIncrease
      OBVIOUS
    <2>1. has_topology = FALSE /\ installed = << >>
      BY DEF Init
    <2>. QED  BY <2>1, NothingInstalled
  <1>. QED  BY <1>1, StepGenerations, Invariance, PTL DEF Spec
=============================================================================
