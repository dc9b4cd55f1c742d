-------------------------- MODULE EventQueueProofs --------------------------
(***************************************************************************)
(* The event queue is well-formed and implements the bounded first-in      *)
(* first-out channel, for every capacity, every set of events and every    *)
(* size of caller buffer.                                                  *)
(***************************************************************************)
EXTENDS EventQueue, OperatorProofs

\* The inductive invariant: a type, and what is in the slots in use.
IInv == TypeOK /\ EmptyMeansRewound /\ RetainedAreReal

\* The empty ring satisfies the invariant.
LEMMA InitIInv == Init => IInv
  <1>. SUFFICES ASSUME Init PROVE IInv
    OBVIOUS
  <1>1. queue \in Ring(Event) /\ queue.count = 0 /\ queue.head = 0
    BY QueueCapacityAssumption DEF Init, EmptyRing, Ring, Slots
  <1>2. Contents(queue) = << >>
    BY <1>1 DEF Contents, Oldest
  <1>3. << >> \in Seq(Event)
    OBVIOUS
  <1>. QED  BY <1>1, <1>2, <1>3
            DEF Init, IInv, TypeOK, Status, EmptyMeansRewound, RetainedAreReal

\* Emitting an event keeps the invariant.
LEMMA EmitIInv == ASSUME IInv, NEW e \in Event, Emit(e) PROVE IInv'
  <1>1. CASE HasCapacity(queue) /\ queue' = Push(queue, e) /\ status' = "OK"
    <2>1. queue' \in Ring(Event) /\ Contents(queue)' = Append(Contents(queue), e)
      <3>1. Contents(queue)' = Contents(queue')
        BY DEF Contents, Oldest
      <3>. QED  BY <3>1, <1>1, PushAppends DEF IInv, TypeOK
    <2>2. queue'.count # 0
      BY <1>1, QueueCapacityAssumption DEF Push, IInv, TypeOK, Ring
    <2>3. Contents(queue)' \in Seq(Event)
      BY <2>1, AppendProperties DEF IInv, RetainedAreReal
    <2>. QED  BY <1>1, <2>1, <2>2, <2>3
              DEF IInv, TypeOK, Status, Emit, EmptyMeansRewound, RetainedAreReal
  <1>2. CASE UNCHANGED queue /\ status' = "RESOURCE_EXHAUSTED"
    BY <1>2 DEF IInv, TypeOK, Status, Emit, EmptyMeansRewound,
                RetainedAreReal, Contents, Oldest
  <1>. QED  BY <1>1, <1>2 DEF Emit

\* What a poll that passes its checks does to the sequence of events.
LEMMA PollTakesPrefix ==
  ASSUME IInv, NEW room \in Nat
  PROVE  LET n == CopyCount(queue, room)
             q == IF room = 0 THEN queue ELSE Drain(queue, n)
             held == Contents(queue)
         IN  /\ n = IF room <= Len(held) THEN room ELSE Len(held)
             /\ q \in Ring(Event)
             /\ q.count = 0 => q.head = 0
             /\ Oldest(queue, n) = SubSeq(held, 1, n)
             /\ Contents(q) = SubSeq(held, n + 1, Len(held))
  <1>. DEFINE n == CopyCount(queue, room)
              q == IF room = 0 THEN queue ELSE Drain(queue, n)
              held == Contents(queue)
  <1>1. queue \in Ring(Event) /\ queue.count \in 0 .. QueueCapacity /\ queue.count \in Nat
    BY QueueCapacityAssumption DEF IInv, TypeOK, Ring
  <1>2. held \in Seq(Event) /\ Len(held) = queue.count
    BY <1>1, ContentsType DEF IInv, RetainedAreReal, Contents
  <1>3. n \in 0 .. queue.count /\ n = IF room <= queue.count THEN room ELSE queue.count
    BY <1>1 DEF CopyCount
  <1>. HIDE DEF n
  <1>4. /\ Drain(queue, n) \in Ring(Event)
        /\ Oldest(queue, n) = SubSeq(held, 1, n)
        /\ Contents(Drain(queue, n)) = SubSeq(held, n + 1, queue.count)
    BY <1>1, <1>3, DrainDrops
  <1>5. Drain(queue, n).count = 0 => Drain(queue, n).head = 0
    BY <1>1, <1>3 DEF Drain
  <1>6. CASE room = 0
    <2>1. n = 0 /\ q = queue
      BY <1>3, <1>1, <1>6
    <2>2. SubSeq(held, 1, Len(held)) = held
      BY <1>2, SubSeqFull
    <2>. QED  BY <1>1, <1>2, <1>3, <1>4, <2>1, <2>2 DEF IInv, EmptyMeansRewound, n
  <1>7. CASE room # 0
    BY <1>2, <1>3, <1>4, <1>5, <1>7 DEF n
  <1>. QED  BY <1>6, <1>7

\* Polling keeps the invariant.
LEMMA PollIInv ==
  ASSUME IInv, NEW room \in Nat, NEW layout_ok \in BOOLEAN,
         Poll(room, layout_ok)
  PROVE  IInv'
  <1>. DEFINE n == CopyCount(queue, room)
              q == IF room = 0 THEN queue ELSE Drain(queue, n)
  <1>1. CASE UNCHANGED queue /\ batch' = << >> /\ status' = "INVALID_ARGUMENT"
    BY <1>1 DEF IInv, TypeOK, Status, EmptyMeansRewound, RetainedAreReal,
                Contents, Oldest
  <1>2. CASE batch' = Oldest(queue, n) /\ queue' = q /\ status' = "OK"
    <2>1. /\ n = IF room <= Len(Contents(queue)) THEN room ELSE Len(Contents(queue))
          /\ q \in Ring(Event)
          /\ q.count = 0 => q.head = 0
          /\ Oldest(queue, n) = SubSeq(Contents(queue), 1, n)
          /\ Contents(q) = SubSeq(Contents(queue), n + 1, Len(Contents(queue)))
      BY PollTakesPrefix
    <2>. HIDE DEF n, q
    <2>2. /\ Contents(queue) \in Seq(Event)
          /\ \A i \in 1 .. Len(Contents(queue)) : Contents(queue)[i] \in Event
      BY ElementOfSeq DEF IInv, RetainedAreReal
    <2>3. n \in Nat /\ n <= Len(Contents(queue)) /\ Len(Contents(queue)) \in Nat
      BY <2>1, <2>2
    <2>4. SubSeq(Contents(queue), 1, n) \in Seq(Event)
      BY <2>2, <2>3, SubSeqProperties
    <2>5. SubSeq(Contents(queue), n + 1, Len(Contents(queue))) \in Seq(Event)
      BY <2>2, <2>3, SubSeqProperties
    <2>6. Contents(queue)' = Contents(queue')
      BY DEF Contents, Oldest
    <2>. QED  BY <1>2, <2>1, <2>4, <2>5, <2>6
              DEF IInv, TypeOK, Status, EmptyMeansRewound, RetainedAreReal
  <1>. QED  BY <1>1, <1>2 DEF Poll

\* Every step keeps the invariant.
LEMMA StepIInv == IInv /\ [Next]_vars => IInv'
  <1>. SUFFICES ASSUME IInv, [Next]_vars PROVE IInv'
    OBVIOUS
  <1>1. CASE UNCHANGED vars
    BY <1>1 DEF vars, IInv, TypeOK, EmptyMeansRewound, RetainedAreReal,
                Contents, Oldest
  <1>2. ASSUME NEW e \in Event, Emit(e) PROVE IInv'
    BY <1>2, EmitIInv
  <1>3. ASSUME NEW room \in 0 .. MaxRoom, NEW layout_ok \in BOOLEAN,
               Poll(room, layout_ok)
        PROVE  IInv'
    BY <1>3, PollIInv, MaxRoomAssumption
  <1>. QED  BY <1>1, <1>2, <1>3 DEF Next

\* The invariant holds of every behavior.
LEMMA Invariance == Spec => []IInv
  BY InitIInv, StepIInv, PTL DEF Spec

(***************************************************************************)
(* The queue and what it hands out always have the shape the code relies   *)
(* on, for every capacity: head names a slot, count is at most the         *)
(* capacity, and a poll hands out real events only                         *)
(* (solana_delivery_events.c:27-137).                                      *)
(***************************************************************************)
THEOREM QueueTypeCorrect == Spec => []TypeOK
  BY Invariance, PTL DEF IInv

(***************************************************************************)
(* A drained queue is always rewound to slot 0                             *)
(* (solana_delivery_events.c:130-132), for every capacity.                 *)
(***************************************************************************)
THEOREM QueueRewinds == Spec => []EmptyMeansRewound
  BY Invariance, PTL DEF IInv

(***************************************************************************)
(* The slots in use always hold events that a push stored there, never one *)
(* that calloc left blank (solana_delivery_events.c:27-51 and :99-132),    *)
(* for every capacity and wherever the ring wraps around.                  *)
(***************************************************************************)
THEOREM QueueHoldsEvents == Spec => []RetainedAreReal
  BY Invariance, PTL DEF IInv

----------------------------------------------------------------------------
LEMMA ChannelInit == Init => Channel!Init
  BY DEF Init, Channel!Init, EmptyRing, Contents, Oldest

\* Every step of the ring is a step of the channel, or leaves it alone.
LEMMA ChannelStep == IInv /\ [Next]_vars => [Channel!Next]_(Channel!vars)
  <1>. SUFFICES ASSUME IInv, [Next]_vars PROVE [Channel!Next]_(Channel!vars)
    OBVIOUS
  <1>. DEFINE held == Contents(queue)
  <1>1. held \in Seq(Event) /\ Len(held) = queue.count /\ queue \in Ring(Event)
    BY ContentsType DEF IInv, TypeOK, RetainedAreReal, Ring, Contents
  <1>2. Contents(queue)' = Contents(queue')
    BY DEF Contents, Oldest
  <1>3. CASE UNCHANGED vars
    BY <1>3 DEF vars, Channel!vars, Contents, Oldest
  <1>4. ASSUME NEW e \in Event, Emit(e) PROVE Channel!Next
    <2>1. CASE HasCapacity(queue) /\ queue' = Push(queue, e)
      <3>1. Contents(queue') = Append(held, e)
        BY <2>1, <1>1, PushAppends
      <3>2. Len(held) < QueueCapacity
        BY <2>1, <1>1 DEF HasCapacity
      <3>3. Channel!Send(e)
        BY <3>1, <3>2, <1>2, <1>4 DEF Emit, Channel!Send
      <3>. QED  BY <3>3 DEF Channel!Next
    <2>2. CASE ~HasCapacity(queue) /\ UNCHANGED queue
      <3>1. Len(held) = QueueCapacity
        BY <2>2, <1>1, QueueCapacityAssumption DEF HasCapacity, Ring
      <3>2. Channel!Refuse
        BY <2>2, <3>1, <1>2, <1>4 DEF Emit, Channel!Refuse
      <3>. QED  BY <3>2 DEF Channel!Next
    <2>. QED  BY <2>1, <2>2, <1>4 DEF Emit
  <1>5. ASSUME NEW room \in 0 .. MaxRoom, NEW layout_ok \in BOOLEAN,
               Poll(room, layout_ok)
        PROVE  Channel!Next
    <2>. DEFINE n == CopyCount(queue, room)
                q == IF room = 0 THEN queue ELSE Drain(queue, n)
    <2>0. room \in Nat
      BY MaxRoomAssumption
    <2>1. CASE UNCHANGED queue /\ batch' = << >>
      <3>1. /\ Channel!Lesser(0, Len(held)) = 0
            /\ SubSeq(held, 1, 0) = << >>
            /\ SubSeq(held, 0 + 1, Len(held)) = held
        BY <1>1, SubSeqEmpty, SubSeqFull DEF Channel!Lesser
      <3>2. Channel!Receive(0)
        BY <2>1, <3>1, <1>2 DEF Channel!Receive
      <3>. QED  BY <3>2, MaxRoomAssumption DEF Channel!Next
    <2>2. CASE batch' = Oldest(queue, n) /\ queue' = q
      <3>1. /\ n = IF room <= Len(held) THEN room ELSE Len(held)
            /\ Oldest(queue, n) = SubSeq(held, 1, n)
            /\ Contents(q) = SubSeq(held, n + 1, Len(held))
        BY PollTakesPrefix, <2>0
      <3>2. Channel!Receive(room)
        <4>. HIDE DEF n, q
        <4>. QED  BY <2>2, <3>1, <1>2 DEF Channel!Receive, Channel!Lesser
      <3>. QED  BY <3>2 DEF Channel!Next
    <2>. QED  BY <2>1, <2>2, <1>5 DEF Poll
  <1>. QED  BY <1>3, <1>4, <1>5 DEF Next

(***************************************************************************)
(* The ring of solana_delivery_events.c implements the bounded first-in    *)
(* first-out channel for every capacity: no event accepted by a push is    *)
(* lost, repeated, reordered or overwritten before a poll hands it out.    *)
(***************************************************************************)
THEOREM QueueImplementsChannel == Spec => ImplementsChannel
  <1>1. Init => Channel!Init
    BY ChannelInit
  <1>2. IInv /\ [Next]_vars => [Channel!Next]_(Channel!vars)
    BY ChannelStep
  <1>. QED  BY <1>1, <1>2, Invariance, PTL DEF Spec, ImplementsChannel, Channel!Spec
=============================================================================
