-------------------------- MODULE IngressReceiver --------------------------
(***************************************************************************)
(* solana_ingress_run_local (solana_ingress.c): a loop that receives       *)
(* datagrams on a port of its own and hands the decoded ones to a callback *)
(* until it is asked to stop.                                              *)
(*                                                                         *)
(* Several threads of one process may each run a receiver; they share the  *)
(* process's descriptor table, where a number closed by one is given to    *)
(* the next that opens a socket.  Every system call and every callback is  *)
(* a step, since the kernel, the senders and the other threads run in      *)
(* between; what the code does from one to the next belongs to the step    *)
(* before.  Any system call may fail.  errno is a variable of the thread.  *)
(*                                                                         *)
(* The kernel is modelled as the code uses it: close frees the number      *)
(* whatever it returns (Linux), a datagram sent to a port that nobody      *)
(* listens on, or to a full queue, is lost, and recvfrom on an empty queue *)
(* waits unless the socket is non-blocking.                                *)
(***************************************************************************)
EXTENDS Naturals, Sequences

CONSTANTS
  NULL,
  Receivers,    \* the threads that run a receiver, each on its own port
  Fds,          \* the numbers of the descriptor table
  Datagrams,    \* what is sent: records [size, side, body]
  Errnos,       \* the values a failing system call leaves in errno
  QueueLimit,   \* the datagrams a socket can hold
  MaxSequence   \* stands for UINT64_MAX

\* Macros of ingress.h.
WIRE_SIZE == 33
SIDE_SELL == 1

ASSUME ReceiverAssumption ==
  /\ NULL \notin Receivers \union Fds \union Errnos
  /\ NULL \notin {"EAGAIN", "EINVAL", "0", "-1"}
  /\ Errnos \intersect {"EAGAIN", "EINVAL"} = {}
  /\ QueueLimit \in Nat \ {0}
  /\ MaxSequence \in Nat \ {0}
  /\ \A d \in Datagrams : d.size \in Nat /\ d.side \in Nat

VARIABLES
  sockets,   \* the kernel's descriptor table
  local,     \* the locals of each receiver, and what it returned
  errno,     \* of each thread
  keep,      \* what should_continue of each receiver would say
  cause      \* history: the errno of the call that failed the run, or NULL

vars == <<sockets, local, errno, keep, cause>>

----------------------------------------------------------------------------
Closed == [open |-> FALSE, nonblocking |-> FALSE, port |-> NULL,
           queue |-> << >>]

NewSocket == [Closed EXCEPT !.open = TRUE]

\* result is 0 or -1 for a run that returned, NULL before.
NoRun == [point |-> "idle", sockfd |-> NULL, saved_errno |-> NULL,
          sequence |-> 0, event |-> NULL, result |-> NULL]

SetupPoints == {"setsockopt", "getfl", "setfl", "bind"}
LoopPoints  == {"poll", "recv", "event"}
OpenPoints  == SetupPoints \union LoopPoints \union {"abort", "shutdown"}

EventOf(d, id) == [body |-> d.body, side |-> d.side,
                   ingress_sequence_id |-> id]
IngressEvents == {EventOf(d, id) : d \in Datagrams, id \in 0 .. MaxSequence}

Errno == Errnos \union {"EAGAIN", "EINVAL", NULL}

SocketType == [open : BOOLEAN, nonblocking : BOOLEAN,
               port : Receivers \union {NULL}, queue : Seq(Datagrams)]

LocalType ==
  [point : {"idle", "socket"} \union OpenPoints,
   sockfd : Fds \union {NULL}, saved_errno : Errno,
   sequence : 0 .. MaxSequence, event : IngressEvents \union {NULL},
   result : {"0", "-1", NULL}]

TypeOK ==
  /\ sockets \in [Fds -> SocketType]
  /\ \A fd \in Fds :
       /\ Len(sockets[fd].queue) <= QueueLimit
       /\ ~sockets[fd].open => sockets[fd] = Closed
  /\ local \in [Receivers -> LocalType]
  /\ errno \in [Receivers -> Errno]
  /\ keep \in [Receivers -> BOOLEAN]
  /\ cause \in [Receivers -> Errno]

----------------------------------------------------------------------------
At(r, point) == local[r].point = point

GoTo(r, point) == local' = [local EXCEPT ![r].point = point]

Return(r, value) ==
  local' = [local EXCEPT ![r] = [NoRun EXCEPT !.result = value]]

\* A call of receiver r failed with error, and the run fails because of it.
SetErrno(r, error) ==
  /\ errno' = [errno EXCEPT ![r] = error]
  /\ cause' = [cause EXCEPT ![r] = error]

\* The callbacks are there or not; the caller wants the run to go on.
Call(r, has_callbacks) ==
  /\ At(r, "idle")
  /\ IF ~has_callbacks
     THEN /\ SetErrno(r, "EINVAL")
          /\ Return(r, "-1")
          /\ UNCHANGED keep
     ELSE /\ local' = [local EXCEPT ![r] = [NoRun EXCEPT !.point = "socket"]]
          /\ cause' = [cause EXCEPT ![r] = NULL]
          /\ keep' = [keep EXCEPT ![r] = TRUE]
          /\ UNCHANGED errno
  /\ UNCHANGED sockets

Socket(r) ==
  /\ At(r, "socket")
  /\ \/ /\ \E error \in Errnos : SetErrno(r, error)
        /\ Return(r, "-1")
        /\ UNCHANGED sockets
     \/ \E fd \in Fds :
          /\ ~sockets[fd].open
          /\ sockets' = [sockets EXCEPT ![fd] = NewSocket]
          /\ local' = [local EXCEPT ![r].point = "setsockopt",
                                    ![r].sockfd = fd]
          /\ UNCHANGED <<errno, cause>>
  /\ UNCHANGED keep

\* A call that fails with the socket open: errno is saved, close follows.
FailOpen(r) ==
  /\ \E error \in Errnos :
       /\ SetErrno(r, error)
       /\ local' = [local EXCEPT ![r].point = "abort",
                                 ![r].saved_errno = error]
  /\ UNCHANGED <<sockets, keep>>

\* One set-up call, which leaves the socket as given.
Configure(r, point, socket, next) ==
  /\ At(r, point)
  /\ \/ FailOpen(r)
     \/ /\ sockets' = [sockets EXCEPT ![local[r].sockfd] = socket]
        /\ GoTo(r, next)
        /\ UNCHANGED <<errno, keep, cause>>

SocketOf(r) == sockets[local[r].sockfd]

Setsockopt(r) == Configure(r, "setsockopt", SocketOf(r), "getfl")

Getfl(r) == Configure(r, "getfl", SocketOf(r), "setfl")

FaultySetfl(r) == Configure(r, "setfl", SocketOf(r), "bind")
Setfl(r) ==
  Configure(r, "setfl", [SocketOf(r) EXCEPT !.nonblocking = TRUE], "bind")

Bind(r) == Configure(r, "bind", [SocketOf(r) EXCEPT !.port = r], "poll")

Poll(r) ==
  /\ At(r, "poll")
  /\ GoTo(r, IF keep[r] THEN "recv" ELSE "shutdown")
  /\ UNCHANGED <<sockets, errno, keep, cause>>

\* solana_ingress_decode.
Decodes(d) == d.size = WIRE_SIZE /\ d.side <= SIDE_SELL

\* ++sequence, in 64 bits.
FaultyNextSequence(n) == n + 1
NextSequence(n) == IF n = MaxSequence THEN 0 ELSE n + 1

Queue(r) == SocketOf(r).queue

Dequeue(r) ==
  sockets' = [sockets EXCEPT ![local[r].sockfd].queue = Tail(@)]

\* What the loop does with a datagram d: an empty one is passed over, any
\* other takes a number, and goes to the callback if it can be decoded.
FaultyAccept(r, d) ==
  IF d.size # 0 /\ Decodes(d)
  THEN LET id == NextSequence(local[r].sequence) IN
       local' = [local EXCEPT ![r].sequence = id,
                              ![r].point = "event",
                              ![r].event = EventOf(d, id)]
  ELSE GoTo(r, "poll")
Accept(r, d) ==
  IF d.size = 0 THEN GoTo(r, "poll")
  ELSE LET id == NextSequence(local[r].sequence) IN
       IF Decodes(d)
       THEN local' = [local EXCEPT ![r].sequence = id,
                                   ![r].point = "event",
                                   ![r].event = EventOf(d, id)]
       ELSE local' = [local EXCEPT ![r].sequence = id, ![r].point = "poll"]

\* recvfrom has a datagram.
FaultyReceive(r) ==
  /\ At(r, "recv")
  /\ Queue(r) # << >>
  /\ IF Decodes(Head(Queue(r))) THEN Dequeue(r) ELSE UNCHANGED sockets
  /\ Accept(r, Head(Queue(r)))
  /\ UNCHANGED <<errno, keep, cause>>
Receive(r) ==
  /\ At(r, "recv")
  /\ Queue(r) # << >>
  /\ Dequeue(r)
  /\ Accept(r, Head(Queue(r)))
  /\ UNCHANGED <<errno, keep, cause>>

\* recvfrom has none and does not wait.
ReceiveNothing(r) ==
  /\ At(r, "recv")
  /\ Queue(r) = << >> /\ SocketOf(r).nonblocking
  /\ errno' = [errno EXCEPT ![r] = "EAGAIN"]
  /\ GoTo(r, "poll")
  /\ UNCHANGED <<sockets, keep, cause>>

ReceiveFails(r) == At(r, "recv") /\ FailOpen(r)

\* on_event returns.
OnEvent(r) ==
  /\ At(r, "event")
  /\ local' = [local EXCEPT ![r].point = "poll", ![r].event = NULL]
  /\ UNCHANGED <<sockets, errno, keep, cause>>

Close(r) == sockets' = [sockets EXCEPT ![local[r].sockfd] = Closed]

\* close_preserving_errno: close may have left another value.
FaultyRestored(saved, left) == left
Restored(saved, left) == saved

Abort(r) ==
  /\ At(r, "abort")
  /\ Close(r)
  /\ \E left \in Errnos \union {errno[r]} :
       errno' = [errno EXCEPT ![r] = Restored(local[r].saved_errno, left)]
  /\ Return(r, "-1")
  /\ UNCHANGED <<keep, cause>>

\* The status of the last close is the status of the run.
FaultyShutdown(r) ==
  /\ At(r, "shutdown")
  /\ Close(r)
  /\ \/ Return(r, "0") /\ UNCHANGED <<errno, cause>>
     \/ UNCHANGED <<local, errno, cause>>
  /\ UNCHANGED keep
Shutdown(r) ==
  /\ At(r, "shutdown")
  /\ Close(r)
  /\ \/ Return(r, "0") /\ UNCHANGED <<errno, cause>>
     \/ Return(r, "-1") /\ \E error \in Errnos : SetErrno(r, error)
  /\ UNCHANGED keep

----------------------------------------------------------------------------
(* The environment: senders, and whoever asks a receiver to stop. *)

Stop(r) ==
  /\ ~At(r, "idle") /\ keep[r]
  /\ keep' = [keep EXCEPT ![r] = FALSE]
  /\ UNCHANGED <<sockets, local, errno, cause>>

Send(r, d) ==
  \E fd \in Fds :
    /\ sockets[fd].port = r /\ Len(sockets[fd].queue) < QueueLimit
    /\ sockets' = [sockets EXCEPT ![fd].queue = Append(@, d)]
    /\ UNCHANGED <<local, errno, keep, cause>>

----------------------------------------------------------------------------
Init ==
  /\ sockets = [fd \in Fds |-> Closed]
  /\ local = [r \in Receivers |-> NoRun]
  /\ errno = [r \in Receivers |-> NULL]
  /\ keep = [r \in Receivers |-> FALSE]
  /\ cause = [r \in Receivers |-> NULL]

Run(r) ==
  \/ Socket(r) \/ Setsockopt(r) \/ Getfl(r) \/ Setfl(r) \/ Bind(r)
  \/ Poll(r)
  \/ Receive(r) \/ ReceiveNothing(r)
  \/ OnEvent(r)
  \/ Abort(r) \/ Shutdown(r)

Next ==
  \E r \in Receivers :
    \/ \E has_callbacks \in BOOLEAN : Call(r, has_callbacks)
    \/ Run(r)
    \/ ReceiveFails(r)
    \/ Stop(r)
    \/ \E d \in Datagrams : Send(r, d)

Spec == Init /\ [][Next]_vars

\* Every thread is scheduled and its callbacks and system calls return, but
\* for a recvfrom that waits: that one need not fail to end the waiting.
\* Nobody has to send, and nobody has to stop sending.
FairSpec == Spec /\ \A r \in Receivers : WF_vars(Run(r))

----------------------------------------------------------------------------
(***************************************************************************)
(* A receiver holds exactly one open descriptor from socket to close and   *)
(* none outside, no two hold the same, and none is left open: on every     *)
(* failing path the socket is closed once, never twice, where a second     *)
(* close would hit the socket another thread was given meanwhile           *)
(* (solana_ingress.c:31-35, :80-112, :131-138).  In the loop the socket is *)
(* its own still: bound to its port, and non-blocking.                     *)
(***************************************************************************)
Holds(r) == local[r].point \in OpenPoints

DescriptorsAreOwned ==
  /\ {fd \in Fds : sockets[fd].open} =
       {local[r].sockfd : r \in {q \in Receivers : Holds(q)}}
  /\ \A q, r \in Receivers :
       Holds(q) /\ Holds(r) /\ local[q].sockfd = local[r].sockfd => q = r
  /\ \A r \in Receivers : local[r].point \in LoopPoints =>
       SocketOf(r).port = r /\ SocketOf(r).nonblocking

(***************************************************************************)
(* A run that fails returns -1 with the errno of the call that failed,     *)
(* although it calls close afterwards and met EAGAIN before; a run returns *)
(* 0 only if it was asked to stop and nothing failed (ingress.h:73-75).    *)
(***************************************************************************)
ResultTellsTheTruth ==
  \A r \in Receivers :
    /\ local[r].result = "-1" => cause[r] # NULL /\ errno[r] = cause[r]
    /\ local[r].result = "0" => cause[r] = NULL /\ ~keep[r]

(***************************************************************************)
(* A receiver that is asked to stop returns, however many datagrams keep   *)
(* arriving and also if none ever does (solana_ingress.c:117-137).         *)
(***************************************************************************)
StopIsObeyed ==
  \A r \in Receivers :
    (~At(r, "idle") /\ ~keep[r]) ~> At(r, "idle")
=============================================================================
