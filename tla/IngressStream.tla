--------------------------- MODULE IngressStream ---------------------------
(***************************************************************************)
(* What the callback of a receiver sees of the datagrams sent to it: the   *)
(* actions of IngressReceiver with the histories that this is stated in.   *)
(* Senders tag every datagram with a number in its body.                   *)
(***************************************************************************)
EXTENDS IngressReceiver

CONSTANT MaxSent   \* bound on the datagrams sent in all

\* Nobody sends as many datagrams as a 64-bit counter can count.
ASSUME MaxSentAssumption ==
  /\ MaxSent \in Nat /\ MaxSent <= MaxSequence
  /\ \A d \in Datagrams : d.body \in 1 .. MaxSent

ASSUME NoEventAssumption == NULL \notin IngressEvents

VARIABLES
  sent,       \* the number of datagrams sent
  taken,      \* the datagrams each run took off its queue, empty ones left out
  delivered   \* the events each run passed to its callback

stream_vars == <<sent, taken, delivered>>

StreamInit ==
  /\ Init
  /\ sent = 0
  /\ taken = [r \in Receivers |-> << >>]
  /\ delivered = [r \in Receivers |-> << >>]

CallStream(r) ==
  /\ \E has_callbacks \in BOOLEAN : Call(r, has_callbacks)
  /\ taken' = [taken EXCEPT ![r] = << >>]
  /\ delivered' = [delivered EXCEPT ![r] = << >>]
  /\ UNCHANGED sent

SendStream(r, d) ==
  /\ d.body = sent + 1
  /\ Send(r, d)
  /\ sent' = sent + 1
  /\ UNCHANGED <<taken, delivered>>

ReceiveStream(r) ==
  /\ Receive(r)
  /\ taken' = IF Head(Queue(r)).size = 0 THEN taken
              ELSE [taken EXCEPT ![r] = Append(@, Head(Queue(r)))]
  /\ UNCHANGED <<sent, delivered>>

OnEventStream(r) ==
  /\ OnEvent(r)
  /\ delivered' = [delivered EXCEPT ![r] = Append(@, local[r].event)]
  /\ UNCHANGED <<sent, taken>>

\* The steps that take, deliver and send nothing.
Unseen(r) ==
  \/ Socket(r) \/ Setsockopt(r) \/ Getfl(r) \/ Setfl(r) \/ Bind(r)
  \/ Poll(r) \/ ReceiveNothing(r)
  \/ Abort(r) \/ Shutdown(r)

RunStream(r) ==
  ReceiveStream(r) \/ OnEventStream(r) \/ (Unseen(r) /\ UNCHANGED stream_vars)

StreamNext ==
  \E r \in Receivers :
    \/ CallStream(r)
    \/ RunStream(r)
    \/ (ReceiveFails(r) \/ Stop(r)) /\ UNCHANGED stream_vars
    \/ \E d \in Datagrams : SendStream(r, d)

StreamSpec ==
  /\ StreamInit
  /\ [][StreamNext]_<<vars, stream_vars>>
  /\ \A r \in Receivers : WF_<<vars, stream_vars>>(RunStream(r))

----------------------------------------------------------------------------
\* events are those of the datagrams ds that decode, each with the place of
\* its datagram, none missing and in order.
Numbers(events, ds) ==
  /\ \A k \in DOMAIN events : \E i \in DOMAIN ds :
       Decodes(ds[i]) /\ events[k] = EventOf(ds[i], i)
  /\ \A i \in DOMAIN ds : Decodes(ds[i]) =>
       \E k \in DOMAIN events : events[k] = EventOf(ds[i], i)
  /\ \A j, k \in DOMAIN events : j < k =>
       events[j].ingress_sequence_id < events[k].ingress_sequence_id

InCallback(r) == IF local[r].event = NULL THEN << >> ELSE <<local[r].event>>

(***************************************************************************)
(* Each event carries the place of its datagram among the non-empty        *)
(* datagrams of the run, counted from 1; every datagram that decodes       *)
(* becomes one event and they come in the order of arrival.  So the gaps   *)
(* in the numbers are exactly the datagrams that did not decode, and the   *)
(* numbers never repeat or go back (solana_ingress.c:114-128).             *)
(***************************************************************************)
EventsAreNumbered ==
  \A r \in Receivers : Numbers(delivered[r] \o InCallback(r), taken[r])

Waits(r, n) == Holds(r) /\ \E i \in DOMAIN Queue(r) : Queue(r)[i].body = n

(***************************************************************************)
(* A datagram that waits in the queue is taken, whatever came before it,   *)
(* unless the run ends first: empty and malformed ones block nothing       *)
(* (solana_ingress.c:117-135).                                             *)
(***************************************************************************)
DatagramsAreTaken ==
  \A r \in Receivers, n \in 1 .. MaxSent :
    Waits(r, n) ~> (~Waits(r, n))
=============================================================================
