----------------------------- MODULE ArrayCopy -----------------------------
(***************************************************************************)
(* The two loops that copy between the library's arrays and strided ones   *)
(* of a caller, byte by byte: clone_array with the checks before and the   *)
(* normalisation after it (solana_delivery.c), and the loop of poll_events *)
(* (solana_delivery_events.c).                                             *)
(*                                                                         *)
(* The bytes of an array are numbered from its base.  A caller's array of  *)
(* count elements owns the bytes up to the end of its last element, as     *)
(* many as that is; an offset that wrapped around lands on another byte.   *)
(* target is the array written to: each of its bytes holds the number of   *)
(* the byte that was copied there, or what was there before.               *)
(***************************************************************************)
EXTENDS AbiLayout, FiniteSets

CONSTANTS
  SizeBytes,   \* the width of the struct_size field, first in its struct
  Queued       \* the largest number of events that can wait

ASSUME CopyAssumption ==
  SizeBytes \in 1 .. ElementSize /\ Queued \in Nat /\ Queued <= SIZE_MAX

VARIABLES
  call,         \* "clone" or "poll"
  count,        \* the elements of the caller's array
  stride,
  struct_size,  \* clone: of the caller's elements, each the same
  queued,       \* poll: the events that wait
  phase,
  index,        \* of the loop in progress
  target

arguments == <<call, count, stride, struct_size, queued>>
vars      == <<arguments, phase, index, target>>

----------------------------------------------------------------------------
\* What a byte of target can hold.
Byte(n) == <<"byte", n>>
Zero == <<"zero", 0>>
SizeOf == <<"sizeof", 0>>

\* memcpy of one element; its bytes may wrap around.
Places(to) == {Wrapped(to + k) : k \in 0 .. ElementSize - 1}
Distance(to, place) == Wrapped(place + (SIZE_MAX + 1) - to)

Memcpy(to, from) ==
  target' = [place \in DOMAIN target \union Places(to) |->
               IF place \in Places(to)
               THEN Byte(Wrapped(from + Distance(to, place)))
               ELSE target[place]]

Leave(outcome) == phase' = outcome /\ index' = 0 /\ UNCHANGED target

Enter(loop, array) == phase' = loop /\ index' = 0 /\ target' = array

\* install_topology up to the copy: the layout, then the elements one by one.
Validate ==
  /\ call = "clone" /\ phase = "start"
  /\ \E base_ok \in BOOLEAN :
       IF /\ ArrayLayoutIsValid(count, stride, base_ok)
          /\ count # 0 => ElementSizeIsValid(struct_size, stride)
       THEN Leave("allocate") ELSE Leave("refused")
  /\ UNCHANGED arguments

\* An empty array is not allocated; calloc may fail.
Allocate ==
  /\ phase = "allocate"
  /\ \/ count = 0 /\ Leave("done")
     \/ count # 0 /\ Leave("refused")
     \/ /\ count # 0 /\ CloneFits(count)
        /\ Enter("clone",
                 [b \in 0 .. Wrapped(count * ElementSize) - 1 |-> Zero])
  /\ UNCHANGED arguments

\* for each element: memcpy(copy + i * element_size, array_element(i)).
FaultyClone ==
  /\ phase = "clone"
  /\ IF index <= count
     THEN /\ Memcpy(Wrapped(index * ElementSize), ElementOffset(index, stride))
          /\ index' = index + 1
          /\ UNCHANGED phase
     ELSE Enter("normalize", target)
  /\ UNCHANGED arguments
Clone ==
  /\ phase = "clone"
  /\ IF index < count
     THEN /\ Memcpy(Wrapped(index * ElementSize), ElementOffset(index, stride))
          /\ index' = index + 1
          /\ UNCHANGED phase
     ELSE Enter("normalize", target)
  /\ UNCHANGED arguments

\* normalize_owned_struct_sizes: the field says sizeof from now on.
Normalize ==
  /\ phase = "normalize"
  /\ IF index < count
     THEN /\ target' = [b \in DOMAIN target |->
                          IF b - index * ElementSize \in 0 .. SizeBytes - 1
                          THEN SizeOf ELSE target[b]]
          /\ index' = index + 1
          /\ UNCHANGED phase
     ELSE Leave("done")
  /\ UNCHANGED arguments

\* The buffer of a poll holds what its caller left there.
PollBegins ==
  /\ call = "poll" /\ phase = "start"
  /\ \E base_ok \in BOOLEAN :
       IF count = 0 THEN Leave("done")
       ELSE IF PollBufferIsValid(count, stride, base_ok)
            THEN Enter("poll", << >>)
            ELSE Leave("refused")
  /\ UNCHANGED arguments

CopyCount == IF queued > count THEN count ELSE queued

\* for each event: memcpy(destination + index * stride, the event at head).
PollEvent ==
  /\ phase = "poll"
  /\ IF index < CopyCount
     THEN /\ Memcpy(Wrapped(index * stride), index * ElementSize)
          /\ index' = index + 1
          /\ UNCHANGED phase
     ELSE Leave("done")
  /\ UNCHANGED arguments

Init ==
  /\ call \in {"clone", "poll"}
  /\ count \in IF call = "clone" THEN Uint32 ELSE Size
  /\ stride \in Uint32
  /\ struct_size \in IF call = "clone" THEN Uint32 ELSE {0}
  /\ queued \in IF call = "poll" THEN 0 .. Queued ELSE {0}
  /\ phase = "start" /\ index = 0 /\ target = << >>

Next ==
  Validate \/ Allocate \/ Clone \/ Normalize \/ PollBegins \/ PollEvent

Spec == Init /\ [][Next]_vars

----------------------------------------------------------------------------
\* index is at most the bound of its loop, and target has only tags in it.
TypeOK ==
  /\ call \in {"clone", "poll"}
  /\ count \in Size /\ stride \in Uint32 /\ struct_size \in Uint32
  /\ queued \in 0 .. Queued
  /\ phase \in {"start", "allocate", "clone", "normalize", "poll", "done",
                "refused"}
  /\ index \in 0 .. IF call = "clone" THEN count ELSE CopyCount
  /\ DOMAIN target \subseteq Size
  /\ \A b \in DOMAIN target :
       target[b] \in {Byte(n) : n \in Size} \union {Zero, SizeOf}

(***************************************************************************)
(* The copy of an accepted array is exactly that: the block is as large as *)
(* its elements and every byte in it is written, byte k of element i comes *)
(* from byte i * stride + k of the caller's array, a number that did not   *)
(* wrap around, and the size field says the size of the copied struct,     *)
(* whatever larger size the caller's elements had                          *)
(* (solana_delivery.c:75-105, :483-507, :515-541).                         *)
(***************************************************************************)
CloneIsExact ==
  (call = "clone" /\ phase = "done") =>
    /\ DOMAIN target = 0 .. count * ElementSize - 1
    /\ \A i \in 0 .. count - 1, k \in 0 .. ElementSize - 1 :
         target[i * ElementSize + k] =
           IF k < SizeBytes THEN SizeOf ELSE Byte(i * stride + k)

(***************************************************************************)
(* A poll writes the n oldest events, each at the start of a slot of its   *)
(* own inside the caller's buffer of count slots, and not one byte besides *)
(* (solana_delivery_events.c:91-121).                                      *)
(***************************************************************************)
PollIsExact ==
  call = "poll" =>
    /\ \A b \in DOMAIN target : b < count * stride
    /\ phase = "done" /\ target # << >> =>
         /\ Cardinality(DOMAIN target) = CopyCount * ElementSize
         /\ \A i \in 0 .. CopyCount - 1, k \in 0 .. ElementSize - 1 :
              /\ i * stride + k \in DOMAIN target
              /\ target[i * stride + k] = Byte(i * ElementSize + k)
=============================================================================
