----------------------------- MODULE AbiLayout -----------------------------
(***************************************************************************)
(* The arithmetic by which the library finds its way in arrays that        *)
(* callers describe by base, count and stride (array_layout_is_valid,      *)
(* array_element and element_size_is_valid in solana_delivery.c; the       *)
(* buffer checks of poll_events).  count, stride and struct_size are       *)
(* uint32_t, sizes and offsets are size_t and wrap around; where size_t    *)
(* has 32 bits too, a product of the first two may not fit.                *)
(*                                                                         *)
(* Offsets are relative to the base, whose address the code only tests for *)
(* NULL and for alignment.                                                 *)
(***************************************************************************)
EXTENDS Naturals

CONSTANTS
  SIZE_MAX,     \* of size_t
  UINT32_MAX,
  ElementSize,  \* the size of the struct, through its last field
  Alignment     \* its alignment

\* The structs end with the last field of their first version, without
\* padding: sizeof and STRUCT_MIN_SIZE agree, and sizes are aligned.
ASSUME LayoutAssumption ==
  /\ SIZE_MAX \in Nat /\ UINT32_MAX \in Nat /\ UINT32_MAX <= SIZE_MAX
  /\ ElementSize \in Nat /\ ElementSize \in 1 .. UINT32_MAX
  /\ Alignment \in Nat \ {0}
  /\ ElementSize % Alignment = 0

Uint32 == 0 .. UINT32_MAX
Size == 0 .. SIZE_MAX

\* The result of an operation in size_t.
Wrapped(n) == n % (SIZE_MAX + 1)

FaultyArrayLayoutIsValid(count, stride, base_ok) ==
  \/ count = 0
  \/ /\ base_ok
     /\ stride >= ElementSize
     /\ stride % Alignment = 0
     /\ count - 1 <= SIZE_MAX \div stride
ArrayLayoutIsValid(count, stride, base_ok) ==
  \/ count = 0
  \/ /\ base_ok
     /\ stride >= ElementSize
     /\ stride % Alignment = 0
     /\ count - 1 <= (SIZE_MAX - ElementSize) \div stride

\* array_element.
ElementOffset(index, stride) == Wrapped(index * stride)

ElementSizeIsValid(struct_size, stride) ==
  struct_size >= ElementSize /\ struct_size <= stride

\* The tests of poll_events, for a capacity that is not 0.
FaultyPollBufferIsValid(capacity, stride, base_ok) ==
  /\ base_ok
  /\ stride >= ElementSize
  /\ stride % Alignment = 0
PollBufferIsValid(capacity, stride, base_ok) ==
  /\ base_ok
  /\ stride >= ElementSize
  /\ stride % Alignment = 0
  /\ capacity <= SIZE_MAX \div stride

\* The capacity test of clone_array.
CloneFits(count) == count <= SIZE_MAX \div ElementSize
=============================================================================
