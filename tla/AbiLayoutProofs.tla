-------------------------- MODULE AbiLayoutProofs --------------------------
(***************************************************************************)
(* For every width of size_t and every size of an element: the offsets the *)
(* code computes in an accepted array do not wrap around, and the loops    *)
(* that copy at these offsets (ArrayCopy) write exactly what they should.  *)
(***************************************************************************)
EXTENDS ArrayCopy, FiniteSetTheorems, TLAPS

\* What a bound by a quotient means for the product.
LEMMA QuotientBound ==
  ASSUME NEW n \in Nat, NEW d \in Nat \ {0}, NEW q \in Nat, q <= n \div d
  PROVE  q * d <= n
<1>1. n \div d \in Nat /\ d * (n \div d) <= n
  OBVIOUS
<1>2. q * d <= (n \div d) * d
  <2>1. PICK k \in Nat : n \div d = q + k
    <3>1. (n \div d) - q \in Nat /\ n \div d = q + ((n \div d) - q)
      BY <1>1
    <3> QED BY <3>1
  <2>2. (q + k) * d = q * d + k * d /\ k * d \in Nat /\ q * d \in Nat
    OBVIOUS
  <2> QED BY <2>1, <2>2
<1>3. (n \div d) * d = d * (n \div d)
  BY <1>1
<1> QED BY <1>1, <1>2, <1>3

\* A smaller factor gives a smaller product.
LEMMA ProductMonotone ==
  ASSUME NEW i \in Nat, NEW j \in Nat, i <= j, NEW d \in Nat
  PROVE  i * d <= j * d
<1>1. PICK k \in Nat : j = i + k
  <2>1. j - i \in Nat /\ j = i + (j - i)
    OBVIOUS
  <2> QED BY <2>1
<1>2. (i + k) * d = i * d + k * d /\ k * d \in Nat /\ i * d \in Nat
  OBVIOUS
<1> QED BY <1>1, <1>2

\* A number that fits is not changed by the width of size_t.
LEMMA FittingIsExact ==
  ASSUME NEW n \in Nat, n <= SIZE_MAX
  PROVE  Wrapped(n) = n
  BY LayoutAssumption DEF Wrapped

(***************************************************************************)
(* Every element of an array that array_layout_is_valid accepts lies at    *)
(* its exact offset and ends inside the range of size_t, on every          *)
(* platform: neither the address of an element nor the copy of its bytes   *)
(* wraps around (solana_delivery.c:75-105).                                *)
(***************************************************************************)
THEOREM AcceptedElementsAreExact ==
  ASSUME NEW total \in Uint32, NEW step \in Uint32, NEW base_ok \in BOOLEAN,
         ArrayLayoutIsValid(total, step, base_ok),
         NEW i \in Nat, i < total
  PROVE  /\ ElementOffset(i, step) = i * step
         /\ i * step + ElementSize <= SIZE_MAX
<1> USE LayoutAssumption
<1>1. total \in Nat /\ step \in Nat /\ total # 0
  BY DEF Uint32
<1>2. /\ step >= ElementSize /\ step # 0
      /\ total - 1 <= (SIZE_MAX - ElementSize) \div step
  BY <1>1 DEF ArrayLayoutIsValid
<1>3. SIZE_MAX - ElementSize \in Nat /\ total - 1 \in Nat
  BY <1>1
<1>4. (total - 1) * step <= SIZE_MAX - ElementSize
  BY <1>1, <1>2, <1>3, QuotientBound
<1>5. i * step <= (total - 1) * step
  BY <1>1, <1>3, ProductMonotone
<1>6. i * step \in Nat /\ (total - 1) * step \in Nat
  BY <1>1, <1>3
<1>7. i * step + ElementSize <= SIZE_MAX
  BY <1>4, <1>5, <1>6
<1>8. i * step <= SIZE_MAX
  BY <1>6, <1>7
<1> QED BY <1>6, <1>7, <1>8, FittingIsExact DEF ElementOffset

(***************************************************************************)
(* Two elements of an accepted array have no byte in common: writing the   *)
(* one never changes the other (solana_delivery.c:82-105).                 *)
(***************************************************************************)
THEOREM AcceptedElementsAreDisjoint ==
  ASSUME NEW total \in Uint32, NEW step \in Uint32, NEW base_ok \in BOOLEAN,
         ArrayLayoutIsValid(total, step, base_ok),
         NEW i \in Nat, NEW j \in Nat, i < j, j < total
  PROVE  ElementOffset(i, step) + ElementSize <= ElementOffset(j, step)
<1> USE LayoutAssumption
<1>1. total \in Nat /\ step \in Nat /\ total # 0
  BY DEF Uint32
<1>2. step >= ElementSize
  BY <1>1 DEF ArrayLayoutIsValid
<1>3. i + 1 <= j /\ i + 1 \in Nat /\ i < total
  BY <1>1
<1>4. (i + 1) * step <= j * step
  BY <1>1, <1>3, ProductMonotone
<1>5. (i + 1) * step = i * step + step /\ i * step \in Nat
  BY <1>1
<1>6. j * step \in Nat
  BY <1>1
<1>7. i * step + ElementSize <= j * step
  BY <1>1, <1>2, <1>4, <1>5, <1>6
<1>8. ElementOffset(i, step) = i * step
  BY <1>3, AcceptedElementsAreExact
<1>9. ElementOffset(j, step) = j * step
  BY AcceptedElementsAreExact
<1> QED BY <1>7, <1>8, <1>9

(***************************************************************************)
(* Every event a poll with accepted arguments writes lies at its exact     *)
(* offset and ends inside the capacity * stride bytes of the caller's      *)
(* buffer (solana_delivery_events.c:91-121).                               *)
(***************************************************************************)
THEOREM PolledEventsAreInside ==
  ASSUME NEW capacity \in Size, NEW step \in Uint32, NEW base_ok \in BOOLEAN,
         PollBufferIsValid(capacity, step, base_ok),
         NEW i \in Nat, i < capacity
  PROVE  /\ Wrapped(i * step) = i * step
         /\ i * step + ElementSize <= capacity * step
         /\ capacity * step <= SIZE_MAX
<1> USE LayoutAssumption
<1>1. capacity \in Nat /\ step \in Nat
  BY DEF Uint32, Size
<1>2. /\ step >= ElementSize /\ step # 0
      /\ capacity <= SIZE_MAX \div step
  BY <1>1 DEF PollBufferIsValid
<1>3. capacity * step <= SIZE_MAX
  BY <1>1, <1>2, QuotientBound
<1>4. (i + 1) * step <= capacity * step
  BY <1>1, ProductMonotone
<1>5. (i + 1) * step = i * step + step /\ i * step \in Nat
  BY <1>1
<1>6. capacity * step \in Nat
  BY <1>1
<1>7. i * step + ElementSize <= capacity * step
  BY <1>1, <1>2, <1>4, <1>5, <1>6
<1>8. i * step <= SIZE_MAX
  BY <1>3, <1>5, <1>6, <1>7
<1> QED BY <1>3, <1>5, <1>7, <1>8, FittingIsExact

(***************************************************************************)
(* The overflow test of clone_array never refuses an array whose layout    *)
(* was accepted: what the caller can address, the copy can be sized for    *)
(* (solana_delivery.c:487-489).                                            *)
(***************************************************************************)
THEOREM AcceptedArraysCanBeCloned ==
  ASSUME NEW total \in Uint32, NEW step \in Uint32, NEW base_ok \in BOOLEAN,
         ArrayLayoutIsValid(total, step, base_ok)
  PROVE  CloneFits(total)
<1> USE LayoutAssumption
<1>1. total \in Nat /\ step \in Nat
  BY DEF Uint32
<1>2. SIZE_MAX \div ElementSize \in Nat
  OBVIOUS
<1>3. CASE total = 0
  BY <1>2, <1>3 DEF CloneFits
<1>4. CASE total # 0
  <2>1. total - 1 \in Nat /\ total - 1 < total
    BY <1>1, <1>4
  <2>2. (total - 1) * step + ElementSize <= SIZE_MAX
    BY <2>1, AcceptedElementsAreExact
  <2>3. step >= ElementSize
    BY <1>4 DEF ArrayLayoutIsValid
  <2>4. ElementSize * (total - 1) <= step * (total - 1)
    BY <1>1, <2>1, <2>3, ProductMonotone
  <2>5. /\ step * (total - 1) = (total - 1) * step
        /\ ElementSize * (total - 1) + ElementSize = total * ElementSize
        /\ ElementSize * (total - 1) \in Nat
        /\ (total - 1) * step \in Nat
    BY <1>1, <2>1
  <2>6. total * ElementSize <= SIZE_MAX
    BY <2>2, <2>4, <2>5
  <2>7. ~(total > SIZE_MAX \div ElementSize)
    <3>1. SUFFICES ASSUME (SIZE_MAX \div ElementSize) + 1 <= total PROVE FALSE
      BY <1>1, <1>2
    <3>2. ((SIZE_MAX \div ElementSize) + 1) * ElementSize <= total * ElementSize
      BY <1>1, <1>2, <3>1, ProductMonotone
    <3>3. SIZE_MAX < ((SIZE_MAX \div ElementSize) + 1) * ElementSize
      <4> DEFINE q == SIZE_MAX \div ElementSize
      <4>1. q \in Nat /\ SIZE_MAX < ElementSize * q + ElementSize
        OBVIOUS
      <4>2. (q + 1) * ElementSize = ElementSize * q + ElementSize
        BY <4>1
      <4> QED BY <4>1, <4>2
    <3> QED BY <1>1, <1>2, <2>6, <3>2, <3>3
  <2> QED BY <1>1, <1>2, <2>7 DEF CloneFits
<1> QED BY <1>3, <1>4

----------------------------------------------------------------------------
(***************************************************************************)
(* The copying loops.  What one memcpy writes comes first, then types,     *)
(* then the contents of the array being written.                           *)
(***************************************************************************)

\* A sum that is one turn too large comes back.
LEMMA OneTurnIsLost ==
  ASSUME NEW m \in Nat \ {0}, NEW a \in Nat, a < m
  PROVE  (a + m) % m = a
<1>1. PICK q \in Nat, r \in 0 .. m - 1 :
        q = (a + m) \div m /\ r = (a + m) % m /\ q * m + r = a + m
  <2>1. PICK n \in Nat : n = a + m
    OBVIOUS
  <2>2. /\ n \div m \in Nat /\ n % m \in 0 .. m - 1
        /\ m * (n \div m) + (n % m) = n
    OBVIOUS
  <2>3. m * (n \div m) = (n \div m) * m
    BY <2>2
  <2> QED BY <2>1, <2>2, <2>3
<1>2. q = 0 => q * m = 0
  OBVIOUS
<1>3. q = 1 => q * m = m
  OBVIOUS
<1>4. ASSUME 2 <= q PROVE FALSE
  <2>1. 2 * m <= q * m
    BY <1>4, ProductMonotone
  <2>2. q * m \in Nat /\ 2 * m = m + m
    OBVIOUS
  <2> QED BY <1>1, <2>1, <2>2
<1> QED BY <1>1, <1>2, <1>3, <1>4

\* A place between the starts of one element and the next is that element's.
LEMMA OneElementEach ==
  ASSUME NEW d \in Nat \ {0}, NEW e \in Nat, NEW f \in Nat, NEW k \in 0 .. d - 1,
         e * d <= f * d + k, f * d + k < e * d + d
  PROVE  e = f
<1>1. e * d \in Nat /\ f * d \in Nat
  OBVIOUS
<1>2. ASSUME e < f PROVE FALSE
  <2>1. (e + 1) * d <= f * d
    BY <1>2, ProductMonotone
  <2>2. (e + 1) * d = e * d + d
    OBVIOUS
  <2> QED BY <1>1, <2>1, <2>2
<1>3. ASSUME f < e PROVE FALSE
  <2>1. (f + 1) * d <= e * d
    BY <1>3, ProductMonotone
  <2>2. (f + 1) * d = f * d + d
    OBVIOUS
  <2> QED BY <1>1, <2>1, <2>2
<1> QED BY <1>2, <1>3

\* The places of a copy that does not wrap around, and their distances.
LEMMA PlacesAreExact ==
  ASSUME NEW to \in Nat, to + ElementSize <= SIZE_MAX + 1
  PROVE  /\ Places(to) = to .. to + ElementSize - 1
         /\ \A place \in to .. to + ElementSize - 1 :
              Distance(to, place) = place - to
<1> USE LayoutAssumption
<1>1. \A k \in 0 .. ElementSize - 1 : Wrapped(to + k) = to + k
  BY FittingIsExact
<1>2. Places(to) = to .. to + ElementSize - 1
  <2>1. ASSUME NEW place \in to .. to + ElementSize - 1
        PROVE  place \in Places(to)
    <3>1. place - to \in 0 .. ElementSize - 1 /\ place = to + (place - to)
      OBVIOUS
    <3> QED BY <1>1, <3>1 DEF Places
  <2>2. ASSUME NEW place \in Places(to)
        PROVE  place \in to .. to + ElementSize - 1
    <3>1. PICK k \in 0 .. ElementSize - 1 : place = Wrapped(to + k)
      BY DEF Places
    <3>2. place = to + k
      BY <1>1, <3>1
    <3>3. to + k \in to .. to + ElementSize - 1
      BY ElementSize \in Nat
    <3> QED BY <3>2, <3>3
  <2> QED BY <2>1, <2>2
<1>3. ASSUME NEW place \in to .. to + ElementSize - 1
      PROVE  Distance(to, place) = place - to
  <2>1. PICK a \in Nat : a = place - to /\ a < SIZE_MAX + 1
    OBVIOUS
  <2>2. place + (SIZE_MAX + 1) - to = a + (SIZE_MAX + 1)
    BY <2>1
  <2>3. (a + (SIZE_MAX + 1)) % (SIZE_MAX + 1) = a
    BY <2>1, OneTurnIsLost
  <2> QED BY <2>1, <2>2, <2>3 DEF Distance, Wrapped
<1> QED BY <1>2, <1>3

(***************************************************************************)
(* A copy whose ends both lie in the range of size_t writes its            *)
(* ElementSize bytes in order and no other.                                *)
(***************************************************************************)
LEMMA MemcpyIsExact ==
  ASSUME NEW to \in Nat, NEW from \in Nat,
         to + ElementSize <= SIZE_MAX + 1, from + ElementSize <= SIZE_MAX + 1,
         Memcpy(to, from)
  PROVE  /\ DOMAIN target' = DOMAIN target \union (to .. to + ElementSize - 1)
         /\ \A k \in 0 .. ElementSize - 1 : target'[to + k] = Byte(from + k)
         /\ \A b \in DOMAIN target :
              b \notin to .. to + ElementSize - 1 => target'[b] = target[b]
<1> USE LayoutAssumption
<1> DEFINE places == to .. to + ElementSize - 1
<1>1. Places(to) = places /\ \A place \in places : Distance(to, place) = place - to
  BY PlacesAreExact
<1>2. ASSUME NEW b \in places
      PROVE  Wrapped(from + Distance(to, b)) = from + (b - to)
  <2>1. Distance(to, b) = b - to
    BY <1>1
  <2>2. from + (b - to) \in Nat /\ from + (b - to) <= SIZE_MAX
    OBVIOUS
  <2> QED BY <2>1, <2>2, FittingIsExact
<1> HIDE DEF places
<1>3. target' = [place \in DOMAIN target \union places |->
                   IF place \in places
                   THEN Byte(Wrapped(from + Distance(to, place)))
                   ELSE target[place]]
  BY <1>1 DEF Memcpy
<1>4. /\ DOMAIN target' = DOMAIN target \union places
      /\ \A b \in places : target'[b] = Byte(Wrapped(from + Distance(to, b)))
      /\ \A b \in DOMAIN target : b \notin places => target'[b] = target[b]
  BY <1>3
<1>5. ASSUME NEW k \in 0 .. ElementSize - 1
      PROVE  target'[to + k] = Byte(from + k)
  <2>1. PICK b \in places : b = to + k
    BY DEF places
  <2>2. from + (b - to) = from + k
    BY <2>1
  <2> QED BY <1>2, <1>4, <2>1, <2>2
<1> QED BY <1>4, <1>5 DEF places

\* What the phase of a call says about the tests it has passed.
Passed ==
  /\ call = "clone" => count \in Uint32
  /\ phase \in {"allocate", "clone", "normalize"} =>
       call = "clone" /\ ArrayLayoutIsValid(count, stride, TRUE)
  /\ phase \in {"clone", "normalize"} => count # 0
  /\ phase = "poll" =>
       call = "poll" /\ count # 0 /\ PollBufferIsValid(count, stride, TRUE)
  /\ phase \notin {"clone", "normalize", "poll"} => index = 0
  /\ phase \in {"start", "allocate", "refused"} => target = << >>

\* The copy while its elements are written, and while they are normalised.
Block == DOMAIN target = 0 .. count * ElementSize - 1

Cloned ==
  \A e \in 0 .. count - 1, k \in 0 .. ElementSize - 1 :
    target[e * ElementSize + k] =
      IF e < index THEN Byte(e * stride + k) ELSE Zero

Normalized ==
  \A e \in 0 .. count - 1, k \in 0 .. ElementSize - 1 :
    target[e * ElementSize + k] =
      IF e < index /\ k < SizeBytes THEN SizeOf ELSE Byte(e * stride + k)

\* The caller's buffer after index events.
Counted ==
  /\ IsFiniteSet(DOMAIN target)
  /\ Cardinality(DOMAIN target) = index * ElementSize

Below == \A b \in DOMAIN target : b < index * stride

Polled ==
  \A i \in 0 .. index - 1, k \in 0 .. ElementSize - 1 :
    /\ i * stride + k \in DOMAIN target
    /\ target[i * stride + k] = Byte(i * ElementSize + k)

Loops ==
  /\ phase \in {"clone", "normalize"} => Block
  /\ phase = "clone" => Cloned
  /\ phase = "normalize" => Normalized
  /\ phase = "poll" => Counted /\ Below /\ Polled

CopyInv == TypeOK /\ Passed /\ Loops /\ CloneIsExact /\ PollIsExact

----------------------------------------------------------------------------
\* Types.
Tags == {Byte(n) : n \in Size} \union {Zero, SizeOf}

LEMMA WrappedIsSize ==
  ASSUME NEW n \in Nat
  PROVE  Wrapped(n) \in Size
  BY LayoutAssumption DEF Wrapped, Size

LEMMA MemcpyKeepsTags ==
  ASSUME NEW to \in Size, NEW from \in Nat,
         DOMAIN target \subseteq Size, \A b \in DOMAIN target : target[b] \in Tags,
         Memcpy(to, from)
  PROVE  DOMAIN target' \subseteq Size /\ \A b \in DOMAIN target' : target'[b] \in Tags
<1> USE LayoutAssumption
<1>1. Places(to) \subseteq Size
  <2>1. \A k \in 0 .. ElementSize - 1 : to + k \in Nat
    BY DEF Size
  <2> QED BY <2>1, WrappedIsSize DEF Places
<1>2. ASSUME NEW place \in Places(to)
      PROVE  Byte(Wrapped(from + Distance(to, place))) \in Tags
  <2>1. place \in Nat /\ to \in Nat /\ place + (SIZE_MAX + 1) - to \in Nat
    BY <1>1 DEF Size
  <2>2. Distance(to, place) \in Nat
    BY <2>1, WrappedIsSize DEF Distance, Size
  <2>3. Wrapped(from + Distance(to, place)) \in Size
    BY <2>2, WrappedIsSize
  <2> QED BY <2>3 DEF Tags
<1>3. /\ DOMAIN target' = DOMAIN target \union Places(to)
      /\ \A b \in DOMAIN target' :
           target'[b] = IF b \in Places(to)
                        THEN Byte(Wrapped(from + Distance(to, b)))
                        ELSE target[b]
  BY DEF Memcpy
<1> QED BY <1>1, <1>2, <1>3

LEMMA TypesOfCopying ==
  TypeOK <=> /\ call \in {"clone", "poll"}
             /\ count \in Size /\ stride \in Uint32 /\ struct_size \in Uint32
             /\ queued \in 0 .. Queued
             /\ phase \in {"start", "allocate", "clone", "normalize", "poll",
                           "done", "refused"}
             /\ index \in 0 .. IF call = "clone" THEN count ELSE CopyCount
             /\ DOMAIN target \subseteq Size
             /\ \A b \in DOMAIN target : target[b] \in Tags
  BY DEF TypeOK, Tags

LEMMA NoArray == DOMAIN << >> = {}
  OBVIOUS

\* What follows from the constants and the types alone.
LEMMA Numbers ==
  ASSUME TypeOK, Passed
  PROVE  /\ count \in Nat /\ stride \in Nat /\ index \in Nat /\ queued \in Nat
         /\ CopyCount \in Nat /\ CopyCount <= count /\ CopyCount <= queued
         /\ call = "clone" => count \in Uint32 /\ index <= count
         /\ call = "poll" => index <= CopyCount
         /\ \A n \in Nat : n * ElementSize \in Nat /\ n * stride \in Nat
  BY LayoutAssumption, CopyAssumption
     DEF TypeOK, Passed, CopyCount, Size, Uint32

LEMMA CopyingBegins ==
  Init => CopyInv
<1> SUFFICES ASSUME Init PROVE CopyInv
  OBVIOUS
<1> USE LayoutAssumption, CopyAssumption
<1>1. /\ call \in {"clone", "poll"} /\ phase = "start" /\ index = 0
      /\ target = << >> /\ DOMAIN target = {}
  BY NoArray DEF Init
<1>2. count \in Size /\ (call = "clone" => count \in Uint32)
  BY <1>1 DEF Init, Size, Uint32
<1>3. stride \in Uint32 /\ struct_size \in Uint32 /\ queued \in 0 .. Queued
  BY DEF Init, Uint32
<1>4. index \in 0 .. IF call = "clone" THEN count ELSE CopyCount
  BY <1>1, <1>2, <1>3 DEF CopyCount, Size
<1>5. TypeOK
  BY <1>1, <1>2, <1>3, <1>4 DEF TypeOK
<1>6. Passed /\ Loops
  BY <1>1, <1>2 DEF Passed, Loops
<1>7. CloneIsExact /\ PollIsExact
  BY <1>1 DEF CloneIsExact, PollIsExact
<1> QED BY <1>5, <1>6, <1>7 DEF CopyInv

\* One lemma per action: types, and the tests that were passed.
LEMMA TypesKept ==
  TypeOK /\ Passed /\ [Next]_vars => TypeOK' /\ Passed'
<1> SUFFICES ASSUME TypeOK, Passed, [Next]_vars PROVE TypeOK' /\ Passed'
  OBVIOUS
<1> USE LayoutAssumption, CopyAssumption
<1> DEFINE Arguments == UNCHANGED <<call, count, stride, struct_size, queued>>
<1>n. /\ count \in Nat /\ stride \in Nat /\ index \in Nat /\ queued \in Nat
      /\ CopyCount \in Nat /\ CopyCount <= count
      /\ call = "clone" => count \in Uint32 /\ index <= count
      /\ call = "poll" => index <= CopyCount
      /\ \A n \in Nat : n * ElementSize \in Nat /\ n * stride \in Nat
  BY Numbers
<1>t. /\ call \in {"clone", "poll"}
      /\ count \in Size /\ stride \in Uint32 /\ struct_size \in Uint32
      /\ queued \in 0 .. Queued
      /\ DOMAIN target \subseteq Size
      /\ \A b \in DOMAIN target : target[b] \in Tags
  BY TypesOfCopying
\* A step that keeps the arguments and leaves target with tags in it.
<1>k. ASSUME Arguments,
             phase' \in {"start", "allocate", "clone", "normalize", "poll",
                         "done", "refused"},
             index' \in Nat, index' <= IF call = "clone" THEN count ELSE CopyCount,
             DOMAIN target' \subseteq Size,
             \A b \in DOMAIN target' : target'[b] \in Tags
      PROVE  TypeOK'
  <2>1. CopyCount' = CopyCount
    BY <1>k DEF CopyCount
  <2>2. index' \in 0 .. IF call' = "clone" THEN count' ELSE CopyCount'
    BY <1>k, <1>n, <2>1
  <2>3. \A b \in DOMAIN target' :
          target'[b] \in {Byte(n) : n \in Size} \union {Zero, SizeOf}
    BY <1>k DEF Tags
  <2> QED BY <1>k, <1>t, <2>2, <2>3 DEF TypeOK
<1>0. CASE UNCHANGED vars
  <2>1. /\ Arguments /\ phase' = phase /\ index' = index /\ target' = target
    BY <1>0 DEF vars, arguments
  <2> QED BY <2>1 DEF TypeOK, Passed, CopyCount
<1>1. CASE Validate
  <2>1. /\ call = "clone" /\ phase = "start" /\ Arguments
        /\ index' = 0 /\ target' = target
        /\ phase' \in {"allocate", "refused"}
        /\ phase' = "allocate" =>
             \E base_ok \in BOOLEAN : ArrayLayoutIsValid(count, stride, base_ok)
    BY <1>1 DEF Validate, Leave, arguments
  <2>2. TypeOK'
    BY <1>k, <1>n, <1>t, <2>1
  <2>3. phase' = "allocate" => ArrayLayoutIsValid(count, stride, TRUE)
    BY <2>1 DEF ArrayLayoutIsValid
  <2>4. Passed'
    BY <2>1, <2>3 DEF Passed
  <2> QED BY <2>2, <2>4
<1>2. CASE Allocate
  <2>1. call = "clone" /\ phase = "allocate" /\ Arguments
        /\ ArrayLayoutIsValid(count, stride, TRUE) /\ target = << >>
    BY <1>2 DEF Allocate, Passed, arguments
  <2>2. CASE index' = 0 /\ target' = target /\ phase' \in {"done", "refused"}
    <3>1. TypeOK'
      BY <1>k, <1>n, <1>t, <2>1, <2>2
    <3>2. Passed'
      BY <2>1, <2>2 DEF Passed
    <3> QED BY <3>1, <3>2
  <2>3. CASE /\ count # 0 /\ index' = 0 /\ phase' = "clone"
             /\ target' = [b \in 0 .. Wrapped(count * ElementSize) - 1 |-> Zero]
    <3>1. Wrapped(count * ElementSize) \in Size
      BY <1>n, WrappedIsSize
    <3>2. 0 .. Wrapped(count * ElementSize) - 1 \subseteq Size
      BY <3>1 DEF Size
    <3>3. Zero \in Tags
      BY DEF Tags
    <3>4. DOMAIN target' \subseteq Size /\ \A b \in DOMAIN target' : target'[b] \in Tags
      BY <2>3, <3>2, <3>3
    <3>5. TypeOK'
      BY <1>k, <1>n, <2>1, <2>3, <3>4
    <3>6. Passed'
      BY <2>1, <2>3 DEF Passed
    <3> QED BY <3>5, <3>6
  <2> QED BY <1>2, <2>2, <2>3 DEF Allocate, Leave, Enter
<1>3. CASE Clone
  <2>1. call = "clone" /\ phase = "clone" /\ Arguments
        /\ ArrayLayoutIsValid(count, stride, TRUE) /\ count # 0
    BY <1>3 DEF Clone, Passed, arguments
  <2>2. CASE /\ index < count
             /\ Memcpy(Wrapped(index * ElementSize), ElementOffset(index, stride))
             /\ index' = index + 1 /\ phase' = phase
    <3>1. Wrapped(index * ElementSize) \in Size /\ ElementOffset(index, stride) \in Nat
      BY <1>n, WrappedIsSize DEF ElementOffset, Size
    <3>2. DOMAIN target' \subseteq Size /\ \A b \in DOMAIN target' : target'[b] \in Tags
      BY <1>t, <2>2, <3>1, MemcpyKeepsTags
    <3>3. TypeOK'
      BY <1>k, <1>n, <2>1, <2>2, <3>2
    <3>4. Passed'
      BY <2>1, <2>2 DEF Passed
    <3> QED BY <3>3, <3>4
  <2>3. CASE index' = 0 /\ target' = target /\ phase' = "normalize"
    <3>1. TypeOK'
      BY <1>k, <1>n, <1>t, <2>1, <2>3
    <3>2. Passed'
      BY <2>1, <2>3 DEF Passed
    <3> QED BY <3>1, <3>2
  <2> QED BY <1>3, <2>2, <2>3 DEF Clone, Enter
<1>4. CASE Normalize
  <2>1. call = "clone" /\ phase = "normalize" /\ Arguments
        /\ ArrayLayoutIsValid(count, stride, TRUE) /\ count # 0
    BY <1>4 DEF Normalize, Passed, arguments
  <2>2. CASE /\ index < count /\ index' = index + 1 /\ phase' = phase
             /\ target' = [b \in DOMAIN target |->
                             IF b - index * ElementSize \in 0 .. SizeBytes - 1
                             THEN SizeOf ELSE target[b]]
    <3>1. SizeOf \in Tags
      BY DEF Tags
    <3>2. DOMAIN target' \subseteq Size /\ \A b \in DOMAIN target' : target'[b] \in Tags
      BY <1>t, <2>2, <3>1
    <3>3. TypeOK'
      BY <1>k, <1>n, <2>1, <2>2, <3>2
    <3>4. Passed'
      BY <2>1, <2>2 DEF Passed
    <3> QED BY <3>3, <3>4
  <2>3. CASE index' = 0 /\ target' = target /\ phase' = "done"
    <3>1. TypeOK'
      BY <1>k, <1>n, <1>t, <2>1, <2>3
    <3>2. Passed'
      BY <2>1, <2>3 DEF Passed
    <3> QED BY <3>1, <3>2
  <2> QED BY <1>4, <2>2, <2>3 DEF Normalize, Leave
<1>5. CASE PollBegins
  <2>1. call = "poll" /\ phase = "start" /\ Arguments /\ target = << >>
    BY <1>5 DEF PollBegins, Passed, arguments
  <2>2. CASE index' = 0 /\ target' = target /\ phase' \in {"done", "refused"}
    <3>1. TypeOK'
      BY <1>k, <1>n, <1>t, <2>1, <2>2
    <3>2. Passed'
      BY <2>1, <2>2 DEF Passed
    <3> QED BY <3>1, <3>2
  <2>3. CASE /\ count # 0 /\ index' = 0 /\ target' = << >> /\ phase' = "poll"
             /\ \E base_ok \in BOOLEAN : PollBufferIsValid(count, stride, base_ok)
    <3>1. PollBufferIsValid(count, stride, TRUE)
      BY <2>3 DEF PollBufferIsValid
    <3>2. TypeOK'
      BY <1>k, <1>n, <1>t, <2>1, <2>3, NoArray
    <3>3. Passed'
      BY <2>1, <2>3, <3>1 DEF Passed
    <3> QED BY <3>2, <3>3
  <2> QED BY <1>5, <2>2, <2>3 DEF PollBegins, Leave, Enter
<1>6. CASE PollEvent
  <2>1. call = "poll" /\ phase = "poll" /\ Arguments
        /\ PollBufferIsValid(count, stride, TRUE) /\ count # 0
    BY <1>6 DEF PollEvent, Passed, arguments
  <2>2. CASE /\ index < CopyCount /\ index' = index + 1 /\ phase' = phase
             /\ Memcpy(Wrapped(index * stride), index * ElementSize)
    <3>1. Wrapped(index * stride) \in Size /\ index * ElementSize \in Nat
      BY <1>n, WrappedIsSize
    <3>2. DOMAIN target' \subseteq Size /\ \A b \in DOMAIN target' : target'[b] \in Tags
      BY <1>t, <2>2, <3>1, MemcpyKeepsTags
    <3>3. TypeOK'
      BY <1>k, <1>n, <2>1, <2>2, <3>2
    <3>4. Passed'
      BY <2>1, <2>2 DEF Passed
    <3> QED BY <3>3, <3>4
  <2>3. CASE index' = 0 /\ target' = target /\ phase' = "done"
    <3>1. TypeOK'
      BY <1>k, <1>n, <1>t, <2>1, <2>3
    <3>2. Passed'
      BY <2>1, <2>3 DEF Passed
    <3> QED BY <3>1, <3>2
  <2> QED BY <1>6, <2>2, <2>3 DEF PollEvent, Leave
<1> QED BY <1>0, <1>1, <1>2, <1>3, <1>4, <1>5, <1>6 DEF Next

----------------------------------------------------------------------------
\* Contents.

\* Byte k of element e is inside an array of n elements, if e is.
LEMMA InArray ==
  ASSUME NEW n \in Nat, NEW d \in Nat \ {0}, NEW e \in 0 .. n - 1,
         NEW k \in 0 .. d - 1
  PROVE  e * d + k \in 0 .. n * d - 1
<1>1. (e + 1) * d <= n * d
  BY ProductMonotone
<1>2. (e + 1) * d = e * d + d /\ e * d \in Nat /\ n * d \in Nat
  OBVIOUS
<1> QED BY <1>1, <1>2

\* The copy of one element leaves the others alone.
LEMMA CloneStep ==
  ASSUME TypeOK, Passed, Loops, phase = "clone", index < count,
         Memcpy(Wrapped(index * ElementSize), ElementOffset(index, stride)),
         UNCHANGED <<count, stride>>, index' = index + 1
  PROVE  Block' /\ Cloned'
<1> USE LayoutAssumption
<1> DEFINE d == ElementSize
<1>n. /\ count \in Uint32 /\ stride \in Uint32 /\ count \in Nat /\ stride \in Nat
      /\ index \in 0 .. count - 1 /\ index \in Nat
      /\ index * d \in Nat /\ index * stride \in Nat /\ count * d \in Nat
  BY Numbers DEF Passed, TypeOK
<1>a. ArrayLayoutIsValid(count, stride, TRUE) /\ Block /\ Cloned
  BY DEF Passed, Loops
<1>1. CloneFits(count)
  BY <1>n, <1>a, AcceptedArraysCanBeCloned
<1>2. count * d <= SIZE_MAX
  BY <1>n, <1>1, QuotientBound DEF CloneFits
<1>3. index * d + d <= count * d
  <2>1. (index + 1) * d <= count * d
    BY <1>n, ProductMonotone
  <2>2. (index + 1) * d = index * d + d
    BY <1>n
  <2> QED BY <2>1, <2>2
<1>4. Wrapped(index * d) = index * d
  BY <1>n, <1>2, <1>3, FittingIsExact
<1>5. /\ ElementOffset(index, stride) = index * stride
      /\ index * stride + ElementSize <= SIZE_MAX
  BY <1>n, <1>a, AcceptedElementsAreExact
<1>6. Memcpy(index * d, index * stride)
  BY <1>4, <1>5
<1>p. PICK to \in Nat, from \in Nat : to = index * d /\ from = index * stride
  BY <1>n
<1>7. /\ DOMAIN target' = DOMAIN target \union (to .. to + d - 1)
      /\ \A k \in 0 .. d - 1 : target'[to + k] = Byte(from + k)
      /\ \A b \in DOMAIN target :
           b \notin to .. to + d - 1 => target'[b] = target[b]
  <2>1. /\ Memcpy(to, from)
        /\ to + d <= SIZE_MAX + 1 /\ from + d <= SIZE_MAX + 1
    BY <1>n, <1>2, <1>3, <1>5, <1>6, <1>p
  <2> QED BY <2>1, MemcpyIsExact
<1>8. Block'
  <2>1. to .. to + d - 1 \subseteq 0 .. count * d - 1
    BY <1>n, <1>3, <1>p
  <2> QED BY <1>7, <1>a, <2>1 DEF Block
<1>9. ASSUME NEW e \in 0 .. count - 1, NEW k \in 0 .. d - 1
      PROVE  target'[e * d + k] =
               IF e < index + 1 THEN Byte(e * stride + k) ELSE Zero
  <2>1. e \in Nat /\ e * d \in Nat /\ e * d + k \in Nat
    BY <1>n
  <2>2. e * d + k \in DOMAIN target
    BY <1>n, <1>a, InArray DEF Block
  <2>3. CASE e = index
    <3>1. target'[to + k] = Byte(from + k)
      BY <1>7
    <3>2. to + k = e * d + k /\ from + k = e * stride + k
      BY <1>p, <2>3
    <3> QED BY <1>n, <2>3, <3>1, <3>2
  <2>4. CASE e # index
    <3>1. e * d + k \notin to .. to + d - 1
      <4>1. SUFFICES ASSUME index * d <= e * d + k, e * d + k < index * d + d
                     PROVE  FALSE
        BY <1>n, <1>p, <2>1
      <4>2. index = e
        BY <1>n, <2>1, <4>1, OneElementEach
      <4> QED BY <2>4, <4>2
    <3>2. target'[e * d + k] = target[e * d + k]
      BY <1>7, <2>2, <3>1
    <3>3. target[e * d + k] = IF e < index THEN Byte(e * stride + k) ELSE Zero
      BY <1>a DEF Cloned
    <3>4. e < index + 1 <=> e < index
      BY <1>n, <2>1, <2>4
    <3> QED BY <3>2, <3>3, <3>4
  <2> QED BY <2>3, <2>4
<1>10. Cloned'
  BY <1>9 DEF Cloned
<1> QED BY <1>8, <1>10

\* The normalisation of one element changes its size field only.
LEMMA NormalizeStep ==
  ASSUME TypeOK, Passed, Loops, phase = "normalize", index < count,
         target' = [b \in DOMAIN target |->
                      IF b - index * ElementSize \in 0 .. SizeBytes - 1
                      THEN SizeOf ELSE target[b]],
         UNCHANGED <<count, stride>>, index' = index + 1
  PROVE  Block' /\ Normalized'
<1> USE LayoutAssumption, CopyAssumption
<1> DEFINE d == ElementSize
<1>n. /\ count \in Nat /\ stride \in Nat /\ index \in Nat
      /\ index * d \in Nat
  BY Numbers
<1>a. Block /\ Normalized
  BY DEF Loops
<1>1. Block'
  BY <1>a DEF Block
<1>2. ASSUME NEW e \in 0 .. count - 1, NEW k \in 0 .. d - 1
      PROVE  target'[e * d + k] =
               IF e < index + 1 /\ k < SizeBytes THEN SizeOf ELSE Byte(e * stride + k)
  <2>1. e \in Nat /\ e * d \in Nat /\ e * d + k \in Nat
    BY <1>n
  <2>2. PICK b \in DOMAIN target : b = e * d + k
    BY <1>n, <1>a, InArray DEF Block
  <2>3. target'[b] = IF b - index * d \in 0 .. SizeBytes - 1
                     THEN SizeOf ELSE target[b]
    OBVIOUS
  <2>4. target[e * d + k] =
          IF e < index /\ k < SizeBytes THEN SizeOf ELSE Byte(e * stride + k)
    BY <1>a DEF Normalized
  <2>5. target'[b] =
          IF e < index + 1 /\ k < SizeBytes THEN SizeOf ELSE Byte(e * stride + k)
    <3>1. CASE e = index
      <4>1. b - index * d = k
        BY <2>1, <2>2, <3>1
      <4>2. b - index * d \in 0 .. SizeBytes - 1 <=> k < SizeBytes
        BY <4>1
      <4> QED BY <1>n, <2>2, <2>3, <2>4, <3>1, <4>2
    <3>2. CASE e # index
      <4>1. b - index * d \notin 0 .. SizeBytes - 1
        <5>1. SUFFICES ASSUME index * d <= e * d + k, e * d + k < index * d + d
                       PROVE  FALSE
          BY <1>n, <2>1, <2>2
        <5>2. index = e
          BY <1>n, <2>1, <5>1, OneElementEach
        <5> QED BY <3>2, <5>2
      <4>2. e < index + 1 <=> e < index
        BY <1>n, <2>1, <3>2
      <4> QED BY <2>2, <2>3, <2>4, <4>1, <4>2
    <3> QED BY <3>1, <3>2
  <2> QED BY <2>2, <2>5
<1>3. Normalized'
  BY <1>2 DEF Normalized
<1> QED BY <1>1, <1>3

\* One event more, in a slot that no earlier one touched.
LEMMA PollStep ==
  ASSUME TypeOK, Passed, Loops, phase = "poll", index < CopyCount,
         Memcpy(Wrapped(index * stride), index * ElementSize),
         UNCHANGED <<count, stride>>, index' = index + 1
  PROVE  Counted' /\ Below' /\ Polled'
<1> USE LayoutAssumption
<1> DEFINE d == ElementSize
<1>n. /\ count \in Nat /\ stride \in Nat /\ index \in Nat /\ index < count
      /\ count \in Size /\ stride \in Uint32
      /\ index * d \in Nat /\ index * stride \in Nat /\ count * stride \in Nat
  BY Numbers DEF Passed, TypeOK
<1>a. /\ PollBufferIsValid(count, stride, TRUE) /\ Counted /\ Below /\ Polled
      /\ stride >= d /\ DOMAIN target \subseteq Nat
  BY DEF Passed, Loops, PollBufferIsValid, TypeOK, Size
<1>1. /\ Wrapped(index * stride) = index * stride
      /\ index * stride + d <= count * stride
      /\ count * stride <= SIZE_MAX
  BY <1>n, <1>a, PolledEventsAreInside
<1>2. index * d <= index * stride
  <2>1. d * index <= stride * index
    BY <1>n, <1>a, ProductMonotone
  <2>2. d * index = index * d /\ stride * index = index * stride
    BY <1>n
  <2> QED BY <2>1, <2>2
<1>3. /\ index * stride + d <= SIZE_MAX + 1
      /\ index * d + d <= SIZE_MAX + 1
  BY <1>n, <1>1, <1>2
<1>4. Memcpy(index * stride, index * d)
  BY <1>1
<1>p. PICK to \in Nat, from \in Nat : to = index * stride /\ from = index * d
  BY <1>n
<1> DEFINE slot == to .. to + d - 1
<1>5. /\ DOMAIN target' = DOMAIN target \union slot
      /\ \A k \in 0 .. d - 1 : target'[to + k] = Byte(from + k)
      /\ \A b \in DOMAIN target : b \notin slot => target'[b] = target[b]
  <2>1. /\ Memcpy(to, from)
        /\ to + d <= SIZE_MAX + 1 /\ from + d <= SIZE_MAX + 1
    BY <1>3, <1>4, <1>p
  <2> QED BY <2>1, MemcpyIsExact
<1>6. (index + 1) * stride = index * stride + stride
      /\ (index + 1) * d = index * d + d
  BY <1>n
<1>7. Below'
  <2>1. \A b \in DOMAIN target : b < index * stride + stride
    BY <1>n, <1>a DEF Below
  <2>2. \A b \in slot : b < index * stride + stride
    BY <1>n, <1>a, <1>p
  <2> QED BY <1>5, <1>6, <2>1, <2>2 DEF Below
<1>8. DOMAIN target \intersect slot = {}
  BY <1>n, <1>a, <1>p DEF Below
<1>9. Counted'
  <2>1. /\ IsFiniteSet(DOMAIN target) /\ Cardinality(DOMAIN target) = index * d
    BY <1>a DEF Counted
  <2>2. IsFiniteSet(slot) /\ Cardinality(slot) = d
    <3>1. to \in Int /\ to + d - 1 \in Int
      OBVIOUS
    <3>2. /\ IsFiniteSet(slot)
          /\ Cardinality(slot) = IF to > to + d - 1 THEN 0
                                 ELSE (to + d - 1) - to + 1
      BY <3>1, FS_Interval
    <3> QED BY <3>2
  <2>3. Cardinality({}) = 0
    BY FS_EmptySet
  <2> HIDE DEF slot
  <2>4. /\ IsFiniteSet(DOMAIN target \union slot)
        /\ Cardinality(DOMAIN target \union slot) =
             Cardinality(DOMAIN target) + Cardinality(slot)
               - Cardinality(DOMAIN target \intersect slot)
    BY <2>1, <2>2, FS_Union
  <2>5. Cardinality(DOMAIN target \intersect slot) = 0
    BY <1>8, <2>3
  <2>6. Cardinality(DOMAIN target \union slot) = index * d + d
    BY <1>n, <2>1, <2>2, <2>4, <2>5
  <2>7. IsFiniteSet(DOMAIN target') /\ Cardinality(DOMAIN target') = (index + 1) * d
    BY <1>5, <1>6, <2>4, <2>6
  <2> QED BY <2>7 DEF Counted
<1>10. ASSUME NEW i \in 0 .. index, NEW k \in 0 .. d - 1
       PROVE  /\ i * stride + k \in DOMAIN target'
              /\ target'[i * stride + k] = Byte(i * d + k)
  <2>1. i \in Nat /\ i * stride \in Nat /\ i * d \in Nat
    BY <1>n
  <2>2. CASE i = index
    <3>1. to + k \in slot /\ target'[to + k] = Byte(from + k)
      BY <1>5
    <3>2. to + k = i * stride + k /\ from + k = i * d + k
      BY <1>p, <2>2
    <3> QED BY <1>5, <3>1, <3>2
  <2>3. CASE i # index
    <3>1. i \in 0 .. index - 1
      BY <1>n, <2>3
    <3>2. i * stride + k \in DOMAIN target /\ target[i * stride + k] = Byte(i * d + k)
      BY <1>a, <3>1 DEF Polled
    <3> HIDE DEF slot
    <3>3. i * stride + k \notin slot
      BY <1>8, <3>2
    <3> QED BY <1>5, <3>2, <3>3
  <2> QED BY <2>2, <2>3
<1>11. Polled'
  <2>1. 0 .. index' - 1 = 0 .. index
    BY <1>n
  <2> QED BY <1>10, <2>1 DEF Polled
<1> QED BY <1>7, <1>9, <1>11

LEMMA LoopsKept ==
  CopyInv /\ [Next]_vars => Loops' /\ CloneIsExact' /\ PollIsExact'
<1> SUFFICES ASSUME CopyInv, [Next]_vars
             PROVE  Loops' /\ CloneIsExact' /\ PollIsExact'
  OBVIOUS
<1> USE LayoutAssumption, CopyAssumption
<1> DEFINE Arguments == UNCHANGED <<call, count, stride, struct_size, queued>>
<1>i. TypeOK /\ Passed /\ Loops /\ CloneIsExact /\ PollIsExact
  BY DEF CopyInv
<1>n. /\ count \in Nat /\ stride \in Nat /\ index \in Nat /\ queued \in Nat
      /\ CopyCount \in Nat /\ CopyCount <= count
      /\ call = "clone" => count \in Uint32 /\ index <= count
      /\ call = "poll" => index <= CopyCount
      /\ \A n \in Nat : n * ElementSize \in Nat /\ n * stride \in Nat
  BY <1>i, Numbers
<1>t. /\ call \in {"clone", "poll"} /\ count \in Size /\ stride \in Uint32
      /\ phase \in {"start", "allocate", "clone", "normalize", "poll",
                    "done", "refused"}
  BY <1>i, TypesOfCopying
\* An array of bytes that is empty is below every bound.
<1>e. ASSUME target' = << >>, phase' \notin {"clone", "normalize", "poll"}
      PROVE  PollIsExact' /\ Loops'
  BY <1>e, NoArray DEF PollIsExact, Loops
<1>0. CASE UNCHANGED vars
  <2>1. /\ Arguments /\ phase' = phase /\ index' = index /\ target' = target
    BY <1>0 DEF vars, arguments
  <2> QED BY <1>i, <2>1
        DEF Loops, Block, Cloned, Normalized, Counted, Below, Polled, CloneIsExact,
            PollIsExact, CopyCount
<1>1. CASE Validate
  <2>1. /\ target' = << >> /\ phase' \in {"allocate", "refused"}
    BY <1>1, <1>i DEF Validate, Leave, Passed
  <2> QED BY <1>e, <2>1 DEF CloneIsExact
<1>2. CASE Allocate
  <2>1. call = "clone" /\ phase = "allocate" /\ Arguments
        /\ ArrayLayoutIsValid(count, stride, TRUE) /\ target = << >>
    BY <1>2, <1>i DEF Allocate, Passed, arguments
  <2>2. CASE count = 0 /\ phase' = "done" /\ target' = target
    <3>1. Loops' /\ PollIsExact'
      BY <1>e, <2>1, <2>2
    <3>2. /\ count * ElementSize = 0 /\ 0 .. count * ElementSize - 1 = {}
          /\ 0 .. count - 1 = {}
      BY <2>2
    <3>3. CloneIsExact'
      BY <2>1, <2>2, <3>2, NoArray DEF CloneIsExact
    <3> QED BY <3>1, <3>3
  <2>3. CASE phase' = "refused" /\ target' = target
    BY <1>e, <2>1, <2>3 DEF CloneIsExact
  <2>4. CASE /\ CloneFits(count) /\ index' = 0 /\ phase' = "clone"
             /\ target' = [b \in 0 .. Wrapped(count * ElementSize) - 1 |-> Zero]
    <3>1. count * ElementSize <= SIZE_MAX
      BY <1>n, <2>4, QuotientBound DEF CloneFits
    <3>2. Wrapped(count * ElementSize) = count * ElementSize
      BY <1>n, <3>1, FittingIsExact
    <3>3. Block'
      BY <2>1, <2>4, <3>2 DEF Block
    <3>4. \A e \in 0 .. count - 1, k \in 0 .. ElementSize - 1 :
            target'[e * ElementSize + k] = Zero /\ ~(e < 0)
      <4>1. \A e \in 0 .. count - 1, k \in 0 .. ElementSize - 1 :
              e * ElementSize + k \in 0 .. count * ElementSize - 1
        BY <1>n, InArray
      <4>2. target' = [b \in 0 .. count * ElementSize - 1 |-> Zero]
        BY <2>4, <3>2
      <4>3. \A e \in 0 .. count - 1 : ~(e < 0)
        BY <1>n
      <4> QED BY ONLY <4>1, <4>2, <4>3
    <3>5. Cloned'
      <4>1. count' = count /\ index' = 0
        BY <2>1, <2>4
      <4> QED BY ONLY <3>4, <4>1 DEF Cloned
    <3>6. Loops'
      BY <2>4, <3>3, <3>5 DEF Loops
    <3>7. CloneIsExact' /\ PollIsExact'
      BY <2>1, <2>4 DEF CloneIsExact, PollIsExact
    <3> QED BY <3>6, <3>7
  <2> QED BY <1>2, <2>2, <2>3, <2>4 DEF Allocate, Leave, Enter
<1>3. CASE Clone
  <2>1. call = "clone" /\ phase = "clone" /\ Arguments /\ Block /\ Cloned
    BY <1>3, <1>i DEF Clone, Passed, Loops, arguments
  <2>2. CASE /\ index < count
             /\ Memcpy(Wrapped(index * ElementSize), ElementOffset(index, stride))
             /\ index' = index + 1 /\ phase' = phase
    <3>1. Block' /\ Cloned'
      BY <1>i, <2>1, <2>2, CloneStep
    <3> QED BY <2>1, <2>2, <3>1 DEF Loops, CloneIsExact, PollIsExact
  <2>3. CASE ~(index < count) /\ index' = 0 /\ target' = target /\ phase' = "normalize"
    <3>1. Block'
      BY <2>1, <2>3 DEF Block
    <3>2. \A e \in 0 .. count - 1 : e < index /\ ~(e < 0)
      BY <1>n, <2>3
    <3>3. Normalized'
      BY <2>1, <2>3, <3>2 DEF Cloned, Normalized
    <3> QED BY <2>1, <2>3, <3>1, <3>3 DEF Loops, CloneIsExact, PollIsExact
  <2> QED BY <1>3, <2>2, <2>3 DEF Clone, Enter
<1>4. CASE Normalize
  <2>1. call = "clone" /\ phase = "normalize" /\ Arguments /\ Block /\ Normalized
    BY <1>4, <1>i DEF Normalize, Passed, Loops, arguments
  <2>2. CASE /\ index < count /\ index' = index + 1 /\ phase' = phase
             /\ target' = [b \in DOMAIN target |->
                             IF b - index * ElementSize \in 0 .. SizeBytes - 1
                             THEN SizeOf ELSE target[b]]
    <3>1. Block' /\ Normalized'
      BY <1>i, <2>1, <2>2, NormalizeStep
    <3> QED BY <2>1, <2>2, <3>1 DEF Loops, CloneIsExact, PollIsExact
  <2>3. CASE ~(index < count) /\ target' = target /\ phase' = "done"
    <3>1. \A e \in 0 .. count - 1 : e < index
      BY <1>n, <2>3
    <3>2. CloneIsExact'
      BY <2>1, <2>3, <3>1 DEF Block, Normalized, CloneIsExact
    <3> QED BY <2>1, <2>3, <3>2 DEF Loops, PollIsExact
  <2> QED BY <1>4, <2>2, <2>3 DEF Normalize, Leave
<1>5. CASE PollBegins
  <2>1. call = "poll" /\ phase = "start" /\ Arguments /\ target = << >>
    BY <1>5, <1>i DEF PollBegins, Passed, arguments
  <2>2. CASE target' = target /\ phase' \in {"done", "refused"}
    BY <1>e, <2>1, <2>2 DEF CloneIsExact
  <2>3. CASE index' = 0 /\ target' = << >> /\ phase' = "poll"
    <3>1. DOMAIN target' = {} /\ 0 * ElementSize = 0 /\ 0 .. index' - 1 = {}
      BY <2>3, NoArray
    <3>2. IsFiniteSet({}) /\ Cardinality({}) = 0
      BY FS_EmptySet
    <3>3. Counted' /\ Below' /\ Polled'
      BY <2>3, <3>1, <3>2 DEF Counted, Below, Polled
    <3> QED BY <2>1, <2>3, <3>1, <3>3 DEF Loops, CloneIsExact, PollIsExact
  <2> QED BY <1>5, <2>2, <2>3 DEF PollBegins, Leave, Enter
<1>6. CASE PollEvent
  <2>1. call = "poll" /\ phase = "poll" /\ Arguments
        /\ Counted /\ Below /\ Polled /\ count # 0
    BY <1>6, <1>i DEF PollEvent, Passed, Loops, arguments
  <2>c. CopyCount' = CopyCount
    BY <2>1 DEF CopyCount
  \* What lies below the events copied so far lies below the whole buffer.
  <2>b. ASSUME NEW n \in Nat, n <= count, NEW b \in Nat, b < n * stride
        PROVE  b < count * stride
    <3>1. n * stride <= count * stride
      BY <1>n, <2>b, ProductMonotone
    <3> QED BY <1>n, <2>b, <3>1
  <2>2. CASE /\ index < CopyCount /\ index' = index + 1 /\ phase' = phase
             /\ Memcpy(Wrapped(index * stride), index * ElementSize)
    <3>1. Counted' /\ Below' /\ Polled'
      BY <1>i, <2>1, <2>2, PollStep
    <3>2. Loops' /\ CloneIsExact'
      BY <2>1, <2>2, <3>1 DEF Loops, CloneIsExact
    <3>3. DOMAIN target' \subseteq Nat
      <4>1. TypeOK'
        BY <1>i, TypesKept
      <4> QED BY <4>1 DEF TypeOK, Size
    <3>4. \A b \in DOMAIN target' : b < count * stride
      BY <1>n, <2>1, <2>2, <2>b, <3>1, <3>3 DEF Below
    <3> QED BY <2>1, <2>2, <3>2, <3>4 DEF PollIsExact
  <2>3. CASE ~(index < CopyCount) /\ target' = target /\ phase' = "done"
    <3>1. index = CopyCount
      BY <1>n, <2>1, <2>3
    <3>2. PollIsExact'
      <4>1. \A b \in DOMAIN target' : b < count' * stride'
        BY <1>i, <2>1, <2>3 DEF PollIsExact
      <4> QED BY <2>1, <2>3, <2>c, <3>1, <4>1 DEF PollIsExact, Counted, Polled
    <3> QED BY <2>1, <2>3, <3>2 DEF Loops, CloneIsExact
  <2> QED BY <1>6, <2>2, <2>3 DEF PollEvent, Leave
<1> QED BY <1>0, <1>1, <1>2, <1>3, <1>4, <1>5, <1>6 DEF Next

LEMMA CopyInvariant == Spec => []CopyInv
<1>1. CopyInv /\ [Next]_vars => CopyInv'
  BY TypesKept, LoopsKept DEF CopyInv
<1> QED BY <1>1, CopyingBegins, PTL DEF Spec

(***************************************************************************)
(* Whatever count, stride and struct_size a caller passes, a loop stops at *)
(* the bound of its array and writes nothing but copied bytes, sizes and   *)
(* zeroes, inside the range of size_t (solana_delivery.c:481-541;          *)
(* solana_delivery_events.c:73-121).                                       *)
(***************************************************************************)
THEOREM CopyTypeCorrect == Spec => []TypeOK
<1>1. CopyInv => TypeOK
  BY DEF CopyInv
<1> QED BY <1>1, CopyInvariant, PTL

(***************************************************************************)
(* An accepted array is copied exactly, byte by byte, for every count,     *)
(* stride and size of an element, and its size fields are normalised       *)
(* (solana_delivery.c:481-541).                                            *)
(***************************************************************************)
THEOREM ClonesAreExact == Spec => []CloneIsExact
<1>1. CopyInv => CloneIsExact
  BY DEF CopyInv
<1> QED BY <1>1, CopyInvariant, PTL

(***************************************************************************)
(* A poll never writes outside the caller's buffer, and when it returns    *)
(* each slot has its event, in order, and no other byte was written        *)
(* (solana_delivery_events.c:91-121).                                      *)
(***************************************************************************)
THEOREM PollsAreExact == Spec => []PollIsExact
<1>1. CopyInv => PollIsExact
  BY DEF CopyInv
<1> QED BY <1>1, CopyInvariant, PTL
=============================================================================
