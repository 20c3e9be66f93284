------------------------------- MODULE Untyped -------------------------------
(***************************************************************************)
(* Untyped memory (object/untyped.c): objects are made behind the free     *)
(* index of an untyped capability, and a capability without children is    *)
(* first reset, which clears what was used chunk by chunk and can be       *)
(* preempted after every chunk.  createNewObjects is that of objecttype.c. *)
(***************************************************************************)
EXTENDS Deletion

CONSTANTS
  ObjectTypes,          \* the types user level asks for
  CONFIG_RESET_CHUNK_BITS,
  CONFIG_RETYPE_FAN_OUT_LIMIT

ASSUME UntypedConstants ==
  /\ ObjectTypes \subseteq Badged \cup {"cnode", "thread", "untyped"}
  /\ CONFIG_RESET_CHUNK_BITS \in Nat /\ CONFIG_RETYPE_FAN_OUT_LIMIT \in Nat

alignUp(base, bits) == ((base + 2^bits - 1) \div 2^bits) * 2^bits

ROUND_DOWN(n, bits) == (n \div 2^bits) * 2^bits

\* getObjectSize: the size user level gives counts for CNodes and untyped memory
getObjectSize(type, userSize) ==
  CASE type \in {"cnode", "untyped"} -> userSize
    [] type = "thread" -> TCBBits
    [] OTHER -> 0

createObject(type, ptr, userSize) ==
  IF type = "untyped" THEN cap_untyped_cap_new(0, userSize, ptr)
  ELSE Cap(type, ptr, getObjectSize(type, userSize), 0)

\* Clearing memory leaves no slot in it
clearMemory(k, base, bits) ==
  LET R == base .. (base + 2^bits - 1)
  IN [k EXCEPT !.cap = [s \in Slots |-> IF s \in R THEN cap_null_cap_new ELSE @[s]],
               !.mdbNext = [s \in Slots |-> IF s \in R THEN NULL ELSE @[s]],
               !.mdbPrev = [s \in Slots |-> IF s \in R THEN NULL ELSE @[s]],
               !.dirty = @ \ R]

\* Mutant: the free index is reset with the first chunk
resetChunk_zero(k, s, offset) ==
  [clearMemory(k, k.cap[s].capPtr + offset, CONFIG_RESET_CHUNK_BITS)
     EXCEPT !.cap[s].n = 0]

\* One round of the loop of resetUntypedCap
resetChunk(k, s, offset) ==
  [clearMemory(k, k.cap[s].capPtr + offset, CONFIG_RESET_CHUNK_BITS)
     EXCEPT !.cap[s].n = offset]

RECURSIVE resetChunks(_, _, _)

resetChunks(k, s, offset) ==
  IF offset < 0 THEN {Done(k)}
  ELSE LET k1 == resetChunk(k, s, offset)
       IN preemptionPoint(k1, resetChunks(k1, s, offset - 2^CONFIG_RESET_CHUNK_BITS))

resetUntypedCap(k, s) ==
  LET c == k.cap[s]
  IN IF c.n = 0 THEN {Done(k)}
     ELSE IF c.capSizeBits < CONFIG_RESET_CHUNK_BITS
     THEN {Done([clearMemory(k, c.capPtr, c.capSizeBits) EXCEPT !.cap[s].n = 0])}
     ELSE resetChunks(k, s, ROUND_DOWN(c.n - 1, CONFIG_RESET_CHUNK_BITS))

RECURSIVE createNewObjects(_, _, _, _, _, _, _)

\* The objects from the i-th on; making one in memory that was not cleared
\* would leave the old content in it
createNewObjects(k, type, parent, dest, window, base, userSize) ==
  IF window = 0 THEN k
  ELSE LET c  == createObject(type, base, userSize)
           k1 == insertNewCap(assert(k, capRegion(c) \cap k.dirty = {}, "memory not cleared"),
                              parent, dest, c)
       IN createNewObjects([k1 EXCEPT !.dirty = IF type = "untyped" THEN @ ELSE @ \cup capRegion(c)],
                           type, parent, dest + 1, window - 1,
                           base + 2^getObjectSize(type, userSize), userSize)

\* Where the objects go: behind the free index, or at the start once the
\* capability has no children left
freeIndex(k, s) == IF ensureNoChildren(k, s) THEN 0 ELSE k.cap[s].n

enoughMemory(k, s, bits, window) ==
  (2^k.cap[s].capSizeBits - freeIndex(k, s)) \div 2^bits >= window

retypeBase(k, s, bits) == alignUp(k.cap[s].capPtr + freeIndex(k, s), bits)

retyped(k, s, base, type, userSize, dest, window) ==
  createNewObjects([k EXCEPT !.cap[s].n =
                      base + window * 2^getObjectSize(type, userSize) - k.cap[s].capPtr],
                   type, s, dest, window, base, userSize)

invokeUntyped_Retype(k, s, base, type, userSize, dest, window) ==
  andThen(IF ensureNoChildren(k, s) THEN resetUntypedCap(k, s) ELSE {Done(k)},
          LAMBDA r : {Done(retyped(r.k, s, base, type, userSize, dest, window))})
=============================================================================
