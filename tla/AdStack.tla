------------------------------ MODULE AdStack -------------------------------
(***************************************************************************)
(* The stack of the adjoint model, wrftladj/adStack.c.                     *)
(*                                                                         *)
(* The forward sweep PUSHes the arrays that the backward sweep POPs.  The  *)
(* bytes live in a chain of blocks of ONE_BLOCK_SIZE that is never freed;  *)
(* an array that does not fit in what is left of a block is cut: its TAIL  *)
(* fills the block, the blocks after it take the rest from the end of the  *)
(* array towards its beginning.  So the bytes of one array are not         *)
(* contiguous, and an array comes back as it was only when it is popped    *)
(* with the size it was pushed with.                                       *)
(*                                                                         *)
(* An address counts the bytes from the first block of the chain: block k  *)
(* holds the addresses (k-1)*B .. k*B-1.  curStack is the address `base'   *)
(* of its block, -B when it is NULL; curStack->prev is base - B, ->next is *)
(* base + B when that is below `limit', the end of the chain; curStackTop  *)
(* is `top'.  Each iteration of a while loop of pushNarray, popNarray and  *)
(* lookNarray is a step: malloc may fail in any of them.                   *)
(***************************************************************************)
EXTENDS Integers, Sequences, SequencesExt

CONSTANTS ONE_BLOCK_SIZE,   \* bytes in a block
          MaxBlocks,        \* bound: malloc fails from here on
          MaxDepth,         \* bound: arrays on the stack
          Sizes,            \* the sizes of the arrays that are pushed
          Vals,             \* contents an array may have
          NoByte            \* contents of memory nothing was stored in

B == ONE_BLOCK_SIZE

ASSUME BlockAssumption == ONE_BLOCK_SIZE \in Nat \ {0}
ASSUME BoundAssumption == MaxBlocks \in Nat \ {0} /\ MaxDepth \in Nat
ASSUME SizeAssumption  == Sizes \subseteq Nat \ {0}
ASSUME ByteAssumption  == NoByte \notin Vals \X Nat

VARIABLES
  mem,      \* the contents of the blocks, by address
  limit,    \* the end of the chain of blocks
  base,     \* curStack
  top,      \* curStackTop
  looking,  \* whether lookStack is set
  lbase,    \* lookStack
  ltop,     \* lookStackTop
  size,     \* bigStackSize
  call,     \* the call in progress
  out,      \* the array the last pop or look returned
  tape,     \* the caller's side: the arrays it pushed and has still to pop
  looked    \* the caller's side: how many of them it has looked at

memory == <<mem, limit>>
cursor == <<base, top>>
view   == <<looking, lbase, ltop>>
caller == <<tape, looked, out>>
vars   == <<mem, limit, base, top, looking, lbase, ltop, size, call, out, tape, looked>>

Addresses == 0 .. MaxBlocks * B - 1
Byte == (Vals \X Nat) \union {NoByte}

\* Byte number j of an array with contents v and n bytes.
Array(v, n) == [j \in 0 .. n - 1 |-> <<v, j>>]
Frame(v, n) == [v |-> v, n |-> n]
Idle == [op |-> "idle"]
Exited == [op |-> "exit"]

Init ==
  /\ mem = [a \in Addresses |-> NoByte]
  /\ limit = 0
  /\ base = -B /\ top = 0
  /\ looking = FALSE /\ lbase = -B /\ ltop = 0
  /\ size = 0
  /\ call = Idle
  /\ out = <<>>
  /\ tape = <<>> /\ looked = 0

-----------------------------------------------------------------------------
(* pushNarray *)

\* Mistake: nbmax without the test for a NULL curStack.
RoomWithoutNullTest == IF base < 0 THEN B ELSE base + B - top

\* nbmax of a push: what is left of the current block.
Room == base + B - top

\* memcpy of k bytes, from byte i of the array x to address a
StoreBytes(a, k, x, i) ==
  mem' = [c \in DOMAIN mem |-> IF c \in a .. a + k - 1 THEN x[i + c - a] ELSE mem[c]]

Pushed(v, n) == tape' = Append(tape, Frame(v, n)) /\ looked' = 0

\* The array fits in what is left of the current block.
PushFits(v, n) ==
  /\ call = Idle
  /\ Len(tape) < MaxDepth
  /\ n <= Room
  /\ StoreBytes(top, n, Array(v, n), 0)
  /\ top' = top + n
  /\ size' = size + n
  /\ looking' = FALSE
  /\ Pushed(v, n)
  /\ UNCHANGED <<limit, base, lbase, ltop, call, out>>

\* It does not: its tail fills the block, the rest (bytes 0 .. at-1) goes on.
PushTail(v, n) ==
  /\ call = Idle
  /\ Len(tape) < MaxDepth
  /\ n > Room
  /\ StoreBytes(top, Room, Array(v, n), n - Room)
  /\ call' = [op |-> "push", v |-> v, n |-> n, at |-> n - Room]
  /\ size' = size + n
  /\ looking' = FALSE
  /\ UNCHANGED <<limit, cursor, lbase, ltop, caller>>

\* Mistake: curStackTop is left at the beginning of the block.
HeadTopUnmoved(b, inx) == b

\* curStackTop after the last bytes: the block at b took inx + B of them.
HeadTop(b, inx) == b + inx + B

\* The chain ends with the current block: curStack or curStack->next is NULL.
AtEndOfChain == base + B = limit

\* One iteration of the loop: the next block of the chain, a new one when
\* there is none, takes the last B bytes that are left, or all of them.
PushBlock ==
  /\ call.op = "push"
  /\ \/ ~AtEndOfChain /\ UNCHANGED limit
     \/ AtEndOfChain /\ limit < MaxBlocks * B /\ limit' = limit + B
  /\ base' = base + B
  /\ LET inx == call.at - B IN
     IF inx > 0
     THEN /\ StoreBytes(base', B, Array(call.v, call.n), inx)
          /\ call' = [call EXCEPT !.at = inx]
          /\ UNCHANGED <<top, tape, looked>>
     ELSE /\ StoreBytes(base', inx + B, Array(call.v, call.n), 0)
          /\ top' = HeadTop(base', inx)
          /\ call' = Idle
          /\ Pushed(call.v, call.n)
  /\ UNCHANGED <<view, size, out>>

\* malloc fails: "Out of memory", and the program exits.
OutOfMemory ==
  /\ call.op = "push"
  /\ AtEndOfChain
  /\ call' = Exited
  /\ UNCHANGED <<memory, cursor, view, size, caller>>

-----------------------------------------------------------------------------
(* popNarray and lookNarray.  Both fetch n bytes downwards from a block and *)
(* a top; the caller passes the size of the array it expects.               *)

\* x with k bytes of the memory from address a stored from index i on
Fetched(x, i, a, k) ==
  [j \in DOMAIN x |-> IF j \in i .. i + k - 1 THEN mem[a + j - i] ELSE x[j]]

Garbage(n) == [j \in 0 .. n - 1 |-> NoByte]

\* The bytes of the first block that a fetch begins with: nbmax.
Held(b, t) == t - b

FetchBegun(op, n, b, t) ==
  [op |-> op, n |-> n, at |-> Held(b, t), x |-> Fetched(Garbage(n), 0, b, Held(b, t))]

\* One iteration of the loop, on the block at b: a whole block is copied, or
\* what the array still lacks, which is at the end of the block.
\* Mistake: a block that ends exactly with the array is taken for one in its middle.
WholeBlockInclusive == call.at + B <= call.n
WholeBlock == call.at + B < call.n
Lacking == call.n - call.at
FetchBlock(b) == [call EXCEPT !.at = @ + B, !.x = Fetched(@, call.at, b, B)]
\* Mistake: the rest is looked for at the beginning of the block.
FetchRestFromBase(b) == Fetched(call.x, call.at, b, Lacking)
FetchRest(b) == Fetched(call.x, call.at, b + B - Lacking, Lacking)

Popped(x) ==
  /\ out' = x
  /\ tape' = Front(tape)
  /\ looked' = 0

PopFits ==
  /\ call = Idle
  /\ tape # <<>>
  /\ LET n == Last(tape).n IN
     /\ n <= Held(base, top)
     /\ top' = top - n
     /\ size' = size - n
     /\ Popped(Fetched(Garbage(n), 0, top - n, n))
  /\ looking' = FALSE
  /\ UNCHANGED <<memory, base, lbase, ltop, call>>

PopBegin ==
  /\ call = Idle
  /\ tape # <<>>
  /\ LET n == Last(tape).n IN
     /\ n > Held(base, top)
     /\ size' = size - n
     /\ call' = FetchBegun("pop", n, base, top)
  /\ looking' = FALSE
  /\ UNCHANGED <<memory, cursor, lbase, ltop, caller>>

PopBlock ==
  /\ call.op = "pop"
  /\ base' = base - B
  /\ IF WholeBlock
     THEN call' = FetchBlock(base') /\ UNCHANGED <<top, caller>>
     ELSE /\ top' = base' + B - Lacking
          /\ call' = Idle
          /\ Popped(FetchRest(base'))
  /\ UNCHANGED <<memory, view, size>>

\* The array the next look is about.
Sought == tape[Len(tape) - looked]

\* The position a look starts from: the stack's own when none is set.
LookBase == IF looking THEN lbase ELSE base
LookTop  == IF looking THEN ltop ELSE top

LookFits ==
  /\ call = Idle
  /\ looked < Len(tape)
  /\ LET n == Sought.n IN
     /\ n <= Held(LookBase, LookTop)
     /\ looking' = TRUE
     /\ lbase' = LookBase
     /\ ltop' = LookTop - n
     /\ out' = Fetched(Garbage(n), 0, LookTop - n, n)
  /\ looked' = looked + 1
  /\ UNCHANGED <<memory, cursor, size, call, tape>>

LookBegin ==
  /\ call = Idle
  /\ looked < Len(tape)
  /\ Sought.n > Held(LookBase, LookTop)
  /\ looking' = TRUE
  /\ lbase' = LookBase
  /\ ltop' = LookTop
  /\ call' = FetchBegun("look", Sought.n, LookBase, LookTop)
  /\ UNCHANGED <<memory, cursor, size, caller>>

LookBlock ==
  /\ call.op = "look"
  /\ lbase' = lbase - B
  /\ IF WholeBlock
     THEN call' = FetchBlock(lbase') /\ UNCHANGED <<ltop, out, looked>>
     ELSE /\ ltop' = lbase' + B - Lacking
          /\ call' = Idle
          /\ out' = FetchRest(lbase')
          /\ looked' = looked + 1
  /\ UNCHANGED <<memory, cursor, size, looking, tape>>

\* resetadlookstack_
ResetLook ==
  /\ call = Idle
  /\ looking' = FALSE
  /\ looked' = 0
  /\ UNCHANGED <<memory, cursor, lbase, ltop, size, call, out, tape>>

-----------------------------------------------------------------------------
Next ==
  \/ \E v \in Vals, n \in Sizes : PushFits(v, n) \/ PushTail(v, n)
  \/ PushBlock
  \/ OutOfMemory
  \/ PopFits \/ PopBegin \/ PopBlock
  \/ LookFits \/ LookBegin \/ LookBlock
  \/ ResetLook

Spec == Init /\ [][Next]_vars
-----------------------------------------------------------------------------
(* Properties *)

\* The type invariant of the stack; a cursor may point one block below the
\* chain only when nothing was ever pushed.
TypeOK ==
  /\ mem \in [Addresses -> Byte]
  /\ limit \in 0 .. MaxBlocks * B
  /\ base \in -B .. limit - B /\ lbase \in -B .. limit - B
  /\ top \in 0 .. limit /\ ltop \in 0 .. limit
  /\ looking \in BOOLEAN
  /\ size \in Nat
  /\ call.op \in {"idle", "push", "pop", "look", "exit"}
  /\ call.op = "push" => call.at \in 1 .. call.n
  /\ call.op \in {"pop", "look"} => call.at \in 0 .. call.n - 1
  /\ looked \in 0 .. Len(tape)

\* Between calls each pointer points into its block: the unsigned subtractions
\* that give nbmax never wrap around, whatever the sizes were that brought the
\* cursors there.
TopInsideBlock ==
  call = Idle =>
    /\ Room \in 0 .. B
    /\ base >= 0 => Held(base, top) \in 0 .. B
    /\ looking => Held(lbase, ltop) \in 0 .. B

\* A fetch of an array that was pushed never runs below the first block, where
\* the code says "Popping from an empty stack!!!" and goes on with a NULL block.
NeverUnderflows ==
  /\ call.op = "pop"  => base >= B
  /\ call.op = "look" => lbase >= B

\* bigStackSize, which counts the bytes of the calls, is the number of bytes
\* below curStackTop, which printtopplace_ works out from the blocks.
SizeIsPlace == call = Idle => size = top

\* POP and LOOK return the arrays that were PUSHed, last in first out, though
\* an array may be cut over several blocks; a LOOK disturbs neither.
Tapes == INSTANCE Tape WITH
  Items   <- {Array(v, n) : v \in Vals, n \in Sizes},
  Nothing <- <<>>,
  stack   <- [i \in DOMAIN tape |-> Array(tape[i].v, tape[i].n)]
ImplementsTape == Tapes!Spec
=============================================================================
