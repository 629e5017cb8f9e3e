---------------------------- MODULE AdStackProofs ----------------------------
(***************************************************************************)
(* The stack of the adjoint model, for blocks of any size, any number of   *)
(* blocks, arrays of any sizes and any depth: its type invariant, that the *)
(* cursors stay inside their blocks, that no pop or look of an array that  *)
(* was pushed runs below the first block, that bigStackSize is the place   *)
(* of the top, and that it implements the abstract tape of arrays.         *)
(*                                                                         *)
(* None of them is inductive.  What a pop finds in the blocks depends on   *)
(* where its array begins, which no variable of the code holds: the        *)
(* inductive invariant IInv says that there is a layout f of the tape, the *)
(* i-th array taking the addresses f[i] .. f[i+1]-1, and relates every     *)
(* cursor, in every call and between calls, to it.  FInv adds the bytes:   *)
(* which byte of its array each address of the layout holds (an array is   *)
(* stored upwards within a block, but from its end towards its beginning   *)
(* over the blocks), and how much of its array a fetch has already got.    *)
(***************************************************************************)
EXTENDS AdStack, SumLemmas, TLAPS

\* x is the beginning of a block, or where it would be.
Aligned(x) == \E k \in Int : x = k * B

Frames == [v : Vals, n : Sizes]

\* The i-th array of the tape t takes the addresses f[i] .. f[i+1]-1.
Layout(f, t) ==
  /\ f \in [1 .. Len(t) + 1 -> Nat]
  /\ f[1] = 0
  /\ \A i \in 1 .. Len(t) : f[i + 1] = f[i] + t[i].n

Types ==
  /\ mem \in [Addresses -> Byte]
  /\ limit \in Int /\ base \in Int /\ lbase \in Int
  /\ top \in Int /\ ltop \in Int /\ size \in Int
  /\ looking \in BOOLEAN
  /\ tape \in Seq(Frames)
  /\ looked \in 0 .. Len(tape)

PushCall ==
  /\ call = [op |-> "push", v |-> call.v, n |-> call.n, at |-> call.at]
  /\ call.v \in Vals /\ call.n \in Sizes /\ call.at \in 1 .. call.n

FetchCall(o) ==
  /\ call = [op |-> o, n |-> call.n, at |-> call.at, x |-> call.x]
  /\ call.n \in Sizes /\ call.at \in 0 .. call.n - 1

\* The blocks the cursors are in exist, or are the one before the first.
Chain ==
  /\ Aligned(base) /\ Aligned(lbase) /\ Aligned(limit)
  /\ 0 <= limit /\ limit <= MaxBlocks * B
  /\ -B <= base /\ base + B <= limit
  /\ -B <= lbase /\ lbase + B <= limit
  /\ 0 <= top /\ top <= limit
  /\ 0 <= ltop /\ ltop <= limit
  /\ 0 <= size

\* Where the main cursor and bigStackSize are between calls
AtRest(f) ==
  /\ base <= top /\ top <= base + B
  /\ top = f[Len(tape) + 1]
  /\ size = top

IdleState(f) ==
  /\ call = Idle
  /\ AtRest(f)
  /\ looking => lbase <= ltop /\ ltop <= lbase + B /\ ltop = f[Len(tape) + 1 - looked]
  /\ ~looking => looked = 0

PushState(f) ==
  /\ PushCall
  /\ ~looking
  /\ size = f[Len(tape) + 1] + call.n
  /\ base + B = (f[Len(tape) + 1] + call.n) - call.at

PopState(f) ==
  /\ FetchCall("pop")
  /\ ~looking
  /\ tape # <<>> /\ call.n = tape[Len(tape)].n
  /\ size = f[Len(tape)]
  /\ base = (f[Len(tape)] + call.n) - call.at

LookState(f) ==
  /\ FetchCall("look")
  /\ looking
  /\ AtRest(f)
  /\ looked < Len(tape) /\ call.n = tape[Len(tape) - looked].n
  /\ lbase = (f[Len(tape) - looked] + call.n) - call.at

Placed(f) ==
  /\ Layout(f, tape)
  /\ \/ IdleState(f) \/ PushState(f) \/ PopState(f) \/ LookState(f)
     \/ call = Exited

IInv == Types /\ Chain /\ \E f : Placed(f)
-----------------------------------------------------------------------------
(* Blocks, layouts and bytes *)

LEMMA BPos == B \in Nat /\ B > 0
  BY BlockAssumption DEF B

\* A place at most B after the beginning of a block is at most its end.
LEMMA InsideBlock ==
  \A a, k, l \in Int : 0 <= a /\ a + B <= l /\ 0 < k /\ k <= B => 0 <= a + k /\ a + k <= l
  BY BPos

\* What is in a block is in the chain.
LEMMA WithinBlock ==
  \A a, t, l \in Int : 0 <= a /\ a <= t /\ t <= a + B /\ a + B <= l => 0 <= t /\ t <= l
<1> SUFFICES ASSUME NEW a \in Int, NEW t \in Int, NEW l \in Int,
                    0 <= a, a <= t, t <= a + B, a + B <= l
             PROVE  0 <= t /\ t <= l
  OBVIOUS
<1>1. a + B \in Int
  BY BPos
<1> QED
  BY <1>1


LEMMA SizePos == \A n \in Sizes : n \in Int /\ n \in Nat /\ n > 0
  BY SizeAssumption

\* The block after one and the block before one begin where a block does.
LEMMA AlignedStep ==
  ASSUME NEW x, Aligned(x)
  PROVE  x \in Int /\ Aligned(x + B) /\ Aligned(x - B)
<1>1. PICK k \in Int : x = k * B
  BY DEF Aligned
<1>2. x + B = (k + 1) * B /\ x - B = (k - 1) * B /\ x \in Int
  BY <1>1, BPos
<1> QED
  BY <1>2 DEF Aligned

\* Two blocks do not overlap.
LEMMA AlignedGap ==
  ASSUME NEW x, NEW y, Aligned(x), Aligned(y), x < y
  PROVE  x + B <= y
<1>1. PICK k \in Int : x = k * B
  BY DEF Aligned
<1>2. PICK l \in Int : y = l * B
  BY DEF Aligned
<1>3. k < l
  <2>1. SUFFICES ASSUME k >= l PROVE FALSE
    OBVIOUS
  <2>2. (k - l) * B >= 0
    BY <2>1, BPos
  <2> QED
    BY <1>1, <1>2, <2>2, BPos
<1>4. (l - k - 1) * B >= 0
  BY <1>3, BPos
<1>5. (l - k - 1) * B = l * B - k * B - B
  BY BPos
<1> QED
  BY <1>1, <1>2, <1>4, <1>5, BPos

LEMMA AlignedEnds == Aligned(0) /\ Aligned(-B) /\ Aligned(MaxBlocks * B)
<1>1. 0 = 0 * B /\ -B = (-1) * B
  BY BPos
<1> QED
  BY <1>1, BPos, BoundAssumption DEF Aligned

LEMMA AboveFirst ==
  ASSUME NEW x, Aligned(x), -B < x
  PROVE  x >= 0
<1>1. -B + B <= x
  BY AlignedEnds, AlignedGap
<1> QED
  BY <1>1, BPos, AlignedStep

LEMMA MaxChain == MaxBlocks * B \in Int /\ 0 <= MaxBlocks * B
  BY BPos, BoundAssumption

\* A layout of the tape with one array more
LEMMA LayoutAppend ==
  ASSUME NEW t \in Seq(Frames), NEW v \in Vals, NEW n \in Sizes, NEW f, Layout(f, t)
  PROVE  /\ Append(t, Frame(v, n)) \in Seq(Frames)
         /\ Len(Append(t, Frame(v, n))) = Len(t) + 1
         /\ \E g : /\ Layout(g, Append(t, Frame(v, n)))
                  /\ g[Len(t) + 2] = f[Len(t) + 1] + n
<1> DEFINE u == Append(t, Frame(v, n))
           g == [i \in 1 .. Len(t) + 2 |-> IF i = Len(t) + 2 THEN f[Len(t) + 1] + n ELSE f[i]]
<1>1. Frame(v, n) \in Frames /\ Frame(v, n).n = n
  BY DEF Frame, Frames
<1>2. u \in Seq(Frames) /\ Len(u) = Len(t) + 1 /\ Len(t) \in Nat
  BY <1>1
<1>3. u[Len(t) + 1].n = n /\ \A i \in 1 .. Len(t) : u[i] = t[i]
  BY <1>1, <1>2
<1>4. g \in [1 .. Len(u) + 1 -> Nat] /\ g[1] = 0
  BY <1>2, SizeAssumption DEF Layout
<1>5. ASSUME NEW i \in 1 .. Len(u) PROVE g[i + 1] = g[i] + u[i].n
  <2>1. CASE i = Len(t) + 1
    BY <1>2, <1>3, <2>1
  <2>2. CASE i # Len(t) + 1
    <3>1. i \in 1 .. Len(t) /\ i + 1 # Len(t) + 2 /\ i # Len(t) + 2
      BY <1>2, <2>2
    <3>2. g[i + 1] = f[i + 1] /\ g[i] = f[i]
      BY <1>2, <3>1
    <3> QED
      BY <1>3, <3>1, <3>2 DEF Layout
  <2> QED
    BY <2>1, <2>2
<1>6. g[Len(t) + 2] = f[Len(t) + 1] + n
  BY <1>2
<1>7. Layout(g, u)
  BY <1>4, <1>5 DEF Layout
<1> QED
  BY <1>2, <1>6, <1>7

\* A layout of the tape without its last array
LEMMA LayoutFront ==
  ASSUME NEW t \in Seq(Frames), t # <<>>, NEW f, Layout(f, t)
  PROVE  /\ Front(t) \in Seq(Frames)
         /\ Len(Front(t)) = Len(t) - 1
         /\ \E g : Layout(g, Front(t)) /\ g[Len(t)] = f[Len(t)]
<1> DEFINE u == Front(t)
           g == [i \in 1 .. Len(t) |-> f[i]]
<1>1. Len(t) \in Nat /\ Len(t) > 0
  OBVIOUS
<1>2. u = [i \in 1 .. Len(t) - 1 |-> t[i]]
  BY <1>1 DEF Front
<1>3. u \in Seq(Frames) /\ Len(u) = Len(t) - 1 /\ \A i \in 1 .. Len(u) : u[i] = t[i]
  <2>1. \A i \in 1 .. Len(t) - 1 : t[i] \in Frames
    BY <1>1
  <2>2. Len(t) - 1 \in Nat
    BY <1>1
  <2> HIDE DEF u
  <2>3. u \in [1 .. Len(t) - 1 -> Frames]
    BY <1>2, <2>1
  <2>4. u \in Seq(Frames)
    BY <2>2, <2>3
  <2>5. Len(u) = Len(t) - 1
    BY <2>2, <2>3, <2>4
  <2> QED
    BY <1>2, <2>4, <2>5
<1>4. Layout(g, u)
  BY <1>1, <1>2, <1>3 DEF Layout
<1>5. g[Len(t)] = f[Len(t)]
  BY <1>1
<1> QED
  BY <1>3, <1>4, <1>5

\* The place of an array of the tape, and of the end of the array before it
LEMMA LayoutEntry ==
  ASSUME NEW t \in Seq(Frames), NEW f, Layout(f, t), NEW i \in 1 .. Len(t)
  PROVE  /\ t[i].n \in Sizes /\ t[i].n \in Nat \ {0}
         /\ f[i] \in Nat /\ f[i + 1] \in Nat
         /\ f[i + 1] = f[i] + t[i].n
         /\ f[i + 1] > 0
<1>1. t[i].n \in Sizes
  <2>1. t[i] \in Frames
    OBVIOUS
  <2> QED
    BY <2>1 DEF Frames
<1>2. Len(t) \in Nat /\ i \in 1 .. Len(t) + 1 /\ i + 1 \in 1 .. Len(t) + 1
  OBVIOUS
<1>3. f[i] \in Nat /\ f[i + 1] \in Nat
  BY <1>2 DEF Layout
<1>4. f[i + 1] = f[i] + t[i].n
  BY DEF Layout
<1>5. t[i].n \in Nat /\ t[i].n > 0
  BY <1>1, SizePos
<1> QED
  BY <1>1, <1>3, <1>4, <1>5

LEMMA StoredBytes ==
  ASSUME mem \in [Addresses -> Byte],
         NEW v \in Vals, NEW n \in Nat, NEW a \in Int, NEW k \in Int, NEW i \in Nat,
         i + k <= n, StoreBytes(a, k, Array(v, n), i)
  PROVE  mem' \in [Addresses -> Byte]
<1>1. ASSUME NEW c \in Addresses, c \in a .. a + k - 1 PROVE Array(v, n)[i + c - a] \in Byte
  <2>1. c \in Int /\ i + c - a \in 0 .. n - 1
    BY <1>1, BPos, BoundAssumption DEF Addresses
  <2>2. Array(v, n)[i + c - a] = <<v, i + c - a>>
    BY <2>1 DEF Array
  <2> QED
    BY <2>1, <2>2 DEF Byte
<1> QED
  BY <1>1 DEF StoreBytes

-----------------------------------------------------------------------------
(* The inductive invariant: one lemma per action *)

LEMMA InitInv == Init => IInv
<1> SUFFICES ASSUME Init PROVE IInv
  OBVIOUS
<1> DEFINE f == [i \in 1 .. 1 |-> 0]
<1>1. tape = <<>> /\ Len(tape) = 0 /\ Len(tape) \in Nat
  BY DEF Init
<1>2. Types
  <2>1. mem \in [Addresses -> Byte]
    BY DEF Init, Byte
  <2>2. tape \in Seq(Frames) /\ looked \in 0 .. Len(tape)
    BY <1>1 DEF Init
  <2>3. limit \in Int /\ base \in Int /\ lbase \in Int /\ top \in Int /\ ltop \in Int
    BY BPos DEF Init
  <2> QED
    BY <2>1, <2>2, <2>3 DEF Types, Init
<1>3. Chain
  BY AlignedEnds, BPos, BoundAssumption, MaxChain DEF Chain, Init
<1>4. Layout(f, tape)
  BY <1>1 DEF Layout
<1>5. IdleState(f)
  BY <1>1, BPos DEF IdleState, AtRest, Init
<1> QED
  BY <1>2, <1>3, <1>4, <1>5 DEF IInv, Placed

\* A call in progress is the one its operation names.
LEMMA CallOps ==
  ASSUME NEW f, Placed(f)
  PROVE  /\ call = Idle => IdleState(f)
         /\ call.op = "push" => PushState(f)
         /\ call.op = "pop" => PopState(f)
         /\ call.op = "look" => LookState(f)
<1>1. Idle.op = "idle" /\ Exited.op = "exit"
  BY DEF Idle, Exited
<1>2. IdleState(f) => call = Idle
  BY DEF IdleState
<1>3. PushState(f) => call.op = "push"
  BY DEF PushState, PushCall
<1>4. PopState(f) => call.op = "pop"
  BY DEF PopState, FetchCall
<1>5. LookState(f) => call.op = "look"
  BY DEF LookState, FetchCall
<1> QED
  BY <1>1, <1>2, <1>3, <1>4, <1>5 DEF Placed

\* With arrays on the stack the main cursor is in a block, and so is a look's.
LEMMA CursorsInBlocks ==
  ASSUME Types, Chain, NEW f, Layout(f, tape), IdleState(f)
  PROVE  /\ base <= top /\ top <= base + B
         /\ tape # <<>> => base >= 0
         /\ looked < Len(tape) =>
              /\ LookBase \in Int /\ LookTop \in Int
              /\ 0 <= LookBase /\ LookBase <= LookTop /\ LookTop <= LookBase + B
              /\ LookBase + B <= limit /\ LookTop <= limit
              /\ Aligned(LookBase)
              /\ LookTop = f[Len(tape) - looked + 1]
<1> USE DEF Types
<1>1. base <= top /\ top <= base + B
  BY DEF IdleState, AtRest
<1>2. ASSUME tape # <<>> PROVE base >= 0
  <2>1. Len(tape) \in 1 .. Len(tape) /\ Len(tape) \in Nat
    BY <1>2
  <2>2. f[Len(tape) + 1] > 0
    BY <2>1, LayoutEntry
  <2>3. -B < base
    BY <2>2, BPos DEF IdleState, AtRest
  <2> QED
    BY <2>3, AboveFirst DEF Chain
<1>3. ASSUME looked < Len(tape)
      PROVE  /\ LookBase \in Int /\ LookTop \in Int
             /\ 0 <= LookBase /\ LookBase <= LookTop /\ LookTop <= LookBase + B
             /\ LookBase + B <= limit /\ LookTop <= limit
             /\ Aligned(LookBase)
             /\ LookTop = f[Len(tape) - looked + 1]
  <2>1. CASE ~looking
    <3>1. looked = 0 /\ LookBase = base /\ LookTop = top /\ Len(tape) \in Nat
      BY <2>1 DEF IdleState, LookBase, LookTop
    <3>2. tape # <<>>
      BY <1>3, <3>1
    <3>3. LookTop = f[Len(tape) - looked + 1]
      BY <3>1 DEF IdleState, AtRest
    <3> QED
      BY <1>1, <1>2, <3>1, <3>2, <3>3 DEF Chain
  <2>2. CASE looking
    <3>1. LookBase = lbase /\ LookTop = ltop /\ Len(tape) \in Nat
      BY <2>2 DEF LookBase, LookTop
    <3>2. Len(tape) - looked \in 1 .. Len(tape)
      BY <1>3, <3>1
    <3>3. Len(tape) + 1 - looked = Len(tape) - looked + 1
      BY <3>1
    <3>4. ltop = f[Len(tape) - looked + 1] /\ lbase <= ltop /\ ltop <= lbase + B
      BY <2>2, <3>3 DEF IdleState
    <3>5. f[Len(tape) - looked + 1] > 0
      <4> DEFINE i == Len(tape) - looked
      <4>1. i \in 1 .. Len(tape)
        BY <3>2
      <4> HIDE DEF i
      <4>2. f[i + 1] > 0
        BY <4>1, LayoutEntry
      <4> QED
        BY <4>2 DEF i
    <3>6. lbase >= 0
      <4>1. -B < lbase
        BY <3>4, <3>5, BPos
      <4> QED
        BY <4>1, AboveFirst DEF Chain
    <3> QED
      BY <3>1, <3>4, <3>6 DEF Chain
  <2> QED
    BY <2>1, <2>2
<1> QED
  BY <1>1, <1>2, <1>3

LEMMA PushFitsInv ==
  ASSUME IInv, NEW v \in Vals, NEW n \in Sizes, PushFits(v, n)
  PROVE  IInv'
<1>1. Types /\ Chain
  BY DEF IInv
<1>2. PICK f : Layout(f, tape) /\ IdleState(f)
  BY CallOps DEF IInv, Placed, PushFits
<1>3. tape \in Seq(Frames) /\ Len(tape) \in Nat
  BY <1>1 DEF Types
<1>4. /\ tape' = Append(tape, Frame(v, n)) /\ looked' = 0 /\ looking' \in BOOLEAN /\ ~looking'
      /\ top' = top + n /\ size' = size + n
      /\ UNCHANGED <<limit, base, lbase, ltop, call>> /\ call = Idle
      /\ n <= base + B - top
  BY DEF PushFits, Pushed, Room
<1>5. tape' \in Seq(Frames) /\ Len(tape') = Len(tape) + 1
  BY <1>2, <1>3, <1>4, LayoutAppend
<1>6. PICK g : Layout(g, tape') /\ g[Len(tape) + 2] = f[Len(tape) + 1] + n
  BY <1>2, <1>3, <1>4, LayoutAppend
<1>7. mem' \in [Addresses -> Byte]
  <2>1. mem \in [Addresses -> Byte] /\ top \in Int /\ n \in Nat /\ n \in Int /\ 0 \in Nat /\ 0 + n <= n
    BY <1>1, SizePos DEF Types
  <2>2. StoreBytes(top, n, Array(v, n), 0)
    BY DEF PushFits
  <2> QED
    BY <2>1, <2>2, StoredBytes
<1>8. Types'
  BY <1>1, <1>3, <1>4, <1>5, <1>7, SizePos DEF Types
<1>9. Chain'
  BY <1>1, <1>4, BPos, MaxChain, SizePos DEF Chain, Types
<1>10. IdleState(g)'
  <2>1. base <= top /\ top = f[Len(tape) + 1] /\ size = top
    BY <1>2 DEF IdleState, AtRest
  <2>2. g[Len(tape') + 1] = f[Len(tape) + 1] + n
    BY <1>3, <1>5, <1>6
  <2>3. base <= top + n /\ top + n <= base + B
    <3>1. base \in Int /\ top \in Int /\ n \in Int /\ n > 0 /\ n <= base + B - top
      BY <1>1, <1>4, SizePos DEF Types
    <3> QED
      BY <2>1, <3>1, BPos
  <2>4. AtRest(g)'
    BY <1>4, <2>1, <2>2, <2>3 DEF AtRest
  <2> QED
    BY <1>4, <2>4 DEF IdleState
<1> QED
  BY <1>6, <1>8, <1>9, <1>10 DEF IInv, Placed

LEMMA PushTailInv ==
  ASSUME IInv, NEW v \in Vals, NEW n \in Sizes, PushTail(v, n)
  PROVE  IInv'
<1>1. Types /\ Chain
  BY DEF IInv
<1>2. PICK f : Layout(f, tape) /\ IdleState(f)
  BY CallOps DEF IInv, Placed, PushTail
<1>3. /\ call' = [op |-> "push", v |-> v, n |-> n, at |-> n - Room]
      /\ size' = size + n /\ looking' \in BOOLEAN /\ ~looking'
      /\ UNCHANGED <<limit, base, top, lbase, ltop, tape, looked>>
      /\ n > Room
  BY DEF PushTail, cursor, caller
<1>4. Room = base + B - top /\ Room \in Nat
  BY <1>1, <1>2, BPos DEF IdleState, AtRest, Room, Types
<1>5. mem' \in [Addresses -> Byte]
  <2> DEFINE i == n - Room
  <2>1. i \in Nat /\ i + Room <= n /\ top \in Int /\ n \in Nat /\ Room \in Int
    BY <1>1, <1>3, <1>4, SizePos DEF Types
  <2>2. StoreBytes(top, Room, Array(v, n), i)
    BY DEF PushTail
  <2> HIDE DEF i
  <2>3. mem \in [Addresses -> Byte]
    BY <1>1 DEF Types
  <2> QED
    BY <2>1, <2>2, <2>3, StoredBytes
<1>6. Types'
  BY <1>1, <1>3, <1>5, SizePos DEF Types
<1>7. Chain'
  BY <1>1, <1>3, SizePos DEF Chain, Types
<1>8. PushState(f)'
  <2>1. call'.v = v /\ call'.n = n /\ call'.at = n - Room /\ call'.op = "push"
    BY <1>3
  <2>2. n - Room \in 1 .. n
    BY <1>3, <1>4, SizePos
  <2>3. PushCall'
    BY <1>3, <2>1, <2>2 DEF PushCall
  <2>4. top = f[Len(tape) + 1] /\ size = top
    BY <1>2 DEF IdleState, AtRest
  <2>5. base + B = (f[Len(tape) + 1] + n) - (n - Room)
    <3>1. n - (n - Room) = Room /\ Room \in Int /\ n \in Int
      BY <1>4, SizePos
    <3>2. base + B = top + Room
      BY <1>1, <1>4, BPos DEF Types
    <3>3. top + Room = (top + n) - (n - Room)
      BY <1>1, <3>1 DEF Types
    <3> QED
      BY <2>4, <3>2, <3>3
  <2> QED
    BY <1>3, <2>1, <2>3, <2>4, <2>5 DEF PushState
<1>9. Layout(f, tape')
  BY <1>2, <1>3
<1> QED
  BY <1>6, <1>7, <1>8, <1>9 DEF IInv, Placed

LEMMA OutOfMemoryInv ==
  ASSUME IInv, OutOfMemory
  PROVE  IInv'
<1>1. UNCHANGED <<mem, limit, base, top, looking, lbase, ltop, size, tape, looked>> /\ call' = Exited
  BY DEF OutOfMemory, memory, cursor, view, caller
<1>2. Types' /\ Chain'
  BY <1>1 DEF IInv, Types, Chain
<1>3. \E f : Layout(f, tape')
  BY <1>1 DEF IInv, Placed
<1> QED
  BY <1>1, <1>2, <1>3 DEF IInv, Placed

\* The block the loop of a push goes to
LEMMA PushNextBlock ==
  ASSUME Chain, Types,
         \/ ~AtEndOfChain /\ UNCHANGED limit
         \/ AtEndOfChain /\ limit < MaxBlocks * B /\ limit' = limit + B,
         base' = base + B
  PROVE  /\ limit' \in Int /\ base' \in Int /\ Aligned(limit') /\ Aligned(base')
         /\ limit <= limit' /\ limit' <= MaxBlocks * B
         /\ 0 <= base' /\ base' + B <= limit'
<1>1. Aligned(base) /\ Aligned(limit) /\ base \in Int /\ limit \in Int
  BY DEF Chain, Types
<1>2. Aligned(base + B) /\ Aligned(limit + B) /\ base + B \in Int
  BY <1>1, AlignedStep, BPos
<1>3. CASE ~AtEndOfChain /\ UNCHANGED limit
  <2>1. base + B < limit
    BY <1>1, <1>3, BPos DEF AtEndOfChain, Chain
  <2>2. base + B + B <= limit
    BY <1>1, <1>2, <2>1, AlignedGap
  <2> QED
    BY <1>1, <1>2, <1>3, <2>2, BPos, MaxChain DEF Chain
<1>4. CASE AtEndOfChain /\ limit < MaxBlocks * B /\ limit' = limit + B
  <2>1. limit + B <= MaxBlocks * B
    BY <1>1, <1>4, AlignedEnds, AlignedGap
  <2> QED
    BY <1>1, <1>2, <1>4, <2>1, BPos, MaxChain DEF Chain, AtEndOfChain
<1> QED
  BY <1>3, <1>4

LEMMA PushBlockInv ==
  ASSUME IInv, PushBlock
  PROVE  IInv'
<1> DEFINE inx == call.at - B
<1>1. Types /\ Chain
  BY DEF IInv
<1>2. PICK f : Layout(f, tape) /\ PushState(f)
  BY CallOps DEF IInv, Placed, PushBlock
<1>3. /\ call.v \in Vals /\ call.n \in Sizes /\ call.at \in 1 .. call.n
      /\ call.n \in Nat /\ call.at \in Int /\ 0 < call.at /\ call.at <= call.n
  BY <1>2, SizePos DEF PushState, PushCall
<1>4. /\ limit' \in Int /\ base' \in Int /\ Aligned(limit') /\ Aligned(base')
      /\ limit <= limit' /\ limit' <= MaxBlocks * B
      /\ 0 <= base' /\ base' + B <= limit'
  BY <1>1, PushNextBlock DEF PushBlock
<1>5. base' = base + B /\ base' = (f[Len(tape) + 1] + call.n) - call.at
  BY <1>2 DEF PushBlock, PushState
<1>6. /\ UNCHANGED <<lbase, ltop, size>> /\ UNCHANGED looking /\ ~looking /\ looking \in BOOLEAN
      /\ size = f[Len(tape) + 1] + call.n
  BY <1>1, <1>2 DEF PushBlock, PushState, view, Types
<1>7. mem \in [Addresses -> Byte]
  BY <1>1 DEF Types
<1>8. CASE inx > 0
  <2>1. /\ StoreBytes(base', B, Array(call.v, call.n), inx)
        /\ call' = [call EXCEPT !.at = inx]
        /\ UNCHANGED <<top, tape, looked>>
    BY <1>8 DEF PushBlock
  <2>2. mem' \in [Addresses -> Byte]
    <3>1. inx \in Nat /\ inx + B <= call.n /\ B \in Int
      BY <1>3, <1>8, BPos
    <3> QED
      BY <1>3, <1>4, <1>7, <2>1, <3>1, StoredBytes
  <2>3. Types'
    BY <1>1, <1>4, <1>6, <2>1, <2>2 DEF Types
  <2>4. Chain'
    BY <1>1, <1>4, <1>6, <2>1, BPos DEF Chain, Types
  <2>5. PushState(f)'
    <3>1. call' = [op |-> "push", v |-> call.v, n |-> call.n, at |-> inx]
      BY <1>2, <2>1 DEF PushState, PushCall
    <3>2. call'.v = call.v /\ call'.n = call.n /\ call'.at = inx
      BY <3>1
    <3>3. inx \in 1 .. call.n
      BY <1>3, <1>8, BPos
    <3>4. PushCall'
      BY <1>3, <3>1, <3>2, <3>3 DEF PushCall
    <3>5. base' + B = (f[Len(tape) + 1] + call.n) - inx
      <4>1. f[Len(tape) + 1] \in Int
        BY <1>1, <1>2 DEF Layout, Types
      <4> QED
        BY <1>3, <1>5, <4>1, BPos
    <3> QED
      BY <1>6, <2>1, <3>2, <3>4, <3>5 DEF PushState
  <2> QED
    BY <1>2, <2>1, <2>3, <2>4, <2>5 DEF IInv, Placed
<1>9. CASE ~(inx > 0)
  <2>1. /\ StoreBytes(base', inx + B, Array(call.v, call.n), 0)
        /\ top' = HeadTop(base', inx)
        /\ call' = Idle
        /\ tape' = Append(tape, Frame(call.v, call.n)) /\ looked' = 0
    BY <1>9 DEF PushBlock, Pushed
  <2>2. mem' \in [Addresses -> Byte]
    <3>1. inx + B \in Int /\ 0 + (inx + B) <= call.n /\ 0 \in Nat
      BY <1>3, BPos
    <3> DEFINE k == inx + B
    <3>2. StoreBytes(base', k, Array(call.v, call.n), 0) /\ k \in Int /\ 0 + k <= call.n
      BY <2>1, <3>1
    <3> HIDE DEF k
    <3> QED
      BY <1>3, <1>4, <1>7, <3>1, <3>2, StoredBytes
  <2>3. tape \in Seq(Frames) /\ Len(tape) \in Nat
    BY <1>1 DEF Types
  <2>4. tape' \in Seq(Frames) /\ Len(tape') = Len(tape) + 1
    BY <1>2, <1>3, <2>1, <2>3, LayoutAppend
  <2>5. PICK g : Layout(g, tape') /\ g[Len(tape) + 2] = f[Len(tape) + 1] + call.n
    BY <1>2, <1>3, <2>1, <2>3, LayoutAppend
  <2>6. top' = base' + call.at
    BY <1>3, <1>4, <2>1, BPos DEF HeadTop
  <2>7. Types'
    BY <1>1, <1>3, <1>4, <1>6, <2>1, <2>2, <2>4, <2>6 DEF Types
  <2>8. Chain'
    <3>1. 0 <= top' /\ top' <= limit'
      <4>1. 0 < call.at /\ call.at <= B /\ call.at \in Int
        BY <1>3, <1>9, BPos
      <4>2. base' \in Int /\ limit' \in Int /\ 0 <= base' /\ base' + B <= limit'
        BY <1>4
      <4> QED
        BY <2>6, <4>1, <4>2, BPos, InsideBlock
    <3>2. 0 <= limit' /\ -B <= base' /\ lbase + B <= limit' /\ ltop <= limit'
      BY <1>1, <1>4, BPos DEF Chain, Types
    <3> QED
      BY <1>1, <1>4, <1>6, <3>1, <3>2 DEF Chain
  <2>9. AtRest(g)'
    <3>1. f[Len(tape) + 1] \in Int
      BY <1>1, <1>2 DEF Layout, Types
    <3>2. top' = f[Len(tape) + 1] + call.n
      BY <1>3, <1>5, <2>6, <3>1
    <3>3. g[Len(tape') + 1] = f[Len(tape) + 1] + call.n
      BY <2>3, <2>4, <2>5
    <3> QED
      BY <1>3, <1>4, <1>6, <1>9, <2>6, <3>2, <3>3, BPos DEF AtRest
  <2>10. IdleState(g)'
    BY <1>6, <2>1, <2>9 DEF IdleState
  <2> QED
    BY <2>5, <2>7, <2>8, <2>10 DEF IInv, Placed
<1> QED
  BY <1>8, <1>9

LEMMA PopFitsInv ==
  ASSUME IInv, PopFits
  PROVE  IInv'
<1> DEFINE n == tape[Len(tape)].n
<1>1. Types /\ Chain
  BY DEF IInv
<1>2. PICK f : Layout(f, tape) /\ IdleState(f)
  BY CallOps DEF IInv, Placed, PopFits
<1>3. tape \in Seq(Frames) /\ tape # <<>> /\ Len(tape) \in Nat /\ Len(tape) \in 1 .. Len(tape)
  BY <1>1 DEF Types, PopFits
<1>4. /\ n <= top - base /\ top' = top - n /\ size' = size - n
      /\ tape' = Front(tape) /\ looked' = 0 /\ looking' \in BOOLEAN /\ ~looking'
      /\ UNCHANGED <<mem, limit, base, lbase, ltop, call>> /\ call = Idle
  BY DEF PopFits, Popped, Last, Held, memory
<1>5. /\ n \in Sizes /\ n \in Int /\ n > 0
      /\ f[Len(tape)] \in Int /\ f[Len(tape)] >= 0
      /\ f[Len(tape) + 1] = f[Len(tape)] + n
      /\ base \in Int /\ top \in Int /\ limit \in Int /\ size \in Int
  BY <1>1, <1>2, <1>3, LayoutEntry, SizePos DEF Types
<1>6. tape' \in Seq(Frames) /\ Len(tape') = Len(tape) - 1
  BY <1>2, <1>3, <1>4, LayoutFront
<1>7. PICK g : Layout(g, tape') /\ g[Len(tape)] = f[Len(tape)]
  BY <1>2, <1>3, <1>4, LayoutFront
<1>8. base <= top /\ top <= base + B /\ top = f[Len(tape) + 1] /\ size = top
  BY <1>2 DEF IdleState, AtRest
<1>9. base >= 0
  BY <1>1, <1>2, <1>3, CursorsInBlocks
<1> HIDE DEF n
<1>10. Types'
  BY <1>1, <1>3, <1>4, <1>5, <1>6 DEF Types
<1>11. Chain'
  <2>1. top - n = f[Len(tape)] /\ size - n = f[Len(tape)]
    BY <1>5, <1>8
  <2>2. 0 <= top' /\ 0 <= size'
    BY <1>4, <1>5, <2>1
  <2>3. top' <= limit'
    <3>1. top - n <= top /\ top <= limit
      BY <1>1, <1>5 DEF Chain
    <3> QED
      BY <1>4, <1>5, <3>1
  <2> QED
    BY <1>1, <1>4, <2>2, <2>3 DEF Chain
<1>12. AtRest(g)'
  <2>1. g[Len(tape') + 1] = f[Len(tape)]
    BY <1>3, <1>6, <1>7
  <2>2. base <= top - n /\ top - n <= base + B
    <3>1. n <= top - base
      BY <1>4
    <3> QED
      BY <1>5, <1>8, <3>1, BPos
  <2>3. top - n = f[Len(tape)] /\ size - n = f[Len(tape)]
    BY <1>5, <1>8
  <2> QED
    BY <1>4, <2>1, <2>2, <2>3 DEF AtRest
<1>13. IdleState(g)'
  BY <1>4, <1>12 DEF IdleState
<1> QED
  BY <1>7, <1>10, <1>11, <1>13 DEF IInv, Placed

LEMMA PopBeginInv ==
  ASSUME IInv, PopBegin
  PROVE  IInv'
<1> DEFINE n == tape[Len(tape)].n
<1>1. Types /\ Chain
  BY DEF IInv
<1>2. PICK f : Layout(f, tape) /\ IdleState(f)
  BY CallOps DEF IInv, Placed, PopBegin
<1>3. tape \in Seq(Frames) /\ tape # <<>> /\ Len(tape) \in Nat /\ Len(tape) \in 1 .. Len(tape)
  BY <1>1 DEF Types, PopBegin
<1>4. /\ call' = [op |-> "pop", n |-> n, at |-> top - base, x |-> Fetched(Garbage(n), 0, base, top - base)]
      /\ UNCHANGED <<mem, limit, base, top, lbase, ltop, tape, looked>>
      /\ looking' \in BOOLEAN /\ ~looking'
  BY DEF PopBegin, Last, Held, FetchBegun, memory, cursor, caller
<1>5. /\ n \in Sizes /\ n \in Int /\ n > 0
      /\ f[Len(tape)] \in Int /\ f[Len(tape)] >= 0
      /\ f[Len(tape) + 1] = f[Len(tape)] + n
      /\ base \in Int /\ top \in Int /\ limit \in Int /\ size \in Int
  BY <1>1, <1>2, <1>3, LayoutEntry, SizePos DEF Types
<1>6. base <= top /\ top <= base + B /\ top = f[Len(tape) + 1] /\ size = top
  BY <1>2 DEF IdleState, AtRest
<1>14. n > top - base /\ size' = size - n
  BY DEF PopBegin, Last, Held
<1> DEFINE X == Fetched(Garbage(n), 0, base, top - base)
<1>7. call' = [op |-> "pop", n |-> n, at |-> top - base, x |-> X]
  BY <1>4
<1>8. tape[Len(tape)].n = n
  OBVIOUS
<1> HIDE DEF n, X
<1>9. Types'
  BY <1>1, <1>4, <1>5, <1>14 DEF Types
<1>15. size' = f[Len(tape)]
  <2>1. size = f[Len(tape)] + n
    BY <1>5, <1>6
  <2>2. (f[Len(tape)] + n) - n = f[Len(tape)]
    BY <1>5
  <2> QED
    BY <1>14, <2>1, <2>2
<1>10. Chain'
  <2>1. 0 <= size'
    BY <1>5, <1>15
  <2> QED
    BY <1>1, <1>4, <2>1 DEF Chain
<1>11. PopState(f)'
  <2>1. call'.n = n /\ call'.at = top - base /\ call'.x = X
    BY <1>7
  <2>2. top - base \in 0 .. n - 1
    <3>1. top - base \in Int /\ 0 <= top - base
      BY <1>5, <1>6
    <3> QED
      BY <1>5, <1>14, <3>1
  <2>3. FetchCall("pop")'
    BY <1>5, <1>7, <2>1, <2>2 DEF FetchCall
  <2>4. size' = f[Len(tape)] /\ base = (f[Len(tape)] + n) - (top - base)
    <3> DEFINE q == f[Len(tape)] + n
    <3>1. top = q /\ q \in Int
      BY <1>5, <1>6
    <3> HIDE DEF q
    <3>2. base = q - (top - base)
      BY <1>5, <3>1
    <3> QED
      BY <1>15, <3>2 DEF q
  <2> QED
    BY <1>3, <1>4, <1>8, <2>1, <2>3, <2>4 DEF PopState
<1>12. Layout(f, tape')
  BY <1>2, <1>4
<1> QED
  BY <1>9, <1>10, <1>11, <1>12 DEF IInv, Placed

\* The block a fetch that still lacks something goes down to: it exists.
LEMMA BlockBelow ==
  ASSUME NEW b, Aligned(b), NEW p \in Nat, NEW n \in Int, NEW at \in Int, at < n, b = (p + n) - at
  PROVE  /\ b \in Int /\ b >= B
         /\ Aligned(b - B) /\ b - B \in Int /\ 0 <= b - B
<1>1. b \in Int /\ Aligned(b - B)
  BY AlignedStep
<1>2. 0 < b
  BY <1>1
<1>3. B <= b
  <2>1. 0 + B <= b
    BY <1>1, <1>2, AlignedEnds, AlignedGap
  <2> QED
    BY <2>1, BPos
<1> QED
  BY <1>1, <1>3, BPos

LEMMA PopBlockInv ==
  ASSUME IInv, PopBlock
  PROVE  IInv'
<1> DEFINE n == call.n
           at == call.at
           p == Len(tape)
<1>1. Types /\ Chain
  BY DEF IInv
<1>2. PICK f : Layout(f, tape) /\ PopState(f)
  BY CallOps DEF IInv, Placed, PopBlock
<1>3. tape \in Seq(Frames) /\ tape # <<>> /\ p \in Nat /\ p \in 1 .. p
  BY <1>1, <1>2 DEF Types, PopState
<1>4. n \in Sizes /\ n \in Int /\ at \in Int /\ 0 <= at /\ at < n
  BY <1>2, SizePos DEF PopState, FetchCall
<1>5. f[p] \in Nat /\ base = (f[p] + n) - at /\ size = f[p] /\ tape[p].n = n
  BY <1>2, <1>3, LayoutEntry DEF PopState
<1>6. /\ base \in Int /\ base >= B
      /\ Aligned(base - B) /\ base - B \in Int /\ 0 <= base - B
  <2>1. Aligned(base)
    BY <1>1 DEF Chain
  <2> HIDE DEF n, at, p
  <2> QED
    BY <1>4, <1>5, <2>1, BlockBelow
<1>7. /\ base' = base - B
      /\ UNCHANGED <<mem, limit, lbase, ltop, size>> /\ UNCHANGED looking /\ ~looking /\ looking \in BOOLEAN
  BY <1>1, <1>2 DEF PopBlock, PopState, memory, view, Types
<1>8. /\ Aligned(base') /\ base' \in Int /\ 0 <= base' /\ -B <= base' /\ base' + B <= limit'
  BY <1>1, <1>6, <1>7, BPos DEF Chain, Types
<1>9. CASE WholeBlock
  <2> DEFINE X == Fetched(call.x, at, base', B)
  <2>1. call' = [call EXCEPT !.at = at + B, !.x = X] /\ UNCHANGED <<top, tape, looked>>
    BY <1>9 DEF PopBlock, FetchBlock, caller
  <2> HIDE DEF X
  <2>2. at + B < n
    BY <1>9 DEF WholeBlock
  <2>3. call' = [op |-> "pop", n |-> n, at |-> at + B, x |-> X]
    <3> DEFINE y == call.x
    <3>1. call = [op |-> "pop", n |-> n, at |-> at, x |-> y]
      BY <1>2 DEF PopState, FetchCall
    <3>2. call' = [call EXCEPT !.at = at + B, !.x = X]
      BY <2>1
    <3> HIDE DEF n, at, y
    <3> QED
      BY <3>1, <3>2
  <2>4. call'.n = n /\ call'.at = at + B /\ call'.x = X
    BY <2>3
  <2>5. at + B \in 0 .. n - 1
    BY <1>4, <2>2, BPos
  <2>6. FetchCall("pop")'
    BY <1>4, <2>3, <2>4, <2>5 DEF FetchCall
  <2>7. base' = (f[p] + n) - (at + B)
    <3> HIDE DEF n, at, p
    <3> DEFINE q == f[p] + n
    <3>1. q \in Int /\ base = q - at
      BY <1>4, <1>5
    <3> HIDE DEF q
    <3>2. base - B = q - (at + B)
      BY <1>4, <3>1, BPos
    <3> QED
      BY <1>7, <3>2 DEF q
  <2>8. PopState(f)'
    BY <1>3, <1>5, <1>7, <2>1, <2>4, <2>6, <2>7 DEF PopState
  <2>9. Types'
    BY <1>1, <1>7, <1>8, <2>1 DEF Types
  <2>10. Chain'
    BY <1>1, <1>7, <1>8, <2>1 DEF Chain
  <2> QED
    BY <1>2, <2>1, <2>8, <2>9, <2>10 DEF IInv, Placed
<1>10. CASE ~WholeBlock
  <2>1. /\ top' = base' + B - (n - at) /\ call' = Idle
        /\ tape' = Front(tape) /\ looked' = 0
    BY <1>10 DEF PopBlock, Popped, Lacking
  <2>2. n <= at + B
    BY <1>4, <1>10, BPos DEF WholeBlock
  <2>3. tape' \in Seq(Frames) /\ Len(tape') = p - 1
    BY <1>2, <1>3, <2>1, LayoutFront
  <2>4. PICK g : Layout(g, tape') /\ g[p] = f[p]
    BY <1>2, <1>3, <2>1, LayoutFront
  <2>5. top' = f[p]
    <3> DEFINE rest == n - at
    <3>1. rest \in Int /\ base = f[p] + rest
      BY <1>4, <1>5
    <3>2. top' = (base - B) + B - rest
      BY <1>7, <2>1
    <3> HIDE DEF n, at, p, rest
    <3>3. (base - B) + B - rest = base - rest
      BY <1>6, <3>1, BPos
    <3>4. base - rest = f[p]
      BY <1>5, <3>1
    <3> QED
      BY <3>2, <3>3, <3>4
  <2>6. top' \in Int /\ base' <= top' /\ top' <= base' + B
    <3> DEFINE rest == n - at
    <3>1. rest \in Int /\ 0 < rest /\ rest <= B /\ base = f[p] + rest
      BY <1>4, <1>5, <2>2, BPos
    <3> HIDE DEF n, at, p, rest
    <3>2. f[p] \in Int /\ base - B <= f[p]
      BY <1>5, <1>6, <3>1, BPos
    <3>3. (base - B) + B = base /\ f[p] <= base
      BY <1>5, <1>6, <3>1, BPos
    <3> QED
      BY <1>7, <2>5, <3>2, <3>3
  <2>7. 0 <= top' /\ top' <= limit'
    <3>1. limit' \in Int
      BY <1>1, <1>7 DEF Types
    <3> QED
      BY <1>8, <2>6, <3>1, WithinBlock
  <2>8. Types'
    BY <1>1, <1>7, <1>8, <2>1, <2>3, <2>6 DEF Types
  <2>9. Chain'
    BY <1>1, <1>7, <1>8, <2>7 DEF Chain
  <2>10. AtRest(g)'
    <3>1. g[Len(tape') + 1] = f[p]
      BY <1>3, <2>3, <2>4
    <3> QED
      BY <1>5, <1>7, <2>5, <2>6, <3>1 DEF AtRest
  <2>11. IdleState(g)'
    BY <1>7, <2>1, <2>10 DEF IdleState
  <2> QED
    BY <2>4, <2>8, <2>9, <2>11 DEF IInv, Placed
<1> QED
  BY <1>9, <1>10

\* The array a look is about, when there is one left to look at
LEMMA SoughtEntry ==
  ASSUME Types, NEW f, Layout(f, tape), looked < Len(tape)
  PROVE  /\ Len(tape) \in Nat /\ looked \in Int /\ Len(tape) - looked \in 1 .. Len(tape)
         /\ Sought.n \in Sizes /\ Sought.n \in Int /\ Sought.n > 0
         /\ f[Len(tape) - looked] \in Int /\ f[Len(tape) - looked] >= 0
         /\ f[Len(tape) - looked + 1] = f[Len(tape) - looked] + Sought.n
<1>1. tape \in Seq(Frames) /\ Len(tape) \in Nat /\ looked \in Int /\ 0 <= looked
  BY DEF Types
<1> DEFINE i == Len(tape) - looked
<1>2. i \in 1 .. Len(tape)
  BY <1>1
<1> HIDE DEF i
<1>3. /\ tape[i].n \in Sizes /\ f[i] \in Int /\ f[i] >= 0 /\ f[i + 1] = f[i] + tape[i].n
  BY <1>1, <1>2, LayoutEntry
<1> QED
  BY <1>1, <1>2, <1>3, SizePos DEF i, Sought

LEMMA LookFitsInv ==
  ASSUME IInv, LookFits
  PROVE  IInv'
<1> DEFINE n == Sought.n
           p == Len(tape) - looked
<1>1. Types /\ Chain
  BY DEF IInv
<1>2. PICK f : Layout(f, tape) /\ IdleState(f)
  BY CallOps DEF IInv, Placed, LookFits
<1>3. /\ Len(tape) \in Nat /\ looked \in Int /\ p \in 1 .. Len(tape)
      /\ n \in Int /\ n > 0 /\ f[p] \in Int /\ f[p] >= 0 /\ f[p + 1] = f[p] + n
  BY <1>1, <1>2, SoughtEntry DEF LookFits
<1>4. /\ LookBase \in Int /\ LookTop \in Int
      /\ 0 <= LookBase /\ LookBase <= LookTop /\ LookTop <= LookBase + B
      /\ LookBase + B <= limit /\ LookTop <= limit
      /\ Aligned(LookBase) /\ LookTop = f[p + 1]
  BY <1>1, <1>2, CursorsInBlocks DEF LookFits
<1>5. lbase' = LookBase /\ ltop' = LookTop - n /\ n <= LookTop - LookBase
  BY DEF LookFits, Held
<1>6. /\ looking' \in BOOLEAN /\ looking'
      /\ UNCHANGED <<mem, limit, base, top, size, call, tape>> /\ looked' = looked + 1 /\ call = Idle
  BY DEF LookFits, memory, cursor
<1> HIDE DEF n
<1>7. /\ lbase' \in Int /\ ltop' \in Int /\ 0 <= lbase' /\ lbase' <= ltop' /\ ltop' <= lbase' + B
      /\ ltop' <= LookTop /\ ltop' = f[p]
  <2> HIDE DEF p
  <2>1. LookTop = f[p] + n
    BY <1>3, <1>4
  <2>2. LookTop - n = f[p] /\ LookTop - n \in Int /\ LookTop - n <= LookTop
    BY <1>3, <2>1
  <2>3. LookBase <= LookTop - n
    BY <1>3, <1>4, <1>5
  <2>4. LookTop - n <= LookBase + B
    BY <1>3, <1>4, <2>2, BPos
  <2> QED
    BY <1>4, <1>5, <2>2, <2>3, <2>4
<1>8. looked' \in 0 .. Len(tape') /\ Len(tape') + 1 - looked' = p
  BY <1>1, <1>3, <1>6 DEF Types
<1>9. Types'
  BY <1>1, <1>6, <1>7, <1>8 DEF Types
<1>10. Chain'
  <2>1. limit \in Int /\ ltop' <= limit' /\ 0 <= ltop' /\ -B <= lbase'
    <3>1. limit \in Int /\ limit' = limit
      BY <1>1, <1>6 DEF Types
    <3>2. 0 <= ltop' /\ -B <= lbase'
      BY <1>7, BPos
    <3>3. ltop' <= limit
      BY <1>4, <1>7, <3>1
    <3> QED
      BY <3>1, <3>2, <3>3
  <2> QED
    BY <1>1, <1>4, <1>5, <1>6, <2>1 DEF Chain
<1>11. AtRest(f)'
  BY <1>2, <1>6 DEF IdleState, AtRest
<1>12. IdleState(f)'
  BY <1>6, <1>7, <1>8, <1>11 DEF IdleState
<1>13. Layout(f, tape')
  BY <1>2, <1>6
<1> QED
  BY <1>9, <1>10, <1>12, <1>13 DEF IInv, Placed

LEMMA LookBeginInv ==
  ASSUME IInv, LookBegin
  PROVE  IInv'
<1> DEFINE n == Sought.n
           p == Len(tape) - looked
           X == Fetched(Garbage(n), 0, LookBase, LookTop - LookBase)
<1>1. Types /\ Chain
  BY DEF IInv
<1>2. PICK f : Layout(f, tape) /\ IdleState(f)
  BY CallOps DEF IInv, Placed, LookBegin
<1>3. /\ Len(tape) \in Nat /\ looked \in Int /\ p \in 1 .. Len(tape)
      /\ n \in Sizes /\ n \in Int /\ n > 0 /\ f[p] \in Int /\ f[p] >= 0 /\ f[p + 1] = f[p] + n
  BY <1>1, <1>2, SoughtEntry DEF LookBegin
<1>4. /\ LookBase \in Int /\ LookTop \in Int
      /\ 0 <= LookBase /\ LookBase <= LookTop /\ LookTop <= LookBase + B
      /\ LookBase + B <= limit /\ LookTop <= limit
      /\ Aligned(LookBase) /\ LookTop = f[p + 1]
  BY <1>1, <1>2, CursorsInBlocks DEF LookBegin
<1>5. lbase' = LookBase /\ ltop' = LookTop /\ n > LookTop - LookBase
  BY DEF LookBegin, Held
<1>6. /\ looking' \in BOOLEAN /\ looking' /\ looked < Len(tape)
      /\ UNCHANGED <<mem, limit, base, top, size, tape, looked>>
  BY DEF LookBegin, memory, cursor, caller
<1>7. call' = [op |-> "look", n |-> n, at |-> LookTop - LookBase, x |-> X]
  BY DEF LookBegin, FetchBegun, Held
<1>8. tape[p].n = n
  BY DEF Sought
<1> HIDE DEF n, X
<1>9. Types'
  BY <1>1, <1>4, <1>5, <1>6 DEF Types
<1>10. Chain'
  <2>1. -B <= lbase' /\ 0 <= ltop'
    BY <1>4, <1>5, BPos
  <2> QED
    BY <1>1, <1>4, <1>5, <1>6, <2>1 DEF Chain
<1>11. LookState(f)'
  <2>1. call'.n = n /\ call'.at = LookTop - LookBase /\ call'.x = X
    BY <1>7
  <2>2. LookTop - LookBase \in 0 .. n - 1
    <3>1. LookTop - LookBase \in Int /\ 0 <= LookTop - LookBase
      BY <1>4
    <3>2. LookTop - LookBase < n
      BY <1>3, <1>4, <1>5
    <3> QED
      BY <1>3, <3>1, <3>2
  <2>3. FetchCall("look")'
    BY <1>3, <1>7, <2>1, <2>2 DEF FetchCall
  <2>4. AtRest(f)'
    BY <1>2, <1>6 DEF IdleState, AtRest
  <2>5. lbase' = (f[p] + n) - (LookTop - LookBase)
    <3>1. lbase' = LookBase
      BY <1>5
    <3> HIDE DEF p
    <3>2. LookTop = f[p] + n
      BY <1>3, <1>4
    <3>3. LookBase \in Int /\ f[p] \in Int /\ n \in Int
      BY <1>3, <1>4
    <3>4. LookBase = (f[p] + n) - ((f[p] + n) - LookBase)
      BY <3>3
    <3> QED
      BY <3>1, <3>2, <3>4
  <2> QED
    BY <1>6, <1>8, <2>1, <2>3, <2>4, <2>5 DEF LookState
<1>12. Layout(f, tape')
  BY <1>2, <1>6
<1> QED
  BY <1>9, <1>10, <1>11, <1>12 DEF IInv, Placed

LEMMA LookBlockInv ==
  ASSUME IInv, LookBlock
  PROVE  IInv'
<1> DEFINE n == call.n
           at == call.at
           p == Len(tape) - looked
<1>1. Types /\ Chain
  BY DEF IInv
<1>2. PICK f : Layout(f, tape) /\ LookState(f)
  BY CallOps DEF IInv, Placed, LookBlock
<1>3. /\ Len(tape) \in Nat /\ looked \in Int /\ looked < Len(tape) /\ p \in 1 .. Len(tape)
      /\ f[p] \in Int /\ f[p] >= 0 /\ f[p] \in Nat
  BY <1>1, <1>2, SoughtEntry DEF LookState
<1>4. n \in Sizes /\ n \in Int /\ at \in Int /\ 0 <= at /\ at < n
  BY <1>2, SizePos DEF LookState, FetchCall
<1>5. lbase = (f[p] + n) - at /\ tape[p].n = n
  BY <1>2 DEF LookState
<1>6. /\ lbase \in Int /\ lbase >= B
      /\ Aligned(lbase - B) /\ lbase - B \in Int /\ 0 <= lbase - B
  <2>1. Aligned(lbase)
    BY <1>1 DEF Chain
  <2> HIDE DEF n, at, p
  <2> QED
    BY <1>3, <1>4, <1>5, <2>1, BlockBelow
<1>7. lbase' = lbase - B /\ UNCHANGED <<mem, limit, base, top, size, tape>>
  BY DEF LookBlock, memory, cursor
<1>8. looking' = looking /\ looking /\ looking \in BOOLEAN
  BY <1>1, <1>2 DEF LookBlock, LookState, Types
<1>9. /\ Aligned(lbase') /\ lbase' \in Int /\ 0 <= lbase' /\ -B <= lbase' /\ lbase' + B <= limit'
  BY <1>1, <1>6, <1>7, BPos DEF Chain, Types
<1>10. AtRest(f)'
  BY <1>2, <1>7 DEF LookState, AtRest
<1>11. Layout(f, tape')
  BY <1>2, <1>7
<1>12. CASE WholeBlock
  <2> DEFINE X == Fetched(call.x, at, lbase', B)
  <2>1. call' = [call EXCEPT !.at = at + B, !.x = X] /\ UNCHANGED <<ltop, looked>>
    BY <1>12 DEF LookBlock, FetchBlock
  <2> HIDE DEF X
  <2>2. at + B < n
    BY <1>12 DEF WholeBlock
  <2>3. call' = [op |-> "look", n |-> n, at |-> at + B, x |-> X]
    <3> DEFINE y == call.x
    <3>1. call = [op |-> "look", n |-> n, at |-> at, x |-> y]
      BY <1>2 DEF LookState, FetchCall
    <3>2. call' = [call EXCEPT !.at = at + B, !.x = X]
      BY <2>1
    <3> HIDE DEF n, at, y
    <3> QED
      BY <3>1, <3>2
  <2>4. call'.n = n /\ call'.at = at + B /\ call'.x = X
    BY <2>3
  <2>5. at + B \in 0 .. n - 1
    BY <1>4, <2>2, BPos
  <2>6. FetchCall("look")'
    BY <1>4, <2>3, <2>4, <2>5 DEF FetchCall
  <2>7. lbase' = (f[p] + n) - (at + B)
    <3> HIDE DEF p, n, at
    <3> DEFINE q == f[p] + n
    <3>1. q \in Int /\ lbase = q - at
      BY <1>3, <1>4, <1>5
    <3> HIDE DEF q
    <3>2. lbase - B = q - (at + B)
      BY <1>4, <3>1, BPos
    <3> QED
      BY <1>7, <3>2 DEF q
  <2>8. LookState(f)'
    BY <1>3, <1>5, <1>7, <1>8, <1>10, <2>1, <2>4, <2>6, <2>7 DEF LookState
  <2>9. Types'
    BY <1>1, <1>7, <1>8, <1>9, <2>1 DEF Types
  <2>10. Chain'
    BY <1>1, <1>7, <1>9, <2>1 DEF Chain
  <2> QED
    BY <1>11, <2>8, <2>9, <2>10 DEF IInv, Placed
<1>13. CASE ~WholeBlock
  <2>1. ltop' = lbase' + B - (n - at) /\ call' = Idle /\ looked' = looked + 1
    BY <1>13 DEF LookBlock, Lacking
  <2>2. n <= at + B
    BY <1>4, <1>13, BPos DEF WholeBlock
  <2>3. ltop' = f[p] /\ ltop' \in Int /\ lbase' <= ltop' /\ ltop' <= lbase' + B
    <3> DEFINE rest == n - at
    <3>1. rest \in Int /\ 0 < rest /\ rest <= B /\ lbase = f[p] + rest
      <4> HIDE DEF p, n, at
      <4> QED
        BY <1>3, <1>4, <1>5, <2>2, BPos
    <3>2. ltop' = lbase' + B - rest /\ lbase' = lbase - B
      BY <1>7, <2>1
    <3> HIDE DEF p, n, at, rest
    <3>3. f[p] \in Int /\ lbase \in Int
      BY <1>3, <1>6
    <3>4. (lbase - B) + B - rest = f[p] /\ lbase - B <= f[p] /\ f[p] <= (lbase - B) + B
      <4>1. lbase = f[p] + rest /\ rest \in Int /\ 0 < rest /\ rest <= B
        BY <3>1
      <4>2. (lbase - B) + B = lbase /\ (lbase - B) + B - rest = lbase - rest
        BY <3>3, <4>1, BPos
      <4>3. f[p] <= lbase /\ lbase - rest = f[p]
        BY <3>3, <4>1
      <4>4. lbase - B <= f[p]
        BY <3>3, <4>1, BPos
      <4> QED
        BY <4>2, <4>3, <4>4
    <3> QED
      BY <3>2, <3>3, <3>4
  <2>4. 0 <= ltop' /\ ltop' <= limit'
    <3>1. limit' \in Int /\ lbase' + B <= limit'
      BY <1>1, <1>7, <1>9 DEF Types
    <3>2. lbase' \in Int /\ ltop' \in Int /\ 0 <= lbase' /\ lbase' <= ltop' /\ ltop' <= lbase' + B
      BY <1>9, <2>3
    <3> QED
      BY <3>1, <3>2, WithinBlock
  <2>5. looked' \in 0 .. Len(tape') /\ Len(tape') + 1 - looked' = p
    BY <1>1, <1>3, <1>7, <2>1 DEF Types
  <2>6. Types'
    BY <1>1, <1>7, <1>8, <1>9, <2>3, <2>5 DEF Types
  <2>7. Chain'
    BY <1>1, <1>7, <1>9, <2>4 DEF Chain
  <2>8. IdleState(f)'
    BY <1>8, <1>10, <2>1, <2>3, <2>5 DEF IdleState
  <2> QED
    BY <1>11, <2>6, <2>7, <2>8 DEF IInv, Placed
<1> QED
  BY <1>12, <1>13

LEMMA ResetLookInv ==
  ASSUME IInv, ResetLook
  PROVE  IInv'
<1>1. Types /\ Chain
  BY DEF IInv
<1>2. PICK f : Layout(f, tape) /\ IdleState(f)
  BY CallOps DEF IInv, Placed, ResetLook
<1>3. /\ UNCHANGED <<mem, limit, base, top, lbase, ltop, size, call, tape>>
      /\ looking' \in BOOLEAN /\ ~looking' /\ looked' = 0
  BY DEF ResetLook, memory, cursor
<1>4. looked' \in 0 .. Len(tape')
  BY <1>1, <1>3 DEF Types
<1>5. Types' /\ Chain'
  BY <1>1, <1>3, <1>4 DEF Types, Chain
<1>6. IdleState(f)'
  BY <1>2, <1>3 DEF IdleState, AtRest
<1> QED
  BY <1>2, <1>3, <1>5, <1>6 DEF IInv, Placed

LEMMA StutterInv ==
  ASSUME IInv, UNCHANGED vars
  PROVE  IInv'
<1>1. Types' /\ Chain'
  BY DEF IInv, Types, Chain, vars
<1>2. PICK f : Placed(f)
  BY DEF IInv
<1>3. Placed(f)'
  BY <1>2 DEF Placed, IdleState, AtRest, PushState, PushCall, PopState, LookState, FetchCall, vars
<1> QED
  BY <1>1, <1>3 DEF IInv

LEMMA StepInv == IInv /\ [Next]_vars => IInv'
<1> SUFFICES ASSUME IInv, [Next]_vars PROVE IInv'
  OBVIOUS
<1>1. ASSUME NEW v \in Vals, NEW n \in Sizes, PushFits(v, n) \/ PushTail(v, n) PROVE IInv'
  BY <1>1, PushFitsInv, PushTailInv
<1>2. CASE PushBlock \/ OutOfMemory
  BY <1>2, PushBlockInv, OutOfMemoryInv
<1>3. CASE PopFits \/ PopBegin \/ PopBlock
  BY <1>3, PopFitsInv, PopBeginInv, PopBlockInv
<1>4. CASE LookFits \/ LookBegin \/ LookBlock
  BY <1>4, LookFitsInv, LookBeginInv, LookBlockInv
<1>5. CASE ResetLook
  BY <1>5, ResetLookInv
<1>6. CASE UNCHANGED vars
  BY <1>6, StutterInv
<1> QED
  BY <1>1, <1>2, <1>3, <1>4, <1>5, <1>6 DEF Next

LEMMA AlwaysInv == Spec => []IInv
  BY InitInv, StepInv, PTL DEF Spec

-----------------------------------------------------------------------------
(* The properties *)

LEMMA InvType == IInv => TypeOK
<1> SUFFICES ASSUME IInv PROVE TypeOK
  OBVIOUS
<1>1. Types /\ Chain
  BY DEF IInv
<1>2. PICK f : Placed(f)
  BY DEF IInv
<1>3. call.op \in {"idle", "push", "pop", "look", "exit"}
  <2>1. Idle.op = "idle" /\ Exited.op = "exit"
    BY DEF Idle, Exited
  <2> QED
    BY <1>2, <2>1 DEF Placed, IdleState, PushState, PushCall, PopState, LookState, FetchCall
<1>4. call.op = "push" => call.at \in 1 .. call.n
  BY <1>2, CallOps DEF PushState, PushCall
<1>5. call.op \in {"pop", "look"} => call.at \in 0 .. call.n - 1
  BY <1>2, CallOps DEF PopState, LookState, FetchCall
<1>6. /\ limit \in 0 .. MaxBlocks * B
      /\ base \in -B .. limit - B /\ lbase \in -B .. limit - B
      /\ top \in 0 .. limit /\ ltop \in 0 .. limit /\ size \in Nat
  BY <1>1, BPos, MaxChain DEF Types, Chain
<1> QED
  BY <1>1, <1>3, <1>4, <1>5, <1>6 DEF TypeOK, Types

LEMMA InvTopInside == IInv => TopInsideBlock
<1> SUFFICES ASSUME IInv, call = Idle
             PROVE /\ Room \in 0 .. B
                   /\ base >= 0 => Held(base, top) \in 0 .. B
                   /\ looking => Held(lbase, ltop) \in 0 .. B
  BY DEF TopInsideBlock
<1>1. Types
  BY DEF IInv
<1>2. PICK f : IdleState(f)
  BY CallOps DEF IInv, Placed
<1>3. base <= top /\ top <= base + B
  BY <1>2 DEF IdleState, AtRest
<1>4. looking => lbase <= ltop /\ ltop <= lbase + B
  BY <1>2 DEF IdleState
<1>5. base \in Int /\ top \in Int /\ lbase \in Int /\ ltop \in Int
  BY <1>1 DEF Types
<1>6. looking => Held(lbase, ltop) \in 0 .. B
  BY <1>4, <1>5, BPos DEF Held
<1>7. Room \in 0 .. B /\ Held(base, top) \in 0 .. B
  BY <1>3, <1>5, BPos DEF Room, Held
<1> QED
  BY <1>6, <1>7

LEMMA InvNeverUnderflows == IInv => NeverUnderflows
<1> SUFFICES ASSUME IInv PROVE NeverUnderflows
  OBVIOUS
<1>1. Types /\ Chain
  BY DEF IInv
<1>2. PICK f : Placed(f)
  BY DEF IInv
<1>3. ASSUME call.op = "pop" PROVE base >= B
  <2>1. PopState(f)
    BY <1>2, <1>3, CallOps
  <2>2. Len(tape) \in 1 .. Len(tape) /\ tape \in Seq(Frames)
    BY <1>1, <2>1 DEF Types, PopState
  <2>3. f[Len(tape)] \in Nat
    BY <1>2, <2>2, LayoutEntry DEF Placed
  <2>4. /\ call.n \in Int /\ call.at \in Int /\ call.at < call.n
        /\ base = (f[Len(tape)] + call.n) - call.at /\ Aligned(base)
    BY <1>1, <2>1, SizePos DEF PopState, FetchCall, Chain
  <2> QED
    BY <2>3, <2>4, BlockBelow
<1>4. ASSUME call.op = "look" PROVE lbase >= B
  <2>1. LookState(f)
    BY <1>2, <1>4, CallOps
  <2>2. looked < Len(tape) /\ Layout(f, tape)
    BY <1>2, <2>1 DEF LookState, Placed
  <2>3. f[Len(tape) - looked] \in Nat
    BY <1>1, <2>2, SoughtEntry
  <2>4. /\ call.n \in Int /\ call.at \in Int /\ call.at < call.n
        /\ lbase = (f[Len(tape) - looked] + call.n) - call.at /\ Aligned(lbase)
    BY <1>1, <2>1, SizePos DEF LookState, FetchCall, Chain
  <2> QED
    BY <2>3, <2>4, BlockBelow
<1> QED
  BY <1>3, <1>4 DEF NeverUnderflows

LEMMA InvSizeIsPlace == IInv => SizeIsPlace
  BY CallOps DEF IInv, Placed, IdleState, AtRest, SizeIsPlace

\* Whatever is pushed, popped and looked at, the variables keep their types and
\* the cursors stay between the block below the chain and its end.
THEOREM TypeCorrect == Spec => []TypeOK
  BY AlwaysInv, InvType, PTL

\* Between calls curStackTop and lookStackTop are inside their blocks, so that
\* nbmax of pushNarray, popNarray and lookNarray never wraps around.
THEOREM TopInside == Spec => []TopInsideBlock
  BY AlwaysInv, InvTopInside, PTL

\* A pop or a look of an array that was pushed finds its blocks: the branch
\* "Popping from an empty stack!!!" is not taken, nor the one of the look.
THEOREM NoUnderflow == Spec => []NeverUnderflows
  BY AlwaysInv, InvNeverUnderflows, PTL

\* bigStackSize is the place of the top that printtopplace_ works out.
THEOREM SizeOfStack == Spec => []SizeIsPlace
  BY AlwaysInv, InvSizeIsPlace, PTL

-----------------------------------------------------------------------------
(* The bytes.  An array that lies at s .. e-1 fills what it has of a block   *)
(* upwards, but the blocks it is cut over from its end towards its           *)
(* beginning.                                                                *)

Lower(x, y) == IF x <= y THEN x ELSE y
Higher(x, y) == IF x <= y THEN y ELSE x

\* Which byte of it is at address a, in the block at b.
ByteAt(s, e, b, a) == (e - Lower(e, b + B)) + (a - Higher(s, b))

\* Its bytes below address u are in the blocks.
Holds(s, e, u, v) ==
  \A b, a \in Int :
    Aligned(b) /\ b <= a /\ a < b + B /\ s <= a /\ a < u => mem[a] = <<v, ByteAt(s, e, b, a)>>

\* The first i of the n bytes of x are those of an array with contents v.
Has(x, n, v, i) == DOMAIN x = 0 .. n - 1 /\ \A j \in 0 .. i - 1 : x[j] = <<v, j>>

\* What was fetched of an array with contents v so far.
Fetching(v) == Has(call.x, call.n, v, call.at)

Stored(f) == \A i \in 1 .. Len(tape) : Holds(f[i], f[i + 1], f[i + 1], tape[i].v)
Content(f) ==
  /\ Stored(f)
  /\ call.op = "push" =>
       Holds(f[Len(tape) + 1], f[Len(tape) + 1] + call.n, base + B, call.v)
  /\ call.op = "pop" => Fetching(tape[Len(tape)].v)
  /\ call.op = "look" => Fetching(tape[Len(tape) - looked].v)

FInv == Types /\ Chain /\ \E f : Placed(f) /\ Content(f)

-----------------------------------------------------------------------------
\* Layouts grow, and layouts of tapes with a common beginning agree about it.
LEMMA LayoutGrows ==
  ASSUME NEW t \in Seq(Frames), NEW f, Layout(f, t), NEW i \in 1 .. Len(t) + 1
  PROVE  f[i] \in Nat /\ f[Len(t) + 1] \in Nat /\ f[i] <= f[Len(t) + 1]
<1> DEFINE l == Len(t)
           P == {k \in Nat : k <= l => f[l + 1 - k] <= f[l + 1]}
<1>1. l \in Nat /\ \A k \in 1 .. l + 1 : f[k] \in Nat
  BY DEF Layout
<1>2. 0 \in P
  BY <1>1
<1>3. ASSUME NEW k \in 0 .. l - 1, k \in P PROVE k + 1 \in P
  <2>1. PICK j : j = l - k
    OBVIOUS
  <2>2. j \in 1 .. l /\ l + 1 - k = j + 1 /\ l + 1 - (k + 1) = j
    BY <1>1, <2>1
  <2>3. f[j + 1] = f[j] + t[j].n /\ t[j].n \in Nat /\ f[j] \in Nat
    BY <2>2, LayoutEntry
  <2>4. f[j + 1] <= f[l + 1] /\ f[l + 1] \in Nat
    BY <1>1, <1>3, <2>2
  <2>5. f[j] <= f[l + 1]
    BY <2>3, <2>4
  <2> QED BY <2>2, <2>5
<1> HIDE DEF P
<1>4. \A k \in 0 .. l : k \in P
  BY <1>1, <1>2, <1>3, UpTo
<1>5. l + 1 - i \in 0 .. l /\ l + 1 - (l + 1 - i) = i
  BY <1>1
<1>6. f[i] <= f[l + 1]
  BY <1>4, <1>5 DEF P
<1> QED BY <1>1, <1>6

LEMMA LayoutSame ==
  ASSUME NEW t \in Seq(Frames), NEW u \in Seq(Frames), NEW f, NEW g, Layout(f, t), Layout(g, u),
         Len(t) <= Len(u), \A i \in 1 .. Len(t) : u[i] = t[i]
  PROVE  \A i \in 1 .. Len(t) + 1 : g[i] = f[i]
<1> DEFINE l == Len(t)
           P == {k \in Nat : k <= l => g[k + 1] = f[k + 1]}
<1>1. l \in Nat /\ Len(u) \in Nat
  OBVIOUS
<1>2. 0 \in P
  BY <1>1 DEF Layout
<1>3. ASSUME NEW k \in 0 .. l - 1, k \in P PROVE k + 1 \in P
  <2>1. k + 1 \in 1 .. l /\ k + 1 \in 1 .. Len(u)
    BY <1>1
  <2>2. f[k + 2] = f[k + 1] + t[k + 1].n /\ g[k + 2] = g[k + 1] + u[k + 1].n
    BY <1>1, <2>1 DEF Layout
  <2>3. g[k + 1] = f[k + 1] /\ u[k + 1] = t[k + 1]
    BY <1>1, <1>3, <2>1
  <2>4. (k + 1) + 1 = k + 2
    OBVIOUS
  <2> QED BY <2>2, <2>3, <2>4
<1> HIDE DEF P
<1>4. \A k \in 0 .. l : k \in P
  BY <1>1, <1>2, <1>3, UpTo
<1>5. ASSUME NEW i \in 1 .. l + 1 PROVE g[i] = f[i]
  <2>1. PICK k \in 0 .. l : k + 1 = i
    <3>1. i - 1 \in 0 .. l /\ (i - 1) + 1 = i
      BY <1>1
    <3> QED BY <3>1
  <2>2. k \in P /\ k <= l
    BY <1>1, <1>4, <2>1
  <2>3. g[k + 1] = f[k + 1]
    BY <2>2 DEF P
  <2> QED BY <2>1, <2>3
<1> QED BY <1>5

\* A layout of the tape is the layout of the tape.
LEMMA LayoutIsOne ==
  ASSUME NEW t \in Seq(Frames), NEW f, NEW g, Layout(f, t), Layout(g, t)
  PROVE  g = f
<1>1. \A i \in 1 .. Len(t) + 1 : g[i] = f[i]
  BY LayoutSame
<1>2. f \in [1 .. Len(t) + 1 -> Nat] /\ g \in [1 .. Len(t) + 1 -> Nat]
  BY DEF Layout
<1> QED BY <1>1, <1>2

\* An address is in one block.
LEMMA OneBlock ==
  ASSUME NEW b, NEW c, Aligned(b), Aligned(c), NEW a \in Int,
         b <= a, a < b + B, c <= a, a < c + B
  PROVE  b = c
<1>1. b \in Int /\ c \in Int
  BY AlignedStep
<1>2. ASSUME b < c PROVE FALSE
  <2>1. b + B <= c
    BY <1>2, AlignedGap
  <2> QED BY <1>1, <2>1, BPos
<1>3. ASSUME c < b PROVE FALSE
  <2>1. c + B <= b
    BY <1>3, AlignedGap
  <2> QED BY <1>1, <2>1, BPos
<1> QED BY <1>1, <1>2, <1>3

-----------------------------------------------------------------------------
(* Storing and fetching.                                                     *)

\* What lies below the bytes that are stored stays.
LEMMA KeepsBelow ==
  ASSUME mem \in [Addresses -> Byte], NEW a \in Int, a <= MaxBlocks * B, NEW k \in Int,
         NEW x, NEW i, StoreBytes(a, k, x, i),
         NEW s \in Nat, NEW e, NEW u \in Int, u <= a, NEW v, Holds(s, e, u, v)
  PROVE  Holds(s, e, u, v)'
<1> SUFFICES ASSUME NEW b \in Int, NEW c \in Int, Aligned(b), b <= c, c < b + B, s <= c, c < u
             PROVE  mem'[c] = <<v, ByteAt(s, e, b, c)>>
  BY DEF Holds, Aligned, ByteAt, Lower, Higher
<1>1. c \in Addresses
  BY BPos, MaxChain DEF Addresses
<1>2. c \notin a .. a + k - 1
  OBVIOUS
<1>3. mem'[c] = mem[c]
  BY <1>1, <1>2 DEF StoreBytes
<1>4. mem[c] = <<v, ByteAt(s, e, b, c)>>
  BY DEF Holds
<1> QED BY <1>3, <1>4

\* The part of an array that is in the block at b: k bytes from address a.
Part(s, e, b, a, k) ==
  Aligned(b) /\ a = Higher(s, b) /\ a + k = Lower(e, b + B) /\ k >= 0

LEMMA Fills ==
  ASSUME mem \in [Addresses -> Byte], NEW s \in Nat, NEW n \in Nat, NEW v, NEW e, e = s + n,
         NEW b \in Int, NEW a \in Int, NEW k \in Int, Part(s, e, b, a, k), b + B <= MaxBlocks * B,
         NEW i \in Int, i = e - (a + k), StoreBytes(a, k, Array(v, n), i), Holds(s, e, a, v)
  PROVE  Holds(s, e, a + k, v)'
<1> SUFFICES ASSUME NEW d \in Int, NEW c \in Int, Aligned(d), d <= c, c < d + B, s <= c, c < a + k
             PROVE  mem'[c] = <<v, ByteAt(s, e, d, c)>>
  BY DEF Holds, Aligned, ByteAt, Lower, Higher
<1>1. s <= a /\ b <= a /\ a + k <= e /\ a + k <= b + B /\ Aligned(b)
  BY BPos DEF Part, Lower, Higher
<1>2. CASE c < a
  <2>1. a <= MaxBlocks * B \/ k = 0
    BY <1>1, BPos, MaxChain DEF Part
  <2>2. c \in Addresses
    BY <1>1, <1>2, BPos, MaxChain DEF Addresses, Part
  <2>3. mem'[c] = mem[c]
    BY <1>2, <2>2 DEF StoreBytes
  <2> QED BY <1>2, <2>3 DEF Holds
<1>3. CASE c >= a
  <2>1. b = d
    BY <1>1, <1>3, OneBlock, BPos
  <2>2. c \in Addresses /\ c \in a .. a + k - 1
    BY <1>1, <1>3, BPos, MaxChain DEF Addresses
  <2>3. i + c - a \in 0 .. n - 1
    BY <1>1, <1>3
  <2>4. mem'[c] = Array(v, n)[i + c - a]
    BY <2>2 DEF StoreBytes
  <2>5. mem'[c] = <<v, i + c - a>>
    BY <2>3, <2>4 DEF Array
  <2>6. ByteAt(s, e, d, c) = i + c - a
    BY <2>1, BPos DEF ByteAt, Part
  <2> QED BY <2>5, <2>6
<1> QED BY <1>2, <1>3

\* What is fetched from a block is the part of the array that lies there.
LEMMA Takes ==
  ASSUME NEW s \in Nat, NEW n \in Nat, NEW v, NEW e, e = s + n, Holds(s, e, e, v),
         NEW b \in Int, NEW a \in Int, NEW k \in Int, Part(s, e, b, a, k),
         NEW i \in Nat, i = e - (a + k),
         NEW x, Has(x, n, v, i)
  PROVE  Has(Fetched(x, i, a, k), n, v, i + k)
<1>0. DOMAIN x = 0 .. n - 1 /\ \A j \in 0 .. i - 1 : x[j] = <<v, j>>
  BY DEF Has
<1>1. s <= a /\ b <= a /\ a + k <= e /\ a + k <= b + B /\ Aligned(b) /\ k >= 0
  BY BPos DEF Part, Lower, Higher
<1>2. ASSUME NEW j \in 0 .. i + k - 1 PROVE Fetched(x, i, a, k)[j] = <<v, j>>
  <2>1. j \in 0 .. n - 1
    BY <1>1
  <2>2. CASE j < i
    <3>1. j \notin i .. i + k - 1 /\ j \in 0 .. i - 1
      BY <2>2
    <3> QED BY <1>0, <2>1, <3>1 DEF Fetched
  <2>3. CASE j >= i
    <3>1. PICK c \in Int : c = a + j - i
      OBVIOUS
    <3>2. j \in i .. i + k - 1 /\ b <= c /\ c < b + B /\ s <= c /\ c < e /\ c - a = j - i
      BY <1>1, <2>3, <3>1, BPos
    <3>3. mem[c] = <<v, ByteAt(s, e, b, c)>>
      BY <1>1, <3>2 DEF Holds
    <3>4. ByteAt(s, e, b, c) = j
      BY <3>1, <3>2, BPos DEF ByteAt, Part
    <3>5. Fetched(x, i, a, k)[j] = mem[c]
      BY <1>0, <2>1, <3>1, <3>2 DEF Fetched
    <3> QED BY <3>3, <3>4, <3>5
  <2> QED BY <2>2, <2>3
<1>3. DOMAIN Fetched(x, i, a, k) = 0 .. n - 1
  BY <1>0 DEF Fetched
<1> QED BY <1>2, <1>3 DEF Has

\* All of it is the array.
LEMMA TakesAll ==
  ASSUME NEW x, NEW i, NEW a, NEW k, NEW n \in Nat, NEW v, NEW y,
         y = Fetched(x, i, a, k), Has(y, n, v, n)
  PROVE  y = Array(v, n)
<1>1. y = [j \in DOMAIN y |-> y[j]]
  BY DEF Fetched
<1>2. y = [j \in 0 .. n - 1 |-> <<v, j>>]
  BY <1>1 DEF Has
<1> QED BY <1>2 DEF Array

-----------------------------------------------------------------------------
(* The tape of arrays that the tape of their contents and sizes stands for.  *)

Image(t) == [i \in DOMAIN t |-> Array(t[i].v, t[i].n)]
Arrays == {Array(v, n) : v \in Vals, n \in Sizes}

LEMMA ImageIs ==
  ASSUME NEW t \in Seq(Frames)
  PROVE  /\ Image(t) \in Seq(Arrays) /\ Len(Image(t)) = Len(t)
         /\ \A i \in 1 .. Len(t) : Image(t)[i] = Array(t[i].v, t[i].n) /\ t[i] \in Frames
<1>1. DOMAIN t = 1 .. Len(t) /\ Len(t) \in Nat
  OBVIOUS
<1>2. ASSUME NEW i \in 1 .. Len(t)
      PROVE  t[i] \in Frames /\ Array(t[i].v, t[i].n) \in Arrays
  <2>1. t[i] \in Frames
    OBVIOUS
  <2>2. t[i].v \in Vals /\ t[i].n \in Sizes
    BY <2>1 DEF Frames
  <2> QED BY <2>1, <2>2 DEF Arrays
<1>3. Image(t) = [i \in 1 .. Len(t) |-> Array(t[i].v, t[i].n)]
  BY <1>1 DEF Image
<1>4. Image(t) \in [1 .. Len(t) -> Arrays]
  BY <1>2, <1>3
<1>5. Image(t) \in Seq(Arrays) /\ Len(Image(t)) = Len(t)
  BY <1>1, <1>4
<1> QED BY <1>2, <1>3, <1>5

LEMMA ImageAppend ==
  ASSUME NEW t \in Seq(Frames), NEW v \in Vals, NEW n \in Sizes
  PROVE  Image(Append(t, Frame(v, n))) = Append(Image(t), Array(v, n))
<1> DEFINE u == Append(t, Frame(v, n))
           x == Append(Image(t), Array(v, n))
<1>1. Frame(v, n) \in Frames /\ Frame(v, n).v = v /\ Frame(v, n).n = n
  BY DEF Frame, Frames
<1>2. u \in Seq(Frames) /\ Len(u) = Len(t) + 1 /\ Len(t) \in Nat
  BY <1>1
<1>3. u[Len(t) + 1].n = n /\ u[Len(t) + 1].v = v /\ \A i \in 1 .. Len(t) : u[i] = t[i]
  BY <1>1, <1>2
<1>4. Array(v, n) \in Arrays
  BY DEF Arrays
<1>5. /\ Image(t) \in Seq(Arrays) /\ Len(Image(t)) = Len(t)
      /\ \A i \in 1 .. Len(t) : Image(t)[i] = Array(t[i].v, t[i].n)
  BY ImageIs
<1>6. /\ x \in Seq(Arrays) /\ Len(x) = Len(t) + 1 /\ x[Len(t) + 1] = Array(v, n)
      /\ \A i \in 1 .. Len(t) : x[i] = Image(t)[i]
  BY <1>2, <1>4, <1>5
<1> HIDE DEF u, x
<1>7. /\ Image(u) \in Seq(Arrays) /\ Len(Image(u)) = Len(u)
      /\ \A i \in 1 .. Len(u) : Image(u)[i] = Array(u[i].v, u[i].n)
  BY <1>2, ImageIs
<1>8. ASSUME NEW i \in 1 .. Len(u) PROVE Image(u)[i] = x[i]
  <2>1. CASE i = Len(t) + 1
    BY <1>2, <1>3, <1>6, <1>7, <2>1
  <2>2. CASE i # Len(t) + 1
    <3>1. i \in 1 .. Len(t)
      BY <1>2, <2>2
    <3>2. u[i] = t[i] /\ x[i] = Image(t)[i] /\ Image(t)[i] = Array(t[i].v, t[i].n)
      BY <1>3, <1>5, <1>6, <3>1
    <3>3. Image(u)[i] = Array(u[i].v, u[i].n)
      BY <1>7
    <3> QED BY <3>2, <3>3
  <2> QED BY <2>1, <2>2
<1>9. Image(u) = x
  BY <1>2, <1>6, <1>7, <1>8
<1> QED BY <1>9 DEF u, x

LEMMA ImageFront ==
  ASSUME NEW t \in Seq(Frames), t # <<>>
  PROVE  /\ Image(t) # <<>> /\ Image(Front(t)) = Front(Image(t))
         /\ Last(Image(t)) = Array(t[Len(t)].v, t[Len(t)].n)
<1>1. Len(t) \in Nat /\ Len(t) > 0 /\ Len(t) \in 1 .. Len(t)
  OBVIOUS
<1>2. /\ Image(t) \in Seq(Arrays) /\ Len(Image(t)) = Len(t)
      /\ \A i \in 1 .. Len(t) : Image(t)[i] = Array(t[i].v, t[i].n)
  BY ImageIs
<1>3. Image(t) # <<>> /\ Last(Image(t)) = Array(t[Len(t)].v, t[Len(t)].n)
  BY <1>1, <1>2 DEF Last
<1>4. Front(t) = [i \in 1 .. Len(t) - 1 |-> t[i]]
  BY <1>1 DEF Front
<1>5. Image(Front(t)) = [i \in 1 .. Len(t) - 1 |-> Array(t[i].v, t[i].n)]
  <2>1. DOMAIN Front(t) = 1 .. Len(t) - 1
    BY <1>4
  <2> QED BY <1>4, <2>1 DEF Image
<1> DEFINE x == Image(t)
<1>6. Front(x) = [i \in 1 .. Len(x) - 1 |-> x[i]]
  <2>1. x \in Seq(Arrays) /\ Len(x) \in Nat /\ Len(x) > 0
    BY <1>1, <1>2
  <2> HIDE DEF x
  <2> QED BY <2>1 DEF Front
<1>7. [i \in 1 .. Len(x) - 1 |-> x[i]] = [i \in 1 .. Len(t) - 1 |-> Array(t[i].v, t[i].n)]
  BY <1>1, <1>2
<1>8. Image(Front(t)) = Front(Image(t))
  BY <1>5, <1>6, <1>7
<1> QED BY <1>3, <1>8

\* The steps of the tape, in the terms of the stack's caller.
TapeStep ==
  \/ \E x \in Arrays : Image(tape)' = Append(Image(tape), x) /\ looked' = 0 /\ out' = out
  \/ /\ Image(tape) # <<>> /\ Image(tape)' = Front(Image(tape))
     /\ out' = Last(Image(tape)) /\ looked' = 0
  \/ /\ looked < Len(Image(tape)) /\ out' = Image(tape)[Len(Image(tape)) - looked]
     /\ looked' = looked + 1 /\ Image(tape)' = Image(tape)
  \/ looked' = 0 /\ Image(tape)' = Image(tape) /\ out' = out
  \/ Image(tape)' = Image(tape) /\ looked' = looked /\ out' = out

LEMMA TapeStepIs ==
  ASSUME TapeStep
  PROVE  [Tapes!Next]_<<[i \in DOMAIN tape |-> Array(tape[i].v, tape[i].n)], looked, out>>
<1> DEFINE stack == [i \in DOMAIN tape |-> Array(tape[i].v, tape[i].n)]
<1>1. stack = Image(tape) /\ stack' = Image(tape)'
  BY DEF Image
<1>2. ASSUME NEW x \in Arrays, Image(tape)' = Append(Image(tape), x), looked' = 0, out' = out
      PROVE  Tapes!Next
  <2>1. Tapes!Push(x)
    BY <1>2 DEF Tapes!Push, Image
  <2> QED BY <2>1 DEF Tapes!Next, Arrays
<1>3. ASSUME Image(tape) # <<>>, Image(tape)' = Front(Image(tape)), out' = Last(Image(tape)),
             looked' = 0
      PROVE  Tapes!Next
  <2>0. /\ Tapes!Front(Image(tape)) = Front(Image(tape))
        /\ Tapes!Last(Image(tape)) = Last(Image(tape))
    BY DEF Front, Last, Tapes!Front, Tapes!Last
  <2>1. Tapes!Pop
    BY <1>3, <2>0 DEF Tapes!Pop, Image
  <2> QED BY <2>1 DEF Tapes!Next
<1>4. ASSUME looked < Len(Image(tape)), out' = Image(tape)[Len(Image(tape)) - looked],
             looked' = looked + 1, Image(tape)' = Image(tape)
      PROVE  Tapes!Next
  <2>1. Tapes!Look
    BY <1>4 DEF Tapes!Look, Image
  <2> QED BY <2>1 DEF Tapes!Next
<1>5. ASSUME looked' = 0, Image(tape)' = Image(tape), out' = out
      PROVE  Tapes!Next
  <2>1. Tapes!ResetLook
    BY <1>5 DEF Tapes!ResetLook, Image
  <2> QED BY <2>1 DEF Tapes!Next
<1> QED BY <1>1, <1>2, <1>3, <1>4, <1>5 DEF TapeStep

-----------------------------------------------------------------------------
(* The invariant with the bytes, and the step of the tape, action by action. *)

\* The tape stays: so does its layout.
LEMMA SamePlaces ==
  ASSUME Types, NEW f, Layout(f, tape), IInv', tape' = tape
  PROVE  Types' /\ Chain' /\ Placed(f)'
<1>1. PICK g : Placed(g)'
  BY DEF IInv
<1>2. Layout(f, tape') /\ Layout(g, tape') /\ tape' \in Seq(Frames)
  BY <1>1 DEF Placed, Types
<1>3. g = f
  BY <1>2, LayoutIsOne
<1> QED BY <1>1, <1>3 DEF IInv

LEMMA StoredStays ==
  ASSUME NEW f, Stored(f), UNCHANGED <<mem, tape>>
  PROVE  Stored(f)'
BY DEF Stored, Holds, Aligned, ByteAt, Lower, Higher

\* The arrays that lie below the bytes stored by a push
LEMMA KeepsArrays ==
  ASSUME Types, NEW f, Layout(f, tape), Stored(f), NEW a \in Int, a <= MaxBlocks * B,
         f[Len(tape) + 1] <= a, NEW k \in Int, NEW x, NEW i, StoreBytes(a, k, x, i)
  PROVE  \A j \in 1 .. Len(tape) : \A v : v = tape[j].v => Holds(f[j], f[j + 1], f[j + 1], v)'
<1> SUFFICES ASSUME NEW j \in 1 .. Len(tape), NEW v, v = tape[j].v
             PROVE  Holds(f[j], f[j + 1], f[j + 1], v)'
  OBVIOUS
<1>1. tape \in Seq(Frames) /\ Len(tape) \in Nat /\ j \in 1 .. Len(tape) + 1 /\ j + 1 \in 1 .. Len(tape) + 1
  BY DEF Types
<1>2. f[j] \in Nat /\ f[j + 1] \in Nat /\ f[j + 1] <= f[Len(tape) + 1] /\ f[Len(tape) + 1] \in Nat
  BY <1>1, LayoutGrows
<1>3. PICK s, u : s = f[j] /\ u = f[j + 1]
  OBVIOUS
<1>4. Holds(s, u, u, v) /\ s \in Nat /\ u \in Int /\ u <= a
  BY <1>2, <1>3 DEF Stored
<1>5. mem \in [Addresses -> Byte]
  BY DEF Types
<1>6. Holds(s, u, u, v)'
  BY <1>4, <1>5, KeepsBelow
<1> QED BY <1>3, <1>6

\* An array is complete, and on the tape.
LEMMA NewArray ==
  ASSUME Types, NEW f, Layout(f, tape), Stored(f), NEW a \in Int, a <= MaxBlocks * B,
         f[Len(tape) + 1] <= a, NEW k \in Int, NEW x, NEW i, StoreBytes(a, k, x, i),
         NEW v \in Vals, NEW n \in Sizes, tape' = Append(tape, Frame(v, n)), IInv',
         NEW s, s = f[Len(tape) + 1], NEW e, e = s + n, Holds(s, e, e, v)'
  PROVE  Types' /\ Chain' /\ \E g : Placed(g)' /\ Stored(g)'
<1>1. PICK g : Placed(g)'
  BY DEF IInv
<1>2. tape \in Seq(Frames) /\ Len(tape) \in Nat /\ Frame(v, n) \in Frames
  BY DEF Types, Frame, Frames
<1>3. /\ tape' \in Seq(Frames) /\ Len(tape') = Len(tape) + 1
      /\ \A j \in 1 .. Len(tape) : tape'[j] = tape[j]
      /\ tape'[Len(tape) + 1].v = v /\ tape'[Len(tape) + 1].n = n
  BY <1>2 DEF Frame
<1>4. Layout(g, tape')
  BY <1>1 DEF Placed
<1>5. \A j \in 1 .. Len(tape) + 1 : g[j] = f[j]
  <2>1. PICK u : u = tape'
    OBVIOUS
  <2>2. /\ u \in Seq(Frames) /\ Layout(g, u) /\ Len(tape) <= Len(u)
        /\ \A j \in 1 .. Len(tape) : u[j] = tape[j]
    BY <1>2, <1>3, <1>4, <2>1
  <2> QED BY <1>2, <2>2, LayoutSame
<1>6. ASSUME NEW j \in 1 .. Len(tape') PROVE Holds(g[j], g[j + 1], g[j + 1], tape[j].v)'
  <2>1. CASE j = Len(tape) + 1
    <3>1. g[j] = s /\ g[j + 1] = e
      <4>1. g[j + 1] = g[j] + tape'[j].n
        BY <1>4 DEF Layout
      <4> QED BY <1>2, <1>3, <1>5, <2>1, <4>1
    <3>2. tape'[j].v = v
      BY <1>3, <2>1
    <3> QED BY <3>1, <3>2
  <2>2. CASE j # Len(tape) + 1
    <3>1. j \in 1 .. Len(tape)
      BY <1>2, <1>3, <2>2
    <3>2. PICK w : w = tape[j].v
      OBVIOUS
    <3>3. Holds(f[j], f[j + 1], f[j + 1], w)'
      BY <3>1, <3>2, KeepsArrays
    <3>4. g[j] = f[j] /\ g[j + 1] = f[j + 1] /\ tape'[j].v = w
      BY <1>2, <1>3, <1>5, <3>1, <3>2
    <3> QED BY <3>3, <3>4
  <2> QED BY <2>1, <2>2
<1>7. Stored(g)'
  BY <1>6 DEF Stored
<1> QED BY <1>1, <1>7 DEF IInv

\* The last array is gone from the tape.
LEMMA OldArray ==
  ASSUME Types, NEW f, Layout(f, tape), Stored(f), tape # <<>>, tape' = Front(tape), mem' = mem, IInv'
  PROVE  Types' /\ Chain' /\ \E g : Placed(g)' /\ Stored(g)'
<1>1. PICK g : Placed(g)'
  BY DEF IInv
<1>2. tape \in Seq(Frames) /\ Len(tape) \in Nat /\ Len(tape) > 0
  BY DEF Types
<1>3. tape' \in Seq(Frames) /\ Len(tape') = Len(tape) - 1
  BY <1>2, LayoutFront
<1>4. \A j \in 1 .. Len(tape') : tape'[j] = tape[j]
  BY <1>2, <1>3 DEF Front
<1>5. Layout(g, tape')
  BY <1>1 DEF Placed
<1>6. \A j \in 1 .. Len(tape') + 1 : g[j] = f[j]
  <2>1. \A j \in 1 .. Len(tape') + 1 : f[j] = g[j]
    BY <1>2, <1>3, <1>4, <1>5, LayoutSame
  <2> QED BY <2>1
<1>7. ASSUME NEW j \in 1 .. Len(tape') PROVE Holds(g[j], g[j + 1], g[j + 1], tape[j].v)'
  <2>1. PICK w : w = tape[j].v
    OBVIOUS
  <2>2. Holds(f[j], f[j + 1], f[j + 1], w)
    BY <1>2, <1>3, <2>1 DEF Stored
  <2>3. Holds(f[j], f[j + 1], f[j + 1], w)'
    BY <2>2 DEF Holds, Aligned, ByteAt, Lower, Higher
  <2>4. g[j] = f[j] /\ g[j + 1] = f[j + 1] /\ tape'[j].v = w
    BY <1>2, <1>3, <1>4, <1>6, <2>1
  <2> QED BY <2>3, <2>4
<1>8. Stored(g)'
  BY <1>7 DEF Stored
<1> QED BY <1>1, <1>8 DEF IInv

\* Between calls there is nothing more to say of the bytes.
LEMMA IdleContent ==
  ASSUME NEW g, Stored(g)', call' = Idle \/ call' = Exited
  PROVE  Content(g)'
<1>1. Idle.op = "idle" /\ Exited.op = "exit"
  BY DEF Idle, Exited
<1> QED BY <1>1 DEF Content

\* The end of a push, of a pop and of a look; a step that leaves the tape alone
LEMMA PushComplete ==
  ASSUME Types, NEW f, Layout(f, tape), Stored(f), NEW a \in Int, a <= MaxBlocks * B,
         f[Len(tape) + 1] <= a, NEW k \in Int, NEW x, NEW i, StoreBytes(a, k, x, i),
         NEW v \in Vals, NEW n \in Sizes, tape' = Append(tape, Frame(v, n)), IInv',
         NEW s, s = f[Len(tape) + 1], NEW e, e = s + n, Holds(s, e, e, v)',
         call' = Idle, looked' = 0, out' = out
  PROVE  FInv' /\ TapeStep
<1>1. Types' /\ Chain'
  BY DEF IInv
<1>2. PICK g : Placed(g)' /\ Stored(g)'
  BY NewArray
<1>3. Content(g)'
  BY <1>2, IdleContent
<1>4. FInv'
  BY <1>1, <1>2, <1>3 DEF FInv
<1>5. tape \in Seq(Frames) /\ Array(v, n) \in Arrays
  BY DEF Types, Arrays
<1>6. Image(tape') = Append(Image(tape), Array(v, n))
  BY <1>5, ImageAppend
<1>7. TapeStep
  BY <1>5, <1>6 DEF TapeStep
<1> QED BY <1>4, <1>7

LEMMA PopComplete ==
  ASSUME Types, NEW f, Layout(f, tape), Stored(f), tape # <<>>, tape' = Front(tape), mem' = mem, IInv',
         out' = Array(tape[Len(tape)].v, tape[Len(tape)].n), call' = Idle, looked' = 0
  PROVE  FInv' /\ TapeStep
<1>1. Types' /\ Chain'
  BY DEF IInv
<1>2. PICK g : Placed(g)' /\ Stored(g)'
  BY OldArray
<1>3. Content(g)'
  BY <1>2, IdleContent
<1>4. FInv'
  BY <1>1, <1>2, <1>3 DEF FInv
<1>5. tape \in Seq(Frames)
  BY DEF Types
<1>6. /\ Image(tape) # <<>> /\ Image(tape') = Front(Image(tape))
      /\ out' = Last(Image(tape))
  BY <1>5, ImageFront
<1>7. TapeStep
  BY <1>6 DEF TapeStep
<1> QED BY <1>4, <1>7

LEMMA LookComplete ==
  ASSUME Types, NEW f, Layout(f, tape), Stored(f), UNCHANGED <<mem, tape>>, IInv', looked < Len(tape),
         NEW p, p = Len(tape) - looked, out' = Array(tape[p].v, tape[p].n),
         call' = Idle, looked' = looked + 1
  PROVE  FInv' /\ TapeStep
<1>1. Types' /\ Chain' /\ Placed(f)'
  BY SamePlaces
<1>2. Content(f)'
  BY StoredStays, IdleContent
<1>3. FInv'
  BY <1>1, <1>2 DEF FInv
<1>4. tape \in Seq(Frames) /\ Len(tape) \in Nat /\ looked \in 0 .. Len(tape)
  BY DEF Types
<1>5. p \in 1 .. Len(tape)
  BY <1>4
<1>6. Image(tape)[p] = Array(tape[p].v, tape[p].n) /\ Len(Image(tape)) = Len(tape)
  BY <1>4, <1>5, ImageIs
<1>7. TapeStep
  BY <1>6 DEF TapeStep
<1> QED BY <1>3, <1>7

LEMMA TapeStays ==
  ASSUME Types, NEW f, Layout(f, tape), Content(f)', tape' = tape, IInv', out' = out,
         looked' = looked \/ looked' = 0
  PROVE  FInv' /\ TapeStep
<1>1. Types' /\ Chain' /\ Placed(f)'
  BY SamePlaces
<1>2. FInv'
  BY <1>1 DEF FInv
<1>3. Image(tape)' = Image(tape)
  BY DEF Image
<1>4. TapeStep
  BY <1>3 DEF TapeStep
<1> QED BY <1>2, <1>4

LEMMA PushFitsTape ==
  ASSUME Types, Chain, NEW f, Placed(f), Content(f), IInv',
         NEW v \in Vals, NEW n \in Sizes, PushFits(v, n)
  PROVE  FInv' /\ TapeStep
<1>1. /\ call = Idle /\ n <= base + B - top /\ StoreBytes(top, n, Array(v, n), 0)
      /\ tape' = Append(tape, Frame(v, n)) /\ looked' = 0 /\ call' = Idle /\ out' = out
  BY DEF PushFits, Pushed, Room
<1>2. Layout(f, tape) /\ IdleState(f) /\ Stored(f)
  BY <1>1, CallOps DEF Placed, Content
<1>3. /\ mem \in [Addresses -> Byte] /\ tape \in Seq(Frames) /\ Len(tape) \in Nat
      /\ base \in Int /\ top \in Int /\ limit \in Int /\ top \in Nat
  BY DEF Types, Chain
<1>4. base <= top /\ top <= base + B /\ top = f[Len(tape) + 1]
  BY <1>2 DEF IdleState, AtRest
<1>5. n \in Nat /\ n \in Int
  BY SizePos
<1>6. Aligned(base) /\ base + B <= MaxBlocks * B /\ top <= MaxBlocks * B
  BY <1>3, <1>4, BPos, MaxChain DEF Chain
<1>7. PICK t \in Nat, e \in Int, i \in Int : t = top /\ e = top + n /\ i = 0
  <2>1. 0 \in Int /\ top + n \in Int
    BY <1>3, <1>5
  <2> QED BY <1>3, <2>1
<1>8. Part(t, e, base, t, n)
  <2>1. t = Higher(t, base)
    BY <1>3, <1>4, <1>7 DEF Higher
  <2>2. t + n = Lower(e, base + B)
    <3>1. t + n = e /\ e <= base + B
      BY <1>1, <1>3, <1>5, <1>7, BPos
    <3> QED BY <3>1 DEF Lower
  <2> QED BY <1>5, <1>6, <2>1, <2>2 DEF Part
<1>9. Holds(t, e, t, v)
  BY <1>3 DEF Holds
<1>10. e = t + n /\ i = e - (t + n) /\ StoreBytes(t, n, Array(v, n), i) /\ t \in Int
  BY <1>1, <1>3, <1>5, <1>7
<1>11. Holds(t, e, t + n, v)'
  BY <1>3, <1>5, <1>6, <1>8, <1>9, <1>10, Fills
<1>12. Holds(t, e, e, v)'
  BY <1>10, <1>11
<1>13. t <= MaxBlocks * B /\ f[Len(tape) + 1] <= t /\ t = f[Len(tape) + 1]
  BY <1>4, <1>6, <1>7
<1> QED
  BY <1>1, <1>2, <1>5, <1>10, <1>12, <1>13, PushComplete

LEMMA StoredKept ==
  ASSUME Types, NEW f, Layout(f, tape), Stored(f), NEW a \in Int, a <= MaxBlocks * B,
         f[Len(tape) + 1] <= a, NEW k \in Int, NEW x, NEW i, StoreBytes(a, k, x, i), tape' = tape
  PROVE  Stored(f)'
<1>1. \A j \in 1 .. Len(tape) : \A v : v = tape[j].v => Holds(f[j], f[j + 1], f[j + 1], v)'
  BY KeepsArrays
<1>2. ASSUME NEW j \in 1 .. Len(tape') PROVE Holds(f[j], f[j + 1], f[j + 1], tape[j].v)'
  <2>1. PICK v : v = tape[j].v
    OBVIOUS
  <2>2. Holds(f[j], f[j + 1], f[j + 1], v)' /\ tape'[j].v = v
    BY <1>1, <2>1
  <2> QED BY <2>2
<1> QED BY <1>2 DEF Stored

LEMMA PushContent ==
  ASSUME NEW f, Stored(f)', call'.op = "push",
         NEW s, s = f[Len(tape') + 1], NEW e, e = s + call'.n, NEW u, u = base' + B,
         NEW v, v = call'.v, Holds(s, e, u, v)'
  PROVE  Content(f)'
<1>1. Holds(f[Len(tape) + 1], f[Len(tape) + 1] + call.n, base + B, call.v)'
  OBVIOUS
<1> QED BY <1>1 DEF Content

LEMMA PushTailTape ==
  ASSUME Types, Chain, NEW f, Placed(f), Content(f), IInv',
         NEW v \in Vals, NEW n \in Sizes, PushTail(v, n)
  PROVE  FInv' /\ TapeStep
<1>1. /\ call = Idle /\ n > base + B - top
      /\ StoreBytes(top, Room, Array(v, n), n - Room)
      /\ call' = [op |-> "push", v |-> v, n |-> n, at |-> n - Room]
      /\ UNCHANGED <<base, tape, looked, out>>
  BY DEF PushTail, Room, cursor, caller
<1>2. Layout(f, tape) /\ IdleState(f) /\ Stored(f)
  BY <1>1, CallOps DEF Placed, Content
<1>3. /\ mem \in [Addresses -> Byte] /\ tape \in Seq(Frames) /\ Len(tape) \in Nat
      /\ base \in Int /\ top \in Int /\ limit \in Int /\ top \in Nat
  BY DEF Types, Chain
<1>4. base <= top /\ top <= base + B /\ top = f[Len(tape) + 1]
  BY <1>2 DEF IdleState, AtRest
<1>5. n \in Nat /\ n \in Int
  BY SizePos
<1>6. Aligned(base) /\ base + B <= MaxBlocks * B /\ top <= MaxBlocks * B
  BY <1>3, <1>4, BPos, MaxChain DEF Chain
<1>7. PICK t \in Nat, e \in Int, i \in Int, k \in Int :
        t = top /\ e = top + n /\ i = n - Room /\ k = Room /\ k = base + B - top
  <2>1. Room \in Int /\ n - Room \in Int /\ top + n \in Int /\ Room = base + B - top
    BY <1>3, <1>5, BPos DEF Room
  <2> QED BY <1>3, <2>1
<1>8. Part(t, e, base, t, k)
  <2>1. t = Higher(t, base)
    BY <1>3, <1>4, <1>7 DEF Higher
  <2>2. t + k = Lower(e, base + B) /\ k >= 0
    <3>1. t + k = base + B /\ e \in Int /\ base + B \in Int /\ k >= 0
      BY <1>3, <1>4, <1>7, BPos, SMTT(30)
    <3>2. base + B <= e
      BY <1>1, <1>3, <1>5, <1>7, BPos
    <3>3. Lower(e, base + B) = base + B
      BY <3>1, <3>2 DEF Lower
    <3> QED BY <3>1, <3>3
  <2> QED BY <1>6, <2>1, <2>2 DEF Part
<1>9. Holds(t, e, t, v)
  BY <1>3 DEF Holds
<1>10. /\ e = t + n /\ i = e - (t + k) /\ StoreBytes(t, k, Array(v, n), i) /\ t \in Int
       /\ t + k = base + B
  BY <1>1, <1>3, <1>5, <1>7, BPos
<1>11. Holds(t, e, t + k, v)'
  BY <1>3, <1>5, <1>6, <1>8, <1>9, <1>10, Fills
<1>12. PICK u : u = t + k
  OBVIOUS
<1>13. Stored(f)'
  <2>1. f[Len(tape) + 1] <= t /\ t <= MaxBlocks * B /\ t \in Int
    BY <1>3, <1>4, <1>6, <1>7
  <2> QED BY <1>1, <1>2, <1>10, <2>1, StoredKept
<1>14. Content(f)'
  <2>1. call'.op = "push" /\ call'.v = v /\ call'.n = n
    BY <1>1
  <2>2. Holds(t, e, u, v)' /\ u = base' + B /\ t = f[Len(tape') + 1] /\ e = t + call'.n
    BY <1>1, <1>4, <1>7, <1>10, <1>11, <1>12, <2>1
  <2> QED BY <1>13, <2>1, <2>2, PushContent
<1> QED
  BY <1>1, <1>2, <1>14, TapeStays

LEMMA PushBlockTape ==
  ASSUME Types, Chain, NEW f, Placed(f), Content(f), IInv', PushBlock
  PROVE  FInv' /\ TapeStep
<1>1. Layout(f, tape) /\ PushState(f) /\ call.op = "push" /\ Stored(f)
  BY CallOps DEF Placed, Content, PushBlock
<1>2. /\ mem \in [Addresses -> Byte] /\ tape \in Seq(Frames) /\ Len(tape) \in Nat /\ base \in Int
  BY DEF Types
<1>3. PICK s \in Nat : s = f[Len(tape) + 1]
  <2>1. Len(tape) + 1 \in 1 .. Len(tape) + 1
    BY <1>2
  <2> QED BY <1>1, <2>1 DEF Layout
<1>4. PICK v \in Vals, n \in Sizes, h \in Int : v = call.v /\ n = call.n /\ h = call.at /\ 0 < h /\ h <= n
  BY <1>1, SizePos DEF PushState, PushCall
<1>5. n \in Nat /\ n \in Int
  BY SizePos
<1>6. PICK e \in Int, c \in Int : e = s + n /\ c = base + B /\ c = e - h
  BY <1>1, <1>2, <1>3, <1>4, <1>5, BPos DEF PushState
<1>7. Holds(s, e, c, v)
  <2>1. Holds(f[Len(tape) + 1], f[Len(tape) + 1] + call.n, base + B, call.v)
    BY <1>1 DEF Content
  <2> QED BY <1>3, <1>4, <1>6, <2>1
<1>8. base' = c /\ Aligned(c) /\ c + B <= MaxBlocks * B /\ s <= c /\ c <= MaxBlocks * B
  <2>1. /\ limit' \in Int /\ limit' <= MaxBlocks * B /\ base' = base + B
        /\ Aligned(base') /\ base' + B <= limit'
    BY PushNextBlock DEF PushBlock
  <2> QED BY <1>4, <1>5, <1>6, <2>1, BPos, MaxChain
<1>9. UNCHANGED out
  BY DEF PushBlock
<1>10. CASE call.at - B > 0
  <2>1. PICK i \in Int : i = h - B
    BY BPos
  <2>2. /\ StoreBytes(c, B, Array(v, n), i) /\ call' = [call EXCEPT !.at = i]
        /\ UNCHANGED <<tape, looked>>
    BY <1>4, <1>8, <1>10, <2>1 DEF PushBlock
  <2>3. i > 0 /\ i = e - (c + B)
    BY <1>4, <1>6, <1>10, <2>1, BPos
  <2>4. Part(s, e, c, c, B)
    <3>1. c = Higher(s, c)
      BY <1>8 DEF Higher
    <3>2. c + B = Lower(e, c + B)
      BY <1>6, <2>3, BPos DEF Lower
    <3> QED BY <1>8, <3>1, <3>2, BPos DEF Part
  <2>5. Holds(s, e, c + B, v)'
    <3>1. PICK k \in Int : k = B
      BY BPos
    <3>2. Part(s, e, c, c, k) /\ StoreBytes(c, k, Array(v, n), i) /\ i = e - (c + k)
      BY <2>2, <2>3, <2>4, <3>1
    <3>3. Holds(s, e, c + k, v)'
      BY <1>2, <1>5, <1>6, <1>7, <1>8, <3>2, Fills
    <3> QED BY <3>1, <3>3
  <2>6. PICK u : u = c + B
    OBVIOUS
  <2>7. Stored(f)'
    BY <1>1, <1>3, <1>8, <2>2, BPos, StoredKept
  <2>8. Content(f)'
    <3>1. call'.op = "push" /\ call'.v = v /\ call'.n = n
      BY <1>1, <1>4, <2>2 DEF PushState, PushCall
    <3>2. Holds(s, e, u, v)' /\ u = base' + B /\ s = f[Len(tape') + 1] /\ e = s + call'.n
      BY <1>3, <1>6, <1>8, <2>2, <2>5, <2>6, <3>1
    <3> QED BY <2>7, <3>1, <3>2, PushContent
  <2> QED
    BY <1>1, <1>9, <2>2, <2>8, TapeStays
<1>11. CASE ~(call.at - B > 0)
  <2>1. PICK i \in Int : i = 0
    OBVIOUS
  <2>2. /\ StoreBytes(base', (call.at - B) + B, Array(call.v, call.n), 0)
        /\ call' = Idle /\ tape' = Append(tape, Frame(call.v, call.n)) /\ looked' = 0
    BY <1>11 DEF PushBlock, Pushed
  <2>3. (call.at - B) + B = h
    BY <1>4, BPos
  <2>4. StoreBytes(c, h, Array(v, n), i) /\ tape' = Append(tape, Frame(v, n))
    BY <1>4, <1>8, <2>1, <2>2, <2>3
  <2>5. i = e - (c + h) /\ c + h = e /\ h <= B
    BY <1>4, <1>6, <1>11, <2>1, BPos
  <2>6. Part(s, e, c, c, h)
    <3>1. c = Higher(s, c)
      BY <1>8 DEF Higher
    <3>2. c + h = Lower(e, c + B)
      BY <1>6, <2>5, BPos DEF Lower
    <3> QED BY <1>4, <1>8, <3>1, <3>2 DEF Part
  <2>7. Holds(s, e, c + h, v)'
    BY <1>2, <1>5, <1>6, <1>7, <1>8, <2>4, <2>5, <2>6, Fills
  <2>8. Holds(s, e, e, v)'
    BY <2>5, <2>7
  <2> QED
    BY <1>1, <1>3, <1>6, <1>8, <1>9, <2>2, <2>4, <2>8, PushComplete
<1> QED BY <1>10, <1>11

LEMMA OutOfMemoryTape ==
  ASSUME Types, NEW f, Placed(f), Content(f), IInv', OutOfMemory
  PROVE  FInv' /\ TapeStep
<1>1. UNCHANGED <<mem, tape, looked, out>> /\ call' = Exited
  BY DEF OutOfMemory, memory, caller
<1>2. Content(f)'
  BY <1>1, StoredStays, IdleContent DEF Content
<1> QED BY <1>1, <1>2, TapeStays DEF Placed

\* The array at p lies at s .. e-1 in the blocks: it has n bytes and contents v.
Lies(f, p, s, n, v, e) ==
  /\ s = f[p] /\ n = tape[p].n /\ v = tape[p].v /\ e = f[p + 1]
  /\ e = s + n /\ n \in Nat /\ n > 0 /\ Holds(s, e, e, v)

LEMMA ArrayHeld ==
  ASSUME Types, NEW f, Layout(f, tape), Stored(f), NEW p \in 1 .. Len(tape)
  PROVE  \E s \in Nat, n \in Sizes, v \in Vals, e \in Nat : Lies(f, p, s, n, v, e)
<1>1. tape \in Seq(Frames)
  BY DEF Types
<1>2. tape[p].n \in Sizes /\ f[p] \in Nat /\ f[p + 1] \in Nat /\ f[p + 1] = f[p] + tape[p].n
  BY <1>1, LayoutEntry
<1>3. tape[p].v \in Vals
  <2>1. tape[p] \in Frames
    BY <1>1
  <2> QED BY <2>1 DEF Frames
<1>4. Holds(f[p], f[p + 1], f[p + 1], tape[p].v)
  BY DEF Stored
<1>5. PICK s \in Nat, n \in Sizes, v \in Vals, e \in Nat :
        s = f[p] /\ n = tape[p].n /\ v = tape[p].v /\ e = f[p + 1]
  BY <1>2, <1>3
<1>6. Holds(s, e, e, v)
  BY <1>4, <1>5
<1>7. e = s + n
  BY <1>2, <1>5
<1>8. Lies(f, p, s, n, v, e)
  BY <1>5, <1>6, <1>7, SizePos DEF Lies
<1> QED BY <1>8

\* What is fetched of it: in one piece, from the block it ends in, from a block
\* in its middle, and from the block it begins in.
LEMMA NothingFetched == \A n \in Nat : \A v : Has(Garbage(n), n, v, 0)
  BY DEF Has, Garbage

LEMMA FetchFits ==
  ASSUME NEW s \in Nat, NEW n \in Nat, NEW v, NEW e \in Int, e = s + n, Holds(s, e, e, v),
         NEW b \in Int, Aligned(b), b <= s, e <= b + B,
         NEW a, a = e - n
  PROVE  Fetched(Garbage(n), 0, a, n) = Array(v, n)
<1>1. a = s /\ a \in Int
  OBVIOUS
<1>2. Part(s, e, b, a, n)
  BY <1>1, BPos DEF Part, Higher, Lower
<1>3. PICK i \in Nat : i = 0
  OBVIOUS
<1>4. i = e - (a + n) /\ i + n = n
  BY <1>1, <1>3
<1>5. PICK x : x = Garbage(n)
  OBVIOUS
<1>6. Has(x, n, v, i)
  BY <1>3, <1>5, NothingFetched
<1>7. PICK y : y = Fetched(x, i, a, n)
  OBVIOUS
<1>8. Has(Fetched(x, i, a, n), n, v, i + n)
  BY <1>1, <1>2, <1>4, <1>6, Takes
<1>9. Has(y, n, v, n)
  BY <1>4, <1>7, <1>8
<1>10. y = Array(v, n)
  BY <1>7, <1>9, TakesAll
<1> QED BY <1>3, <1>5, <1>7, <1>10

LEMMA FetchBegins ==
  ASSUME NEW s \in Nat, NEW n \in Nat, NEW v, NEW e \in Int, e = s + n, Holds(s, e, e, v),
         NEW b \in Int, Aligned(b), s <= b, b <= e, e <= b + B,
         NEW k, k = e - b, NEW x, x = Fetched(Garbage(n), 0, b, k)
  PROVE  Has(x, n, v, k)
<1>1. k \in Int /\ b + k = e /\ k >= 0
  OBVIOUS
<1>2. Part(s, e, b, b, k)
  BY <1>1, BPos DEF Part, Higher, Lower
<1>3. PICK i \in Nat : i = 0
  OBVIOUS
<1>4. i = e - (b + k) /\ i + k = k
  BY <1>1, <1>3
<1>5. PICK y : y = Garbage(n)
  OBVIOUS
<1>6. Has(y, n, v, i)
  BY <1>3, <1>5, NothingFetched
<1>7. Has(Fetched(y, i, b, k), n, v, i + k)
  BY <1>1, <1>2, <1>4, <1>6, Takes
<1>8. Fetched(y, i, b, k) = x
  BY <1>3, <1>5
<1> QED BY <1>4, <1>7, <1>8

LEMMA FetchGoesOn ==
  ASSUME NEW s \in Nat, NEW n \in Nat, NEW v, NEW e \in Int, e = s + n, Holds(s, e, e, v),
         NEW b \in Int, Aligned(b), NEW i \in Nat, b + B = e - i, i + B < n,
         NEW y, Has(y, n, v, i), NEW x, x = Fetched(y, i, b, B)
  PROVE  Has(x, n, v, i + B)
<1>1. PICK k \in Int : k = B
  BY BPos
<1>2. b + B <= e /\ b >= s /\ i = e - (b + k)
  BY <1>1, BPos
<1>3. Part(s, e, b, b, k)
  BY <1>1, <1>2, BPos DEF Part, Higher, Lower
<1>4. Has(Fetched(y, i, b, k), n, v, i + k)
  BY <1>2, <1>3, Takes
<1> QED BY <1>1, <1>4

LEMMA FetchEnds ==
  ASSUME NEW s \in Nat, NEW n \in Nat, NEW v, NEW e \in Int, e = s + n, Holds(s, e, e, v),
         NEW b \in Int, Aligned(b), NEW i \in Nat, b + B = e - i, i < n, n <= i + B,
         NEW y, Has(y, n, v, i)
  PROVE  Fetched(y, i, b + B - (n - i), n - i) = Array(v, n)
<1>1. PICK k \in Int, a \in Int : k = n - i /\ a = b + B - (n - i)
  BY BPos
<1>2. a = s /\ a + k = e - i /\ i = e - (a + k) /\ k > 0 /\ b <= s /\ i + k = n
  BY <1>1, BPos
<1>3. Part(s, e, b, a, k)
  BY <1>1, <1>2, BPos DEF Part, Higher, Lower
<1>4. PICK x : x = Fetched(y, i, a, k)
  OBVIOUS
<1>5. Has(Fetched(y, i, a, k), n, v, i + k)
  BY <1>2, <1>3, Takes
<1>6. Has(x, n, v, n)
  BY <1>2, <1>4, <1>5
<1>7. x = Array(v, n)
  BY <1>4, <1>6, TakesAll
<1> QED BY <1>1, <1>4, <1>7

LEMMA FetchContent ==
  ASSUME NEW f, Stored(f)', NEW v, Has(call'.x, call'.n, v, call'.at),
         \/ call'.op = "pop" /\ v = tape'[Len(tape')].v
         \/ call'.op = "look" /\ v = tape'[Len(tape') - looked'].v
  PROVE  Content(f)'
<1>1. Fetching(v)'
  BY DEF Fetching
<1>2. call'.op = "pop" => Fetching(tape[Len(tape)].v)'
  BY <1>1
<1>3. call'.op = "look" => Fetching(tape[Len(tape) - looked].v)'
  BY <1>1
<1> QED BY <1>2, <1>3 DEF Content

\* The call after one more block
LEMMA CallGoesOn ==
  ASSUME NEW o, FetchCall(o), NEW b, call' = FetchBlock(b)
  PROVE  /\ call'.op = o /\ call'.n = call.n /\ call'.at = call.at + B
         /\ call'.x = Fetched(call.x, call.at, b, B)
<1>1. PICK n, at, x, y, k : /\ n = call.n /\ at = call.at /\ x = call.x
                            /\ y = Fetched(call.x, call.at, b, B) /\ k = call.at + B
  OBVIOUS
<1>2. call = [op |-> o, n |-> n, at |-> at, x |-> x]
  BY <1>1 DEF FetchCall
<1>3. call' = [call EXCEPT !.at = k, !.x = y]
  BY <1>1 DEF FetchBlock
<1>4. call' = [op |-> o, n |-> n, at |-> k, x |-> y]
  BY <1>2, <1>3
<1> QED BY <1>1, <1>4

LEMMA PopFitsTape ==
  ASSUME Types, Chain, NEW f, Placed(f), Content(f), IInv', PopFits
  PROVE  FInv' /\ TapeStep
<1>1. /\ call = Idle /\ tape # <<>> /\ tape' = Front(tape) /\ looked' = 0 /\ call' = Idle /\ mem' = mem
      /\ Last(tape).n <= top - base
      /\ out' = Fetched(Garbage(Last(tape).n), 0, top - Last(tape).n, Last(tape).n)
  BY DEF PopFits, Popped, Held, memory
<1>2. Layout(f, tape) /\ IdleState(f) /\ Stored(f)
  BY <1>1, CallOps DEF Placed, Content
<1>3. /\ tape \in Seq(Frames) /\ Len(tape) \in 1 .. Len(tape)
      /\ base \in Int /\ top \in Int /\ Aligned(base)
  BY <1>1 DEF Types, Chain
<1>4. base <= top /\ top <= base + B /\ top = f[Len(tape) + 1]
  BY <1>2 DEF IdleState, AtRest
<1>0. PICK p : p = Len(tape)
  OBVIOUS
<1>5. PICK s \in Nat, n \in Sizes, v \in Vals, e \in Nat :
        /\ s = f[p] /\ n = tape[p].n /\ v = tape[p].v /\ e = f[p + 1]
        /\ e = s + n /\ n \in Nat /\ n > 0 /\ Holds(s, e, e, v)
  <2>1. p \in 1 .. Len(tape)
    BY <1>0, <1>3
  <2>2. \E s \in Nat, n \in Sizes, v \in Vals, e \in Nat : Lies(f, p, s, n, v, e)
    BY <1>2, <2>1, ArrayHeld
  <2> QED BY <2>2 DEF Lies
<1>6. Last(tape).n = n
  BY <1>0, <1>5 DEF Last
<1>7. PICK a : a = top - n
  OBVIOUS
<1>8. out' = Fetched(Garbage(n), 0, a, n)
  BY <1>1, <1>6, <1>7
<1>9. base <= s /\ e <= base + B /\ a = e - n /\ e \in Int
  <2>1. top = e /\ n <= top - base
    BY <1>0, <1>1, <1>4, <1>5, <1>6
  <2>2. e = s + n /\ s \in Int /\ n \in Int /\ e \in Int
    BY <1>5
  <2> QED BY <1>3, <1>4, <1>7, <2>1, <2>2
<1>10. out' = Array(v, n)
  BY <1>3, <1>5, <1>8, <1>9, FetchFits, ZenonT(40)
<1> QED
  BY <1>0, <1>1, <1>2, <1>5, <1>10, PopComplete

LEMMA PopBeginTape ==
  ASSUME Types, Chain, NEW f, Placed(f), Content(f), IInv', PopBegin
  PROVE  FInv' /\ TapeStep
<1>1. /\ call = Idle /\ tape # <<>> /\ UNCHANGED <<mem, tape, looked, out>>
      /\ Last(tape).n > top - base
      /\ call' = FetchBegun("pop", Last(tape).n, base, top)
  BY DEF PopBegin, Held, memory, caller
<1>2. Layout(f, tape) /\ IdleState(f) /\ Stored(f)
  BY <1>1, CallOps DEF Placed, Content
<1>3. /\ tape \in Seq(Frames) /\ Len(tape) \in 1 .. Len(tape)
      /\ base \in Int /\ top \in Int /\ Aligned(base)
  BY <1>1 DEF Types, Chain
<1>4. base <= top /\ top <= base + B /\ top = f[Len(tape) + 1]
  BY <1>2 DEF IdleState, AtRest
<1>0. PICK p : p = Len(tape)
  OBVIOUS
<1>5. PICK s \in Nat, n \in Sizes, v \in Vals, e \in Nat :
        /\ s = f[p] /\ n = tape[p].n /\ v = tape[p].v /\ e = f[p + 1]
        /\ e = s + n /\ n \in Nat /\ n > 0 /\ Holds(s, e, e, v)
  <2>1. p \in 1 .. Len(tape)
    BY <1>0, <1>3
  <2>2. \E s \in Nat, n \in Sizes, v \in Vals, e \in Nat : Lies(f, p, s, n, v, e)
    BY <1>2, <2>1, ArrayHeld
  <2> QED BY <2>2 DEF Lies
<1>6. Last(tape).n = n
  BY <1>0, <1>5 DEF Last
<1>7. PICK k, x : k = top - base /\ x = Fetched(Garbage(n), 0, base, k)
  OBVIOUS
<1>8. call' = [op |-> "pop", n |-> n, at |-> k, x |-> x]
  BY <1>1, <1>6, <1>7 DEF FetchBegun, Held
<1>9. s <= base /\ base <= e /\ e <= base + B /\ k = e - base /\ e \in Int
  <2>1. top = e /\ n > top - base
    BY <1>0, <1>1, <1>4, <1>5, <1>6
  <2>2. e = s + n /\ s \in Int /\ n \in Int /\ e \in Int
    BY <1>5
  <2> QED BY <1>3, <1>4, <1>7, <2>1, <2>2
<1>10. Has(x, n, v, k)
  BY <1>3, <1>5, <1>7, <1>9, FetchBegins
<1>11. Content(f)'
  <2>1. call'.op = "pop" /\ call'.n = n /\ call'.at = k /\ call'.x = x
    BY <1>8
  <2>2. Has(call'.x, call'.n, v, call'.at) /\ v = tape'[Len(tape')].v
    BY <1>0, <1>1, <1>5, <1>10, <2>1
  <2> QED BY <1>1, <1>2, <2>1, <2>2, StoredStays, FetchContent
<1> QED
  BY <1>1, <1>2, <1>11, TapeStays

LEMMA PopBlockTape ==
  ASSUME Types, Chain, NEW f, Placed(f), Content(f), IInv', PopBlock
  PROVE  FInv' /\ TapeStep
<1>1. Layout(f, tape) /\ PopState(f) /\ call.op = "pop" /\ Stored(f) /\ FetchCall("pop")
  BY CallOps DEF Placed, Content, PopBlock, PopState
<1>2. /\ tape \in Seq(Frames) /\ Len(tape) \in 1 .. Len(tape) /\ base \in Int /\ Aligned(base) /\ tape # <<>>
  BY <1>1 DEF Types, Chain, PopState
<1>0. PICK p : p = Len(tape)
  OBVIOUS
<1>3. PICK s \in Nat, n \in Sizes, v \in Vals, e \in Nat :
        /\ s = f[p] /\ n = tape[p].n /\ v = tape[p].v /\ e = f[p + 1]
        /\ e = s + n /\ n \in Nat /\ n > 0 /\ Holds(s, e, e, v)
  <2>1. Layout(f, tape) /\ Stored(f) /\ p \in 1 .. Len(tape)
    BY <1>0, <1>1, <1>2
  <2>2. \E s \in Nat, n \in Sizes, v \in Vals, e \in Nat : Lies(f, p, s, n, v, e)
    BY <2>1, ArrayHeld
  <2> QED BY <2>2 DEF Lies
<1>4. PICK i, y : i = call.at /\ y = call.x
  OBVIOUS
<1>5. call.n = n /\ i \in Nat /\ i < n
  BY <1>0, <1>1, <1>3, <1>4 DEF PopState, FetchCall
<1>6. Has(y, n, v, i)
  BY <1>0, <1>1, <1>3, <1>4, <1>5 DEF Content, Fetching
<1>7. PICK b : b = base - B
  OBVIOUS
<1>8. b \in Int /\ Aligned(b) /\ b + B = e - i /\ e \in Int
  <2>1. base = (s + n) - i
    BY <1>0, <1>1, <1>3, <1>4, <1>5 DEF PopState
  <2>2. Aligned(b)
    BY <1>2, <1>7, AlignedStep
  <2> QED BY <1>2, <1>3, <1>7, <2>1, <2>2, BPos
<1>9. base' = b /\ mem' = mem
  BY <1>7 DEF PopBlock, memory
<1>10. CASE WholeBlock
  <2>1. call' = FetchBlock(b) /\ UNCHANGED <<tape, looked, out>>
    BY <1>9, <1>10 DEF PopBlock, caller
  <2>2. PICK x : x = Fetched(y, i, b, B)
    OBVIOUS
  <2>3. call'.op = "pop" /\ call'.n = n /\ call'.at = i + B /\ call'.x = x
    BY <1>1, <1>4, <1>5, <2>1, <2>2, CallGoesOn
  <2>4. i + B < n
    BY <1>4, <1>5, <1>10 DEF WholeBlock
  <2>5. Has(x, n, v, i + B)
    BY <1>3, <1>5, <1>6, <1>8, <2>2, <2>4, FetchGoesOn
  <2>6. Content(f)'
    <3>1. Has(call'.x, call'.n, v, call'.at) /\ v = tape'[Len(tape')].v
      BY <1>0, <1>3, <2>1, <2>3, <2>5
    <3> QED BY <1>1, <1>9, <2>1, <2>3, <3>1, StoredStays, FetchContent
  <2> QED
    BY <1>1, <2>1, <2>6, TapeStays
<1>11. CASE ~WholeBlock
  <2>1. call' = Idle /\ out' = FetchRest(b) /\ tape' = Front(tape) /\ looked' = 0
    BY <1>9, <1>11 DEF PopBlock, Popped
  <2>2. out' = Fetched(y, i, b + B - (n - i), n - i)
    BY <1>4, <1>5, <2>1 DEF FetchRest, Lacking
  <2>3. n <= i + B
    <3>1. ~(i + B < n)
      BY <1>4, <1>5, <1>11 DEF WholeBlock
    <3> QED BY <1>3, <1>5, <3>1, BPos
  <2>4. out' = Array(v, n)
    <3>1. Fetched(y, i, b + B - (n - i), n - i) = Array(v, n)
      BY <1>3, <1>5, <1>6, <1>8, <2>3, FetchEnds
    <3> QED BY <2>2, <3>1
  <2> QED
    BY <1>0, <1>1, <1>2, <1>3, <1>9, <2>1, <2>4, PopComplete
<1> QED BY <1>10, <1>11

LEMMA LookFitsTape ==
  ASSUME Types, Chain, NEW f, Placed(f), Content(f), IInv', LookFits
  PROVE  FInv' /\ TapeStep
<1>1. /\ call = Idle /\ looked < Len(tape) /\ UNCHANGED <<mem, tape>> /\ call' = Idle
      /\ looked' = looked + 1 /\ Sought.n <= LookTop - LookBase
      /\ out' = Fetched(Garbage(Sought.n), 0, LookTop - Sought.n, Sought.n)
  BY DEF LookFits, Held, memory
<1>2. Layout(f, tape) /\ IdleState(f) /\ Stored(f)
  BY <1>1, CallOps DEF Placed, Content
<1>3. PICK p : p = Len(tape) - looked
  OBVIOUS
<1>4. p \in 1 .. Len(tape)
  BY <1>1, <1>2, <1>3, SoughtEntry
<1>5. PICK b, t : b = LookBase /\ t = LookTop
  OBVIOUS
<1>6. b \in Int /\ t \in Int /\ Aligned(b) /\ b <= t /\ t <= b + B /\ t = f[p + 1]
  BY <1>1, <1>2, <1>3, <1>5, CursorsInBlocks
<1>7. PICK s \in Nat, n \in Sizes, v \in Vals, e \in Nat :
        /\ s = f[p] /\ n = tape[p].n /\ v = tape[p].v /\ e = f[p + 1]
        /\ e = s + n /\ n \in Nat /\ n > 0 /\ Holds(s, e, e, v)
  <2>1. \E s \in Nat, n \in Sizes, v \in Vals, e \in Nat : Lies(f, p, s, n, v, e)
    BY <1>2, <1>4, ArrayHeld
  <2> QED BY <2>1 DEF Lies
<1>8. Sought.n = n
  BY <1>3, <1>7 DEF Sought
<1>9. PICK a : a = t - n
  OBVIOUS
<1>10. out' = Fetched(Garbage(n), 0, a, n)
  BY <1>1, <1>5, <1>8, <1>9
<1>11. b <= s /\ e <= b + B /\ a = e - n /\ e \in Int
  <2>1. t = e /\ n <= t - b
    BY <1>1, <1>5, <1>6, <1>7, <1>8
  <2>2. e = s + n /\ s \in Int /\ n \in Int /\ e \in Int
    BY <1>7
  <2> QED BY <1>6, <1>9, <2>1, <2>2
<1>12. out' = Array(v, n)
  BY <1>6, <1>7, <1>10, <1>11, FetchFits
<1> QED
  BY <1>1, <1>2, <1>3, <1>7, <1>12, LookComplete

LEMMA LookBeginTape ==
  ASSUME Types, Chain, NEW f, Placed(f), Content(f), IInv', LookBegin
  PROVE  FInv' /\ TapeStep
<1>1. /\ call = Idle /\ looked < Len(tape) /\ UNCHANGED <<mem, tape, looked, out>>
      /\ Sought.n > LookTop - LookBase
      /\ call' = FetchBegun("look", Sought.n, LookBase, LookTop)
  BY DEF LookBegin, Held, memory, caller
<1>2. Layout(f, tape) /\ IdleState(f) /\ Stored(f)
  BY <1>1, CallOps DEF Placed, Content
<1>3. PICK p : p = Len(tape) - looked
  OBVIOUS
<1>4. p \in 1 .. Len(tape)
  BY <1>1, <1>2, <1>3, SoughtEntry
<1>5. PICK b, t : b = LookBase /\ t = LookTop
  OBVIOUS
<1>6. b \in Int /\ t \in Int /\ Aligned(b) /\ b <= t /\ t <= b + B /\ t = f[p + 1]
  BY <1>1, <1>2, <1>3, <1>5, CursorsInBlocks
<1>7. PICK s \in Nat, n \in Sizes, v \in Vals, e \in Nat :
        /\ s = f[p] /\ n = tape[p].n /\ v = tape[p].v /\ e = f[p + 1]
        /\ e = s + n /\ n \in Nat /\ n > 0 /\ Holds(s, e, e, v)
  <2>1. \E s \in Nat, n \in Sizes, v \in Vals, e \in Nat : Lies(f, p, s, n, v, e)
    BY <1>2, <1>4, ArrayHeld
  <2> QED BY <2>1 DEF Lies
<1>8. Sought.n = n
  BY <1>3, <1>7 DEF Sought
<1>9. PICK k, x : k = t - b /\ x = Fetched(Garbage(n), 0, b, k)
  OBVIOUS
<1>10. call' = [op |-> "look", n |-> n, at |-> k, x |-> x]
  BY <1>1, <1>5, <1>8, <1>9 DEF FetchBegun, Held
<1>11. s <= b /\ b <= e /\ e <= b + B /\ k = e - b /\ e \in Int
  <2>1. t = e /\ n > t - b
    BY <1>1, <1>5, <1>6, <1>7, <1>8
  <2>2. e = s + n /\ s \in Int /\ n \in Int /\ e \in Int
    BY <1>7
  <2> QED BY <1>6, <1>9, <2>1, <2>2
<1>12. Has(x, n, v, k)
  BY <1>6, <1>7, <1>9, <1>11, FetchBegins
<1>13. Content(f)'
  <2>1. call'.op = "look" /\ call'.n = n /\ call'.at = k /\ call'.x = x
    BY <1>10
  <2>2. Has(call'.x, call'.n, v, call'.at) /\ v = tape'[Len(tape') - looked'].v
    BY <1>1, <1>3, <1>7, <1>12, <2>1
  <2> QED BY <1>1, <1>2, <2>1, <2>2, StoredStays, FetchContent
<1> QED
  BY <1>1, <1>2, <1>13, TapeStays

LEMMA LookBlockTape ==
  ASSUME Types, Chain, NEW f, Placed(f), Content(f), IInv', LookBlock
  PROVE  FInv' /\ TapeStep
<1>1. /\ Layout(f, tape) /\ LookState(f) /\ call.op = "look" /\ Stored(f) /\ FetchCall("look")
      /\ looked < Len(tape)
  BY CallOps DEF Placed, Content, LookBlock, LookState
<1>2. lbase \in Int /\ Aligned(lbase)
  BY DEF Types, Chain
<1>3. PICK p : p = Len(tape) - looked
  OBVIOUS
<1>4. p \in 1 .. Len(tape)
  BY <1>1, <1>3, SoughtEntry
<1>5. PICK s \in Nat, n \in Sizes, v \in Vals, e \in Nat :
        /\ s = f[p] /\ n = tape[p].n /\ v = tape[p].v /\ e = f[p + 1]
        /\ e = s + n /\ n \in Nat /\ n > 0 /\ Holds(s, e, e, v)
  <2>1. Layout(f, tape) /\ Stored(f)
    BY <1>1
  <2>2. \E s \in Nat, n \in Sizes, v \in Vals, e \in Nat : Lies(f, p, s, n, v, e)
    BY <1>4, <2>1, ArrayHeld
  <2> QED BY <2>2 DEF Lies
<1>6. PICK i, y : i = call.at /\ y = call.x
  OBVIOUS
<1>7. call.n = n /\ i \in Nat /\ i < n
  BY <1>1, <1>3, <1>5, <1>6 DEF LookState, FetchCall
<1>8. Has(y, n, v, i)
  BY <1>1, <1>3, <1>5, <1>6, <1>7 DEF Content, Fetching
<1>9. PICK b : b = lbase - B
  OBVIOUS
<1>10. b \in Int /\ Aligned(b) /\ b + B = e - i /\ e \in Int
  <2>1. lbase = (s + n) - i
    BY <1>1, <1>3, <1>5, <1>6, <1>7 DEF LookState
  <2>2. Aligned(b)
    BY <1>2, <1>9, AlignedStep
  <2> QED BY <1>2, <1>5, <1>9, <2>1, <2>2, BPos
<1>11. lbase' = b /\ mem' = mem /\ tape' = tape
  BY <1>9 DEF LookBlock, memory
<1>12. CASE WholeBlock
  <2>1. call' = FetchBlock(b) /\ UNCHANGED <<tape, looked, out>>
    BY <1>11, <1>12 DEF LookBlock
  <2>2. PICK x : x = Fetched(y, i, b, B)
    OBVIOUS
  <2>3. call'.op = "look" /\ call'.n = n /\ call'.at = i + B /\ call'.x = x
    BY <1>1, <1>6, <1>7, <2>1, <2>2, CallGoesOn
  <2>4. i + B < n
    BY <1>6, <1>7, <1>12 DEF WholeBlock
  <2>5. Has(x, n, v, i + B)
    BY <1>5, <1>7, <1>8, <1>10, <2>2, <2>4, FetchGoesOn
  <2>6. Content(f)'
    <3>1. Has(call'.x, call'.n, v, call'.at) /\ v = tape'[Len(tape') - looked'].v
      BY <1>3, <1>5, <2>1, <2>3, <2>5
    <3> QED BY <1>1, <1>11, <2>1, <2>3, <3>1, StoredStays, FetchContent
  <2> QED
    BY <1>1, <2>1, <2>6, TapeStays
<1>13. CASE ~WholeBlock
  <2>1. call' = Idle /\ out' = FetchRest(b) /\ looked' = looked + 1
    BY <1>11, <1>13 DEF LookBlock
  <2>2. out' = Fetched(y, i, b + B - (n - i), n - i)
    BY <1>6, <1>7, <2>1 DEF FetchRest, Lacking
  <2>3. n <= i + B
    <3>1. ~(i + B < n)
      BY <1>6, <1>7, <1>13 DEF WholeBlock
    <3> QED BY <1>5, <1>7, <3>1, BPos
  <2>4. out' = Array(v, n)
    <3>1. Fetched(y, i, b + B - (n - i), n - i) = Array(v, n)
      BY <1>5, <1>7, <1>8, <1>10, <2>3, FetchEnds
    <3> QED BY <2>2, <3>1
  <2> QED
    BY <1>1, <1>3, <1>5, <1>11, <2>1, <2>4, LookComplete
<1> QED BY <1>12, <1>13

LEMMA ResetLookTape ==
  ASSUME Types, NEW f, Placed(f), Content(f), IInv', ResetLook
  PROVE  FInv' /\ TapeStep
<1>1. UNCHANGED <<mem, tape, out>> /\ call' = Idle /\ looked' = 0
  BY DEF ResetLook, memory
<1>2. Content(f)'
  BY <1>1, StoredStays, IdleContent DEF Content
<1> QED BY <1>1, <1>2, TapeStays DEF Placed

LEMMA StutterTape ==
  ASSUME Types, NEW f, Placed(f), Content(f), IInv', UNCHANGED vars
  PROVE  FInv' /\ TapeStep
<1>1. UNCHANGED <<mem, tape, looked, call, base, out>>
  BY DEF vars
<1>2. Content(f)'
  BY <1>1, StoredStays DEF Content, Fetching, Holds, Aligned, ByteAt, Lower, Higher
<1> QED BY <1>1, <1>2, TapeStays DEF Placed

LEMMA InitTape == Init => FInv /\ Tapes!Init
<1> SUFFICES ASSUME Init PROVE FInv /\ Tapes!Init
  OBVIOUS
<1>1. IInv
  BY InitInv
<1>2. PICK f : Placed(f)
  BY <1>1 DEF IInv
<1>3. tape = <<>> /\ Len(tape) = 0 /\ call = Idle /\ call.op = "idle" /\ looked = 0 /\ out = <<>>
  BY DEF Init, Idle
<1>4. Content(f)
  BY <1>3 DEF Content, Stored
<1>5. FInv
  BY <1>1, <1>2, <1>4 DEF FInv, IInv
<1>6. [i \in DOMAIN tape |-> Array(tape[i].v, tape[i].n)] = <<>>
  BY <1>3
<1> QED BY <1>3, <1>5, <1>6 DEF Tapes!Init

LEMMA StepTape == FInv /\ [Next]_vars => FInv' /\ TapeStep
<1> SUFFICES ASSUME FInv, [Next]_vars PROVE FInv' /\ TapeStep
  OBVIOUS
<1>1. Types /\ Chain /\ IInv
  BY DEF FInv, IInv
<1>2. PICK f : Placed(f) /\ Content(f)
  BY DEF FInv
<1>3. IInv'
  BY <1>1, StepInv
<1>4. ASSUME NEW v \in Vals, NEW n \in Sizes, PushFits(v, n) \/ PushTail(v, n)
      PROVE  FInv' /\ TapeStep
  BY <1>1, <1>2, <1>3, <1>4, PushFitsTape, PushTailTape
<1>5. CASE PushBlock \/ OutOfMemory
  BY <1>1, <1>2, <1>3, <1>5, PushBlockTape, OutOfMemoryTape
<1>6. CASE PopFits \/ PopBegin \/ PopBlock
  BY <1>1, <1>2, <1>3, <1>6, PopFitsTape, PopBeginTape, PopBlockTape
<1>7. CASE LookFits \/ LookBegin \/ LookBlock
  BY <1>1, <1>2, <1>3, <1>7, LookFitsTape, LookBeginTape, LookBlockTape
<1>8. CASE ResetLook \/ UNCHANGED vars
  BY <1>1, <1>2, <1>3, <1>8, ResetLookTape, StutterTape
<1> QED
  BY <1>4, <1>5, <1>6, <1>7, <1>8 DEF Next

\* POP and LOOK return the arrays that were PUSHed, byte by byte, last in first
\* out, whatever their sizes are and however they are cut over the blocks, and
\* a LOOK leaves what the next POPs return alone: pushNarray, popNarray and
\* lookNarray implement a tape of arrays.
THEOREM StackIsATape == Spec => ImplementsTape
<1> DEFINE arrays == [i \in DOMAIN tape |-> Array(tape[i].v, tape[i].n)]
<1>1. FInv /\ [Next]_vars => FInv' /\ [Tapes!Next]_<<arrays, looked, out>>
  BY StepTape, TapeStepIs
<1> QED
  BY <1>1, InitTape, PTL DEF Spec, ImplementsTape, Tapes!Spec
=============================================================================
