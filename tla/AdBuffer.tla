------------------------------ MODULE AdBuffer ------------------------------
(***************************************************************************)
(* The buffers of the adjoint model, wrftladj/adBuffer.F.                  *)
(*                                                                         *)
(* Single values are not pushed on the C stack of adStack.c one by one:    *)
(* every type has a buffer of 512 values that is pushed as one array when  *)
(* it is full and popped as one array when it is empty.  Logicals and      *)
(* control values are kept as bits of a 32 bit integer, which, when full,  *)
(* goes to the buffer of the integers like any other.  Several buffers     *)
(* share one C stack: nothing in it says whose array is on top.            *)
(*                                                                         *)
(* The C stack is Tape, which AdStack implements, with arrays that know    *)
(* the type they were pushed with.                                         *)
(***************************************************************************)
EXTENDS Integers, Sequences, SequencesExt

CONSTANTS Types,        \* the types with a buffer (character, integer4, real8 ...)
          Integer4,     \* the one the words of bits go to
          Values,       \* the values pushed
          Garbage,      \* what a buffer holds before anything was stored
          L,            \* values in a buffer: 512
          W,            \* bits in a word: 32
          Programs      \* adjoint programs, told apart by the calls they make

ASSUME BufferAssumption == L \in Nat \ {0} /\ W \in Nat \ {0}
ASSUME TypesAssumption == Integer4 \in Types /\ Garbage \notin Values

\* A program: the types and the values it pushes, the bits of its control values
\* (PUSHCONTROL1B to 5B, PUSHBOOLEAN), the sizes of the arrays it pushes past the
\* buffers, whether it calls the LOOKs, and a bound on the tape.
ASSUME ProgramsAssumption ==
  \A p \in Programs : /\ p.types \subseteq Types /\ p.values \subseteq Values
                      /\ p.control \in Nat /\ p.arrays \subseteq Nat \ {0}
                      /\ p.looks \in BOOLEAN /\ p.depth \in Nat

VARIABLES
  prog,     \* the program
  ad,       \* the COMMON blocks of adBuffer.F and the C stack
  tape,     \* what the caller pushed and has still to pop
  looked,   \* how many of these it has looked at since the last push or pop
  out       \* what the last pop or look returned

vars == <<prog, ad, tape, looked, out>>

\* What is pushed: a value, an array or the bits of a control value.
Item(kind, t, x) == [kind |-> kind, t |-> t, x |-> x]
Filled(n, x) == [i \in 1 .. n |-> x]

\* adXXXbuf, adXXXibuf, adXXXlbuf, adXXXilbuf, adXXXinlbuf of the types; the
\* same of the bits; the C stack and its LOOKing position, which is the number
\* of arrays looked at, 0 when it is reset.
Init ==
  /\ prog \in Programs
  /\ ad = [buf |-> [t \in Types |-> Filled(L, Garbage)],
           ibuf |-> [t \in Types |-> 1],
           lbuf |-> [t \in Types |-> Filled(L, Garbage)],
           ilbuf |-> [t \in Types |-> -1],
           inlbuf |-> [t \in Types |-> FALSE],
           bits |-> [i \in 0 .. W - 1 |-> FALSE], ibit |-> 0,
           lbits |-> [i \in 0 .. W - 1 |-> FALSE], ilbit |-> -1,
           stack |-> <<>>, looks |-> 0]
  /\ tape = <<>> /\ looked = 0 /\ out = Garbage

-----------------------------------------------------------------------------
(* The C stack (adStack.c): a push or a pop resets the LOOKing position.    *)

ArrayPushed(s, t, x) ==
  [s EXCEPT !.stack = Append(@, [t |-> t, x |-> x]), !.looks = 0]
ArrayPopped(s) == [s EXCEPT !.stack = Front(@), !.looks = 0]
\* A position below the first array stays there.
ArrayLooked(s) == [s EXCEPT !.looks = IF @ <= Len(s.stack) THEN @ + 1 ELSE @]

\* The array the next pop or look of the C stack is about, for a caller that
\* wants n values of type t: bytes of something else when it is not that.
TopArray(s, t, n) ==
  LET f == s.stack[Len(s.stack) - s.looks]
      there == s.looks < Len(s.stack) IN
  IF there /\ f.t = t /\ Len(f.x) = n THEN f.x ELSE Filled(n, Garbage)

PopArrayOf(s, t, n) == TopArray([s EXCEPT !.looks = 0], t, n)

-----------------------------------------------------------------------------
(* PUSHINTEGER4, PUSHREAL8, ...: all types are alike *)

LookReset(s, t) == [s EXCEPT !.ilbuf[t] = -1,
                             !.inlbuf[t] = IF s.ilbuf[t] # -1 THEN FALSE ELSE @]

ItemPushed(s, t, x) ==
  LET r == [LookReset(s, t) EXCEPT !.buf[t][s.ibuf[t]] = x] IN
  IF s.ibuf[t] >= L
  THEN [ArrayPushed(r, t, r.buf[t]) EXCEPT !.ibuf[t] = 1]
  ELSE [r EXCEPT !.ibuf[t] = @ + 1]

\* Mistake: a buffer is refilled one value too early.
ItemPoppedEarly(s, t) ==
  LET r == LookReset(s, t) IN
  IF s.ibuf[t] <= 2
  THEN [ArrayPopped(r) EXCEPT !.buf[t] = PopArrayOf(s, t, L), !.ibuf[t] = L]
  ELSE [r EXCEPT !.ibuf[t] = @ - 1]

ItemPopped(s, t) ==
  LET r == LookReset(s, t) IN
  IF s.ibuf[t] <= 1
  THEN [ArrayPopped(r) EXCEPT !.buf[t] = PopArrayOf(s, t, L), !.ibuf[t] = L]
  ELSE [r EXCEPT !.ibuf[t] = @ - 1]

PoppedValue(s, t) == s.buf[t][s.ibuf[t]]      \* after ItemPopped

\* Mistake: the LOOKs of a type start where those of another one are.
FirstLookKeepsStack(s, t) ==
  IF s.ilbuf[t] = -1 THEN [s EXCEPT !.ilbuf[t] = s.ibuf[t]] ELSE s

\* The first LOOK of a type resets the LOOKing position of the C stack.
FirstLook(s, t) ==
  IF s.ilbuf[t] = -1 THEN [s EXCEPT !.ilbuf[t] = s.ibuf[t], !.looks = 0] ELSE s

ItemLooked(s, t) ==
  LET r == FirstLook(s, t) IN
  IF r.ilbuf[t] <= 1
  THEN [ArrayLooked(r) EXCEPT !.lbuf[t] = TopArray(r, t, L),
                              !.inlbuf[t] = TRUE, !.ilbuf[t] = L]
  ELSE [r EXCEPT !.ilbuf[t] = @ - 1]

LookedValue(s, t) == (IF s.inlbuf[t] THEN s.lbuf[t] ELSE s.buf[t])[s.ilbuf[t]]

-----------------------------------------------------------------------------
(* PUSHBIT, POPBIT, LOOKBIT *)

NoBits == [i \in 0 .. W - 1 |-> FALSE]

\* The bits of a value that was not pushed as bits: whichever they are.
AsWord(x) == IF x \in [0 .. W - 1 -> BOOLEAN] THEN x ELSE NoBits

BitPushed(s, b) ==
  LET r == [s EXCEPT !.ilbit = -1, !.bits[s.ibit] = b] IN
  IF s.ibit >= W - 1
  THEN [ItemPushed(r, Integer4, r.bits) EXCEPT !.bits = NoBits, !.ibit = 0]
  ELSE [r EXCEPT !.ibit = @ + 1]

BitPopped(s) ==
  LET r == [s EXCEPT !.ilbit = -1]
      p == ItemPopped(r, Integer4) IN
  IF s.ibit <= 0
  THEN [p EXCEPT !.bits = AsWord(PoppedValue(p, Integer4)), !.ibit = W - 1]
  ELSE [r EXCEPT !.ibit = @ - 1]

PoppedBit(s) == s.bits[s.ibit]                \* after BitPopped

BitLooked(s) ==
  LET r == IF s.ilbit = -1 THEN [s EXCEPT !.ilbit = s.ibit, !.lbits = s.bits] ELSE s
      q == ItemLooked(r, Integer4) IN
  IF r.ilbit <= 0
  THEN [q EXCEPT !.lbits = AsWord(LookedValue(q, Integer4)), !.ilbit = W - 1]
  ELSE [r EXCEPT !.ilbit = @ - 1]

\* A control value is the bits BTEST finds in it, bit 0 first: PUSHCONTROLnB pushes
\* its n bits one after the other, POPCONTROLnB sets them from bit n - 1 down.
Control(c) == Item("control", Integer4, c)
Pushes(s, c) ==
  LET r[i \in 0 .. Len(c)] == IF i = 0 THEN s ELSE BitPushed(r[i - 1], c[i]) IN r
ControlPushed(s, c) == Pushes(s, c)[Len(c)]
Pops(s, n) ==
  LET r[i \in 0 .. n] == IF i = 0 THEN s ELSE BitPopped(r[i - 1]) IN r
ControlPopped(s, n) == Pops(s, n)[n]
PoppedControl(s, n) == [i \in 1 .. n |-> PoppedBit(Pops(s, n)[n + 1 - i])]

-----------------------------------------------------------------------------
(* The calls, made by the forward and the backward sweep: the backward one  *)
(* pops what the forward one pushed, with the same types.                   *)

OnTape(it) == /\ Len(tape) < prog.depth
              /\ tape' = Append(tape, it) /\ looked' = 0 /\ UNCHANGED out
OffTape(x) == tape' = Front(tape) /\ looked' = 0 /\ out' = x
TopIs(kind) == tape # <<>> /\ Last(tape).kind = kind

PushItem(t, x) == ad' = ItemPushed(ad, t, x) /\ OnTape(Item("value", t, <<x>>))
PopItem(t) ==
  /\ TopIs("value") /\ Last(tape).t = t
  /\ ad' = ItemPopped(ad, t)
  /\ OffTape(Item("value", t, <<PoppedValue(ad', t)>>))

\* PUSHREAL8ARRAY and the like, called by the code itself
PushArray(t, n, x) ==
  ad' = ArrayPushed(ad, t, Filled(n, x)) /\ OnTape(Item("array", t, Filled(n, x)))
PopArray ==
  /\ TopIs("array")
  /\ ad' = ArrayPopped(ad)
  /\ LET a == Last(tape) IN
     OffTape(Item("array", a.t, PopArrayOf(ad, a.t, Len(a.x))))

PushControl(c) ==
  ad' = ControlPushed(ad, c) /\ OnTape(Control(c))
PopControl ==
  /\ TopIs("control")
  /\ LET n == Len(Last(tape).x) IN
     /\ ad' = ControlPopped(ad, n)
     /\ OffTape(Control(PoppedControl(ad, n)))

Sought == tape[Len(tape) - looked]
LookItem(t) ==
  /\ prog.looks
  /\ looked < Len(tape) /\ Sought.kind = "value" /\ Sought.t = t
  /\ ad' = ItemLooked(ad, t)
  /\ out' = Item("value", t, <<LookedValue(ad', t)>>)
  /\ looked' = looked + 1
  /\ UNCHANGED tape

\* LOOKBOOLEAN, LOOKCONTROL1B
LookBit ==
  /\ prog.looks
  /\ looked < Len(tape) /\ Sought.kind = "control" /\ Len(Sought.x) = 1
  /\ ad' = BitLooked(ad)
  /\ out' = Item("control", Integer4, <<ad'.lbits[ad'.ilbit]>>)
  /\ looked' = looked + 1
  /\ UNCHANGED tape

Call ==
  \/ \E t \in prog.types : (\E x \in prog.values : PushItem(t, x)) \/ PopItem(t) \/ LookItem(t)
  \/ \E t \in prog.types, n \in prog.arrays, x \in prog.values : PushArray(t, n, x)
  \/ PopArray
  \/ \E n \in 1 .. prog.control : \E c \in [1 .. n -> BOOLEAN] : PushControl(c)
  \/ PopControl
  \/ LookBit

Next == Call /\ UNCHANGED prog

Spec == Init /\ [][Next]_vars

-----------------------------------------------------------------------------
(* Properties *)

\* An empty buffer whose type is popped next finds an array of its own type and
\* of its size on top of the C stack, though other buffers were pushed and
\* popped in between at times of their own.
TopArrayIsOwn ==
  LET own(t) == /\ ad.stack # <<>>
                /\ Last(ad.stack).t = t /\ Len(Last(ad.stack).x) = L IN
  /\ \A t \in Types : TopIs("value") /\ Last(tape).t = t /\ ad.ibuf[t] <= 1 => own(t)
  /\ TopIs("control") /\ ad.ibit = 0 /\ ad.ibuf[Integer4] <= 1 => own(Integer4)

\* A program without LOOKs, or one with the LOOKs of one type and nothing else:
\* the types share the LOOKing position of the C stack, which the first LOOK of
\* each resets, and an array pushed past the buffers does not reset the buffers'.
LooksOfOneType ==
  prog.looks => (\A t, u \in prog.types : t = u) /\ prog.control = 0 /\ prog.arrays = {}

\* Whatever is pushed, through whatever buffer, comes back last in first out;
\* and "LOOKing is just like POPping" (adStack.c:149) for a program that LOOKs
\* at one type only.
ItemsOf(p) ==
  {Item("value", t, <<x>>) : t \in p.types, x \in p.values}
  \union {Item("array", t, Filled(n, x)) : t \in p.types, n \in p.arrays, x \in p.values}
  \union (UNION {{Control(c) : c \in [1 .. n -> BOOLEAN]} : n \in 1 .. p.control})
Items == UNION {ItemsOf(p) : p \in Programs}
Tapes == INSTANCE Tape WITH Nothing <- Garbage, stack <- tape
ImplementsTape ==
  Tapes!Init /\ [][LooksOfOneType => Tapes!Next]_<<tape, looked, out>>
=============================================================================
