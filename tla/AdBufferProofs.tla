--------------------------- MODULE AdBufferProofs ---------------------------
(***************************************************************************)
(* Proofs about AdBuffer.                                                  *)
(*                                                                         *)
(* The buffers keep less than the tape: which values are in which array of *)
(* the C stack, and in which order the types were pushed, is not written   *)
(* down anywhere.  The invariant says that they are as if the tape had     *)
(* just been pushed: there is a chain of states, one for every length of   *)
(* the tape, each of them what the push of the next item makes of the one  *)
(* before, up to values that no pop reads (Alike).  A pop of the type      *)
(* pushed last then undoes that push (ItemUndone, BitUndone,               *)
(* ControlUndone, ArrayUndone) and leaves the chain without its last link. *)
(* A LOOK changes none of it: it does to the view of its type, the buffers *)
(* as they were that many items ago, what a pop does to the buffers        *)
(* themselves (LookIsPop).                                                 *)
(***************************************************************************)
EXTENDS AdBuffer, SumLemmas, TLAPS

-----------------------------------------------------------------------------
(* The states of the buffers *)

Word == [0 .. W - 1 -> BOOLEAN]
Cell == Values \union {Garbage} \union Word
Cells == [1 .. L -> Cell]
Frame == [t : Types, x : Seq(Cell)]
State ==
  [buf : [Types -> Cells], ibuf : [Types -> 1 .. L],
   lbuf : [Types -> Cells], ilbuf : [Types -> Int], inlbuf : [Types -> BOOLEAN],
   bits : Word, ibit : 0 .. W - 1, lbits : Word, ilbit : Int,
   stack : Seq(Frame), looks : Nat]

\* An array of its own on top for the type.
Own(s, t) == s.stack # <<>> /\ Last(s.stack).t = t /\ Len(Last(s.stack).x) = L

\* The values and the bits that are in the buffers are the same, and so is the
\* C stack: no pop to come tells s from r.
AlikeItems(s, r) ==
  /\ s.stack = r.stack
  /\ s.ibuf = r.ibuf
  /\ \A t \in Types : \A i \in 1 .. s.ibuf[t] - 1 : s.buf[t][i] = r.buf[t][i]
AlikeBits(s, r) ==
  /\ s.ibit = r.ibit
  /\ \A i \in 0 .. s.ibit - 1 : s.bits[i] = r.bits[i]
Alike(s, r) == AlikeItems(s, r) /\ AlikeBits(s, r)

LEMMA AlikeIsSame ==
  /\ \A s : Alike(s, s)
  /\ \A s, r, u : Alike(s, r) /\ Alike(r, u) => Alike(s, u)
<1>1. \A s : Alike(s, s)
  BY DEF Alike, AlikeItems, AlikeBits
<1>2. ASSUME NEW s, NEW r, NEW u, Alike(s, r), Alike(r, u) PROVE Alike(s, u)
  <2>1. \A t \in Types : \A i \in 1 .. s.ibuf[t] - 1 : s.buf[t][i] = u.buf[t][i]
    BY <1>2, Zenon DEF Alike, AlikeItems
  <2>2. \A i \in 0 .. s.ibit - 1 : s.bits[i] = u.bits[i]
    BY <1>2, Zenon DEF Alike, AlikeBits
  <2> QED BY <1>2, <2>1, <2>2 DEF Alike, AlikeItems, AlikeBits
<1> QED BY <1>1, <1>2

-----------------------------------------------------------------------------
(* What a push and a pop of the buffers do *)

LEMMA TopArrayType ==
  ASSUME NEW s \in State, NEW t \in Types, NEW n \in Nat
  PROVE  TopArray(s, t, n) \in [1 .. n -> Cell]
<1>1. [i \in 1 .. n |-> Garbage] \in [1 .. n -> Cell]
  BY DEF Cell
<1>2. CASE s.looks < Len(s.stack)
  <2>1. s.stack[Len(s.stack) - s.looks] \in Frame
    BY <1>2 DEF State
  <2>2. s.stack[Len(s.stack) - s.looks].x \in Seq(Cell)
    BY <2>1 DEF Frame
  <2> QED BY <1>1, <2>2 DEF TopArray, Filled
<1>3. CASE ~(s.looks < Len(s.stack))
  BY <1>1, <1>3 DEF TopArray, Filled
<1> QED BY <1>2, <1>3

SameBits(p, s) == p.bits = s.bits /\ p.ibit = s.ibit
NoLooks(p, s, t) ==
  /\ p.ilbuf = [s.ilbuf EXCEPT ![t] = -1]
  /\ p.inlbuf = [s.inlbuf EXCEPT ![t] = IF s.ilbuf[t] # -1 THEN FALSE ELSE @]
SameElse(p, s) ==
  /\ SameBits(p, s) /\ p.lbuf = s.lbuf /\ p.ilbuf = s.ilbuf /\ p.inlbuf = s.inlbuf
  /\ p.lbits = s.lbits /\ p.ilbit = s.ilbit

WithStack(r, v) == [r EXCEPT !.stack = v, !.looks = 0]
WithIbuf(r, t, n) == [r EXCEPT !.ibuf[t] = n]
WithBuf(r, t, b) == [r EXCEPT !.buf[t] = b]

LEMMA SetStack ==
  ASSUME NEW r \in State, NEW v \in Seq(Frame), NEW p, p = WithStack(r, v)
  PROVE  /\ p \in State /\ p.stack = v /\ p.looks = 0
         /\ p.buf = r.buf /\ p.ibuf = r.ibuf /\ SameElse(p, r)
  BY DEF State, SameElse, SameBits, WithStack, WithIbuf, WithBuf

LEMMA SetIbuf ==
  ASSUME NEW r \in State, NEW t \in Types, NEW n \in 1 .. L, NEW p, p = WithIbuf(r, t, n)
  PROVE  /\ p \in State /\ p.stack = r.stack /\ p.looks = r.looks
         /\ p.buf = r.buf /\ p.ibuf = [r.ibuf EXCEPT ![t] = n] /\ SameElse(p, r)
  BY DEF State, SameElse, SameBits, WithStack, WithIbuf, WithBuf

LEMMA SetBuf ==
  ASSUME NEW r \in State, NEW t \in Types, NEW b \in Cells, NEW p, p = WithBuf(r, t, b)
  PROVE  /\ p \in State /\ p.stack = r.stack /\ p.looks = r.looks
         /\ p.buf = [r.buf EXCEPT ![t] = b] /\ p.ibuf = r.ibuf /\ SameElse(p, r)
  BY DEF State, SameElse, SameBits, WithStack, WithIbuf, WithBuf

LEMMA LookResetIs ==
  ASSUME NEW s \in State, NEW t \in Types, NEW r, r = LookReset(s, t)
  PROVE  /\ r \in State /\ SameBits(r, s) /\ r.stack = s.stack /\ r.ibuf = s.ibuf
         /\ r.buf = s.buf /\ NoLooks(r, s, t)
<1>1. PICK none \in Int : none = -1
  OBVIOUS
<1>2. PICK d \in [Types -> Int] : d = [s.ilbuf EXCEPT ![t] = none]
  BY DEF State
<1>3. PICK c \in [Types -> BOOLEAN] :
        c = [s.inlbuf EXCEPT ![t] = IF s.ilbuf[t] # none THEN FALSE ELSE @]
  <2>1. [s.inlbuf EXCEPT ![t] = IF s.ilbuf[t] # none THEN FALSE ELSE @] \in [Types -> BOOLEAN]
    <3>1. CASE s.ilbuf[t] # none
      BY <3>1 DEF State
    <3>2. CASE s.ilbuf[t] = none
      BY <3>2 DEF State
    <3> QED BY <3>1, <3>2
  <2> QED BY <2>1
<1>4. r = [s EXCEPT !.ilbuf = d, !.inlbuf = c]
  BY <1>1, <1>2, <1>3 DEF LookReset, State
<1>5. /\ r \in State /\ r.bits = s.bits /\ r.ibit = s.ibit /\ r.stack = s.stack
      /\ r.ibuf = s.ibuf /\ r.buf = s.buf /\ r.ilbuf = d /\ r.inlbuf = c
  BY <1>4 DEF State
<1>6. NoLooks(r, s, t)
  BY <1>1, <1>2, <1>3, <1>5 DEF NoLooks
<1> QED BY <1>5, <1>6 DEF SameBits

LEMMA ElseIsSame ==
  ASSUME NEW p, NEW r, NEW s, NEW t, SameElse(p, r), SameBits(r, s), NoLooks(r, s, t)
  PROVE  SameBits(p, s) /\ NoLooks(p, s, t)
  BY DEF SameElse, SameBits, NoLooks

LEMMA ElseTwice ==
  ASSUME NEW p, NEW r, NEW s, SameElse(p, r), SameElse(r, s)
  PROVE  SameElse(p, s)
  BY DEF SameElse, SameBits

\* p is s with x pushed, q is s with a value popped.
IsPush(p, s, t, x) ==
  /\ p.buf = [s.buf EXCEPT ![t] = [s.buf[t] EXCEPT ![s.ibuf[t]] = x]]
  /\ s.ibuf[t] < L => p.stack = s.stack /\ p.ibuf = [s.ibuf EXCEPT ![t] = s.ibuf[t] + 1]
  /\ s.ibuf[t] >= L => /\ p.stack = Append(s.stack, [t |-> t, x |-> p.buf[t]])
                       /\ p.ibuf = [s.ibuf EXCEPT ![t] = 1]

IsPop(q, s, t) ==
  /\ s.ibuf[t] > 1 => /\ q.stack = s.stack /\ q.buf = s.buf
                      /\ q.ibuf = [s.ibuf EXCEPT ![t] = s.ibuf[t] - 1]
  /\ s.ibuf[t] <= 1 => /\ q.stack = SubSeq(s.stack, 1, Len(s.stack) - 1)
                       /\ q.buf = [s.buf EXCEPT ![t] = Last(s.stack).x]
                       /\ q.ibuf = [s.ibuf EXCEPT ![t] = L]

LEMMA ItemPushedIs ==
  ASSUME NEW s \in State, NEW t \in Types, NEW x \in Cell, NEW p, p = ItemPushed(s, t, x)
  PROVE  p \in State /\ SameBits(p, s) /\ IsPush(p, s, t, x) /\ NoLooks(p, s, t)
<1>0. L \in Nat \ {0} /\ s.ibuf[t] \in 1 .. L /\ s.buf \in [Types -> Cells]
  BY BufferAssumption DEF State
<1>1. PICK q : q = LookReset(s, t)
  OBVIOUS
<1>2. /\ q \in State /\ SameBits(q, s) /\ q.stack = s.stack /\ q.ibuf = s.ibuf
      /\ q.buf = s.buf /\ NoLooks(q, s, t)
  BY <1>1, LookResetIs
<1>3. PICK b \in Cells : b = [s.buf[t] EXCEPT ![s.ibuf[t]] = x]
  <2>1. [s.buf[t] EXCEPT ![s.ibuf[t]] = x] \in Cells
    BY <1>0 DEF Cells
  <2> QED BY <2>1
<1>4. PICK r : r = WithBuf(q, t, b)
  OBVIOUS
<1>5. /\ r \in State /\ r.stack = s.stack /\ r.ibuf = s.ibuf
      /\ r.buf = [s.buf EXCEPT ![t] = b] /\ SameElse(r, q)
  BY <1>2, <1>4, SetBuf
<1>6. r.buf[t] = b
  BY <1>0, <1>5
<1>7. r = [LookReset(s, t) EXCEPT !.buf[t][s.ibuf[t]] = x]
  BY <1>1, <1>2, <1>3, <1>4 DEF WithBuf
<1>8. p = IF s.ibuf[t] >= L
          THEN [ArrayPushed(r, t, r.buf[t]) EXCEPT !.ibuf[t] = 1]
          ELSE [r EXCEPT !.ibuf[t] = @ + 1]
  BY <1>7 DEF ItemPushed
<1>9. CASE s.ibuf[t] >= L
  <2>1. b \in Seq(Cell)
    BY <1>0 DEF Cells
  <2>2. PICK f \in Frame : f = [t |-> t, x |-> b]
    BY <2>1 DEF Frame
  <2>3. PICK v \in Seq(Frame) : v = Append(s.stack, f)
    <3>1. s.stack \in Seq(Frame)
      BY DEF State
    <3>2. Append(s.stack, f) \in Seq(Frame)
      BY <3>1
    <3> QED BY <3>2
  <2>4. PICK u : u = WithStack(r, v)
    OBVIOUS
  <2>5. /\ u \in State /\ u.stack = v /\ u.buf = r.buf /\ u.ibuf = r.ibuf /\ SameElse(u, r)
    BY <1>5, <2>4, SetStack
  <2>6. u = ArrayPushed(r, t, r.buf[t])
    BY <1>5, <1>6, <2>2, <2>3, <2>4 DEF ArrayPushed, WithStack
  <2>7. p = WithIbuf(u, t, 1) /\ 1 \in 1 .. L
    BY <1>0, <1>8, <1>9, <2>6 DEF WithIbuf
  <2>8. /\ p \in State /\ p.stack = u.stack /\ p.buf = u.buf /\ p.ibuf = [u.ibuf EXCEPT ![t] = 1]
        /\ SameElse(p, u)
    BY <2>5, <2>7, SetIbuf
  <2>9. SameElse(p, q)
    BY <1>5, <2>5, <2>8, ElseTwice
  <2>10. SameBits(p, s) /\ NoLooks(p, s, t)
    BY <1>2, <2>9, ElseIsSame
  <2>11. p.stack = Append(s.stack, [t |-> t, x |-> p.buf[t]])
    BY <1>6, <2>2, <2>3, <2>5, <2>8
  <2>12. p.buf = [s.buf EXCEPT ![t] = [s.buf[t] EXCEPT ![s.ibuf[t]] = x]]
    BY <1>3, <1>5, <2>5, <2>8
  <2>13. p.ibuf = [s.ibuf EXCEPT ![t] = 1]
    BY <1>5, <2>5, <2>8
  <2> QED BY <1>0, <1>9, <2>8, <2>10, <2>11, <2>12, <2>13 DEF IsPush
<1>10. CASE ~(s.ibuf[t] >= L)
  <2>1. PICK n \in 1 .. L : n = s.ibuf[t] + 1
    BY <1>0, <1>10
  <2>2. p = WithIbuf(r, t, n)
    BY <1>5, <1>8, <1>10, <2>1 DEF WithIbuf
  <2>3. /\ p \in State /\ p.stack = r.stack /\ p.buf = r.buf /\ p.ibuf = [r.ibuf EXCEPT ![t] = n]
        /\ SameElse(p, r)
    BY <1>5, <2>2, SetIbuf
  <2>4. SameBits(p, s) /\ NoLooks(p, s, t)
    BY <1>2, <1>5, <2>3, ElseTwice, ElseIsSame
  <2> QED BY <1>0, <1>3, <1>5, <1>10, <2>1, <2>3, <2>4 DEF IsPush
<1> QED BY <1>9, <1>10

LEMMA FrontIs ==
  ASSUME NEW s \in Seq(Frame)
  PROVE  /\ Front(s) = SubSeq(s, 1, Len(s) - 1)
         /\ s # <<>> => Front(s) \in Seq(Frame)
  BY DEF Front

\* The array on top, when it is of the right type and size.
LEMMA OwnIsTop ==
  ASSUME NEW s \in State, NEW t \in Types, Own(s, t)
  PROVE  /\ PopArrayOf(s, t, L) = Last(s.stack).x
         /\ Last(s.stack).x \in Cells
         /\ s.stack \in Seq(Frame) /\ Len(s.stack) \in Nat \ {0}
<1>1. s.stack \in Seq(Frame) /\ s.stack # <<>> /\ Len(s.stack) \in Nat \ {0} /\ L \in Nat
  BY BufferAssumption DEF State, Own
<1>2. Last(s.stack) = s.stack[Len(s.stack)] /\ Last(s.stack) \in Frame
  BY <1>1 DEF Last
<1>3. [s EXCEPT !.looks = 0].looks = 0 /\ [s EXCEPT !.looks = 0].stack = s.stack
  BY DEF State
<1>4. Last(s.stack).t = t /\ Len(Last(s.stack).x) = L
  BY DEF Own
<1>5. PopArrayOf(s, t, L) = Last(s.stack).x
  <2>1. PICK e : e = [s EXCEPT !.looks = 0]
    OBVIOUS
  <2>2. e.looks = 0 /\ e.stack = s.stack
    BY <1>3, <2>1
  <2>3. TopArray(e, t, L) = e.stack[Len(e.stack) - e.looks].x
    <3>1. e.looks < Len(e.stack) /\ Len(e.stack) - e.looks = Len(s.stack)
      BY <1>1, <2>2
    <3>2. e.stack[Len(e.stack) - e.looks] = Last(s.stack)
      BY <1>2, <2>2, <3>1
    <3> QED BY <1>4, <3>1, <3>2 DEF TopArray, Filled
  <2>4. Len(e.stack) - e.looks = Len(s.stack)
    BY <1>1, <2>2
  <2> QED BY <1>2, <2>1, <2>2, <2>3, <2>4 DEF PopArrayOf
<1>6. Last(s.stack).x \in Cells
  <2>1. Last(s.stack).x \in Seq(Cell)
    BY <1>2 DEF Frame
  <2> QED BY <1>1, <1>4, <2>1 DEF Cells
<1> QED BY <1>1, <1>5, <1>6

\* A pop that finds an array of its own.
LEMMA ItemPoppedIs ==
  ASSUME NEW s \in State, NEW t \in Types, s.ibuf[t] <= 1 => Own(s, t), NEW p, p = ItemPopped(s, t)
  PROVE  p \in State /\ SameBits(p, s) /\ IsPop(p, s, t) /\ NoLooks(p, s, t)
<1>0. L \in Nat \ {0} /\ s.ibuf[t] \in 1 .. L
  BY BufferAssumption DEF State
<1>1. PICK r : r = LookReset(s, t)
  OBVIOUS
<1>2. /\ r \in State /\ SameBits(r, s) /\ r.stack = s.stack /\ r.ibuf = s.ibuf
      /\ r.buf = s.buf /\ NoLooks(r, s, t)
  BY <1>1, LookResetIs
<1>3. p = IF s.ibuf[t] <= 1
          THEN [ArrayPopped(r) EXCEPT !.buf[t] = PopArrayOf(s, t, L), !.ibuf[t] = L]
          ELSE [r EXCEPT !.ibuf[t] = @ - 1]
  BY <1>1 DEF ItemPopped
<1>5. CASE s.ibuf[t] <= 1
  <2>1. PICK b \in Cells : b = Last(s.stack).x /\ b = PopArrayOf(s, t, L)
    BY <1>5, OwnIsTop
  <2>2. PICK v \in Seq(Frame) : v = Front(r.stack) /\ v = SubSeq(s.stack, 1, Len(s.stack) - 1)
    <3>1. s.stack \in Seq(Frame) /\ s.stack # <<>>
      BY <1>5 DEF Own, State
    <3> QED BY <1>2, <3>1, FrontIs
  <2>3. PICK u : u = WithStack(r, v)
    OBVIOUS
  <2>4. /\ u \in State /\ u.stack = v /\ u.buf = r.buf /\ u.ibuf = r.ibuf /\ SameElse(u, r)
    BY <1>2, <2>3, SetStack
  <2>5. PICK w : w = WithBuf(u, t, b)
    OBVIOUS
  <2>6. /\ w \in State /\ w.stack = v /\ w.buf = [u.buf EXCEPT ![t] = b] /\ w.ibuf = u.ibuf
        /\ SameElse(w, u)
    BY <2>4, <2>5, SetBuf
  <2>7. u = ArrayPopped(r)
    BY <2>2, <2>3 DEF ArrayPopped, WithStack
  <2>8. p = WithIbuf(w, t, L) /\ L \in 1 .. L
    BY <1>0, <1>3, <1>5, <2>1, <2>5, <2>7 DEF WithBuf, WithIbuf
  <2>9. /\ p \in State /\ p.stack = v /\ p.buf = w.buf /\ p.ibuf = [w.ibuf EXCEPT ![t] = L]
        /\ SameElse(p, w)
    BY <2>6, <2>8, SetIbuf
  <2>10. SameElse(p, r)
    BY <2>4, <2>6, <2>9, ElseTwice
  <2>11. SameBits(p, s) /\ NoLooks(p, s, t)
    BY <1>2, <2>10, ElseIsSame
  <2>12. p.stack = SubSeq(s.stack, 1, Len(s.stack) - 1)
    BY <2>2, <2>9
  <2>13. p.buf = [s.buf EXCEPT ![t] = Last(s.stack).x] /\ p.ibuf = [s.ibuf EXCEPT ![t] = L]
    BY <1>2, <2>1, <2>4, <2>6, <2>9
  <2> QED BY <1>0, <1>5, <2>9, <2>11, <2>12, <2>13 DEF IsPop
<1>6. CASE ~(s.ibuf[t] <= 1)
  <2>1. PICK n \in 1 .. L : n = s.ibuf[t] - 1
    BY <1>0, <1>6
  <2>2. p = WithIbuf(r, t, n)
    BY <1>2, <1>3, <1>6, <2>1 DEF WithIbuf
  <2>3. /\ p \in State /\ p.stack = r.stack /\ p.buf = r.buf /\ p.ibuf = [r.ibuf EXCEPT ![t] = n]
        /\ SameElse(p, r)
    BY <1>2, <2>2, SetIbuf
  <2>4. SameBits(p, s) /\ NoLooks(p, s, t)
    BY <1>2, <2>3, ElseIsSame
  <2> QED BY <1>0, <1>2, <1>6, <2>1, <2>3, <2>4 DEF IsPop
<1> QED BY <1>5, <1>6

LEMMA FrontOfAppend ==
  ASSUME NEW S, NEW s \in Seq(S), NEW e \in S
  PROVE  /\ Append(s, e) \in Seq(S) /\ Append(s, e) # <<>> /\ Len(Append(s, e)) = Len(s) + 1
         /\ SubSeq(Append(s, e), 1, Len(Append(s, e)) - 1) = s
         /\ Append(s, e)[Len(Append(s, e))] = e
  OBVIOUS

\* A pop undoes the push of its own type.
LEMMA ItemUndone ==
  ASSUME NEW s \in State, NEW r \in State, NEW t \in Types, NEW x \in Cell,
         AlikeItems(r, ItemPushed(s, t, x))
  PROVE  /\ r.ibuf[t] <= 1 => Own(r, t)
         /\ ItemPopped(r, t) \in State
         /\ AlikeItems(ItemPopped(r, t), s) /\ SameBits(ItemPopped(r, t), r)
         /\ PoppedValue(ItemPopped(r, t), t) = x
<1>0. L \in Nat \ {0}
  BY BufferAssumption
<1>1. PICK p : p = ItemPushed(s, t, x)
  OBVIOUS
<1>2. PICK q : q = ItemPopped(r, t)
  OBVIOUS
<1>3. AlikeItems(r, p)
  BY <1>1
<1>14. p \in State /\ SameBits(p, s) /\ IsPush(p, s, t, x)
  BY <1>1, ItemPushedIs
<1>4. /\ p \in State /\ SameBits(p, s)
      /\ p.buf = [s.buf EXCEPT ![t] = [s.buf[t] EXCEPT ![s.ibuf[t]] = x]]
      /\ s.ibuf[t] < L => /\ p.stack = s.stack
                          /\ p.ibuf = [s.ibuf EXCEPT ![t] = s.ibuf[t] + 1]
      /\ s.ibuf[t] >= L => /\ p.stack = Append(s.stack, [t |-> t, x |-> p.buf[t]])
                           /\ p.ibuf = [s.ibuf EXCEPT ![t] = 1]
  BY <1>14 DEF IsPush
<1>5. /\ s.buf \in [Types -> Cells] /\ s.ibuf \in [Types -> 1 .. L] /\ s.stack \in Seq(Frame)
      /\ p.buf \in [Types -> Cells] /\ r.buf \in [Types -> Cells] /\ r.ibuf \in [Types -> 1 .. L]
      /\ s.ibit \in 0 .. W - 1 /\ W \in Nat
  BY <1>4, BufferAssumption DEF State
<1>6. p.buf[t] = [s.buf[t] EXCEPT ![s.ibuf[t]] = x] /\ \A u \in Types \ {t} : p.buf[u] = s.buf[u]
  BY <1>4, <1>5
<1>7. p.buf[t][s.ibuf[t]] = x /\ \A i \in 1 .. s.ibuf[t] - 1 : p.buf[t][i] = s.buf[t][i]
  <2>1. s.buf[t] \in [1 .. L -> Cell] /\ s.ibuf[t] \in 1 .. L
    BY <1>5 DEF Cells
  <2> QED BY <1>0, <1>6, <2>1
<1>8. r.ibuf[t] <= 1 => Own(r, t)
  <2> SUFFICES ASSUME r.ibuf[t] <= 1 PROVE Own(r, t)
    OBVIOUS
  <2>1. s.ibuf[t] >= L
    BY <1>0, <1>3, <1>4, <1>5 DEF AlikeItems
  <2>2. r.stack = Append(s.stack, [t |-> t, x |-> p.buf[t]])
    BY <2>1, <1>3, <1>4 DEF AlikeItems
  <2>3. Last(r.stack) = [t |-> t, x |-> p.buf[t]] /\ r.stack # <<>>
    BY <2>2, <1>5 DEF Last
  <2>4. Len(p.buf[t]) = L
    BY <1>0, <1>5 DEF Cells
  <2> QED BY <2>3, <2>4 DEF Own
<1>15. q \in State /\ SameBits(q, r) /\ IsPop(q, r, t)
  BY <1>2, <1>8, ItemPoppedIs
<1>9. /\ q \in State /\ SameBits(q, r)
      /\ r.ibuf[t] > 1 => /\ q.stack = r.stack /\ q.buf = r.buf
                          /\ q.ibuf = [r.ibuf EXCEPT ![t] = r.ibuf[t] - 1]
      /\ r.ibuf[t] <= 1 => /\ q.stack = SubSeq(r.stack, 1, Len(r.stack) - 1)
                           /\ q.buf = [r.buf EXCEPT ![t] = Last(r.stack).x]
                           /\ q.ibuf = [r.ibuf EXCEPT ![t] = L]
  BY <1>15 DEF IsPop
<1>10. SameBits(q, r)
  BY <1>9
<1>11. CASE s.ibuf[t] < L
  <2>1. r.ibuf = [s.ibuf EXCEPT ![t] = s.ibuf[t] + 1] /\ r.stack = s.stack
    BY <1>3, <1>4, <1>11 DEF AlikeItems
  <2>2. r.ibuf[t] > 1 /\ r.ibuf[t] = s.ibuf[t] + 1
    BY <1>5, <2>1
  <2>3. q.ibuf = s.ibuf
    BY <1>5, <1>9, <2>1, <2>2
  <2>4. ASSUME NEW u \in Types, NEW i \in 1 .. s.ibuf[u] - 1 PROVE q.buf[u][i] = s.buf[u][i]
    <3>1. i \in 1 .. r.ibuf[u] - 1
      BY <1>5, <2>1
    <3>2. q.buf[u][i] = p.buf[u][i]
      BY <1>3, <1>9, <2>2, <3>1 DEF AlikeItems
    <3> QED BY <1>6, <1>7, <3>2
  <2>5. q.buf[t][q.ibuf[t]] = x
    <3>1. s.ibuf[t] \in 1 .. r.ibuf[t] - 1
      BY <1>5, <2>2
    <3> QED BY <1>3, <1>7, <1>9, <2>2, <2>3, <3>1 DEF AlikeItems
  <2> QED BY <1>2, <1>8, <1>9, <1>10, <2>1, <2>2, <2>3, <2>4, <2>5 DEF AlikeItems, PoppedValue
<1>12. CASE ~(s.ibuf[t] < L)
  <2>1. r.ibuf = [s.ibuf EXCEPT ![t] = 1] /\ r.stack = Append(s.stack, [t |-> t, x |-> p.buf[t]])
        /\ s.ibuf[t] = L
    BY <1>0, <1>3, <1>4, <1>5, <1>12 DEF AlikeItems
  <2>2. r.ibuf[t] <= 1
    BY <1>5, <2>1
  <2>3. q.ibuf = s.ibuf
    BY <1>5, <1>9, <2>1, <2>2
  <2>4. q.stack = s.stack /\ Last(r.stack) = [t |-> t, x |-> p.buf[t]]
    <3>1. PICK f \in Frame : f = [t |-> t, x |-> p.buf[t]]
      <4>1. p.buf[t] \in Seq(Cell)
        BY <1>0, <1>5 DEF Cells
      <4> QED BY <4>1 DEF Frame
    <3>2. q.stack = SubSeq(r.stack, 1, Len(r.stack) - 1) /\ r.stack = Append(s.stack, f)
      BY <1>9, <2>1, <2>2, <3>1
    <3> QED BY <1>5, <3>1, <3>2, FrontOfAppend DEF Last
  <2>5. q.buf = [r.buf EXCEPT ![t] = p.buf[t]]
    BY <1>9, <2>2, <2>4
  <2>6. ASSUME NEW u \in Types, NEW i \in 1 .. s.ibuf[u] - 1 PROVE q.buf[u][i] = s.buf[u][i]
    <3>1. CASE u = t
      BY <1>5, <1>7, <2>5, <3>1
    <3>2. CASE u # t
      <4>1. i \in 1 .. r.ibuf[u] - 1
        BY <1>5, <2>1, <3>2
      <4>2. q.buf[u][i] = p.buf[u][i]
        BY <1>3, <1>5, <2>5, <3>2, <4>1 DEF AlikeItems
      <4> QED BY <1>6, <3>2, <4>2
    <3> QED BY <3>1, <3>2
  <2>7. q.buf[t][q.ibuf[t]] = x
    BY <1>5, <1>7, <2>3, <2>5
  <2> QED BY <1>2, <1>8, <1>9, <1>10, <2>3, <2>4, <2>6, <2>7 DEF AlikeItems, PoppedValue
<1> QED BY <1>11, <1>12
-----------------------------------------------------------------------------
(* The bits *)

WithBits(s, w, n, l) == [s EXCEPT !.bits = w, !.ibit = n, !.ilbit = l]
SameItems(p, s) ==
  /\ p.stack = s.stack /\ p.looks = s.looks /\ p.buf = s.buf /\ p.ibuf = s.ibuf
  /\ p.lbuf = s.lbuf /\ p.ilbuf = s.ilbuf /\ p.inlbuf = s.inlbuf /\ p.lbits = s.lbits

LEMMA SetBits ==
  ASSUME NEW s \in State, NEW w \in Word, NEW n \in 0 .. W - 1, NEW l \in Int, NEW p,
         p = WithBits(s, w, n, l)
  PROVE  /\ p \in State /\ p.bits = w /\ p.ibit = n /\ p.ilbit = l /\ SameItems(p, s)
  BY DEF State, SameItems, WithBits

LEMMA BitTypes ==
  /\ NoBits \in Word /\ 0 \in 0 .. W - 1 /\ W - 1 \in 0 .. W - 1 /\ W \in Nat \ {0}
  /\ Integer4 \in Types /\ Word \subseteq Cell
  /\ \A x \in Word : AsWord(x) = x
  BY BufferAssumption, TypesAssumption DEF NoBits, Word, AsWord, Cell

LEMMA BitPut ==
  ASSUME NEW v \in Word, NEW n \in 0 .. W - 1, NEW b \in BOOLEAN
  PROVE  /\ [v EXCEPT ![n] = b][n] = b
         /\ \A i \in 0 .. n - 1 : [v EXCEPT ![n] = b][i] = v[i]
  BY BufferAssumption DEF Word

\* A bit that does not fill its word, and one that does.
IsFull(p, s, b, r, w) ==
  /\ w = [s.bits EXCEPT ![s.ibit] = b] /\ SameItems(r, s)
  /\ SameItems(p, ItemPushed(r, Integer4, w))

LEMMA BitPushedIs ==
  ASSUME NEW s \in State, NEW b \in BOOLEAN, NEW p, p = BitPushed(s, b)
  PROVE  /\ p \in State
         /\ s.ibit < W - 1 => /\ SameItems(p, s) /\ p.ibit = s.ibit + 1
                              /\ p.bits = [s.bits EXCEPT ![s.ibit] = b]
         /\ s.ibit >= W - 1 =>
              /\ p.ibit = 0
              /\ \E r \in State, w \in Word : IsFull(p, s, b, r, w)
<1>1. PICK none \in Int : none = -1
  OBVIOUS
<1>2. s.ibit \in 0 .. W - 1 /\ s.bits \in Word /\ s.stack \in Seq(Frame)
  BY DEF State
<1>3. PICK w \in Word : w = [s.bits EXCEPT ![s.ibit] = b]
  <2>1. [s.bits EXCEPT ![s.ibit] = b] \in Word
    BY <1>2 DEF Word
  <2> QED BY <2>1
<1>4. PICK r : r = WithBits(s, w, s.ibit, none)
  OBVIOUS
<1>5. r \in State /\ r.bits = w /\ r.ibit = s.ibit /\ r.ilbit = none /\ SameItems(r, s)
  BY <1>2, <1>4, SetBits
<1>6. r = [s EXCEPT !.ilbit = -1, !.bits[s.ibit] = b]
  BY <1>1, <1>3, <1>4 DEF WithBits, State
<1>7. p = IF s.ibit >= W - 1
          THEN [ItemPushed(r, Integer4, r.bits) EXCEPT !.bits = NoBits, !.ibit = 0]
          ELSE [r EXCEPT !.ibit = @ + 1]
  BY <1>6 DEF BitPushed
<1>8. CASE s.ibit >= W - 1
  <2>1. PICK u : u = ItemPushed(r, Integer4, w)
    OBVIOUS
  <2>2. u \in State
    BY <1>5, <2>1, BitTypes, ItemPushedIs
  <2>3. p = WithBits(u, NoBits, 0, u.ilbit) /\ u.ilbit \in Int
    BY <1>5, <1>7, <1>8, <2>1, <2>2 DEF WithBits, State
  <2>4. p \in State /\ p.ibit = 0 /\ SameItems(p, u)
    BY <2>2, <2>3, BitTypes, SetBits
  <2> QED BY <1>2, <1>3, <1>5, <1>8, <2>1, <2>4, BitTypes DEF IsFull
<1>9. CASE ~(s.ibit >= W - 1)
  <2>1. PICK n \in 0 .. W - 1 : n = s.ibit + 1
    BY <1>2, <1>9, BitTypes
  <2>2. p = WithBits(r, w, n, none)
    BY <1>5, <1>7, <1>9, <2>1 DEF WithBits, State
  <2>3. p \in State /\ p.bits = w /\ p.ibit = n /\ SameItems(p, r)
    BY <1>5, <2>2, SetBits
  <2> QED BY <1>2, <1>3, <1>5, <1>9, <2>1, <2>3, BitTypes DEF SameItems
<1> QED BY <1>8, <1>9

LEMMA BitUndone ==
  ASSUME NEW s \in State, NEW r \in State, NEW b \in BOOLEAN, Alike(r, BitPushed(s, b))
  PROVE  /\ r.ibit = 0 /\ r.ibuf[Integer4] <= 1 => Own(r, Integer4)
         /\ BitPopped(r) \in State
         /\ Alike(BitPopped(r), s)
         /\ PoppedBit(BitPopped(r)) = b
<1>0. PICK none \in Int : none = -1
  OBVIOUS
<1>1. PICK p : p = BitPushed(s, b)
  OBVIOUS
<1>2. PICK q : q = BitPopped(r)
  OBVIOUS
<1>3. s.ibit \in 0 .. W - 1 /\ r.ibit \in 0 .. W - 1 /\ s.bits \in Word /\ r.bits \in Word
  BY DEF State
<1>4. AlikeItems(r, p) /\ r.ibit = p.ibit /\ \A i \in 0 .. r.ibit - 1 : r.bits[i] = p.bits[i]
  BY <1>1 DEF Alike, AlikeBits
<1>11. PICK v \in Word : v = r.bits
  BY <1>3
<1>12. PICK k \in 0 .. W - 1 : k = r.ibit
  BY <1>3
<1>5. PICK r1 : r1 = WithBits(r, v, k, none)
  OBVIOUS
<1>13. r1 \in State /\ r1.bits = v /\ r1.ibit = k /\ r1.ilbit = none /\ SameItems(r1, r)
  BY <1>5, SetBits
<1>6. r1 \in State /\ r1.bits = r.bits /\ r1.ibit = r.ibit /\ SameItems(r1, r)
  BY <1>11, <1>12, <1>13
<1>7. r1 = [r EXCEPT !.ilbit = -1]
  BY <1>0, <1>5, <1>11, <1>12 DEF WithBits, State
<1>8. q = IF r.ibit <= 0
          THEN [ItemPopped(r1, Integer4) EXCEPT
                  !.bits = AsWord(PoppedValue(ItemPopped(r1, Integer4), Integer4)), !.ibit = W - 1]
          ELSE [r1 EXCEPT !.ibit = @ - 1]
  BY <1>2, <1>7 DEF BitPopped
<1>9. CASE s.ibit < W - 1
  <2>1. SameItems(p, s) /\ p.ibit = s.ibit + 1 /\ p.bits = [s.bits EXCEPT ![s.ibit] = b]
    BY <1>1, <1>9, BitPushedIs
  <2>2. r.ibit = s.ibit + 1 /\ r.ibit > 0 /\ s.ibit \in 0 .. r.ibit - 1
    BY <1>3, <1>4, <2>1
  <2>3. PICK n \in 0 .. W - 1 : n = r.ibit - 1
    BY <1>3, <2>2
  <2>14. q = [r1 EXCEPT !.ibit = n]
    BY <1>3, <1>6, <1>8, <2>2, <2>3
  <2>4. q = WithBits(r1, v, n, none)
    BY <1>13, <2>14 DEF WithBits, State
  <2>5. q \in State /\ q.bits = r.bits /\ q.ibit = n /\ SameItems(q, r1)
    BY <1>11, <1>13, <2>4, SetBits
  <2>6. AlikeItems(q, s)
    BY <1>4, <1>6, <2>1, <2>5 DEF AlikeItems, SameItems
  <2>7. \A i \in 0 .. s.ibit - 1 : p.bits[i] = s.bits[i]
    BY <1>3, <2>1, BitPut
  <2>8. p.bits[s.ibit] = b
    BY <1>3, <2>1, BitPut
  <2>9. q.ibit = s.ibit
    BY <1>3, <2>2, <2>3, <2>5
  <2>10. \A i \in 0 .. s.ibit - 1 : i \in 0 .. r.ibit - 1
    BY <1>3, <2>2
  <2>11. AlikeBits(q, s)
    BY <1>4, <2>5, <2>7, <2>9, <2>10 DEF AlikeBits
  <2>12. q.bits[q.ibit] = b
    BY <1>4, <2>2, <2>5, <2>8, <2>9
  <2>13. ~(r.ibit = 0)
    BY <1>3, <2>2
  <2> QED BY <1>2, <2>5, <2>6, <2>11, <2>12, <2>13 DEF Alike, PoppedBit
<1>10. CASE ~(s.ibit < W - 1)
  <2>0. s.ibit = W - 1 /\ s.ibit >= W - 1
    BY <1>3, <1>10, BitTypes
  <2>1. p.ibit = 0
    BY <1>1, <2>0, BitPushedIs
  <2>14. PICK s1 \in State, w \in Word : IsFull(p, s, b, s1, w)
    BY <1>1, <2>0, BitPushedIs
  <2>2. /\ w = [s.bits EXCEPT ![s.ibit] = b] /\ SameItems(s1, s)
        /\ SameItems(p, ItemPushed(s1, Integer4, w))
    BY <2>14 DEF IsFull
  <2>3. AlikeItems(r1, ItemPushed(s1, Integer4, w))
    BY <1>4, <1>6, <2>2 DEF AlikeItems, SameItems
  <2>4. PICK u : u = ItemPopped(r1, Integer4)
    OBVIOUS
  <2>5. /\ r1.ibuf[Integer4] <= 1 => Own(r1, Integer4)
        /\ u \in State /\ AlikeItems(u, s1) /\ PoppedValue(u, Integer4) = w
    BY <1>6, <2>2, <2>3, <2>4, BitTypes, ItemUndone
  <2>6. r.ibit <= 0
    BY <1>4, <2>1
  <2>7. q = WithBits(u, w, W - 1, u.ilbit) /\ u.ilbit \in Int
    BY <1>8, <2>4, <2>5, <2>6, BitTypes DEF WithBits, State
  <2>8. q \in State /\ q.bits = w /\ q.ibit = W - 1 /\ SameItems(q, u)
    <3>1. PICK m \in 0 .. W - 1 : m = W - 1
      BY BitTypes
    <3>2. u.ilbit \in Int /\ u \in State
      BY <2>5, <2>7
    <3>3. PICK l \in Int, a \in State : l = u.ilbit /\ a = u
      BY <3>2
    <3>4. q = WithBits(a, w, m, l)
      BY <2>7, <3>1, <3>3
    <3>5. q \in State /\ q.bits = w /\ q.ibit = m /\ SameItems(q, a)
      BY <3>4, SetBits, Z3
    <3> QED BY <3>1, <3>3, <3>5
  <2>9. AlikeItems(q, s)
    BY <2>2, <2>5, <2>8 DEF AlikeItems, SameItems
  <2>10. w[s.ibit] = b /\ \A i \in 0 .. s.ibit - 1 : w[i] = s.bits[i]
    BY <1>3, <2>2, BitPut
  <2>11. AlikeBits(q, s) /\ q.bits[q.ibit] = b
    BY <2>0, <2>8, <2>10 DEF AlikeBits
  <2>12. r.ibuf[Integer4] <= 1 => Own(r, Integer4)
    BY <1>6, <2>5 DEF Own, SameItems
  <2> QED BY <1>2, <2>8, <2>9, <2>11, <2>12 DEF Alike, PoppedBit
<1> QED BY <1>9, <1>10
-----------------------------------------------------------------------------
(* Arrays and control values                                                 *)

LEMMA ArrayPushedType ==
  ASSUME NEW s \in State, NEW t \in Types, NEW a \in Seq(Cell)
  PROVE  ArrayPushed(s, t, a) \in State
<1>1. PICK f \in Frame : f = [t |-> t, x |-> a]
  BY DEF Frame
<1>2. PICK v \in Seq(Frame) : v = Append(s.stack, f)
  <2>1. s.stack \in Seq(Frame)
    BY DEF State
  <2>2. Append(s.stack, f) \in Seq(Frame)
    BY <2>1
  <2> QED BY <2>2
<1>3. ArrayPushed(s, t, a) = WithStack(s, v)
  BY <1>1, <1>2 DEF ArrayPushed, WithStack
<1> QED BY <1>3, SetStack

LEMMA ArrayUndone ==
  ASSUME NEW s \in State, NEW r \in State, NEW t \in Types, NEW a \in Seq(Cell),
         Alike(r, ArrayPushed(s, t, a))
  PROVE  /\ ArrayPopped(r) \in State
         /\ Alike(ArrayPopped(r), s)
         /\ PopArrayOf(r, t, Len(a)) = a
<1>1. PICK f \in Frame : f = [t |-> t, x |-> a]
  BY DEF Frame
<1>2. s.stack \in Seq(Frame)
  BY DEF State
<1>3. PICK v \in Seq(Frame) : v = Append(s.stack, f)
  <2>1. Append(s.stack, f) \in Seq(Frame)
    BY <1>2
  <2> QED BY <2>1
<1>4. PICK p : p = WithStack(s, v)
  OBVIOUS
<1>5. p \in State /\ p.stack = v /\ p.buf = s.buf /\ p.ibuf = s.ibuf /\ SameElse(p, s)
  BY <1>4, SetStack
<1>6. p = ArrayPushed(s, t, a)
  BY <1>1, <1>3, <1>4 DEF ArrayPushed, WithStack
<1>7. r.stack = v /\ Alike(r, p)
  BY <1>5, <1>6 DEF Alike, AlikeItems
<1>8. v # <<>> /\ Front(v) = s.stack /\ Last(v) = f /\ v[Len(v)] = f /\ Len(v) \in Nat \ {0}
  BY <1>2, <1>3, FrontOfAppend DEF Front, Last
<1>14. PICK z \in Seq(Frame) : z = s.stack
  BY <1>2
<1>9. PICK q : q = WithStack(r, z)
  OBVIOUS
<1>10. q \in State /\ q.stack = s.stack /\ q.buf = r.buf /\ q.ibuf = r.ibuf /\ SameElse(q, r)
  BY <1>9, <1>14, SetStack
<1>11. q = ArrayPopped(r)
  BY <1>7, <1>8, <1>9, <1>14 DEF ArrayPopped, WithStack
<1>12. Alike(q, s)
  BY <1>5, <1>7, <1>10 DEF Alike, AlikeItems, AlikeBits, SameElse, SameBits
<1>13. PopArrayOf(r, t, Len(a)) = a
  <2>1. PICK e : e = WithStack(r, v)
    OBVIOUS
  <2>2. e.stack = v /\ e.looks = 0
    BY <2>1, SetStack
  <2>3. e = [r EXCEPT !.looks = 0]
    BY <1>7, <2>1 DEF WithStack, State
  <2>4. Len(v) - e.looks = Len(v) /\ e.looks < Len(v)
    BY <1>8, <2>2
  <2>5. TopArray(e, t, Len(a)) = a
    BY <1>1, <1>8, <2>2, <2>4 DEF TopArray, Filled
  <2> QED BY <2>3, <2>5 DEF PopArrayOf
<1> QED BY <1>10, <1>11, <1>12, <1>13

\* The states a control value passes through when its bits are pushed and popped
LEMMA PushesAre ==
  ASSUME NEW s \in State, NEW n \in Nat, NEW c \in [1 .. n -> BOOLEAN]
  PROVE  /\ Len(c) = n
         /\ Pushes(s, c)[0] = s
         /\ \A i \in 1 .. n : Pushes(s, c)[i] = BitPushed(Pushes(s, c)[i - 1], c[i])
         /\ \A i \in 0 .. n : Pushes(s, c)[i] \in State
<1>1. Len(c) = n
  OBVIOUS
<1> DEFINE Fcn(f, k) == f = [i \in 0 .. k |-> IF i = 0 THEN s ELSE BitPushed(f[i - 1], c[i])]
           P == {k \in Nat : \E f : Fcn(f, k)}
<1>2. 0 \in P
  <2>1. Fcn([i \in 0 .. 0 |-> s], 0)
    OBVIOUS
  <2> QED BY <2>1
<1>3. ASSUME NEW k \in 0 .. n - 1, k \in P PROVE k + 1 \in P
  <2>1. PICK f : Fcn(f, k)
    BY <1>3
  <2>2. PICK g : g = [i \in 0 .. k + 1 |-> IF i = k + 1 THEN BitPushed(f[k], c[k + 1]) ELSE f[i]]
    OBVIOUS
  <2>3. ASSUME NEW i \in 0 .. k + 1
        PROVE  g[i] = IF i = 0 THEN s ELSE BitPushed(g[i - 1], c[i])
    <3>1. CASE i = 0
      <4>1. g[i] = f[i] /\ i \in 0 .. k
        BY <2>2, <3>1
      <4> QED BY <2>1, <3>1, <4>1
    <3>2. CASE i # 0 /\ i # k + 1
      <4>1. i \in 0 .. k /\ i - 1 \in 0 .. k + 1 /\ i - 1 # k + 1
        BY <3>2
      <4>2. g[i] = f[i] /\ g[i - 1] = f[i - 1]
        BY <2>2, <3>2, <4>1
      <4> QED BY <2>1, <3>2, <4>1, <4>2
    <3>3. CASE i = k + 1
      <4>1. i # 0 /\ i - 1 = k /\ k \in 0 .. k + 1 /\ k # k + 1
        BY <3>3
      <4>2. g[k] = f[k] /\ g[i] = BitPushed(f[k], c[k + 1])
        BY <2>2, <3>3, <4>1
      <4> QED BY <3>3, <4>1, <4>2
    <3> QED BY <3>1, <3>2, <3>3
  <2>4. Fcn(g, k + 1)
    <3>1. g = [i \in 0 .. k + 1 |-> g[i]]
      BY <2>2
    <3> QED BY <2>3, <3>1
  <2> QED BY <2>4
<1>4. n \in P
  <2> HIDE DEF P
  <2>1. \A k \in 0 .. n : k \in P
    BY <1>2, <1>3, UpTo
  <2> QED BY <2>1
<1>5. Fcn(Pushes(s, c), n)
  <2>1. \E f : Fcn(f, n)
    BY <1>4
  <2> QED BY <1>1, <2>1 DEF Pushes
<1> DEFINE f == Pushes(s, c)
<1>6. \A i \in 0 .. n : f[i] = IF i = 0 THEN s ELSE BitPushed(f[i - 1], c[i])
  <2> DEFINE e == [i \in 0 .. n |-> IF i = 0 THEN s ELSE BitPushed(f[i - 1], c[i])]
  <2>1. f = e
    BY <1>5
  <2>2. \A i \in 0 .. n : e[i] = IF i = 0 THEN s ELSE BitPushed(f[i - 1], c[i])
    OBVIOUS
  <2> HIDE DEF e
  <2> QED BY <2>1, <2>2
<1> HIDE DEF f
<1>7. f[0] = s /\ \A i \in 1 .. n : f[i] = BitPushed(f[i - 1], c[i])
  BY <1>6
<1>8. \A i \in 0 .. n : f[i] \in State
  <2> DEFINE Q == {i \in Nat : f[i] \in State}
  <2>1. 0 \in Q
    BY <1>7
  <2>2. ASSUME NEW i \in 0 .. n - 1, i \in Q PROVE i + 1 \in Q
    <3>1. i + 1 \in 1 .. n /\ (i + 1) - 1 = i /\ c[i + 1] \in BOOLEAN
      OBVIOUS
    <3>2. f[i + 1] = BitPushed(f[i], c[i + 1])
      BY <1>7, <3>1
    <3>3. f[i + 1] \in State
      BY <2>2, <3>1, <3>2, BitPushedIs
    <3> QED BY <3>3
  <2> HIDE DEF Q
  <2>3. \A i \in 0 .. n : i \in Q
    BY <2>1, <2>2, UpTo
  <2> QED BY <2>3 DEF Q
<1> QED BY <1>1, <1>7, <1>8 DEF f

\* The same for the states of Pops, once each of them can be reached.
LEMMA PopsAre ==
  ASSUME NEW r, NEW n \in Nat
  PROVE  /\ Pops(r, n)[0] = r
         /\ \A i \in 1 .. n : Pops(r, n)[i] = BitPopped(Pops(r, n)[i - 1])
<1> DEFINE Fcn(f, k) == f = [i \in 0 .. k |-> IF i = 0 THEN r ELSE BitPopped(f[i - 1])]
           P == {k \in Nat : \E f : Fcn(f, k)}
<1>2. 0 \in P
  <2>1. Fcn([i \in 0 .. 0 |-> r], 0)
    OBVIOUS
  <2> QED BY <2>1
<1>3. ASSUME NEW k \in 0 .. n - 1, k \in P PROVE k + 1 \in P
  <2>1. PICK f : Fcn(f, k)
    BY <1>3
  <2>2. PICK g : g = [i \in 0 .. k + 1 |-> IF i = k + 1 THEN BitPopped(f[k]) ELSE f[i]]
    OBVIOUS
  <2>3. ASSUME NEW i \in 0 .. k + 1
        PROVE  g[i] = IF i = 0 THEN r ELSE BitPopped(g[i - 1])
    <3>1. CASE i = 0
      <4>1. g[i] = f[i] /\ i \in 0 .. k
        BY <2>2, <3>1
      <4> QED BY <2>1, <3>1, <4>1
    <3>2. CASE i # 0 /\ i # k + 1
      <4>1. i \in 0 .. k /\ i - 1 \in 0 .. k + 1 /\ i - 1 # k + 1
        BY <3>2
      <4>2. g[i] = f[i] /\ g[i - 1] = f[i - 1]
        BY <2>2, <3>2, <4>1
      <4> QED BY <2>1, <3>2, <4>1, <4>2
    <3>3. CASE i = k + 1
      <4>1. i # 0 /\ i - 1 = k /\ k \in 0 .. k + 1 /\ k # k + 1
        BY <3>3
      <4>2. g[k] = f[k] /\ g[i] = BitPopped(f[k])
        BY <2>2, <3>3, <4>1
      <4> QED BY <3>3, <4>1, <4>2
    <3> QED BY <3>1, <3>2, <3>3
  <2>4. Fcn(g, k + 1)
    <3>1. g = [i \in 0 .. k + 1 |-> g[i]]
      BY <2>2
    <3> QED BY <2>3, <3>1
  <2> QED BY <2>4
<1>4. n \in P
  <2> HIDE DEF P
  <2>1. \A k \in 0 .. n : k \in P
    BY <1>2, <1>3, UpTo
  <2> QED BY <2>1
<1>5. Fcn(Pops(r, n), n)
  <2>1. \E f : Fcn(f, n)
    BY <1>4
  <2> QED BY <2>1 DEF Pops
<1> DEFINE f == Pops(r, n)
<1>6. \A i \in 0 .. n : f[i] = IF i = 0 THEN r ELSE BitPopped(f[i - 1])
  <2> DEFINE e == [i \in 0 .. n |-> IF i = 0 THEN r ELSE BitPopped(f[i - 1])]
  <2>1. f = e
    BY <1>5
  <2>2. \A i \in 0 .. n : e[i] = IF i = 0 THEN r ELSE BitPopped(f[i - 1])
    OBVIOUS
  <2> HIDE DEF e
  <2> QED BY <2>1, <2>2
<1> HIDE DEF f
<1>7. f[0] = r /\ \A i \in 1 .. n : f[i] = BitPopped(f[i - 1])
  BY <1>6
<1> QED BY <1>7 DEF f

LEMMA ControlUndone ==
  ASSUME NEW s \in State, NEW r \in State, NEW n \in Nat, NEW c \in [1 .. n -> BOOLEAN],
         Alike(r, ControlPushed(s, c))
  PROVE  /\ n > 0 /\ r.ibit = 0 /\ r.ibuf[Integer4] <= 1 => Own(r, Integer4)
         /\ ControlPopped(r, n) \in State
         /\ Alike(ControlPopped(r, n), s)
         /\ PoppedControl(r, n) = c
<1> DEFINE f == Pushes(s, c)
           g == Pops(r, n)
           Same(k) == g[k] \in State /\ Alike(g[k], f[n - k])
                      /\ (k > 0 => PoppedBit(g[k]) = c[n - k + 1])
           P == {k \in Nat : Same(k)}
<1>1. /\ Len(c) = n /\ f[0] = s
      /\ \A i \in 1 .. n : f[i] = BitPushed(f[i - 1], c[i])
      /\ \A i \in 0 .. n : f[i] \in State
  BY PushesAre
<1>2. g[0] = r /\ \A i \in 1 .. n : g[i] = BitPopped(g[i - 1])
  BY PopsAre
<1>3. Alike(r, f[n])
  BY <1>1 DEF ControlPushed
<1> HIDE DEF f, g
<1>4. ASSUME NEW k \in 0 .. n - 1, NEW u \in State, Alike(u, f[n - k])
      PROVE  /\ u.ibit = 0 /\ u.ibuf[Integer4] <= 1 => Own(u, Integer4)
             /\ BitPopped(u) \in State /\ Alike(BitPopped(u), f[n - (k + 1)])
             /\ PoppedBit(BitPopped(u)) = c[n - (k + 1) + 1]
  <2>1. PICK m \in 0 .. n - 1 : m = n - (k + 1)
    OBVIOUS
  <2>2. m + 1 = n - k /\ m + 1 \in 1 .. n /\ (m + 1) - 1 = m /\ m \in 0 .. n
    BY <2>1
  <2>3. f[m] \in State /\ c[m + 1] \in BOOLEAN /\ f[m + 1] = BitPushed(f[m], c[m + 1])
    BY <1>1, <2>2
  <2>4. Alike(u, BitPushed(f[m], c[m + 1]))
    BY <1>4, <2>2, <2>3
  <2> QED BY <2>1, <2>2, <2>3, <2>4, BitUndone
<1>5. 0 \in P
  BY <1>2, <1>3
<1>6. ASSUME NEW k \in 0 .. n - 1, k \in P PROVE k + 1 \in P
  <2>1. g[k] \in State /\ Alike(g[k], f[n - k])
    BY <1>6
  <2>2. k + 1 \in 1 .. n /\ (k + 1) - 1 = k
    OBVIOUS
  <2>3. g[k + 1] = BitPopped(g[k])
    BY <1>2, <2>2
  <2>4. Same(k + 1)
    BY <1>4, <2>1, <2>3
  <2> QED BY <2>4
<1>7. \A k \in 0 .. n : Same(k)
  <2>1. \A k \in 0 .. n : k \in P
    <3> HIDE DEF P
    <3> QED BY <1>5, <1>6, UpTo
  <2> QED BY <2>1
<1>8. n > 0 /\ r.ibit = 0 /\ r.ibuf[Integer4] <= 1 => Own(r, Integer4)
  <2> SUFFICES ASSUME n > 0 PROVE r.ibit = 0 /\ r.ibuf[Integer4] <= 1 => Own(r, Integer4)
    OBVIOUS
  <2>1. 0 \in 0 .. n - 1 /\ n - 0 = n
    OBVIOUS
  <2> QED BY <1>3, <1>4, <2>1
<1>9. ControlPopped(r, n) \in State /\ Alike(ControlPopped(r, n), s)
  <2>1. n \in 0 .. n /\ n - n = 0
    OBVIOUS
  <2>2. g[n] \in State /\ Alike(g[n], f[0])
    BY <1>7, <2>1
  <2> QED BY <1>1, <2>2 DEF ControlPopped, g
<1>10. PoppedControl(r, n) = c
  <2>1. ASSUME NEW i \in 1 .. n PROVE PoppedBit(g[n + 1 - i]) = c[i]
    <3>1. PICK k \in 0 .. n : k = n + 1 - i
      OBVIOUS
    <3>2. k > 0 /\ n - k + 1 = i
      BY <3>1
    <3> QED BY <1>7, <3>1, <3>2
  <2> QED BY <2>1 DEF PoppedControl, g
<1> QED BY <1>8, <1>9, <1>10

-----------------------------------------------------------------------------
(* LOOKs: a LOOK of a type does to the view of its buffer what a pop does to *)
(* the buffer.                                                               *)

\* No push and no pop tells p from s.
SameCore(p, s) ==
  p.stack = s.stack /\ p.buf = s.buf /\ p.ibuf = s.ibuf /\ p.bits = s.bits /\ p.ibit = s.ibit

\* Where the LOOKs of the type are, how many arrays of the C stack they have
\* been through, and the values they look at
At(s, t)   == IF s.ilbuf[t] = -1 THEN s.ibuf[t] ELSE s.ilbuf[t]
Down(s, t) == IF s.ilbuf[t] = -1 THEN 0 ELSE s.looks
Seen(s, t) == IF s.inlbuf[t] THEN s.lbuf[t] ELSE s.buf[t]
View(s, t) ==
  WithBuf(WithIbuf(WithStack(s, SubSeq(s.stack, 1, Len(s.stack) - Down(s, t))), t, At(s, t)),
          t, Seen(s, t))
Viewable(s, t) ==
  IF s.ilbuf[t] = -1 THEN ~s.inlbuf[t] ELSE s.ilbuf[t] \in 1 .. L /\ s.looks <= Len(s.stack)

IsView(v, s, t) ==
  /\ v.stack = SubSeq(s.stack, 1, Len(s.stack) - Down(s, t))
  /\ v.ibuf = [s.ibuf EXCEPT ![t] = At(s, t)]
  /\ v.buf = [s.buf EXCEPT ![t] = Seen(s, t)]

LEMMA ViewIs ==
  ASSUME NEW s \in State, NEW t \in Types, Viewable(s, t), NEW v, v = View(s, t)
  PROVE  /\ v \in State /\ IsView(v, s, t)
         /\ At(s, t) \in 1 .. L /\ Down(s, t) \in 0 .. Len(s.stack) /\ Seen(s, t) \in Cells
<1>1. PICK n \in 1 .. L : n = At(s, t)
  BY DEF At, Viewable, State
<1>2. PICK k \in 0 .. Len(s.stack) : k = Down(s, t)
  BY DEF Down, Viewable, State
<1>3. PICK b \in Cells : b = Seen(s, t)
  BY DEF Seen, State
<1>4. PICK z \in Seq(Frame) : z = SubSeq(s.stack, 1, Len(s.stack) - k)
  <2>1. s.stack \in Seq(Frame)
    BY DEF State
  <2>2. SubSeq(s.stack, 1, Len(s.stack) - k) \in Seq(Frame)
    BY <2>1
  <2> QED BY <2>2
<1>5. PICK p : p = WithStack(s, z)
  OBVIOUS
<1>6. p \in State /\ p.stack = z /\ p.buf = s.buf /\ p.ibuf = s.ibuf
  BY <1>5, SetStack
<1>7. PICK q : q = WithIbuf(p, t, n)
  OBVIOUS
<1>8. q \in State /\ q.stack = z /\ q.buf = s.buf /\ q.ibuf = [s.ibuf EXCEPT ![t] = n]
  BY <1>6, <1>7, SetIbuf
<1>9. v = WithBuf(q, t, b)
  BY <1>1, <1>2, <1>3, <1>4, <1>5, <1>7 DEF View
<1>10. /\ v \in State /\ v.stack = z /\ v.buf = [s.buf EXCEPT ![t] = b]
       /\ v.ibuf = [s.ibuf EXCEPT ![t] = n]
  BY <1>8, <1>9, SetBuf
<1> QED BY <1>1, <1>2, <1>3, <1>4, <1>10 DEF IsView

Found(s, t) == TopArray(FirstLook(s, t), t, L)
IsLook(u, s, t) ==
  /\ At(s, t) > 1 => /\ u.ilbuf = [s.ilbuf EXCEPT ![t] = At(s, t) - 1] /\ u.looks = Down(s, t)
                     /\ u.lbuf = s.lbuf /\ u.inlbuf = s.inlbuf
  /\ At(s, t) <= 1 => /\ u.ilbuf = [s.ilbuf EXCEPT ![t] = L] /\ u.inlbuf = [s.inlbuf EXCEPT ![t] = TRUE]
                      /\ u.lbuf = [s.lbuf EXCEPT ![t] = Found(s, t)]
                      /\ Down(s, t) < Len(s.stack) => u.looks = Down(s, t) + 1

WithLook(r, d, i, l, k) == [r EXCEPT !.lbuf = d, !.inlbuf = i, !.ilbuf = l, !.looks = k]
LEMMA SetLook ==
  ASSUME NEW r \in State, NEW d \in [Types -> Cells], NEW i \in [Types -> BOOLEAN],
         NEW l \in [Types -> Int], NEW k \in Nat, NEW p, p = WithLook(r, d, i, l, k)
  PROVE  /\ p \in State /\ SameCore(p, r)
         /\ p.lbuf = d /\ p.inlbuf = i /\ p.ilbuf = l /\ p.looks = k
  BY DEF State, SameCore, WithLook

LEMMA FirstLookIs ==
  ASSUME NEW s \in State, NEW t \in Types, NEW r, r = FirstLook(s, t)
  PROVE  /\ r \in State /\ SameCore(r, s) /\ r.lbuf = s.lbuf /\ r.inlbuf = s.inlbuf
         /\ r.ilbuf = [s.ilbuf EXCEPT ![t] = At(s, t)] /\ r.looks = Down(s, t)
         /\ r.ilbuf[t] = At(s, t)
<1>1. PICK none \in Int : none = -1
  OBVIOUS
<1>2. r = IF s.ilbuf[t] = none THEN [s EXCEPT !.ilbuf[t] = s.ibuf[t], !.looks = 0] ELSE s
  BY <1>1 DEF FirstLook
<1>3. At(s, t) = (IF s.ilbuf[t] = none THEN s.ibuf[t] ELSE s.ilbuf[t])
      /\ Down(s, t) = (IF s.ilbuf[t] = none THEN 0 ELSE s.looks)
  BY <1>1 DEF At, Down
<1>4. CASE s.ilbuf[t] = none
  <2>1. PICK d \in [Types -> Int] : d = [s.ilbuf EXCEPT ![t] = s.ibuf[t]]
    <3>1. s.ibuf[t] \in Int /\ s.ilbuf \in [Types -> Int]
      BY DEF State
    <3>2. [s.ilbuf EXCEPT ![t] = s.ibuf[t]] \in [Types -> Int]
      BY <3>1
    <3> QED BY <3>2
  <2>2. r = [s EXCEPT !.ilbuf = d, !.looks = 0]
    BY <1>2, <1>4, <2>1 DEF State
  <2>3. PICK e \in [Types -> Cells], i \in [Types -> BOOLEAN], zero \in Nat :
          e = s.lbuf /\ i = s.inlbuf /\ zero = 0
    BY DEF State
  <2>5. r = WithLook(s, e, i, d, zero)
    BY <2>2, <2>3 DEF WithLook, State
  <2>6. r \in State /\ SameCore(r, s) /\ r.lbuf = e /\ r.inlbuf = i /\ r.ilbuf = d /\ r.looks = zero
    BY <2>5, SetLook
  <2>4. d[t] = s.ibuf[t]
    BY <2>1 DEF State
  <2> QED BY <1>3, <1>4, <2>1, <2>3, <2>4, <2>6
<1>5. CASE s.ilbuf[t] # none
  <2>1. s.ilbuf = [s.ilbuf EXCEPT ![t] = s.ilbuf[t]]
    BY DEF State
  <2> QED BY <1>2, <1>3, <1>5, <2>1 DEF SameCore
<1> QED BY <1>4, <1>5

LEMMA LookedIs ==
  ASSUME NEW s \in State, NEW t \in Types, NEW u, u = ItemLooked(s, t)
  PROVE  u \in State /\ SameCore(u, s) /\ IsLook(u, s, t)
<1>1. PICK r : r = FirstLook(s, t)
  OBVIOUS
<1>2. /\ r \in State /\ SameCore(r, s) /\ r.lbuf = s.lbuf /\ r.inlbuf = s.inlbuf
      /\ r.ilbuf = [s.ilbuf EXCEPT ![t] = At(s, t)] /\ r.looks = Down(s, t)
      /\ r.ilbuf[t] = At(s, t)
  BY <1>1, FirstLookIs
<1>3. /\ r.lbuf \in [Types -> Cells] /\ r.inlbuf \in [Types -> BOOLEAN] /\ r.ilbuf \in [Types -> Int]
      /\ r.looks \in Nat /\ r.stack = s.stack /\ Len(r.stack) \in Nat
  BY <1>2 DEF State, SameCore
<1>4. u = IF r.ilbuf[t] <= 1
          THEN [ArrayLooked(r) EXCEPT !.lbuf[t] = TopArray(r, t, L),
                                      !.inlbuf[t] = TRUE, !.ilbuf[t] = L]
          ELSE [r EXCEPT !.ilbuf[t] = @ - 1]
  BY <1>1 DEF ItemLooked
<1>5. CASE r.ilbuf[t] <= 1
  <2>1. PICK b \in Cells : b = TopArray(r, t, L)
    <3>1. L \in Nat
      BY BufferAssumption
    <3> QED BY <1>2, <3>1, TopArrayType DEF Cells
  <2>2. PICK d \in [Types -> Cells] : d = [r.lbuf EXCEPT ![t] = b]
    <3>1. [r.lbuf EXCEPT ![t] = b] \in [Types -> Cells]
      BY <1>3
    <3> QED BY <3>1
  <2>3. PICK i \in [Types -> BOOLEAN] : i = [r.inlbuf EXCEPT ![t] = TRUE]
    <3>1. [r.inlbuf EXCEPT ![t] = TRUE] \in [Types -> BOOLEAN]
      BY <1>3
    <3> QED BY <3>1
  <2>4. PICK l \in [Types -> Int] : l = [r.ilbuf EXCEPT ![t] = L]
    <3>1. [r.ilbuf EXCEPT ![t] = L] \in [Types -> Int]
      BY <1>3, BufferAssumption
    <3> QED BY <3>1
  <2>5. PICK k \in Nat : k = IF r.looks <= Len(r.stack) THEN r.looks + 1 ELSE r.looks
    BY <1>3
  <2>6. u = [[r EXCEPT !.looks = k] EXCEPT !.lbuf[t] = b, !.inlbuf[t] = TRUE, !.ilbuf[t] = L]
    BY <1>4, <1>5, <2>1, <2>5 DEF ArrayLooked
  <2>7. u = WithLook(r, d, i, l, k)
    BY <1>2, <2>2, <2>3, <2>4, <2>6 DEF WithLook, State
  <2>8. u \in State /\ SameCore(u, r) /\ u.lbuf = d /\ u.inlbuf = i /\ u.ilbuf = l /\ u.looks = k
    BY <1>2, <2>7, SetLook
  <2>9. At(s, t) <= 1
    BY <1>2, <1>5
  <2>10. l = [s.ilbuf EXCEPT ![t] = L]
    BY <1>2, <2>4
  <2>11. Down(s, t) < Len(s.stack) => k = Down(s, t) + 1
    BY <1>2, <1>3, <2>5
  <2>12. b = Found(s, t)
    BY <1>1, <2>1 DEF Found
  <2>13. IsLook(u, s, t)
    <3>1. ~(At(s, t) > 1)
      BY <1>2, <1>3, <1>5
    <3> QED BY <1>2, <2>2, <2>3, <2>8, <2>10, <2>11, <2>12, <3>1 DEF IsLook
  <2> QED BY <1>2, <2>8, <2>13 DEF SameCore
<1>6. CASE ~(r.ilbuf[t] <= 1)
  <2>1. PICK l \in [Types -> Int] : l = [r.ilbuf EXCEPT ![t] = At(s, t) - 1]
    <3>1. At(s, t) - 1 \in Int
      BY <1>2, <1>3
    <3>2. [r.ilbuf EXCEPT ![t] = At(s, t) - 1] \in [Types -> Int]
      BY <1>3, <3>1
    <3> QED BY <3>2
  <2>2. u = [r EXCEPT !.ilbuf = l]
    BY <1>2, <1>4, <1>6, <2>1
  <2>3. PICK d \in [Types -> Cells], i \in [Types -> BOOLEAN], k \in Nat :
          d = r.lbuf /\ i = r.inlbuf /\ k = r.looks
    BY <1>3
  <2>4. u = WithLook(r, d, i, l, k)
    BY <1>2, <2>2, <2>3 DEF WithLook, State
  <2>5. u \in State /\ SameCore(u, r) /\ u.lbuf = d /\ u.inlbuf = i /\ u.ilbuf = l /\ u.looks = k
    BY <1>2, <2>4, SetLook
  <2>6. l = [s.ilbuf EXCEPT ![t] = At(s, t) - 1]
    BY <1>2, <2>1
  <2>7. IsLook(u, s, t)
    BY <1>2, <1>6, <2>3, <2>5, <2>6 DEF IsLook
  <2> QED BY <1>2, <2>5, <2>7 DEF SameCore
<1> QED BY <1>5, <1>6

LEMMA ShorterTwice ==
  ASSUME NEW S, NEW s \in Seq(S), NEW k \in 0 .. Len(s) - 1, NEW v, v = SubSeq(s, 1, Len(s) - k)
  PROVE  SubSeq(v, 1, Len(v) - 1) = SubSeq(s, 1, Len(s) - (k + 1))
<1>1. v \in Seq(S) /\ Len(v) = Len(s) - k /\ \A i \in 1 .. Len(v) : v[i] = s[i]
  OBVIOUS
<1>2. PICK n \in Nat : n = Len(v) - 1 /\ n = Len(s) - (k + 1)
  <2>1. Len(s) \in Nat /\ Len(v) \in Nat
    BY <1>1
  <2>2. Len(v) - 1 \in Nat /\ Len(v) - 1 = Len(s) - (k + 1)
    BY <1>1, <2>1
  <2> QED BY <2>2
<1>3. n <= Len(v) /\ n <= Len(s)
  BY <1>1, <1>2
<1>4. SubSeq(v, 1, n) = [i \in 1 .. n |-> v[i]] /\ SubSeq(s, 1, n) = [i \in 1 .. n |-> s[i]]
  BY <1>1, <1>3
<1>5. \A i \in 1 .. n : v[i] = s[i]
  BY <1>1, <1>2
<1> QED BY <1>2, <1>4, <1>5

\* The array the LOOKs come to, when the view has one of its own on top
LEMMA FoundIs ==
  ASSUME NEW s \in State, NEW t \in Types, Viewable(s, t), NEW v, v = View(s, t), Own(v, t)
  PROVE  Down(s, t) < Len(s.stack) /\ Found(s, t) = Last(v.stack).x
<1>8. IsView(v, s, t) /\ Down(s, t) \in 0 .. Len(s.stack)
  BY ViewIs
<1>1. PICK k \in 0 .. Len(s.stack) : k = Down(s, t) /\ v.stack = SubSeq(s.stack, 1, Len(s.stack) - k)
  BY <1>8 DEF IsView
<1>2. s.stack \in Seq(Frame) /\ Len(s.stack) \in Nat
  BY DEF State
<1>3. v.stack # <<>> /\ Last(v.stack).t = t /\ Len(Last(v.stack).x) = L
  BY DEF Own
<1>4. k < Len(s.stack) /\ Len(v.stack) = Len(s.stack) - k
      /\ Last(v.stack) = s.stack[Len(s.stack) - k]
  <2>1. PICK m \in 0 .. Len(s.stack) : m = Len(s.stack) - k
    <3>1. PICK n \in Nat : n = Len(s.stack)
      BY <1>2
    <3>2. n - k \in 0 .. n
      BY <3>1
    <3> QED BY <3>1, <3>2
  <2>2. v.stack = SubSeq(s.stack, 1, m)
    BY <1>1, <2>1
  <2>3. Len(v.stack) = m /\ (m > 0 => v.stack[m] = s.stack[m])
    BY <1>2, <2>2
  <2>4. m > 0
    <3>1. m = 0 => v.stack = <<>>
      BY <1>2, <2>2
    <3> QED BY <1>3, <2>1, <3>1
  <2> QED BY <1>2, <2>1, <2>3, <2>4 DEF Last
<1>5. PICK r : r = FirstLook(s, t)
  OBVIOUS
<1>6. r.stack = s.stack /\ r.looks = k
  BY <1>1, <1>5, FirstLookIs, ZenonT(40) DEF SameCore
<1>7. TopArray(r, t, L) = Last(v.stack).x
  BY <1>3, <1>4, <1>6 DEF TopArray, Filled
<1> QED BY <1>1, <1>4, <1>5, <1>7 DEF Found

\* LOOKing is just like POPping.
LEMMA LookIsPop ==
  ASSUME NEW s \in State, NEW t \in Types, Viewable(s, t), NEW v, v = View(s, t),
         v.ibuf[t] <= 1 => Own(v, t), NEW u, u = ItemLooked(s, t), NEW q, q = ItemPopped(v, t)
  PROVE  /\ u.ilbuf[t] # -1 /\ Viewable(u, t)
         /\ AlikeItems(View(u, t), q)
         /\ LookedValue(u, t) = PoppedValue(q, t)
<1>0. L \in Nat \ {0}
  BY BufferAssumption
<1>1. PICK none \in Int : none = -1
  OBVIOUS
<1>2. PICK k \in 0 .. Len(s.stack), n \in 1 .. L, b \in Cells :
        k = Down(s, t) /\ n = At(s, t) /\ b = Seen(s, t)
  BY ViewIs
<1>3. /\ v \in State /\ v.stack = SubSeq(s.stack, 1, Len(s.stack) - k)
      /\ v.ibuf = [s.ibuf EXCEPT ![t] = n] /\ v.buf = [s.buf EXCEPT ![t] = b]
  BY <1>2, ViewIs DEF IsView
<1>4. u \in State /\ SameCore(u, s) /\ IsLook(u, s, t)
  BY LookedIs
<1>5. q \in State /\ IsPop(q, v, t)
  BY <1>3, ItemPoppedIs
<1>6. /\ s.stack \in Seq(Frame) /\ s.buf \in [Types -> Cells] /\ s.ibuf \in [Types -> 1 .. L]
      /\ s.ilbuf \in [Types -> Int] /\ s.inlbuf \in [Types -> BOOLEAN] /\ s.lbuf \in [Types -> Cells]
      /\ Len(s.stack) \in Nat
  BY DEF State
<1>7. v.ibuf[t] = n
  BY <1>3, <1>6
<1>8. LookedValue(u, t) = Seen(u, t)[u.ilbuf[t]]
  BY DEF LookedValue, Seen
<1>9. CASE n > 1
  <2>1. /\ u.ilbuf = [s.ilbuf EXCEPT ![t] = n - 1] /\ u.looks = k
        /\ u.lbuf = s.lbuf /\ u.inlbuf = s.inlbuf
    BY <1>2, <1>4, <1>9 DEF IsLook
  <2>2. u.ilbuf[t] = n - 1 /\ n - 1 \in 1 .. L /\ n - 1 # none
    <3>1. n - 1 \in Int /\ n - 1 \in 1 .. L /\ n - 1 # none
      BY <1>0, <1>1, <1>9
    <3> QED BY <1>6, <2>1, <3>1
  <2>3. Viewable(u, t) /\ At(u, t) = n - 1 /\ Down(u, t) = k
    BY <1>1, <1>2, <1>4, <2>1, <2>2 DEF Viewable, At, Down, SameCore
  <2>4. Seen(u, t) = b
    BY <1>2, <1>4, <2>1 DEF Seen, SameCore
  <2>5. PICK w : w = View(u, t)
    OBVIOUS
  <2>6. /\ w.stack = SubSeq(s.stack, 1, Len(s.stack) - k)
        /\ w.ibuf = [s.ibuf EXCEPT ![t] = n - 1] /\ w.buf = [s.buf EXCEPT ![t] = b]
    <3>1. IsView(w, u, t)
      BY <1>4, <2>3, <2>5, ViewIs
    <3> QED BY <1>4, <2>3, <2>4, <3>1 DEF SameCore, IsView
  <2>7. q.stack = v.stack /\ q.buf = v.buf /\ q.ibuf = [v.ibuf EXCEPT ![t] = n - 1]
    BY <1>5, <1>7, <1>9 DEF IsPop
  <2>8. q.ibuf = [s.ibuf EXCEPT ![t] = n - 1] /\ q.ibuf[t] = n - 1
    BY <1>3, <1>6, <2>7
  <2>9. AlikeItems(w, q)
    BY <1>3, <2>6, <2>7, <2>8 DEF AlikeItems
  <2>10. q.buf[t] = b
    BY <1>3, <1>6, <2>7
  <2> QED BY <1>1, <1>8, <2>2, <2>3, <2>4, <2>5, <2>8, <2>9, <2>10 DEF PoppedValue
<1>10. CASE ~(n > 1)
  <2>0. n = 1 /\ ~(At(s, t) > 1) /\ At(s, t) <= 1 /\ v.ibuf[t] <= 1 /\ ~(v.ibuf[t] > 1)
    BY <1>2, <1>7, <1>10
  <2>1. k < Len(s.stack) /\ Found(s, t) = Last(v.stack).x
    BY <1>2, <2>0, FoundIs
  <2>2. PICK x \in Cells : x = Last(v.stack).x
    BY <1>3, <2>0, OwnIsTop
  <2>3. /\ u.ilbuf = [s.ilbuf EXCEPT ![t] = L] /\ u.inlbuf = [s.inlbuf EXCEPT ![t] = TRUE]
        /\ u.lbuf = [s.lbuf EXCEPT ![t] = x] /\ u.looks = k + 1
    BY <1>2, <1>4, <2>0, <2>1, <2>2 DEF IsLook
  <2>4. u.ilbuf[t] = L /\ L \in 1 .. L /\ L # none /\ u.inlbuf[t] = TRUE /\ u.lbuf[t] = x
    BY <1>0, <1>1, <1>6, <2>3
  <2>5. k + 1 <= Len(s.stack)
    BY <1>6, <2>1
  <2>6. Viewable(u, t) /\ At(u, t) = L /\ Down(u, t) = k + 1
    BY <1>1, <1>4, <2>3, <2>4, <2>5 DEF Viewable, At, Down, SameCore
  <2>7. Seen(u, t) = x
    BY <2>4 DEF Seen
  <2>8. PICK w : w = View(u, t)
    OBVIOUS
  <2>9. /\ w.stack = SubSeq(s.stack, 1, Len(s.stack) - (k + 1))
        /\ w.ibuf = [s.ibuf EXCEPT ![t] = L] /\ w.buf = [s.buf EXCEPT ![t] = x]
    <3>1. IsView(w, u, t)
      BY <1>4, <2>6, <2>8, ViewIs
    <3> QED BY <1>4, <2>6, <2>7, <3>1 DEF SameCore, IsView
  <2>10. /\ q.stack = SubSeq(v.stack, 1, Len(v.stack) - 1) /\ q.buf = [v.buf EXCEPT ![t] = x]
         /\ q.ibuf = [v.ibuf EXCEPT ![t] = L]
    BY <1>5, <2>0, <2>2 DEF IsPop
  <2>11. q.ibuf = [s.ibuf EXCEPT ![t] = L] /\ q.ibuf[t] = L /\ q.buf = [s.buf EXCEPT ![t] = x]
         /\ q.buf[t] = x
    <3>1. /\ q.ibuf = [s.ibuf EXCEPT ![t] = L] /\ q.buf = [s.buf EXCEPT ![t] = x]
      BY <1>3, <1>6, <2>10, ZenonT(40)
    <3>2. q.ibuf[t] = L
      BY <1>6, <3>1
    <3>3. q.buf[t] = x
      BY <1>6, <3>1
    <3> QED BY <3>1, <3>2, <3>3
  <2>12. SubSeq(v.stack, 1, Len(v.stack) - 1) = SubSeq(s.stack, 1, Len(s.stack) - (k + 1))
    BY <1>3, <1>6, <2>1, ShorterTwice
  <2>13. AlikeItems(w, q)
    BY <2>9, <2>10, <2>11, <2>12 DEF AlikeItems
  <2> QED BY <1>1, <1>8, <2>4, <2>6, <2>7, <2>8, <2>11, <2>13 DEF PoppedValue
<1> QED BY <1>9, <1>10

-----------------------------------------------------------------------------
(* The inductive invariant                                                   *)

Pushed(s, it) ==
  IF it.kind = "value" THEN ItemPushed(s, it.t, it.x[1])
  ELSE IF it.kind = "array" THEN ArrayPushed(s, it.t, it.x) ELSE ControlPushed(s, it.x)

\* h[i] is as the buffers were when the first i items of the tape were on it.
Chain(h, s, tp) ==
  /\ h \in [0 .. Len(tp) -> State]
  /\ \A i \in 1 .. Len(tp) : Alike(h[i], Pushed(h[i - 1], tp[i]))
  /\ Alike(s, h[Len(tp)])

\* The LOOKs of a type see the buffers as they were then, n items ago.
Views(types, h, s, n, k) ==
  \A t \in types :
    /\ Viewable(s, t) /\ (k = 0 => s.ilbuf[t] = -1)
    /\ AlikeItems(View(s, t), h[n - k])

OneType == prog.looks /\ LooksOfOneType
TypeInv ==
  prog \in Programs /\ ad \in State /\ tape \in Seq(ItemsOf(prog)) /\ looked \in 0 .. Len(tape)
IInv ==
  /\ TypeInv
  /\ \E h : Chain(h, ad, tape) /\ (OneType => Views(prog.types, h, ad, Len(tape), looked))

IsValue(it, p) ==
  it.kind = "value" /\ it.t \in p.types /\ \E x \in p.values : it = Item("value", it.t, <<x>>)
IsArray(it, p) ==
  /\ it.kind = "array" /\ it.t \in p.types /\ p.arrays # {}
  /\ \E n \in p.arrays, x \in p.values : it = Item("array", it.t, Filled(n, x))
IsControl(it, p) ==
  /\ it.kind = "control" /\ p.control > 0
  /\ \E n \in 1 .. p.control : it.x \in [1 .. n -> BOOLEAN] /\ it = Control(it.x)

LEMMA KindOfItem ==
  ASSUME NEW p \in Programs, NEW it \in ItemsOf(p)
  PROVE  IsValue(it, p) \/ IsArray(it, p) \/ IsControl(it, p)
<1>1. CASE it \in {Item("value", t, <<x>>) : t \in p.types, x \in p.values}
  <2>1. PICK t \in p.types, x \in p.values : it = Item("value", t, <<x>>)
    BY <1>1
  <2>2. it.kind = "value" /\ it.t = t
    BY <2>1 DEF Item
  <2> QED BY <2>1, <2>2 DEF IsValue
<1>2. CASE it \in {Item("array", t, Filled(n, x)) :
                    t \in p.types, n \in p.arrays, x \in p.values}
  <2>1. PICK t \in p.types, n \in p.arrays, x \in p.values :
          it = Item("array", t, Filled(n, x))
    BY <1>2
  <2>2. PICK a : a = Filled(n, x)
    OBVIOUS
  <2>3. it = Item("array", t, a)
    BY <2>1, <2>2
  <2>4. it.kind = "array" /\ it.t = t
    BY <2>3 DEF Item
  <2>5. p.arrays # {}
    OBVIOUS
  <2> QED BY <2>1, <2>4, <2>5 DEF IsArray
<1>3. CASE it \in UNION {{Control(c) : c \in [1 .. n -> BOOLEAN]} : n \in 1 .. p.control}
  <2>1. PICK n \in 1 .. p.control : it \in {Control(c) : c \in [1 .. n -> BOOLEAN]}
    BY <1>3
  <2>2. PICK c \in [1 .. n -> BOOLEAN] : it = Control(c)
    BY <2>1
  <2>3. it.kind = "control" /\ it.x = c
    BY <2>2 DEF Control, Item
  <2>4. p.control > 0
    BY ProgramsAssumption
  <2> QED BY <2>2, <2>3, <2>4 DEF IsControl
<1> QED BY <1>1, <1>2, <1>3 DEF ItemsOf

LEMMA PushChain ==
  ASSUME NEW I, NEW tp \in Seq(I), NEW it \in I, NEW h, NEW s \in State, NEW u \in State,
         Chain(h, s, tp), u = Pushed(s, it)
  PROVE  \E g : Chain(g, u, Append(tp, it)) /\ g[Len(tp) + 1] = u
<1>0. Len(tp) \in Nat
  OBVIOUS
<1>1. PICK n \in Nat : n = Len(tp)
  BY <1>0
<1>2. Len(Append(tp, it)) = n + 1 /\ Append(tp, it)[n + 1] = it
      /\ \A i \in 1 .. n : Append(tp, it)[i] = tp[i]
  BY <1>1
<1>3. h \in [0 .. n -> State] /\ (\A i \in 1 .. n : Alike(h[i], Pushed(h[i - 1], tp[i]))) /\ Alike(s, h[n])
  BY <1>1 DEF Chain
<1> DEFINE g == [i \in 0 .. n + 1 |-> IF i = n + 1 THEN u ELSE IF i = n THEN s ELSE h[i]]
<1>4. g \in [0 .. n + 1 -> State]
  BY <1>3
<1>5. g[n + 1] = u /\ g[n] = s /\ \A i \in 0 .. n - 1 : g[i] = h[i]
  OBVIOUS
<1> HIDE DEF g
<1>6. ASSUME NEW i \in 1 .. n + 1 PROVE Alike(g[i], Pushed(g[i - 1], Append(tp, it)[i]))
  <2>1. CASE i = n + 1
    <3>1. i - 1 = n
      BY <2>1
    <3> QED BY <1>2, <1>5, <2>1, <3>1, AlikeIsSame
  <2>2. CASE i = n
    <3>1. i \in 1 .. n /\ i - 1 \in 0 .. n - 1
      BY <2>2
    <3>2. Alike(s, Pushed(h[i - 1], tp[i]))
      BY <1>3, <2>2, <3>1, AlikeIsSame
    <3> QED BY <1>2, <1>5, <2>2, <3>1, <3>2
  <2>3. CASE i # n + 1 /\ i # n
    <3>1. i \in 1 .. n /\ i - 1 \in 0 .. n - 1 /\ i \in 0 .. n - 1
      BY <2>3
    <3> QED BY <1>2, <1>3, <1>5, <3>1
  <2> QED BY <2>1, <2>2, <2>3
<1>7. Chain(g, u, Append(tp, it))
  BY <1>2, <1>4, <1>5, <1>6, AlikeIsSame DEF Chain
<1> QED BY <1>1, <1>5, <1>7

LEMMA PopChain ==
  ASSUME NEW I, NEW tp \in Seq(I), tp # <<>>, NEW h, NEW s, NEW u \in State,
         Chain(h, s, tp), Alike(u, h[Len(tp) - 1])
  PROVE  \E g : /\ Chain(g, u, Front(tp)) /\ Len(Front(tp)) = Len(tp) - 1
               /\ g[Len(tp) - 1] = h[Len(tp) - 1]
<1>1. PICK n \in Nat : n = Len(tp) - 1
  OBVIOUS
<1>2. Len(Front(tp)) = n /\ Len(tp) = n + 1 /\ \A i \in 1 .. n : Front(tp)[i] = tp[i]
  BY <1>1 DEF Front
<1>3. /\ h \in [0 .. n + 1 -> State]
      /\ \A i \in 1 .. n + 1 : Alike(h[i], Pushed(h[i - 1], tp[i]))
  BY <1>2 DEF Chain
<1> DEFINE g == [i \in 0 .. n |-> h[i]]
<1>4. g \in [0 .. n -> State] /\ \A i \in 0 .. n : g[i] = h[i]
  BY <1>3
<1> HIDE DEF g
<1>5. ASSUME NEW i \in 1 .. n PROVE Alike(g[i], Pushed(g[i - 1], Front(tp)[i]))
  <2>1. i \in 0 .. n /\ i - 1 \in 0 .. n /\ i \in 1 .. n + 1
    OBVIOUS
  <2> QED BY <1>2, <1>3, <1>4, <2>1
<1>6. Alike(u, g[n]) /\ g[n] = h[n]
  BY <1>1, <1>4
<1>7. Chain(g, u, Front(tp))
  BY <1>2, <1>4, <1>5, <1>6 DEF Chain
<1> QED BY <1>1, <1>2, <1>6, <1>7

\* The last item of the tape is what a pop would undo.
LEMMA LastOfChain ==
  ASSUME NEW I, NEW tp \in Seq(I), tp # <<>>, NEW h, NEW s, Chain(h, s, tp)
  PROVE  /\ Last(tp) \in I /\ h[Len(tp) - 1] \in State
         /\ Alike(s, Pushed(h[Len(tp) - 1], Last(tp)))
<1>1. PICK n \in Nat \ {0} : n = Len(tp)
  OBVIOUS
<1>2. Last(tp) = tp[n] /\ tp[n] \in I /\ n \in 1 .. n /\ n - 1 \in 0 .. n
  BY <1>1 DEF Last
<1>3. h \in [0 .. n -> State] /\ Alike(h[n], Pushed(h[n - 1], tp[n])) /\ Alike(s, h[n])
  BY <1>1, <1>2 DEF Chain
<1> QED BY <1>1, <1>2, <1>3, AlikeIsSame

\* With no LOOKs, the view is the buffer.
LEMMA ViewOfNone ==
  ASSUME NEW s \in State, NEW t \in Types, s.ilbuf[t] = -1, ~s.inlbuf[t]
  PROVE  Viewable(s, t) /\ AlikeItems(View(s, t), s)
<1>1. Viewable(s, t)
  BY DEF Viewable
<1>2. PICK v : v = View(s, t)
  OBVIOUS
<1>3. IsView(v, s, t)
  BY <1>1, <1>2, ViewIs
<1>4. At(s, t) = s.ibuf[t] /\ Down(s, t) = 0 /\ Seen(s, t) = s.buf[t]
  BY DEF At, Down, Seen
<1>5. s.stack \in Seq(Frame) /\ s.ibuf \in [Types -> 1 .. L] /\ s.buf \in [Types -> Cells]
  BY DEF State
<1>6. v.ibuf = s.ibuf /\ v.buf = s.buf
  BY <1>3, <1>4, <1>5 DEF IsView
<1>7. v.stack = s.stack
  <2>1. v.stack = SubSeq(s.stack, 1, Len(s.stack) - 0)
    BY <1>3, <1>4 DEF IsView
  <2> QED BY <1>5, <2>1
<1> QED BY <1>1, <1>2, <1>6, <1>7 DEF AlikeItems

LEMMA AlikeItemsTwice ==
  ASSUME NEW s, NEW r, NEW u, AlikeItems(s, r), AlikeItems(r, u)
  PROVE  AlikeItems(s, u)
<1>1. \A t \in Types : \A i \in 1 .. s.ibuf[t] - 1 : s.buf[t][i] = u.buf[t][i]
  BY Zenon DEF AlikeItems
<1> QED BY <1>1 DEF AlikeItems

\* After a push or a pop of the one type that is LOOKed at
LEMMA NoViews ==
  ASSUME NEW g, NEW s \in State, NEW u \in State, NEW t \in prog.types, NEW n, NEW h, NEW m, NEW k,
         prog \in Programs, OneType, Views(prog.types, h, s, m, k), NoLooks(u, s, t), Alike(u, g[n]), n - 0 = n
  PROVE  Views(prog.types, g, u, n, 0)
<1>1. prog.types = {t} /\ t \in Types
  BY ProgramsAssumption DEF OneType, LooksOfOneType
<1>2. PICK none \in Int : none = -1
  OBVIOUS
<1>3. s.ilbuf \in [Types -> Int] /\ s.inlbuf \in [Types -> BOOLEAN]
  BY DEF State
<1>4. Viewable(s, t)
  BY DEF Views
<1>5. u.ilbuf = [s.ilbuf EXCEPT ![t] = none]
      /\ u.inlbuf = [s.inlbuf EXCEPT ![t] = IF s.ilbuf[t] # none THEN FALSE ELSE @]
  BY <1>2 DEF NoLooks
<1>6. u.ilbuf[t] = none
  BY <1>1, <1>3, <1>5
<1>7. u.inlbuf[t] = IF s.ilbuf[t] # none THEN FALSE ELSE s.inlbuf[t]
  BY <1>1, <1>3, <1>5
<1>8. ~u.inlbuf[t]
  BY <1>2, <1>4, <1>7 DEF Viewable
<1>9. Viewable(u, t) /\ AlikeItems(View(u, t), u)
  BY <1>1, <1>2, <1>6, <1>8, ViewOfNone
<1>10. AlikeItems(View(u, t), g[n])
  BY <1>9, AlikeItemsTwice DEF Alike
<1>11. ASSUME NEW w \in prog.types
       PROVE  Viewable(u, w) /\ u.ilbuf[w] = -1 /\ AlikeItems(View(u, w), g[n - 0])
  <2>1. w = t
    BY <1>1
  <2> QED BY <1>2, <1>6, <1>9, <1>10, <2>1
<1> QED BY <1>11 DEF Views

-----------------------------------------------------------------------------
(* The calls                                                                 *)

\* Every call that pushes
LEMMA PushStep ==
  ASSUME IInv, NEW it \in ItemsOf(prog), ad' = Pushed(ad, it), ad' \in State, OnTape(it),
         prog' = prog, OneType => \E t \in prog.types : NoLooks(ad', ad, t)
  PROVE  IInv' /\ Tapes!Next
<1>1. TypeInv /\ \E h : Chain(h, ad, tape) /\ (OneType => Views(prog.types, h, ad, Len(tape), looked))
  BY DEF IInv
<1>2. PICK h : Chain(h, ad, tape) /\ (OneType => Views(prog.types, h, ad, Len(tape), looked))
  BY <1>1
<1>3. prog \in Programs /\ ad \in State /\ tape \in Seq(ItemsOf(prog))
  BY <1>1 DEF TypeInv
<1>4. tape' = Append(tape, it) /\ looked' = 0 /\ out' = out
  BY DEF OnTape
<1>5. PICK g : Chain(g, ad', tape') /\ g[Len(tape) + 1] = ad'
  BY <1>2, <1>3, <1>4, PushChain
<1>6. Len(tape') = Len(tape) + 1 /\ Len(tape) \in Nat
  BY <1>3, <1>4
<1>7. tape' \in Seq(ItemsOf(prog)) /\ 0 \in 0 .. Len(tape')
  BY <1>3, <1>4, <1>6
<1>8. TypeInv'
  BY <1>3, <1>4, <1>7 DEF TypeInv
<1>9. ASSUME OneType PROVE Views(prog.types, g, ad', Len(tape'), 0)
  <2>1. PICK t \in prog.types : NoLooks(ad', ad, t)
    BY <1>9
  <2>2. PICK n : n = Len(tape')
    OBVIOUS
  <2>3. n - 0 = n
    BY <1>6, <2>2
  <2>4. Alike(ad', g[n])
    BY <1>5, <2>2 DEF Chain
  <2>5. Views(prog.types, h, ad, Len(tape), looked)
    BY <1>2, <1>9
  <2> QED BY <1>3, <1>9, <2>1, <2>2, <2>3, <2>4, <2>5, NoViews
<1>10. OneType' = OneType
  BY DEF OneType, LooksOfOneType
<1>11. IInv'
  BY <1>4, <1>5, <1>8, <1>9, <1>10 DEF IInv
<1>12. it \in Items
  BY <1>3 DEF Items
<1>13. Tapes!Next
  BY <1>4, <1>12 DEF Tapes!Next, Tapes!Push
<1> QED BY <1>11, <1>13

\* Every call that pops
LEMMA PopStep ==
  ASSUME IInv, tape # <<>>, ad' \in State, NEW x, OffTape(x), prog' = prog,
         \A s \in State : Alike(ad, Pushed(s, Last(tape))) => Alike(ad', s) /\ x = Last(tape),
         OneType => \E t \in prog.types : NoLooks(ad', ad, t)
  PROVE  IInv' /\ Tapes!Next
<1>1. TypeInv /\ \E h : Chain(h, ad, tape) /\ (OneType => Views(prog.types, h, ad, Len(tape), looked))
  BY DEF IInv
<1>2. PICK h : Chain(h, ad, tape) /\ (OneType => Views(prog.types, h, ad, Len(tape), looked))
  BY <1>1
<1>3. prog \in Programs /\ ad \in State /\ tape \in Seq(ItemsOf(prog))
  BY <1>1 DEF TypeInv
<1>4. tape' = Front(tape) /\ looked' = 0 /\ out' = x
  BY DEF OffTape
<1>5. h[Len(tape) - 1] \in State /\ Alike(ad, Pushed(h[Len(tape) - 1], Last(tape)))
  BY <1>2, <1>3, LastOfChain
<1>6. Alike(ad', h[Len(tape) - 1]) /\ x = Last(tape)
  BY <1>5
<1>7. PICK g : Chain(g, ad', tape') /\ Len(tape') = Len(tape) - 1
  BY <1>2, <1>3, <1>4, <1>6, PopChain
<1>8. tape' \in Seq(ItemsOf(prog)) /\ Len(tape') \in Nat
  <2>1. Front(tape) \in Seq(ItemsOf(prog))
    BY <1>3 DEF Front
  <2> QED BY <1>4, <2>1
<1>9. TypeInv'
  BY <1>3, <1>4, <1>8 DEF TypeInv
<1>10. ASSUME OneType PROVE Views(prog.types, g, ad', Len(tape'), 0)
  <2>1. PICK t \in prog.types : NoLooks(ad', ad, t)
    BY <1>10
  <2>2. PICK n : n = Len(tape')
    OBVIOUS
  <2>3. n - 0 = n
    BY <1>8, <2>2
  <2>4. Alike(ad', g[n])
    BY <1>7, <2>2 DEF Chain
  <2>5. Views(prog.types, h, ad, Len(tape), looked)
    BY <1>2, <1>10
  <2> QED BY <1>3, <1>10, <2>1, <2>2, <2>3, <2>4, <2>5, NoViews
<1>11. OneType' = OneType
  BY DEF OneType, LooksOfOneType
<1>12. IInv'
  BY <1>4, <1>7, <1>9, <1>10, <1>11 DEF IInv
<1>13. Tapes!Next
  BY <1>4, <1>6 DEF Tapes!Next, Tapes!Pop, Tapes!Front, Tapes!Last, Front, Last
<1> QED BY <1>12, <1>13

WithLookBits(r, w, l) == [r EXCEPT !.lbits = w, !.ilbit = l]
LEMMA SetLookBits ==
  ASSUME NEW r \in State, NEW w \in Word, NEW l \in Int, NEW p, p = WithLookBits(r, w, l)
  PROVE  p \in State /\ SameCore(p, r)
  BY DEF State, SameCore, WithLookBits

LEMMA BitLookedIs ==
  ASSUME NEW s \in State, NEW u, u = BitLooked(s)
  PROVE  u \in State /\ SameCore(u, s)
<1>1. PICK none \in Int : none = -1
  OBVIOUS
<1>2. PICK r : r = IF s.ilbit = -1 THEN [s EXCEPT !.ilbit = s.ibit, !.lbits = s.bits] ELSE s
  OBVIOUS
<1>3. r \in State /\ SameCore(r, s)
  <2>1. CASE s.ilbit = none
    <3>1. PICK w \in Word, l \in Int : w = s.bits /\ l = s.ibit
      BY DEF State
    <3>2. r = WithLookBits(s, w, l)
      BY <1>1, <1>2, <2>1, <3>1 DEF WithLookBits, State
    <3> QED BY <3>2, SetLookBits
  <2>2. CASE s.ilbit # none
    BY <1>1, <1>2, <2>2 DEF SameCore
  <2> QED BY <2>1, <2>2
<1>4. PICK q : q = ItemLooked(r, Integer4)
  OBVIOUS
<1>5. q \in State /\ SameCore(q, r)
  BY <1>3, <1>4, TypesAssumption, LookedIs
<1>6. u = IF r.ilbit <= 0
          THEN [q EXCEPT !.lbits = AsWord(LookedValue(q, Integer4)), !.ilbit = W - 1]
          ELSE [r EXCEPT !.ilbit = @ - 1]
  BY <1>2, <1>4 DEF BitLooked
<1>7. CASE r.ilbit <= 0
  <2>0. NoBits \in Word
    BY DEF NoBits, Word
  <2>1. PICK w \in Word : w = AsWord(LookedValue(q, Integer4))
    <3>1. PICK x : x = LookedValue(q, Integer4)
      OBVIOUS
    <3>2. AsWord(x) \in Word
      BY <2>0 DEF AsWord, Word
    <3> QED BY <3>1, <3>2
  <2>2. PICK l \in Int : l = W - 1
    BY BufferAssumption
  <2>3. u = WithLookBits(q, w, l)
    BY <1>5, <1>6, <1>7, <2>1, <2>2 DEF WithLookBits, State
  <2> QED BY <1>3, <1>5, <2>3, SetLookBits DEF SameCore
<1>8. CASE ~(r.ilbit <= 0)
  <2>1. PICK w \in Word : w = r.lbits
    BY <1>3 DEF State
  <2>2. PICK l \in Int : l = r.ilbit - 1
    BY <1>3 DEF State
  <2>3. u = WithLookBits(r, w, l)
    BY <1>3, <1>6, <1>8, <2>1, <2>2 DEF WithLookBits, State
  <2> QED BY <1>3, <2>3, SetLookBits DEF SameCore
<1> QED BY <1>7, <1>8

\* A LOOK leaves what was pushed where it is.
LEMMA LookKeeps ==
  ASSUME IInv, ad' \in State, SameCore(ad', ad), looked < Len(tape), looked' = looked + 1, tape' = tape,
         prog' = prog,
         \A h : /\ Chain(h, ad, tape) /\ OneType
               /\ Views(prog.types, h, ad, Len(tape), looked)
               => Views(prog.types, h, ad', Len(tape), looked + 1)
  PROVE  IInv'
<1>1. TypeInv /\ \E h : Chain(h, ad, tape) /\ (OneType => Views(prog.types, h, ad, Len(tape), looked))
  BY DEF IInv
<1>2. PICK h : Chain(h, ad, tape) /\ (OneType => Views(prog.types, h, ad, Len(tape), looked))
  BY <1>1
<1>3. Alike(ad', ad)
  BY DEF Alike, AlikeItems, AlikeBits, SameCore
<1>4. Chain(h, ad', tape)
  BY <1>2, <1>3, AlikeIsSame DEF Chain
<1>5. TypeInv'
  BY <1>1 DEF TypeInv
<1>6. OneType' = OneType
  BY DEF OneType, LooksOfOneType
<1>7. OneType => Views(prog.types, h, ad', Len(tape), looked + 1)
  BY <1>2
<1> QED BY <1>4, <1>5, <1>6, <1>7 DEF IInv

LEMMA LookItemStep ==
  ASSUME IInv, NEW t \in prog.types, LookItem(t), prog' = prog
  PROVE  IInv' /\ (LooksOfOneType => Tapes!Next)
<1>1. prog \in Programs /\ ad \in State /\ tape \in Seq(ItemsOf(prog)) /\ looked \in 0 .. Len(tape)
  BY DEF IInv, TypeInv
<1>2. /\ prog.looks /\ looked < Len(tape) /\ Sought.kind = "value" /\ Sought.t = t
      /\ ad' = ItemLooked(ad, t) /\ out' = Item("value", t, <<LookedValue(ad', t)>>)
      /\ looked' = looked + 1 /\ tape' = tape
  BY DEF LookItem
<1>3. t \in Types
  BY <1>1, ProgramsAssumption
<1>4. ad' \in State /\ SameCore(ad', ad)
  BY <1>1, <1>2, <1>3, LookedIs
<1>5. PICK m \in Nat \ {0} : m = Len(tape) - looked
  <2>1. Len(tape) - looked \in Nat \ {0}
    BY <1>1, <1>2
  <2> QED BY <2>1
<1>6. m \in 1 .. Len(tape) /\ Sought = tape[m] /\ Len(tape) - (looked + 1) = m - 1
  BY <1>1, <1>2, <1>5 DEF Sought
<1>7. PICK x \in Cell : Sought = Item("value", t, <<x>>)
  <2>1. Sought \in ItemsOf(prog)
    BY <1>1, <1>6
  <2>2. IsValue(Sought, prog)
    BY <1>1, <1>2, <2>1, KindOfItem DEF IsArray, IsControl
  <2>3. PICK x \in prog.values : Sought = Item("value", t, <<x>>)
    BY <1>2, <2>2 DEF IsValue
  <2>4. x \in Cell
    BY <1>1, ProgramsAssumption DEF Cell
  <2> QED BY <2>3, <2>4
<1>8. ASSUME NEW h, Chain(h, ad, tape), OneType, Views(prog.types, h, ad, Len(tape), looked)
      PROVE  Views(prog.types, h, ad', Len(tape), looked + 1) /\ LookedValue(ad', t) = x
  <2>1. /\ h[m] \in State /\ h[m - 1] \in State /\ Alike(h[m], Pushed(h[m - 1], tape[m]))
    <3>1. m \in 0 .. Len(tape) /\ m - 1 \in 0 .. Len(tape)
      BY <1>1, <1>6
    <3> QED BY <1>6, <1>8, <3>1 DEF Chain
  <2>2. Pushed(h[m - 1], tape[m]) = ItemPushed(h[m - 1], t, x)
    BY <1>6, <1>7 DEF Pushed, Item
  <2>3. Viewable(ad, t) /\ AlikeItems(View(ad, t), h[m])
    BY <1>5, <1>8 DEF Views
  <2>4. PICK v : v = View(ad, t)
    OBVIOUS
  <2>5. v \in State
    BY <1>1, <1>3, <2>3, <2>4, ViewIs
  <2>6. AlikeItems(v, ItemPushed(h[m - 1], t, x))
    BY <2>1, <2>2, <2>3, <2>4, AlikeItemsTwice DEF Alike
  <2>7. PICK q : q = ItemPopped(v, t)
    OBVIOUS
  <2>8. /\ v.ibuf[t] <= 1 => Own(v, t)
        /\ AlikeItems(q, h[m - 1]) /\ PoppedValue(q, t) = x
    BY <1>3, <2>1, <2>5, <2>6, <2>7, ItemUndone
  <2>9. PICK u : u = ad'
    OBVIOUS
  <2>10. /\ Viewable(u, t) /\ AlikeItems(View(u, t), q)
         /\ LookedValue(u, t) = PoppedValue(q, t)
    BY <1>1, <1>2, <1>3, <2>3, <2>4, <2>7, <2>8, <2>9, LookIsPop
  <2>11. AlikeItems(View(u, t), h[m - 1])
    BY <2>8, <2>10, AlikeItemsTwice
  <2>12. prog.types = {t}
    BY <1>8 DEF OneType, LooksOfOneType
  <2>13. looked + 1 # 0
    BY <1>1
  <2>14. ASSUME NEW w \in prog.types
         PROVE  /\ Viewable(u, w) /\ (looked + 1 = 0 => u.ilbuf[w] = -1)
                /\ AlikeItems(View(u, w), h[Len(tape) - (looked + 1)])
    <3>1. w = t
      BY <2>12
    <3> QED BY <1>6, <2>10, <2>11, <2>13, <3>1
  <2>15. Views(prog.types, h, u, Len(tape), looked + 1)
    BY <2>14 DEF Views
  <2> QED BY <2>8, <2>9, <2>10, <2>15
<1>9. IInv'
  BY <1>2, <1>4, <1>8, LookKeeps
<1>10. ASSUME LooksOfOneType PROVE Tapes!Next
  <2>1. OneType
    BY <1>2, <1>10 DEF OneType
  <2>2. PICK h : Chain(h, ad, tape) /\ Views(prog.types, h, ad, Len(tape), looked)
    BY <2>1 DEF IInv
  <2>3. out' = tape[Len(tape) - looked]
    BY <1>2, <1>5, <1>6, <1>7, <1>8, <2>1, <2>2
  <2> QED BY <1>2, <2>3 DEF Tapes!Next, Tapes!Look
<1> QED BY <1>9, <1>10

LEMMA LookBitStep ==
  ASSUME IInv, LookBit, prog' = prog
  PROVE  IInv' /\ ~LooksOfOneType
<1>1. prog \in Programs /\ ad \in State /\ tape \in Seq(ItemsOf(prog)) /\ looked \in 0 .. Len(tape)
  BY DEF IInv, TypeInv
<1>2. /\ prog.looks /\ looked < Len(tape) /\ Sought.kind = "control"
      /\ ad' = BitLooked(ad) /\ looked' = looked + 1 /\ tape' = tape
  BY DEF LookBit
<1>3. ad' \in State /\ SameCore(ad', ad)
  BY <1>1, <1>2, BitLookedIs
<1>4. Sought \in ItemsOf(prog)
  <2>1. Len(tape) - looked \in 1 .. Len(tape)
    BY <1>1, <1>2
  <2> QED BY <1>1, <2>1 DEF Sought
<1>5. prog.control > 0
  BY <1>1, <1>2, <1>4, KindOfItem DEF IsValue, IsArray, IsControl
<1>6. ~LooksOfOneType
  BY <1>2, <1>5 DEF LooksOfOneType
<1>7. ~OneType
  BY <1>6 DEF OneType
<1>8. IInv'
  BY <1>2, <1>3, <1>7, LookKeeps
<1> QED BY <1>6, <1>8

LEMMA PushItemStep ==
  ASSUME IInv, NEW t \in prog.types, NEW x \in prog.values, PushItem(t, x), prog' = prog
  PROVE  IInv' /\ Tapes!Next
<1>1. prog \in Programs /\ ad \in State
  BY DEF IInv, TypeInv
<1>2. t \in Types /\ x \in Cell
  BY <1>1, ProgramsAssumption DEF Cell
<1>3. PICK it : it = Item("value", t, <<x>>)
  OBVIOUS
<1>4. it \in ItemsOf(prog)
  BY <1>3 DEF ItemsOf
<1>5. ad' = ItemPushed(ad, t, x) /\ OnTape(it)
  BY <1>3 DEF PushItem
<1>6. Pushed(ad, it) = ItemPushed(ad, t, x)
  BY <1>3 DEF Pushed, Item
<1>7. ad' \in State /\ NoLooks(ad', ad, t)
  BY <1>1, <1>2, <1>5, ItemPushedIs
<1> QED BY <1>4, <1>5, <1>6, <1>7, PushStep

LEMMA PushArrayStep ==
  ASSUME IInv, NEW t \in prog.types, NEW n \in prog.arrays, NEW x \in prog.values,
         PushArray(t, n, x), prog' = prog
  PROVE  IInv' /\ Tapes!Next
<1>1. prog \in Programs /\ ad \in State
  BY DEF IInv, TypeInv
<1>2. t \in Types /\ x \in Cell /\ n \in Nat
  BY <1>1, ProgramsAssumption DEF Cell
<1>3. PICK a \in Seq(Cell) : a = Filled(n, x)
  <2>1. Filled(n, x) \in Seq(Cell)
    BY <1>2 DEF Filled
  <2> QED BY <2>1
<1>4. PICK it : it = Item("array", t, a)
  OBVIOUS
<1>5. it \in ItemsOf(prog)
  BY <1>3, <1>4 DEF ItemsOf
<1>6. ad' = ArrayPushed(ad, t, a) /\ OnTape(it)
  BY <1>3, <1>4 DEF PushArray
<1>7. Pushed(ad, it) = ArrayPushed(ad, t, a)
  BY <1>4 DEF Pushed, Item
<1>8. ad' \in State
  BY <1>1, <1>2, <1>6, ArrayPushedType
<1>9. ~OneType
  BY DEF OneType, LooksOfOneType
<1> QED BY <1>5, <1>6, <1>7, <1>8, <1>9, PushStep

LEMMA PushControlStep ==
  ASSUME IInv, NEW n \in 1 .. prog.control, NEW c \in [1 .. n -> BOOLEAN],
         PushControl(c), prog' = prog
  PROVE  IInv' /\ Tapes!Next
<1>1. prog \in Programs /\ ad \in State
  BY DEF IInv, TypeInv
<1>2. prog.control \in Nat /\ prog.control # 0 /\ n \in Nat
  BY <1>1, ProgramsAssumption
<1>3. PICK it : it = Control(c)
  OBVIOUS
<1>4. it \in ItemsOf(prog)
  BY <1>3 DEF ItemsOf
<1>5. ad' = ControlPushed(ad, c) /\ OnTape(it)
  BY <1>3 DEF PushControl
<1>6. Pushed(ad, it) = ControlPushed(ad, c)
  BY <1>3 DEF Pushed, Item, Control
<1>7. ad' \in State
  <2>1. Len(c) = n /\ n \in 0 .. n /\ Pushes(ad, c)[n] \in State
    BY <1>1, <1>2, PushesAre
  <2> QED BY <1>5, <2>1 DEF ControlPushed
<1>8. ~OneType
  BY <1>2 DEF OneType, LooksOfOneType
<1> QED BY <1>4, <1>5, <1>6, <1>7, <1>8, PushStep

\* What is on top of the tape was pushed on some state of the buffers.
LEMMA TopOfTape ==
  ASSUME IInv, tape # <<>>
  PROVE  /\ prog \in Programs /\ ad \in State /\ Last(tape) \in ItemsOf(prog)
         /\ \E s \in State : Alike(ad, Pushed(s, Last(tape)))
<1>1. prog \in Programs /\ ad \in State /\ tape \in Seq(ItemsOf(prog))
  BY DEF IInv, TypeInv
<1>2. PICK h : Chain(h, ad, tape)
  BY DEF IInv
<1> QED BY <1>1, <1>2, LastOfChain

LEMMA TopIsValue ==
  ASSUME NEW p \in Programs, NEW it \in ItemsOf(p), it.kind = "value"
  PROVE  /\ it.t \in p.types /\ it.t \in Types
         /\ \E x \in Cell : /\ it = Item("value", it.t, <<x>>)
                            /\ \A s : Pushed(s, it) = ItemPushed(s, it.t, x)
<1>1. IsValue(it, p)
  BY KindOfItem DEF IsArray, IsControl
<1>2. PICK t \in p.types, x \in p.values : t = it.t /\ it = Item("value", t, <<x>>)
  BY <1>1 DEF IsValue
<1>3. t \in Types /\ x \in Cell
  BY ProgramsAssumption DEF Cell
<1>4. \A s : Pushed(s, it) = ItemPushed(s, t, x)
  BY <1>2 DEF Pushed, Item
<1> QED BY <1>2, <1>3, <1>4

LEMMA TopIsControl ==
  ASSUME NEW p \in Programs, NEW it \in ItemsOf(p), it.kind = "control"
  PROVE  /\ p.control > 0
         /\ \E n \in Nat \ {0}, c \in Seq(BOOLEAN) :
              /\ c \in [1 .. n -> BOOLEAN] /\ Len(c) = n /\ it.x = c /\ it = Control(c)
              /\ \A s : Pushed(s, it) = ControlPushed(s, c)
<1>1. IsControl(it, p)
  BY KindOfItem DEF IsArray, IsValue
<1>2. PICK n \in 1 .. p.control : it.x \in [1 .. n -> BOOLEAN] /\ it = Control(it.x)
  BY <1>1 DEF IsControl
<1>3. PICK c \in [1 .. n -> BOOLEAN] : c = it.x /\ it = Control(c)
  BY <1>2
<1>4. n \in Nat \ {0} /\ c \in Seq(BOOLEAN) /\ Len(c) = n
  BY ProgramsAssumption
<1>5. \A s : Pushed(s, it) = ControlPushed(s, c)
  BY <1>3 DEF Pushed, Item, Control
<1> QED BY <1>1, <1>2, <1>3, <1>4, <1>5 DEF IsControl

LEMMA PopItemStep ==
  ASSUME IInv, NEW t \in prog.types, PopItem(t), prog' = prog
  PROVE  IInv' /\ Tapes!Next
<1>1. /\ tape # <<>> /\ Last(tape).kind = "value" /\ Last(tape).t = t
      /\ ad' = ItemPopped(ad, t) /\ OffTape(Item("value", t, <<PoppedValue(ad', t)>>))
  BY DEF PopItem, TopIs
<1>2. prog \in Programs /\ ad \in State /\ Last(tape) \in ItemsOf(prog)
  BY <1>1, TopOfTape
<1>3. PICK x \in Cell : /\ Last(tape) = Item("value", t, <<x>>)
                        /\ \A s : Pushed(s, Last(tape)) = ItemPushed(s, t, x)
  BY <1>1, <1>2, TopIsValue
<1>4. t \in Types
  BY <1>2, ProgramsAssumption
<1>5. PICK s \in State : Alike(ad, ItemPushed(s, t, x))
  BY <1>1, <1>3, TopOfTape
<1>6. ad.ibuf[t] <= 1 => Own(ad, t)
  BY <1>2, <1>4, <1>5, ItemUndone DEF Alike
<1>7. ad' \in State /\ NoLooks(ad', ad, t) /\ SameBits(ad', ad)
  BY <1>1, <1>2, <1>4, <1>6, ItemPoppedIs
<1>8. PICK o : o = Item("value", t, <<PoppedValue(ad', t)>>)
  OBVIOUS
<1>9. ASSUME NEW u \in State, Alike(ad, Pushed(u, Last(tape)))
      PROVE  Alike(ad', u) /\ o = Last(tape)
  <2>1. PICK w : w = ItemPushed(u, t, x)
    OBVIOUS
  <2>2. AlikeItems(ad, w) /\ AlikeBits(ad, w)
    BY <1>3, <1>9, <2>1 DEF Alike
  <2>3. AlikeItems(ad', u) /\ PoppedValue(ad', t) = x
    BY <1>1, <1>2, <1>4, <2>1, <2>2, ItemUndone
  <2>4. SameBits(w, u)
    BY <1>4, <2>1, ItemPushedIs
  <2>5. AlikeBits(ad', u)
    BY <1>7, <2>2, <2>4 DEF AlikeBits, SameBits
  <2> QED BY <1>3, <1>8, <2>3, <2>5 DEF Alike
<1>10. OffTape(o)
  BY <1>1, <1>8
<1> QED BY <1>1, <1>7, <1>9, <1>10, PopStep

LEMMA PopArrayStep ==
  ASSUME IInv, PopArray, prog' = prog
  PROVE  IInv' /\ Tapes!Next
<1>1. /\ tape # <<>> /\ Last(tape).kind = "array" /\ ad' = ArrayPopped(ad)
      /\ OffTape(Item("array", Last(tape).t, PopArrayOf(ad, Last(tape).t, Len(Last(tape).x))))
  BY DEF PopArray, TopIs
<1>2. prog \in Programs /\ ad \in State /\ Last(tape) \in ItemsOf(prog)
  BY <1>1, TopOfTape
<1>3. IsArray(Last(tape), prog)
  BY <1>1, <1>2, KindOfItem DEF IsValue, IsControl
<1>4. PICK t \in prog.types : t = Last(tape).t
  BY <1>3 DEF IsArray
<1>15. PICK n \in prog.arrays, x \in prog.values :
        Last(tape) = Item("array", t, Filled(n, x))
  BY <1>3, <1>4 DEF IsArray
<1>5. t \in Types /\ x \in Cell /\ n \in Nat
  BY <1>2, ProgramsAssumption DEF Cell
<1>6. PICK a \in Seq(Cell) : a = Filled(n, x)
  <2>1. Filled(n, x) \in Seq(Cell)
    BY <1>5 DEF Filled
  <2> QED BY <2>1
<1>7. Last(tape) = Item("array", t, a) /\ Last(tape).x = a
  BY <1>6, <1>15 DEF Item
<1>8. \A s : Pushed(s, Last(tape)) = ArrayPushed(s, t, a)
  BY <1>7 DEF Pushed, Item
<1>9. PICK s \in State : Alike(ad, ArrayPushed(s, t, a))
  BY <1>1, <1>8, TopOfTape
<1>10. ad' \in State
  BY <1>1, <1>2, <1>5, <1>9, ArrayUndone
<1>11. PICK o : o = Item("array", t, PopArrayOf(ad, t, Len(a)))
  OBVIOUS
<1>12. OffTape(o)
  BY <1>1, <1>4, <1>7, <1>11
<1>13. ASSUME NEW u \in State, Alike(ad, Pushed(u, Last(tape)))
       PROVE  Alike(ad', u) /\ o = Last(tape)
  <2>1. Alike(ad, ArrayPushed(u, t, a))
    BY <1>8, <1>13
  <2>2. Alike(ArrayPopped(ad), u) /\ PopArrayOf(ad, t, Len(a)) = a
    BY <1>2, <1>5, <2>1, ArrayUndone
  <2> QED BY <1>1, <1>7, <1>11, <2>2
<1>14. ~OneType
  BY <1>3 DEF IsArray, OneType, LooksOfOneType
<1> QED BY <1>1, <1>10, <1>12, <1>13, <1>14, PopStep

LEMMA PopControlStep ==
  ASSUME IInv, PopControl, prog' = prog
  PROVE  IInv' /\ Tapes!Next
<1>1. /\ tape # <<>> /\ Last(tape).kind = "control"
      /\ ad' = ControlPopped(ad, Len(Last(tape).x))
      /\ OffTape(Control(PoppedControl(ad, Len(Last(tape).x))))
  BY DEF PopControl, TopIs
<1>2. prog \in Programs /\ ad \in State /\ Last(tape) \in ItemsOf(prog)
  BY <1>1, TopOfTape
<1>3. PICK n \in Nat \ {0}, c \in Seq(BOOLEAN) :
        /\ c \in [1 .. n -> BOOLEAN] /\ Len(c) = n /\ Last(tape).x = c /\ Last(tape) = Control(c)
        /\ \A s : Pushed(s, Last(tape)) = ControlPushed(s, c)
  BY <1>1, <1>2, TopIsControl
<1>4. PICK s \in State : Alike(ad, ControlPushed(s, c))
  BY <1>1, <1>3, TopOfTape
<1>5. ad' = ControlPopped(ad, n)
  BY <1>1, <1>3
<1>6. ad' \in State
  BY <1>2, <1>3, <1>4, <1>5, ControlUndone
<1>7. PICK o : o = Control(PoppedControl(ad, n))
  OBVIOUS
<1>8. OffTape(o)
  BY <1>1, <1>3, <1>7
<1>9. ASSUME NEW u \in State, Alike(ad, Pushed(u, Last(tape)))
      PROVE  Alike(ad', u) /\ o = Last(tape)
  <2>1. Alike(ad, ControlPushed(u, c))
    BY <1>3, <1>9
  <2>2. Alike(ControlPopped(ad, n), u) /\ PoppedControl(ad, n) = c
    BY <1>2, <1>3, <2>1, ControlUndone
  <2> QED BY <1>3, <1>5, <1>7, <2>2
<1>10. ~OneType
  <2>1. prog.control > 0
    BY <1>1, <1>2, TopIsControl
  <2> QED BY <1>2, <2>1, ProgramsAssumption DEF OneType, LooksOfOneType
<1> QED BY <1>1, <1>6, <1>8, <1>9, <1>10, PopStep

-----------------------------------------------------------------------------
(* The theorems *)

LEMMA InitIInv ==
  ASSUME Init
  PROVE  IInv
<1>1. prog \in Programs /\ tape = <<>> /\ looked = 0 /\ Len(tape) = 0
  BY DEF Init
<1>2. ad \in State
  <2>1. Filled(L, Garbage) \in Cells
    BY DEF Cells, Cell, Filled
  <2>2. NoBits \in Word /\ 0 \in 0 .. W - 1
    BY BitTypes
  <2>3. 1 \in 1 .. L /\ -1 \in Int
    BY BufferAssumption
  <2>4. <<>> \in Seq(Frame)
    OBVIOUS
  <2> QED BY <2>1, <2>2, <2>3, <2>4 DEF Init, State, NoBits
<1>3. PICK h : h = [i \in 0 .. 0 |-> ad]
  OBVIOUS
<1>4. h \in [0 .. 0 -> State] /\ h[0] = ad
  BY <1>2, <1>3
<1>5. Chain(h, ad, tape)
  BY <1>1, <1>4, AlikeIsSame DEF Chain
<1>6. TypeInv
  <2>1. tape \in Seq(ItemsOf(prog))
    BY <1>1
  <2> QED BY <1>1, <1>2, <2>1 DEF TypeInv
<1>7. ASSUME NEW t \in prog.types
      PROVE  Viewable(ad, t) /\ ad.ilbuf[t] = -1 /\ AlikeItems(View(ad, t), h[0])
  <2>1. t \in Types
    BY <1>1, ProgramsAssumption
  <2>2. ad.ilbuf[t] = -1 /\ ~ad.inlbuf[t]
    BY <2>1 DEF Init
  <2> QED BY <1>2, <1>4, <2>1, <2>2, ViewOfNone
<1>8. Views(prog.types, h, ad, Len(tape), looked)
  BY <1>1, <1>7 DEF Views
<1> QED BY <1>5, <1>6, <1>8 DEF IInv

LEMMA NextIInv ==
  ASSUME IInv, Next
  PROVE  IInv' /\ (LooksOfOneType => Tapes!Next)
<1>1. Call /\ prog' = prog
  BY DEF Next
<1>2. ASSUME NEW t \in prog.types, NEW x \in prog.values, PushItem(t, x)
      PROVE  IInv' /\ Tapes!Next
  BY <1>1, <1>2, PushItemStep
<1>3. ASSUME NEW t \in prog.types, PopItem(t) PROVE IInv' /\ Tapes!Next
  BY <1>1, <1>3, PopItemStep
<1>4. ASSUME NEW t \in prog.types, LookItem(t) PROVE IInv' /\ (LooksOfOneType => Tapes!Next)
  BY <1>1, <1>4, LookItemStep
<1>5. ASSUME NEW t \in prog.types, NEW n \in prog.arrays, NEW x \in prog.values, PushArray(t, n, x)
      PROVE  IInv' /\ Tapes!Next
  BY <1>1, <1>5, PushArrayStep
<1>6. ASSUME PopArray PROVE IInv' /\ Tapes!Next
  BY <1>1, <1>6, PopArrayStep
<1>7. ASSUME NEW n \in 1 .. prog.control, NEW c \in [1 .. n -> BOOLEAN], PushControl(c)
      PROVE  IInv' /\ Tapes!Next
  BY <1>1, <1>7, PushControlStep
<1>8. ASSUME PopControl PROVE IInv' /\ Tapes!Next
  BY <1>1, <1>8, PopControlStep
<1>9. ASSUME LookBit PROVE IInv' /\ (LooksOfOneType => Tapes!Next)
  BY <1>1, <1>9, LookBitStep
<1> QED BY <1>1, <1>2, <1>3, <1>4, <1>5, <1>6, <1>7, <1>8, <1>9 DEF Call

LEMMA IInvSame ==
  ASSUME IInv, UNCHANGED vars
  PROVE  IInv'
<1>1. prog' = prog /\ ad' = ad /\ tape' = tape /\ looked' = looked
  BY DEF vars
<1>2. TypeInv'
  BY <1>1 DEF IInv, TypeInv
<1>3. OneType' = OneType
  BY <1>1 DEF OneType, LooksOfOneType
<1>4. PICK h : Chain(h, ad, tape) /\ (OneType => Views(prog.types, h, ad, Len(tape), looked))
  BY DEF IInv
<1>5. Chain(h, ad', tape') /\ (OneType' => Views(prog'.types, h, ad', Len(tape'), looked'))
  BY <1>1, <1>3, <1>4
<1> QED BY <1>2, <1>5 DEF IInv

LEMMA IInvOwn ==
  ASSUME IInv
  PROVE  TopArrayIsOwn
<1>1. ASSUME NEW t \in Types, TopIs("value"), Last(tape).t = t, ad.ibuf[t] <= 1
      PROVE  Own(ad, t)
  <2>1. tape # <<>> /\ Last(tape).kind = "value"
    BY <1>1 DEF TopIs
  <2>2. PICK x \in Cell : \A s : Pushed(s, Last(tape)) = ItemPushed(s, t, x)
    BY <1>1, <2>1, TopOfTape, TopIsValue
  <2>3. PICK s \in State : Alike(ad, ItemPushed(s, t, x))
    BY <2>1, <2>2, TopOfTape
  <2> QED BY <1>1, <2>1, <2>3, TopOfTape, ItemUndone DEF Alike
<1>2. ASSUME TopIs("control"), ad.ibit = 0, ad.ibuf[Integer4] <= 1
      PROVE  Own(ad, Integer4)
  <2>1. tape # <<>> /\ Last(tape).kind = "control"
    BY <1>2 DEF TopIs
  <2>2. PICK n \in Nat \ {0}, c \in Seq(BOOLEAN) :
          c \in [1 .. n -> BOOLEAN] /\ \A s : Pushed(s, Last(tape)) = ControlPushed(s, c)
    BY <2>1, TopOfTape, TopIsControl
  <2>3. PICK s \in State : Alike(ad, ControlPushed(s, c))
    BY <2>1, <2>2, TopOfTape
  <2> QED BY <1>2, <2>1, <2>2, <2>3, TopOfTape, ControlUndone
<1> QED BY <1>1, <1>2 DEF TopArrayIsOwn, Own

LEMMA SpecIInv == Spec => []IInv
<1>1. IInv /\ [Next]_vars => IInv'
  BY NextIInv, IInvSame
<1> QED BY <1>1, InitIInv, PTL DEF Spec

\* adBuffer.F: the pop of a value, or of a bit, that finds its buffer empty gets
\* a full array of its own type from the C stack, whatever the other buffers
\* pushed and popped there in between.
THEOREM TopArraysAreOwn == Spec => []TopArrayIsOwn
<1>1. IInv => TopArrayIsOwn
  BY IInvOwn
<1> QED BY <1>1, SpecIInv, PTL

\* The buffers over the C stack are a tape: what was pushed comes back last in
\* first out, and a LOOK returns what the pop would have, for a program that
\* LOOKs at the values of one type only.
THEOREM BuffersAreATape == Spec => ImplementsTape
<1>1. Init => Tapes!Init
  BY DEF Init, Tapes!Init
<1>2. IInv /\ [Next]_vars => [LooksOfOneType => Tapes!Next]_<<tape, looked, out>>
  BY NextIInv DEF vars
<1> QED BY <1>1, <1>2, SpecIInv, PTL DEF Spec, ImplementsTape
=============================================================================
