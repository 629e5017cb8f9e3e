---------------------------- MODULE BufferProofs ----------------------------
(***************************************************************************)
(* Proofs about three places where one loop adds up what a second, written *)
(* apart from it, takes to be enough: the count of gen_halos and the calls *)
(* of RSL_LITE_PACK (HaloBuffers), the two scans of the cache of fields    *)
(* (FieldCache), and the displacements of collect_on_comm (CollectOnComm). *)
(* For halos of any fields, batches of any pieces, communicators of any    *)
(* number of tasks and ints of any width.                                  *)
(*                                                                         *)
(* HaloBuffers: what the counters hold for the fields seen so far is at    *)
(* least the sum of their weights (Counting), and what is packed at most   *)
(* that sum (Packing), by distributing the levels over the sums.           *)
(*                                                                         *)
(* FieldCache: after i pieces in the first scan and j in the second, the   *)
(* slots are the names of the first i pieces in the order in which they    *)
(* come, each with the size of their bytes and the bytes of the first j    *)
(* (InUse); a retrieval takes them one by one.                             *)
(*                                                                         *)
(* CollectOnComm: the loop has the exact sum as long as nothing was        *)
(* aborted: one addition can overflow by less than the range of an int, so *)
(* what wraps around is negative and is seen at once.                      *)
(***************************************************************************)
EXTENDS CollectOnComm, HaloBuffers, FieldCache, SumLemmas, TLAPS

(***************************************************************************)
(* HaloBuffers: the memory of a halo exchange                              *)
(***************************************************************************)

\* The bytes that are reserved for a field, for one point of the strip, when
\* fields have lv levels.
Weight(f, lv) ==
  IF f.dims = 2 THEN WordSize[f.type]
  ELSE IF f.dims = 3 THEN WordSize[f.type] * lv ELSE 4 * ((f.num * f.more) * lv)
Weights(lv) == [i \in 1 .. Len(halo) |-> Weight(halo[i], lv)]
Reserved(lv) ==
  4 * ((n3["real"] + n4.sum) * lv + n2["real"]) + 4 * (n3["integer"] * lv + n2["integer"])
  + 8 * (n3["double"] * lv + n2["double"])

FieldOK(f) ==
  /\ f.dims \in {2, 3, 4} /\ f.type \in Types
  /\ f.full \in BOOLEAN /\ f.sub \in BOOLEAN
  /\ f.first \in Int /\ f.last \in Int
  /\ f.dims = 4 => f.type = "real" /\ f.num \in Nat \ {0} /\ f.more \in Nat
  /\ f.sub => LevelsOf(f) <= Kpe

OfSub(f) == IF f.sub THEN 1 ELSE 0
HaloTypes ==
  /\ halo \in Seq({f \in UNION Menus : FieldOK(f)})
  /\ stencil \in Stencils
  /\ phase \in {"idle", "count", "init", "pack", "exit", "abort"}
  /\ axis \in {"y", "x"}
  /\ pos \in 1 .. Len(halo) + 1
  /\ n2 \in [Types -> Nat] /\ n3 \in [Types -> Nat] /\ n4.sum \in Nat
  /\ vdims \subseteq Int
  /\ size \in [{"y", "x"} -> Int] /\ curs \in Int

\* The fields counted so far.
Seen == IF phase = "count" THEN pos - 1 ELSE Len(halo)
Highest == \E top \in {1} \union vdims : \A y \in {1} \union vdims : y <= top
Counting ==
  phase \in {"count", "init", "pack"} =>
    /\ Len(halo) > 0
    /\ \A lv \in Nat : Reserved(lv) = SumOf(Weights(lv), 1 .. Seen)
    /\ Highest
    /\ \A i \in 1 .. Seen : halo[i].dims >= 3 => LastLevel(halo[i]) \in vdims
    /\ subgrid = IF Seen = 0 THEN -1 ELSE OfSub(halo[1])

\* What the generator does not count right.
Miscounted == MixesGrids \/ BeginsBelowOne

\* The bytes of a point are repeated over the strip.
Strip(sub) == (Extent(sub) + 2 * shw) * shw
Packing ==
  phase = "pack" /\ ~Miscounted =>
    /\ size[axis] >= Strip(subgrid # 0) * SumOf(Weights(Levels), 1 .. Len(halo))
    /\ curs <= Strip(subgrid # 0) * SumOf(Weights(Levels), 1 .. pos - 1)

BuffersInv == HaloTypes /\ Counting /\ Packing /\ NeverOverwrites

-----------------------------------------------------------------------------
\* The sum of the first numbers, one of them more, and all.
LEMMA SumsOf ==
  ASSUME NEW n \in Nat, NEW F, \A i \in 1 .. n : F[i] \in Nat, NEW k \in 1 .. n
  PROVE  /\ SumOf(F, 1 .. k - 1) \in Nat /\ SumOf(F, 1 .. k) \in Nat /\ SumOf(F, 1 .. n) \in Nat
         /\ SumOf(F, 1 .. k) = SumOf(F, 1 .. k - 1) + F[k]
         /\ SumOf(F, 1 .. k) <= SumOf(F, 1 .. n)
<1>1. ASSUME NEW m \in 0 .. n
      PROVE  IsFiniteSet(1 .. m) /\ SumOf(F, 1 .. m) \in Nat
  <2>1. IsFiniteSet(1 .. m)
    BY FS_Interval
  <2>2. \A i \in 1 .. m : F[i] \in Nat
    OBVIOUS
  <2> QED BY <2>1, <2>2, SumOfNats
<1>2. ASSUME NEW m \in 1 .. n
      PROVE  SumOf(F, 1 .. m) = SumOf(F, 1 .. m - 1) + F[m]
  <2>1. m \in 1 .. m /\ (1 .. m) \ {m} = 1 .. m - 1 /\ m - 1 \in 0 .. n /\ m \in 0 .. n
    OBVIOUS
  <2>2. \A i \in 1 .. m : F[i] \in Int
    OBVIOUS
  <2>3. SumOf(F, 1 .. m) = F[m] + SumOf(F, (1 .. m) \ {m})
    BY <1>1, <2>1, <2>2, SumOfRemove
  <2>4. SumOf(F, (1 .. m) \ {m}) = SumOf(F, 1 .. m - 1)
    BY <2>1
  <2>5. F[m] \in Nat /\ SumOf(F, 1 .. m - 1) \in Nat
    BY <1>1, <2>1
  <2> QED BY <2>3, <2>4, <2>5
<1> DEFINE P == {d \in Nat : k + d <= n => SumOf(F, 1 .. k) <= SumOf(F, 1 .. k + d)}
<1>3. 0 \in P
  BY <1>1
<1>4. ASSUME NEW d \in 0 .. (n - k) - 1, d \in P PROVE d + 1 \in P
  <2>1. k + d \in 0 .. n /\ k + (d + 1) \in 1 .. n /\ (k + (d + 1)) - 1 = k + d
    OBVIOUS
  <2>2. SumOf(F, 1 .. k + (d + 1)) = SumOf(F, 1 .. k + d) + F[k + (d + 1)]
    BY <1>2, <2>1
  <2>3. SumOf(F, 1 .. k) <= SumOf(F, 1 .. k + d)
    BY <1>4, <2>1
  <2>4. F[k + (d + 1)] \in Nat /\ SumOf(F, 1 .. k + d) \in Nat /\ SumOf(F, 1 .. k) \in Nat
    BY <1>1, <2>1
  <2> QED BY <2>2, <2>3, <2>4
<1>5. n - k \in Nat
  OBVIOUS
<1> HIDE DEF P
<1>6. n - k \in P
  <2>1. PICK b \in Nat : b = n - k
    BY <1>5
  <2>2. \A d \in 0 .. b - 1 : d \in P => d + 1 \in P
    BY <1>4, <2>1
  <2>3. \A d \in 0 .. b : d \in P
    BY <1>3, <2>2, UpTo
  <2> QED BY <2>1, <2>3
<1>7. SumOf(F, 1 .. k) <= SumOf(F, 1 .. n)
  BY <1>5, <1>6 DEF P
<1>8. k - 1 \in 0 .. n /\ k \in 0 .. n /\ n \in 0 .. n
  OBVIOUS
<1> QED BY <1>1, <1>2, <1>7, <1>8

LEMMA StencilWidths ==
  \A s \in Stencils : StencilWidth[s] \in Nat
<1> SUFFICES ASSUME NEW s \in Stencils PROVE StencilWidth[s] \in Nat
  OBVIOUS
<1>1. s \in {4, 8, 12, 24, 48, 80, 120, 168}
  BY StencilsAssumption DEF StencilWidth
<1>2. StencilWidth[s] \in {1, 2, 3, 4, 5, 6}
  BY <1>1 DEF StencilWidth
<1> QED BY <1>2

LEMMA StripIs ==
  ASSUME stencil \in Stencils
  PROVE  /\ shw \in Nat
         /\ \A sub \in BOOLEAN : Extent(sub) \in Nat /\ Strip(sub) \in Nat
<1>1. shw \in Nat
  BY StencilWidths DEF shw
<1>2. \A x \in BOOLEAN : Extent(x) \in Nat
  BY PatchAssumption DEF Extent, Scaled
<1>3. ASSUME NEW x \in BOOLEAN PROVE Strip(x) \in Nat
  <2>1. PICK e \in Nat, h \in Nat : e = Extent(x) /\ h = shw
    BY <1>1, <1>2
  <2> QED BY <2>1 DEF Strip
<1> QED BY <1>1, <1>2, <1>3

LEMMA TimesIsMonotone ==
  ASSUME NEW a \in Nat, NEW x \in Int, NEW y \in Int, x <= y
  PROVE  a * x <= a * y /\ a * x \in Int /\ a * y \in Int
<1>1. PICK d \in Nat : y = x + d
  <2>1. y - x \in Nat /\ y = x + (y - x)
    OBVIOUS
  <2> QED BY <2>1
<1>2. a * y = a * x + a * d /\ a * d \in Nat
  BY <1>1
<1> QED BY <1>2

LEMMA WeightIsNat ==
  ASSUME NEW f, FieldOK(f), NEW lv \in Nat
  PROVE  Weight(f, lv) \in Nat
<1>1. WordSize[f.type] \in Nat
  BY DEF FieldOK, Types, WordSize
<1>2. ASSUME f.dims # 4 PROVE Weight(f, lv) \in Nat
  <2>1. PICK w \in Nat : w = WordSize[f.type]
    BY <1>1
  <2>2. w * lv \in Nat
    OBVIOUS
  <2> QED BY <1>2, <2>1, <2>2 DEF Weight, FieldOK
<1>3. CASE f.dims = 4
  <2>1. PICK n \in Nat, m \in Nat : n = f.num /\ m = f.more
    BY <1>3 DEF FieldOK
  <2>2. Weight(f, lv) = 4 * ((n * m) * lv)
    BY <1>3, <2>1 DEF Weight
  <2> QED BY <2>2
<1> QED BY <1>2, <1>3

\* What is packed of a field is no more than was reserved for it.
LEMMA WeightSuffices ==
  ASSUME NEW f, FieldOK(f), NEW lv \in Nat, lv > 0, LevelsOf(f) <= lv
  PROVE  /\ Weight(f, lv) \in Nat /\ LevelsOf(f) \in Int /\ CallsFor(f) \in Nat /\ WordSize[f.type] \in {4, 8}
         /\ CallsFor(f) * (LevelsOf(f) * WordSize[f.type]) <= Weight(f, lv)
<1>1. WordSize[f.type] \in {4, 8} /\ (f.type = "real" => WordSize[f.type] = 4)
  BY DEF FieldOK, Types, WordSize
<1>2. LevelsOf(f) \in Int
  BY PatchAssumption DEF FieldOK, LevelsOf, FirstLevel, LastLevel
<1>3. PICK k \in Int, w \in Nat : k = LevelsOf(f) /\ w = WordSize[f.type] /\ w \in {4, 8}
  BY <1>1, <1>2
<1>4. CASE f.dims = 2
  BY <1>1, <1>3, <1>4 DEF Weight, CallsFor, LevelsOf
<1>5. CASE f.dims = 3
  <2>1. CallsFor(f) = 1 /\ Weight(f, lv) = w * lv
    BY <1>3, <1>5 DEF Weight, CallsFor
  <2>2. w * k <= w * lv
    BY <1>3, TimesIsMonotone
  <2> QED BY <1>3, <2>1, <2>2
<1>6. CASE f.dims = 4
  <2>1. PICK n \in Nat \ {0}, m \in Nat : n = f.num /\ m = f.more
    BY <1>6 DEF FieldOK
  <2>2. CallsFor(f) = (n - 1) * m /\ Weight(f, lv) = 4 * ((n * m) * lv) /\ w = 4
    BY <1>1, <1>3, <1>6, <2>1 DEF Weight, CallsFor, FieldOK
  <2>3. PICK c \in Nat : c = (n - 1) * m
    <3>1. (n - 1) * m \in Nat
      BY <2>1
    <3> QED BY <3>1
  <2>4. n * m = c + m
    BY <2>3
  <2>5. c * k <= c * lv /\ c * k \in Int /\ c * lv \in Int
    <3>1. k <= lv
      BY <1>3
    <3> QED BY <3>1, TimesIsMonotone
  <2>6. (n * m) * lv = c * lv + m * lv /\ m * lv \in Nat
    BY <2>4
  <2>7. c * (k * 4) = 4 * (c * k)
    OBVIOUS
  <2>8. 4 * ((n * m) * lv) \in Nat
    BY <2>5, <2>6
  <2> QED BY <1>3, <2>2, <2>3, <2>5, <2>6, <2>7, <2>8
<1> QED BY <1>4, <1>5, <1>6 DEF FieldOK

\* The levels reserved are enough for every field that was seen.
LEMMA MaxIs ==
  ASSUME NEW S, NEW top \in S, S \subseteq Int, \A y \in S : y <= top
  PROVE  Max(S) = top
<1>1. \A y \in S : top >= y
  OBVIOUS
<1>2. PICK m : m = Max(S)
  OBVIOUS
<1>3. m \in S /\ \A y \in S : m >= y
  BY <1>1, <1>2 DEF Max
<1> QED BY <1>1, <1>2, <1>3

LEMMA LevelsSuffice ==
  ASSUME HaloTypes, Counting, phase \in {"init", "pack"}, ~Miscounted
  PROVE  /\ Levels \in Nat /\ Levels > 0
         /\ \A i \in 1 .. Len(halo) : /\ LevelsOf(halo[i]) <= Levels
                                      /\ halo[i].sub = (subgrid # 0) /\ FieldOK(halo[i])
<1>1. Seen = Len(halo) /\ Len(halo) \in Nat /\ Len(halo) > 0
  BY DEF Seen, Counting, HaloTypes
<1>2. \A i \in 1 .. Len(halo) : FieldOK(halo[i]) /\ halo[i].sub \in BOOLEAN
  BY DEF HaloTypes, FieldOK
<1>3. subgrid = OfSub(halo[1]) /\ 1 \in 1 .. Len(halo)
  BY <1>1 DEF Counting
<1>4. \A i \in 1 .. Len(halo) : halo[i].sub = halo[1].sub
  BY <1>1, <1>3 DEF Miscounted, MixesGrids, HaloTypes
<1>5. \A i \in 1 .. Len(halo) : halo[i].sub = (subgrid # 0)
  BY <1>2, <1>3, <1>4 DEF OfSub
<1>6. PICK top \in {1} \union vdims : \A y \in {1} \union vdims : y <= top
  BY <1>1 DEF Counting, Highest
<1>7. PICK S : S = {1} \union vdims
  OBVIOUS
<1>8. S \subseteq Int /\ top \in S /\ \A y \in S : y <= top
  BY <1>6, <1>7 DEF HaloTypes
<1>9. Max(S) = top /\ top \in Nat /\ top > 0
  BY <1>7, <1>8, MaxIs
<1>10. CASE subgrid = 0
  <2>1. Levels = top
    BY <1>7, <1>9, <1>10 DEF Levels
  <2>2. ASSUME NEW i \in 1 .. Len(halo) PROVE LevelsOf(halo[i]) <= top
    <3>1. halo[i].dims = 2 => LevelsOf(halo[i]) = 1
      BY DEF LevelsOf
    <3>2. halo[i].dims # 2 => LastLevel(halo[i]) <= top
      BY <1>1, <1>2, <1>7, <1>8 DEF Counting, FieldOK
    <3>3. halo[i].dims # 2 => LevelsOf(halo[i]) = LastLevel(halo[i]) - FirstLevel(halo[i]) + 1
      BY DEF LevelsOf
    <3>4. FirstLevel(halo[i]) \in Int /\ LastLevel(halo[i]) \in Int
      BY <1>2, PatchAssumption DEF FirstLevel, LastLevel, FieldOK
    <3>5. halo[i].dims # 2 => ~(FirstLevel(halo[i]) < 1)
      <4>1. i \in DOMAIN halo /\ halo[i].dims \in {2, 3, 4}
        BY <1>2 DEF HaloTypes, FieldOK
      <4> QED BY <4>1 DEF Miscounted, BeginsBelowOne
    <3> QED BY <1>9, <3>1, <3>2, <3>3, <3>4, <3>5
  <2> QED BY <1>2, <1>5, <1>9, <2>1, <2>2
<1>11. CASE subgrid # 0
  BY <1>2, <1>5, <1>11, PatchAssumption DEF Levels, FieldOK
<1> QED BY <1>10, <1>11

\* What is asked for is the strip as often as the bytes reserved for a point.
LEMMA AskedIs ==
  ASSUME HaloTypes, Counting, phase = "init", ~Miscounted
  PROVE  /\ BytesAsked \in Int /\ Strip(subgrid # 0) \in Nat
         /\ BytesAsked = Strip(subgrid # 0) * SumOf(Weights(Levels), 1 .. Len(halo))
<1>1. PICK lv \in Nat : lv = Levels
  BY LevelsSuffice
<1>2. /\ n3["real"] \in Nat /\ n3["integer"] \in Nat /\ n3["double"] \in Nat
      /\ n2["real"] \in Nat /\ n2["integer"] \in Nat /\ n2["double"] \in Nat /\ n4.sum \in Nat
  BY DEF HaloTypes, Types
<1>3. /\ Planes("real") = (n3["real"] + n4.sum) * lv + n2["real"]
      /\ Planes("integer") = n3["integer"] * lv + n2["integer"]
      /\ Planes("double") = n3["double"] * lv + n2["double"]
  BY <1>1, <1>2 DEF Planes
<1>4. WordSize["real"] = 4 /\ WordSize["integer"] = 4 /\ WordSize["double"] = 8
  BY DEF WordSize
<1>5. WordSize["real"] * Planes("real") + WordSize["integer"] * Planes("integer")
      + WordSize["double"] * Planes("double") = Reserved(lv)
  BY <1>3, <1>4 DEF Reserved
<1>6. BytesAsked = Strip(subgrid # 0) * Reserved(lv)
  BY <1>5 DEF BytesAsked, Strip
<1>7. Reserved(lv) = SumOf(Weights(lv), 1 .. Len(halo))
  BY DEF Counting, Seen
<1>8. Reserved(lv) \in Int
  BY <1>2 DEF Reserved
<1>9. Strip(subgrid # 0) \in Nat
  BY StripIs DEF HaloTypes
<1> QED BY <1>1, <1>6, <1>7, <1>8, <1>9

LEMMA LevelsAreNumbers ==
  ASSUME HaloTypes, Counting, phase \in {"init", "pack"}
  PROVE  Levels \in Int
<1>1. PICK top \in {1} \union vdims : \A y \in {1} \union vdims : y <= top
  BY DEF Counting, Highest
<1>2. PICK S : S = {1} \union vdims
  OBVIOUS
<1>3. S \subseteq Int /\ top \in S /\ \A y \in S : y <= top
  BY <1>1, <1>2 DEF HaloTypes
<1>4. Max(S) = top /\ top \in Int
  BY <1>3, MaxIs
<1> QED BY <1>2, <1>4, PatchAssumption DEF Levels

LEMMA AskedIsInt ==
  ASSUME HaloTypes, Counting, phase = "init"
  PROVE  BytesAsked \in Int
<1>1. PICK lv \in Int : lv = Levels
  BY LevelsAreNumbers
<1>2. /\ n3["real"] \in Nat /\ n3["integer"] \in Nat /\ n3["double"] \in Nat
      /\ n2["real"] \in Nat /\ n2["integer"] \in Nat /\ n2["double"] \in Nat /\ n4.sum \in Nat
  BY DEF HaloTypes, Types
<1>3. WordSize["real"] = 4 /\ WordSize["integer"] = 4 /\ WordSize["double"] = 8
  BY DEF WordSize
<1>4. Planes("real") \in Int /\ Planes("integer") \in Int /\ Planes("double") \in Int
  BY <1>1, <1>2 DEF Planes
<1>5. PICK d \in Int : d = WordSize["real"] * Planes("real") + WordSize["integer"] * Planes("integer")
                           + WordSize["double"] * Planes("double")
  BY <1>3, <1>4
<1>6. PICK e \in Nat, h \in Nat : e = Extent(subgrid # 0) /\ h = shw
  BY StripIs DEF HaloTypes
<1>7. PICK row \in Int : row = (e + 2 * h) * h
  <2>1. (e + 2 * h) * h \in Int
    OBVIOUS
  <2> QED BY <2>1
<1>8. BytesAsked = row * d
  BY <1>5, <1>6, <1>7 DEF BytesAsked
<1> QED BY <1>8

LEMMA PackedIsInt ==
  ASSUME HaloTypes, phase = "pack", pos <= Len(halo)
  PROVE  curs + CallsFor(Now) * Bytes(Now) \in Int
<1>1. pos \in 1 .. Len(halo) /\ curs \in Int /\ FieldOK(Now)
  BY DEF HaloTypes, Now
<1>2. LevelsOf(Now) \in Int
  BY <1>1, PatchAssumption DEF FieldOK, LevelsOf, FirstLevel, LastLevel
<1>3. WordSize[Now.type] \in Int
  BY <1>1 DEF FieldOK, Types, WordSize
<1>4. CallsFor(Now) \in Int
  <2>1. CASE Now.dims = 4
    <3>1. PICK n \in Int, m \in Int : n = Now.num /\ m = Now.more
      BY <1>1, <2>1 DEF FieldOK
    <3>2. (n - 1) * m \in Int
      OBVIOUS
    <3> QED BY <2>1, <3>1, <3>2 DEF CallsFor
  <2> QED BY <2>1 DEF CallsFor
<1>5. PICK e \in Nat, h \in Nat : e = Extent(Now.sub) /\ h = shw
  BY <1>1, StripIs DEF HaloTypes, FieldOK
<1>6. Bytes(Now) \in Int
  <2>1. PICK k \in Int, w \in Int, d \in Int : k = LevelsOf(Now) /\ w = WordSize[Now.type] /\ d = e + 2 * h
    BY <1>2, <1>3
  <2>2. h * k * d * w \in Int
    OBVIOUS
  <2> QED BY <1>5, <2>1, <2>2 DEF Bytes
<1>7. PICK c \in Int, b \in Int : c = CallsFor(Now) /\ b = Bytes(Now)
  BY <1>4, <1>6
<1>8. c * b \in Int
  OBVIOUS
<1> QED BY <1>1, <1>7, <1>8

\* One more field packed takes no more than is reserved for it.
LEMMA PackedIs ==
  ASSUME HaloTypes, Counting, Packing, phase = "pack", ~Miscounted, pos <= Len(halo)
  PROVE  /\ curs + CallsFor(Now) * Bytes(Now) <= size[axis]
         /\ curs + CallsFor(Now) * Bytes(Now) \in Int
         /\ curs + CallsFor(Now) * Bytes(Now)
              <= Strip(subgrid # 0) * SumOf(Weights(Levels), 1 .. pos)
<1>1. PICK lv \in Nat : lv = Levels /\ lv > 0
  BY LevelsSuffice
<1>2. pos \in 1 .. Len(halo) /\ Len(halo) \in Nat /\ Now = halo[pos] /\ curs \in Int /\ size[axis] \in Int
  BY DEF HaloTypes, Now
<1>3. FieldOK(Now) /\ LevelsOf(Now) <= lv /\ Now.sub = (subgrid # 0)
  BY <1>1, <1>2, LevelsSuffice
<1>4. PICK k \in Int, c \in Nat, w \in Nat, v \in Nat :
        /\ k = LevelsOf(Now) /\ c = CallsFor(Now) /\ w = WordSize[Now.type] /\ v = Weight(Now, lv)
        /\ c * (k * w) <= v
  BY <1>1, <1>3, WeightSuffices
<1>5. PICK a \in Nat : a = Strip(subgrid # 0)
  BY StripIs DEF HaloTypes
<1>6. CallsFor(Now) * Bytes(Now) = a * (c * (k * w))
  <2>1. PICK e \in Nat, h \in Nat : e = Extent(Now.sub) /\ h = shw
    BY <1>3, StripIs DEF HaloTypes, FieldOK
  <2>2. a = (e + 2 * h) * h
    BY <1>3, <1>5, <2>1 DEF Strip
  <2>3. Bytes(Now) = h * k * (e + 2 * h) * w
    BY <1>4, <2>1 DEF Bytes
  <2>4. PICK d \in Nat : d = e + 2 * h
    BY <2>1
  <2>5. c * (h * k * d * w) = (d * h) * (c * (k * w))
    OBVIOUS
  <2> QED BY <1>4, <2>2, <2>3, <2>4, <2>5
<1>7. a * (c * (k * w)) <= a * v /\ a * (c * (k * w)) \in Int /\ a * v \in Int
  <2>1. PICK z \in Int : z = c * (k * w) /\ z <= v
    BY <1>4
  <2> QED BY <2>1, TimesIsMonotone
<1>8. PICK F : F = Weights(lv)
  OBVIOUS
<1>9. /\ \A i \in 1 .. Len(halo) : F[i] \in Nat
      /\ F[pos] = v
  <2>1. \A i \in 1 .. Len(halo) : F[i] = Weight(halo[i], lv)
    BY <1>8 DEF Weights
  <2>2. \A i \in 1 .. Len(halo) : Weight(halo[i], lv) \in Nat
    BY <1>1, LevelsSuffice, WeightSuffices
  <2> QED BY <1>2, <1>4, <2>1, <2>2
<1>10. PICK s \in Nat, t \in Nat, u \in Nat :
         /\ s = SumOf(F, 1 .. pos - 1) /\ t = SumOf(F, 1 .. pos) /\ u = SumOf(F, 1 .. Len(halo))
         /\ t = s + v /\ t <= u
  <2>4. PICK n \in Nat : n = Len(halo)
    BY <1>2
  <2>1. PICK q \in 1 .. n : n = Len(halo) /\ q = pos
    BY <1>2, <2>4
  <2>2. \A i \in 1 .. n : F[i] \in Nat
    BY <1>9, <2>1
  <2>3. /\ SumOf(F, 1 .. q - 1) \in Nat /\ SumOf(F, 1 .. q) \in Nat /\ SumOf(F, 1 .. n) \in Nat
        /\ SumOf(F, 1 .. q) = SumOf(F, 1 .. q - 1) + F[q]
        /\ SumOf(F, 1 .. q) <= SumOf(F, 1 .. n)
    BY <2>2, SumsOf
  <2> QED BY <1>9, <2>1, <2>3
<1>11. curs <= a * s /\ size[axis] >= a * u
  BY <1>1, <1>5, <1>8, <1>10 DEF Packing
<1>12. a * t = a * s + a * v /\ a * s \in Int
  BY <1>10
<1>13. a * t <= a * u /\ a * t \in Int /\ a * u \in Int
  BY <1>10, TimesIsMonotone
<1>14. PICK b \in Int : b = CallsFor(Now) * Bytes(Now) /\ b <= a * v
  BY <1>6, <1>7
<1>15. a * v \in Int
  BY <1>7
<1>16. curs + b <= a * t /\ curs + b <= size[axis] /\ curs + b \in Int
  <2>1. PICK x \in Int, y \in Int, z \in Int, m \in Int : x = a * s /\ y = a * v /\ z = a * t /\ m = a * u
    BY <1>12, <1>13, <1>15
  <2>2. z = x + y /\ z <= m /\ b <= y /\ curs <= x /\ size[axis] >= m
    BY <1>11, <1>12, <1>13, <1>14, <2>1
  <2> QED BY <1>2, <1>14, <2>1, <2>2
<1>17. Strip(subgrid # 0) * SumOf(Weights(Levels), 1 .. pos) = a * t
  BY <1>1, <1>5, <1>8, <1>10
<1> QED BY <1>14, <1>16, <1>17

-----------------------------------------------------------------------------
(* The steps of a halo                                                       *)

LEMMA InitBuffersInv ==
  ASSUME BuffersInit
  PROVE  BuffersInv
<1>1. (CHOOSE z \in Stencils : TRUE) \in Stencils
  BY StencilsAssumption
<1>2. halo = <<>> /\ phase = "idle" /\ pos = 1 /\ axis = "y" /\ stencil \in Stencils
  BY <1>1 DEF BuffersInit
<1>3. HaloTypes
  <2>1. halo \in Seq({f \in UNION Menus : FieldOK(f)}) /\ Len(halo) = 0
    BY <1>2
  <2>2. n2 \in [Types -> Nat] /\ n3 \in [Types -> Nat] /\ n4.sum \in Nat /\ vdims \subseteq Int
    BY DEF BuffersInit, Zero
  <2>3. size \in [{"y", "x"} -> Int] /\ curs \in Int
    BY DEF BuffersInit
  <2> QED BY <1>2, <2>1, <2>2, <2>3 DEF HaloTypes
<1> QED BY <1>2, <1>3 DEF BuffersInv, Counting, Packing, NeverOverwrites

LEMMA BeginInv ==
  ASSUME BuffersInv, Begin
  PROVE  BuffersInv'
<1>1. /\ halo' \in Lists /\ stencil' \in Stencils /\ phase' = "count" /\ axis' = "y" /\ pos' = 1
      /\ n2' = Zero /\ n3' = Zero /\ n4' = [arrays |-> 0, sum |-> 0] /\ vdims' = {} /\ subgrid' = -1
      /\ size' = size /\ curs' = curs
  BY DEF Begin
<1>2. PICK k \in 1 .. MaxFields, m \in Menus : halo' \in [1 .. k -> m]
  BY <1>1 DEF Lists
<1>3. \A f \in m : f \in {g \in UNION Menus : FieldOK(g)}
  BY MenusAssumption DEF FieldOK
<1>4. halo' \in Seq({f \in UNION Menus : FieldOK(f)}) /\ Len(halo') = k
  <2>1. k \in Nat /\ k > 0
    BY PatchAssumption
  <2> QED BY <1>2, <1>3, <2>1
<1>5. n2' \in [Types -> Nat] /\ n3' \in [Types -> Nat] /\ n4'.sum \in Nat /\ vdims' \subseteq Int
  BY <1>1 DEF Zero
<1>6. HaloTypes'
  <2>1. pos' \in 1 .. Len(halo') + 1
    BY <1>1, <1>4
  <2>2. size \in [{"y", "x"} -> Int] /\ curs \in Int
    BY DEF BuffersInv, HaloTypes
  <2> QED BY <1>1, <1>4, <1>5, <2>1, <2>2 DEF HaloTypes
<1>7. Seen' = 0
  BY <1>1 DEF Seen
<1>8. \A lv \in Nat : Reserved(lv)' = 0
  <2>1. \A z \in Types : n2'[z] = 0 /\ n3'[z] = 0
    BY <1>1 DEF Zero
  <2>2. n4'.sum = 0 /\ {"real", "integer", "double"} = Types
    BY <1>1 DEF Types
  <2> QED BY <2>1, <2>2 DEF Reserved
<1>9. Counting'
  <2>1. \A lv \in Nat : SumOf(Weights(lv)', 1 .. 0) = 0
    <3>1. 1 .. 0 = {}
      OBVIOUS
    <3> QED BY <3>1, SumOfNone
  <2>2. \A lv \in Nat : Reserved(lv)' = SumOf(Weights(lv)', 1 .. Seen')
    BY <1>7, <1>8, <2>1
  <2>3. Highest'
    BY <1>1 DEF Highest
  <2>4. Len(halo') > 0
    BY <1>4
  <2> QED BY <1>1, <1>7, <2>2, <2>3, <2>4 DEF Counting
<1> QED BY <1>1, <1>6, <1>9 DEF BuffersInv, Packing, NeverOverwrites

\* Reserved, of the counts that go into it.
Bytes7(r3, q, r2, i3, i2, d3, d2, lv) ==
  4 * ((r3 + q) * lv + r2) + 4 * (i3 * lv + i2) + 8 * (d3 * lv + d2)

\* Counting a field reserves its weight.
LEMMA ReservedMore ==
  ASSUME HaloTypes, phase = "count", pos <= Len(halo), CountField, NEW lv \in Nat
  PROVE  Reserved(lv)' = Reserved(lv) + Weight(halo[pos], lv)
<1>1. PICK f : f = halo[pos] /\ FieldOK(f)
  BY DEF HaloTypes
<1>2. /\ n4' = IF f.dims = 4 THEN [arrays |-> n4.arrays + 1, sum |-> n4.sum + Tracers(f)] ELSE n4
      /\ n3' = IF f.dims = 3 THEN [n3 EXCEPT ![f.type] = @ + 1] ELSE n3
      /\ n2' = IF f.dims = 2 THEN [n2 EXCEPT ![f.type] = @ + 1] ELSE n2
  BY <1>1 DEF CountField, Now
<1>3. Types = {"real", "integer", "double"} /\ f.type \in Types
  BY <1>1 DEF Types, FieldOK
<1>4. PICK r3 \in Nat, q \in Nat, r2 \in Nat, i3 \in Nat, i2 \in Nat, d3 \in Nat, d2 \in Nat :
        /\ r3 = n3["real"] /\ i3 = n3["integer"] /\ d3 = n3["double"]
        /\ r2 = n2["real"] /\ i2 = n2["integer"] /\ d2 = n2["double"] /\ q = n4.sum
  BY <1>3 DEF HaloTypes
<1>5. WordSize["real"] = 4 /\ WordSize["integer"] = 4 /\ WordSize["double"] = 8
  BY DEF WordSize
<1>6. n2 \in [Types -> Nat] /\ n3 \in [Types -> Nat]
  BY DEF HaloTypes
<1>7. PICK all : all = Reserved(lv) /\ all = Bytes7(r3, q, r2, i3, i2, d3, d2, lv)
  BY <1>4 DEF Reserved, Bytes7
<1>12. /\ Bytes7(r3 + 1, q, r2, i3, i2, d3, d2, lv) = all + 4 * lv
       /\ Bytes7(r3, q, r2 + 1, i3, i2, d3, d2, lv) = all + 4
       /\ Bytes7(r3, q, r2, i3 + 1, i2, d3, d2, lv) = all + 4 * lv
       /\ Bytes7(r3, q, r2, i3, i2 + 1, d3, d2, lv) = all + 4
       /\ Bytes7(r3, q, r2, i3, i2, d3 + 1, d2, lv) = all + 8 * lv
       /\ Bytes7(r3, q, r2, i3, i2, d3, d2 + 1, lv) = all + 8
  <2>1. (r3 + q) * lv \in Nat /\ i3 * lv \in Nat /\ d3 * lv \in Nat
    OBVIOUS
  <2>2. PICK x \in Nat, y \in Nat, z \in Nat : x = (r3 + q) * lv /\ y = i3 * lv /\ z = d3 * lv
    BY <2>1
  <2>3. ((r3 + 1) + q) * lv = x + lv /\ (i3 + 1) * lv = y + lv /\ (d3 + 1) * lv = z + lv
    BY <2>2
  <2> QED BY <1>7, <2>2, <2>3 DEF Bytes7
<1>8. Reserved(lv)' = Bytes7(n3'["real"], n4'.sum, n2'["real"], n3'["integer"], n2'["integer"],
                             n3'["double"], n2'["double"], lv)
  BY DEF Reserved, Bytes7
<1>9. CASE f.dims = 2
  <2>1. n3' = n3 /\ n4' = n4 /\ Weight(f, lv) = WordSize[f.type]
    BY <1>2, <1>9 DEF Weight
  <2>2. \A z \in Types : n2'[z] = IF z = f.type THEN n2[z] + 1 ELSE n2[z]
    BY <1>2, <1>6, <1>9
  <2>3. CASE f.type = "real"
    <3>1. Reserved(lv)' = Bytes7(r3, q, r2 + 1, i3, i2, d3, d2, lv)
      BY <1>3, <1>4, <1>8, <2>1, <2>2, <2>3
    <3> QED BY <1>1, <1>5, <1>7, <1>12, <2>1, <2>3, <3>1
  <2>4. CASE f.type = "integer"
    <3>1. Reserved(lv)' = Bytes7(r3, q, r2, i3, i2 + 1, d3, d2, lv)
      BY <1>3, <1>4, <1>8, <2>1, <2>2, <2>4
    <3> QED BY <1>1, <1>5, <1>7, <1>12, <2>1, <2>4, <3>1
  <2>5. CASE f.type = "double"
    <3>1. Reserved(lv)' = Bytes7(r3, q, r2, i3, i2, d3, d2 + 1, lv)
      BY <1>3, <1>4, <1>8, <2>1, <2>2, <2>5
    <3> QED BY <1>1, <1>5, <1>7, <1>12, <2>1, <2>5, <3>1
  <2> QED BY <1>3, <2>3, <2>4, <2>5
<1>10. CASE f.dims = 3
  <2>1. n2' = n2 /\ n4' = n4 /\ Weight(f, lv) = WordSize[f.type] * lv
    BY <1>2, <1>10 DEF Weight
  <2>2. \A z \in Types : n3'[z] = IF z = f.type THEN n3[z] + 1 ELSE n3[z]
    BY <1>2, <1>6, <1>10
  <2>3. CASE f.type = "real"
    <3>1. Reserved(lv)' = Bytes7(r3 + 1, q, r2, i3, i2, d3, d2, lv)
      BY <1>3, <1>4, <1>8, <2>1, <2>2, <2>3
    <3> QED BY <1>1, <1>5, <1>7, <1>12, <2>1, <2>3, <3>1
  <2>4. CASE f.type = "integer"
    <3>1. Reserved(lv)' = Bytes7(r3, q, r2, i3 + 1, i2, d3, d2, lv)
      BY <1>3, <1>4, <1>8, <2>1, <2>2, <2>4
    <3> QED BY <1>1, <1>5, <1>7, <1>12, <2>1, <2>4, <3>1
  <2>5. CASE f.type = "double"
    <3>1. Reserved(lv)' = Bytes7(r3, q, r2, i3, i2, d3 + 1, d2, lv)
      BY <1>3, <1>4, <1>8, <2>1, <2>2, <2>5
    <3> QED BY <1>1, <1>5, <1>7, <1>12, <2>1, <2>5, <3>1
  <2> QED BY <1>3, <2>3, <2>4, <2>5
<1>11. CASE f.dims = 4
  <2>1. PICK k \in Nat : k = f.num * f.more
    <3>1. PICK a \in Nat, b \in Nat : a = f.num /\ b = f.more
      BY <1>1, <1>11 DEF FieldOK
    <3>2. a * b \in Nat
      OBVIOUS
    <3> QED BY <3>1, <3>2
  <2>2. n2' = n2 /\ n3' = n3 /\ n4'.sum = q + k /\ Weight(f, lv) = 4 * (k * lv)
    BY <1>2, <1>4, <1>11, <2>1 DEF Tracers, Weight
  <2>3. Reserved(lv)' = Bytes7(r3, q + k, r2, i3, i2, d3, d2, lv)
    BY <1>4, <1>8, <2>2
  <2>4. Bytes7(r3, q + k, r2, i3, i2, d3, d2, lv) = all + 4 * (k * lv)
    <3>1. (r3 + q) * lv \in Nat /\ i3 * lv \in Nat /\ d3 * lv \in Nat /\ k * lv \in Nat
      OBVIOUS
    <3>2. PICK x \in Nat, y \in Nat, z \in Nat, u \in Nat :
            x = (r3 + q) * lv /\ y = i3 * lv /\ z = d3 * lv /\ u = k * lv
      BY <3>1
    <3>3. (r3 + (q + k)) * lv = x + u
      BY <3>2
    <3> QED BY <1>7, <3>2, <3>3 DEF Bytes7
  <2> QED BY <1>1, <1>7, <2>2, <2>3, <2>4
<1> QED BY <1>1, <1>9, <1>10, <1>11 DEF FieldOK

LEMMA CountFieldInv ==
  ASSUME BuffersInv, CountField
  PROVE  BuffersInv'
<1>0. HaloTypes /\ Counting
  BY DEF BuffersInv
<1>1. /\ phase = "count" /\ pos <= Len(halo) /\ pos' = pos + 1 /\ phase' = phase /\ halo' = halo
      /\ stencil' = stencil /\ axis' = axis /\ size' = size /\ curs' = curs
      /\ subgrid' = IF subgrid = -1 THEN OfSub(halo[pos]) ELSE subgrid
      /\ vdims' = IF halo[pos].dims >= 3 THEN vdims \union {LastLevel(halo[pos])} ELSE vdims
  BY DEF CountField, Now, OfSub
<1>2. pos \in 1 .. Len(halo) /\ Len(halo) \in Nat /\ FieldOK(halo[pos])
      /\ \A i \in 1 .. Len(halo) : FieldOK(halo[i])
  BY <1>0, <1>1 DEF HaloTypes
<1>3. Seen = pos - 1 /\ Seen' = pos /\ pos - 1 \in Nat
  BY <1>1, <1>2 DEF Seen
<1>4. LastLevel(halo[pos]) \in Int
  BY <1>2, PatchAssumption DEF LastLevel, FieldOK
<1>5. HaloTypes'
  <2>1. n2' \in [Types -> Nat] /\ n3' \in [Types -> Nat] /\ n4'.sum \in Nat
    <3>1. halo[pos].type \in Types /\ (halo[pos].dims = 4 => Tracers(halo[pos]) \in Nat)
      <4>1. ASSUME halo[pos].dims = 4 PROVE Tracers(halo[pos]) \in Nat
        <5>1. PICK n \in Nat, m \in Nat : n = halo[pos].num /\ m = halo[pos].more
          BY <1>2, <4>1 DEF FieldOK
        <5>2. n * m \in Nat
          OBVIOUS
        <5> QED BY <5>1, <5>2 DEF Tracers
      <4> QED BY <1>2, <4>1 DEF FieldOK
    <3>2. n2 \in [Types -> Nat] /\ n3 \in [Types -> Nat] /\ n4.sum \in Nat
      BY <1>0 DEF HaloTypes
    <3>5. PICK z \in Types : z = halo[pos].type
      BY <3>1
    <3>6. [n2 EXCEPT ![z] = @ + 1] \in [Types -> Nat] /\ [n3 EXCEPT ![z] = @ + 1] \in [Types -> Nat]
      BY <3>2
    <3>7. /\ n2' = n2 \/ n2' = [n2 EXCEPT ![z] = @ + 1]
          /\ n3' = n3 \/ n3' = [n3 EXCEPT ![z] = @ + 1]
      BY <3>5 DEF CountField, Now
    <3>3. n2' \in [Types -> Nat] /\ n3' \in [Types -> Nat]
      BY <3>2, <3>6, <3>7
    <3>4. n4'.sum \in Nat
      BY <3>1, <3>2 DEF CountField, Now
    <3> QED BY <3>3, <3>4
  <2>2. vdims' \subseteq Int
    BY <1>0, <1>1, <1>4 DEF HaloTypes
  <2>3. pos' \in 1 .. Len(halo') + 1
    BY <1>1, <1>2
  <2> QED BY <1>0, <1>1, <2>1, <2>2, <2>3 DEF HaloTypes
<1>6. ASSUME NEW lv \in Nat PROVE Reserved(lv)' = SumOf(Weights(lv)', 1 .. Seen')
  <2>1. Reserved(lv)' = Reserved(lv) + Weight(halo[pos], lv)
    BY <1>0, <1>1, ReservedMore
  <2>2. Reserved(lv) = SumOf(Weights(lv), 1 .. pos - 1)
    BY <1>0, <1>1, <1>3 DEF Counting
  <2>3. PICK F : F = Weights(lv) /\ F = Weights(lv)'
    BY <1>1 DEF Weights
  <2>4. \A i \in 1 .. pos : F[i] \in Nat /\ F[i] = Weight(halo[i], lv)
    <3>1. ASSUME NEW i \in 1 .. pos PROVE F[i] \in Nat /\ F[i] = Weight(halo[i], lv)
      <4>1. i \in 1 .. Len(halo) /\ FieldOK(halo[i])
        BY <1>2
      <4>2. Weight(halo[i], lv) \in Nat
        BY <4>1, WeightIsNat
      <4> QED BY <2>3, <4>1, <4>2 DEF Weights
    <3> QED BY <3>1
  <2>5. PICK k \in Nat : k = pos
    BY <1>2
  <2>6. SumOf(F, 1 .. k) = SumOf(F, 1 .. k - 1) + F[k]
    <3>1. k \in 1 .. k /\ \A i \in 1 .. k : F[i] \in Nat
      BY <1>2, <2>4, <2>5
    <3> QED BY <3>1, SumsOf
  <2>7. pos \in 1 .. pos
    BY <1>2
  <2>8. F[k] = Weight(halo[pos], lv)
    BY <2>4, <2>5, <2>7
  <2>9. SumOf(F, 1 .. k - 1) = Reserved(lv) /\ SumOf(Weights(lv)', 1 .. Seen') = SumOf(F, 1 .. k)
    BY <1>3, <2>2, <2>3, <2>5
  <2> QED BY <2>1, <2>6, <2>8, <2>9
<1>7. Highest'
  <2>1. PICK top \in {1} \union vdims : \A y \in {1} \union vdims : y <= top
    BY <1>0, <1>1 DEF Counting, Highest
  <2>2. PICK l \in Int : l = LastLevel(halo[pos])
    BY <1>4
  <2>3. \A y \in {1} \union vdims : y \in Int
    BY <1>0 DEF HaloTypes
  <2>4. vdims' = vdims \/ vdims' = vdims \union {l}
    BY <1>1, <2>2
  <2>5. CASE vdims' = vdims
    BY <2>1, <2>5 DEF Highest
  <2>6. CASE vdims' = vdims \union {l} /\ l <= top
    BY <2>1, <2>6 DEF Highest
  <2>7. CASE vdims' = vdims \union {l} /\ ~(l <= top)
    <3>1. \A y \in {1} \union vdims' : y <= l
      BY <2>1, <2>3, <2>7
    <3> QED BY <2>7, <3>1 DEF Highest
  <2> QED BY <2>4, <2>5, <2>6, <2>7
<1>8. \A i \in 1 .. Seen' : halo'[i].dims >= 3 => LastLevel(halo'[i]) \in vdims'
  <2>1. \A i \in 1 .. pos - 1 : halo[i].dims >= 3 => LastLevel(halo[i]) \in vdims
    BY <1>0, <1>1, <1>3 DEF Counting
  <2>2. \A i \in 1 .. pos : i = pos \/ i \in 1 .. pos - 1
    BY <1>2
  <2> QED BY <1>1, <1>3, <2>1, <2>2
<1>9. subgrid' = OfSub(halo'[1]) /\ Seen' # 0
  <2>1. subgrid = IF pos - 1 = 0 THEN -1 ELSE OfSub(halo[1])
    BY <1>0, <1>1, <1>3 DEF Counting
  <2>2. OfSub(halo[1]) # -1
    BY DEF OfSub
  <2> QED BY <1>1, <1>2, <1>3, <2>1, <2>2
<1>10. Counting'
  BY <1>0, <1>1, <1>6, <1>7, <1>8, <1>9 DEF Counting
<1> QED BY <1>1, <1>5, <1>10 DEF BuffersInv, Packing, NeverOverwrites

\* What an action that moves on to another phase leaves behind.
LEMMA GiveUpInv ==
  ASSUME BuffersInv, GiveUp
  PROVE  BuffersInv'
<1>1. /\ phase' = "exit" /\ halo' = halo /\ stencil' = stencil /\ axis' = axis /\ pos' = pos
      /\ n2' = n2 /\ n3' = n3 /\ n4' = n4 /\ vdims' = vdims /\ size' = size /\ curs' = curs
  BY DEF GiveUp, counts
<1>2. HaloTypes'
  BY <1>1 DEF BuffersInv, HaloTypes
<1> QED BY <1>1, <1>2 DEF BuffersInv, Counting, Packing, NeverOverwrites

\* The counts stay, and all fields are seen.
LEMMA CountsStay ==
  ASSUME Counting, phase \in {"count", "init", "pack"}, phase' \in {"init", "pack"}, Seen = Len(halo),
         halo' = halo, n2' = n2, n3' = n3, n4' = n4, vdims' = vdims, subgrid' = subgrid
  PROVE  Counting'
<1>1. Seen' = Seen
  BY DEF Seen
<1>2. \A lv \in Nat : Reserved(lv)' = SumOf(Weights(lv)', 1 .. Seen')
  <2>1. \A lv \in Nat : Reserved(lv)' = Reserved(lv) /\ Weights(lv)' = Weights(lv)
    BY DEF Reserved, Weights
  <2>2. \A lv \in Nat : Reserved(lv) = SumOf(Weights(lv), 1 .. Seen)
    BY DEF Counting
  <2> QED BY <1>1, <2>1, <2>2
<1>3. Highest'
  BY DEF Counting, Highest
<1>4. \A i \in 1 .. Seen' : halo'[i].dims >= 3 => LastLevel(halo'[i]) \in vdims'
  BY <1>1 DEF Counting
<1> QED BY <1>1, <1>2, <1>3, <1>4 DEF Counting

LEMMA CountedInv ==
  ASSUME BuffersInv, Counted
  PROVE  BuffersInv'
<1>1. /\ phase' = "init" /\ halo' = halo /\ stencil' = stencil /\ axis' = axis /\ pos' = pos
      /\ n2' = n2 /\ n3' = n3 /\ n4' = n4 /\ vdims' = vdims /\ size' = size /\ curs' = curs
      /\ subgrid' = subgrid /\ phase = "count" /\ pos = Len(halo) + 1
  BY DEF Counted, counts
<1>2. HaloTypes'
  BY <1>1 DEF BuffersInv, HaloTypes
<1>3. Seen = Len(halo)
  BY <1>1 DEF Seen, BuffersInv, HaloTypes
<1>4. Counting'
  BY <1>1, <1>3, CountsStay DEF BuffersInv
<1> QED BY <1>1, <1>2, <1>4 DEF BuffersInv, Packing, NeverOverwrites

LEMMA InitExchInv ==
  ASSUME BuffersInv, InitExch
  PROVE  BuffersInv'
<1>0. HaloTypes /\ Counting
  BY DEF BuffersInv
<1>1. /\ phase = "init" /\ phase' = "pack" /\ halo' = halo /\ stencil' = stencil /\ axis' = axis
      /\ n2' = n2 /\ n3' = n3 /\ n4' = n4 /\ vdims' = vdims /\ subgrid' = subgrid
      /\ curs' = 0 /\ pos' = 1
      /\ size' = [size EXCEPT ![axis] = Grown(size[axis], BytesAsked)]
  BY DEF InitExch, counts
<1>2. PICK asked : asked = BytesAsked
  OBVIOUS
<1>3. asked \in Int
  BY <1>0, <1>1, <1>2, AskedIsInt
<1>4. size \in [{"y", "x"} -> Int] /\ axis \in {"y", "x"} /\ Len(halo) \in Nat
  BY <1>0 DEF HaloTypes
<1>5. size' \in [{"y", "x"} -> Int] /\ size'[axis] >= asked
  <2>1. PICK g \in Int : g = Grown(size[axis], asked) /\ g >= asked
    BY <1>3, <1>4 DEF Grown, Slack
  <2> QED BY <1>1, <1>2, <1>4, <2>1
<1>6. HaloTypes'
  <2>1. pos' \in 1 .. Len(halo') + 1 /\ curs' \in Int
    BY <1>1, <1>4
  <2> QED BY <1>0, <1>1, <1>5, <2>1 DEF HaloTypes
<1>7. Seen = Len(halo)
  BY <1>1 DEF Seen
<1>8. Counting'
  BY <1>0, <1>1, <1>7, CountsStay
<1>9. ASSUME ~Miscounted'
      PROVE  Packing'
  <2>1. ~Miscounted
    BY <1>1, <1>9 DEF Miscounted, MixesGrids, BeginsBelowOne, FirstLevel
  <2>2. asked = Strip(subgrid # 0) * SumOf(Weights(Levels), 1 .. Len(halo)) /\ Strip(subgrid # 0) \in Nat
    BY <1>0, <1>1, <1>2, <2>1, AskedIs
  <2>3. /\ Strip(subgrid # 0)' = Strip(subgrid # 0) /\ Levels' = Levels
        /\ Weights(Levels)' = Weights(Levels)
    BY <1>1 DEF Strip, Extent, Levels, Weights, shw
  <2>4. SumOf(Weights(Levels), 1 .. 1 - 1) = 0
    <3>1. 1 .. 1 - 1 = {}
      OBVIOUS
    <3> QED BY <3>1, SumOfNone
  <2>5. Strip(subgrid # 0)' * SumOf(Weights(Levels)', 1 .. Len(halo')) = asked
    BY <1>1, <2>2, <2>3
  <2>6. Strip(subgrid # 0)' * SumOf(Weights(Levels)', 1 .. pos' - 1) = 0
    BY <1>1, <2>2, <2>3, <2>4
  <2> QED BY <1>1, <1>5, <2>5, <2>6 DEF Packing
<1>10. Packing'
  BY <1>9 DEF Packing
<1> QED BY <1>1, <1>6, <1>8, <1>10 DEF BuffersInv, NeverOverwrites

LEMMA PackFieldInv ==
  ASSUME BuffersInv, PackField
  PROVE  BuffersInv'
<1>0. HaloTypes /\ Counting /\ Packing
  BY DEF BuffersInv
<1>1. /\ phase = "pack" /\ phase' = "pack" /\ halo' = halo /\ stencil' = stencil /\ axis' = axis
      /\ n2' = n2 /\ n3' = n3 /\ n4' = n4 /\ vdims' = vdims /\ subgrid' = subgrid /\ size' = size
      /\ curs' = curs + CallsFor(Now) * Bytes(Now) /\ pos' = pos + 1 /\ pos <= Len(halo)
  BY DEF PackField, counts
<1>2. pos \in 1 .. Len(halo) /\ Len(halo) \in Nat /\ curs \in Int
  BY <1>0, <1>1 DEF HaloTypes
<1>3. HaloTypes'
  <2>1. curs' \in Int
    BY <1>0, <1>1, <1>2, PackedIsInt
  <2>2. pos' \in 1 .. Len(halo') + 1
    BY <1>1, <1>2
  <2> QED BY <1>0, <1>1, <2>1, <2>2 DEF HaloTypes
<1>4. Seen = Len(halo)
  BY <1>1 DEF Seen
<1>5. Counting'
  BY <1>0, <1>1, <1>4, CountsStay
<1>6. ASSUME ~Miscounted'
      PROVE  Packing'
  <2>1. ~Miscounted
    BY <1>1, <1>6 DEF Miscounted, MixesGrids, BeginsBelowOne, FirstLevel
  <2>2. curs' <= Strip(subgrid # 0) * SumOf(Weights(Levels), 1 .. pos)
    BY <1>0, <1>1, <2>1, PackedIs
  <2>3. /\ Strip(subgrid # 0)' = Strip(subgrid # 0) /\ Levels' = Levels
        /\ Weights(Levels)' = Weights(Levels)
    BY <1>1 DEF Strip, Extent, Levels, Weights, shw
  <2>4. pos' - 1 = pos
    BY <1>1, <1>2
  <2>5. size[axis] >= Strip(subgrid # 0) * SumOf(Weights(Levels), 1 .. Len(halo))
    BY <1>0, <1>1, <2>1 DEF Packing
  <2>6. curs' <= Strip(subgrid # 0)' * SumOf(Weights(Levels)', 1 .. pos' - 1)
    BY <2>2, <2>3, <2>4
  <2>7. size'[axis'] >= Strip(subgrid # 0)' * SumOf(Weights(Levels)', 1 .. Len(halo'))
    BY <1>1, <2>3, <2>5
  <2> QED BY <2>6, <2>7 DEF Packing
<1>7. Packing'
  BY <1>6 DEF Packing
<1> QED BY <1>1, <1>3, <1>5, <1>7 DEF BuffersInv, NeverOverwrites

LEMMA OverwriteInv ==
  ASSUME BuffersInv, Overwrite
  PROVE  BuffersInv'
<1>0. HaloTypes /\ Counting /\ Packing
  BY DEF BuffersInv
<1>1. /\ phase = "pack" /\ phase' = "abort" /\ halo' = halo /\ stencil' = stencil /\ axis' = axis
      /\ n2' = n2 /\ n3' = n3 /\ n4' = n4 /\ vdims' = vdims /\ size' = size
      /\ curs' = curs /\ pos' = pos /\ pos <= Len(halo) /\ ~Fits(Now)
  BY DEF Overwrite, counts
<1>2. HaloTypes'
  BY <1>0, <1>1 DEF HaloTypes
<1>3. Miscounted
  <2>1. SUFFICES ASSUME ~Miscounted PROVE FALSE
    OBVIOUS
  <2>2. curs + CallsFor(Now) * Bytes(Now) <= size[axis]
    BY <1>0, <1>1, <2>1, PackedIs
  <2> QED BY <1>1, <2>2 DEF Fits
<1>4. Miscounted'
  BY <1>1, <1>3 DEF Miscounted, MixesGrids, BeginsBelowOne, FirstLevel
<1> QED BY <1>1, <1>2, <1>4 DEF BuffersInv, Counting, Packing, NeverOverwrites, Miscounted

LEMMA ExchInv ==
  ASSUME BuffersInv, ExchY \/ ExchX
  PROVE  BuffersInv'
<1>0. HaloTypes /\ Counting
  BY DEF BuffersInv
<1>1. /\ phase = "pack" /\ phase' \in {"init", "idle"} /\ halo' = halo /\ stencil' = stencil
      /\ axis' \in {"x", axis}
      /\ n2' = n2 /\ n3' = n3 /\ n4' = n4 /\ vdims' = vdims /\ subgrid' = subgrid
      /\ size' = size /\ curs' = 0 /\ pos' = pos
  BY DEF ExchY, ExchX, counts
<1>2. HaloTypes'
  BY <1>0, <1>1 DEF HaloTypes
<1>3. Seen = Len(halo)
  BY <1>1 DEF Seen
<1>4. phase' = "init" => Counting'
  BY <1>0, <1>1, <1>3, CountsStay
<1>5. Counting'
  BY <1>1, <1>4 DEF Counting
<1> QED BY <1>1, <1>2, <1>5 DEF BuffersInv, Packing, NeverOverwrites

LEMMA BufferStutters ==
  ASSUME BuffersInv, UNCHANGED bufferVars
  PROVE  BuffersInv'
<1>1. /\ phase' = phase /\ halo' = halo /\ stencil' = stencil /\ axis' = axis
      /\ n2' = n2 /\ n3' = n3 /\ n4' = n4 /\ vdims' = vdims /\ subgrid' = subgrid
      /\ size' = size /\ curs' = curs /\ pos' = pos
  BY DEF bufferVars
<1>2. HaloTypes' /\ NeverOverwrites'
  BY <1>1 DEF BuffersInv, HaloTypes, NeverOverwrites, MixesGrids, BeginsBelowOne, FirstLevel
<1>3. \A lv : Reserved(lv)' = Reserved(lv) /\ Weights(lv)' = Weights(lv)
  BY <1>1 DEF Reserved, Weights
<1>4. Seen' = Seen /\ Highest' = Highest
  BY <1>1 DEF Seen, Highest
<1>5. Counting'
  BY <1>1, <1>3, <1>4 DEF BuffersInv, Counting
<1>6. Levels' = Levels /\ Strip(subgrid # 0)' = Strip(subgrid # 0)
  BY <1>1 DEF Levels, Strip, Extent, shw
<1>7. Packing'
  BY <1>1, <1>3, <1>6 DEF BuffersInv, Packing, Miscounted, MixesGrids, BeginsBelowOne, FirstLevel
<1> QED BY <1>2, <1>5, <1>7 DEF BuffersInv

\* What was counted for a halo suffices for what is packed: fields of any types
\* and any number of levels from the first or a later one on, all on the subgrid
\* or all off it, never make RSL_LITE_PACK abort the model.
THEOREM BuffersSuffice == BuffersSpec => []NeverOverwrites
<1>1. BuffersInit => BuffersInv
  BY InitBuffersInv
<1>2. BuffersInv /\ [BuffersNext]_bufferVars => BuffersInv'
  BY BeginInv, CountFieldInv, GiveUpInv, CountedInv, InitExchInv, PackFieldInv, OverwriteInv,
     ExchInv, BufferStutters DEF BuffersNext
<1>3. BuffersInv => NeverOverwrites
  BY DEF BuffersInv
<1> QED BY <1>1, <1>2, <1>3, PTL DEF BuffersSpec

(***************************************************************************)
(* FieldCache: sequences put together, by FlattenSeq                       *)
(***************************************************************************)
-----------------------------------------------------------------------------
(* What came in                                                              *)

NameRows == [i \in 1 .. Len(obuf) |-> IF Comes(i) THEN <<obuf[i].name>> ELSE <<>>]
ByteRows(a) == [i \in 1 .. Len(obuf) |-> IF obuf[i].name = a THEN BytesOf(i) ELSE <<>>]

LEMMA PieceIs ==
  ASSUME obuf \in Seq(Piece), NEW i \in 1 .. Len(obuf)
  PROVE  /\ obuf[i].name \in Names /\ obuf[i].size \in Nat \ {0}
         /\ BytesOf(i) \in Seq(Nat) /\ Len(BytesOf(i)) = obuf[i].size
<1>1. obuf[i] \in Piece
  OBVIOUS
<1>2. obuf[i].name \in Names /\ obuf[i].size \in 1 .. MaxSize
  BY <1>1 DEF Piece
<1>3. PICK n \in Nat \ {0} : n = obuf[i].size
  BY <1>2, PiecesAssumption
<1>4. BytesOf(i) = [j \in 1 .. n |-> i]
  BY <1>3 DEF BytesOf
<1>5. i \in Nat
  OBVIOUS
<1>6. [j \in 1 .. n |-> i] \in Seq(Nat) /\ Len([j \in 1 .. n |-> i]) = n
  BY <1>5
<1> QED BY <1>2, <1>3, <1>4, <1>6

LEMMA OrderIsColumn ==
  ASSUME obuf \in Seq(Piece)
  PROVE  /\ \A i \in 1 .. Len(obuf) : NameRows[i] \in Seq(Names)
         /\ \A n \in 0 .. Len(obuf) : Order(n) = Column(NameRows, n) /\ Order(n) \in Seq(Names)
<1>1. ASSUME NEW i \in 1 .. Len(obuf) PROVE NameRows[i] \in Seq(Names)
  <2>1. <<obuf[i].name>> \in Seq(Names) /\ <<>> \in Seq(Names)
    BY PieceIs
  <2> QED BY <2>1 DEF NameRows
<1>2. Len(obuf) \in Nat
  OBVIOUS
<1>3. \A n \in 0 .. Len(obuf) : Column(NameRows, n) \in Seq(Names)
  BY <1>1, <1>2, ColumnType
<1>4. ASSUME NEW n \in 0 .. Len(obuf) PROVE Order(n) = Column(NameRows, n)
  <2>1. [i \in 1 .. n |-> IF Comes(i) THEN <<obuf[i].name>> ELSE <<>>]
          = [i \in 1 .. n |-> NameRows[i]]
    BY <1>2 DEF NameRows
  <2> QED BY <2>1 DEF Order, Column
<1> QED BY <1>1, <1>3, <1>4

LEMMA BytesAreColumn ==
  ASSUME obuf \in Seq(Piece), NEW a
  PROVE  /\ \A i \in 1 .. Len(obuf) : ByteRows(a)[i] \in Seq(Nat)
         /\ \A n \in 0 .. Len(obuf) : /\ BytesUnder(a, n) = Column(ByteRows(a), n)
                                      /\ BytesUnder(a, n) \in Seq(Nat)
<1>1. ASSUME NEW i \in 1 .. Len(obuf) PROVE ByteRows(a)[i] \in Seq(Nat)
  <2>1. BytesOf(i) \in Seq(Nat) /\ <<>> \in Seq(Nat)
    BY PieceIs
  <2> QED BY <2>1 DEF ByteRows
<1>2. Len(obuf) \in Nat
  OBVIOUS
<1>3. PICK R : R = ByteRows(a)
  OBVIOUS
<1>5. \A n \in 0 .. Len(obuf) : Column(R, n) \in Seq(Nat)
  BY <1>1, <1>2, <1>3, ColumnType
<1>4. ASSUME NEW n \in 0 .. Len(obuf) PROVE BytesUnder(a, n) = Column(R, n)
  <2>1. [i \in 1 .. n |-> IF obuf[i].name = a THEN BytesOf(i) ELSE <<>>]
          = [i \in 1 .. n |-> R[i]]
    BY <1>2, <1>3 DEF ByteRows
  <2> QED BY <2>1 DEF BytesUnder, Column
<1> QED BY <1>1, <1>3, <1>4, <1>5

LEMMA OrderNext ==
  ASSUME obuf \in Seq(Piece)
  PROVE  /\ Order(0) = <<>>
         /\ \A n \in 0 .. Len(obuf) - 1 :
              Order(n + 1) = IF Comes(n + 1) THEN Append(Order(n), obuf[n + 1].name) ELSE Order(n)
<1>1. Order(0) = <<>>
  BY OrderIsColumn, ColumnNone
<1>2. ASSUME NEW n \in 0 .. Len(obuf) - 1
      PROVE  Order(n + 1) = IF Comes(n + 1) THEN Append(Order(n), obuf[n + 1].name) ELSE Order(n)
  <2>1. n \in Nat /\ n \in 0 .. Len(obuf) /\ n + 1 \in 0 .. Len(obuf) /\ n + 1 \in 1 .. Len(obuf)
    OBVIOUS
  <2>2. PICK R : R = NameRows
    OBVIOUS
  <2>3. Column(R, n + 1) = Column(R, n) \o R[n + 1]
    <3>1. \A i \in 1 .. n + 1 : R[i] \in Seq(Names)
      BY <2>1, <2>2, OrderIsColumn
    <3>2. Column(R, n) \in Seq(Names)
      BY <2>1, <2>2, OrderIsColumn
    <3> QED BY <2>1, <3>1, <3>2, ColumnNext
  <2>4. Order(n) = Column(R, n) /\ Order(n + 1) = Column(R, n + 1) /\ Order(n) \in Seq(Names)
    BY <2>1, <2>2, OrderIsColumn
  <2>5. R[n + 1] = IF Comes(n + 1) THEN <<obuf[n + 1].name>> ELSE <<>>
    BY <2>1, <2>2 DEF NameRows
  <2>6. PICK s \in Seq(Names) : s = Order(n)
    BY <2>4
  <2>7. obuf[n + 1].name \in Names
    BY <2>1, PieceIs
  <2>8. s \o <<obuf[n + 1].name>> = Append(s, obuf[n + 1].name) /\ s \o <<>> = s
    BY <2>7
  <2> QED BY <2>3, <2>4, <2>5, <2>6, <2>8
<1> QED BY <1>1, <1>2

LEMMA BytesNext ==
  ASSUME obuf \in Seq(Piece), NEW a
  PROVE  /\ BytesUnder(a, 0) = <<>>
         /\ \A n \in 0 .. Len(obuf) - 1 :
              BytesUnder(a, n + 1) = IF obuf[n + 1].name = a THEN BytesUnder(a, n) \o BytesOf(n + 1)
                                     ELSE BytesUnder(a, n)
<1>1. BytesUnder(a, 0) = <<>>
  <2>1. 0 \in 0 .. Len(obuf)
    OBVIOUS
  <2> QED BY <2>1, BytesAreColumn, ColumnNone
<1>2. ASSUME NEW n \in 0 .. Len(obuf) - 1
      PROVE  BytesUnder(a, n + 1) = IF obuf[n + 1].name = a THEN BytesUnder(a, n) \o BytesOf(n + 1)
                                    ELSE BytesUnder(a, n)
  <2>1. n \in Nat /\ n \in 0 .. Len(obuf) /\ n + 1 \in 0 .. Len(obuf) /\ n + 1 \in 1 .. Len(obuf)
    OBVIOUS
  <2>2. PICK R : R = ByteRows(a)
    OBVIOUS
  <2>3. Column(R, n + 1) = Column(R, n) \o R[n + 1]
    <3>1. \A i \in 1 .. n + 1 : R[i] \in Seq(Nat)
      BY <2>1, <2>2, BytesAreColumn
    <3>2. Column(R, n) \in Seq(Nat)
      BY <2>1, <2>2, BytesAreColumn
    <3> QED BY <2>1, <3>1, <3>2, ColumnNext
  <2>4. /\ BytesUnder(a, n) = Column(R, n) /\ BytesUnder(a, n + 1) = Column(R, n + 1)
        /\ BytesUnder(a, n) \in Seq(Nat)
    BY <2>1, <2>2, BytesAreColumn
  <2>5. R[n + 1] = IF obuf[n + 1].name = a THEN BytesOf(n + 1) ELSE <<>>
    BY <2>1, <2>2 DEF ByteRows
  <2>6. PICK s \in Seq(Nat) : s = BytesUnder(a, n)
    BY <2>4
  <2>7. s \o <<>> = s
    OBVIOUS
  <2> QED BY <2>3, <2>4, <2>5, <2>6, <2>7
<1> QED BY <1>1, <1>2

\* The names are those of the pieces, each once.
Once(n) ==
  /\ \A k, l \in 1 .. Len(Order(n)) : Order(n)[k] = Order(n)[l] => k = l
  /\ \A i \in 1 .. n : \E k \in 1 .. Len(Order(n)) : Order(n)[k] = obuf[i].name
  /\ \A k \in 1 .. Len(Order(n)) : \E i \in 1 .. n : Order(n)[k] = obuf[i].name

LEMMA OrderIsOnce ==
  ASSUME obuf \in Seq(Piece)
  PROVE  \A n \in 0 .. Len(obuf) : Once(n)
<1> DEFINE P == {n \in Nat : Once(n)}
<1>1. 0 \in P
  BY OrderNext DEF Once
<1>2. ASSUME NEW n \in 0 .. Len(obuf) - 1, n \in P PROVE n + 1 \in P
  <2>1. PICK s \in Seq(Names) : s = Order(n)
    BY OrderIsColumn
  <2>2. PICK a \in Names : a = obuf[n + 1].name
    BY PieceIs
  <2>3. PICK t : t = Order(n + 1) /\ t = IF Comes(n + 1) THEN Append(s, a) ELSE s
    BY <2>1, <2>2, OrderNext
  <2>4. /\ \A k, l \in 1 .. Len(s) : s[k] = s[l] => k = l
        /\ \A i \in 1 .. n : \E k \in 1 .. Len(s) : s[k] = obuf[i].name
        /\ \A k \in 1 .. Len(s) : \E i \in 1 .. n : s[k] = obuf[i].name
    BY <1>2, <2>1 DEF Once
  <2>5. Comes(n + 1) <=> \A i \in 1 .. n : obuf[i].name # a
    BY <2>2 DEF Comes
  <2>6. CASE Comes(n + 1)
    <3>1. t = Append(s, a) /\ Len(t) = Len(s) + 1 /\ t[Len(t)] = a /\ Len(s) \in Nat
          /\ \A k \in 1 .. Len(s) : t[k] = s[k]
      BY <2>3, <2>6, SMTT(30)
    <3>2. ASSUME NEW k \in 1 .. Len(s) PROVE s[k] # a
      <4>1. PICK i \in 1 .. n : s[k] = obuf[i].name
        BY <2>4
      <4>2. obuf[i].name # a
        BY <2>5, <2>6
      <4> QED BY <4>1, <4>2
    <3>3. \A k \in 1 .. Len(t) : k = Len(t) \/ k \in 1 .. Len(s)
      BY <3>1
    <3>4. \A k, l \in 1 .. Len(t) : t[k] = t[l] => k = l
      BY <2>4, <3>1, <3>2, <3>3
    <3>5. \A i \in 1 .. n + 1 : \E k \in 1 .. Len(t) : t[k] = obuf[i].name
      <4> SUFFICES ASSUME NEW i \in 1 .. n + 1 PROVE \E k \in 1 .. Len(t) : t[k] = obuf[i].name
        OBVIOUS
      <4>1. CASE i = n + 1
        BY <2>2, <3>1, <4>1
      <4>2. CASE i \in 1 .. n
        <5>1. PICK k \in 1 .. Len(s) : s[k] = obuf[i].name
          BY <2>4, <4>2
        <5> QED BY <3>1, <5>1
      <4> QED BY <4>1, <4>2
    <3>6. \A k \in 1 .. Len(t) : \E i \in 1 .. n + 1 : t[k] = obuf[i].name
      <4> SUFFICES ASSUME NEW k \in 1 .. Len(t) PROVE \E i \in 1 .. n + 1 : t[k] = obuf[i].name
        OBVIOUS
      <4>1. CASE k = Len(t)
        BY <2>2, <3>1, <4>1
      <4>2. CASE k \in 1 .. Len(s)
        <5>1. PICK i \in 1 .. n : s[k] = obuf[i].name
          BY <2>4, <4>2
        <5> QED BY <3>1, <4>2, <5>1
      <4> QED BY <3>3, <4>1, <4>2
    <3> QED BY <2>3, <3>4, <3>5, <3>6 DEF Once
  <2>7. CASE ~Comes(n + 1)
    <3>1. t = s
      BY <2>3, <2>7
    <3>2. \A i \in 1 .. n + 1 : \E k \in 1 .. Len(s) : s[k] = obuf[i].name
      <4> SUFFICES ASSUME NEW i \in 1 .. n + 1 PROVE \E k \in 1 .. Len(s) : s[k] = obuf[i].name
        OBVIOUS
      <4>1. PICK j \in 1 .. n : obuf[j].name = obuf[i].name
        BY <2>2, <2>5, <2>7
      <4> QED BY <2>4, <4>1
    <3> QED BY <2>3, <2>4, <3>1, <3>2 DEF Once
  <2> QED BY <2>6, <2>7
<1> HIDE DEF P
<1>3. \A n \in 0 .. Len(obuf) : n \in P
  <2>1. Len(obuf) \in Nat
    OBVIOUS
  <2> QED BY <1>1, <1>2, <2>1, UpTo
<1> QED BY <1>3 DEF P

\* The bytes under a name grow, to no more than all bytes.
LEMMA BytesGrow ==
  ASSUME obuf \in Seq(Piece), NEW a
  PROVE  \A k, n \in 0 .. Len(obuf) : k <= n => Len(BytesUnder(a, k)) <= Len(BytesUnder(a, n))
<1> SUFFICES ASSUME NEW k \in 0 .. Len(obuf)
             PROVE  \A n \in 0 .. Len(obuf) : k <= n => Len(BytesUnder(a, k)) <= Len(BytesUnder(a, n))
  OBVIOUS
<1>1. \A n \in 0 .. Len(obuf) : BytesUnder(a, n) \in Seq(Nat) /\ Len(BytesUnder(a, n)) \in Nat
  <2>1. \A n \in 0 .. Len(obuf) : BytesUnder(a, n) \in Seq(Nat)
    BY BytesAreColumn
  <2>2. \A s \in Seq(Nat) : Len(s) \in Nat
    OBVIOUS
  <2> QED BY <2>1, <2>2
<1> DEFINE P == {n \in Nat : k <= n => Len(BytesUnder(a, k)) <= Len(BytesUnder(a, n))}
<1>2. 0 \in P
  BY <1>1
<1>3. ASSUME NEW n \in 0 .. Len(obuf) - 1, n \in P PROVE n + 1 \in P
  <2>1. n \in 0 .. Len(obuf) /\ n + 1 \in 0 .. Len(obuf) /\ n + 1 \in 1 .. Len(obuf)
    OBVIOUS
  <2>2. BytesUnder(a, n + 1) \in {BytesUnder(a, n) \o BytesOf(n + 1), BytesUnder(a, n)}
    BY BytesNext
  <2>3. PICK s \in Seq(Nat), t \in Seq(Nat) : s = BytesUnder(a, n) /\ t = BytesOf(n + 1)
    BY <1>1, <2>1, PieceIs
  <2>4. Len(s \o t) = Len(s) + Len(t) /\ Len(s) \in Nat /\ Len(t) \in Nat
    OBVIOUS
  <2>5. Len(BytesUnder(a, n)) <= Len(BytesUnder(a, n + 1))
    BY <2>2, <2>3, <2>4
  <2>6. Len(BytesUnder(a, n)) \in Nat /\ Len(BytesUnder(a, n + 1)) \in Nat /\ Len(BytesUnder(a, k)) \in Nat
    BY <1>1, <2>1
  <2>7. k = n + 1 \/ k <= n \/ ~(k <= n + 1)
    OBVIOUS
  <2> QED BY <1>3, <2>5, <2>6, <2>7
<1> HIDE DEF P
<1>4. Len(obuf) \in Nat
  OBVIOUS
<1>5. \A n \in 0 .. Len(obuf) : n \in P
  BY <1>2, <1>3, <1>4, UpTo
<1> QED BY <1>5 DEF P

Sizes == [i \in 1 .. Len(obuf) |-> obuf[i].size]

LEMMA TotalIs ==
  TotalSize = SumOf(Sizes, 1 .. Len(obuf))
<1>1. \A T \in SUBSET (1 .. Len(obuf)) : T # {} => (CHOOSE i \in T : TRUE) \in 1 .. Len(obuf)
  OBVIOUS
<1> QED BY <1>1, ZenonT(40) DEF TotalSize, Sizes, SumOf, MapThenSumSet, MapThenFoldSet

LEMMA BytesAreBounded ==
  ASSUME obuf \in Seq(Piece), NEW a
  PROVE  /\ TotalSize \in Nat
         /\ Len(BytesUnder(a, Len(obuf))) <= TotalSize
<1>0. Len(obuf) \in Nat
  OBVIOUS
<1>1. PICK F : F = Sizes
  OBVIOUS
<1>2. \A i \in 1 .. Len(obuf) : F[i] = obuf[i].size /\ F[i] \in Nat
  BY <1>1, PieceIs DEF Sizes
<1>3. ASSUME NEW n \in 0 .. Len(obuf)
      PROVE  /\ IsFiniteSet(1 .. n) /\ SumOf(F, 1 .. n) \in Nat
             /\ n > 0 => SumOf(F, 1 .. n) = F[n] + SumOf(F, 1 .. n - 1)
  <2>1. IsFiniteSet(1 .. n) /\ \A i \in 1 .. n : F[i] \in Nat /\ F[i] \in Int
    <3>1. n \in Int /\ 1 \in Int /\ \A i \in 1 .. n : i \in 1 .. Len(obuf)
      BY <1>0
    <3>2. IsFiniteSet(1 .. n)
      BY <3>1, FS_Interval
    <3> QED BY <1>2, <3>1, <3>2
  <2>2. SumOf(F, 1 .. n) \in Nat
    BY <2>1, SumOfNats
  <2>3. ASSUME n > 0 PROVE SumOf(F, 1 .. n) = F[n] + SumOf(F, 1 .. n - 1)
    <3>1. n \in 1 .. n /\ (1 .. n) \ {n} = 1 .. n - 1
      BY <2>3
    <3>2. SumOf(F, 1 .. n) = F[n] + SumOf(F, (1 .. n) \ {n})
      BY <2>1, <3>1, SumOfRemove
    <3> QED BY <3>1, <3>2
  <2> QED BY <2>1, <2>2, <2>3
<1>4. TotalSize = SumOf(F, 1 .. Len(obuf))
  BY <1>1, TotalIs
<1> DEFINE P == {n \in Nat : Len(BytesUnder(a, n)) <= SumOf(F, 1 .. n)}
<1>5. 0 \in P
  <2>1. SumOf(F, 1 .. 0) \in Nat /\ Len(<<>>) = 0
    BY <1>0, <1>3
  <2> QED BY <2>1, BytesNext
<1>6. ASSUME NEW n \in 0 .. Len(obuf) - 1, n \in P PROVE n + 1 \in P
  <2>1. n \in 0 .. Len(obuf) /\ n + 1 \in 0 .. Len(obuf) /\ n + 1 \in 1 .. Len(obuf) /\ (n + 1) - 1 = n /\ n + 1 > 0
    OBVIOUS
  <2>2. BytesUnder(a, n + 1) \in {BytesUnder(a, n) \o BytesOf(n + 1), BytesUnder(a, n)}
    BY BytesNext
  <2>3. PICK s \in Seq(Nat), t \in Seq(Nat) : s = BytesUnder(a, n) /\ t = BytesOf(n + 1) /\ Len(t) = F[n + 1]
    BY <1>2, <2>1, PieceIs, BytesAreColumn
  <2>4. Len(s \o t) = Len(s) + Len(t) /\ Len(s) \in Nat /\ Len(t) \in Nat
    OBVIOUS
  <2>5. Len(BytesUnder(a, n + 1)) <= Len(BytesUnder(a, n)) + F[n + 1]
    BY <2>2, <2>3, <2>4
  <2>6. SumOf(F, 1 .. n + 1) = F[n + 1] + SumOf(F, 1 .. n) /\ SumOf(F, 1 .. n) \in Nat
    BY <1>3, <2>1
  <2>7. Len(BytesUnder(a, n)) \in Nat /\ Len(BytesUnder(a, n + 1)) \in Nat /\ F[n + 1] \in Nat
    BY <1>2, <2>1, BytesAreColumn
  <2> QED BY <1>6, <2>5, <2>6, <2>7
<1> HIDE DEF P
<1>7. Len(obuf) \in P
  <2>1. \A n \in 0 .. Len(obuf) : n \in P
    BY <1>0, <1>5, <1>6, UpTo
  <2> QED BY <1>0, <2>1
<1> QED BY <1>0, <1>3, <1>4, <1>7 DEF P

LEMMA NothingUnder ==
  ASSUME obuf \in Seq(Piece), NEW n \in 0 .. Len(obuf), NEW a, \A i \in 1 .. n : obuf[i].name # a
  PROVE  BytesUnder(a, n) = <<>>
<1> DEFINE P == {k \in Nat : k <= n => BytesUnder(a, k) = <<>>}
<1>1. 0 \in P
  BY BytesNext
<1>2. ASSUME NEW k \in 0 .. n - 1, k \in P PROVE k + 1 \in P
  <2>1. k + 1 \in 1 .. n /\ k \in 0 .. Len(obuf) - 1 /\ k <= n /\ k + 1 \in Nat
    OBVIOUS
  <2>2. obuf[k + 1].name # a
    BY <2>1
  <2>3. BytesUnder(a, k + 1) = BytesUnder(a, k)
    BY <2>1, <2>2, BytesNext
  <2> QED BY <1>2, <2>1, <2>3
<1> HIDE DEF P
<1>3. n \in Nat /\ n <= n /\ n \in 0 .. n
  OBVIOUS
<1>4. n \in P
  BY <1>1, <1>2, <1>3, UpTo
<1> QED BY <1>3, <1>4 DEF P

-----------------------------------------------------------------------------
(* The invariant of the cache                                                *)

\* A slot has the size of the bytes among the first i pieces under its name,
\* and holds those among the first j.
Holds(s, a, i, j) ==
  /\ s.name = a /\ s.bufsize = Len(BytesUnder(a, i)) /\ s.curs = Len(BytesUnder(a, j))
  /\ s.cache = IF BytesUnder(a, j) = <<>> THEN NULL ELSE BytesUnder(a, j)
InUse(i, j) ==
  /\ numflds = Len(Order(i))
  /\ \A k \in 1 .. numflds : Holds(slots[k], Order(i)[k], i, j)

Slot == [name : Names \cup {""}, bufsize : Nat, cache : Seq(Nat) \cup {NULL}, curs : Nat]
CacheTypes ==
  /\ slots \in [1 .. MAX_FLDS -> Slot]
  /\ numflds \in 0 .. MAX_FLDS /\ fld \in Nat
  /\ obuf \in Seq(Piece) /\ icurs \in 0 .. Len(obuf)
  /\ pass \in {"idle", "size", "overrun", "store", "retrieve"}

CacheInv ==
  /\ CacheTypes
  /\ \A k \in numflds + 1 .. MAX_FLDS : slots[k].cache = NULL
  /\ pass = "size" => /\ InUse(icurs, 0) /\ got = <<>>
                      /\ \A k \in numflds + 1 .. MAX_FLDS : slots[k].curs = 0
  /\ pass = "overrun" => got = <<>>
  /\ pass = "store" => InUse(Len(obuf), icurs) /\ got = <<>>
  /\ pass = "retrieve" =>
       /\ fld <= numflds /\ numflds = Len(Order(Len(obuf)))
       /\ \A k \in fld + 1 .. numflds :
            Holds(slots[k], Order(Len(obuf))[k], Len(obuf), Len(obuf))
       /\ \A k \in 1 .. fld : slots[k].cache = NULL
       /\ got \in Seq([name : Names, bytes : Seq(Nat)]) /\ Len(got) = fld
       /\ \A k \in 1 .. fld : got[k] = Sorted[k]
  /\ pass = "idle" => numflds = 0 /\ got = Sorted

LEMMA SortedIs ==
  ASSUME obuf \in Seq(Piece)
  PROVE  /\ Len(Sorted) = Len(Order(Len(obuf))) /\ Len(Sorted) \in Nat
         /\ Sorted \in Seq([name : Names, bytes : Seq(Nat)])
         /\ \A k \in 1 .. Len(Sorted) :
              /\ Order(Len(obuf))[k] \in Names
              /\ BytesUnder(Order(Len(obuf))[k], Len(obuf)) \in Seq(Nat)
              /\ Sorted[k] = [name |-> Order(Len(obuf))[k],
                              bytes |-> BytesUnder(Order(Len(obuf))[k], Len(obuf))]
<1>0. Len(obuf) \in 0 .. Len(obuf)
  OBVIOUS
<1>1. PICK s \in Seq(Names) : s = Order(Len(obuf))
  BY <1>0, OrderIsColumn
<1>2. \A k \in 1 .. Len(s) : s[k] \in Names /\ BytesUnder(s[k], Len(obuf)) \in Seq(Nat)
  <2>1. \A k \in 1 .. Len(s) : s[k] \in Names
    OBVIOUS
  <2>2. \A a : BytesUnder(a, Len(obuf)) \in Seq(Nat)
    BY <1>0, BytesAreColumn
  <2> QED BY <2>1, <2>2
<1>3. Sorted = [k \in 1 .. Len(s) |-> [name |-> s[k], bytes |-> BytesUnder(s[k], Len(obuf))]]
  BY <1>1 DEF Sorted
<1>4. Len(s) \in Nat
  OBVIOUS
<1>5. \A k \in 1 .. Len(s) : [name |-> s[k], bytes |-> BytesUnder(s[k], Len(obuf))]
                               \in [name : Names, bytes : Seq(Nat)]
  BY <1>2
<1>6. Len(Sorted) = Len(s) /\ Sorted \in Seq([name : Names, bytes : Seq(Nat)])
  BY <1>3, <1>4, <1>5
<1> QED BY <1>1, <1>2, <1>3, <1>4, <1>6

LEMMA InitCacheInv ==
  ASSUME CacheInit
  PROVE  CacheInv
<1>1. obuf = <<>> /\ obuf \in Seq(Piece) /\ Len(obuf) = 0
  BY DEF CacheInit
<1>2. CacheTypes
  <2>1. Free \in Slot
    BY DEF Free, Slot
  <2> QED BY <1>1, <2>1, SlotsAssumption DEF CacheInit, CacheTypes
<1>3. got = Sorted
  <2>1. Order(0) = <<>>
    BY <1>1, OrderNext
  <2>2. Sorted = [k \in 1 .. 0 |-> [name |-> Order(0)[k], bytes |-> BytesUnder(Order(0)[k], 0)]]
    BY <1>1, <2>1 DEF Sorted
  <2>3. Sorted = <<>>
    BY <2>2
  <2> QED BY <2>3 DEF CacheInit
<1>4. pass = "idle" /\ numflds = 0 /\ \A k \in 1 .. MAX_FLDS : slots[k].cache = NULL
  BY DEF CacheInit, Free
<1> QED BY <1>2, <1>3, <1>4 DEF CacheInv

LEMMA ReceiveInv ==
  ASSUME CacheInv, Receive
  PROVE  CacheInv'
<1>1. obuf' \in Seq(Piece)
  <2>1. PICK n \in 0 .. MaxPieces : obuf' \in [1 .. n -> Piece]
    BY DEF Receive, BoundedSeq, SeqOf
  <2>2. n \in Nat
    BY PiecesAssumption
  <2> QED BY <2>1, <2>2
<1>2. Free \in Slot
  BY DEF Free, Slot
<1>3. /\ slots' = [i \in 1 .. MAX_FLDS |-> Free] /\ numflds' = 0 /\ pass' = "size" /\ icurs' = 0
      /\ got' = <<>> /\ fld' = fld
  BY DEF Receive
<1>4. CacheTypes'
  BY <1>1, <1>2, <1>3, SlotsAssumption DEF CacheTypes, CacheInv
<1>5. Order(0)' = <<>>
  <2>1. (obuf \in Seq(Piece) => Order(0) = <<>>)'
    BY OrderNext, PTL
  <2> QED BY <1>1, <2>1
<1>6. InUse(icurs, 0)'
  BY <1>3, <1>5 DEF InUse
<1>7. \A k \in 1 .. MAX_FLDS : slots'[k].cache = NULL /\ slots'[k].curs = 0
  BY <1>3 DEF Free
<1> QED BY <1>3, <1>4, <1>6, <1>7 DEF CacheInv

\* What has come stays.
LEMMA ObufStays ==
  ASSUME obuf' = obuf
  PROVE  /\ \A n : Order(n)' = Order(n)
         /\ \A a, n : BytesUnder(a, n)' = BytesUnder(a, n)
         /\ Sorted' = Sorted /\ \A i : BytesOf(i)' = BytesOf(i)
<1>1. \A i : Comes(i)' = Comes(i) /\ BytesOf(i)' = BytesOf(i)
  BY DEF Comes, BytesOf
<1>2. \A n : Order(n)' = Order(n)
  BY <1>1 DEF Order
<1>3. \A a, n : BytesUnder(a, n)' = BytesUnder(a, n)
  BY <1>1 DEF BytesUnder
<1> QED BY <1>1, <1>2, <1>3 DEF Sorted

LEMMA HoldsStays ==
  ASSUME obuf' = obuf
  PROVE  \A s, a, i, j : Holds(s, a, i, j)' = Holds(s, a, i, j)
BY ObufStays DEF Holds

\* Pieces of a name have a slot, one.
LEMMA SlotOfIs ==
  ASSUME CacheTypes, NEW n \in 0 .. Len(obuf), NEW j, InUse(n, j), NEW a
  PROVE  /\ \A k \in SlotOf(a) : SlotOf(a) = {k} /\ FirstOf(SlotOf(a)) = k /\ k \in 1 .. numflds
                                 /\ k \in 1 .. MAX_FLDS /\ Order(n)[k] = a
         /\ SlotOf(a) = {} <=> \A i \in 1 .. n : obuf[i].name # a
<1>0. obuf \in Seq(Piece) /\ numflds \in 0 .. MAX_FLDS
  BY DEF CacheTypes
<1>1. Once(n)
  BY <1>0, OrderIsOnce
<1>2. numflds = Len(Order(n)) /\ \A k \in 1 .. numflds : slots[k].name = Order(n)[k]
  BY DEF InUse, Holds
<1>3. SlotOf(a) = {k \in 1 .. numflds : Order(n)[k] = a}
  BY <1>2 DEF SlotOf
<1>4. ASSUME NEW k \in SlotOf(a) PROVE SlotOf(a) = {k}
  BY <1>1, <1>2, <1>3 DEF Once
<1>5. \A k : FirstOf({k}) = k
  BY DEF FirstOf
<1>6. \A k \in SlotOf(a) : k \in 1 .. MAX_FLDS
  BY <1>0, <1>3, SlotsAssumption
<1>7. SlotOf(a) = {} <=> \A i \in 1 .. n : obuf[i].name # a
  <2>1. ASSUME SlotOf(a) = {}, NEW i \in 1 .. n PROVE obuf[i].name # a
    <3>1. PICK k \in 1 .. Len(Order(n)) : Order(n)[k] = obuf[i].name
      BY <1>1 DEF Once
    <3>2. k \notin SlotOf(a)
      BY <2>1
    <3> QED BY <1>2, <1>3, <3>1, <3>2
  <2>2. ASSUME SlotOf(a) # {}, \A i \in 1 .. n : obuf[i].name # a PROVE FALSE
    <3>1. PICK k \in 1 .. Len(Order(n)) : Order(n)[k] = a
      BY <1>2, <1>3, <2>2
    <3>2. PICK i \in 1 .. n : Order(n)[k] = obuf[i].name
      BY <1>1 DEF Once
    <3> QED BY <2>2, <3>1, <3>2
  <2> QED BY <2>1, <2>2
<1> QED BY <1>3, <1>4, <1>5, <1>6, <1>7

LEMMA SetUpIs ==
  ASSUME NEW s \in Slot, NEW b, b.name \in Names, b.size \in Nat
  PROVE  /\ SetUp(s, b) \in Slot /\ SetUp(s, b).name = b.name /\ SetUp(s, b).bufsize = b.size
         /\ SetUp(s, b).cache = NULL /\ SetUp(s, b).curs = s.curs
BY DEF Slot, SetUp

LEMMA OpenedIs ==
  ASSUME NEW s \in Slot
  PROVE  /\ Opened(s) \in Slot /\ Opened(s).name = s.name /\ Opened(s).bufsize = s.bufsize
         /\ s.cache = NULL => Opened(s).cache = <<>> /\ Opened(s).curs = 0
         /\ s.cache # NULL => Opened(s) = s
<1>1. <<>> \in Seq(Nat)
  OBVIOUS
<1>2. PICK none \in Seq(Nat) : none = <<>>
  BY <1>1
<1>3. CASE s.cache = NULL
  <2>1. Opened(s) = [s EXCEPT !.cache = none, !.curs = 0]
    BY <1>2, <1>3 DEF Opened
  <2>2. PICK u : u = [s EXCEPT !.cache = none, !.curs = 0]
    OBVIOUS
  <2>3. u \in Slot /\ u.name = s.name /\ u.bufsize = s.bufsize /\ u.cache = none /\ u.curs = 0
    BY <2>2 DEF Slot
  <2> QED BY <1>2, <1>3, <2>1, <2>2, <2>3
<1>4. CASE s.cache # NULL
  BY <1>4 DEF Opened
<1> QED BY <1>3, <1>4

LEMMA ResizedIs ==
  ASSUME NEW s \in Slot, NEW z \in Nat
  PROVE  /\ Resized(s, z) \in Slot /\ Resized(s, z).name = s.name
         /\ Resized(s, z).bufsize = z /\ Resized(s, z).cache = NULL
         /\ Resized(s, z).curs = s.curs
BY DEF Slot, Resized

LEMMA AddInv ==
  ASSUME CacheInv, AddToBufsize
  PROVE  CacheInv'
<1>0. /\ CacheTypes /\ pass = "size" /\ icurs < Len(obuf) /\ icurs' = icurs + 1 /\ InUse(icurs, 0)
      /\ obuf' = obuf /\ pass' = "size" /\ got' = <<>> /\ fld' = fld
      /\ \A k \in numflds + 1 .. MAX_FLDS : slots[k].cache = NULL /\ slots[k].curs = 0
  BY DEF CacheInv, AddToBufsize
<1>1. /\ obuf \in Seq(Piece) /\ icurs \in 0 .. Len(obuf) /\ Len(obuf) \in Nat
      /\ numflds \in 0 .. MAX_FLDS /\ slots \in [1 .. MAX_FLDS -> Slot]
  BY <1>0 DEF CacheTypes
<1>2. PICK n \in 0 .. Len(obuf) - 1 : n = icurs /\ n \in 0 .. Len(obuf) /\ n + 1 \in 1 .. Len(obuf)
                                      /\ n + 1 \in 0 .. Len(obuf)
  BY <1>0, <1>1
<1>3. PICK b, a, z : b = obuf[n + 1] /\ a = b.name /\ z = b.size
  OBVIOUS
<1>4. a \in Names /\ z \in Nat /\ BytesOf(n + 1) \in Seq(Nat) /\ Len(BytesOf(n + 1)) = z
  BY <1>1, <1>2, <1>3, PieceIs
<1>5. PICK S : S = SlotOf(a)
  OBVIOUS
<1>6. /\ S = {} => /\ numflds < MAX_FLDS /\ numflds' = numflds + 1
                   /\ slots' = [slots EXCEPT ![numflds'] = SetUp(slots[numflds'], b)]
      /\ S # {} => /\ slots' = [slots EXCEPT ![FirstOf(S)] =
                                             Resized(slots[FirstOf(S)], slots[FirstOf(S)].bufsize + z)]
                   /\ numflds' = numflds
  BY <1>2, <1>3, <1>5 DEF AddToBufsize
<1>7. Comes(n + 1) <=> S = {}
  BY <1>0, <1>2, <1>3, <1>5, SlotOfIs DEF Comes
<1>8. /\ \A x : BytesUnder(x, 0) = <<>>
      /\ \A x \in Names : x # a => BytesUnder(x, n + 1) = BytesUnder(x, n)
      /\ BytesUnder(a, n + 1) = BytesUnder(a, n) \o BytesOf(n + 1)
  BY <1>1, <1>3, BytesNext
<1>9. Len(BytesUnder(a, n + 1)) = Len(BytesUnder(a, n)) + z /\ Len(BytesUnder(a, n)) \in Nat
  <2>0. BytesUnder(a, n) \in Seq(Nat)
    BY <1>1, <1>2, BytesAreColumn
  <2>1. PICK s \in Seq(Nat), t \in Seq(Nat) : s = BytesUnder(a, n) /\ t = BytesOf(n + 1)
    BY <1>4, <2>0
  <2>2. Len(s \o t) = Len(s) + Len(t) /\ Len(s) \in Nat
    OBVIOUS
  <2> QED BY <1>4, <1>8, <2>1, <2>2
<1>10. PICK s \in Seq(Names) : s = Order(n)
  BY <1>1, OrderIsColumn
<1>11. numflds = Len(s) /\ Len(s) \in Nat /\ \A k \in 1 .. Len(s) : s[k] \in Names
  BY <1>0, <1>2, <1>10 DEF InUse
<1>12. Order(n + 1) = IF S = {} THEN Append(s, a) ELSE s
  BY <1>1, <1>3, <1>7, <1>10, OrderNext
<1>13. \A k \in 1 .. numflds : /\ slots[k].name = s[k] /\ slots[k].bufsize = Len(BytesUnder(s[k], n))
                               /\ slots[k].curs = 0 /\ slots[k].cache = NULL
  BY <1>0, <1>2, <1>8, <1>10 DEF InUse, Holds
<1>14. icurs' = n + 1 /\ Len(<<>>) = 0
  BY <1>0, <1>2
<1>15. CASE S = {}
  <2>1. PICK m \in 1 .. MAX_FLDS : m = numflds + 1 /\ m = numflds' /\ numflds' \in 0 .. MAX_FLDS
    BY <1>1, <1>6, <1>15, SlotsAssumption
  <2>2. slots' = [slots EXCEPT ![m] = SetUp(slots[m], b)]
    BY <1>6, <1>15, <2>1
  <2>3. /\ slots'[m] = SetUp(slots[m], b)
        /\ \A k \in 1 .. MAX_FLDS : k # m => slots'[k] = slots[k]
        /\ slots[m] \in Slot
    BY <1>1, <2>2
  <2>4. slots'[m] \in Slot /\ slots'[m].name = a /\ slots'[m].bufsize = z /\ slots'[m].cache = NULL
        /\ slots'[m].curs = 0
    <3>1. slots[m].curs = 0
      BY <1>0, <2>1
    <3> QED BY <1>3, <1>4, <2>3, <3>1, SetUpIs
  <2>5. slots' \in [1 .. MAX_FLDS -> Slot]
    BY <1>1, <2>2, <2>3, <2>4
  <2>6. Order(n + 1) = Append(s, a) /\ Len(Order(n + 1)) = m /\ Order(n + 1)[m] = a
        /\ \A k \in 1 .. numflds : Order(n + 1)[k] = s[k]
    BY <1>4, <1>11, <1>12, <1>15, <2>1
  <2>7. BytesUnder(a, n) = <<>> /\ Len(BytesUnder(a, n + 1)) = z
    <3>1. \A i \in 1 .. n : obuf[i].name # a
      BY <1>0, <1>2, <1>5, <1>15, SlotOfIs
    <3>2. BytesUnder(a, n) = <<>>
      BY <1>1, <1>2, <3>1, NothingUnder
    <3>3. Len(BytesUnder(a, n)) = 0
      BY <3>2
    <3> QED BY <1>4, <1>9, <3>2, <3>3
  <2>8. ASSUME NEW k \in 1 .. m PROVE Holds(slots'[k], Order(n + 1)[k], n + 1, 0)
    <3>1. CASE k = m
      BY <1>8, <1>14, <2>4, <2>6, <2>7, <3>1 DEF Holds
    <3>2. CASE k # m
      <4>1. k \in 1 .. numflds /\ k \in 1 .. MAX_FLDS
        BY <1>1, <2>1, <3>2, SlotsAssumption
      <4>2. s[k] # a /\ s[k] \in Names
        BY <1>5, <1>11, <1>13, <1>15, <4>1 DEF SlotOf
      <4>3. BytesUnder(s[k], n + 1) = BytesUnder(s[k], n)
        BY <1>8, <4>2
      <4> QED BY <1>8, <1>13, <1>14, <2>3, <2>6, <3>2, <4>1, <4>3 DEF Holds
    <3> QED BY <3>1, <3>2
  <2>9. InUse(icurs, 0)'
    BY <1>0, <1>14, <2>1, <2>6, <2>8, ObufStays, HoldsStays DEF InUse
  <2>10. \A k \in numflds' + 1 .. MAX_FLDS : slots'[k].cache = NULL /\ slots'[k].curs = 0
    <3>1. \A k \in numflds' + 1 .. MAX_FLDS : k \in numflds + 1 .. MAX_FLDS /\ k # m /\ k \in 1 .. MAX_FLDS
      <4>1. PICK u \in Nat, top \in Nat : u = numflds /\ top = MAX_FLDS /\ numflds' = u + 1 /\ m = u + 1
        BY <1>1, <2>1, SlotsAssumption
      <4>2. \A k \in (u + 1) + 1 .. top : k \in u + 1 .. top /\ k # u + 1 /\ k \in 1 .. top
        OBVIOUS
      <4> QED BY <4>1, <4>2
    <3> QED BY <1>0, <2>3, <3>1
  <2>11. CacheTypes'
    BY <1>0, <1>1, <1>2, <1>14, <2>1, <2>5 DEF CacheTypes
  <2> QED BY <1>0, <2>9, <2>10, <2>11 DEF CacheInv
<1>16. CASE S # {}
  <2>1. PICK m \in S : m \in 1 .. MAX_FLDS /\ m \in 1 .. numflds /\ FirstOf(S) = m /\ s[m] = a /\ S = {m}
    <3>1. InUse(n, 0)
      BY <1>0, <1>2
    <3> QED BY <1>0, <1>2, <1>5, <1>10, <1>16, <3>1, SlotOfIs
  <2>2. slots' = [slots EXCEPT ![m] = Resized(slots[m], slots[m].bufsize + z)] /\ numflds' = numflds
    BY <1>6, <1>16, <2>1
  <2>3. /\ slots'[m] = Resized(slots[m], slots[m].bufsize + z)
        /\ \A k \in 1 .. MAX_FLDS : k # m => slots'[k] = slots[k]
        /\ slots[m] \in Slot
    BY <1>1, <2>1, <2>2
  <2>4. /\ slots'[m] \in Slot /\ slots'[m].name = a /\ slots'[m].cache = NULL /\ slots'[m].curs = 0
        /\ slots'[m].bufsize = Len(BytesUnder(a, n + 1))
    <3>1. slots[m].bufsize + z \in Nat /\ slots[m].bufsize + z = Len(BytesUnder(a, n + 1))
      <4>1. PICK l \in Nat : l = Len(BytesUnder(a, n)) /\ l + z = Len(BytesUnder(a, n + 1))
        BY <1>9
      <4>2. slots[m].bufsize = l
        BY <1>13, <2>1, <4>1
      <4> QED BY <1>4, <4>1, <4>2
    <3>2. PICK t \in Slot, x \in Nat : t = slots[m] /\ x = slots[m].bufsize + z
      BY <2>3, <3>1
    <3>3. t.name = a /\ t.curs = 0
      BY <1>13, <2>1, <3>2
    <3>4. slots'[m] = Resized(t, x)
      BY <2>3, <3>2
    <3>5. PICK u \in Slot :
            u = Resized(t, x) /\ u.name = t.name /\ u.bufsize = x /\ u.cache = NULL /\ u.curs = t.curs
      BY ResizedIs
    <3> QED BY <3>1, <3>2, <3>3, <3>4, <3>5
  <2>5. slots' \in [1 .. MAX_FLDS -> Slot]
    BY <1>1, <2>2, <2>3, <2>4
  <2>6. Order(n + 1) = s
    BY <1>12, <1>16
  <2>8. ASSUME NEW k \in 1 .. numflds PROVE Holds(slots'[k], s[k], n + 1, 0)
    <3>1. CASE k = m
      BY <1>8, <1>14, <2>1, <2>4, <3>1 DEF Holds
    <3>2. CASE k # m
      <4>1. k \in 1 .. MAX_FLDS /\ s[k] \in Names
        BY <1>1, <1>11, SlotsAssumption
      <4>2. s[k] # a
        <5>1. k \notin S
          BY <2>1, <3>2
        <5> QED BY <1>5, <1>13, <5>1 DEF SlotOf
      <4>3. BytesUnder(s[k], n + 1) = BytesUnder(s[k], n)
        BY <1>8, <4>1, <4>2
      <4> QED BY <1>8, <1>13, <1>14, <2>3, <3>2, <4>1, <4>3 DEF Holds
    <3> QED BY <3>1, <3>2
  <2>9. InUse(icurs, 0)'
    BY <1>0, <1>11, <1>14, <2>2, <2>6, <2>8, ObufStays, HoldsStays DEF InUse
  <2>10. \A k \in numflds' + 1 .. MAX_FLDS : slots'[k].cache = NULL /\ slots'[k].curs = 0
    <3>1. \A k \in numflds + 1 .. MAX_FLDS : k # m /\ k \in 1 .. MAX_FLDS
      BY <1>1, <2>1
    <3> QED BY <1>0, <2>2, <2>3, <3>1
  <2>11. CacheTypes'
    BY <1>0, <1>1, <1>2, <1>14, <2>2, <2>5 DEF CacheTypes
  <2> QED BY <1>0, <2>9, <2>10, <2>11 DEF CacheInv
<1> QED BY <1>15, <1>16

LEMMA OverrunInv ==
  ASSUME CacheInv, Overrun
  PROVE  CacheInv'
<1>1. /\ CacheTypes /\ pass' = "overrun" /\ got = <<>> /\ got' = got
      /\ slots' = slots /\ numflds' = numflds /\ fld' = fld /\ obuf' = obuf /\ icurs' = icurs
      /\ \A k \in numflds + 1 .. MAX_FLDS : slots[k].cache = NULL
  BY DEF CacheInv, Overrun
<1>2. CacheTypes'
  BY <1>1 DEF CacheTypes
<1> QED BY <1>1, <1>2 DEF CacheInv

LEMMA BeginStoreInv ==
  ASSUME CacheInv, BeginStore
  PROVE  CacheInv'
<1>1. /\ CacheTypes /\ InUse(icurs, 0) /\ icurs = Len(obuf) /\ icurs' = 0 /\ pass' = "store"
      /\ slots' = slots /\ numflds' = numflds /\ fld' = fld /\ obuf' = obuf /\ got' = got /\ got = <<>>
      /\ \A k \in numflds + 1 .. MAX_FLDS : slots[k].cache = NULL
  BY DEF CacheInv, BeginStore
<1>2. CacheTypes'
  <2>1. Len(obuf) \in Nat
    BY <1>1 DEF CacheTypes
  <2> QED BY <1>1, <2>1 DEF CacheTypes
<1>3. InUse(Len(obuf), icurs)'
  BY <1>1, ObufStays, HoldsStays DEF InUse
<1> QED BY <1>1, <1>2, <1>3 DEF CacheInv

\* Nothing is allocated exactly if nothing is held.
LEMMA NullIs ==
  ASSUME obuf \in Seq(Piece), NEW j \in 0 .. Len(obuf), NEW i, NEW a, NEW s, Holds(s, a, i, j)
  PROVE  /\ BytesUnder(a, j) \in Seq(Nat) /\ s.curs = Len(BytesUnder(a, j))
         /\ s.cache = NULL => BytesUnder(a, j) = <<>> /\ Len(BytesUnder(a, j)) = 0
         /\ s.cache # NULL => s.cache = BytesUnder(a, j)
<1>1. BytesUnder(a, j) \in Seq(Nat)
  BY BytesAreColumn
<1>2. s.cache = NULL => BytesUnder(a, j) = <<>>
  BY <1>1, NullAssumption DEF Holds
<1>3. Len(<<>>) = 0
  OBVIOUS
<1> QED BY <1>1, <1>2, <1>3 DEF Holds

\* Every piece has a slot in the second scan, and the slot has room for it.
LEMMA RoomLeft ==
  ASSUME CacheTypes, NEW n \in 0 .. Len(obuf) - 1, InUse(Len(obuf), n), NEW a, a = obuf[n + 1].name
  PROVE  \E m \in 1 .. MAX_FLDS :
           /\ m \in 1 .. numflds /\ SlotOf(a) = {m} /\ FirstOf(SlotOf(a)) = m
           /\ Order(Len(obuf))[m] = a /\ CanStore(obuf[n + 1], SlotOf(a))
           /\ Stored(slots[m], n + 1) \in Slot
           /\ Holds(Stored(slots[m], n + 1), a, Len(obuf), n + 1)
<1>1. obuf \in Seq(Piece) /\ slots \in [1 .. MAX_FLDS -> Slot] /\ Len(obuf) \in Nat
  BY DEF CacheTypes
<1>2. n \in 0 .. Len(obuf) /\ n + 1 \in 1 .. Len(obuf) /\ n + 1 \in 0 .. Len(obuf) /\ Len(obuf) \in 0 .. Len(obuf)
  BY <1>1
<1>3. SlotOf(a) # {}
  BY <1>2, SlotOfIs
<1>4. PICK m \in SlotOf(a) : /\ m \in 1 .. MAX_FLDS /\ m \in 1 .. numflds /\ SlotOf(a) = {m}
                             /\ FirstOf(SlotOf(a)) = m /\ Order(Len(obuf))[m] = a
  BY <1>2, <1>3, SlotOfIs
<1>5. PICK s \in Slot : s = slots[m]
  BY <1>1, <1>4
<1>6. Holds(s, a, Len(obuf), n)
  BY <1>4, <1>5 DEF InUse
<1>7. PICK z \in Nat \ {0} : z = obuf[n + 1].size /\ BytesOf(n + 1) \in Seq(Nat) /\ Len(BytesOf(n + 1)) = z
  BY <1>1, <1>2, PieceIs
<1>8. PICK x \in Seq(Nat), y \in Seq(Nat) : x = BytesUnder(a, n) /\ y = BytesOf(n + 1)
  <2>1. BytesUnder(a, n) \in Seq(Nat)
    BY <1>1, <1>2, BytesAreColumn
  <2> QED BY <1>7, <2>1
<1>9. BytesUnder(a, n + 1) = x \o y /\ Len(x \o y) = Len(x) + z /\ Len(x) \in Nat /\ x \o y \in Seq(Nat)
  <2>1. BytesUnder(a, n + 1) = x \o y
    BY <1>1, <1>8, BytesNext
  <2>2. Len(x \o y) = Len(x) + Len(y) /\ Len(x) \in Nat /\ x \o y \in Seq(Nat)
    OBVIOUS
  <2> QED BY <1>7, <1>8, <2>1, <2>2
<1>10. PICK o \in Slot : /\ o = Opened(s) /\ o.cache = x /\ o.curs = Len(x)
                         /\ o.name = s.name /\ o.bufsize = s.bufsize
  <2>1. IF s.cache = NULL THEN x = <<>> /\ Len(x) = 0 ELSE s.cache = x /\ s.curs = Len(x)
    <3>1. /\ s.curs = Len(BytesUnder(a, n))
          /\ s.cache = NULL => BytesUnder(a, n) = <<>> /\ Len(BytesUnder(a, n)) = 0
          /\ s.cache # NULL => s.cache = BytesUnder(a, n)
      BY <1>1, <1>2, <1>6, NullIs
    <3> QED BY <1>8, <3>1
  <2>2. Opened(s) \in Slot /\ Opened(s).name = s.name /\ Opened(s).bufsize = s.bufsize
    BY OpenedIs
  <2>3. Opened(s).cache = x /\ Opened(s).curs = Len(x)
    BY <2>1, OpenedIs
  <2> QED BY <2>2, <2>3
<1>11. Len(x) + z <= s.bufsize
  <2>1. Len(BytesUnder(a, n + 1)) <= Len(BytesUnder(a, Len(obuf)))
    <3>1. n + 1 <= Len(obuf)
      BY <1>2
    <3> QED BY <1>1, <1>2, <3>1, BytesGrow
  <2>2. s.bufsize = Len(BytesUnder(a, Len(obuf)))
    BY <1>6 DEF Holds
  <2> QED BY <1>9, <2>1, <2>2
<1>12. CanStore(obuf[n + 1], SlotOf(a))
  BY <1>3, <1>4, <1>5, <1>7, <1>10, <1>11 DEF CanStore
<1>13. PICK t : t = Stored(s, n + 1)
  OBVIOUS
<1>14. t = [o EXCEPT !.cache = x \o y, !.curs = Len(x) + z]
  BY <1>7, <1>8, <1>10, <1>13 DEF Stored
<1>15. PICK c \in Seq(Nat), l \in Nat : c = x \o y /\ l = Len(x) + z /\ l = Len(c) /\ l > 0
  <2>1. Len(x) + z \in Nat /\ Len(x) + z > 0
    BY <1>9
  <2> QED BY <1>9, <2>1
<1>16. t \in Slot /\ t.name = s.name /\ t.bufsize = s.bufsize /\ t.cache = c /\ t.curs = l
  <2>1. t = [o EXCEPT !.cache = c, !.curs = l]
    BY <1>14, <1>15
  <2> QED BY <1>10, <2>1 DEF Slot
<1>17. c # <<>>
  BY <1>15
<1>18. Holds(t, a, Len(obuf), n + 1)
  BY <1>6, <1>9, <1>15, <1>16, <1>17 DEF Holds
<1> QED BY <1>4, <1>5, <1>12, <1>13, <1>16, <1>18

LEMMA StorePieceInv ==
  ASSUME CacheInv, StorePiece
  PROVE  CacheInv'
<1>0. /\ CacheTypes /\ pass = "store" /\ icurs < Len(obuf) /\ icurs' = icurs + 1
      /\ InUse(Len(obuf), icurs) /\ obuf' = obuf /\ pass' = "store" /\ got' = <<>> /\ fld' = fld
      /\ numflds' = numflds /\ \A k \in numflds + 1 .. MAX_FLDS : slots[k].cache = NULL
  BY DEF CacheInv, StorePiece
<1>1. /\ obuf \in Seq(Piece) /\ icurs \in 0 .. Len(obuf) /\ Len(obuf) \in Nat
      /\ numflds \in 0 .. MAX_FLDS /\ slots \in [1 .. MAX_FLDS -> Slot]
  BY <1>0 DEF CacheTypes
<1>2. PICK n \in 0 .. Len(obuf) - 1 : n = icurs /\ n \in 0 .. Len(obuf) /\ n + 1 \in 0 .. Len(obuf)
                                      /\ Len(obuf) \in 0 .. Len(obuf)
  BY <1>0, <1>1
<1>3. PICK a : a = obuf[n + 1].name
  OBVIOUS
<1>4. PICK m \in 1 .. MAX_FLDS :
        /\ m \in 1 .. numflds /\ SlotOf(a) = {m} /\ FirstOf(SlotOf(a)) = m
        /\ Order(Len(obuf))[m] = a /\ CanStore(obuf[n + 1], SlotOf(a))
        /\ Stored(slots[m], n + 1) \in Slot
        /\ Holds(Stored(slots[m], n + 1), a, Len(obuf), n + 1)
  <2>1. InUse(Len(obuf), n)
    BY <1>0, <1>2
  <2> QED BY <1>0, <1>2, <1>3, <2>1, RoomLeft
<1>5. slots' = [slots EXCEPT ![m] = Stored(slots[m], n + 1)]
  BY <1>2, <1>3, <1>4 DEF StorePiece
<1>6. /\ slots' \in [1 .. MAX_FLDS -> Slot] /\ slots'[m] = Stored(slots[m], n + 1)
      /\ \A k \in 1 .. MAX_FLDS : k # m => slots'[k] = slots[k]
  BY <1>1, <1>4, <1>5
<1>7. ASSUME NEW k \in 1 .. numflds PROVE Holds(slots'[k], Order(Len(obuf))[k], Len(obuf), n + 1)
  <2>1. CASE k = m
    BY <1>4, <1>6, <2>1
  <2>2. CASE k # m
    <3>1. PICK x : x = Order(Len(obuf))[k]
      OBVIOUS
    <3>2. Holds(slots[k], x, Len(obuf), n) /\ slots[k].name = x
      BY <1>0, <1>2, <3>1 DEF InUse, Holds
    <3>3. x # a
      <4>1. k \notin SlotOf(a)
        BY <1>4, <2>2
      <4> QED BY <3>2, <4>1 DEF SlotOf
    <3>4. BytesUnder(x, n + 1) = BytesUnder(x, n)
      BY <1>1, <1>3, <3>3, BytesNext
    <3>5. slots'[k] = slots[k]
      <4>1. k \in 1 .. MAX_FLDS
        BY <1>1, SlotsAssumption
      <4> QED BY <1>6, <2>2, <4>1
    <3> QED BY <3>1, <3>2, <3>4, <3>5 DEF Holds
  <2> QED BY <2>1, <2>2
<1>8. numflds = Len(Order(Len(obuf)))
  BY <1>0 DEF InUse
<1>9. InUse(Len(obuf), icurs)'
  <2>1. icurs' = n + 1 /\ Len(obuf)' = Len(obuf)
    BY <1>0, <1>2
  <2> QED BY <1>0, <1>7, <1>8, <2>1, ObufStays, HoldsStays DEF InUse
<1>10. \A k \in numflds' + 1 .. MAX_FLDS : slots'[k].cache = NULL
  <2>1. \A k \in numflds + 1 .. MAX_FLDS : k # m /\ k \in 1 .. MAX_FLDS
    BY <1>1, <1>4
  <2> QED BY <1>0, <1>6, <2>1
<1>11. CacheTypes'
  BY <1>0, <1>1, <1>2, <1>6 DEF CacheTypes
<1> QED BY <1>0, <1>9, <1>10, <1>11 DEF CacheInv

LEMMA BeginRetrieveInv ==
  ASSUME CacheInv, BeginRetrieve
  PROVE  CacheInv'
<1>1. /\ CacheTypes /\ InUse(Len(obuf), icurs) /\ icurs = Len(obuf) /\ icurs' = icurs
      /\ pass' = "retrieve" /\ fld' = 0
      /\ slots' = slots /\ numflds' = numflds /\ obuf' = obuf /\ got' = got /\ got = <<>>
      /\ \A k \in numflds + 1 .. MAX_FLDS : slots[k].cache = NULL
  BY DEF CacheInv, BeginRetrieve, FirstRetrieved
<1>2. CacheTypes'
  BY <1>1 DEF CacheTypes
<1>3. numflds \in Nat /\ numflds = Len(Order(Len(obuf)))
      /\ \A k \in 1 .. numflds : Holds(slots[k], Order(Len(obuf))[k], Len(obuf), Len(obuf))
  BY <1>1 DEF InUse, CacheTypes
<1>4. Order(Len(obuf))' = Order(Len(obuf)) /\ Len(obuf)' = Len(obuf)
  BY <1>1, ObufStays
<1>5. \A k \in 1 .. numflds : Holds(slots[k], Order(Len(obuf))[k], Len(obuf), Len(obuf))'
  BY <1>1, <1>3, <1>4, HoldsStays
<1>6. got' = <<>> /\ <<>> \in Seq([name : Names, bytes : Seq(Nat)]) /\ Len(<<>>) = 0
  BY <1>1
<1>7. fld' <= numflds' /\ fld' + 1 = 1 /\ 1 .. fld' = {}
  BY <1>1, <1>3
<1> QED BY <1>1, <1>2, <1>3, <1>4, <1>5, <1>6, <1>7 DEF CacheInv

\* Every name that came has bytes.
LEMMA SomethingUnder ==
  ASSUME obuf \in Seq(Piece), NEW k \in 1 .. Len(Order(Len(obuf)))
  PROVE  Len(BytesUnder(Order(Len(obuf))[k], Len(obuf))) > 0
<1>0. Len(obuf) \in Nat /\ Len(obuf) \in 0 .. Len(obuf)
  OBVIOUS
<1>1. PICK a : a = Order(Len(obuf))[k]
  OBVIOUS
<1>2. PICK i \in 1 .. Len(obuf) : obuf[i].name = a
  <2>1. Once(Len(obuf))
    BY <1>0, OrderIsOnce
  <2>2. PICK i \in 1 .. Len(obuf) : Order(Len(obuf))[k] = obuf[i].name
    BY <2>1 DEF Once
  <2> QED BY <1>1, <2>2
<1>3. PICK n \in 0 .. Len(obuf) - 1 : n + 1 = i /\ n \in 0 .. Len(obuf) /\ n + 1 \in 0 .. Len(obuf)
                                      /\ n + 1 \in 1 .. Len(obuf) /\ n + 1 <= Len(obuf)
  <2>1. i - 1 \in 0 .. Len(obuf) - 1 /\ (i - 1) + 1 = i
    OBVIOUS
  <2> QED BY <2>1
<1>4. BytesUnder(a, n + 1) = BytesUnder(a, n) \o BytesOf(n + 1)
  BY <1>2, <1>3, BytesNext
<1>5. BytesUnder(a, n) \in Seq(Nat) /\ BytesUnder(a, Len(obuf)) \in Seq(Nat)
  BY <1>0, <1>3, BytesAreColumn
<1>6. PICK z \in Nat \ {0} : BytesOf(n + 1) \in Seq(Nat) /\ Len(BytesOf(n + 1)) = z
  BY <1>3, PieceIs
<1>7. PICK x \in Seq(Nat), y \in Seq(Nat), w \in Seq(Nat) :
        x = BytesUnder(a, n) /\ y = BytesOf(n + 1) /\ w = BytesUnder(a, Len(obuf))
  BY <1>5, <1>6
<1>8. Len(x \o y) = Len(x) + Len(y) /\ Len(x) \in Nat /\ Len(w) \in Nat
  OBVIOUS
<1>9. Len(BytesUnder(a, n + 1)) <= Len(w)
  BY <1>0, <1>3, <1>7, BytesGrow
<1> QED BY <1>1, <1>4, <1>6, <1>7, <1>8, <1>9

\* A field comes back with all of its bytes.
LEMMA WholeField ==
  ASSUME obuf \in Seq(Piece), NEW k \in 1 .. Len(Order(Len(obuf))), NEW s,
         Holds(s, Order(Len(obuf))[k], Len(obuf), Len(obuf))
  PROVE  /\ s.cache # NULL /\ s.curs <= TotalSize
         /\ [name |-> s.name, bytes |-> SubSeq(s.cache, 1, s.curs)] = Sorted[k]
<1>0. Len(obuf) \in Nat /\ Len(obuf) \in 0 .. Len(obuf)
  OBVIOUS
<1>1. PICK a : a = Order(Len(obuf))[k]
  OBVIOUS
<1>2. BytesUnder(a, Len(obuf)) \in Seq(Nat) /\ Len(BytesUnder(a, Len(obuf))) > 0
  BY <1>0, <1>1, BytesAreColumn, SomethingUnder
<1>3. s.name = a /\ s.curs = Len(BytesUnder(a, Len(obuf))) /\ s.cache # NULL
      /\ s.cache = BytesUnder(a, Len(obuf))
  <2>1. Holds(s, a, Len(obuf), Len(obuf))
    BY <1>1
  <2>2. s.name = a
    BY <2>1 DEF Holds
  <2>3. s.cache # NULL
    BY <1>0, <1>2, <2>1, NullIs
  <2> QED BY <1>0, <2>1, <2>2, <2>3, NullIs
<1>4. s.curs <= TotalSize
  BY <1>3, BytesAreBounded
<1>5. \A x \in Seq(Nat) : SubSeq(x, 1, Len(x)) = x
  OBVIOUS
<1>6. SubSeq(s.cache, 1, s.curs) = BytesUnder(a, Len(obuf))
  BY <1>2, <1>3, <1>5
<1>7. Sorted[k] = [name |-> a, bytes |-> BytesUnder(a, Len(obuf))]
  BY <1>1, SortedIs
<1> QED BY <1>3, <1>4, <1>6, <1>7

LEMMA RetrieveInv ==
  ASSUME CacheInv, RetrievePieces
  PROVE  CacheInv'
<1>0. /\ CacheTypes /\ obuf \in Seq(Piece) /\ pass = "retrieve"
      /\ obuf' = obuf /\ icurs' = icurs
      /\ slots \in [1 .. MAX_FLDS -> Slot] /\ numflds \in 0 .. MAX_FLDS /\ fld \in Nat
      /\ \A k \in numflds + 1 .. MAX_FLDS : slots[k].cache = NULL
  BY DEF CacheInv, CacheTypes, RetrievePieces
<1>1. /\ fld <= numflds /\ numflds = Len(Order(Len(obuf)))
      /\ \A k \in fld + 1 .. numflds : Holds(slots[k], Order(Len(obuf))[k], Len(obuf), Len(obuf))
      /\ \A k \in 1 .. fld : slots[k].cache = NULL
      /\ got \in Seq([name : Names, bytes : Seq(Nat)]) /\ Len(got) = fld
      /\ \A k \in 1 .. fld : got[k] = Sorted[k]
  BY <1>0 DEF CacheInv
<1>2. PICK Fields : Fields = [name : Names, bytes : Seq(Nat)]
  OBVIOUS
<1>3. PICK all \in Seq(Fields) : all = Sorted /\ Len(all) = numflds
  BY <1>0, <1>1, <1>2, SortedIs
<1>4. PICK g \in Seq(Fields) : g = got
  BY <1>1, <1>2
<1>5. Len(obuf)' = Len(obuf) /\ Order(Len(obuf))' = Order(Len(obuf)) /\ Sorted' = all
  BY <1>0, <1>3, ObufStays
<1>6. CASE fld < numflds
  <2>1. PICK m \in 1 .. MAX_FLDS : m = fld + 1 /\ m \in 1 .. numflds /\ m \in fld + 1 .. numflds
                                   /\ m \in 1 .. Len(Order(Len(obuf))) /\ m \in Nat
    BY <1>0, <1>1, <1>6, SlotsAssumption
  <2>2. PICK s \in Slot : s = slots[m]
    BY <1>0
  <2>3. /\ s.cache # NULL /\ s.curs <= TotalSize
        /\ [name |-> s.name, bytes |-> SubSeq(s.cache, 1, s.curs)] = Sorted[m]
    <3>1. Holds(s, Order(Len(obuf))[m], Len(obuf), Len(obuf))
      BY <1>1, <2>1, <2>2
    <3> QED BY <1>0, <2>1, <3>1, WholeField
  <2>4. /\ got' = Append(g, all[m]) /\ slots' = [slots EXCEPT ![m] = Resized(s, 0)]
        /\ fld' = m /\ numflds' = numflds /\ pass' = pass
    BY <1>3, <1>4, <1>6, <2>1, <2>2, <2>3 DEF RetrievePieces
  <2>5. Resized(s, 0) \in Slot /\ Resized(s, 0).cache = NULL
    BY ResizedIs
  <2>6. /\ slots' \in [1 .. MAX_FLDS -> Slot] /\ slots'[m].cache = NULL
        /\ \A k \in 1 .. MAX_FLDS : k # m => slots'[k] = slots[k]
    BY <1>0, <2>4, <2>5
  <2>7. CacheTypes'
    BY <1>0, <2>1, <2>4, <2>6 DEF CacheTypes
  <2>8. ASSUME NEW k \in m + 1 .. numflds
        PROVE  Holds(slots'[k], Order(Len(obuf))[k], Len(obuf), Len(obuf))
    <3>1. k \in fld + 1 .. numflds /\ k # m /\ k \in 1 .. MAX_FLDS
      BY <1>0, <2>1, SlotsAssumption
    <3> QED BY <1>1, <2>6, <3>1
  <2>9. /\ \A k \in 1 .. m : slots'[k].cache = NULL
        /\ \A k \in numflds + 1 .. MAX_FLDS : slots'[k].cache = NULL
    <3>1. \A k \in 1 .. m : k = m \/ (k \in 1 .. fld /\ k \in 1 .. MAX_FLDS /\ k # m)
      BY <1>0, <2>1, SlotsAssumption
    <3>2. \A k \in numflds + 1 .. MAX_FLDS : k # m /\ k \in 1 .. MAX_FLDS
      BY <1>0, <2>1, SlotsAssumption
    <3> QED BY <1>0, <1>1, <2>6, <3>1, <3>2
  <2>10. got' \in Seq(Fields) /\ Len(got') = m /\ \A k \in 1 .. m : got'[k] = all[k]
    <3>1. all[m] \in Fields
      BY <1>3, <2>1
    <3>2. Len(g) = m - 1 /\ \A k \in 1 .. m - 1 : g[k] = all[k]
      BY <1>1, <1>3, <1>4, <2>1
    <3>3. /\ Append(g, all[m]) \in Seq(Fields) /\ Len(Append(g, all[m])) = m
          /\ Append(g, all[m])[m] = all[m]
          /\ \A k \in 1 .. m - 1 : Append(g, all[m])[k] = g[k]
      BY <3>1, <3>2
    <3> QED BY <2>4, <3>2, <3>3
  <2>11. \A k \in fld' + 1 .. numflds' : Holds(slots[k], Order(Len(obuf))[k], Len(obuf), Len(obuf))'
    BY <1>0, <1>5, <2>4, <2>8, HoldsStays
  <2>12. m <= numflds
    BY <2>1
  <2> QED BY <1>0, <1>1, <1>2, <1>5, <2>4, <2>7, <2>9, <2>10, <2>11, <2>12 DEF CacheInv
<1>7. CASE ~(fld < numflds)
  <2>1. numflds' = 0 /\ pass' = "idle" /\ slots' = slots /\ fld' = fld /\ got' = g
    BY <1>4, <1>7 DEF RetrievePieces
  <2>2. fld = numflds
    BY <1>0, <1>1, <1>7
  <2>3. g = all
    <3>1. Len(g) = Len(all) /\ Len(g) \in Nat /\ \A k \in 1 .. Len(g) : g[k] = all[k]
      BY <1>0, <1>1, <1>3, <1>4, <2>2
    <3>2. g = [k \in 1 .. Len(g) |-> g[k]] /\ all = [k \in 1 .. Len(all) |-> all[k]]
      OBVIOUS
    <3> QED BY <3>1, <3>2
  <2>4. CacheTypes'
    <3>1. icurs \in 0 .. Len(obuf)
      BY <1>0 DEF CacheTypes
    <3> QED BY <1>0, <2>1, <3>1, SlotsAssumption DEF CacheTypes
  <2>5. \A k \in 1 .. MAX_FLDS : slots[k].cache = NULL
    <3>1. \A k \in 1 .. MAX_FLDS : k \in 1 .. fld \/ k \in numflds + 1 .. MAX_FLDS
      BY <1>0, <2>2, SlotsAssumption
    <3> QED BY <1>0, <1>1, <3>1
  <2> QED BY <1>5, <2>1, <2>3, <2>4, <2>5 DEF CacheInv
<1> QED BY <1>6, <1>7

LEMMA StutterInv ==
  ASSUME CacheInv, UNCHANGED cacheVars
  PROVE  CacheInv'
<1>1. /\ slots' = slots /\ numflds' = numflds /\ fld' = fld /\ obuf' = obuf /\ pass' = pass
      /\ icurs' = icurs /\ got' = got
  BY DEF cacheVars
<1>2. CacheTypes' /\ Len(obuf)' = Len(obuf) /\ Order(Len(obuf))' = Order(Len(obuf)) /\ Sorted' = Sorted
  BY <1>1, ObufStays DEF CacheInv, CacheTypes
<1>3. \A i, j : InUse(i, j)' = InUse(i, j)
  BY <1>1, ObufStays, HoldsStays DEF InUse
<1>4. \A k : Holds(slots[k], Order(Len(obuf))[k], Len(obuf), Len(obuf))'
             = Holds(slots[k], Order(Len(obuf))[k], Len(obuf), Len(obuf))
  BY <1>1, <1>2, HoldsStays
<1> QED BY <1>1, <1>2, <1>3, <1>4 DEF CacheInv

LEMMA CacheInvHolds == CacheSpec => []CacheInv
<1>1. CacheInit => CacheInv
  BY InitCacheInv
<1>2. CacheInv /\ [CacheNext]_cacheVars => CacheInv'
  BY ReceiveInv, AddInv, OverrunInv, BeginStoreInv, StorePieceInv, BeginRetrieveInv, RetrieveInv, StutterInv
     DEF CacheNext
<1> QED BY <1>1, <1>2, PTL DEF CacheSpec

LEMMA InvNothingRefused ==
  ASSUME CacheInv
  PROVE  NothingRefused
<1>1. CacheTypes /\ (pass = "store" => InUse(Len(obuf), icurs))
  BY DEF CacheInv
<1>2. obuf \in Seq(Piece) /\ icurs \in 0 .. Len(obuf)
  BY <1>1 DEF CacheTypes
<1>3. ASSUME pass = "store", icurs < Len(obuf)
      PROVE  CanStore(obuf[icurs + 1], SlotOf(obuf[icurs + 1].name))
  <2>1. PICK n \in 0 .. Len(obuf) - 1 : n = icurs
    BY <1>2, <1>3
  <2>2. PICK a : a = obuf[n + 1].name
    OBVIOUS
  <2>3. InUse(Len(obuf), n)
    BY <1>1, <1>3, <2>1
  <2>4. CanStore(obuf[n + 1], SlotOf(a))
    BY <1>1, <2>2, <2>3, RoomLeft
  <2> QED BY <2>1, <2>2, <2>4
<1>4. ASSUME pass = "store", icurs = Len(obuf), NEW i \in 1 .. numflds
      PROVE  slots[i].curs = slots[i].bufsize
  BY <1>1, <1>4 DEF InUse, Holds
<1> QED BY <1>3, <1>4 DEF NothingRefused

\* Between the two scans of a batch, the sizes added up in the first are those the
\* second needs: STORE_PIECE_OF_FIELD_C never finds a name that was not set up nor
\* a piece that would overwrite, and after the last piece every cache is full.
THEOREM StoreNeverRefuses == CacheSpec => []NothingRefused
<1>1. CacheInv => NothingRefused
  BY InvNothingRefused
<1> QED BY <1>1, CacheInvHolds, PTL

LEMMA InvRetrievedSorted ==
  ASSUME CacheInv
  PROVE  RetrievedSorted
<1>1. /\ CacheTypes /\ obuf \in Seq(Piece)
      /\ \A k \in numflds + 1 .. MAX_FLDS : slots[k].cache = NULL
  BY DEF CacheInv, CacheTypes
<1>2. PICK Fields : Fields = [name : Names, bytes : Seq(Nat)]
  OBVIOUS
<1>3. PICK all \in Seq(Fields) : all = Sorted /\ Len(all) = Len(Order(Len(obuf)))
  BY <1>1, <1>2, SortedIs
<1>4. got \in Seq(Fields) /\ Len(got) <= Len(all) /\ \A k \in 1 .. Len(got) : got[k] = all[k]
  <2>1. CASE pass \in {"size", "overrun", "store"}
    <3>1. got = <<>> /\ Len(<<>>) = 0 /\ <<>> \in Seq(Fields) /\ Len(all) \in Nat
      BY <2>1 DEF CacheInv
    <3> QED BY <3>1
  <2>2. CASE pass = "retrieve"
    BY <1>2, <1>3, <2>2 DEF CacheInv
  <2>3. CASE pass = "idle"
    <3>1. got = all /\ Len(all) \in Nat
      BY <1>3, <2>3 DEF CacheInv
    <3> QED BY <3>1
  <2> QED BY <1>1, <2>1, <2>2, <2>3 DEF CacheTypes
<1>5. IsPrefix(got, all)
  <2>1. PICK g \in Seq(Fields) : g = got
    BY <1>4
  <2>2. SubSeq(g, 1, Len(g)) = SubSeq(all, 1, Len(g))
    BY <1>4, <2>1
  <2> QED BY <1>4, <2>1, <2>2 DEF IsPrefix
<1>6. ASSUME pass = "idle" PROVE got = Sorted /\ \A i \in 1 .. MAX_FLDS : slots[i].cache = NULL
  BY <1>1, <1>6 DEF CacheInv
<1> QED BY <1>3, <1>5, <1>6 DEF RetrievedSorted

\* Whatever the batches before it left in the slots, the server retrieves of a batch
\* its fields in the order in which they first came, each with the bytes of all of
\* its pieces in order, and when it is through no buffer is left allocated.
THEOREM RetrieveSorts == CacheSpec => []RetrievedSorted
<1>1. CacheInv => RetrievedSorted
  BY InvRetrievedSorted
<1> QED BY <1>1, CacheInvHolds, PTL

(***************************************************************************)
(* CollectOnComm                                                           *)
(***************************************************************************)
USE TasksAssumption, IntAssumption

PCs == {"reduce", "exit", "close", "overflow", "gather", "sum", "move", "done"}
CollectTypes ==
  /\ sw \in {0, 1}
  /\ count \in [Tasks -> 0 .. IntMax]
  /\ pc \in [Tasks -> PCs]
  /\ p \in 0 .. N
  /\ displace \in [Tasks -> Int]
  /\ loc \in Int
  /\ aborted \in BOOLEAN /\ moved \in BOOLEAN

\* The root has begun to add up the counts.
Adding == pc[Root] \in {"sum", "move", "done"}
Exact ==
  /\ p \in 1 .. N
  /\ \A t \in 0 .. p - 1 : displace[t] = SumOf(count, 0 .. t - 1) /\ displace[t] \in 0 .. IntMax
  /\ call = "dist" => loc = SumOf(count, 0 .. p - 1) /\ loc \in 0 .. IntMax
CollectInv ==
  /\ CollectTypes
  /\ ~Adding => ~moved /\ displace[0] = 0
  /\ Adding /\ ~aborted => Exact
  /\ pc[Root] \in {"move", "done"} => p = N
  /\ moved => pc[Root] = "done" /\ ~aborted

LEMMA RootIsTask ==
  ASSUME sw \in {0, 1}
  PROVE  Root \in Tasks /\ 0 \in Tasks
BY DEF Root, Tasks

\* How many numbers are ints.
Ints == 2 * (IntMax + 1)

LEMMA AsIntIs ==
  ASSUME NEW x \in 0 .. 2 * IntMax
  PROVE  /\ AsInt(x) \in Int
         /\ x <= IntMax => AsInt(x) = x
         /\ x > IntMax => AsInt(x) < 0
<1>1. Ints \in Nat \ {0} /\ Ints = 2 * IntMax + 2 /\ x + IntMax + 1 \in Nat
  BY DEF Ints
<1>2. CASE x <= IntMax
  <2>1. (x + IntMax + 1) % Ints = x + IntMax + 1
    BY <1>1, <1>2
  <2> QED BY <1>2, <2>1 DEF AsInt, Ints
<1>3. CASE x > IntMax
  <2>1. (x + IntMax + 1) % Ints = x + IntMax + 1 - Ints
    BY <1>1, <1>3
  <2> QED BY <1>1, <1>3, <2>1 DEF AsInt, Ints
<1> QED BY <1>2, <1>3

LEMMA InitCollected == Init => CollectInv
<1> SUFFICES ASSUME Init PROVE CollectInv
  OBVIOUS
<1>1. sw \in {0, 1}
  BY DEF Init
<1>2. Root \in Tasks /\ 0 \in Tasks
  BY <1>1, RootIsTask
<1>3. CollectTypes
  <2>1. pc \in [Tasks -> PCs]
    BY DEF Init, PCs
  <2>2. /\ count \in [Tasks -> 0 .. IntMax] /\ displace \in [Tasks -> Int]
        /\ p = 0 /\ loc = 0 /\ aborted = FALSE /\ moved = FALSE
    BY DEF Init
  <2>3. aborted \in BOOLEAN /\ moved \in BOOLEAN
    BY <2>2
  <2>4. p \in 0 .. N /\ loc \in Int
    BY <2>2
  <2> QED BY <1>1, <2>1, <2>2, <2>3, <2>4 DEF CollectTypes
<1>4. ~Adding /\ pc[Root] \notin {"move", "done"}
  BY <1>2 DEF Init, Adding
<1>5. ~aborted /\ ~moved /\ displace[0] = 0
  BY <1>2 DEF Init
<1> QED BY <1>3, <1>4, <1>5 DEF CollectInv

\* The step of a task that is not the root.
LEMMA SendCollected ==
  ASSUME CollectInv, NEW t \in Tasks, Send(t)
  PROVE  CollectInv'
<1>1. UNCHANGED <<call, sw, count, noutbuf, p, displace, loc, aborted, moved>>
  BY DEF Send
<1>2. Root' = Root /\ Root \in Tasks
  BY <1>1, RootIsTask DEF CollectInv, CollectTypes, Root
<1>3. pc'[Root] = pc[Root] /\ pc' \in [Tasks -> PCs]
  BY <1>2 DEF Send, Arrive, CollectInv, CollectTypes, PCs
<1>4. Adding' = Adding /\ Exact' = Exact
  BY <1>1, <1>2, <1>3 DEF Adding, Exact
<1> QED BY <1>1, <1>2, <1>3, <1>4 DEF CollectInv, CollectTypes

LEMMA ReduceCollected ==
  ASSUME CollectInv, Reduce
  PROVE  CollectInv'
<1>1. UNCHANGED <<call, sw, count, p, displace, loc, moved>> /\ aborted' \in BOOLEAN
  BY DEF Reduce
<1>2. Root' = Root /\ Root \in Tasks
  BY <1>1, RootIsTask DEF CollectInv, CollectTypes, Root
<1>3. pc[Root] = "reduce" /\ pc'[Root] \in {"exit", "close", "gather", "overflow"} /\ pc' \in [Tasks -> PCs]
  BY <1>2 DEF Reduce, Arrive, Signal, CollectInv, CollectTypes, PCs
<1>4. ~Adding' /\ ~Adding
  BY <1>2, <1>3 DEF Adding
<1> QED BY <1>1, <1>2, <1>3, <1>4 DEF CollectInv, CollectTypes

LEMMA GatherCollected ==
  ASSUME CollectInv, Gather
  PROVE  CollectInv'
<1>1. UNCHANGED <<call, sw, count, displace, aborted, moved>> /\ p' = 1 /\ loc' = count[0]
  BY DEF Gather
<1>2. Root' = Root /\ Root \in Tasks /\ 0 \in Tasks
  BY <1>1, RootIsTask DEF CollectInv, CollectTypes, Root
<1>3. pc[Root] = "gather" /\ pc'[Root] = "sum" /\ pc' \in [Tasks -> PCs]
  BY <1>2 DEF Gather, Arrive, CollectInv, CollectTypes, PCs
<1>4. displace[0] = 0 /\ ~moved
  BY <1>3 DEF CollectInv, Adding
<1>5. count[0] \in 0 .. IntMax
  BY <1>2 DEF CollectInv, CollectTypes
<1>6. SumOf(count, 0 .. -1) = 0 /\ SumOf(count, 0 .. 0) = count[0]
  <2>1. 0 .. -1 = {}
    OBVIOUS
  <2>2. SumOf(count, 0 .. -1) = 0
    BY <2>1, SumOfNone
  <2>3. SumOf(count, 0 .. 0) = count[0] + SumOf(count, 0 .. 0 - 1)
    <3>1. \A i \in 0 .. 0 : count[i] \in Int
      BY <1>5
    <3> QED BY <3>1, SumOfInterval
  <2> QED BY <1>5, <2>2, <2>3
<1>7. Exact'
  <2>1. \A t \in 0 .. 0 : t = 0
    OBVIOUS
  <2>2. \A t \in 0 .. 0 : displace[t] = SumOf(count, 0 .. t - 1) /\ displace[t] \in 0 .. IntMax
    BY <1>4, <1>6, <2>1
  <2> QED BY <1>1, <1>5, <1>6, <2>2 DEF Exact
<1>8. CollectTypes'
  BY <1>1, <1>3, <1>5 DEF CollectInv, CollectTypes
<1> QED BY <1>1, <1>2, <1>3, <1>4, <1>7, <1>8 DEF CollectInv, Adding

\* One iteration: what it adds is exact, or is seen to be negative.
LEMMA AddUpCollected ==
  ASSUME CollectInv, AddUp
  PROVE  CollectInv'
<1>1. /\ UNCHANGED <<call, sw, count, noutbuf, pc, moved>>
      /\ ~aborted /\ pc[Root] = "sum" /\ p < N /\ p' = p + 1
      /\ displace' = [displace EXCEPT ![p] = AsInt(displace[p - 1] + count[p - 1])]
      /\ loc' = AsInt(loc + count[p])
      /\ aborted' = Overflow(displace'[p], loc')
  BY DEF AddUp
<1>2. Root' = Root /\ Root \in Tasks
  BY <1>1, RootIsTask DEF CollectInv, CollectTypes, Root
<1>3. Exact
  BY <1>1 DEF CollectInv, Adding
<1>4. p \in Tasks /\ p - 1 \in Tasks /\ p \in Nat /\ p - 1 \in Nat /\ p - 1 \in 0 .. p - 1
  BY <1>1, <1>3 DEF Exact, Tasks
<1>5. count[p] \in 0 .. IntMax /\ count[p - 1] \in 0 .. IntMax
  BY <1>4 DEF CollectInv, CollectTypes
<1>6. /\ displace[p - 1] = SumOf(count, 0 .. (p - 1) - 1)
      /\ displace[p - 1] \in 0 .. IntMax
  BY <1>3, <1>4 DEF Exact
<1>7. displace'[p] = AsInt(displace[p - 1] + count[p - 1])
  BY <1>1, <1>4 DEF CollectInv, CollectTypes
<1>8. displace' \in [Tasks -> Int]
  <2>1. AsInt(displace[p - 1] + count[p - 1]) \in Int
    BY <1>5, <1>6, AsIntIs
  <2> QED BY <1>1, <2>1 DEF CollectInv, CollectTypes
<1>9. loc' \in Int
  BY <1>1, <1>5 DEF CollectInv, CollectTypes, AsInt, Ints
<1>10. CollectTypes'
  BY <1>1, <1>4, <1>8, <1>9 DEF CollectInv, CollectTypes, Overflow, Tasks
<1>11. ~moved /\ Adding'
  BY <1>1, <1>2 DEF CollectInv, Adding
<1>12. ASSUME ~aborted' PROVE Exact'
  <2>1. displace'[p] \in 0 .. IntMax /\ displace'[p] = displace[p - 1] + count[p - 1]
    <3>1. ~(displace'[p] < 0)
      BY <1>1, <1>12 DEF Overflow
    <3>2. displace[p - 1] + count[p - 1] \in 0 .. 2 * IntMax
      BY <1>5, <1>6
    <3> QED BY <1>7, <3>1, <3>2, AsIntIs
  <2>2. \A i \in 0 .. p : count[i] \in Int
    BY <1>4 DEF CollectInv, CollectTypes, Tasks
  <2>3. SumOf(count, 0 .. p - 1) = count[p - 1] + SumOf(count, 0 .. (p - 1) - 1)
    BY <1>4, <2>2, SumOfInterval
  <2>4. displace'[p] = SumOf(count, 0 .. p - 1)
    BY <1>5, <1>6, <2>1, <2>3
  <2>5. ASSUME NEW t \in 0 .. p
        PROVE  displace'[t] = SumOf(count, 0 .. t - 1) /\ displace'[t] \in 0 .. IntMax
    <3>1. CASE t = p
      BY <2>1, <2>4, <3>1
    <3>2. CASE t # p
      <4>1. t \in 0 .. p - 1 /\ t \in Tasks
        BY <1>4, <3>2 DEF Tasks
      <4>2. displace'[t] = displace[t]
        BY <1>1, <3>2, <4>1 DEF CollectInv, CollectTypes
      <4> QED BY <1>3, <4>1, <4>2 DEF Exact
    <3> QED BY <3>1, <3>2
  <2>6. ASSUME call = "dist"
        PROVE  loc' = SumOf(count, 0 .. p) /\ loc' \in 0 .. IntMax
    <3>1. loc = SumOf(count, 0 .. p - 1) /\ loc \in 0 .. IntMax
      BY <1>3, <2>6 DEF Exact
    <3>2. ~(loc' < 0)
      BY <1>1, <1>12, <2>6 DEF Overflow
    <3>3. loc + count[p] \in 0 .. 2 * IntMax
      BY <1>5, <3>1
    <3>4. loc' = loc + count[p] /\ loc' \in 0 .. IntMax
      BY <1>1, <3>2, <3>3, AsIntIs
    <3>5. SumOf(count, 0 .. p) = count[p] + SumOf(count, 0 .. p - 1)
      BY <1>4, <2>2, SumOfInterval
    <3> QED BY <1>5, <3>1, <3>4, <3>5
  <2>7. p' - 1 = p /\ p' \in 1 .. N
    BY <1>1, <1>4
  <2> QED BY <1>1, <2>5, <2>6, <2>7 DEF Exact
<1> QED BY <1>1, <1>2, <1>10, <1>11, <1>12 DEF CollectInv

LEMMA SummedCollected ==
  ASSUME CollectInv, Summed
  PROVE  CollectInv'
<1>1. UNCHANGED <<call, sw, count, noutbuf, p, displace, loc, moved>> /\ ~aborted /\ p = N
  BY DEF Summed
<1>2. Root' = Root /\ Root \in Tasks
  BY <1>1, RootIsTask DEF CollectInv, CollectTypes, Root
<1>3. /\ pc[Root] = "sum" /\ pc'[Root] \in {"sum", "move"} /\ pc' \in [Tasks -> PCs]
      /\ aborted' \in BOOLEAN
  BY <1>2 DEF Summed, Arrive, CollectInv, CollectTypes, PCs
<1>4. Exact /\ ~moved
  BY <1>1, <1>3 DEF CollectInv, Adding
<1>5. Exact' = Exact
  BY <1>1 DEF Exact
<1>6. Adding'
  BY <1>2, <1>3 DEF Adding
<1>7. CollectTypes'
  BY <1>1, <1>3 DEF CollectInv, CollectTypes
<1> QED BY <1>1, <1>3, <1>4, <1>5, <1>6, <1>7 DEF CollectInv

LEMMA MoveCollected ==
  ASSUME CollectInv, Move
  PROVE  CollectInv'
<1>1. UNCHANGED <<call, sw, count, noutbuf, p, displace, loc, aborted>> /\ ~aborted /\ moved'
  BY DEF Move
<1>2. Root' = Root /\ Root \in Tasks
  BY <1>1, RootIsTask DEF CollectInv, CollectTypes, Root
<1>3. pc[Root] = "move" /\ pc'[Root] = "done" /\ pc' \in [Tasks -> PCs] /\ moved' \in BOOLEAN
  BY <1>2 DEF Move, Arrive, CollectInv, CollectTypes, PCs
<1>4. Exact /\ Exact' = Exact
  BY <1>1, <1>3 DEF CollectInv, Adding, Exact
<1>5. CollectTypes'
  BY <1>1, <1>3 DEF CollectInv, CollectTypes
<1> QED BY <1>1, <1>2, <1>3, <1>4, <1>5 DEF CollectInv, Adding

LEMMA NextCollected == CollectInv /\ [Next]_vars => CollectInv'
<1> SUFFICES ASSUME CollectInv, [Next]_vars PROVE CollectInv'
  OBVIOUS
<1>1. CASE Next
  BY <1>1, SendCollected, ReduceCollected, GatherCollected, AddUpCollected, SummedCollected,
     MoveCollected DEF Next
<1>2. CASE UNCHANGED vars
  BY <1>2 DEF vars, CollectInv, CollectTypes, Adding, Exact, Root
<1> QED BY <1>1, <1>2

\* What the root of collect_on_comm moves is, for every task, where the sum of
\* the counts before it says, however long the counts and however narrow the
\* int: no two shares overlap, and what is distributed ends where an int can
\* say.
THEOREM SharesNeverOverlap == Spec => []PlacesAreSums
<1>1. CollectInv => PlacesAreSums
  <2> SUFFICES ASSUME CollectInv, moved PROVE PlacesAreSums
    BY DEF PlacesAreSums
  <2>1. Exact /\ p = N
    BY DEF CollectInv, Adding
  <2>2. \A S : TrueSum(S) = SumOf(count, S)
    BY DEF TrueSum, SumOf
  <2>3. 0 .. p - 1 = Tasks
    BY <2>1 DEF Tasks
  <2>4. \A t \in Tasks : displace[t] = TrueSum(0 .. t - 1)
    BY <2>1, <2>2, <2>3 DEF Exact
  <2>5. call = "dist" => TrueSum(Tasks) <= IntMax
    BY <2>1, <2>2, <2>3 DEF Exact
  <2> QED BY <2>4, <2>5 DEF PlacesAreSums
<1> QED BY InitCollected, NextCollected, <1>1, PTL DEF Spec
=============================================================================
