----------------------------- MODULE HaloBuffers ----------------------------
(***************************************************************************)
(* The memory of a halo exchange.  gen_halos (tools/gen_comms.c) reads the *)
(* fields of a halo from the Registry twice: once to count them, for the   *)
(* call of RSL_LITE_INIT_EXCH that reserves the buffers, and again in      *)
(* gen_packs_halo, to write a call of RSL_LITE_PACK for each of them.      *)
(* Nothing but the care of its author makes the two agree; at run time     *)
(* RSL_LITE_PACK compares its cursor with the buffer and aborts the model  *)
(* ("memory overwrite in rsl_lite_pack").                                  *)
(*                                                                         *)
(* A field is a record: its dims (2, 3 or 4), its type, the first and last *)
(* level of its vertical dimension (full: the levels of the patch), for a  *)
(* scalar array the tracers and the product of its further dimensions, and *)
(* sub, whether it lives on the subgrid.  The bytes of the two neighbours  *)
(* along an axis are alike; one stands for both.                           *)
(***************************************************************************)
EXTENDS Integers, Sequences, FiniteSets, FiniteSetsExt

CONSTANTS Menus,       \* sets of fields a halo may be made of
          MaxFields,   \* bound: fields of a halo
          MaxHalos,    \* bound: exchanges that follow each other
          Stencils,    \* the stencils of the Registry that are used
          Width, Height, Kpe,  \* ipe-ips+1, jpe-jps+1 and kpe of the patch; kps = 1
          Sr,          \* sr_x and sr_y, the refinement of the subgrid
          MAX_VDIMS, MAX_4DARRAYS

Types == {"real", "integer", "double"}
WordSize == [real |-> 4, integer |-> 4, double |-> 8]  \* RWORDSIZE, IWORDSIZE, DWORDSIZE
Slack == 512           \* what buffer_for_proc adds when it allocates

ASSUME PatchAssumption ==
  /\ Width \in Nat /\ Height \in Nat /\ Kpe \in Nat \ {0} /\ Sr \in Nat
  /\ MaxFields \in Nat /\ MaxHalos \in Nat
  /\ MAX_VDIMS \in Nat /\ MAX_4DARRAYS \in Nat

VARIABLES halo,     \* the fields of the halo, in the order of the Registry
          stencil,  \* its stencil
          phase,    \* "idle", "count", "init", "pack", "exit", "abort"
          axis,     \* "y" or "x"
          pos,      \* the field at hand
          n2, n3,   \* n2dR, n2dI, n2dD and n3dR, n3dI, n3dD
          n4,       \* n4d and the sum of the num_ terms of the arrays
          vdims,    \* the ends of the vertical dimensions seen
          subgrid,  \* -1, or whether the first field is on the subgrid
          size,     \* the size of the buffer of each axis
          curs,     \* yp_curs or xp_curs
          halos     \* how many exchanges were begun
bufferVars == <<halo, stencil, phase, axis, pos, n2, n3, n4, vdims, subgrid, size, curs, halos>>
counts == <<n2, n3, n4, vdims, subgrid>>

Zero == [t \in Types |-> 0]
Lists == UNION {[1 .. k -> m] : k \in 1 .. MaxFields, m \in Menus}

\* maxstenwidth: the half-width of a stencil of so many points
StencilWidth == [s \in {4, 8, 12, 24, 48, 80, 120, 168} |->
  CASE s \in {4, 8} -> 1 [] s \in {12, 24} -> 2 [] s = 48 -> 3
    [] s = 80 -> 4 [] s = 120 -> 5 [] s = 168 -> 6]
ASSUME StencilsAssumption == Stencils # {} /\ Stencils \subseteq DOMAIN StencilWidth
shw == StencilWidth[stencil]

BuffersInit ==
  /\ halo = <<>> /\ stencil = CHOOSE s \in Stencils : TRUE
  /\ phase = "idle" /\ axis = "y" /\ pos = 1
  /\ n2 = Zero /\ n3 = Zero /\ n4 = [arrays |-> 0, sum |-> 0]
  /\ vdims = {} /\ subgrid = -1
  /\ size = [ax \in {"y", "x"} |-> 0] /\ curs = 0
  /\ halos = 0

\* The model exchanges a halo; the buffers are as the last one left them.
Begin ==
  /\ phase = "idle"
  /\ halos < MaxHalos /\ halos' = halos + 1
  /\ halo' \in Lists /\ stencil' \in Stencils
  /\ phase' = "count" /\ axis' = "y" /\ pos' = 1
  /\ n2' = Zero /\ n3' = Zero /\ n4' = [arrays |-> 0, sum |-> 0]
  /\ vdims' = {} /\ subgrid' = -1
  /\ UNCHANGED <<size, curs>>
-----------------------------------------------------------------------------
(* gen_halos: the count *)

Now == halo[pos]
FirstLevel(f) == IF f.full THEN 1 ELSE f.first
LastLevel(f)  == IF f.full THEN Kpe ELSE f.last

TooMany == \/ Now.dims >= 3 /\ LastLevel(Now) \notin vdims /\ Cardinality(vdims) = MAX_VDIMS
           \/ Now.dims = 4 /\ n4.arrays = MAX_4DARRAYS

\* The term of a scalar array: num_ of it, times its further dimensions
Tracers(f) == f.num * f.more

CountField ==
  /\ phase = "count" /\ pos <= Len(halo)
  /\ ~TooMany
  /\ subgrid' = IF subgrid = -1 THEN (IF Now.sub THEN 1 ELSE 0) ELSE subgrid
  /\ vdims' = IF Now.dims >= 3 THEN vdims \union {LastLevel(Now)} ELSE vdims
  /\ n4' = IF Now.dims = 4
           THEN [arrays |-> n4.arrays + 1, sum |-> n4.sum + Tracers(Now)] ELSE n4
  /\ n3' = IF Now.dims = 3 THEN [n3 EXCEPT ![Now.type] = @ + 1] ELSE n3
  /\ n2' = IF Now.dims = 2 THEN [n2 EXCEPT ![Now.type] = @ + 1] ELSE n2
  /\ pos' = pos + 1
  /\ UNCHANGED <<halo, stencil, phase, axis, size, curs, halos>>

\* "too many different vertical dimensions", "too many 4d arrays"
GiveUp ==
  /\ phase = "count" /\ pos <= Len(halo)
  /\ TooMany
  /\ phase' = "exit"
  /\ UNCHANGED <<halo, stencil, axis, pos, counts, size, curs, halos>>

Counted ==
  /\ phase = "count" /\ pos = Len(halo) + 1
  /\ phase' = "init"
  /\ UNCHANGED <<halo, stencil, axis, pos, counts, size, curs, halos>>
-----------------------------------------------------------------------------
(* RSL_LITE_INIT_EXCH, as it is called *)

\* The points of the patch across the axis, those of the subgrid if it is on it
Scaled(p, sub) == IF sub THEN p * Sr ELSE p
Extent(sub) == Scaled(IF axis = "y" THEN Width ELSE Height, sub)

\* Mistake: the levels are those of the patch, whatever the fields have.
LevelsOfPatch == Kpe
\* kps .. MAX(1, ends), or kps .. kpe on the subgrid; kps = 1 wherever the levels
\* of the fields begin
Levels == IF subgrid = 0 THEN Max({1} \union vdims) ELSE Kpe

Planes(t) == (n3[t] + IF t = "real" THEN n4.sum ELSE 0) * Levels + n2[t]
BytesAsked ==
  LET row == (Extent(subgrid # 0) + 2 * shw) * shw
  IN  row * (WordSize["real"] * Planes("real") + WordSize["integer"] * Planes("integer")
             + WordSize["double"] * Planes("double"))

\* buffer_for_proc: the buffer grows when it is too small, and is kept.
Grown(have, asked) == IF have < asked THEN asked + Slack ELSE have

InitExch ==
  /\ phase = "init"
  /\ size' = [size EXCEPT ![axis] = Grown(@, BytesAsked)]
  /\ curs' = 0
  /\ phase' = "pack" /\ pos' = 1
  /\ UNCHANGED <<halo, stencil, axis, counts, halos>>
-----------------------------------------------------------------------------
(* The calls of RSL_LITE_PACK that gen_packs_halo writes *)

LevelsOf(f) == IF f.dims = 2 THEN 1 ELSE LastLevel(f) - FirstLevel(f) + 1

\* What the generator takes for granted: the arrays of scalars are reals and have
\* the scalar that is not used; no field on the subgrid has more levels than the
\* patch.
ASSUME MenusAssumption ==
  \A m \in Menus : \A f \in m :
    /\ f.dims \in {2, 3, 4} /\ f.type \in Types
    /\ f.full \in BOOLEAN /\ f.sub \in BOOLEAN
    /\ f.first \in Int /\ f.last \in Int
    /\ f.dims = 4 => f.type = "real" /\ f.num \in Nat \ {0} /\ f.more \in Nat
    /\ f.sub => LevelsOf(f) <= Kpe

\* DO itrace = PARAM_FIRST_SCALAR, num_; DO idim
CallsFor(f) == IF f.dims = 4 THEN (f.num - 1) * f.more ELSE 1
Bytes(f) == shw * LevelsOf(f) * (Extent(f.sub) + 2 * shw) * WordSize[f.type]

Fits(f) == curs + CallsFor(f) * Bytes(f) <= size[axis]

\* Every call of a field passes the test.
PackField ==
  /\ phase = "pack" /\ pos <= Len(halo)
  /\ Fits(Now)
  /\ curs' = curs + CallsFor(Now) * Bytes(Now)
  /\ pos' = pos + 1
  /\ UNCHANGED <<halo, stencil, phase, axis, counts, size, halos>>

\* One does not: MPI_Abort
Overwrite ==
  /\ phase = "pack" /\ pos <= Len(halo)
  /\ ~Fits(Now)
  /\ phase' = "abort"
  /\ UNCHANGED <<halo, stencil, axis, pos, counts, size, curs, halos>>

\* The messages along y are through: the same along x.
ExchY ==
  /\ phase = "pack" /\ pos = Len(halo) + 1 /\ axis = "y"
  /\ axis' = "x" /\ phase' = "init"
  /\ curs' = 0
  /\ UNCHANGED <<halo, stencil, pos, counts, size, halos>>

ExchX ==
  /\ phase = "pack" /\ pos = Len(halo) + 1 /\ axis = "x"
  /\ phase' = "idle"
  /\ curs' = 0
  /\ UNCHANGED <<halo, stencil, axis, pos, counts, size, halos>>

BuffersNext == Begin \/ CountField \/ GiveUp \/ Counted \/ InitExch \/ PackField \/ Overwrite \/ ExchY \/ ExchX
BuffersSpec == BuffersInit /\ [][BuffersNext]_bufferVars
-----------------------------------------------------------------------------

MixesGrids == \E f, g \in DOMAIN halo : halo[f].sub # halo[g].sub
\* A field with levels below kps, like those on the dimension m_hr (0:287) of the
\* Registry: it is packed with one level more than is reserved.
BeginsBelowOne == \E i \in DOMAIN halo : halo[i].dims >= 3 /\ FirstLevel(halo[i]) < 1

\* What was counted for a halo suffices for what is packed: whatever the types
\* of its fields and whatever exchanges came before it, the model is not aborted
\* by a buffer the generator made too small, if it aborts at all.  It may be in
\* two cases: when fields on and off the subgrid share a halo, of which the
\* generator warns, and when the levels of a field begin below one, of which it
\* does not; no halo of the Registry has such a field.
NeverOverwrites == phase = "abort" => MixesGrids \/ BeginsBelowOne
=============================================================================
