----------------------------- MODULE MCAdBuffer -----------------------------
(* Adjoint programs: two types and bits; control values of two bits with     *)
(* arrays between them; one type with LOOKs; bits with LOOKs.                *)
EXTENDS AdBuffer
CONSTANTS i4, r8, x, y

Two == {x, y}
program(types, values, control, arrays, looks, depth) ==
  [types |-> types, values |-> values, control |-> control, arrays |-> arrays,
   looks |-> looks, depth |-> depth]
MCPrograms ==
  {program({i4, r8}, Two, 1, {}, FALSE, 5),
   program({i4}, {x}, 2, {2}, FALSE, 4),
   program({r8}, Two, 0, {}, TRUE, 7),
   program({i4}, {x}, 1, {}, TRUE, 5)}
=============================================================================
