----------------------------- MODULE MCBuffers ------------------------------
(* Three places where one loop adds up the room that another one needs: the  *)
(* buffers of a halo, the cache of a quilt server, the shares of a collected *)
(* buffer.  They have nothing to do with each other: one of them runs.       *)
EXTENDS HaloBuffers, FieldCache, CollectOnComm
VARIABLE part

f2(type, sub) == [dims |-> 2, type |-> type, full |-> FALSE, first |-> 1, last |-> 1, sub |-> sub]
f3(type, sub) == [dims |-> 3, type |-> type, full |-> TRUE, first |-> 1, last |-> 1, sub |-> sub]
levels(type, a, b, sub) ==
  [dims |-> 3, type |-> type, full |-> FALSE, first |-> a, last |-> b, sub |-> sub]
tracers(num, more) ==
  [dims |-> 4, type |-> "real", full |-> TRUE, first |-> 1, last |-> 1, sub |-> FALSE,
   num |-> num, more |-> more]

\* State fields: 2D, on all levels, on more levels than the patch has, from the
\* second one or from level zero, tracers
OnGrid == {f2("integer", FALSE), f3("double", FALSE), levels("real", 1, 46, FALSE),
           levels("integer", 2, 40, FALSE), levels("real", 0, 40, FALSE), tracers(3, 2)}
\* Fire fields: on the subgrid, 2D and by fuel class
OnSubgrid == {f2("real", TRUE), f2("integer", TRUE), levels("real", 1, 5, TRUE)}

\* Fields on and off the subgrid in one halo
Mixed == {f2("real", FALSE), f3("real", FALSE), f2("real", TRUE), levels("real", 1, 5, TRUE)}
MCMenus == {OnGrid, OnSubgrid, Mixed}

MinusTwo == -2

PartsInit ==
  /\ part \in {"halo", "cache", "collect"}
  /\ BuffersInit /\ CacheInit /\ Init
  /\ part # "collect" => call = "dist" /\ sw = 0 /\ count = [t \in Tasks |-> 0]

PartsNext ==
  \/ part = "halo" /\ BuffersNext /\ UNCHANGED <<part, cacheVars, vars>>
  \/ part = "cache" /\ CacheNext /\ UNCHANGED <<part, bufferVars, vars>>
  \/ part = "collect" /\ Next /\ UNCHANGED <<part, bufferVars, cacheVars>>

PartsSpec == PartsInit /\ [][PartsNext]_<<part, bufferVars, cacheVars, vars>>
=============================================================================
