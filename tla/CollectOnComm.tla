--------------------------- MODULE CollectOnComm ----------------------------
(***************************************************************************)
(* frame/collect_on_comm.c: the buffers of all tasks of a communicator are *)
(* collected on a root, or distributed from it.  The tasks first send the  *)
(* root how much they have (or want); the root adds these counts up to     *)
(* where in its buffer each share begins; then the shares are moved.  All  *)
(* of it in C's int.                                                       *)
(*                                                                         *)
(* A quilt server gets its clients' messages this way: one MPI_Reduce sums *)
(* up the sizes into obufsize.  A sum above zero is a number of bytes to   *)
(* allocate and collect into; zero is an ioclose, -100 the end of the run, *)
(* and any other negative number an overflow.                              *)
(***************************************************************************)
EXTENDS Integers, FiniteSets, FiniteSetsExt

CONSTANTS N,       \* tasks of the communicator
          IntMax,    \* INT_MAX
          ExitSize,  \* -100, the "magic number"
          Calls      \* the calls checked: "collect", "dist", "quilt"

ASSUME TasksAssumption == N \in Nat \ {0}
ASSUME IntAssumption == IntMax \in Nat /\ ExitSize \in Int /\ ExitSize < 0

VARIABLES
  call,      \* which of them this is
  sw,        \* 0: the root is task 0, 1: it is the last one
  count,     \* ninbuf of the tasks (noutbuf when distributing)
  noutbuf,   \* the size of the root's buffer
  pc,        \* where each task is
  p,         \* the root's loop variable
  displace,  \* where the shares begin
  loc,       \* noutbuf_loc
  aborted,   \* MPI_Abort was called
  moved      \* the root's buffer has been filled, or emptied

vars == <<call, sw, count, noutbuf, pc, p, displace, loc, aborted, moved>>

Tasks == 0 .. N - 1

\* The ints are the numbers from -(IntMax + 1) to IntMax: an overflow wraps
\* around among them.
AsInt(x) == ((x + IntMax + 1) % (2 * (IntMax + 1))) - IntMax - 1

Root == IF sw = 0 THEN 0 ELSE N - 1
TrueSum(S) == MapThenSumSet(LAMBDA t : count[t], S)

Init ==
  /\ call \in Calls
  /\ sw \in IF call = "quilt" THEN {1} ELSE {0, 1}
  /\ count \in [Tasks -> 0 .. IntMax]
  /\ call = "quilt" => count[N - 1] = 0
  /\ noutbuf \in IF call = "collect" THEN 0 .. IntMax ELSE {0}
  /\ pc = [t \in Tasks |-> IF call = "quilt" THEN "reduce" ELSE "gather"]
  /\ p = 0 /\ loc = 0
  /\ displace = [t \in Tasks |-> 0]
  /\ aborted = FALSE /\ moved = FALSE

-----------------------------------------------------------------------------
Arrive(t, from, to) == pc[t] = from /\ pc' = [pc EXCEPT ![t] = to]

\* A task that only sends may go on before the others have come.
Send(t) ==
  /\ ~aborted
  /\ t # Root
  /\ \/ Arrive(t, "reduce", "gather")
     \/ Arrive(t, "gather", "move")
     \/ /\ call # "dist" \/ moved        \* who receives waits for the root
        /\ Arrive(t, "move", "done")
  /\ UNCHANGED <<call, sw, count, noutbuf, p, displace, loc, aborted, moved>>

\* Everyone else has sent his part of the collective the root is in.
Came(before) == \A t \in Tasks \ {Root} : pc[t] \notin before

\* What the server takes the sum for
Signal(sum) == CASE sum = ExitSize -> "exit" [] sum = 0 -> "close" [] sum > 0 -> "gather"
                 [] OTHER -> "overflow"

\* The server's MPI_Reduce.  "Possible 32-bit overflow on output server" stops
\* the run; a sum that has come round to zero or to ExitSize passes for a close
\* or an exit, and the clients wait in a gather.
Reduce ==
  /\ ~aborted
  /\ Came({"reduce"})
  /\ noutbuf' = AsInt(TrueSum(Tasks))
  /\ Arrive(Root, "reduce", Signal(noutbuf'))
  /\ aborted' = (Signal(noutbuf') = "overflow")
  /\ UNCHANGED <<call, sw, count, p, displace, loc, moved>>

\* MPI_Gather of the counts
Gather ==
  /\ ~aborted
  /\ Came({"reduce", "gather"})
  /\ Arrive(Root, "gather", "sum")
  /\ p' = 1
  /\ loc' = count[0]
  /\ UNCHANGED <<call, sw, count, noutbuf, displace, aborted, moved>>

\* Mistake: the place of a share is not checked.
OverflowUnchecked(d, l) == call = "dist" /\ l < 0

\* dst_on_comm also checks the sum, col_on_comm only where the share begins.
Overflow(d, l) == d < 0 \/ (call = "dist" /\ l < 0)

\* One iteration of the loop over the tasks
AddUp ==
  /\ ~aborted
  /\ pc[Root] = "sum" /\ p < N
  /\ displace' = [displace EXCEPT ![p] = AsInt(displace[p - 1] + count[p - 1])]
  /\ loc' = AsInt(loc + count[p])
  /\ aborted' = Overflow(displace'[p], loc')
  /\ p' = p + 1
  /\ UNCHANGED <<call, sw, count, noutbuf, pc, moved>>

\* A collection must fit in noutbuf; a distribution is not checked.
Summed ==
  /\ ~aborted
  /\ p = N
  /\ IF call # "dist" /\ loc > noutbuf
     THEN aborted' = TRUE /\ pc[Root] = "sum" /\ UNCHANGED pc
     ELSE Arrive(Root, "sum", "move") /\ UNCHANGED aborted
  /\ UNCHANGED <<call, sw, count, noutbuf, p, displace, loc, moved>>

\* MPI_Gatherv, which needs everyone's share; or MPI_Scatterv
Move ==
  /\ ~aborted
  /\ call # "dist" => Came({"reduce", "gather", "move"})
  /\ Arrive(Root, "move", "done")
  /\ moved' = TRUE
  /\ UNCHANGED <<call, sw, count, noutbuf, p, displace, loc, aborted>>

Next ==
  \/ \E t \in Tasks : Send(t)
  \/ Reduce \/ Gather \/ AddUp \/ Summed \/ Move

Spec == Init /\ [][Next]_vars
-----------------------------------------------------------------------------
(* Properties *)

\* What is moved is where the counts, added up without limit, put it: no two
\* shares overlap.  An overflow at one task makes the place of the next one
\* negative, so it is seen before a sum wraps around to a positive number.
\* What is distributed also ends where an int can say; what is collected may
\* not, for its last share is not tested.
PlacesAreSums ==
  moved => /\ \A t \in Tasks : displace[t] = TrueSum(0 .. t - 1)
           /\ call = "dist" => TrueSum(Tasks) <= IntMax

=============================================================================
