---------------------------- MODULE HaloExchange ----------------------------
(***************************************************************************)
(* The exchange of halos between the tasks of a domain, as the routines    *)
(* written by gen_halos (tools/gen_comms.c) do it with RSL_LITE: first     *)
(* along y, then along x, the second time with the rows that the first     *)
(* time brought, so that the corners arrive without a message of their own.*)
(*                                                                         *)
(* A patch may be narrower than the stencil (in the intermediate domain of *)
(* a nest it often is).  Then one message to either side is not enough:    *)
(* along each axis the tasks iterate, and in iteration k a task passes on  *)
(* what it received in iteration k-1.  No task is told how many iterations *)
(* the others need: each works out from TASK_FOR_POINT whose points it     *)
(* must send and may expect, and stops when nothing is left to ask for.    *)
(*                                                                         *)
(* A field of one value per point stands for the fields of a halo, which   *)
(* are packed and unpacked by the same list in the same order.             *)
(***************************************************************************)
EXTENDS TaskForPoint, Sequences, FiniteSets, FiniteSetsExt, Functions

CONSTANTS Grids,   \* the domains, and how they are exchanged
          Bdy,     \* bdx, bdy: the width of the boundary in memory
          Junk     \* a value never computed

\* nx, ny: the mesh of tasks; ni, nj: points of the domain, or of the nest over
\* it; ratio: parent_grid_ratio, 0 when the domain is not intermediate; nest:
\* shw of the nest; halos: the stencil widths of the exchanges that follow each
\* other; rendezvous: a send completes when it is received, not before.
ASSUME GridAssumption ==
  \A g \in Grids :
    /\ g.nx \in Nat \ {0} /\ g.ny \in Nat \ {0} /\ g.ni \in Nat \ {0} /\ g.nj \in Nat \ {0}
    /\ g.ratio \in Nat /\ g.nest \in Nat
    /\ g.halos \in Seq(Nat \ {0}) /\ g.halos # <<>> /\ g.rendezvous \in BOOLEAN
ASSUME BdyAssumption == Bdy \in Nat

VARIABLES grid,  \* the domain, one of Grids
          st,    \* the exchange of each task
          mem,   \* its memory of the field
          chan   \* messages on their way, by sender and receiver
vars == <<grid, st, mem, chan>>

Mesh(g) == (0 .. g.nx - 1) \X (0 .. g.ny - 1)
Tasks == Mesh(grid)
Axes == {"y", "x"}
Place(t, ax) == IF ax = "x" THEN t[1] ELSE t[2]
Count(g, ax) == IF ax = "x" THEN g.nx ELSE g.ny
Points(g, ax) == IF ax = "x" THEN g.ni ELSE g.nj

\* The neighbour of t along an axis (MPI_Cart_shift)
Neighbour(t, ax, d) == IF ax = "x" THEN <<t[1] + d, t[2]>> ELSE <<t[1], t[2] + d>>
Links == {l \in Tasks \X Tasks :
  \E ax \in Axes, d \in {-1, 1} : l[2] = Neighbour(l[1], ax, d)}
Minus(t, ax) == Neighbour(t, ax, -1)
Plus(t, ax)  == Neighbour(t, ax, 1)

-----------------------------------------------------------------------------
(* Domain, patch and memory of a task, in one dimension.  All of these are   *)
(* functions of the domain, which are evaluated once.                        *)

LastPoint(g, ax) ==
  IF g.ratio = 0 THEN Points(g, ax) ELSE Points(g, ax) \div g.ratio + 2 + 2 * g.nest
Domain(g, ax) == 1 .. LastPoint(g, ax)

MaxHalo(g) == Max(Range(g.halos) \union {g.nest})

\* Owner of point k along an axis, within the domain or beyond its ends
Owner == [g \in Grids |-> [ax \in Axes |->
  [k \in 1 - 2 * MaxHalo(g) .. LastPoint(g, ax) + 2 * MaxHalo(g) |->
     TaskOf(IF g.ratio = 0 THEN k ELSE (k - (g.nest + 1)) * g.ratio + 2,
            Points(g, ax), Count(g, ax))]]]

Own == [g \in Grids |-> [ax \in Axes |-> [p \in 0 .. Count(g, ax) - 1 |->
  {k \in Domain(g, ax) : Owner[g][ax][k] = p}]]]

\* check_a_mundo refuses small patches, and tasks without points of an
\* intermediate domain do not exchange.
ASSUME PatchAssumption == \A g \in Grids, ax \in Axes : {} \notin Range(Own[g][ax])

\* ips and ipe; the tasks at the ends of an intermediate domain extend it.
Edge(g) == IF g.ratio = 0 THEN 0 ELSE g.nest
Patch == [g \in Grids |-> [ax \in Axes |-> [p \in 0 .. Count(g, ax) - 1 |->
  [first |-> Min(Own[g][ax][p]) - (IF p = 0 THEN Edge(g) ELSE 0),
   last  |-> Max(Own[g][ax][p]) + (IF p = Count(g, ax) - 1 THEN Edge(g) ELSE 0)]]]]
First(t, ax) == Patch[grid][ax][Place(t, ax)].first
Final(t, ax) == Patch[grid][ax][Place(t, ax)].last

\* Mistake: no boundary is added to the domain.
MemoryOfDomain == [g \in Grids |-> [t \in Mesh(g) |-> [ax \in Axes |->
  LET p == Patch[g][ax][Place(t, ax)] IN
  Max({p.first - MaxHalo(g), 1}) - 1 .. Min({p.last + MaxHalo(g), LastPoint(g, ax)}) + 1]]]
\* ims .. ime
Memory == [g \in Grids |-> [t \in Mesh(g) |-> [ax \in Axes |->
  LET p == Patch[g][ax][Place(t, ax)] IN
  Max({p.first - MaxHalo(g), 1 - Bdy}) - 1 .. Min({p.last + MaxHalo(g), LastPoint(g, ax) + Bdy}) + 1]]]

Cells == [g \in Grids |-> [t \in Mesh(g) |-> Memory[g][t]["x"] \X Memory[g][t]["y"]]]
OwnCells == [g \in Grids |-> [t \in Mesh(g) |-> Own[g]["x"][t[1]] \X Own[g]["y"][t[2]]]]

\* The points a stencil reads: the patch and the halo, inside the domain
Reach(t, ax, shw) == (First(t, ax) - shw .. Final(t, ax) + shw) \intersect Domain(grid, ax)

-----------------------------------------------------------------------------
(* rsl_comm_iter *)

\* The pointers of COMMON /rcii/: minus_send_start, minus_recv_start,
\* plus_send_start, plus_recv_start
Starts(t, ax) == [sm |-> First(t, ax), rm |-> First(t, ax) - 1,
                  sp |-> Final(t, ax), rp |-> Final(t, ax) + 1]

\* The points from k on in direction d, as far as a stencil needs them (room of
\* them), that task p owns: the loop goes on while they do.
Stretch(ax, k, d, room, p) ==
  Max({m \in 0 .. room : \A e \in 0 .. m - 1 : Owner[grid][ax][k + d * e] = p} \union {0})

\* Whose points are sent down in iteration it: those of the task it - 1 above.
Source(me, it) == me + (it - 1)

\* Mistake: the loop of the sends to minus ends a point early.
RoomsShort(t, ax, shw, from) ==
  LET up == Place(t, ax) < Count(grid, ax) - 1
      dn == Place(t, ax) > 0
  IN  [sm |-> IF dn THEN First(t, ax) + shw - 1 - from.sm ELSE 0,
       rm |-> IF dn THEN from.rm - (First(t, ax) - shw) + 1 ELSE 0,
       sp |-> IF up THEN from.sp - (Final(t, ax) - shw) ELSE 0,
       rp |-> IF up THEN Final(t, ax) + shw - from.rp + 1 ELSE 0]

\* How many points each loop may take before the stencil is full
Rooms(t, ax, shw, from) ==
  LET up == Place(t, ax) < Count(grid, ax) - 1
      dn == Place(t, ax) > 0
  IN  [sm |-> IF dn THEN First(t, ax) + shw - from.sm ELSE 0,
       rm |-> IF dn THEN from.rm - (First(t, ax) - shw) + 1 ELSE 0,
       sp |-> IF up THEN from.sp - (Final(t, ax) - shw) ELSE 0,
       rp |-> IF up THEN Final(t, ax) + shw - from.rp + 1 ELSE 0]

\* sendw_m, recvw_m, sendw_p, recvw_p
Widths(t, ax, shw, from, it) ==
  LET me == Place(t, ax)
      room == Rooms(t, ax, shw, from)
  IN  [sm |-> Stretch(ax, from.sm,  1, room.sm, Source(me, it)),
       rm |-> Stretch(ax, from.rm, -1, room.rm, me - it),
       sp |-> Stretch(ax, from.sp, -1, room.sp, me - (it - 1)),
       rp |-> Stretch(ax, from.rp,  1, room.rp, me + it)]

Went(t, ax, shw, from) == \E r \in Range(Rooms(t, ax, shw, from)) : r > 0

Advance(from, w) == [sm |-> from.sm + w.sm, rm |-> from.rm - w.rm,
                     sp |-> from.sp - w.sp, rp |-> from.rp + w.rp]

-----------------------------------------------------------------------------
(* RSL_LITE_PACK: a message is the words of a box of cells, in order *)

Box(along, across) == [along |-> along, across |-> across]
Size(box) == Cardinality(box.along) * Cardinality(box.across)
CellAt(ax, a, c) == IF ax = "x" THEN <<a, c>> ELSE <<c, a>>
InBox(ax, box, cell) == LET z == CellAt(ax, cell[1], cell[2]) IN z[1] \in box.along /\ z[2] \in box.across

\* f_pack_int and f_unpack_int visit the cells of a box in one order: the p-th
\* cell, and the place of a cell.
CellOf(ax, box, p) ==
  LET width == Cardinality(box.along) IN
  CellAt(ax, Min(box.along) + ((p - 1) % width), Min(box.across) + ((p - 1) \div width))
PlaceOf(ax, box, cell) ==
  LET z == CellAt(ax, cell[1], cell[2]) IN
  1 + (z[1] - Min(box.along)) + (z[2] - Min(box.across)) * Cardinality(box.along)

Other(ax) == IF ax = "x" THEN "y" ELSE "x"
\* Mistake: only the patch itself is sent, without the rows the halo added.
AcrossOwn(t, ax, shw) == Own[grid][Other(ax)][Place(t, Other(ax))]
\* js .. je for x (JMAX, JMIN), is .. ie for y (IMAX, IMIN)
Across(t, ax, shw) == Reach(t, Other(ax), shw)

\* The cells sent and received in an iteration with pointers from and widths w
BoxOf(t, s, side) ==
  LET f == s.from
      w == s.w
  IN  Box(CASE side = "sm" -> f.sm .. f.sm + w.sm - 1
            [] side = "rm" -> f.rm - w.rm + 1 .. f.rm
            [] side = "sp" -> f.sp - w.sp + 1 .. f.sp
            [] side = "rp" -> f.rp .. f.rp + w.rp - 1,
          Across(t, s.axis, grid.halos[s.round]))

Packed(t, s, side) ==
  LET box == BoxOf(t, s, side) IN
  [p \in 1 .. Size(box) |->
     LET c == CellOf(s.axis, box, p) IN IF c \in Cells[grid][t] THEN mem[t][c] ELSE Junk]

\* The word of message m for a cell of the box it fills
Word(ax, box, cell, m) ==
  LET p == PlaceOf(ax, box, cell) IN IF p \in DOMAIN m THEN m[p] ELSE Junk

-----------------------------------------------------------------------------
(* The steps of a task *)

Computed(t, old, round) ==
  [c \in Cells[grid][t] |-> IF c \in OwnCells[grid][t] THEN <<c, round>> ELSE old[c]]

NoWidths == [sm |-> 0, rm |-> 0, sp |-> 0, rp |-> 0]
Ready(t, ax, round) ==
  [pc |-> "ready", axis |-> ax, round |-> round, it |-> 0,
   from |-> Starts(t, ax), w |-> NoWidths]

Init ==
  /\ grid \in Grids
  /\ st = [t \in Tasks |-> Ready(t, "y", 1)]
  /\ mem = [t \in Tasks |-> Computed(t, [c \in Cells[grid][t] |-> Junk], 1)]
  /\ chan = [c \in Links |-> <<>>]

\* Mistake: a receive is posted only by a task that sends to the same side.
RecvsIfSending(s) ==
  {side \in {"rm", "rp"} : s.w[side] > 0 /\ s.w[IF side = "rm" THEN "sm" ELSE "sp"] > 0}
\* Mistake: the width tested before a send is that of the receive.
SendsIfReceiving(s) == {side \in {"sm", "sp"} : s.w[IF side = "sm" THEN "rm" ELSE "rp"] > 0}
\* The sides a task sends to and receives from in the iteration of s
Sends(s) == {side \in {"sm", "sp"} : s.w[side] > 0}
Recvs(s) == {side \in {"rm", "rp"} : s.w[side] > 0}
Partner(t, s, side) == IF side \in {"sm", "rm"} THEN Minus(t, s.axis) ELSE Plus(t, s.axis)

\* rsl_comm_iter says there is more: the task packs, posts its receives and
\* sends (RSL_LITE_INIT_EXCH, RSL_LITE_PACK, RSL_LITE_EXCH_Y or _X).
Iterate(t) ==
  /\ st[t].pc = "ready"
  /\ Went(t, st[t].axis, grid.halos[st[t].round], st[t].from)
  /\ \E now \in {[st[t] EXCEPT !.pc = "wait", !.it = @ + 1,
                   !.w = Widths(t, st[t].axis, grid.halos[st[t].round], st[t].from, st[t].it + 1)]} :
       /\ st' = [st EXCEPT ![t] = now]
       /\ \E out \in {[side \in Sends(now) |-> Packed(t, now, side)]} :
            chan' = [l \in Links |->
              chan[l] \o (IF \E side \in Sends(now) : l = <<t, Partner(t, now, side)>>
                         THEN <<out[CHOOSE side \in Sends(now) : l = <<t, Partner(t, now, side)>>]>>
                         ELSE <<>>)]
  /\ UNCHANGED <<grid, mem>>

\* A send of t has completed when the receiver has posted the receive of it.
SendDone(t, u) ==
  grid.rendezvous =>
    \/ chan[<<t, u>>] = <<>>
    \/ /\ Len(chan[<<t, u>>]) = 1
       /\ st[u].pc = "wait" /\ \E side \in Recvs(st[u]) : Partner(u, st[u], side) = t

\* MPI_Wait on every receive and send, then the unpacks.
Complete(t) ==
  LET s == st[t]
      link(side) == <<Partner(t, s, side), t>>
  IN
  /\ s.pc = "wait"
  /\ \A side \in Recvs(s) : chan[link(side)] # <<>>
  /\ \A side \in Sends(s) : SendDone(t, Partner(t, s, side))
  /\ \E in \in {[side \in Recvs(s) |-> [box |-> BoxOf(t, s, side), m |-> Head(chan[link(side)])]]} :
       mem' = [mem EXCEPT ![t] =
         [c \in Cells[grid][t] |->
            IF \E side \in DOMAIN in : InBox(s.axis, in[side].box, c)
            THEN LET x == in[CHOOSE side \in DOMAIN in : InBox(s.axis, in[side].box, c)]
                 IN  Word(s.axis, x.box, c, x.m)
            ELSE @[c]]]
  /\ chan' = [l \in Links |-> IF \E side \in Recvs(s) : l = link(side) THEN Tail(chan[l]) ELSE chan[l]]
  /\ st' = [st EXCEPT ![t] = [s EXCEPT !.pc = "ready", !.from = Advance(@, s.w)]]
  /\ UNCHANGED grid

\* Along y nothing is left: on with x.
Turn(t) ==
  /\ st[t].pc = "ready" /\ st[t].axis = "y"
  /\ ~Went(t, "y", grid.halos[st[t].round], st[t].from)
  /\ st' = [st EXCEPT ![t] = Ready(t, "x", @.round)]
  /\ UNCHANGED <<grid, mem, chan>>

\* Nor along x: the halo is there.
Finish(t) ==
  /\ st[t].pc = "ready" /\ st[t].axis = "x"
  /\ ~Went(t, "x", grid.halos[st[t].round], st[t].from)
  /\ st' = [st EXCEPT ![t].pc = "done"]
  /\ UNCHANGED <<grid, mem, chan>>

\* The task computes, without waiting for the others, and exchanges again.
Compute(t) ==
  LET r == st[t].round IN
  /\ st[t].pc = "done"
  /\ r < Len(grid.halos)
  /\ st' = [st EXCEPT ![t] = Ready(t, "y", r + 1)]
  /\ mem' = [mem EXCEPT ![t] = Computed(t, @, r + 1)]
  /\ UNCHANGED <<grid, chan>>

Step(t) == Iterate(t) \/ Complete(t) \/ Turn(t) \/ Finish(t) \/ Compute(t)
Next == \E t \in Tasks : Step(t)

\* Some task that can go on does: the operating system schedules the tasks and
\* MPI delivers.  No fairness between the tasks is needed, since none of them can
\* go on for ever by itself.
Fairness == WF_vars(Next)
Spec == Init /\ [][Next]_vars /\ Fairness
-----------------------------------------------------------------------------
Finished == \A t \in Tasks : st[t].pc = "done" /\ st[t].round = Len(grid.halos)

\* The type invariant; every word packed and unpacked is in the task's memory,
\* though the tasks at the ends of the mesh send points outside the domain.
TypeOK ==
  /\ \A t \in Tasks :
       /\ st[t].pc \in {"ready", "wait", "done"} /\ st[t].axis \in Axes
       /\ st[t].round \in DOMAIN grid.halos
       /\ st[t].it \in 0 .. Max({grid.nx, grid.ny})
       /\ DOMAIN mem[t] = Cells[grid][t]
       /\ st[t].pc = "wait" =>
            \A side \in Sends(st[t]) \union Recvs(st[t]) :
              BoxOf(t, st[t], side).along \subseteq Memory[grid][t][st[t].axis]

\* When a task leaves the exchange, every point of its halo that is in the
\* domain holds what its owner computed in this round, corners included, however
\* many tasks it had to travel through.
GhostsRight ==
  \A t \in Tasks :
    st[t].pc = "done" =>
      \A i \in Reach(t, "x", grid.halos[st[t].round]), j \in Reach(t, "y", grid.halos[st[t].round]) :
        mem[t][<<i, j>>] = <<<<i, j>>, st[t].round>>

\* A message holds exactly the words its receiver will unpack: sender and
\* receiver have worked out the same widths, each from its own patch.
SizesAgree ==
  \A t \in Tasks : st[t].pc = "wait" =>
    \A side \in Recvs(st[t]) :
      LET c == chan[<<Partner(t, st[t], side), t>>] IN
      c # <<>> => Len(Head(c)) = Size(BoxOf(t, st[t], side))

\* When all are through, no message is left that the next exchange would take.
NothingLeftBehind == Finished => \A c \in DOMAIN chan : chan[c] = <<>>

\* Every task gets through every exchange, with no more buffering than MPI
\* promises: the iterations of neighbours never wait on each other in a ring.
EveryoneFinishes == <>Finished
=============================================================================
