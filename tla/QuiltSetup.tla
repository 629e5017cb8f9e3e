----------------------------- MODULE QuiltSetup -----------------------------
(***************************************************************************)
(* How the MPI tasks of a run are divided into compute tasks and I/O       *)
(* server groups: SUBROUTINE setup_quilt_servers of                        *)
(* WRF/frame/module_io_quilt_old.F.                                        *)
(*                                                                         *)
(* Every task executes the same routine on the same arguments, so one copy *)
(* of its variables stands for all of them.  SetupInit picks the           *)
(* arguments; the actions are the routine's blocks in program order.  The  *)
(* array icolor is reused from one MPI_Comm_split to the next, as in the   *)
(* code, and a communicator is the set of its tasks, ranked by task number *)
(* because every split passes mytask as its key.                           *)
(***************************************************************************)
EXTENDS Integers, FiniteSets

CONSTANTS
  MaxTasks,      \* ntasks is at most this
  MaxPerGroup,   \* nio_tasks_per_group is at most this
  MaxGroups      \* nio_groups is at most this

ASSUME SetupBounds ==
  /\ MaxTasks \in Nat \ {0}
  /\ MaxPerGroup \in Nat
  /\ MaxGroups \in Nat \ {0}

VARIABLES
  cfg,           \* the arguments: task counts, mesh and poll_servers
  pc,            \* the next block of setup_quilt_servers
  nGroups,       \* n_groups
  nio,           \* I/O tasks per group
  ncompute,      \* ncompute_tasks
  mesh,          \* <<nprocx, nprocy>> of the compute tasks
  icolor,        \* the colour of every task for the next split
  local,         \* mpi_comm_local, for every task
  io,            \* mpi_comm_io_groups(j), for every group j and task
  made,          \* how many io_groups have been split off
  poll,          \* poll_servers
  avail,         \* mpi_comm_avail, for every task
  computeNode,   \* the tasks with compute_node true
  groupMaster    \* the <<task, j>> with compute_group_master(j) true

setupVars ==
  <<cfg, pc, nGroups, nio, ncompute, mesh, icolor, local, io, made,
    poll, avail, computeNode, groupMaster>>

Undef == -1      \* MPI_UNDEFINED
NoComm == {}     \* MPI_COMM_NULL

Tasks == 0 .. cfg.ntasks - 1
IoGroups == 1 .. nGroups
Computes == {t \in Tasks : t < ncompute}
Smaller(a, b) == IF a <= b THEN a ELSE b

-----------------------------------------------------------------------------
\* The communicator each task gets from MPI_Comm_split with these colours.
Split(color) ==
  [t \in Tasks |-> IF color[t] = Undef THEN NoComm
                   ELSE {u \in Tasks : color[u] = color[t]}]

\* MPASPECT with no minimum: the factorization of p closest to a square, the
\* first one found when two are equally close.
SquarestMesh(p) ==
  LET gap(m) == IF m >= p \div m THEN m - p \div m ELSE p \div m - m
      divisors == {m \in 1 .. p : p % m = 0}
      m0 == CHOOSE m \in divisors :
               \A n \in divisors : gap(m) < gap(n) \/ (gap(m) = gap(n) /\ m <= n)
  IN <<m0, p \div m0>>

\* The compute tasks, and the tasks per group that are left when there are too
\* few compute tasks to have one per server: then there is no quilting.
LeftForCompute(n, per, groups) == n - per * groups

\* Servers are numbered in blocks of nio after the compute tasks.
\* A plausible slip: the first server of a block counted with the one before.
LocalColorSlipped(t) ==
  IF t < ncompute THEN 0 ELSE (t - ncompute + nio - 1) \div nio + 1
LocalColor(t) == IF t < ncompute THEN 0 ELSE (t - ncompute) \div nio + 1

\* The mesh rows given to servers 0..k-1 when nprocy rows are shared by n: the
\* remainder is handed out one row at a time, "until gone".
RowsBefore(k, rows, n) == k * (rows \div n) + Smaller(k, rows % n)

\* Servers used per group: at most one per mesh row.
ServersPerGroup(rows) == Smaller(nio, rows)

\* The server (counted from 0) that a compute task's mesh row belongs to.
\* A plausible slip: the servers take their rows from the far end of the mesh.
RowColorReversed(t, n) ==
  n - 1 - (CHOOSE k \in 0 .. n - 1 :
             /\ RowsBefore(k, mesh[2], n) <= t \div mesh[1]
             /\ t \div mesh[1] < RowsBefore(k + 1, mesh[2], n))
RowColor(t, n) ==
  CHOOSE k \in 0 .. n - 1 :
    /\ RowsBefore(k, mesh[2], n) <= t \div mesh[1]
    /\ t \div mesh[1] < RowsBefore(k + 1, mesh[2], n)

\* The server tasks of group j: a block of nio tasks.
\* A plausible slip: the block of group j is counted with the next group's.
BlockSlipped(j) ==
  {t \in Tasks : ncompute + j * nio <= t /\ t < ncompute + (j + 1) * nio}
Block(j) ==
  {t \in Tasks : ncompute + (j - 1) * nio <= t /\ t < ncompute + j * nio}

\* The colours of the split that makes mpi_comm_io_groups(j).  Servers of the
\* other groups are reset to MPI_UNDEFINED first.
\* A plausible slip: without the reset, servers coloured for an earlier group
\* keep their colour.
IoColorNoReset(t, j) ==
  IF t \in Block(j) THEN t - (ncompute + (j - 1) * nio) ELSE icolor[t]
IoColor(t, j) ==
  IF t < ncompute THEN icolor[t]
  ELSE IF t \in Block(j) THEN t - (ncompute + (j - 1) * nio) ELSE Undef

\* The tasks that join mpi_comm_avail: i = ncompute_tasks+j*nio-1 is a Fortran
\* index, i.e. task i-1.
AvailTasks == {0} \cup {ncompute + j * nio - 2 : j \in IoGroups}

\* The rank of a task in a communicator.
RankIn(t, comm) == Cardinality({u \in comm : u < t})

\* The members of a communicator that relay commands to the group's server.
\* A plausible slip: the test is on the rank in mpi_comm_local.
IsGroupMasterLocal(t, j) == RankIn(t, local[t]) = 0
IsGroupMaster(t, j) == RankIn(t, io[j][t]) = 0
-----------------------------------------------------------------------------
\* The arguments the program runs with.  A mesh given in the namelist has
\* nproc_x * nproc_y = ncompute_tasks: compute_mesh stops any other run.
Meshes == {<<-1, -1>>} \cup ((1 .. MaxTasks) \X (1 .. MaxTasks))

MeshAccepted(c) ==
  LET left == LeftForCompute(c.ntasks, c.perGroup, c.groups)
  IN \/ c.given = <<-1, -1>>
     \/ c.perGroup > 0 /\ left >= c.perGroup /\ c.given[1] * c.given[2] = left

Configs == {c \in [ntasks : 1 .. MaxTasks, perGroup : -1 .. MaxPerGroup,
                   groups : 1 .. MaxGroups, given : Meshes, poll : BOOLEAN] :
              MeshAccepted(c)}

SetupInit ==
  /\ cfg \in Configs
  /\ pc = "size"
  /\ nGroups = 1 /\ nio = 0 /\ ncompute = cfg.ntasks
  /\ mesh = <<1, cfg.ntasks>>
  /\ icolor = [t \in Tasks |-> 0]
  /\ local = [t \in Tasks |-> NoComm]
  /\ io = [j \in IoGroups |-> [t \in Tasks |-> NoComm]]
  /\ made = 0
  /\ poll = cfg.poll
  /\ avail = [t \in Tasks |-> NoComm]
  /\ computeNode = Tasks
  /\ groupMaster = {}

\* Not enough tasks, or none asked for: no quilting, and every communicator is
\* the whole world.
NoQuilting ==
  LET left == LeftForCompute(cfg.ntasks, cfg.perGroup, cfg.groups)
  IN /\ pc = "size"
     /\ left < cfg.perGroup \/ cfg.perGroup <= 0
     /\ nGroups' = cfg.groups
     /\ nio' = 0
     /\ ncompute' = IF left < cfg.perGroup THEN cfg.ntasks ELSE left
     /\ local' = [t \in Tasks |-> Tasks]
     /\ io' = [j \in 1 .. cfg.groups |-> [t \in Tasks |-> Tasks]]
     /\ pc' = "off"
     /\ UNCHANGED <<cfg, mesh, icolor, made, poll, avail, computeNode, groupMaster>>

SizeGroups ==
  LET left == LeftForCompute(cfg.ntasks, cfg.perGroup, cfg.groups)
  IN /\ pc = "size"
     /\ cfg.perGroup > 0 /\ left >= cfg.perGroup
     /\ nGroups' = cfg.groups
     /\ nio' = cfg.perGroup
     /\ ncompute' = left
     /\ io' = [j \in 1 .. cfg.groups |-> [t \in Tasks |-> NoComm]]
     /\ pc' = "local"
     /\ UNCHANGED <<cfg, mesh, icolor, local, made, poll, avail, computeNode, groupMaster>>

SplitLocal ==
  /\ pc = "local"
  /\ icolor' = [t \in Tasks |-> LocalColor(t)]
  /\ local' = Split(icolor')
  /\ mesh' = IF cfg.given = <<-1, -1>> THEN SquarestMesh(ncompute) ELSE cfg.given
  /\ pc' = "rows"
  /\ UNCHANGED <<cfg, nGroups, nio, ncompute, io, made, poll, avail, computeNode, groupMaster>>

AssignRows ==
  LET n == ServersPerGroup(mesh[2])
  IN /\ pc = "rows"
     /\ nio' = n
     /\ icolor' = [t \in Tasks |-> IF t < ncompute THEN RowColor(t, n) ELSE icolor[t]]
     /\ pc' = "io"
     /\ UNCHANGED <<cfg, nGroups, ncompute, mesh, local, io, made, poll, avail,
                    computeNode, groupMaster>>

SplitIoGroup ==
  /\ pc = "io"
  /\ made < nGroups
  /\ made' = made + 1
  /\ icolor' = [t \in Tasks |-> IoColor(t, made + 1)]
  /\ io' = [io EXCEPT ![made + 1] = Split(icolor')]
  /\ UNCHANGED <<cfg, pc, nGroups, nio, ncompute, mesh, local, poll, avail,
                 computeNode, groupMaster>>

\* Polling is switched off when there is a single group to choose from.
SplitAvail ==
  /\ pc = "io"
  /\ made = nGroups
  /\ poll' = (poll /\ cfg.groups # 1)
  /\ IF poll'
     THEN /\ icolor' = [t \in Tasks |-> IF t \in AvailTasks THEN 1 ELSE Undef]
          /\ avail' = Split(icolor')
     ELSE UNCHANGED <<icolor, avail>>
  /\ pc' = "masters"
  /\ UNCHANGED <<cfg, nGroups, nio, ncompute, mesh, local, io, made, computeNode,
                 groupMaster>>

\* A server moves its own communicator to mpi_comm_io_groups(1); a compute task
\* notes whether it speaks for its communicator.
AssignMasters ==
  /\ pc = "masters"
  /\ computeNode' = Computes
  /\ groupMaster' = {tj \in Computes \X IoGroups : IsGroupMaster(tj[1], tj[2])}
  /\ io' = [io EXCEPT ![1] = [t \in Tasks |->
              IF \E j \in IoGroups : t \in Block(j)
              THEN io[CHOOSE j \in IoGroups : t \in Block(j)][t] ELSE @[t]]]
  /\ pc' = "done"
  /\ UNCHANGED <<cfg, nGroups, nio, ncompute, mesh, icolor, local, made, poll, avail>>

SetupNext ==
  \/ NoQuilting \/ SizeGroups \/ SplitLocal \/ AssignRows
  \/ SplitIoGroup \/ SplitAvail \/ AssignMasters

SetupSpec == SetupInit /\ [][SetupNext]_setupVars
-----------------------------------------------------------------------------

Servers == Tasks \ Computes

\* nio = min(nio, nprocy) left the number of tasks per group alone.
FullRows == cfg.perGroup <= mesh[2]

\* "MPI_COMM_IO_GROUPS(:) ... contain one or more compute tasks and a single
\* I/O server ... always the last task": what every collective of the client
\* and server halves relies on to pick its root.
OneServerAndLast ==
  pc = "done" =>
    \A t \in Computes, j \in IoGroups :
      \E s \in Servers : /\ io[j][t] \cap Servers = {s}
                         /\ io[1][s] = io[j][t]
                         /\ RankIn(s, io[j][t]) = Cardinality(io[j][t]) - 1

\* Within a group the servers' communicators cover every compute task once, so
\* a field assembled by the group has every patch.  When there are more servers
\* than mesh rows this and the next property are lost (see ServersKeepTheirGroup).
GroupsCoverClients ==
  (pc = "done" /\ FullRows) =>
    \A j \in IoGroups :
      \A t \in Computes : Cardinality({s \in Block(j) : t \in io[1][s]}) = 1

\* The local communicator of a server is its whole group and nothing else: the
\* servers that gather onto one root are the servers of one group.
LocalIsTheGroup ==
  (pc = "done" /\ FullRows) =>
    \A j \in IoGroups : \A s \in Block(j) :
      /\ local[s] = Block(j)
      /\ local[s] = (UNION {io[j][t] : t \in Computes}) \cap Servers

\* The monitor, which alone sends commands, is served by local rank 0, the one
\* server that drops noop records (quilt's condition 4), and is its group's
\* master.
MonitorServedByFirst ==
  (pc = "done" /\ FullRows) =>
    \A j \in IoGroups :
      /\ <<0, j>> \in groupMaster
      /\ \A s \in Block(j) : (0 \in io[1][s]) <=> RankIn(s, local[s]) = 0

\* Exactly one client of each server speaks for it.
OneMasterPerServer ==
  pc = "done" =>
    \A j \in IoGroups, t \in Computes :
      Cardinality({u \in io[j][t] : <<u, j>> \in groupMaster}) = 1

\* The comment of setup_quilt_servers: "for a server group it the communicator
\* of tasks in the server group" and "each server task is part of only one
\* io_group": every server task serves clients, together with its local group.
ServersKeepTheirGroup ==
  pc = "done" =>
    \A s \in Servers :
      /\ io[1][s] # NoComm
      /\ (UNION {io[1][u] : u \in local[s]}) \cap Computes = Computes
=============================================================================
