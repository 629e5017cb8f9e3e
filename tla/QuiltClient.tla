----------------------------- MODULE QuiltClient -----------------------------
(***************************************************************************)
(* The compute tasks' half of asynchronous ("quilted") output: the handle  *)
(* tables and API calls of module_wrf_quilt, driven in the order in which  *)
(* the mediation layer calls them (med_hist_out, open_hist_w,              *)
(* med_shutdown_io).                                                       *)
(*                                                                         *)
(* All compute tasks run the same program on the same clock, so they take  *)
(* the same sequence of outputs: plan is that sequence, extended by the    *)
(* task that is furthest ahead and followed by the others.  Within an      *)
(* output each task runs at its own pace.                                  *)
(*                                                                         *)
(* Every collective call on an I/O communicator is a message of each task  *)
(* to the server of its communicator: a "reduce" (the two integers summed  *)
(* by MPI_Reduce) or a "gather" (the records concatenated by               *)
(* collect_on_comm).  chan keeps them in program order, which is the order *)
(* in which MPI matches collectives.  Sizes are counted in records.        *)
(***************************************************************************)
EXTENDS Integers, Sequences, FiniteSets

CONSTANTS
  NC,              \* number of compute tasks (clients)
  NG,              \* nio_groups: number of I/O server groups
  ServerOf,        \* the local rank of the server of each client
  NH,              \* int_num_handles
  NStreams,        \* output streams: history, auxiliary history, restart
  NF,              \* fields written per output
  FramesPerFile,   \* frames_per_outfile of each stream; 1 for restart files
  MaxOutputs,      \* bound: outputs planned before the shutdown
  Eager,           \* messages MPI buffers before a sender must wait
  Poll             \* poll_servers

ASSUME ClientConstants ==
  /\ NC \in Nat \ {0} /\ NG \in Nat \ {0} /\ NH \in Nat \ {0}
  /\ NStreams \in Nat \ {0} /\ NF \in Nat \ {0}
  /\ FramesPerFile \in [1 .. NStreams -> Nat \ {0}]
  /\ MaxOutputs \in Nat /\ Eager \in Nat
  /\ Poll \in BOOLEAN
  /\ ServerOf \in [0 .. NC - 1 -> Nat]

Clients == 0 .. NC - 1
Monitor == 0
Groups == 1 .. NG
Handles == 1 .. NH
Streams == 1 .. NStreams
Stop == 0                      \* the plan's last entry: med_shutdown_io
NoBuf == <<>>                  \* int_local_output_buffer, not associated
ExitSize == -100               \* the size that means ioexit

VARIABLES
  plan,        \* the outputs the model makes, a sequence of streams
  pos,         \* how many of them each client has begun
  stage,       \* the next call of each client
  cur,         \* the stream of the output in progress
  fld,         \* the next field of the pass in progress
  outs,        \* outputs begun per stream: the date of the current one
  oid,         \* grid%oid and its like: the open handle of a stream, or 0
  frames,      \* grid%nframes
  inUse,       \* int_handle_in_use
  okw,         \* okay_to_write
  bytes,       \* int_num_bytes_to_write
  server,      \* server_for_handle
  prev,        \* prev_server_for_handle
  buf,         \* int_local_output_buffer up to its cursor
  exited,      \* groups told to exit
  chan,        \* messages to each group's server, in program order
  idle,        \* groups whose master is in mpi_ssend, waiting to be found
  found,       \* groups the monitor found and broadcast (mpi_bcast), in order
  seen         \* how many of them each client has received

mediationVars == <<plan, pos, stage, cur, fld, outs, oid, frames, exited>>
tableVars     == <<inUse, okw, bytes, server, prev, buf>>
pollVars      == <<idle, found, seen>>
clientVars    == <<mediationVars, tableVars, chan, pollVars>>

-----------------------------------------------------------------------------
\* A record of the stream: its tag, the handle it carries, the field (or the
\* stream whose file is opened), the date, and the client it comes from.
Rec(tag, h, v, date, c) == [tag |-> tag, h |-> h, v |-> v, date |-> date, src |-> c]
Noop(c) == Rec("noop", 0, 0, 0, c)

Reduce(n, h)  == [kind |-> "reduce", size |-> n, h |-> h, recs |-> <<>>]
Gather(recs)  == [kind |-> "gather", size |-> 0, h |-> 0, recs |-> recs]

\* What the monitor sends and the others replace by a noop (or by a zero).
OnMonitor(c, x, other) == IF c = Monitor THEN x ELSE other

\* reduced(1) = size, reduced(2) = handle on the monitor; then the records.
Message(c, h, recs) == <<Reduce(Len(recs), OnMonitor(c, h, 0)), Gather(recs)>>

\* A client starts a call once MPI has taken all but Eager of its messages.
MayCall(c) == \A g \in Groups : Len(chan[c][g]) <= Eager

Send(c, g, msgs) == chan' = [chan EXCEPT ![c][g] = @ \o msgs]

\* The group a client gets from its next mpi_bcast.
Broadcast(c) == found[seen[c] + 1]

\* wrf_quilt_find_server: the monitor receives from any idle group and
\* broadcasts its number to the other clients.
FindServer(c, g) ==
  /\ IF c = Monitor
     THEN /\ g \in idle
          /\ idle' = idle \ {g}
          /\ found' = Append(found, g)
     ELSE /\ seen[c] < Len(found)
          /\ g = Broadcast(c)
          /\ UNCHANGED <<idle, found>>
  /\ seen' = [seen EXCEPT ![c] = @ + 1]

\* Without polling the groups are taken in turn.
\* A plausible slip: the turn is kept by the monitor alone.
NextTurnOnMonitor(c) == OnMonitor(c, (prev[c] + 1) % NG, 0)
NextTurn(c) == (prev[c] + 1) % NG

\* get_server_id: the group a handle is locked onto, or a new one.
NeedsGroup(c, h) == server[c][h] < 1

ServerId(c, h, g) ==
  \/ /\ ~NeedsGroup(c, h)
     /\ g = server[c][h]
     /\ UNCHANGED <<prev, pollVars>>
  \/ /\ NeedsGroup(c, h) /\ Poll
     /\ FindServer(c, g)
     /\ UNCHANGED prev
  \/ /\ NeedsGroup(c, h) /\ ~Poll
     /\ g = NextTurn(c) + 1
     /\ prev' = [prev EXCEPT ![c] = NextTurn(c)]
     /\ UNCHANGED pollVars

LockOnto(c, h, g) == server' = [server EXCEPT ![c][h] = g]

\* int_get_fresh_handle takes the lowest handle that is not in use.
FreshHandle(c, h) ==
  /\ h \in Handles /\ ~inUse[c][h]
  /\ \A k \in 1 .. h - 1 : inUse[c][k]

Handle(c) == oid[c][cur[c]]
Date(c) == outs[c][cur[c]]

Init ==
  /\ plan = <<>>
  /\ pos = [c \in Clients |-> 0]
  /\ stage = [c \in Clients |-> "idle"]
  /\ cur = [c \in Clients |-> 1]
  /\ fld = [c \in Clients |-> 1]
  /\ outs = [c \in Clients |-> [s \in Streams |-> 0]]
  /\ oid = [c \in Clients |-> [s \in Streams |-> 0]]
  /\ frames = [c \in Clients |-> [s \in Streams |-> 0]]
  /\ inUse = [c \in Clients |-> [h \in Handles |-> FALSE]]
  /\ okw = [c \in Clients |-> [h \in Handles |-> FALSE]]
  /\ bytes = [c \in Clients |-> [h \in Handles |-> 0]]
  /\ server = [c \in Clients |-> [h \in Handles |-> 0]]
  /\ prev = [c \in Clients |-> -1]
  /\ buf = [c \in Clients |-> NoBuf]
  /\ exited = [c \in Clients |-> 0]
  /\ chan = [c \in Clients |-> [g \in Groups |-> <<>>]]
  /\ idle = {}
  /\ found = <<>>
  /\ seen = [c \in Clients |-> 0]

-----------------------------------------------------------------------------
\* The next entry of the plan is x: decided by the first client to get there.
Follow(c, x) ==
  /\ IF pos[c] < Len(plan)
     THEN plan[pos[c] + 1] = x /\ UNCHANGED plan
     ELSE plan' = Append(plan, x)
  /\ pos' = [pos EXCEPT ![c] = @ + 1]

\* An alarm rings: med_hist_out is called for a stream.  open_hist_w opens a
\* file only when the stream has none.
BeginOutput(c) ==
  /\ stage[c] = "idle"
  /\ \E s \in Streams :
       /\ pos[c] < MaxOutputs
       /\ Follow(c, s)
       /\ cur' = [cur EXCEPT ![c] = s]
       /\ outs' = [outs EXCEPT ![c][s] = @ + 1]
       /\ stage' = [stage EXCEPT ![c] = IF oid[c][s] = 0 THEN "open" ELSE "putMeta"]
  /\ UNCHANGED <<fld, oid, frames, exited, tableVars, chan, pollVars>>

\* wrf_quilt_open_for_write_begin.
OpenForWriteBegin(c) ==
  /\ stage[c] = "open" /\ MayCall(c)
  /\ \E h \in Handles, g \in Groups :
       /\ FreshHandle(c, h)
       /\ ServerId(c, h, g)
       /\ LockOnto(c, h, g)
       /\ inUse' = [inUse EXCEPT ![c][h] = TRUE]
       /\ okw' = [okw EXCEPT ![c][h] = FALSE]
       /\ oid' = [oid EXCEPT ![c][cur[c]] = h]
       /\ Send(c, g, Message(c, h, <<OnMonitor(c,
                 Rec("open", h, cur[c], Date(c), c), Noop(c))>>))
  /\ buf' = [buf EXCEPT ![c] = NoBuf]
  /\ stage' = [stage EXCEPT ![c] = "trainMeta"]
  /\ UNCHANGED <<plan, pos, cur, fld, outs, frames, exited, bytes>>

\* wrf_quilt_put_dom_ti_*: the metadata written before the fields of a pass, in
\* the training pass and in the real one.
PutMeta(c) ==
  /\ stage[c] \in {"trainMeta", "putMeta"} /\ MayCall(c)
  /\ IF inUse[c][Handle(c)]
     THEN \E g \in Groups :
            /\ ServerId(c, Handle(c), g)
            /\ LockOnto(c, Handle(c), g)
            /\ Send(c, g, Message(c, Handle(c), <<OnMonitor(c,
                      Rec("meta", Handle(c), 0, Date(c), c), Noop(c))>>))
     ELSE UNCHANGED <<server, prev, chan, pollVars>>
  /\ stage' = [stage EXCEPT ![c] = IF @ = "trainMeta" THEN "train" ELSE "write"]
  /\ UNCHANGED <<plan, pos, cur, fld, outs, oid, frames, exited, inUse, okw, bytes, buf>>

\* The pass goes on to its next field, or to what follows the pass.
\* A plausible slip: one field too many.
NextFieldPast(c) ==
  IF fld[c] <= NF
  THEN fld' = [fld EXCEPT ![c] = @ + 1] /\ UNCHANGED stage
  ELSE /\ fld' = [fld EXCEPT ![c] = 1]
       /\ stage' = [stage EXCEPT ![c] = IF @ = "train" THEN "commit" ELSE "sync"]
NextField(c) ==
  IF fld[c] < NF
  THEN fld' = [fld EXCEPT ![c] = @ + 1] /\ UNCHANGED stage
  ELSE /\ fld' = [fld EXCEPT ![c] = 1]
       /\ stage' = [stage EXCEPT ![c] = IF @ = "train" THEN "commit" ELSE "sync"]

\* wrf_quilt_write_field before the commit ("training"): the size the field
\* will take is added up and its header is sent by every client.
TrainField(c) ==
  LET h == Handle(c)
  IN /\ stage[c] \in {"train", "write"} /\ MayCall(c)
     /\ inUse[c][h] /\ ~okw[c][h]
     /\ bytes' = [bytes EXCEPT ![c][h] = @ + 1]
     /\ \E g \in Groups :
          /\ ServerId(c, h, g)
          /\ LockOnto(c, h, g)
          /\ Send(c, g, Message(c, h, <<Rec("train", h, fld[c], Date(c), c)>>))
     /\ NextField(c)
     /\ UNCHANGED <<plan, pos, cur, outs, oid, frames, exited, inUse, okw, buf>>

\* Packing into the local buffer, which the first field packed allocates.
\* A plausible slip: the buffer is begun anew by every field.
PackedRestarted(c, rec) == <<rec>>
Packed(c, rec) == Append(buf[c], rec)

\* wrf_quilt_write_field after the commit: header and patch are packed into the
\* local buffer and nothing is sent.
PackField(c) ==
  LET h == Handle(c)
  IN /\ stage[c] \in {"train", "write"}
     /\ inUse[c][h] /\ okw[c][h]
     /\ buf' = [buf EXCEPT ![c] = Packed(c, Rec("field", h, fld[c], Date(c), c))]
     /\ \E g \in Groups : ServerId(c, h, g) /\ LockOnto(c, h, g)
     /\ NextField(c)
     /\ UNCHANGED <<plan, pos, cur, outs, oid, frames, exited, inUse, okw, bytes, chan>>

\* okay_to_write after a commit: only of a handle that is in use.
\* A plausible slip: the flag is set on the servers only.
GrantedNever(c, h) == okw
Granted(c, h) == [okw EXCEPT ![c][h] = @ \/ inUse[c][h]]

\* wrf_quilt_open_for_write_commit: later writes are real ones.
OpenForWriteCommit(c) ==
  LET h == Handle(c)
  IN /\ stage[c] = "commit" /\ MayCall(c)
     /\ okw' = Granted(c, h)
     /\ \E g \in Groups :
          /\ ServerId(c, h, g)
          /\ LockOnto(c, h, g)
          /\ Send(c, g, Message(c, h, <<OnMonitor(c,
                    Rec("commit", h, 0, 0, c), Noop(c))>>))
     /\ stage' = [stage EXCEPT ![c] = "putMeta"]
     /\ UNCHANGED <<plan, pos, cur, fld, outs, oid, frames, exited, inUse, bytes, buf>>

\* After output_wrf, med_hist_out counts the frame and closes a full file.
CountFrame(c) ==
  /\ frames' = [frames EXCEPT ![c][cur[c]] = @ + 1]
  /\ stage' = [stage EXCEPT ![c] =
                 IF frames[c][cur[c]] + 1 >= FramesPerFile[cur[c]] THEN "close" ELSE "idle"]

\* wrf_quilt_iosync: the local buffer is sent, with the size that training
\* added up for the handle.
IoSync(c) ==
  LET h == Handle(c)
  IN /\ stage[c] = "sync" /\ MayCall(c)
     /\ IF buf[c] # NoBuf
        THEN /\ \E g \in Groups :
                  /\ ServerId(c, h, g)
                  /\ LockOnto(c, h, g)
                  /\ Send(c, g, <<Reduce(bytes[c][h], OnMonitor(c, h, 0)), Gather(buf[c])>>)
             /\ buf' = [buf EXCEPT ![c] = NoBuf]
        ELSE UNCHANGED <<server, prev, chan, pollVars, buf>>
     /\ CountFrame(c)
     /\ UNCHANGED <<plan, pos, cur, fld, outs, oid, exited, inUse, okw, bytes>>

\* What ioclose clears in the tables of the handle it closes.
\* A plausible slip: the trained size is left for the next file.
ClearedBytesKept(c, h) == bytes
ClearedBytes(c, h) == [bytes EXCEPT ![c][h] = 0]

\* What a close sends: a reduce with size zero and the handle, and no gather.
\* A plausible slip: the header is gathered as for every other call.
CloseMessageGathered(c, h) ==
  <<Reduce(0, OnMonitor(c, h, 0)), Gather(<<Noop(c)>>)>>
CloseMessage(c, h) == <<Reduce(0, OnMonitor(c, h, 0))>>

\* wrf_quilt_ioclose.
IoClose(c) ==
  LET h == Handle(c)
  IN /\ stage[c] \in {"close", "lastClose"} /\ MayCall(c)
     /\ \E g \in Groups :
          /\ ServerId(c, h, g)
          /\ Send(c, g, CloseMessage(c, h))
     /\ inUse' = [inUse EXCEPT ![c][h] = FALSE]
     /\ server' = [server EXCEPT ![c][h] = 0]
     /\ okw' = [okw EXCEPT ![c][h] = FALSE]
     /\ bytes' = ClearedBytes(c, h)
     /\ buf' = [buf EXCEPT ![c] = NoBuf]
     /\ oid' = [oid EXCEPT ![c][cur[c]] = 0]
     /\ frames' = [frames EXCEPT ![c][cur[c]] = 0]
     /\ stage' = [stage EXCEPT ![c] = IF @ = "close" THEN "idle" ELSE "shutdown"]
     /\ UNCHANGED <<plan, pos, cur, fld, outs, exited>>

\* The end of the run: med_shutdown_io.
BeginShutdown(c) ==
  /\ stage[c] = "idle"
  /\ Follow(c, Stop)
  /\ stage' = [stage EXCEPT ![c] = "shutdown"]
  /\ UNCHANGED <<cur, fld, outs, oid, frames, exited, tableVars, chan, pollVars>>

\* A plausible slip: files that are not full are left to the next output.
StillOpenFull(c) == {s \in Streams : oid[c][s] > 0 /\ frames[c][s] >= FramesPerFile[s]}
StillOpen(c) == {s \in Streams : oid[c][s] > 0}

\* med_shutdown_io_recurse closes every file still open, in stream order.
ShutdownStream(c) ==
  /\ stage[c] = "shutdown"
  /\ IF StillOpen(c) # {}
     THEN /\ \E s \in StillOpen(c) : /\ \A r \in StillOpen(c) : s <= r
                                    /\ cur' = [cur EXCEPT ![c] = s]
          /\ stage' = [stage EXCEPT ![c] = "lastClose"]
     ELSE /\ stage' = [stage EXCEPT ![c] = "exit"]
          /\ UNCHANGED cur
  /\ UNCHANGED <<plan, pos, fld, outs, oid, frames, exited, tableVars, chan, pollVars>>

\* The lowest client of each I/O communicator sends the exit size.
ExitShare(c) ==
  IF \E d \in Clients : d < c /\ ServerOf[d] = ServerOf[c] THEN 0 ELSE ExitSize

\* wrf_quilt_ioexit, one group at a time: in numeric order, or in the order in
\* which the groups are found idle.
IoExit(c) ==
  /\ stage[c] = "exit" /\ MayCall(c)
  /\ exited[c] < NG
  /\ \E g \in Groups :
       /\ IF Poll THEN FindServer(c, g)
                  ELSE g = exited[c] + 1 /\ UNCHANGED pollVars
       /\ Send(c, g, <<Reduce(ExitShare(c), 0)>>)
  /\ exited' = [exited EXCEPT ![c] = @ + 1]
  /\ stage' = [stage EXCEPT ![c] = IF exited[c] + 1 = NG THEN "gone" ELSE "exit"]
  /\ UNCHANGED <<plan, pos, cur, fld, outs, oid, frames, tableVars>>

ClientStep(c) ==
  \/ BeginOutput(c) \/ OpenForWriteBegin(c) \/ PutMeta(c) \/ TrainField(c)
  \/ PackField(c) \/ OpenForWriteCommit(c) \/ IoSync(c) \/ IoClose(c)
  \/ BeginShutdown(c) \/ ShutdownStream(c) \/ IoExit(c)

-----------------------------------------------------------------------------
(* What the servers may do to the variables they share with the clients.    *)

\* Messages at the heads of some channels are received.
Received ==
  /\ \E S \in SUBSET (Clients \X Groups) :
       /\ S # {}
       /\ \A cg \in S : chan[cg[1]][cg[2]] # <<>>
       /\ chan' = [c \in Clients |-> [g \in Groups |->
                     IF <<c, g>> \in S THEN Tail(chan[c][g]) ELSE chan[c][g]]]
  /\ UNCHANGED <<mediationVars, tableVars, pollVars>>

\* A group's master offers its group to the monitor.
Offered ==
  /\ Poll
  /\ \E g \in Groups \ idle : idle' = idle \cup {g}
  /\ UNCHANGED <<mediationVars, tableVars, chan, found, seen>>

ClientNext == (\E c \in Clients : ClientStep(c)) \/ Received \/ Offered

ClientSpec == Init /\ [][ClientNext]_clientVars
-----------------------------------------------------------------------------
Stages == {"idle", "open", "trainMeta", "train", "commit", "putMeta", "write",
           "sync", "close", "shutdown", "lastClose", "exit", "gone"}

Records == [tag : {"noop", "open", "meta", "train", "commit", "field"},
            h : 0 .. NH, v : Nat, date : Nat, src : Clients]
Messages == [kind : {"reduce", "gather"}, size : Int, h : 0 .. NH, recs : Seq(Records)]

\* Every variable of the clients has its type.
MediationTypeOK ==
  /\ plan \in Seq(Streams \cup {Stop})
  /\ pos \in [Clients -> Nat]
  /\ stage \in [Clients -> Stages]
  /\ cur \in [Clients -> Streams]
  /\ fld \in [Clients -> 1 .. NF]
  /\ outs \in [Clients -> [Streams -> Nat]]
  /\ oid \in [Clients -> [Streams -> 0 .. NH]]
  /\ frames \in [Clients -> [Streams -> Nat]]
  /\ exited \in [Clients -> 0 .. NG]
TablesTypeOK ==
  /\ inUse \in [Clients -> [Handles -> BOOLEAN]]
  /\ okw \in [Clients -> [Handles -> BOOLEAN]]
  /\ bytes \in [Clients -> [Handles -> Nat]]
  /\ server \in [Clients -> [Handles -> 0 .. NG]]
  /\ prev \in [Clients -> -1 .. NG - 1]
  /\ buf \in [Clients -> Seq(Records)]
MessagesTypeOK ==
  /\ chan \in [Clients -> [Groups -> Seq(Messages)]]
  /\ idle \subseteq Groups
  /\ found \in Seq(Groups)
  /\ seen \in [Clients -> Nat]
ClientTypeOK == MediationTypeOK /\ TablesTypeOK /\ MessagesTypeOK

\* The stream a client is writing to: from the open to the last field sent.
Writing(c) == stage[c] \in {"trainMeta", "train", "commit", "putMeta", "write", "sync"}

\* A handle is locked onto one server group from open to close, belongs to one
\* stream, and leaves nothing behind: a handle that is not in use has no group,
\* no permission to write and no trained size that its next file would inherit.
HandlesLocked ==
  \A c \in Clients :
    /\ \A s \in Streams : oid[c][s] # 0 => inUse[c][oid[c][s]]
    /\ \A r, s \in Streams : r # s /\ oid[c][r] # 0 => oid[c][r] # oid[c][s]
    /\ \A h \in Handles :
         IF inUse[c][h] THEN server[c][h] \in Groups
         ELSE server[c][h] = 0 /\ ~okw[c][h] /\ bytes[c][h] = 0

\* The one output buffer of a task is shared by all its handles and written
\* without a bound check: it only ever holds fields of the current handle and
\* date, in order, never more than training sized it for, and exactly that much
\* when iosync sends it.
BufferFits ==
  \A c \in Clients :
    /\ buf[c] # NoBuf =>
         /\ stage[c] \in {"write", "sync"}
         /\ Len(buf[c]) <= bytes[c][Handle(c)]
         /\ \A i \in 1 .. Len(buf[c]) :
              buf[c][i] = Rec("field", Handle(c), i, Date(c), c)
    /\ stage[c] = "sync" =>
         buf[c] # NoBuf /\ Len(buf[c]) = bytes[c][Handle(c)]

\* Fields are sent as training before the commit and packed after it: the
\* okay_to_write flag follows the mediation layer's pass.
TrainedBeforeWritten ==
  \A c \in Clients :
    Writing(c) => /\ inUse[c][Handle(c)]
                  /\ okw[c][Handle(c)] <=> stage[c] \in {"putMeta", "write", "sync"}

\* The clients take the same groups in the same order although each keeps its
\* own table: two clients at the same point of the program have the same
\* handles, groups and sizes.
AtSamePoint(c, d) ==
  /\ pos[c] = pos[d] /\ stage[c] = stage[d] /\ fld[c] = fld[d]
  /\ cur[c] = cur[d] /\ exited[c] = exited[d]
  /\ stage[c] = "shutdown" => {s \in Streams : oid[c][s] # 0} = {s \in Streams : oid[d][s] # 0}
TablesAgree ==
  \A c, d \in Clients :
    AtSamePoint(c, d) =>
      /\ oid[c] = oid[d] /\ server[c] = server[d] /\ prev[c] = prev[d]
      /\ bytes[c] = bytes[d] /\ okw[c] = okw[d] /\ seen[c] = seen[d]
=============================================================================
