-------------------------------- MODULE Quilt --------------------------------
(***************************************************************************)
(* Asynchronous output with its I/O servers: the clients of QuiltClient    *)
(* and, for every I/O server group, the server tasks of SUBROUTINE quilt   *)
(* of WRF/frame/module_io_quilt_old.F.                                     *)
(*                                                                         *)
(* A server receives the collectives of its own clients, sorts the records *)
(* into pieces (one per field, see store_piece_of_field) and forwards      *)
(* piece after piece to the last server of its group, the root.  The root  *)
(* handles the records of the k-th pieces of all servers as one batch, and *)
(* it alone writes files.                                                  *)
(***************************************************************************)
EXTENDS QuiltClient, FiniteSetsExt, SequencesExt

CONSTANTS
  NS,              \* servers per group (nio_tasks_in_group)
  LocalEager,      \* messages MPI buffers between a server and its root
  ReadyStreams,    \* streams named wrfout*, with output_ready_flag set
  SyncNamed        \* whether io_form(0), which nothing assigns, names a package

ASSUME ServerConstants ==
  /\ NS \in Nat \ {0} /\ LocalEager \in Nat
  /\ ReadyStreams \subseteq Streams
  /\ SyncNamed \subseteq BOOLEAN /\ SyncNamed # {}
  /\ \A c \in Clients : ServerOf[c] < NS
  /\ \A r \in 0 .. NS - 1 : \E c \in Clients : ServerOf[c] = r
  /\ ServerOf[Monitor] = 0

Ranks == 0 .. NS - 1
Root == NS - 1
Others == 0 .. NS - 2
Served(r) == {c \in Clients : ServerOf[c] = r}

Datasets == Streams \X (1 .. MaxOutputs)
NoFile == <<0, 0>>
End == <<>>            \* a server's retrieve found no further piece

VARIABLES
  phase,       \* where each server is in its request loop
  want,        \* obufsize: the bytes its clients announced
  callReady,   \* call_server_ready
  pieces,      \* fld_cache: pieces not yet retrieved
  lchan,       \* batches and Ends on their way to the root
  batch,       \* bigbuf, the records the root has yet to handle
  busy,        \* the root is handling a batch
  dh,          \* DataHandle, as the last record set it
  rokw,        \* okay_to_write, on the root
  rokc,        \* okay_to_commit, on the root
  file,        \* handle(DataHandle): the dataset behind a handle
  outbuf,      \* outbuf_table: the patches stored per field
  stored,      \* stored_write_record: the last batch had a patch
  fname,       \* the file name of the last inquiry
  status,      \* what the I/O package knows of a dataset
  contents,    \* the records it has written
  unsynced,    \* whether some of them may not be on the disk yet
  ready        \* datasets with a wrfoutReady file

taskVars == <<phase, want, callReady, pieces, lchan>>
rootVars == <<batch, busy, dh, rokw, rokc, file, outbuf, stored, fname>>
diskVars == <<status, contents, unsynced, ready>>
serverVars == <<taskVars, rootVars, diskVars>>
vars == <<clientVars, serverVars>>

QuiltInit ==
  /\ Init
  /\ phase = [g \in Groups |-> [r \in Ranks |-> IF Poll THEN "ready" ELSE "reduce"]]
  /\ want = [g \in Groups |-> [r \in Ranks |-> 0]]
  /\ callReady = [g \in Groups |-> [r \in Ranks |-> Poll]]
  /\ pieces = [g \in Groups |-> [r \in Ranks |-> <<>>]]
  /\ lchan = [g \in Groups |-> [r \in Others |-> <<>>]]
  /\ batch = [g \in Groups |-> <<>>]
  /\ busy = [g \in Groups |-> FALSE]
  /\ dh = [g \in Groups |-> 0]
  /\ rokw = [g \in Groups |-> [h \in 0 .. NH |-> FALSE]]
  /\ rokc = [g \in Groups |-> [h \in 0 .. NH |-> FALSE]]
  /\ file = [g \in Groups |-> [h \in Handles |-> NoFile]]
  /\ outbuf = [g \in Groups |-> {}]
  /\ stored = [g \in Groups |-> FALSE]
  /\ fname = [g \in Groups |-> NoFile]
  /\ status = [d \in Datasets |-> "none"]
  /\ contents = [d \in Datasets |-> <<>>]
  /\ unsynced = [d \in Datasets |-> FALSE]
  /\ ready = {}

-----------------------------------------------------------------------------
(* The top of the loop: polling, and the clients' collectives.              *)

\* After a message is dealt with: announce the group again, or wait.
\* A plausible slip: the group is announced after every message.
LoopTopAlways(g, r) == IF Poll THEN "ready" ELSE "reduce"
LoopTop(g, r) == IF Poll /\ callReady[g][r] THEN "ready" ELSE "reduce"

\* wrf_quilt_server_ready: behind the first barrier the master blocks in
\* mpi_ssend, and the second barrier lets all servers go on.
OfferGroup(g) ==
  /\ \A r \in Ranks : phase[g][r] = "ready"
  /\ phase' = [phase EXCEPT ![g] = [r \in Ranks |-> "offering"]]
  /\ callReady' = [callReady EXCEPT ![g] = [r \in Ranks |-> FALSE]]
  /\ idle' = idle \cup {g}
  /\ UNCHANGED <<mediationVars, tableVars, chan, found, seen, want, pieces, lchan,
                 rootVars, diskVars>>

GroupFound(g) ==
  /\ \A r \in Ranks : phase[g][r] = "offering"
  /\ g \notin idle
  /\ phase' = [phase EXCEPT ![g] = [r \in Ranks |-> "reduce"]]
  /\ UNCHANGED <<clientVars, want, callReady, pieces, lchan, rootVars, diskVars>>

\* A collective completes on the server when each of its clients has joined it.
Joined(g, r, kind) ==
  \A c \in Served(r) : chan[c][g] # <<>> /\ Head(chan[c][g]).kind = kind

\* A plausible slip: the records are received together with their size.
TakeHeadsTwice(g, r) ==
  chan' = [c \in Clients |-> IF c \in Served(r)
                             THEN [chan[c] EXCEPT ![g] = SubSeq(@, 3, Len(@))] ELSE chan[c]]
TakeHeads(g, r) ==
  chan' = [c \in Clients |-> IF c \in Served(r) THEN [chan[c] EXCEPT ![g] = Tail(@)]
                             ELSE chan[c]]

\* MPI_SUM of one of the two words of a reduce.
Reduced(g, r, word) == MapThenSumSet(LAMBDA c : Head(chan[c][g])[word], Served(r))

\* What a size means: an exit, an overflow, records to collect, or a close.  For
\* a close the server makes up the record the clients did not send.
ServerReduce(g, r) ==
  LET size == Reduced(g, r, "size")
      h    == Reduced(g, r, "h")
  IN /\ phase[g][r] = "reduce"
     /\ Joined(g, r, "reduce")
     /\ TakeHeads(g, r)
     /\ want' = [want EXCEPT ![g][r] = IF size > 0 THEN size ELSE 0]
     /\ phase' = [phase EXCEPT ![g][r] =
                    IF size = ExitSize THEN "exited"
                    ELSE IF size < 0 THEN "aborted"
                    ELSE IF size > 0 THEN "gather" ELSE "forward"]
     /\ IF size = 0
        THEN /\ pieces' = [pieces EXCEPT ![g][r] = << <<Rec("close", h, 0, 0, r)>> >>]
             /\ callReady' = [callReady EXCEPT ![g][r] = Poll]
        ELSE UNCHANGED <<pieces, callReady>>
     /\ UNCHANGED <<mediationVars, tableVars, pollVars, lchan, rootVars, diskVars>>

\* The two scans of obuf.  Of replicated records the group needs one: training
\* headers and commits are kept once per server, and a server keeps one noop of
\* a message to stay in step with the server of the monitor, which keeps none.
\* A plausible slip: every server keeps its first noop.
NoopKeptEverywhere(r, recs, i) == \A j \in 1 .. i - 1 : recs[j].tag # "noop"
NoopKept(r, recs, i) == r # 0 /\ \A j \in 1 .. i - 1 : recs[j].tag # "noop"

Kept(r, recs, i) ==
  CASE recs[i].tag \in {"train", "commit"} ->
         \A j \in 1 .. i - 1 : recs[j].tag # recs[i].tag
    [] recs[i].tag = "noop" -> NoopKept(r, recs, i)
    [] OTHER -> TRUE

\* Records of one field share a piece; a commit and everything else have a
\* piece of their own.
\* A plausible slip: the name of the field is not compared.
SamePieceAnyField(recs, i, j) ==
  i = j \/ (recs[i].tag \in {"train", "field"} /\ recs[j].tag \in {"train", "field"})
SamePiece(recs, i, j) ==
  \/ i = j
  \/ /\ recs[i].tag \in {"train", "field"} /\ recs[j].tag \in {"train", "field"}
     /\ recs[i].v = recs[j].v

\* A sequence for each element, put together in order.
Collect(n, f(_)) == FlattenSeq([i \in 1 .. n |-> f(i)])

Pieces(r, recs) ==
  LET n == Len(recs)
      kept == {i \in 1 .. n : Kept(r, recs, i)}
      First(i) == i \in kept /\ \A j \in kept : j < i => ~SamePiece(recs, i, j)
      Piece(i) == Collect(n, LAMBDA j : IF j \in kept /\ SamePiece(recs, i, j)
                                        THEN <<recs[j]>> ELSE <<>>)
  IN Collect(n, LAMBDA i : IF First(i) THEN <<Piece(i)>> ELSE <<>>)

\* collect_on_comm concatenates in rank order and aborts when the records
\* outgrow obuf; a shorter message would leave the tail of obuf undefined.
ServerGather(g, r) ==
  LET recs == Collect(NC, LAMBDA i : IF i - 1 \in Served(r)
                                     THEN Head(chan[i - 1][g]).recs ELSE <<>>)
  IN /\ phase[g][r] = "gather"
     /\ Joined(g, r, "gather")
     /\ TakeHeads(g, r)
     /\ IF Len(recs) = want[g][r]
        THEN /\ pieces' = [pieces EXCEPT ![g][r] = Pieces(r, recs)]
             /\ phase' = [phase EXCEPT ![g][r] = "forward"]
        ELSE /\ phase' = [phase EXCEPT ![g][r] = "aborted"]
             /\ UNCHANGED pieces
     /\ UNCHANGED <<mediationVars, tableVars, pollVars, want, callReady, lchan,
                    rootVars, diskVars>>

-----------------------------------------------------------------------------
(* From the servers of a group to their root.                               *)

\* A server that is not the root sends its next piece, or finds there is none
\* and returns to the top.
Forward(g, r) ==
  /\ phase[g][r] = "forward"
  /\ Len(lchan[g][r]) <= LocalEager
  /\ IF pieces[g][r] # <<>>
     THEN /\ lchan' = [lchan EXCEPT ![g][r] = Append(@, Head(pieces[g][r]))]
          /\ pieces' = [pieces EXCEPT ![g][r] = Tail(@)]
          /\ UNCHANGED phase
     ELSE /\ lchan' = [lchan EXCEPT ![g][r] = Append(@, End)]
          /\ phase' = [phase EXCEPT ![g][r] = LoopTop(g, r)]
          /\ UNCHANGED pieces
  /\ UNCHANGED <<clientVars, want, callReady, rootVars, diskVars>>

Arrived(g) == \A r \in Others : lchan[g][r] # <<>>
TakeLocal(g) == lchan' = [lchan EXCEPT ![g] = [r \in Others |-> Tail(@[r])]]

\* The root has a piece: it collects one from every server, its own last.
RootCollect(g) ==
  /\ phase[g][Root] = "forward" /\ ~busy[g]
  /\ pieces[g][Root] # <<>>
  /\ Arrived(g) /\ \A r \in Others : Head(lchan[g][r]) # End
  /\ TakeLocal(g)
  /\ batch' = [batch EXCEPT ![g] =
       Collect(NS, LAMBDA i : IF i = NS THEN Head(pieces[g][Root])
                                        ELSE Head(lchan[g][i - 1]))]
  /\ pieces' = [pieces EXCEPT ![g][Root] = Tail(@)]
  /\ busy' = [busy EXCEPT ![g] = TRUE]
  /\ stored' = [stored EXCEPT ![g] = FALSE]
  /\ UNCHANGED <<clientVars, phase, want, callReady, dh, rokw, rokc, file, outbuf, fname,
                 diskVars>>

\* No piece is left on the root, and none on the others.  If the last of them had
\* a patch, its dataset is to be synced, by the package that io_form names: the
\* array is passed for a scalar, so it is io_form(0) that chooses.
RootDone(g) ==
  /\ phase[g][Root] = "forward" /\ ~busy[g]
  /\ pieces[g][Root] = <<>>
  /\ Arrived(g) /\ \A r \in Others : Head(lchan[g][r]) = End
  /\ TakeLocal(g)
  /\ phase' = [phase EXCEPT ![g][Root] = LoopTop(g, Root)]
  /\ \E named \in SyncNamed :
       unsynced' = IF stored[g] /\ named THEN [unsynced EXCEPT ![file[g][dh[g]]] = FALSE]
                   ELSE unsynced
  /\ UNCHANGED <<clientVars, want, callReady, pieces, rootVars, status, contents, ready>>

-----------------------------------------------------------------------------
(* The root's handling of a batch, record by record.                        *)

Handling(g, tags) == busy[g] /\ batch[g] # <<>> /\ Head(batch[g]).tag \in tags
NextRecord(g) == batch' = [batch EXCEPT ![g] = Tail(@)]

HandleNoop(g) ==
  /\ Handling(g, {"noop"})
  /\ NextRecord(g)
  /\ UNCHANGED <<clientVars, taskVars, busy, dh, rokw, rokc, file, outbuf, stored, fname,
                 diskVars>>

\* put_dom_ti_*: metadata of the dataset, not told apart here.
HandleMeta(g) ==
  /\ Handling(g, {"meta"})
  /\ dh' = [dh EXCEPT ![g] = Head(batch[g]).h]
  /\ NextRecord(g)
  /\ UNCHANGED <<clientVars, taskVars, busy, rokw, rokc, file, outbuf, stored, fname, diskVars>>

\* ext_ncd_open_for_write_begin creates the dataset.
\* A plausible slip: the permission to write of the handle's last file stays.
OpenedKeepsWrite(g, h) == rokw
OpenedNoWrite(g, h) == [rokw EXCEPT ![g][h] = FALSE]

HandleOpen(g) ==
  LET rec == Head(batch[g])
      d   == <<rec.v, rec.date>>
  IN /\ Handling(g, {"open"})
     /\ dh' = [dh EXCEPT ![g] = rec.h]
     /\ file' = [file EXCEPT ![g][rec.h] = d]
     /\ status' = [status EXCEPT ![d] = "opened"]
     /\ rokw' = OpenedNoWrite(g, rec.h)
     /\ NextRecord(g)
     /\ UNCHANGED <<clientVars, taskVars, busy, rokc, outbuf, stored, fname, contents, unsynced, ready>>

HandleCommit(g) ==
  LET h == Head(batch[g]).h
  IN /\ Handling(g, {"commit"})
     /\ dh' = [dh EXCEPT ![g] = h]
     /\ rokc' = [rokc EXCEPT ![g][h] = TRUE]
     /\ NextRecord(g)
     /\ UNCHANGED <<clientVars, taskVars, busy, rokw, file, outbuf, stored, fname, diskVars>>

\* A field record.  The root knows whether a patch follows the header only from
\* its own okay_to_write: when that disagrees with the client it loses its
\* place in bigbuf.  store_patch_in_outbuf stops on a second date of a field.
HandleField(g) ==
  LET rec == Head(batch[g])
  IN /\ Handling(g, {"train", "field"})
     /\ dh' = [dh EXCEPT ![g] = rec.h]
     /\ NextRecord(g)
     /\ IF \/ rokw[g][rec.h] # (rec.tag = "field")
           \/ rokw[g][rec.h] /\ \E p \in outbuf[g] : p.v = rec.v /\ p.date # rec.date
        THEN /\ phase' = [phase EXCEPT ![g][Root] = "aborted"]
             /\ UNCHANGED <<outbuf, stored>>
        ELSE /\ outbuf' = IF rokw[g][rec.h]
                          THEN [outbuf EXCEPT ![g] =
                                  @ \cup {[v |-> rec.v, date |-> rec.date, src |-> rec.src]}]
                          ELSE outbuf
             /\ stored' = [stored EXCEPT ![g] = @ \/ rokw[g][rec.h]]
             /\ UNCHANGED phase
     /\ UNCHANGED <<clientVars, want, callReady, pieces, lchan, busy, rokw, rokc, file,
                    fname, diskVars>>

\* Files the package is asked to close: WRF_FILE_OPENED_NOT_COMMITTED or
\* WRF_FILE_OPENED_FOR_WRITE.
ClosesOpen(d) == status[d] \in {"opened", "committed"}

\* Only the server of the monitor knows the handle; the records the others made
\* up carry zero.  The ready file is named after the last inquiry.
HandleClose(g) ==
  LET h == Head(batch[g]).h
      d == file[g][h]
      name == IF h >= 1 THEN d ELSE fname[g]
  IN /\ Handling(g, {"close"})
     /\ dh' = [dh EXCEPT ![g] = h]
     /\ IF h >= 1 /\ ClosesOpen(d)
        THEN /\ status' = [status EXCEPT ![d] = "closed"]
             /\ unsynced' = [unsynced EXCEPT ![d] = FALSE]
        ELSE UNCHANGED <<status, unsynced>>
     /\ fname' = [fname EXCEPT ![g] = name]
     /\ ready' = IF name[1] \in ReadyStreams THEN ready \cup {name} ELSE ready
     /\ NextRecord(g)
     /\ UNCHANGED <<clientVars, taskVars, busy, rokw, rokc, file, outbuf, stored, contents>>

\* The records of write_outbuf: one per field in the buffer.
\* A plausible slip: the loop over the table ends one entry early.
Stored(g, v) == {p \in outbuf[g] : p.v = v}
Entry(g, v) == [v |-> v, date |-> (CHOOSE p \in Stored(g, v) : TRUE).date,
                from |-> {p.src : p \in Stored(g, v)}]
AssembledButLast(g) ==
  Collect(NF - 1, LAMBDA v : IF Stored(g, v) = {} THEN <<>> ELSE <<Entry(g, v)>>)
Assembled(g) ==
  Collect(NF, LAMBDA v : IF Stored(g, v) = {} THEN <<>> ELSE <<Entry(g, v)>>)

\* write_outbuf ends in init_outbuf.
\* A plausible slip: the table is not emptied.
FlushedNot(g) == outbuf
Flushed(g) == [outbuf EXCEPT ![g] = {}]

\* ext_ncd_open_for_write_commit.
\* A plausible slip: okay_to_write is set without it.
CommitSkipped(d) == status
CommitDone(d) == [status EXCEPT ![d] = "committed"]

\* After the last record of a batch: what was stored is written, and a commit
\* that was asked for is done.
FinishBatch(g) ==
  LET h == dh[g]
      d == file[g][h]
  IN /\ busy[g] /\ batch[g] = <<>>
     /\ IF outbuf[g] # {}
        THEN /\ contents' = [contents EXCEPT ![d] = @ \o Assembled(g)]
             /\ unsynced' = [unsynced EXCEPT ![d] = TRUE]
             /\ outbuf' = Flushed(g)
        ELSE UNCHANGED <<contents, unsynced, outbuf>>
     /\ IF rokc[g][h]
        THEN /\ fname' = [fname EXCEPT ![g] = d]
             /\ rokc' = [rokc EXCEPT ![g][h] = FALSE]
             /\ IF status[d] = "opened"
                THEN /\ status' = CommitDone(d)
                     /\ rokw' = [rokw EXCEPT ![g][h] = TRUE]
                ELSE UNCHANGED <<status, rokw>>
        ELSE UNCHANGED <<fname, rokc, status, rokw>>
     /\ busy' = [busy EXCEPT ![g] = FALSE]
     /\ UNCHANGED <<clientVars, taskVars, batch, dh, stored, file, ready>>

-----------------------------------------------------------------------------
RootStep(g) ==
  \/ RootCollect(g) \/ RootDone(g) \/ HandleNoop(g) \/ HandleMeta(g) \/ HandleOpen(g)
  \/ HandleCommit(g) \/ HandleField(g) \/ HandleClose(g) \/ FinishBatch(g)

ServerStep(g, r) ==
  \/ ServerReduce(g, r) \/ ServerGather(g, r)
  \/ r \in Others /\ Forward(g, r)
  \/ r = Root /\ RootStep(g)

PollStep(g) == OfferGroup(g) \/ GroupFound(g)

\* The run is over: every task has left.
Finished ==
  /\ \A c \in Clients : stage[c] = "gone"
  /\ \A g \in Groups, r \in Ranks : phase[g][r] = "exited"
Over == Finished /\ UNCHANGED vars

ServersNext == \E g \in Groups : PollStep(g) \/ \E r \in Ranks : ServerStep(g, r)

Next ==
  \/ \E c \in Clients : ClientStep(c) /\ UNCHANGED serverVars
  \/ ServersNext
  \/ Over

QuiltSpec == QuiltInit /\ [][Next]_vars

\* The servers are scheduled, the clients may compute for ever.
AsyncSpec == QuiltSpec /\ WF_vars(ServersNext)

-----------------------------------------------------------------------------
Phases == {"ready", "offering", "reduce", "gather", "forward", "exited", "aborted"}
ServerRecords ==
  [tag : {"noop", "open", "meta", "train", "commit", "field", "close"},
   h : 0 .. NH, v : Nat, date : Nat, src : Nat]
Files == Datasets \cup {NoFile}

\* Every variable has its type.
TypeOK ==
  /\ ClientTypeOK
  /\ phase \in [Groups -> [Ranks -> Phases]]
  /\ want \in [Groups -> [Ranks -> Nat]]
  /\ callReady \in [Groups -> [Ranks -> BOOLEAN]]
  /\ pieces \in [Groups -> [Ranks -> Seq(Seq(ServerRecords))]]
  /\ lchan \in [Groups -> [Others -> Seq(Seq(ServerRecords))]]
  /\ batch \in [Groups -> Seq(ServerRecords)]
  /\ busy \in [Groups -> BOOLEAN]
  /\ dh \in [Groups -> 0 .. NH]
  /\ rokw \in [Groups -> [0 .. NH -> BOOLEAN]]
  /\ rokc \in [Groups -> [0 .. NH -> BOOLEAN]]
  /\ file \in [Groups -> [Handles -> Files]]
  /\ \A g \in Groups :
       outbuf[g] \subseteq [v : 1 .. NF, date : 1 .. MaxOutputs, src : Clients]
  /\ stored \in [Groups -> BOOLEAN]
  /\ fname \in [Groups -> Files]
  /\ status \in [Datasets -> {"none", "opened", "committed", "closed"}]
  /\ contents \in [Datasets -> Seq([v : 1 .. NF, date : Nat, from : SUBSET Clients])]
  /\ unsynced \in [Datasets -> BOOLEAN]
  /\ ready \subseteq Datasets

\* The two halves of the protocol never drift apart: the collective a client
\* has sent is the one its server expects next, whatever the calls in between.
CollectivesMatch ==
  \A c \in Clients, g \in Groups :
    chan[c][g] # <<>> =>
      LET p == phase[g][ServerOf[c]]
      IN /\ p # "exited"
         /\ Head(chan[c][g]).kind = IF p = "gather" THEN "gather" ELSE "reduce"

\* Within a group every server forwards as many pieces of a message as its
\* root: no server is left in a collective the others do not join.
LocalCollectivesMatch ==
  \A g \in Groups :
    (phase[g][Root] = "forward" /\ ~busy[g]) =>
      \A r \in Others : lchan[g][r] # <<>> =>
        ((Head(lchan[g][r]) = End) <=> (pieces[g][Root] = <<>>))

\* No task stops the run: the sizes announced are the sizes sent, their sum is
\* never taken for another signal, the root agrees with the clients on what is
\* training, and no field of another date is left in its buffer.
NeverAborts == \A g \in Groups, r \in Ranks : phase[g][r] # "aborted"

\* The records of a batch belong to one call: apart from the noops they carry
\* the same tag, handle, field and date.
BatchOfOneCall ==
  \A g \in Groups : \A i, j \in DOMAIN batch[g] :
    LET a == batch[g][i]
        b == batch[g][j]
    IN (a.tag # "noop" /\ b.tag # "noop") =>
         /\ a.tag = b.tag
         /\ a.tag # "close" => a.h = b.h /\ a.v = b.v /\ a.date = b.date

\* With polling only "inactive I/O servers" are found "for new data handles": a
\* group offers itself when the last client has closed the file it served, and
\* never while some client still counts on it.
IdleGroupServesNoFile ==
  \A g \in idle, c \in Clients, h \in Handles : server[c][h] # g

\* When the run is over every output ever begun is on disk, in a closed file,
\* complete.
NothingLost ==
  Finished =>
    \A s \in Streams : \A k \in 1 .. outs[Monitor][s] : \A v \in 1 .. NF :
      \E d \in Datasets :
        /\ d[1] = s /\ status[d] = "closed" /\ ~unsynced[d]
        /\ \E i \in DOMAIN contents[d] :
             contents[d][i] = [v |-> v, date |-> k, from |-> Clients]

\* What the files promise (see OutputFiles).
Promise == INSTANCE OutputFiles WITH Patches <- Clients
FilesAsPromised == Promise!Spec

\* When some task that can go on does, clients included, the run ends: no task
\* waits forever in a collective.
EveryRunEnds == WF_vars(Next) => <>Finished

\* A client has sent its part of the k-th output of a stream.
Synced(c, s, k) ==
  \/ outs[c][s] > k
  \/ outs[c][s] = k /\ (cur[c] # s \/ ~(Writing(c) \/ stage[c] = "open"))

\* "flush output files if needed": when the root waits for its next message
\* nothing it has written is only in the memory of the I/O package.
FlushedAtTop ==
  \A g \in Groups : phase[g][Root] \in {"ready", "offering", "reduce"} =>
    \A h \in Handles : file[g][h] # NoFile => ~unsynced[file[g][h]]

\* Output is asynchronous: once every client has returned from its iosync, the
\* root hands the output to the I/O package, assembled from the patches of all
\* clients, even if no client makes another call.  On the disk it need not be
\* before the file is closed (see FlushedAtTop).
SyncedIsWritten ==
  \A s \in Streams, k \in 1 .. MaxOutputs :
    (\A c \in Clients : Synced(c, s, k)) ~>
       \E d \in Datasets : /\ d[1] = s
                           /\ \E i \in DOMAIN contents[d] :
                                contents[d][i] = [v |-> NF, date |-> k, from |-> Clients]
=============================================================================
