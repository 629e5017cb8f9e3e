# WRF: a TLA+ model of its protocols and its bookkeeping

The repository holds WRF 4.8 (`WRF/`), WPS 4.6 (`WPS/`) and the scripts of the
WUS-LES experiments (`WPS_Workflow/`).  Most of its code is numerics.  What is
modelled here is the code around the numerics whose correctness is a matter of
protocol or of bookkeeping, and which a test hardly reaches because it takes many
tasks, an unusual order or an unusual size to go wrong:

- **I/O quilting**, by which the compute tasks hand their patches of each field
  to groups of I/O server tasks and compute on while the servers write the files;
- the **decomposition** of a domain and the **exchange of halos** between the
  tasks, with the code generator that reserves the memory for it;
- the **I/O streams**: from the Registry to the fields an output selects;
- the **stack of the adjoint model** and the buffers in front of it.

Sections 1 to 6 give the inventory, the modules, the runs, the findings, the
proofs and the plan.  Line numbers refer to
`src/WRF/frame/module_io_quilt_old.F` unless a file is named
(`module_io_quilt.F` includes that file).

## 1. The system's parts

| part | code | state | operations | hard because |
|---|---|---|---|---|
| division of tasks | `setup_quilt_servers` 195-477, `compute_mesh` in `frame/module_dm.F` | colours, four kinds of communicator, `nio_groups`, `nio`, masters | four rounds of `MPI_Comm_split` | hand-computed ranks; remainders; the later protocol rests on who is last and who is first in each communicator |
| client API | `wrf_quilt_*` 2970-5014, `get_server_id` 120, `int_get_fresh_handle` 168 | handle tables (`int_handle_in_use`, `okay_to_write`, `int_num_bytes_to_write`, `server_for_handle`), one local output buffer | open, put metadata, write (training and real), commit, iosync, close, exit | each task keeps its own tables, they must agree; one unchecked buffer for all handles |
| polling | `wrf_quilt_find_server` 5038, `wrf_quilt_server_ready` 5077 | messages on `mpi_comm_avail` | receive from any source, broadcast; barrier, synchronous send, barrier | three communicators at once, race between groups |
| server loop | `quilt` 514-1556 | size announced, field cache, `DataHandle`, `okay_to_write`, `okay_to_commit`, `handle`, `fname` | collect, sort into pieces, forward to the root, handle records, write, commit, close, exit | meaning of a message depends on a sum of sizes; servers with different numbers of clients must stay in step |
| field cache | `frame/pack_utils.c` 110-246 | `MAX_FLDS` static slots | count a piece, store it, retrieve a field | slots outlive a batch; the scan that counts and the scan that stores must agree |
| collectives | `frame/collect_on_comm.c` | counts and displacements in `int` | gather or scatter buffers of different sizes | overflow of sums |
| assembly | `store_patch_in_outbuf`, `write_outbuf` in `frame/module_quilt_outbuf_ops.F` | `outbuf_table` | store a patch, write all fields, reset | state kept from one batch to the next |
| mediation layer | `med_hist_out`, `med_restart_out`, `open_hist_w`, `med_shutdown_io` in `share/`, `output_wrf` | `grid%oid`, `grid%nframes`, file state | order of the API calls | two passes over the fields of a new file; files cut off by the end of the run |
| decomposition | `TASK_FOR_POINT` (`external/RSL_LITE/task_for_point.c`), `patch_domain_rsl_lite` and `compute_memory_dims_rsl_lite` in `external/RSL_LITE/module_dm.F` | patch of each task | the owner of a point | every task works it out alone; integer remainders; intermediate domains of nests |
| halo exchange | `rsl_comm_iter` in `module_dm.F`, `c_code.c`, `f_pack.F90` in `external/RSL_LITE`, and the code `tools/gen_comms.c` writes around them | pointers of the iteration, buffers, memory of the field | iterate, pack, exchange, unpack, along y and then x | no task is told what the others send; stencils wider than patches; messages told apart by their order only |
| halo buffers | `gen_halos`, `gen_packs_halo` in `tools/gen_comms.c`, `buf_for_proc.c` | counters of the generator; size of the buffer and cursor at run time | count the fields, reserve, pack | the count and the pack are two routines |
| I/O streams | `tools/reg_parse.c`, `tools/misc.c`, `tools/gen_allocs.c`, `frame/pack_utils.c`, `modify_io_masks1` in `frame/module_domain.F`, `on_stream` in `frame/module_io.F` | mask of each field on each task | parse the I/O column, edit by a runtime file, broadcast, test | masks coded twice; streams numbered from 0 and from 1; error lines applied in part |
| adjoint stack | `wrftladj/adStack.c` | chain of blocks, main and LOOKing cursors | push, pop, look at arrays of bytes | arrays cut over blocks, pointer comparisons at block boundaries |
| adjoint buffers | `wrftladj/adBuffer.F` | a buffer and indices per type, words of bits | push, pop, look at values, bits, control values | buffers fill and empty at different times and share one stack |
| data handles | `frame/module_io.F` | table of 1000 handles | add, get, free | planned |
| communicators per domain | `split_communicator` in `frame/module_dm.F` | communicators per nest | one-time set-up, push and pop | planned |
| clock and alarms | `external/esmf_time_f90` | clock, alarms | advance, ring | planned |
| nested integration | `frame/module_integrate.F`, `share/mediation_integrate.F` | nest tree | recursive stepping, force, feedback | planned |

### Not modelled

Dynamics, physics, chemistry, data assimilation and the differentiated routines
(floating-point numerics); the generators of the Registry other than the halos and the
stream masks, and its preprocessor (text processing); the KPP preprocessor and
`makedepf90` (third-party programs carried along); the I/O packages
(`external/io_netcdf` and its like: pure I/O, seen here only as a dataset's status);
the OASIS coupler (its other half is not in the repository); `quilt_pnc` and all code
under `PNETCDF_QUILT` (a second server loop for parallel netCDF that is off unless asked
for at compile time); WPS and the workflow scripts.  Of the halo exchange: the adjoint pack
(`RSL_LITE_PACK_AD`), the `DA_CORE` branch of `rsl_comm_iter`, period, swap and cycle
exchanges, and the messages between a nest and its parent (`rsl_bcast.c`).

### How the parts interact

Compute tasks ("clients") call the API in the same order, because they run one
program on one clock, but not at the same time.  A call that concerns a file
goes to one server *group*.  Each client belongs, for every group, to one
communicator (`mpi_comm_io_groups`) with one server of the group.  A message is

1. `MPI_Reduce` of two integers, the size and (from the monitor, client 0) the
   handle.  The sum means: -100 exit, otherwise negative overflow, zero close,
   positive the size of what follows;
2. unless it was a close or an exit, `collect_on_comm` (`MPI_Gatherv`) of the
   records.

What only one task needs to say is said by the monitor; the others send a
`noop`.  Each server of the group sorts the records it received into *pieces*
(one per field; `pack_utils.c`) and the servers then meet, piece by piece, on
`mpi_comm_local`, where the last of them, the *root*, collects the pieces and
carries out the records.  Only the root opens and writes files.

A file is written in two passes.  The first, *training*, comes before the commit
of the open: every client sends a header of each field and adds up what its
patches will take.  After the commit the same calls pack the patches into
`int_local_output_buffer`, which `wrf_quilt_iosync` sends.

With `poll_servers` a group announces itself when it has closed its file, and an
open takes whichever group has announced itself.

Within a server, `FieldCache` is what turns a message into pieces, and
`CollectOnComm` the arithmetic beneath "collects" and beneath the sum of sizes.
Which fields `output_wrf` writes, and so which calls of the API there are, is
what `IoStreams` is about: a task with another mask would leave out a collective.

The compute tasks divide each domain by `TASK_FOR_POINT` (`TaskForPoint`), from which
`HaloExchange` takes the patches and the owners of the points.  The halo of a task is filled by its neighbours, two or more
tasks away when patches are narrow.  The adjoint model runs the same exchanges; what its forward
sweep must keep for the backward sweep goes to `AdBuffer`'s buffers and from there, an
array at a time, to `AdStack`.

## 2. Modules

| module | models | checked by |
|---|---|---|
| `QuiltSetup` | `setup_quilt_servers` | its own cfg, `V_ServersKeepTheirGroup.cfg` |
| `QuiltClient` | the clients: mediation order, API, tables, messages sent | `MCQuilt`, `MCQuiltGroups`, through `Quilt` |
| `Quilt` | extends `QuiltClient` by the servers: polling, loop, forwarding, root, files | `MCQuilt`, `MCQuiltGroups` |
| `QuiltProofs` | theorems about `QuiltSetup`, `QuiltClient` and the channels of `Quilt` | `tlapm` |
| `QuiltServerProofs` | extends `QuiltProofs`: theorems about what the servers of a group and its root make of the calls | `tlapm` |
| `OutputFiles` | abstract: what the files promise their reader | property `FilesAsPromised` of `Quilt` |
| `FieldCache` | the slots of `pack_utils.c` | `MCBuffers` |
| `CollectOnComm` | `col_on_comm`, `dst_on_comm`, what the server takes the sum of sizes for | `MCBuffers` |
| `SumLemmas` | the sum of a function over a finite set, and sequences put together, by induction; least elements | `tlapm`, used by the other proofs |
| `TaskForPoint` | the operator `TASK_FOR_POINT`, no state | used by `HaloExchange` |
| `HaloExchange` | one exchange after another between the tasks of a mesh | `MCHaloExchange` |
| `HaloExchangeProofs` | theorems about `TaskForPoint` and `HaloExchange` | `tlapm` |
| `HaloBuffers` | the generator's count of a halo and the buffer at run time | `MCBuffers` |
| `BufferProofs` | theorems about `HaloBuffers`, `FieldCache` and `CollectOnComm` | `tlapm` |
| `IoStreams` | masks of the fields from the Registry to `on_stream` | `MCIoStreams` |
| `IoStreamsProofs` | theorems about `IoStreams` | `tlapm` |
| `Tape` | abstract: a stack of arrays with pop and look | property of `AdStack` and `AdBuffer` |
| `AdStack` | `adStack.c`, byte by byte | its own cfg |
| `AdStackProofs` | theorems about `AdStack` | `tlapm` |
| `AdBuffer` | `adBuffer.F` on top of a `Tape` of typed arrays | `MCAdBuffer` |
| `AdBufferProofs` | theorems about `AdBuffer` | `tlapm` |

The `MC` modules define the values of constants their configurations name.  Where a module is
worth checking in several settings (grids, programs, files, menus of fields) the setting is a
variable that `Init` chooses from a constant set, so that one run covers all of them.
`MCQuiltGroups` does the same for `Poll`: its `Poll` is `TRUE`, and without `polled` it takes the
steps of an instance of `Quilt`, `InTurn`, whose `Poll` is `FALSE`.
`MCBuffers` puts `HaloBuffers`, `FieldCache` and `CollectOnComm` side by side, three small models of one question (does one
loop reserve what another one fills?), of which a behaviour runs one; they share no variable.

Four refinements tie the modules together.  `AdStack` implements `Tape`, and so does
`AdBuffer` (`ImplementsTape` of each): what the C stack promises its caller is what
the buffers use, and what the buffers promise the adjoint code is the same again.
(`AdBuffer` does so for programs without LOOKs and for those that LOOK at the values of one type and push nothing else, `LooksOfOneType`; see the
observations below.)  `Quilt` implements `OutputFiles`
(`FilesAsPromised`), with the identity on `status`, `contents` and `ready`.  And
`Quilt` implements `ClientSpec` (property `ClientSpec` of `quilt_one_group`):
`QuiltClient` lets its environment receive any heads of the channels and offer any
group, and the refinement says that the servers do nothing else to the clients'
variables.  That one is proved as well (`ServersRefineTheirPart`), so what is proved of
`ClientSpec` holds of the composed system for all values of the constants.

### QuiltSetup

All tasks execute the same routine on the same arguments, so one copy of its
variables stands for all.  `SetupInit` chooses the arguments (number of tasks, tasks per
group, groups, mesh, `poll_servers`), the actions are the routine's blocks in
program order, and a communicator is the set of its tasks (every split ranks by
task number).  `icolor` is one array reused by all splits, as in the code.

A mesh given in the namelist is one with `nproc_x * nproc_y = ncompute_tasks`, as
`compute_mesh` later demands; giving one of the two and `numtiles`-style options
(`lats_to_mic`) is left out.

### QuiltClient

One action per API call, whole: the table updates, the choice of the group and
the messages.  `plan` is the sequence of outputs the alarms cause; it is common to
the tasks and extended by the one that is ahead, so all schedules of up to
`MaxOutputs` outputs are explored.  `stage` is the next call of the mediation
layer.  `chan[c][g]` holds what client `c` has sent to its server in group `g`, in
program order, which is the order in which MPI matches collectives.

Abstractions:

- sizes are counted in records, a patch or header is one record;
- one metadata record (`put_dom_ti_*`) stands for the dozens `output_wrf` writes
  per pass: they differ in payload only;
- a field is its number, a date the number of the output of its stream;
- history streams and restart differ by `FramesPerFile`: a restart file is closed
  after its frame, which is `FramesPerFile = 1`;
- `Eager` is how many messages MPI buffers before a sender waits; 0 makes every
  collective synchronous, larger values let a client run ahead.

### Quilt

`phase` is the place of each server in the loop of `quilt`.  `ServerReduce` and
`ServerGather` complete when all clients of the server have joined.  `Pieces` is
the two scans of `obuf` with their three rules: training headers once per server,
commits once per server, and the noop rule (no noop from the server of the monitor,
one from each other server).  `Forward`, `RootCollect` and `RootDone` are the reduces and
gathers on `mpi_comm_local`; a server that has no piece left sends `End`, since the code's
loop ends there while the others may still collect.  `Handle*` are the cases of
the big `SELECT`, `FinishBatch` what follows the records of a batch: write what was
stored, then commit.

- `okay_to_write` exists twice, on the clients (`okw`) and on the root (`rokw`).  The
  root skips a patch after a header only if its own flag says there is one:
  when the two disagree the model stops the root (phase `aborted`), as the
  code would read data for a header.
- `dh` is `DataHandle`, which keeps the value of the last record handled and is
  used after the batch.  The close records made up by servers other than
  the first carry handle 0; `okay_to_commit(0)` is an element of the array
  (its bounds start at 0) and stays false.
- `fname` keeps the name of the last inquiry, so that the ready file of a record
  with handle 0 is named as the code names it.
- `RootDone` ends a pass of the server loop, with the flush of the I/O package if a patch was stored (`stored`, lines 1514-1552).
  `unsynced` says of which datasets the package may still keep output in memory.  Which package is
  flushed is chosen by `use_package(io_form)`, the whole array for a scalar, so by `io_form(0)`: nothing assigns it, and
  a build may have anything there.  `SyncNamed` has the outcomes: `TRUE` when it happens to name the package in use, `FALSE`
  when it names none (0, what a static array usually has, is none) and `CASE DEFAULT` skips the flush.  Nothing else reads `unsynced`, so what the
  other properties say, liveness among them, does not depend on `SyncNamed`.  A close flushes its dataset.
- Logical fields (skipped by the root) are left out.

### FieldCache

The server receives a batch (`Receive`: any sequence of pieces), scans it to count
(`AddToBufsize`), again to store (`StorePiece`), and retrieves field by field.  Bytes are
numbered by the piece they belong to, so what is retrieved can be compared with
what came in.  The slots keep what the last batch left in them, as the C
statics do; a store that is refused leaves the buffer it allocated (`Opened`).  The code does not compare `numflds` with `MAX_FLDS`: a name
too many is written past the slots (`Overrun`), after which what the memory holds is undefined and the model has no more steps.  Nothing in the
code keeps a batch below 2000 names; an iosync brings all fields of a pass at once.

### CollectOnComm

One call of `col_on_comm` (`Gather`, `AddUp`, `Summed`, `Move`), of `dst_on_comm` or of the server's
reduce followed by the collection.  `Signal` is what the server takes the sum for: bytes to collect, a close (0), an exit (-100, `ExitSize`) or an
overflow, which stops the run.  A sum that has wrapped to one of the others is not seen; the clients then wait in a gather.   The loop over the shares is a step per task, since it
may stop in the middle; `AsInt` wraps around among the numbers an int can say, up to `IntMax`.

### TaskForPoint

`TaskOf` is `TASK_FOR_POINT` in one dimension (the second is the same code with the
other arguments; the split between hosts and accelerators, `minx = -99`, is left out).

### HaloExchange

`Iterate` is one turn of the generated `DO WHILE ( rsl_comm_iter(...) )`: the widths from the
owners of the points, the packing of the boxes, the posting of receives and sends;
`Complete` the waits and the unpacking, `Turn` the change from y to x.  A field of one value per point
stands for all fields.  The patch of a task is the set of points it finds itself the owner of
(`Own`), with a ratio those of the intermediate domain of a nest.  A value is the point and the round it was computed in, so a
ghost that is old, or another point's, is noticed.  `chan` is the order MPI keeps between two
tasks; messages carry no round, as all have the same tag.  With `Rendezvous` a send
completes only when it is received.  Patches are assumed not to be empty (`PatchAssumption`): the
model checks them, and the generated code does not call the exchange on a task
without points of an intermediate domain.

### HaloBuffers

`CountField` follows `gen_halos` field by field, `BytesAsked` the call of `RSL_LITE_INIT_EXCH` it
writes, `PackField` the calls `gen_packs_halo` writes, `Overwrite` the test in `RSL_LITE_PACK` that stops the model.  A field is a record of what these
look at.  `size` survives from halo to halo, as the buffers do.  `MenusAssumption` says what the generator takes for granted
of the Registry: see section 4.  Levels may begin anywhere (`first`).

### IoStreams

`Parsed` is the scan of the I/O column, `Generated` the mask in the model's source; `BeginIo`,
`ReadLine`, `FinishRead` are `modify_io_masks1` on the monitor, line by line, `Receive` on the others,
`SelectFields` the loop of `output_wrf`.  `strmtyp_int` is not initialized in the code: `BeginIo`
chooses either value.  `want` is the other side of the comparison: the streams asked for, as sets of
names of streams, without a mask.  It follows the documents (`doc/README.io_config`), not the reading: when a file has been read, `Asked` takes all of its
lines, those after a blank one too, and of the lines about a field and a stream the last decides.
`Plain` are the files of which the code makes this: no line after a blank one, no stream `MAX_HISTORY`, no unknown type where errors are ignored.  The
model reads the others as the code does, and they are among the files of the run.

### AdStack, AdBuffer

In `AdStack` an address counts bytes from the beginning of the chain of blocks, so that `prev` and
`next` are a block less and a block more, and -B is `NULL`.  A turn of each while loop is
an action: `malloc` may fail in any.  `tape` and `looked` are the caller's side: it pops
what it pushed, with the size it pushed it with.

`AdBuffer` has a buffer, its index and its LOOKing copy for each type (`ad`), one set of
routines for all types, since the code repeats them; a control value of 1 to 5 bits is the sequence of its bits, as `BTEST` and
`IBSET` have it.
Buffers of 512 values are `L` long, words of 32 bits `W`.  An array on the C stack knows its type; what
a pop of another type would find is `Garbage`.

## 3. Runs

| run | instance | question | states |
|---|---|---|---|
| `quilt_setup` | every division of up to 12 tasks, 4 per group, 3 groups, all meshes | are the communicators those the protocol assumes? | 4.6 k |
| `quilt_one_group` | 3 clients on 2 servers (2+1), 2 streams (2 frames and 1), 2 fields, 3 outputs, one message buffered | the whole protocol, from the clients' tables down to the files | 458 k |
| `quilt_two_groups` | 2 clients, 2 groups of 2 servers, in turn or polled, 2 streams, 3 outputs | do the clients agree on the group, is it free, are the files right when two are written at once? | 810 k |
| `quilt_live` | 2 clients, 2 groups of 2 servers, polled, one stream of two frames, 3 outputs | does the run end? is synced output written, whatever the clients do? | 59 k |
| `halo_exchange` | 3 x 2 tasks on 4 x 3 points, stencil 3, or 2 with sends that wait; 2 x 2 tasks, stencil 3 and then 1; 3 tasks in the intermediate domain of a nest of ratio 3 | do halos and corners arrive, does every task get through? | 56 k |
| `buffers` | two halos in a row of up to 3 fields of 6 kinds on the grid, 3 on the subgrid, or both mixed, levels from 0, 1 or 2, stencils 4 and 48; 2 batches of up to 4 pieces of 3 names in 2 slots; 4 tasks with all counts of an int of 3 bits, in the three calls | is the buffer large enough? are fields sorted, nothing refused, nothing kept? do shares begin where they should? | 1.1 M |
| `io_streams` | 2 fields, 4 I/O strings, files of up to 3 lines, with comments, blank lines, errors ignored or fatal, stream 25, or edited meanwhile; 2 tasks, 2 I/Os, `MAX_HISTORY` 25, 32 bits | are fields on the streams asked for? are they the same on every task? | 126 k |
| `ad_stack` | 3 blocks of 3 bytes, 3 arrays of 2, 3 or 7 bytes | is what is popped what was pushed? | 1.2 M |
| `ad_buffer` | 2 types and bits (5 pushes); control values of 2 bits with arrays between (4); one type with LOOKs (7); bits and integers with LOOKs (5); buffers of 2, words of 2 bits | the same, through the buffers | 2.1 M |

`setup_servers_keep_group`, `quilt_flush` and `io_bad_file` expect a violation (section 4); the last two have the instances of
`quilt_one_group` and `io_streams`.

Why the bounds are enough to be of use.  Two servers with two and one clients is the
smallest case in which the noop rule matters, in which a server other than the first makes up close records
and in which the root is not the monitor's server.  Two streams of which one keeps its
file open over two frames give two open files, interleaved messages of two handles, a
handle freed and taken again (three outputs), a second frame without training and a
file still open at shutdown.  Two fields are needed for pieces, for the order within the local buffer
and for a batch to be confused with another.  With 12 tasks the setup meets every
remainder of 4 servers and meshes with fewer rows than servers.

Blocks of 3 bytes with arrays of 2, 3 and 7 bytes make arrays end with a block, begin at one, lie
within one and be cut over two and three of them.  An int of 3 bits overflows with four tasks once and
twice, to negative sums, to zero, to the signal of an exit (-2 there) and to positive ones.  Two slots of the cache for three
names are one too few; two halos in a row reuse a buffer that the first has enlarged.  Stencils of 3 over patches of 1 and 2 points need up to
three iterations, with neighbours that need different numbers.  `MAX_HISTORY` 25 makes masks of two words with
the input streams across the border; two lines are a blank one and an error, or an edit, behind it, three an error between two edits.  Buffers of two values, words of two bits and a tape of five or seven
let every buffer fill, be pushed, refill and be pushed again.

Deadlock is checked in the safety runs of `Quilt`, whose only stop is `Over`, which loops, and in
`ad_buffer`.  `CHECK_DEADLOCK FALSE` is said where the system really stops: `QuiltSetup` ends
with the routine, `HaloExchange` when every task is through (`EveryoneFinishes` says it stops nowhere else),
`HaloBuffers`, `IoStreams`, `FieldCache` and `CollectOnComm` after the halos, I/Os, batches and
collection of the bounds, or at an error that ends the program or leaves it undefined; `AdStack` when memory has
run out.  In `quilt_live` `EveryRunEnds` says more.  Groups in turn have no such run: none of their steps can be
repeated without another output, so the deadlock check of `quilt_two_groups` says that their runs end.

### Properties

- `OneServerAndLast`, `GroupsCoverClients`, `LocalIsTheGroup`, `MonitorServedByFirst`,
  `OneMasterPerServer`: the assumptions of the two halves of the protocol about
  the communicators (the server is the last rank; local rank 0 serves the monitor; a
  field gathered by a group has every patch once; ...).  Some hold only when there are at
  least as many mesh rows as servers (`FullRows`); see the finding.
- `HandlesLocked`, `BufferFits`, `TrainedBeforeWritten`: the tables of a client.
- `TablesAgree`: clients at the same point of the program have the same tables though none
  ever compares them.
- `CollectivesMatch`, `LocalCollectivesMatch`: the collective a task has joined is
  the one its root waits for, on both kinds of communicator.
- `NeverAborts`: sizes are never taken for another signal, `collect_on_comm` never finds
  more than announced, the root never loses its place, and no "multiple dates in buffer".
- `BatchOfOneCall`: what a batch mixes, on which the limit of outbuf rests.  (That of the field cache does not: the pieces of all
  fields of an iosync are in it at once.)
- `NothingLost`, `FilesAsPromised`: what the reader of the files sees.  `OutputFiles` writes only to a
  committed file, all patches of a field at once, fields in order, and lets a ready file announce
  only a closed one.
- `IdleGroupServesNoFile`: a polled group is never offered while in use.
- `EveryRunEnds`, `SyncedIsWritten`: liveness.  What has been synced is in the end assembled and handed to the I/O package; that it is on the
  disk by then would need the flush, and is not true (`FlushedAtTop`, section 4).  A dataset that is closed is flushed (`NothingLost`).
- `NothingRefused`, `RetrievedSorted`: the two scans of a batch agree, and the cache only sorts.
- `PlacesAreSums`: with counts that overflow an int, whatever is moved is where the counts, added up
  without limit, put it.  It says nothing of a sum that wraps around to another signal, nor of where the last share of a collect ends.
- `GhostsRight`, `SizesAgree`, `NothingLeftBehind`, `EveryoneFinishes`: what a stencil reads is what the
  owner computed in this round; sender and receiver agree on a message neither was told of; none is left for
  the next exchange to take; nobody waits for ever.
- `NeverOverwrites`: what is counted suffices for what is packed, but for halos that mix fields on and off the subgrid
  (`MixesGrids`) and for fields with levels below one (`BeginsBelowOne`).
- `StreamsAsAsked`, `SameFieldsEverywhere`: through two copies of the mask code and two
  numberings a field is on the streams asked for, after files that are `Plain`; every task selects the same fields though
  they read the file through one of them, whatever the file.
- `TopInsideBlock`, `NeverUnderflows`, `SizeIsPlace`, `TopArrayIsOwn`, `ImplementsTape`: the stack keeps its places, a
  buffer that runs empty finds its own array, and what was pushed comes back.

`Quilt`, `HaloExchange` and `AdStack` have a `TypeOK`.  In the other modules state is kept in
functions and sequences whose domains are the bounds of the code's arrays, and TLC stops at any
index outside them.

### Fairness

`EveryRunEnds` is termination under weak fairness of the whole next-state relation: if some task
can go on, some task does.  That is what an operating system and MPI give without any promise about which
task runs.  Nothing stronger is needed, because no task can go round its loop without a new message.
`SyncedIsWritten` assumes weak fairness of the servers' steps only (`AsyncSpec`): the servers are
scheduled and the clients may compute for ever, which is what asynchronous output is for.  The run's
specification is the weaker one, so `EveryRunEnds` states its fairness as a hypothesis.

`EveryoneFinishes` assumes `WF_vars(Next)` of `HaloExchange`, for the same reason.

## 4. Findings

Three statements of comments and documents that are not true of the code have a run that finds the counterexample.

`setup_servers_keep_group`.  Line 365 lowers `nio` to the number of mesh rows after
`mpi_comm_local` has been split with the old value.  With 3 tasks per group and a mesh of 2 rows
a server is left without an io_group, or belongs to one group by
`mpi_comm_local` and to another by its clients (description, lines 205-228).

`quilt_flush`.  "Flush output files if needed" (1516): the calls of `use_package` in the server loop pass `io_form(DataHandle)`, but
the one before the flush passes the array `io_form` (1519, declared at 77), so `io_form(0)` chooses the package.  No handle is 0 and nothing
assigns `io_form(0)`; when it names no package the root goes back to wait for its clients with a frame that only the package has.
In `V_FlushedAtTop.cfg` both outcomes are possible, and the counterexample takes the one in which nothing is flushed; with
`SyncNamed = {TRUE}`, what the author meant, the same property holds.  The data are not lost in a run that ends well, since the close flushes; they are in a
run that is killed.

`io_bad_file`.  `doc/README.io_config:26` promises an abort, when errors are not to be ignored, "if there are errors in these
user-specified files".  A blank line ends the reading (`module_domain.F:1085`, `LEN(TRIM(inln)) .GT. 0`), without a message, and an
error after it is never seen.  The sample the documents point to, `test/em_real/sample.txt`, is blank in line 2: none of
its edits (lines 6, 10 and 15) is made, nor are lines 12 to 14 noticed, which lack the `#` of a comment.

### Observations

Met while modelling, and reflected in the definitions or in the preconditions of properties; no run is about them.

- Line 428 computes the master of group `j` one task too low (comment, 408-409).  With two or more servers
  per group it still is a task of the group; with one the last group can never announce itself.
- Servers take whole mesh rows (366-376), so their clients differ by up to a row, not by at most one
  (comment, 826).  The noop rule does not need it: `LocalCollectivesMatch` holds with two clients against one.
- The 32-bit sum of sizes of a server's clients is a close when it wraps around to zero (718), though the comment
  at 735 means a special signal.
- `col_on_comm` tests where each share begins, not where the last one ends (`collect_on_comm.c:137`);
  `dst_on_comm` tests both.  `PlacesAreSums` demands the end of `dst_on_comm` only.
- A vertical dimension `(0:287)` (`m_hr`, `registry.dimspec:145`) is reserved 287 levels (`gen_comms.c:610`) and packed with
  288.  One field is on it, `AHE`, and it is in no halo.  `NeverOverwrites` excludes such fields by `BeginsBelowOne`; the run has one, and finds
  the abort when the precondition is taken away.
- The words of an array of scalars are counted as reals whatever its type (`gen_comms.c:541`), one is counted for the scalar that is
  never packed (`PARAM_FIRST_SCALAR` is 2), and a field on the subgrid is counted with the levels of the patch
  (`gen_comms.c:617`).  Nothing in the generator checks these; the proof of `BuffersSuffice` needs them (`MenusAssumption`).
- Fields on and off the subgrid in one halo overrun the buffer, of which the generator warns: `NeverOverwrites`
  excludes it by `MixesGrids`.
- `README.io_config:61` has the runtime file processed once; `modify_io_masks` is called by every input and output
  (`output_wrf.F:114`), so an edit during the run takes effect.
- A line for history stream 25, which is accepted, edits the main input stream, and one for input stream 25 sets the bit that `on_stream` tests for `restart_only`: `streamid` is from 0, `last_history` from 1 (`module_domain.F:1117`).
- A letter that is twice in an I/O column, `h0h1`, loses stream 0 (`reg_parse.c:515`), and a number that is no stream of the kind is
  taken for one of the next (`reg_parse.c:527`, whose test is always true); `StringsAssumption` leaves both out.
- `set_mask` uses a bit less of a word than `IO_MASK_SIZE` counts (`streams.h:15`): with `MAX_HISTORY` 78 the last input stream has no bit
  (`WordsAssumption`), with 30 `RESTART_STREAM` has none.
- A line with an unknown type, where errors are ignored, is applied with the type of the line before (`module_domain.F:1110-1113`), or with what
  `strmtyp_int` had.
- Nothing compares `numflds` with `MAX_FLDS` (`pack_utils.c:166`): see `Overrun`.
- `RESTART_STREAM` (`streams.h:14`) is not the bit `on_stream(restart_only)` tests (`module_streams.F:19`, `module_io.F:2135`).
- When `malloc` fails `adStack.c:84` counts the blocks from -1, so its message has one less than were allocated.
- The LOOKing position of the C stack is one for all types and the first LOOK of each type resets it
  (`adBuffer.F:394`), though "LOOKing is just like POPping" (`adStack.c:149`): hence `LooksOfOneType`.
- An array pushed or popped past the buffers (`PUSHREAL8ARRAY`) resets the LOOKing position of the C stack and not that of the buffers
  (`adBuffer.F:638` tests its own `adr8ilbuf` only), so a LOOK after it goes on in the middle of a buffer and finds the wrong array
  beneath: the proof needed `LooksOfOneType` to leave arrays out too.

## 5. What is proved

Eight modules hold theorems.  `QuiltProofs` proves of the compute tasks, with no assumption but `ClientConstants` (the types of the
constants), for any number of clients, groups, handles, streams, fields and outputs:

| theorem | says |
|---|---|
| `ClientTypes` | `ClientSpec => []ClientTypeOK` |
| `HandlesStayLocked` | `ClientSpec => []HandlesLocked` |
| `BufferNeverOverflows` | `ClientSpec => []BufferFits` |
| `TrainingComesFirst` | `ClientSpec => []TrainedBeforeWritten` |
| `IInvHolds` | `ClientSpec => []IInv`, from which the four follow |

None of the properties is inductive.  That the buffer holds no more than was trained
needs to know how many fields were trained for *this* handle, that the size survives until the
close, that the buffer is empty whenever no pass is under way, and where in the pass the client is.  `IInv` is
`ClientTypeOK` and for every client `ClientInv`, four named parts:

- `Locked`: per client, what `HandlesLocked` says;
- `Placed`: where the client is in the mediation layer: which stages have the
  file open, when it is permitted to write, and when the buffer is in use;
- `Sized`: a handle that may be written has the size `NF`; one that is being trained
  has as many as fields went by;
- `Filled`: the buffer holds the fields `1 .. fld - 1` of the pass, in order.

Every action changes the variables of one client, so `Frame` reduces the step to that client;
there is one lemma per action (`OpenForWriteBeginStep`, `TrainFieldStep`, ...), and
`ReceivedInv`, `OfferedInv` for the environment.  TLC checked `IInv` as an invariant
of the clients by themselves before it was proved.

It also proves `TablesStayInStep`, `ClientSpec => []TablesAgree`, from the same assumption.  That two clients
at the same point have equal tables is not inductive, and no invariant about two clients at *different* points is easy to state; so the
proof compares no two clients.  `After` is the next state of a client as a function of its own state, the plan and the groups found so
far; the invariant `Agree` says that there is one sequence of states, each `After` the one before it, which every client is on
(`Passed`, `OnIt`), that nobody is ahead of the plan or of the monitor's broadcasts (`Within`), and that later states of the sequence are
later points of the program (`Before`).  A step either goes to the next state of the sequence or, taken by the client furthest ahead,
adds one (`ClientStepAgrees`); plan and groups found only grow, so what was once after a state still is (`AfterIsSettled`).  A
point is passed once, so two clients at one point are in one state.  The orders of the handles and the streams closed at
the end enter here: the lowest free handle and the lowest open stream are functions of a client's own tables.

The rest of `QuiltProofs`, and `QuiltServerProofs` from `LocalCollectivesStayMatched` on, are about the clients and the servers together, for any numbers of both, of groups and of files, in turn or polled
(`ClientConstants` and `ServerConstants`, the types of the constants and that every server has a client):

| theorem | says |
|---|---|
| `ServersRefineTheirPart` | `QuiltSpec => ClientSpec` |
| `TablesBesideServers` | so the theorems about the clients hold of `QuiltSpec` |
| `ClientsAndServersMatch` | `QuiltSpec => []CollectivesMatch` |
| `IdleGroupsAreFree` | `QuiltSpec => []IdleGroupServesNoFile` |
| `LocalCollectivesStayMatched` | `QuiltSpec => []LocalCollectivesMatch` |
| `BatchesAreOfOneCall` | `QuiltSpec => []BatchOfOneCall` |
| `ServersTypes` | `QuiltSpec => []TypeOK` |
| `NoServerAborts` | `QuiltSpec => []NeverAborts` |

The refinement needs `LoopInv`: a group is offered only when it is not on offer already, which holds because its servers return to the top of
their loop together.  The next two are about channels, and cannot be had from the state of one client and one server: what fits
a server depends on what its other clients have sent it, and with polling on what another group's servers were told.  As for the tables, the
invariant (`Matched`) says that there is one *script*: `ms[g]` is everything ever said to group `g`, `at[i][g]` how much of it is
said when a client comes to the `i`-th state of the common sequence, `got[g][r]` how much of it server `r` has completed.  Its parts:

- `Scripted`: each state adds to the script of one group what its call says (`Said`), and nothing to the others;
- `Spelled`: a script is sizes and records in turn, a close has no records, and nothing follows an exit;
- `Heard`: a channel holds the script from where its server has come to, to where its client has, with the client's own part of each sum;
- `Completed`: the phase of a server is what follows in the script (`Expects`);
- `InTurn`: without polling, groups are told to leave one after the other, so nobody opens a file on one that has left;
- `Announced`, `Reserved`: with polling, a group that may be offered has completed a script that ends in a close; a handle that holds a
  group finds its script within a file, so the two exclude each other.

A client that is not the furthest says what the script has already (`FollowsMatched`), the furthest one makes it longer (`FrontMatched`, one
lemma per part), a server takes the heads of the channels of its clients, which are all the same line of the script
(`ReduceMatched`, `GatherMatched`).  Whether their sizes add up to a close, an exit or a size of records is arithmetic: the sum
of equal shares is zero only if the shares are, and of the exit's shares -100 (`ReducedSize`), for which `Reduced`, a fold over
the clients of a server, must be known to be a sum.

The last four carry the script on, from the servers of a group to their root.  `Full` adds to `Matched` that what the script asks of a group is a list of
*items*, the same for all its servers, though each of them has other clients: a field (of `NF` fields of a call), a record of another kind,
or the end of a message (`Items`, `Item`).  Its parts:

- `Charted`: which items are of which call; every call is one the program can mean (`Meant`), for which the clients' own `Dated` is needed;
- `Holds`: what a server has filed (`pieces`) are the next items after those it has sent on, to the end of the last message it has received;
- `Carries`: what is on its way to the root (`lchan`) are the items between the root and the server;
- `Batched`: every record the root handles is of one item, or a noop.

A record the root handles is therefore of an item of a call that is meant (`HeadSpoken`): its handle, stream, field and date are ones
its tables have room for, a close may be of no handle, and a commit is always of one.  `RootTypes` needs no more.

So the root and another server are at the same item when the root takes its next piece, and either both are at an end or
neither is.  The one step in which something could go wrong is `ServerGather`: that the two scans of `obuf` file, for any number of clients and
fields, a piece per item in the order of the script, whether or not the monitor is among the clients (`SortedPieces`, `FieldsSorted`,
`OthersSorted`), which is why the noop rule must be what it is.  `Pieces` is written with folds over sequences, and `SumLemmas` says what these put together
(`ColumnFrom`, `ColumnRest`).

For `NoServerAborts` the items are carried on into the root's tables and the status of the files.  `Whole` adds to `Full`, of each group (`Carried`):

- `Echo`: a gather of the script follows a reduce that announces its size; `Awaits`: what a server in a gather waits for is the sum of what its
  clients announced, so it comes whole (`AwaitsReduced`, `GatherComplete`);
- `Lawful`: in the list of items training and a commit follow an open of the handle with no other turn of it between, fields a commit, and no dataset is opened twice;
- `Told`: what the client furthest ahead believes of a handle it has at the group is what the last open, commit or close among the items says;
- `Rooted`: `okay_to_write`, `okay_to_commit`, the file table, the buffer and the status of the file are as the item says to which the root
  has come, between two batches (`AtRest`) or within the batch of one (`AtWork`: an open or a commit changes them with
  the first of its records, and the others must find nothing left to do).

Nothing in this holds of a group alone: two groups with the same dataset would change each other's status.  `Apart` gives each
group datasets of its own, all of them begun by some client, and `Touched` says that no others have a status.  The only step in which the root
can stop is `HandleField`; it stores the field instead, because the item is one of a handle that is either training
or committed, and what is still in the buffer has its date (`RootStores`, `RootNeverStops`).

`SumLemmas` provides the sums.  The induction principles of the library take an operator as a parameter, which the provers cannot instantiate; but
that every non-empty set of natural numbers has a least element is a theorem about sets (`LeastNat`, from `WFMin`), and from it follows
by a least counterexample that there is a function which adds up a finite set element by element, in whatever order (`SumExists`, `SumAnyOrder`).

`BufferProofs` is about three places where one loop adds up what a second, written apart from it, takes to be enough:

| theorem | says |
|---|---|
| `SharesNeverOverlap` | `Spec => []PlacesAreSums` of `CollectOnComm`, for any number of tasks, any counts and any width of an int |
| `BuffersSuffice` | `BuffersSpec => []NeverOverwrites` of `HaloBuffers`, for any types, levels, stencils, patches and sequence of halos; so a halo whose fields are all on or all off the subgrid and have no level below one never aborts the model |
| `StoreNeverRefuses` | `CacheSpec => []NothingRefused` of `FieldCache`, for any number of slots and any pieces and batches, until one has more names than there are slots |
| `RetrieveSorts` | `CacheSpec => []RetrievedSorted`, the same |

`CollectInv`: as long as no displacement has become negative, none has overflowed, and the shares lie where the sums of the counts put them.

`BuffersInv`: the generator keeps six counters, a sum for the arrays and the ends of the levels; what these come to, multiplied by the levels the
call asks for, is at least the sum of what each field seen so far needs at so many levels (`Counting`: `Reserved` against the sum of the `Weights`).
The call takes the highest end for all fields, so it covers each (`Highest`), or the levels of the patch on the subgrid.  What is packed is at
most that sum over the fields gone by, times the strip (`Packing`); the buffer is at least the whole sum times the strip, along y and again along x.  With
fields on and off the subgrid in one halo the strip is not one number, which is where `MixesGrids` comes in, and a field
with levels below one has more of them than its highest says (`BeginsBelowOne`).

`CacheInv`: after `i` pieces in the first scan and `j` in the second, the slots in use are the names of the first `i` pieces in the order
in which they first come (`Order`), each with the size of their bytes and the bytes of the first `j` (`InUse`, `Holds`); a retrieval takes them one
by one.  The room a piece needs is there since bytes under a name only grow (`BytesGrow`), and no field is larger than the batch
(`BytesAreBounded`), so none is cut off when it is retrieved.  `Order` and the bytes under a name are sequences put together by `FlattenSeq`,
which the community modules define by recursion: that the function exists and what its last step is comes from `JoinExists` and
`JoinLast` of `SumLemmas`, again by a least counterexample.

`AdStackProofs` proves, for any block size, any bound on the blocks, any sizes of arrays and any bytes
(assumptions of `AdStack`):

| theorem | says |
|---|---|
| `TypeCorrect` | `Spec => []TypeOK` |
| `TopInside` | `Spec => []TopInsideBlock` |
| `NoUnderflow` | `Spec => []NeverUnderflows` |
| `SizeOfStack` | `Spec => []SizeIsPlace` |
| `StackIsATape` | `Spec => ImplementsTape` |

The inductive invariant is `IInv == Types /\ Chain /\ \E f : Placed(f)`: `Chain` says where the cursors are in
the chain of blocks and how far a call under way has come; `Placed(f)` that the arrays of the tape lie one after
the other at the addresses `f`, that the top of the stack is the end of the last, and that the LOOKing cursor is at the beginning of
the array looked at.  Without the layout nothing says that a pop, which takes its size from the caller, stops above the
first block.

For the refinement (`StackIsATape`) the layout must also say which bytes lie there: `FInv` adds `Content(f)`.  The array at
`s .. e-1` has at address `a`, in the block at `b`, its byte `(e - min(e, b + B)) + (a - max(s, b))` (`ByteAt`): within a block it
lies upwards, but the block it ends in has its beginning.  A push stores the part of the array that its block can take (`Part`, `Fills`), from the block it
begins in upwards, so that the bytes below `base + B` are right while it is under way; a pop and a look fetch the parts downwards, so that the
first `call.at` bytes of the result are right (`Fetching`, `Takes`).  The last part makes `x` the array as it was pushed (`TakesAll`), and since layouts of tapes with
a common beginning agree on it (`LayoutSame`), what a push stores is above every array of the tape and what a pop leaves behind stays theirs.
Every step then is one of `Tape` or leaves it alone (`TapeStep`, action by action).

`AdBufferProofs` proves, for any types, buffers and words of any size and any programs (`BufferAssumption`, `TypesAssumption`,
`ProgramsAssumption`: the types of the constants, and a buffer and a word hold something):

| theorem | says |
|---|---|
| `TopArraysAreOwn` | `Spec => []TopArrayIsOwn` |
| `BuffersAreATape` | `Spec => ImplementsTape` |

Nothing in the buffers says in which order the types were pushed, so no statement about the state alone says what is on top of the C
stack when a buffer runs empty.  `IInv` says that the state is as if the tape had just been pushed: there is a chain of states `h`, one for each
length of the tape, in which `h[i]` is what the push of item `i` makes of `h[i - 1]`, and the buffers are like the last of them.  Like (`Alike`) is:
the same but for what no pop reads, the cells above the index of a buffer and the bits above that of the word; a pop leaves what was there, a push
may have left something else.  Then every pop undoes the push of its own kind (`ItemUndone`, `BitUndone`, `ControlUndone`, `ArrayUndone`),
whether the buffer has to be fetched or not, and takes the last link off the chain (`PopStep`); that its array is on top comes with it.
For the LOOKs, `View` is the state as it would be had the items looked at been popped: `LookIsPop` shows that a LOOK does to the view what a pop
does to the buffers, and `Views` that the view of the type is the link of the chain so many items down.

`HaloExchangeProofs` proves first what the loops that call `TASK_FOR_POINT` take for granted, for any number `n` of points in a
dimension and any number `np` of tasks (both positive; nothing else is assumed):

| theorem | says |
|---|---|
| `OwnerIsATask` | the owner of a point, in the domain or beyond its ends, is in `0 .. np - 1` |
| `OwnersInOrder` | a point further on has no owner before |
| `PatchesAreIntervals` | task `q` owns exactly the points after `FirstOf(q)` up to `FirstOf(q + 1)` |
| `PatchesBalanced` | no used task is without a point; patches differ by one point at most |

`FirstOf` is a second description of the decomposition, by the first point of every task, in three stretches:
large patches, small ones, large ones.  The code goes from a point to its task by divisions; `OwnersPatch` shows that they find
the patch the point lies in (a quotient is what lies between two multiples, `Quotient`), and `FirstOfMonotone` that
patches of lower tasks come first.  Tasks in excess of points own nothing (`TasksUsed`).

The rest of the module is about `HaloExchange`, for any mesh, any domain, intermediate or not, any stencils, any sequence of exchanges, with and
without rendezvous (`GridAssumption`, `PatchAssumption`, `BdyAssumption`: types, at least one exchange, no empty patch):

| theorem | says |
|---|---|
| `MessagesFit` | `Spec => []SizesAgree` |
| `NothingIsLeft` | `Spec => []NothingLeftBehind` |
| `HalosArrive` | `Spec => []GhostsRight` |
| `PackedFromMemory` | `Roomy => (Spec => []TypeOK)` |

`Roomy` says that no stencil is wider than the boundary in memory and two points (`bdyzone` is 4, the widest stencil `gen_halos` has
a code for is 6); without it a task at an end of the mesh packs points outside its memory.

No task knows how far the others are, and each works out its iterations from its own patch.  What makes them agree is that what
is sent from place `p` in direction `d` up to iteration `k` is a function of the owners of the points alone: `Cov(g, ax, p, d, s, k)`, the points from the
edge of the patch on whose owner is less than `k` places away.  Owners come in order (`OwnersInOrder`), so these
points are a stretch, the loops of sender and receiver both stop at its end (`PointersAre`, for the four pointers), and after as many iterations as there
are places every stretch is whole (`FullAtLast`).  `IInv` then has these parts:

- `Tracked`: the pointers and widths of a task are those of its place and iteration, and a task is through an axis when its stretches are whole;
- `OnLink`: of the messages a place is to send (`Due`, in the order of round and iteration, `Keys`), a link holds those its sender has come past
  (`NextSent`) and its receiver has not (`NextTaken`), in their order (`Flow`).  So the head of a channel is always the message
  waited for, though no message says which it is;
- `Fits`: a message has the size of its box, and the right word for each cell its sender knew;
- `Remembers`: the cells between the pointers of a task, as far across as the side it has (`Known`), hold the word of this round.

A task sends only what it knows (`SendsKnownDown`, `SendsKnownUp`): in iteration `k` it passes on what came in iteration `k - 1`.  When its
stretches are whole the cells known are its halo (`ReachCovered`), along x with the rows brought along y, so the corners too.
`GhostsRight` says nothing of tasks under way, nor of messages, which is why it needs the other parts.

The first part of `QuiltProofs` is about `QuiltSetup`, with any number of tasks, any number and size of groups and any mesh (`MaxTasks`, `MaxPerGroup` and
`MaxGroups` are any numbers; `SetupBounds` gives their types):

| theorem | says |
|---|---|
| `SetupInvHolds` | `SetupSpec => []SetupInv`, from which the others follow |
| `ServerIsLast` | `SetupSpec => []OneServerAndLast` |
| `ClientsCovered` | `SetupSpec => []GroupsCoverClients` |
| `LocalIsGroup` | `SetupSpec => []LocalIsTheGroup` |
| `MonitorHasFirst` | `SetupSpec => []MonitorServedByFirst` |
| `MasterIsUnique` | `SetupSpec => []OneMasterPerServer` |

`SetupInv` follows the routine: `Counts` after the first block, `MeshMade` and `LocalMade` after the local split, and for every group
split off so far `Made`: a client's communicator is its row's clients and the server of that row in the group's block (`Comm`).
The arithmetic beneath it: rows are shared out until they are gone and every server gets one (`RowsGone`), every row has a server
(`RowIsServed`, by a division on either side of the last larger share), `MPASPECT` finds a factorization (`SquarestMeshIsAMesh`),
and blocks of servers are apart and after the compute tasks (`ServersApart`, `ServersAreTasks`).
`GroupsCoverClients` turns out not to need the precondition its run has: it is in `LocalIsTheGroup` and `MonitorServedByFirst` that
more servers than rows matter, as the finding of section 4 shows.

`IoStreamsProofs` is about any fields, any I/O columns, any files and any number of tasks.  From `OthersAssumption` (0 is the
monitor's number only) and `SetupAssumption` (the types of the settings; lines of a file are a sequence) it proves

| theorem | says |
|---|---|
| `SameInvHolds` | `Spec => []SameInv` |
| `SameFields` | `Spec => []SameFieldsEverywhere` |
| `BadLineIsFatal` | `Spec => []NoIoUnderBadLine`: where errors are not ignored, no I/O under a file with an error before its first blank line |
| `StreamsAreAsAsked` | `Spec => []StreamsAsAsked`, whose files are `Plain` |

That tasks agree on the fields of their n-th call is not inductive: the monitor may be several calls ahead, with a mask
of its own by then.  `SameInv` says where the difference is.  With a file (`Linked`), the masks on their way to a task are those
of the monitor's calls the task has still to make, one for each and in their order.  Without one (`Quiet`)
nothing is ever sent, and all masks are those the Registry generated.  `BadLineIsFatal` needs that `warned`
stands for the lines read so far (`Scanned`), so that at the end of the file it stands for all of them; an `EditFile` in between would
replace what was read, which is why it is about files that are not edited.

`StreamsAreAsAsked` has a part about the Registry and one about the file.  `GeneratedIsAsked` goes along a column of any length: after `k`
characters the mask has the streams that the letters so far ask for (`AskTo`), `base` is the letter whose numbers would follow, if
there is one, and `fresh` says that it is the last character (`Sound`, `SoundStep`).  The code sets stream 0 at the letter and takes it back at the first number, so
no column may have a letter twice.  `ParsedIs` shows that the fold over the column is such a pass.  Words and bits tell
streams apart (`PlacesDiffer`, `SetMaskIs`, `ResetMaskIs`) when the mask has all the words (`WordsAssumption`).  Then `AskedInv`: the
masks of the monitor and the streams asked for go together, if all files that may be read are `Plain` and unless an error that will be fatal has been read.
While a file is read they are those of the lines so far; since no line of a plain file comes after a blank one, at its end they are those of all its lines
(`AgreedSoFar`).  What the theorem does not cover is in section 4: files that are not plain, columns with a letter twice or a number that is no
stream (`StringsAssumption`), masks with a word too few (`WordsAssumption`), and a negative stream number whose error is ignored, by which C would shift (`LinesAssumption`).

Model-checked only: of the servers `NothingLost`; the refinement of
`OutputFiles` by `Quilt`; and the liveness properties, which the prover cannot do.

## 6. Plan

In this order; each adds its properties to the hazards listed in `PROJECT.json`.

1. *Done*: I/O quilting (`QuiltSetup`, `QuiltClient`, `OutputFiles`, `Quilt`), the pieces beneath it
   (`FieldCache`, `CollectOnComm`), decomposition and halos (`TaskForPoint`, `HaloExchange`, `HaloBuffers`), `IoStreams`
   and the adjoint stack (`Tape`, `AdStack`, `AdBuffer`) with their proofs.
2. `NestMessages`: `rsl_bcast.c` and `rsl_merge`, the messages between a parent and its nest.
3. `IoHandles`: `module_io.F`, add/get/free of handles, with the quilt handles beneath.
4. `DomainComms`: `split_communicator`, which tasks a nest runs on.
5. `OutputAlarms`: alarms of `esmf_time_f90` and how `med_before_solve_io` and `med_last_solve_io` turn them into the
   outputs `plan` stands for; then the nested driver (`integrate`).
6. Algorithms worth a module of their own: tiling, the Registry's preprocessor, metgrid's field storage, geogrid's search queue.

Proofs to come: that the patches of a field in the batches are all those of the domain, and what this makes of the contents of the files, for `NothingLost`.
