----------------------------- MODULE IoStreams ------------------------------
(***************************************************************************)
(* Which fields are on which I/O stream.                                   *)
(*                                                                         *)
(* A field has a mask with a bit for every stream.  The Registry program   *)
(* (tools/reg_parse.c) works it out of the I/O column of the field's entry *)
(* and writes it into the model's source (tools/gen_allocs.c); at run time *)
(* the lines of a text file change it (modify_io_masks1 of                 *)
(* frame/module_domain.F, called from every input_wrf and output_wrf); the *)
(* I/O routines test its bits (on_stream of frame/module_io.F).  The bits  *)
(* are set and tested by the same code twice, in tools/misc.c and in       *)
(* frame/pack_utils.c, which "must be kept in sync, functionally"; the     *)
(* numbers of the streams are in inc/streams.h, from 0, and in             *)
(* frame/module_streams.F, from 1.                                         *)
(*                                                                         *)
(* The monitor reads the file and broadcasts the masks; the tasks run at   *)
(* their own pace.                                                         *)
(***************************************************************************)
EXTENDS Integers, Sequences, SequencesExt, FiniteSets

CONSTANTS MaxHistory,     \* MAX_HISTORY: streams of each kind
          WordBits,       \* bits of an int
          Fields,         \* the state variables
          IoStrings,      \* I/O columns of the Registry
          Setups,         \* the model's settings, and the files it may be given
          Others,         \* the tasks besides the monitor
          MaxIo           \* bound: I/O calls of a task

ASSUME HistoryAssumption == MaxHistory \in Nat \ {0}
ASSUME WordAssumption == WordBits \in Nat \ {0, 1}

\* 0 is the monitor.
ASSUME OthersAssumption == 0 \notin Others

\* files: contents the file may have, a sequence of lines, none when there is no
\* file; ignore: ignore_iofields_warning; mods: max_hst_mods, how many fields a
\* file may name; edited: whether the file is edited while the model runs.
ASSUME SetupAssumption ==
  \A s \in Setups :
    /\ s.ignore \in BOOLEAN /\ s.edited \in BOOLEAN /\ s.mods \in Nat
    /\ \A f \in s.files : /\ Len(f.lines) \in Nat /\ DOMAIN f.lines = 1 .. Len(f.lines)
                         /\ f.kind = "none" => f.lines = <<>>

VARIABLES
  setup,  \* the settings
  io,     \* the Registry's entries: an I/O string for each field
  file,   \* the file iofields_filename names
  mask,   \* the masks of the fields, on every task
  pc,     \* where each task is
  pos,    \* lines the monitor has read in this call
  strm,   \* strmtyp_int
  count,  \* count_em
  warned, \* gavewarning
  chan,   \* broadcasts on their way to a task
  sel,    \* what each I/O call of a task found on which stream
  want    \* the streams asked for, by the Registry and by the files read so far

vars == <<setup, io, file, mask, pc, pos, strm, count, warned, chan, sel, want>>

Monitor == 0
Tasks == {Monitor} \union Others

-----------------------------------------------------------------------------
(* inc/streams.h *)

HISTORY_STREAM  == 0
INPUT_STREAM    == HISTORY_STREAM + MaxHistory
MAX_STREAMS     == 2 * MaxHistory + 2
BOUNDARY_STREAM == 2 * MaxHistory + 1
RESTART_STREAM  == 2 * MaxHistory + 2
IO_MASK_SIZE    == MAX_STREAMS \div WordBits + 1

\* set_mask, reset_mask, get_mask: a word has a bit less than an int
Empty == [w \in 0 .. IO_MASK_SIZE - 1 |-> {}]
Word(e) == e \div (WordBits - 1)
Bit(e) == e % (WordBits - 1)

SetMask(m, e) ==
  IF Word(e) \in DOMAIN m THEN [m EXCEPT ![Word(e)] = @ \union {Bit(e)}] ELSE m
ResetMask(m, e) ==
  IF Word(e) \in DOMAIN m THEN [m EXCEPT ![Word(e)] = @ \ {Bit(e)}] ELSE m
GetMask(m, e) == Word(e) \in DOMAIN m /\ Bit(e) \in m[Word(e)]

\* A mask has room for the history and the input streams.  IO_MASK_SIZE divides
\* by all bits of an int, set_mask by one less, so it fails from 78 streams of
\* each kind on; the code has 25.
ASSUME WordsAssumption == \A e \in 0 .. 2 * MaxHistory - 1 : Word(e) <= IO_MASK_SIZE - 1

-----------------------------------------------------------------------------
(* reg_parse.c: the I/O string, a sequence of letters and of numbers, which *)
(* are digits or have {} around them.                                       *)

IsNumber(c) == c.c = "#"          \* otherwise c.c is the letter

\* A letter h or i sets its stream 0; the first number after it resets it, and
\* every number up to the next letter sets the stream of this number.
ParseChar(s, c) ==
  LET base == IF c.c = "h" THEN HISTORY_STREAM ELSE INPUT_STREAM IN
  IF IsNumber(c)
  THEN IF s.base = -1 THEN s
       ELSE [s EXCEPT !.m = SetMask(IF s.fresh THEN ResetMask(@, s.base) ELSE @, s.base + c.n),
                      !.fresh = FALSE]
  ELSE CASE c.c \in {"h", "i"} -> [m |-> SetMask(s.m, base), base |-> base, fresh |-> TRUE,
                                 restart |-> s.restart]
         [] c.c = "r" -> [m |-> SetMask(s.m, RESTART_STREAM), base |-> -1, fresh |-> FALSE,
                        restart |-> TRUE]
         [] c.c = "b" -> [s EXCEPT !.m = SetMask(@, BOUNDARY_STREAM), !.base = -1]
         [] OTHER   -> [s EXCEPT !.base = -1]

\* As the Registry's columns are: h and i are there at most once, and the numbers
\* are those of streams, which reg_parse.c does not check.
ASSUME StringsAssumption ==
  \A str \in IoStrings :
    /\ DOMAIN str = 1 .. Len(str) /\ Len(str) \in Nat
    /\ \A k \in 1 .. Len(str) :
         /\ IsNumber(str[k]) => str[k].n \in 0 .. MaxHistory - 1
         /\ \A l \in 1 .. k - 1 : str[k].c \in {"h", "i"} => str[l].c # str[k].c

Parsed(str) == FoldLeft(ParseChar, [m |-> Empty, base |-> -1, fresh |-> FALSE,
                                    restart |-> FALSE], str)

\* gen_allocs.c writes the words of the mask into the model's source.
Generated(str) == Parsed(str).m

-----------------------------------------------------------------------------
(* frame/module_streams.F, and its reader on_stream *)

first_history == 1
last_history  == first_history + MaxHistory - 1
first_input   == MaxHistory + 1
restart_only  == 2 * MaxHistory + 1
boundary_only == 2 * MaxHistory + 2

OnStream(m, switch) == GetMask(m, switch - 1)

\* The fields output_wrf writes to a stream, and input_wrf reads
Selected(m) ==
  [switch \in 1 .. boundary_only |->
     {f \in Fields : \/ Parsed(io[f]).restart /\ switch = restart_only
                     \/ OnStream(m[f], switch)}]

-----------------------------------------------------------------------------
(* What was asked for, in terms of streams: <<"h", 3>> is auxhist3.         *)

Kinds == {"h", "i"}
Streams == Kinds \X (0 .. MaxHistory - 1)
SwitchOf(st) == (IF st[1] = "h" THEN first_history ELSE first_input) + st[2]

\* The numbers that follow the letter at place k of an I/O string
Run(str, k) == {j \in k + 1 .. Len(str) : \A l \in k + 1 .. j : IsNumber(str[l])}
AskedByRegistry(str) ==
  UNION {IF Run(str, k) = {} THEN {<<str[k].c, 0>>}
         ELSE {<<str[k].c, str[j].n>> : j \in Run(str, k)} :
           k \in {l \in DOMAIN str : str[l].c \in Kinds}}

\* A line op:streamtype:streamid:variables is about a field and a stream.
Lists(line, f) == line.kind = "edit" /\ \E i \in DOMAIN line.fields : line.fields[i] = f
About(line, f, st) ==
  Lists(line, f) /\ line.op \in {"+", "-"} /\ line.typ = st[1] /\ line.id = st[2]

\* What the first n lines of a file ask for: the last line about a field and a
\* stream decides, and what no line is about stays.  Blank lines mean nothing.
Asked(w, lines, n) ==
  [f \in Fields |->
     {st \in Streams :
        \/ \E i \in 1 .. n : /\ About(lines[i], f, st) /\ lines[i].op = "+"
                             /\ \A j \in i + 1 .. n : ~About(lines[j], f, st)
        \/ st \in w[f] /\ \A i \in 1 .. n : ~About(lines[i], f, st)}]

Init ==
  /\ setup \in Setups
  /\ io \in [Fields -> IoStrings]
  /\ file \in setup.files
  /\ mask = [t \in Tasks |-> [f \in Fields |-> Generated(io[f])]]
  /\ pc = [t \in Tasks |-> "run"]
  /\ pos = 0 /\ strm = 0 /\ count = 0 /\ warned = FALSE
  /\ chan = [t \in Others |-> <<>>]
  /\ sel = [t \in Tasks |-> <<>>]
  /\ want = [f \in Fields |-> AskedByRegistry(io[f])]

-----------------------------------------------------------------------------
(* modify_io_masks1 *)

Goto(t, to) == pc' = [pc EXCEPT ![t] = to]
Aborted == \E t \in Tasks : pc[t] = "fatal"
reading == <<pos, strm, count, warned>>

\* input_wrf or output_wrf is called.  Without a file there is nothing to do,
\* and no broadcast.  strmtyp_int is not initialized.
BeginIo(t) ==
  /\ ~Aborted
  /\ pc[t] = "run" /\ Len(sel[t]) < MaxIo
  /\ IF file.kind = "none" THEN Goto(t, "select") /\ UNCHANGED reading
     ELSE IF t = Monitor
     THEN /\ Goto(t, "read")
          /\ pos' = 0 /\ count' = 0 /\ warned' = (file.kind = "missing")
          /\ strm' \in {first_history, first_input}
     ELSE Goto(t, "bcast") /\ UNCHANGED reading
  /\ UNCHANGED <<setup, io, file, mask, chan, sel, want>>

\* A blank line ends the file; one that is missing has no lines.
AtEnd == pos \notin {i - 1 : i \in {j \in DOMAIN file.lines : file.lines[j].kind # "blank"}}

\* Mistake: the removal is forgotten.
EditMaskAdds(m, op, e) == IF op = "+" THEN SetMask(m, e) ELSE m

\* warn_me_or_set_mask, which changes nothing when it is so already
EditMask(m, op, e) ==
  IF op = "+" THEN SetMask(m, e) ELSE IF op = "-" THEN ResetMask(m, e) ELSE m

\* The line has an error.  Only an error of noerr keeps it from being applied.
Bad(line) == \/ line.op \notin {"+", "-"}
             \/ line.typ \notin Kinds
             \/ line.id < 0 \/ line.id > last_history
             \/ line.fields = <<>>
             \/ \E i \in DOMAIN line.fields : line.fields[i] \notin Fields

\* Left out is a negative number whose error is ignored: set_mask and reset_mask
\* shift by a negative number of bits, which C does not define.
ASSUME LinesAssumption ==
  \A s \in Setups : \A f \in s.files : \A i \in DOMAIN f.lines :
    /\ f.lines[i].kind \in {"blank", "comment", "edit"}
    /\ f.lines[i].kind = "edit" => f.lines[i].id \in IF s.ignore THEN Nat ELSE Int

\* Too many fields: wrf_error_fatal, when the field was found.
TooMany(line) == \E i \in DOMAIN line.fields :
                   line.fields[i] \in Fields /\ count + i > setup.mods

ReadLine ==
  /\ ~Aborted
  /\ pc[Monitor] = "read" /\ ~AtEnd
  /\ pos' = pos + 1
  /\ LET line == file.lines[pos + 1] IN
     IF line.kind = "comment"
     THEN UNCHANGED <<mask, strm, count, warned, pc>>
     ELSE /\ strm' = CASE line.typ = "h" -> first_history
                       [] line.typ = "i" -> first_input
                       [] OTHER -> strm
          /\ mask' = [mask EXCEPT ![Monitor] =
                        [f \in Fields |->
                           IF Lists(line, f)
                           THEN EditMask(@[f], line.op, strm' + line.id - 1) ELSE @[f]]]
          /\ count' = count + Len(line.fields)
          /\ warned' = (warned \/ Bad(line))
          /\ IF TooMany(line) THEN Goto(Monitor, "fatal") ELSE UNCHANGED pc
  /\ UNCHANGED <<setup, io, file, chan, sel, want>>

Fatal == warned /\ ~setup.ignore

\* The file has been read: its errors are fatal or ignored, and the masks of
\* all fields are broadcast.  The monitor need not wait for the others.
FinishRead ==
  /\ ~Aborted
  /\ pc[Monitor] = "read" /\ AtEnd
  /\ IF Fatal THEN Goto(Monitor, "fatal") /\ UNCHANGED chan
     ELSE /\ Goto(Monitor, "select")
          /\ chan' = [t \in Others |-> Append(chan[t], mask[Monitor])]
  /\ want' = Asked(want, file.lines, Len(file.lines))
  /\ UNCHANGED <<setup, io, file, mask, reading, sel>>

\* Mistake: only the first word arrives.
ReceivedOneWord(t) ==
  [f \in Fields |-> [mask[t][f] EXCEPT ![0] = Head(chan[t])[f][0]]]
Received(t) == Head(chan[t])

Receive(t) ==
  /\ ~Aborted
  /\ pc[t] = "bcast" /\ chan[t] # <<>>
  /\ mask' = [mask EXCEPT ![t] = Received(t)]
  /\ chan' = [chan EXCEPT ![t] = Tail(@)]
  /\ Goto(t, "select")
  /\ UNCHANGED <<setup, io, file, reading, sel, want>>

SelectFields(t) ==
  /\ ~Aborted
  /\ pc[t] = "select"
  /\ sel' = [sel EXCEPT ![t] = Append(@, Selected(mask[t]))]
  /\ Goto(t, "run")
  /\ UNCHANGED <<setup, io, file, mask, reading, chan, want>>

\* The user edits the file.
EditFile ==
  /\ setup.edited
  /\ pc[Monitor] # "read"
  /\ file' \in {g \in setup.files : g.kind = file.kind}
  /\ UNCHANGED <<setup, io, mask, pc, reading, chan, sel, want>>

Next ==
  \/ \E t \in Tasks : BeginIo(t) \/ SelectFields(t)
  \/ ReadLine \/ FinishRead
  \/ \E t \in Others : Receive(t)
  \/ EditFile

Spec == Init /\ [][Next]_vars
-----------------------------------------------------------------------------
(* Properties *)

\* The files that may be read, and those that say what the code does with them.
\* Others lose what follows a blank line, which ends the reading; they name stream
\* MAX_HISTORY, which is accepted and is the first input stream when it is a
\* history stream, and the restart stream when it is an input stream; or, with
\* errors ignored, a type that is unknown, which stands for the one before it.
MayBeRead == IF setup.edited THEN setup.files ELSE {file}
Plain(f) ==
  \A i \in DOMAIN f.lines : f.lines[i].kind = "edit" =>
    /\ \A j \in 1 .. i : f.lines[j].kind # "blank"
    /\ \/ <<f.lines[i].typ, f.lines[i].id>> \in Streams
       \/ Bad(f.lines[i]) /\ ~setup.ignore

\* Through the Registry's copy of the mask code, the generated source, the
\* model's copy and a numbering that differs by one: after the whole of the file
\* a field is on the history and the input streams it was asked for, and on no
\* other, if the files are Plain.
StreamsAsAsked ==
  pc[Monitor] = "select" /\ (\A f \in MayBeRead : Plain(f)) =>
    \A f \in Fields : {st \in Streams : OnStream(mask[Monitor][f], SwitchOf(st))} = want[f]

\* Every task does the n-th I/O for the same fields as the monitor, or they
\* would not make the same collective calls.
SameFieldsEverywhere ==
  \A t \in Tasks : \A n \in DOMAIN sel[t] \intersect DOMAIN sel[Monitor] :
    sel[t][n] = sel[Monitor][n]

\* "If set to .FALSE., the program will abort if there are errors in these
\* user-specified files" (doc/README.io_config:26): where errors are not ignored,
\* no field is read or written under a file with one.
NoIoUnderBadFile ==
  ~setup.ignore /\ ~setup.edited /\ sel[Monitor] # <<>> =>
    /\ file.kind # "missing"
    /\ \A i \in DOMAIN file.lines : file.lines[i].kind = "edit" => ~Bad(file.lines[i])

=============================================================================
