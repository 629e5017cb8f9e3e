----------------------------- MODULE OutputFiles -----------------------------
(***************************************************************************)
(* What quilted output promises to whoever reads the files, whatever the   *)
(* number of tasks: a dataset is created and committed, receives the       *)
(* fields of each of its frames in the order they were written, every one  *)
(* once and with the patches of all compute tasks, and is closed with      *)
(* whole frames only; the ready file of a dataset appears when it is       *)
(* closed.                                                                 *)
(***************************************************************************)
EXTENDS Integers, Sequences

CONSTANTS
  Datasets,        \* <<stream, date of the first frame>>
  ReadyStreams,    \* streams whose files get a wrfoutReady file
  NF,              \* fields per frame
  Patches          \* the compute tasks

VARIABLES
  status,          \* of each dataset
  contents,        \* the records written to each dataset
  ready            \* datasets with a ready file

vars == <<status, contents, ready>>

\* The n-th record of a dataset.
Record(d, n) ==
  [v |-> ((n - 1) % NF) + 1, date |-> d[2] + ((n - 1) \div NF), from |-> Patches]

Init ==
  /\ status = [d \in Datasets |-> "none"]
  /\ contents = [d \in Datasets |-> <<>>]
  /\ ready = {}

Create(d) ==
  /\ status[d] = "none"
  /\ status' = [status EXCEPT ![d] = "opened"]
  /\ UNCHANGED <<contents, ready>>

Commit(d) ==
  /\ status[d] = "opened"
  /\ status' = [status EXCEPT ![d] = "committed"]
  /\ UNCHANGED <<contents, ready>>

Write(d) ==
  /\ status[d] = "committed"
  /\ contents' = [contents EXCEPT ![d] = Append(@, Record(d, Len(@) + 1))]
  /\ UNCHANGED <<status, ready>>

Close(d) ==
  /\ status[d] = "committed"
  /\ Len(contents[d]) > 0 /\ Len(contents[d]) % NF = 0
  /\ status' = [status EXCEPT ![d] = "closed"]
  /\ ready' = IF d[1] \in ReadyStreams THEN ready \cup {d} ELSE ready
  /\ UNCHANGED contents

Next == \E d \in Datasets : Create(d) \/ Commit(d) \/ Write(d) \/ Close(d)

Spec == Init /\ [][Next]_vars
=============================================================================
