-------------------------- MODULE IoStreamsProofs ---------------------------
(***************************************************************************)
(* Proofs about IoStreams, for any fields, any Registry, any files and any *)
(* number of tasks, each at a pace of its own: every task does its n-th    *)
(* input or output for the fields of the monitor's n-th, an error before   *)
(* the first blank line of the file that is not ignored keeps the model    *)
(* from I/O, and with files that are Plain a field is on the history and   *)
(* the input streams that were asked for.                                  *)
(***************************************************************************)
EXTENDS IoStreams, SumLemmas, SequenceTheorems, TLAPS

\* Selected, as a function of the Registry's entries and of the masks.
Views == [1 .. boundary_only -> SUBSET Fields]
View(entries, m) ==
  [switch \in 1 .. boundary_only |->
     {f \in Fields : \/ Parsed(entries[f]).restart /\ switch = restart_only
                     \/ OnStream(m[f], switch)}]

\* The I/O calls a task has the masks for, and the fields of the n-th.
Reached(t) == Len(sel[t]) + (IF pc[t] = "select" THEN 1 ELSE 0)
At(t, n) == IF n <= Len(sel[t]) THEN sel[t][n] ELSE View(io, mask[t])

\* Without a file no mask ever changes.
Quiet ==
  \A t \in Tasks :
    /\ pc[t] \in {"run", "select"}
    /\ mask[t] = mask[Monitor]
    /\ \A n \in 1 .. Len(sel[t]) : sel[t][n] = View(io, mask[Monitor])

\* With one, the masks on their way to a task are those of the monitor's calls
\* that it has still to make, in their order.
Linked(t) ==
  /\ Reached(Monitor) = Reached(t) + Len(chan[t])
  /\ \A n \in 1 .. Reached(t) : At(t, n) = At(Monitor, n)
  /\ \A k \in 1 .. Len(chan[t]) : View(io, chan[t][k]) = At(Monitor, Reached(t) + k)

Places == {"run", "read", "bcast", "select", "fatal"}
Types ==
  /\ pc \in [Tasks -> Places]
  /\ sel \in [Tasks -> Seq(Views)]
  /\ mask = [t \in Tasks |-> mask[t]]
  /\ \E S : chan \in [Others -> Seq(S)]

SameInv ==
  /\ Types
  /\ file.kind = "none" => Quiet
  /\ file.kind # "none" => \A t \in Others : Linked(t)

-----------------------------------------------------------------------------
(* Facts used by every step *)

LEMMA ViewIsView ==
  ASSUME NEW e, NEW m
  PROVE  View(e, m) \in Views
BY DEF View, Views

LEMMA TwoKindsOfTasks ==
  Monitor \in Tasks /\ Others \subseteq Tasks /\ Monitor \notin Others
BY OthersAssumption DEF Tasks, Monitor

LEMMA ReachedIsNat ==
  ASSUME Types, NEW t \in Tasks
  PROVE  Len(sel[t]) \in Nat /\ Reached(t) \in Nat /\ Reached(t) >= Len(sel[t])
<1>1. sel[t] \in Seq(Views)
  BY DEF Types
<1>2. Len(sel[t]) \in Nat
  BY <1>1
<1>3. Reached(t) = Len(sel[t]) + 1 \/ Reached(t) = Len(sel[t]) + 0
  BY DEF Reached
<1> QED BY <1>2, <1>3

LEMMA ChanIsSeq ==
  ASSUME Types, NEW t \in Others
  PROVE  Len(chan[t]) \in Nat
<1>1. PICK S : chan \in [Others -> Seq(S)]
  BY DEF Types
<1>2. chan[t] \in Seq(S)
  BY <1>1
<1> QED BY <1>2

\* A step that changes neither what the two have reached nor a message keeps
\* the link.
LEMMA LinkKept ==
  ASSUME Types, NEW t \in Others, Linked(t),
         io' = io, chan'[t] = chan[t],
         Reached(t)' = Reached(t), Reached(Monitor)' = Reached(Monitor),
         \A n \in 1 .. Reached(t) : At(t, n)' = At(t, n),
         \A n \in 1 .. Reached(Monitor) : At(Monitor, n)' = At(Monitor, n)
  PROVE  Linked(t)'
<1>1. /\ Reached(t) \in Nat /\ Reached(Monitor) \in Nat /\ Len(chan[t]) \in Nat
      /\ Reached(Monitor) = Reached(t) + Len(chan[t])
  BY ReachedIsNat, ChanIsSeq, TwoKindsOfTasks DEF Linked
<1>2. ASSUME NEW n \in 1 .. Reached(t) PROVE At(t, n)' = At(Monitor, n)'
  <2>1. n \in 1 .. Reached(Monitor)
    BY <1>1
  <2> QED BY <2>1 DEF Linked
<1>3. ASSUME NEW k \in 1 .. Len(chan[t])
      PROVE  View(io, chan[t][k])' = At(Monitor, Reached(t) + k)'
  <2>1. Reached(t) + k \in 1 .. Reached(Monitor)
    BY <1>1
  <2>2. At(Monitor, Reached(t) + k)' = At(Monitor, Reached(t) + k)
    BY <2>1
  <2> QED BY <2>2 DEF Linked
<1> QED BY <1>1, <1>2, <1>3 DEF Linked

\* What a step that is not about the I/O of t leaves as it was.
LEMMA ReachedKept ==
  ASSUME NEW t \in Tasks, sel'[t] = sel[t], (pc'[t] = "select") = (pc[t] = "select")
  PROVE  Reached(t)' = Reached(t)
BY DEF Reached

LEMMA AtKept ==
  ASSUME NEW t \in Tasks, NEW n, sel'[t] = sel[t], mask'[t] = mask[t], io' = io
  PROVE  At(t, n)' = At(t, n)
BY DEF At

-----------------------------------------------------------------------------
(* The steps *)

LEMMA Initially ==
  ASSUME Init
  PROVE  SameInv
<1>1. Types
  <2>1. pc \in [Tasks -> Places] /\ sel \in [Tasks -> Seq(Views)]
    BY DEF Init, Places
  <2>2. mask = [t \in Tasks |-> mask[t]]
    BY DEF Init
  <2>3. chan \in [Others -> Seq({})]
    BY DEF Init
  <2> QED BY <2>1, <2>2, <2>3 DEF Types
<1>2. Quiet
  <2> SUFFICES ASSUME NEW t \in Tasks
               PROVE  /\ pc[t] \in {"run", "select"} /\ mask[t] = mask[Monitor]
                      /\ \A n \in 1 .. Len(sel[t]) : sel[t][n] = View(io, mask[Monitor])
    BY DEF Quiet
  <2> QED BY TwoKindsOfTasks DEF Init
<1>3. ASSUME NEW t \in Others PROVE Linked(t)
  <2>1. t \in Tasks /\ Monitor \in Tasks
    BY TwoKindsOfTasks
  <2>2. Len(sel[t]) = 0 /\ Len(sel[Monitor]) = 0 /\ Len(chan[t]) = 0
    BY <2>1 DEF Init
  <2>3. Reached(t) = 0 /\ Reached(Monitor) = 0
    BY <2>1, <2>2 DEF Init, Reached
  <2> QED BY <2>2, <2>3 DEF Linked
<1> QED BY <1>1, <1>2, <1>3 DEF SameInv

\* A call begins: nothing is reached yet, or there is no file.
LEMMA BeginIoStep ==
  ASSUME SameInv, NEW u \in Tasks, BeginIo(u)
  PROVE  SameInv'
<1>1. /\ Types /\ pc[u] = "run"
      /\ UNCHANGED <<setup, io, file, mask, chan, sel>>
  BY DEF SameInv, BeginIo
<1>2. pc' = [pc EXCEPT ![u] = IF file.kind = "none" THEN "select"
                              ELSE IF u = Monitor THEN "read" ELSE "bcast"]
  BY DEF BeginIo, Goto
<1>3. Types'
  BY <1>1, <1>2 DEF Types, Places
<1>4. ASSUME file.kind = "none" PROVE Quiet'
  <2>1. Quiet
    BY <1>4 DEF SameInv
  <2>2. \A t \in Tasks : pc'[t] \in {"run", "select"}
    BY <1>1, <1>2, <1>4, <2>1 DEF Quiet, Types
  <2> QED BY <1>1, <2>1, <2>2 DEF Quiet
<1>5. ASSUME file.kind # "none", NEW t \in Others PROVE Linked(t)'
  <2>1. Linked(t) /\ t \in Tasks /\ Monitor \in Tasks
    BY <1>5, TwoKindsOfTasks DEF SameInv
  <2>2. \A v \in Tasks : (pc'[v] = "select") = (pc[v] = "select")
    BY <1>1, <1>2, <1>5 DEF Types
  <2>3. \A v \in Tasks : sel'[v] = sel[v] /\ mask'[v] = mask[v]
    BY <1>1
  <2>4. Reached(t)' = Reached(t) /\ Reached(Monitor)' = Reached(Monitor)
    BY <2>1, <2>2, <2>3, ReachedKept
  <2>5. ASSUME NEW n PROVE At(t, n)' = At(t, n) /\ At(Monitor, n)' = At(Monitor, n)
    BY <1>1, <2>1, <2>3, AtKept
  <2> QED BY <1>1, <2>1, <2>4, <2>5, LinkKept
<1> QED BY <1>1, <1>3, <1>4, <1>5 DEF SameInv

\* The monitor edits its masks, of a call it has not reached.
LEMMA ReadLineStep ==
  ASSUME SameInv, ReadLine
  PROVE  SameInv'
<1>1. /\ Types /\ pc[Monitor] = "read"
      /\ UNCHANGED <<setup, io, file, chan, sel>>
  BY DEF SameInv, ReadLine
<1>2. pc' = pc \/ pc' = [pc EXCEPT ![Monitor] = "fatal"]
  BY DEF ReadLine, Goto
<1>3. mask' = mask \/ \E m : mask' = [mask EXCEPT ![Monitor] = m]
  BY DEF ReadLine
<1>4. Monitor \in Tasks
  BY TwoKindsOfTasks
<1>5. Types'
  <2>1. pc' \in [Tasks -> Places] /\ sel' \in [Tasks -> Seq(Views)] /\ \E S : chan' \in [Others -> Seq(S)]
    BY <1>1, <1>2 DEF Types, Places
  <2>2. mask' = [t \in Tasks |-> mask'[t]]
    BY <1>1, <1>3 DEF Types
  <2> QED BY <2>1, <2>2 DEF Types
<1>6. file.kind # "none"
  BY <1>1, <1>4 DEF SameInv, Quiet
<1>7. ASSUME NEW t \in Others PROVE Linked(t)'
  <2>1. Linked(t) /\ t \in Tasks /\ t # Monitor
    BY <1>6, TwoKindsOfTasks DEF SameInv
  <2>2. \A v \in Tasks : (pc'[v] = "select") = (pc[v] = "select")
    BY <1>1, <1>2, <1>4 DEF Types
  <2>3. mask'[t] = mask[t] /\ \A v \in Tasks : sel'[v] = sel[v]
    BY <1>1, <1>3, <2>1 DEF Types
  <2>4. Reached(t)' = Reached(t) /\ Reached(Monitor)' = Reached(Monitor)
    BY <1>4, <2>1, <2>2, <2>3, ReachedKept
  <2>5. ASSUME NEW n PROVE At(t, n)' = At(t, n)
    BY <1>1, <2>1, <2>3, AtKept
  <2>6. ASSUME NEW n \in 1 .. Reached(Monitor) PROVE At(Monitor, n)' = At(Monitor, n)
    <3>1. Reached(Monitor) = Len(sel[Monitor])
      <4>1. Reached(Monitor) = Len(sel[Monitor]) + 0
        BY <1>1 DEF Reached
      <4> QED BY <1>1, <1>4, <4>1, ReachedIsNat
    <3>2. n <= Len(sel[Monitor]) /\ sel'[Monitor] = sel[Monitor]
      BY <1>4, <2>3, <3>1
    <3> QED BY <3>2 DEF At
  <2> QED BY <1>1, <2>1, <2>4, <2>5, <2>6, LinkKept
<1> QED BY <1>1, <1>5, <1>6, <1>7 DEF SameInv

\* The monitor sends the masks of the call it reaches.
LEMMA FinishReadStep ==
  ASSUME SameInv, FinishRead
  PROVE  SameInv'
<1>1. /\ Types /\ pc[Monitor] = "read" /\ Monitor \in Tasks
      /\ UNCHANGED <<setup, io, file, mask, sel>>
  BY TwoKindsOfTasks DEF SameInv, FinishRead
<1>2. file.kind # "none"
  BY <1>1 DEF SameInv, Quiet
<1>3. CASE Fatal
  <2>1. pc' = [pc EXCEPT ![Monitor] = "fatal"] /\ chan' = chan
    BY <1>3 DEF FinishRead, Goto
  <2>2. Types'
    BY <1>1, <2>1 DEF Types, Places
  <2>3. ASSUME NEW t \in Others PROVE Linked(t)'
    <3>1. Linked(t) /\ t \in Tasks
      BY <1>2, TwoKindsOfTasks DEF SameInv
    <3>2. \A v \in Tasks : (pc'[v] = "select") = (pc[v] = "select")
      BY <1>1, <2>1 DEF Types
    <3>3. \A v \in Tasks : sel'[v] = sel[v] /\ mask'[v] = mask[v]
      BY <1>1
    <3>4. Reached(t)' = Reached(t) /\ Reached(Monitor)' = Reached(Monitor)
      BY <1>1, <3>1, <3>2, <3>3, ReachedKept
    <3>5. ASSUME NEW n PROVE At(t, n)' = At(t, n) /\ At(Monitor, n)' = At(Monitor, n)
      BY <1>1, <3>1, <3>3, AtKept
    <3> QED BY <1>1, <2>1, <3>1, <3>4, <3>5, LinkKept
  <2> QED BY <1>1, <1>2, <2>2, <2>3 DEF SameInv
<1>4. CASE ~Fatal
  <2>1. /\ pc' = [pc EXCEPT ![Monitor] = "select"]
        /\ chan' = [t \in Others |-> Append(chan[t], mask[Monitor])]
    BY <1>4 DEF FinishRead, Goto
  <2>2. PICK S : chan \in [Others -> Seq(S)]
    BY <1>1 DEF Types
  <2>3. ASSUME NEW t \in Others
        PROVE  /\ Append(chan[t], mask[Monitor]) \in Seq(S \union {mask[Monitor]})
               /\ Len(chan'[t]) = Len(chan[t]) + 1
               /\ \A k \in 1 .. Len(chan[t]) : chan'[t][k] = chan[t][k]
               /\ chan'[t][Len(chan[t]) + 1] = mask[Monitor]
    <3> DEFINE T == S \union {mask[Monitor]}
    <3>1. chan[t] \in Seq(T) /\ mask[Monitor] \in T
      BY <2>2, SeqMonotonic
    <3>2. chan'[t] = Append(chan[t], mask[Monitor])
      BY <2>1
    <3> HIDE DEF T
    <3>3. /\ Append(chan[t], mask[Monitor]) \in Seq(T)
          /\ Len(chan'[t]) = Len(chan[t]) + 1
          /\ \A k \in 1 .. Len(chan[t]) : chan'[t][k] = chan[t][k]
          /\ chan'[t][Len(chan[t]) + 1] = mask[Monitor]
      BY <3>1, <3>2, AppendProperties
    <3> QED BY <3>3 DEF T
  <2>4. Types'
    <3>1. chan' \in [Others -> Seq(S \union {mask[Monitor]})]
      BY <2>1, <2>3
    <3>2. pc' \in [Tasks -> Places]
      BY <1>1, <2>1 DEF Types, Places
    <3> QED BY <1>1, <3>1, <3>2 DEF Types
  <2>5. Reached(Monitor)' = Reached(Monitor) + 1 /\ Reached(Monitor) = Len(sel[Monitor])
    <3>1. Reached(Monitor) = Len(sel[Monitor]) + 0 /\ Len(sel[Monitor]) \in Nat
      BY <1>1, ReachedIsNat DEF Reached
    <3>2. pc'[Monitor] = "select"
      BY <1>1, <2>1 DEF Types
    <3>3. Reached(Monitor)' = Len(sel[Monitor]) + 1
      BY <1>1, <3>2 DEF Reached
    <3> QED BY <3>1, <3>3
  <2>6. ASSUME NEW t \in Others PROVE Linked(t)'
    <3>1. Linked(t) /\ t \in Tasks /\ t # Monitor
      BY <1>2, TwoKindsOfTasks DEF SameInv
    <3>2. Reached(t)' = Reached(t)
      BY <1>1, <2>1, <3>1, ReachedKept DEF Types
    <3>3. ASSUME NEW n PROVE At(t, n)' = At(t, n) /\ At(Monitor, n)' = At(Monitor, n)
      BY <1>1, <3>1, AtKept
    <3>4. /\ Reached(t) \in Nat /\ Reached(Monitor) \in Nat /\ Len(chan[t]) \in Nat
          /\ Reached(Monitor) = Reached(t) + Len(chan[t])
      BY <1>1, <3>1, ReachedIsNat, ChanIsSeq DEF Linked
    <3>5. Reached(Monitor)' = Reached(t)' + Len(chan'[t])
      BY <2>3, <2>5, <3>2, <3>4
    <3>6. \A n \in 1 .. Reached(t)' : At(t, n)' = At(Monitor, n)'
      BY <3>1, <3>2, <3>3 DEF Linked
    <3>7. ASSUME NEW k \in 1 .. Len(chan'[t])
          PROVE  View(io, chan[t][k])' = At(Monitor, Reached(t) + k)'
      <4>1. CASE k \in 1 .. Len(chan[t])
        <5>1. View(io, chan[t][k]) = At(Monitor, Reached(t) + k)
          BY <3>1, <4>1 DEF Linked
        <5>2. At(Monitor, Reached(t) + k)' = At(Monitor, Reached(t) + k)
          <6>1. \A n : At(Monitor, n)' = At(Monitor, n)
            BY <3>3
          <6> DEFINE n == Reached(t) + k
          <6>2. n' = n
            BY <3>2
          <6>3. At(Monitor, n)' = At(Monitor, n)
            BY <1>1, <6>2 DEF At
          <6> QED BY <6>3
        <5> QED BY <1>1, <2>3, <4>1, <5>1, <5>2
      <4>2. CASE k = Len(chan[t]) + 1
        <5> DEFINE n == Reached(t) + k
        <5>1. n' = Len(sel[Monitor]) + 1 /\ Len(sel[Monitor]) \in Nat
          BY <1>1, <2>5, <3>2, <3>4, <4>2, ReachedIsNat
        <5>2. ~(n' <= Len(sel'[Monitor]))
          BY <1>1, <5>1
        <5>3. At(Monitor, n)' = View(io, mask[Monitor])
          BY <1>1, <5>2 DEF At
        <5> QED BY <1>1, <2>3, <4>2, <5>3
      <4> QED BY <2>3, <3>4, <4>1, <4>2
    <3> QED BY <3>5, <3>6, <3>7 DEF Linked
  <2> QED BY <1>1, <1>2, <2>4, <2>6 DEF SameInv
<1> QED BY <1>3, <1>4

\* A task takes the masks of its next call.
LEMMA ReceiveStep ==
  ASSUME SameInv, NEW u \in Others, Receive(u)
  PROVE  SameInv'
<1>1. /\ Types /\ pc[u] = "bcast" /\ chan[u] # <<>> /\ u \in Tasks /\ u # Monitor
      /\ Monitor \in Tasks
      /\ mask' = [mask EXCEPT ![u] = Head(chan[u])]
      /\ chan' = [chan EXCEPT ![u] = Tail(@)]
      /\ pc' = [pc EXCEPT ![u] = "select"]
      /\ UNCHANGED <<setup, io, file, sel>>
  BY TwoKindsOfTasks DEF SameInv, Receive, Received, Goto
<1>2. file.kind # "none"
  BY <1>1 DEF SameInv, Quiet
<1>3. PICK S : chan \in [Others -> Seq(S)]
  BY <1>1 DEF Types
<1>4. Types'
  <2>1. Tail(chan[u]) \in Seq(S)
    BY <1>1, <1>3
  <2>2. chan' \in [Others -> Seq(S)]
    BY <1>1, <1>3, <2>1
  <2>3. pc' \in [Tasks -> Places] /\ sel' \in [Tasks -> Seq(Views)]
    BY <1>1 DEF Types, Places
  <2>4. mask' = [t \in Tasks |-> mask'[t]]
    BY <1>1 DEF Types
  <2> QED BY <2>2, <2>3, <2>4 DEF Types
<1>5. /\ chan'[u] = Tail(chan[u]) /\ mask'[u] = chan[u][1] /\ pc'[u] = "select"
      /\ Len(chan[u]) \in Nat /\ Len(chan[u]) >= 1
      /\ Len(Tail(chan[u])) = Len(chan[u]) - 1
      /\ \A k \in 1 .. Len(Tail(chan[u])) : Tail(chan[u])[k] = chan[u][k + 1]
  <2>1. chan[u] \in Seq(S)
    BY <1>3
  <2>2. /\ Len(chan[u]) \in Nat /\ Len(chan[u]) >= 1 /\ Head(chan[u]) = chan[u][1]
        /\ Len(Tail(chan[u])) = Len(chan[u]) - 1
    BY <1>1, <2>1
  <2>3. \A k \in 1 .. Len(Tail(chan[u])) : Tail(chan[u])[k] = chan[u][k + 1]
    BY <1>1, <2>1, HeadTailProperties
  <2>4. chan'[u] = Tail(chan[u]) /\ mask'[u] = Head(chan[u]) /\ pc'[u] = "select"
    BY <1>1, <1>3 DEF Types
  <2> QED BY <2>2, <2>3, <2>4
<1>6. Reached(Monitor)' = Reached(Monitor) /\ \A n : At(Monitor, n)' = At(Monitor, n)
  <2>1. pc'[Monitor] = pc[Monitor] /\ mask'[Monitor] = mask[Monitor] /\ sel'[Monitor] = sel[Monitor]
    BY <1>1 DEF Types
  <2>2. Reached(Monitor)' = Reached(Monitor)
    BY <1>1, <2>1, ReachedKept
  <2>3. ASSUME NEW n PROVE At(Monitor, n)' = At(Monitor, n)
    BY <1>1, <2>1, AtKept
  <2> QED BY <2>2, <2>3
<1>7. ASSUME NEW t \in Others, t # u PROVE Linked(t)'
  <2>1. Linked(t) /\ t \in Tasks
    BY <1>2, TwoKindsOfTasks DEF SameInv
  <2>2. /\ pc'[t] = pc[t] /\ mask'[t] = mask[t] /\ sel'[t] = sel[t]
        /\ chan'[t] = chan[t]
    BY <1>1, <1>3, <1>7, <2>1 DEF Types
  <2>3. Reached(t)' = Reached(t)
    BY <2>1, <2>2, ReachedKept
  <2>4. ASSUME NEW n PROVE At(t, n)' = At(t, n)
    BY <1>1, <2>1, <2>2, AtKept
  <2>5. \A n \in 1 .. Reached(Monitor) : At(Monitor, n)' = At(Monitor, n)
    BY <1>6
  <2> QED BY <1>1, <1>6, <2>1, <2>2, <2>3, <2>4, <2>5, LinkKept
<1>8. Linked(u)'
  <2> DEFINE r == Len(sel[u])
  <2>1. Linked(u) /\ r \in Nat
    BY <1>1, <1>2, ReachedIsNat DEF SameInv
  <2>2. Reached(u) = r /\ Reached(u)' = r + 1
    <3>1. Reached(u) = r + 0 /\ Reached(u)' = r + 1
      BY <1>1, <1>5 DEF Reached
    <3> QED BY <2>1, <3>1
  <2>3. \A n \in 1 .. r : At(u, n) = At(Monitor, n)
    BY <2>1, <2>2 DEF Linked
  <2>4. /\ Reached(Monitor) = r + Len(chan[u])
        /\ \A k \in 1 .. Len(chan[u]) : View(io, chan[u][k]) = At(Monitor, r + k)
    BY <2>1, <2>2 DEF Linked
  <2>5. \A n \in 1 .. r : At(u, n)' = At(u, n)
    BY <1>1, <2>1 DEF At
  <2>6. At(u, r + 1)' = At(Monitor, r + 1)'
    <3>1. ~(r + 1 <= Len(sel'[u])) /\ sel' = sel /\ io' = io
      BY <1>1, <2>1
    <3>2. At(u, r + 1)' = View(io, chan[u][1])
      BY <1>5, <3>1 DEF At
    <3>3. View(io, chan[u][1]) = At(Monitor, r + 1)
      BY <1>5, <2>4
    <3>4. At(Monitor, r + 1)' = At(Monitor, r + 1)
      <4>1. mask'[Monitor] = mask[Monitor]
        BY <1>1 DEF Types
      <4> QED BY <3>1, <4>1 DEF At
    <3> QED BY <3>2, <3>3, <3>4
  <2>7. ASSUME NEW n \in 1 .. Reached(u)' PROVE At(u, n)' = At(Monitor, n)'
    <3>1. n \in 1 .. r \/ n = r + 1
      BY <2>1, <2>2
    <3>2. CASE n \in 1 .. r
      BY <1>6, <2>3, <2>5, <3>2
    <3>3. CASE n = r + 1
      <4>1. n = r' + 1
        BY <1>1, <3>3
      <4> QED BY <2>6, <3>3, <4>1 DEF At
    <3> QED BY <3>1, <3>2, <3>3
  <2>8. ASSUME NEW k \in 1 .. Len(chan'[u])
        PROVE  View(io, chan[u][k])' = At(Monitor, Reached(u) + k)'
    <3> DEFINE last == Len(chan[u]) - 1
    <3>0. Len(chan'[u]) = last /\ last \in Nat
      BY <1>5
    <3>1. /\ k \in Nat /\ k + 1 \in 1 .. Len(chan[u]) /\ io' = io
          /\ chan'[u][k] = chan[u][k + 1]
      <4>1. k \in 1 .. last
        BY <3>0
      <4>2. k \in Nat /\ k + 1 \in 1 .. Len(chan[u])
        BY <1>5, <4>1
      <4> QED BY <1>1, <1>5, <3>0, <4>1, <4>2
    <3>2. View(io, chan[u][k + 1]) = At(Monitor, r + (k + 1))
      BY <2>4, <3>1
    <3>3. (Reached(u) + k)' = r + (k + 1)
      <4> HIDE DEF r
      <4>1. (r + 1) + k = r + (k + 1)
        BY <2>1, <3>1
      <4> QED BY <2>2, <4>1
    <3>4. At(Monitor, Reached(u) + k)' = At(Monitor, r + (k + 1))
      <4>1. mask'[Monitor] = mask[Monitor] /\ sel' = sel
        BY <1>1 DEF Types
      <4> QED BY <3>1, <3>3, <4>1 DEF At
    <3> QED BY <3>1, <3>2, <3>4
  <2>9. Reached(Monitor)' = Reached(u)' + Len(chan'[u])
    <3>1. Len(chan'[u]) = Len(chan[u]) - 1 /\ Len(chan[u]) \in Nat
      BY <1>5
    <3> HIDE DEF r
    <3>2. \A a, b \in Nat : a + b = (a + 1) + (b - 1)
      OBVIOUS
    <3>3. r + Len(chan[u]) = (r + 1) + (Len(chan[u]) - 1)
      BY <2>1, <3>1, <3>2
    <3> QED BY <1>6, <2>2, <2>4, <3>1, <3>3
  <2> QED BY <2>7, <2>8, <2>9 DEF Linked
<1> QED BY <1>1, <1>2, <1>4, <1>7, <1>8 DEF SameInv

\* A call is made for the fields of its masks.
LEMMA SelectFieldsStep ==
  ASSUME SameInv, NEW u \in Tasks, SelectFields(u)
  PROVE  SameInv'
<1>1. /\ Types /\ pc[u] = "select" /\ Monitor \in Tasks
      /\ sel' = [sel EXCEPT ![u] = Append(@, View(io, mask[u]))]
      /\ pc' = [pc EXCEPT ![u] = "run"]
      /\ UNCHANGED <<setup, io, file, mask, chan>>
  BY TwoKindsOfTasks DEF SameInv, SelectFields, Goto, Selected, View
<1>2. /\ sel[u] \in Seq(Views) /\ View(io, mask[u]) \in Views
      /\ sel'[u] = Append(sel[u], View(io, mask[u])) /\ pc'[u] = "run"
  BY <1>1, ViewIsView DEF Types
<1>3. /\ sel'[u] \in Seq(Views) /\ Len(sel[u]) \in Nat
      /\ Len(sel'[u]) = Len(sel[u]) + 1
      /\ \A n \in 1 .. Len(sel[u]) : sel'[u][n] = sel[u][n]
      /\ sel'[u][Len(sel[u]) + 1] = View(io, mask[u])
  BY <1>2, AppendProperties
<1>4. Types'
  <2>1. pc' \in [Tasks -> Places] /\ sel' \in [Tasks -> Seq(Views)]
    BY <1>1, <1>3 DEF Types, Places
  <2> QED BY <1>1, <2>1 DEF Types
<1>5. ASSUME file.kind = "none" PROVE Quiet'
  <2>1. Quiet
    BY <1>5 DEF SameInv
  <2>2. ASSUME NEW t \in Tasks
        PROVE  pc'[t] \in {"run", "select"} /\ mask'[t] = mask'[Monitor]
    BY <1>1, <2>1 DEF Quiet, Types
  <2>3. ASSUME NEW t \in Tasks, NEW n \in 1 .. Len(sel'[t])
        PROVE  sel'[t][n] = View(io', mask'[Monitor])
    <3>1. CASE t = u
      <4>1. n \in 1 .. Len(sel[u]) \/ n = Len(sel[u]) + 1
        BY <1>3, <3>1
      <4> QED BY <1>1, <1>3, <2>1, <3>1, <4>1 DEF Quiet
    <3>2. CASE t # u
      BY <1>1, <2>1, <3>2 DEF Quiet, Types
    <3> QED BY <3>1, <3>2
  <2> QED BY <2>2, <2>3 DEF Quiet
<1>6. ASSUME NEW v \in Tasks
      PROVE  /\ Reached(v)' = Reached(v)
             /\ \A n \in 1 .. Reached(v) : At(v, n)' = At(v, n)
  <2>1. CASE v = u
    <3>1. Reached(u) = Len(sel[u]) + 1 /\ Reached(u)' = Len(sel[u]) + 1
      <4>1. Reached(u) = Len(sel[u]) + 1
        BY <1>1 DEF Reached
      <4>2. Reached(u)' = Len(sel'[u]) + 0
        BY <1>2 DEF Reached
      <4> QED BY <1>3, <4>1, <4>2
    <3>2. ASSUME NEW n \in 1 .. Len(sel[u]) + 1 PROVE At(u, n)' = At(u, n)
      <4>1. CASE n \in 1 .. Len(sel[u])
        <5>1. n <= Len(sel[u]) /\ n <= Len(sel'[u]) /\ sel'[u][n] = sel[u][n]
          BY <1>3, <4>1
        <5> QED BY <5>1 DEF At
      <4>2. CASE n = Len(sel[u]) + 1
        <5>1. ~(n <= Len(sel[u])) /\ n <= Len(sel'[u]) /\ sel'[u][n] = View(io, mask[u])
          BY <1>3, <4>2
        <5> QED BY <5>1 DEF At
      <4> QED BY <1>3, <4>1, <4>2
    <3> QED BY <2>1, <3>1, <3>2
  <2>2. CASE v # u
    <3>1. pc'[v] = pc[v] /\ sel'[v] = sel[v] /\ mask'[v] = mask[v]
      BY <1>1, <2>2 DEF Types
    <3>2. Reached(v)' = Reached(v)
      BY <3>1, ReachedKept
    <3>3. ASSUME NEW n PROVE At(v, n)' = At(v, n)
      BY <1>1, <3>1, AtKept
    <3> QED BY <3>2, <3>3
  <2> QED BY <2>1, <2>2
<1>7. ASSUME file.kind # "none", NEW t \in Others PROVE Linked(t)'
  <2>1. Linked(t) /\ t \in Tasks
    BY <1>7, TwoKindsOfTasks DEF SameInv
  <2> QED BY <1>1, <1>6, <2>1, LinkKept
<1> QED BY <1>1, <1>4, <1>5, <1>7 DEF SameInv

\* The file is edited, or nothing happens.
LEMMA OtherStep ==
  ASSUME SameInv, EditFile \/ UNCHANGED vars
  PROVE  SameInv'
<1>1. UNCHANGED <<io, mask, pc, chan, sel>> /\ file'.kind = file.kind
  BY DEF EditFile, vars
<1>2. Types'
  BY <1>1 DEF SameInv, Types
<1>3. file.kind = "none" => Quiet'
  BY <1>1 DEF SameInv, Quiet
<1>4. ASSUME file.kind # "none", NEW t \in Others PROVE Linked(t)'
  <2>1. Linked(t)
    BY <1>4 DEF SameInv
  <2> QED BY <1>1, <2>1 DEF Linked, Reached, At
<1> QED BY <1>1, <1>2, <1>3, <1>4 DEF SameInv

-----------------------------------------------------------------------------
(* The theorems *)

\* What has been sent to a task is what it takes, in order.
THEOREM SameInvHolds == Spec => []SameInv
<1>1. Init => SameInv
  BY Initially
<1>2. SameInv /\ [Next]_vars => SameInv'
  <2> SUFFICES ASSUME SameInv, [Next]_vars PROVE SameInv'
    OBVIOUS
  <2>1. CASE \E t \in Tasks : BeginIo(t) \/ SelectFields(t)
    BY <2>1, BeginIoStep, SelectFieldsStep
  <2>2. CASE ReadLine
    BY <2>2, ReadLineStep
  <2>3. CASE FinishRead
    BY <2>3, FinishReadStep
  <2>4. CASE \E t \in Others : Receive(t)
    BY <2>4, ReceiveStep
  <2>5. CASE EditFile \/ UNCHANGED vars
    BY <2>5, OtherStep
  <2> QED BY <2>1, <2>2, <2>3, <2>4, <2>5 DEF Next
<1> QED BY <1>1, <1>2, PTL DEF Spec

\* The tasks make the same collective calls for the same fields, however far
\* the monitor is ahead and however often the file is edited in between: the
\* broadcast of modify_io_masks1 is all they need.
THEOREM SameFields == Spec => []SameFieldsEverywhere
<1>1. SameInv => SameFieldsEverywhere
  <2> SUFFICES ASSUME SameInv, NEW t \in Tasks,
                      NEW n \in DOMAIN sel[t] \intersect DOMAIN sel[Monitor]
               PROVE  sel[t][n] = sel[Monitor][n]
    BY DEF SameFieldsEverywhere
  <2>1. Types /\ Monitor \in Tasks
    BY TwoKindsOfTasks DEF SameInv
  <2>2. n \in 1 .. Len(sel[t]) /\ n \in 1 .. Len(sel[Monitor])
    <3>1. sel[t] \in Seq(Views) /\ sel[Monitor] \in Seq(Views)
      BY <2>1 DEF Types
    <3> QED BY <3>1, LenProperties
  <2>3. CASE file.kind = "none"
    BY <2>1, <2>2, <2>3 DEF SameInv, Quiet
  <2>4. CASE file.kind # "none" /\ t # Monitor
    <3>1. t \in Others /\ Linked(t)
      BY <2>4 DEF SameInv, Tasks
    <3>2. n \in 1 .. Reached(t)
      BY <2>1, <2>2, ReachedIsNat
    <3>3. At(t, n) = At(Monitor, n)
      BY <3>1, <3>2 DEF Linked
    <3>4. At(t, n) = sel[t][n] /\ At(Monitor, n) = sel[Monitor][n]
      BY <2>2 DEF At
    <3> QED BY <3>3, <3>4
  <2> QED BY <2>3, <2>4
<1> QED BY <1>1, SameInvHolds, PTL

-----------------------------------------------------------------------------
(* Errors in the file.  The invariant says what gavewarning stands for while *)
(* the file is read, as far as it has been.                                  *)

\* There is no error in the lines before the first blank one.
FileGood ==
  /\ file.kind # "missing"
  /\ \A i \in DOMAIN file.lines :
       (\A j \in 1 .. i : file.lines[j].kind # "blank") /\ file.lines[i].kind = "edit"
         => ~Bad(file.lines[i])

Scanned ==
  /\ pos \in Nat
  /\ file.kind = "missing" => warned
  /\ \A i \in 1 .. pos :
       /\ i \in DOMAIN file.lines
       /\ file.lines[i].kind # "blank"
       /\ file.lines[i].kind = "edit" /\ Bad(file.lines[i]) => warned

Strict == ~setup.ignore /\ ~setup.edited
NoIoUnderBadLine == Strict /\ sel[Monitor] # <<>> => FileGood
WarnedInv ==
  /\ setup \in Setups /\ file \in setup.files
  /\ Strict => /\ pc[Monitor] = "read" => Scanned
               /\ pc[Monitor] = "select" \/ sel[Monitor] # <<>> => FileGood

\* A step by which the monitor neither reads nor begins or ends a call.
LEMMA WarnedKept ==
  ASSUME WarnedInv, UNCHANGED <<setup, file, pos, warned>>,
         pc'[Monitor] = pc[Monitor], sel'[Monitor] = sel[Monitor]
  PROVE  WarnedInv'
BY DEF WarnedInv, Scanned, FileGood, Strict

LEMMA WarnedBeginIo ==
  ASSUME Types, WarnedInv, BeginIo(Monitor)
  PROVE  WarnedInv'
<1>1. UNCHANGED <<setup, file, sel>> /\ Monitor \in Tasks
  BY TwoKindsOfTasks DEF BeginIo
<1>2. CASE file.kind = "none"
  <2>1. FileGood
    <3>1. file.lines = <<>>
      BY <1>2, SetupAssumption DEF WarnedInv
    <3> QED BY <1>2, <3>1 DEF FileGood
  <2>2. pc'[Monitor] = "select"
    BY <1>1, <1>2 DEF BeginIo, Goto, Types
  <2> QED BY <1>1, <2>1, <2>2 DEF WarnedInv, FileGood, Strict
<1>3. CASE file.kind # "none"
  <2>1. pc'[Monitor] = "read" /\ pos' = 0 /\ warned' = (file.kind = "missing")
    BY <1>1, <1>3 DEF BeginIo, Goto, Types
  <2>2. Scanned'
    <3>1. pos' \in Nat /\ 1 .. pos' = {}
      BY <2>1
    <3>2. file'.kind = "missing" => warned'
      BY <1>1, <2>1
    <3> QED BY <3>1, <3>2 DEF Scanned
  <2> QED BY <1>1, <2>1, <2>2 DEF WarnedInv, FileGood, Strict
<1> QED BY <1>2, <1>3

\* A line is read, and its error is remembered.
LEMMA WarnedReadLine ==
  ASSUME Types, WarnedInv, ReadLine
  PROVE  WarnedInv'
<1> DEFINE line == file.lines[pos + 1]
<1>1. /\ UNCHANGED <<setup, file, sel>> /\ Monitor \in Tasks /\ pos' = pos + 1
      /\ pc[Monitor] = "read" /\ ~AtEnd
      /\ line.kind # "comment" => warned' = (warned \/ Bad(line))
      /\ line.kind = "comment" => warned' = warned
  BY TwoKindsOfTasks DEF ReadLine
<1>2. pc'[Monitor] # "select"
  BY <1>1 DEF ReadLine, Goto, Types
<1>3. ASSUME Strict PROVE Scanned'
  <2>1. Scanned
    BY <1>1, <1>3 DEF WarnedInv
  <2>2. pos + 1 \in DOMAIN file.lines /\ line.kind # "blank"
    <3>1. DOMAIN file.lines = 1 .. Len(file.lines) /\ Len(file.lines) \in Nat
      BY SetupAssumption DEF WarnedInv
    <3>2. PICK i \in DOMAIN file.lines : file.lines[i].kind # "blank" /\ pos = i - 1
      BY <1>1 DEF AtEnd
    <3>3. i = pos + 1
      BY <3>1, <3>2
    <3> QED BY <3>2, <3>3
  <2>3. warned => warned'
    BY <1>1
  <2>4. line.kind = "edit" /\ Bad(line) => warned'
    BY <1>1
  <2>5. ASSUME NEW i \in 1 .. pos + 1
        PROVE  /\ i \in DOMAIN file.lines
               /\ file.lines[i].kind # "blank"
               /\ file.lines[i].kind = "edit" /\ Bad(file.lines[i]) => warned'
    <3>1. i \in 1 .. pos \/ i = pos + 1
      BY <2>1 DEF Scanned
    <3>2. CASE i \in 1 .. pos
      BY <2>1, <2>3, <3>2 DEF Scanned
    <3>3. CASE i = pos + 1
      BY <2>2, <2>4, <3>3
    <3> QED BY <3>1, <3>2, <3>3
  <2>6. pos' \in Nat /\ (file'.kind = "missing" => warned')
    BY <1>1, <2>1, <2>3 DEF Scanned
  <2> QED BY <1>1, <2>5, <2>6 DEF Scanned
<1> QED BY <1>1, <1>2, <1>3 DEF WarnedInv, FileGood, Strict

\* At the end of the file its errors are known.
LEMMA WarnedFinishRead ==
  ASSUME Types, WarnedInv, FinishRead
  PROVE  WarnedInv'
<1>1. /\ UNCHANGED <<setup, file, sel, pos, warned>> /\ Monitor \in Tasks
      /\ pc[Monitor] = "read" /\ AtEnd
  BY TwoKindsOfTasks DEF FinishRead, reading
<1>2. CASE Fatal
  <2>1. pc'[Monitor] = "fatal"
    BY <1>1, <1>2 DEF FinishRead, Goto, Types
  <2> QED BY <1>1, <2>1 DEF WarnedInv, FileGood, Strict
<1>3. CASE ~Fatal
  <2>1. pc'[Monitor] = "select"
    BY <1>1, <1>3 DEF FinishRead, Goto, Types
  <2>2. ASSUME Strict PROVE FileGood
    <3>1. Scanned /\ ~warned
      BY <1>1, <1>3, <2>2 DEF WarnedInv, Fatal, Strict
    <3>2. DOMAIN file.lines = 1 .. Len(file.lines) /\ Len(file.lines) \in Nat
      BY SetupAssumption DEF WarnedInv
    <3>3. ASSUME NEW i \in DOMAIN file.lines,
                 \A j \in 1 .. i : file.lines[j].kind # "blank"
          PROVE  i \in 1 .. pos
      <4>1. SUFFICES ASSUME i > pos PROVE FALSE
        BY <3>1, <3>2 DEF Scanned
      <4>2. pos + 1 \in 1 .. i /\ pos + 1 \in DOMAIN file.lines /\ pos = (pos + 1) - 1
        BY <3>1, <3>2, <4>1 DEF Scanned
      <4>3. file.lines[pos + 1].kind # "blank"
        BY <3>3, <4>2
      <4>4. pos \in {k - 1 : k \in {j \in DOMAIN file.lines : file.lines[j].kind # "blank"}}
        BY <4>2, <4>3
      <4> QED BY <1>1, <4>4 DEF AtEnd
    <3> QED BY <3>1, <3>3 DEF Scanned, FileGood
  <2> QED BY <1>1, <2>1, <2>2 DEF WarnedInv, FileGood, Strict
<1> QED BY <1>2, <1>3

\* The monitor makes its call; it had the masks of a good file.
LEMMA WarnedSelect ==
  ASSUME Types, WarnedInv, SelectFields(Monitor)
  PROVE  WarnedInv'
<1>1. UNCHANGED <<setup, file>> /\ pc[Monitor] = "select" /\ pc'[Monitor] = "run"
  BY TwoKindsOfTasks DEF SelectFields, Goto, Types
<1> QED BY <1>1 DEF WarnedInv, FileGood, Strict

\* Where the model is not told to ignore them, no field is read or written
\* under a file that is missing or has a line with an error before its first
\* blank line.  Behind a blank line NoIoUnderBadFile is wrong.
THEOREM BadLineIsFatal == Spec => []NoIoUnderBadLine
<1>1. Init => WarnedInv
  <2> SUFFICES ASSUME Init PROVE WarnedInv
    OBVIOUS
  <2>1. pc[Monitor] = "run" /\ sel[Monitor] = <<>>
    BY TwoKindsOfTasks DEF Init
  <2> QED BY <2>1 DEF Init, WarnedInv
<1>2. SameInv /\ WarnedInv /\ [Next]_vars => WarnedInv'
  <2> SUFFICES ASSUME SameInv, WarnedInv, [Next]_vars PROVE WarnedInv'
    OBVIOUS
  <2>1. Types
    BY DEF SameInv
  <2>2. ASSUME NEW t \in Tasks, t # Monitor, BeginIo(t) \/ SelectFields(t) PROVE WarnedInv'
    <3>1. UNCHANGED <<setup, file, pos, warned>>
      BY <2>2 DEF BeginIo, SelectFields, reading
    <3>2. pc'[Monitor] = pc[Monitor] /\ sel'[Monitor] = sel[Monitor]
      BY <2>1, <2>2, TwoKindsOfTasks DEF BeginIo, SelectFields, Goto, Types
    <3> QED BY <3>1, <3>2, WarnedKept
  <2>3. CASE \E t \in Tasks : BeginIo(t) \/ SelectFields(t)
    BY <2>1, <2>2, <2>3, WarnedBeginIo, WarnedSelect
  <2>4. CASE ReadLine
    BY <2>1, <2>4, WarnedReadLine
  <2>5. CASE FinishRead
    BY <2>1, <2>5, WarnedFinishRead
  <2>6. ASSUME NEW t \in Others, Receive(t) PROVE WarnedInv'
    <3>1. UNCHANGED <<setup, file, pos, warned>>
      BY <2>6 DEF Receive, reading
    <3>2. pc'[Monitor] = pc[Monitor] /\ sel'[Monitor] = sel[Monitor]
      BY <2>1, <2>6, TwoKindsOfTasks DEF Receive, Goto, Types
    <3> QED BY <3>1, <3>2, WarnedKept
  <2>7. CASE EditFile
    <3>1. setup.edited /\ setup' = setup /\ file' \in setup.files
      BY <2>7 DEF EditFile
    <3> QED BY <3>1 DEF WarnedInv, Strict
  <2>8. CASE UNCHANGED vars
    BY <2>8, WarnedKept DEF vars
  <2> QED BY <2>3, <2>4, <2>5, <2>6, <2>7, <2>8 DEF Next
<1>3. WarnedInv => NoIoUnderBadLine
  BY DEF WarnedInv, NoIoUnderBadLine
<1> QED BY <1>1, <1>2, <1>3, SameInvHolds, PTL DEF Spec

-----------------------------------------------------------------------------
(* Masks and the streams that are on them.                                   *)

IsMask(m) == m = [w \in 0 .. IO_MASK_SIZE - 1 |-> m[w]]

\* The streams of a mask
StreamsOf(m) == {st \in Streams : OnStream(m, SwitchOf(st))}

\* The bit of a stream
Place(st) == SwitchOf(st) - 1

\* Word and bit tell the numbers apart.
LEMMA PlacesDiffer ==
  ASSUME NEW a \in Int, NEW b \in Int, Word(a) = Word(b), Bit(a) = Bit(b)
  PROVE  a = b
<1> DEFINE d == WordBits - 1
<1>1. d \in Nat \ {0}
  BY WordAssumption
<1> HIDE DEF d
<1>2. a = d * (a \div d) + (a % d) /\ b = d * (b \div d) + (b % d)
  <2>1. a = d * (a \div d) + (a % d)
    BY <1>1
  <2>2. b = d * (b \div d) + (b % d)
    BY <1>1
  <2> QED BY <2>1, <2>2
<1>3. a \div d = b \div d /\ a % d = b % d
  BY DEF d, Word, Bit
<1> QED BY <1>2, <1>3

\* The numbers of the history and of the input streams.
LEMMA PlaceOf ==
  ASSUME NEW st \in Streams
  PROVE  /\ Place(st) \in 0 .. 2 * MaxHistory - 1
         /\ Place(st) = (IF st[1] = "h" THEN HISTORY_STREAM ELSE INPUT_STREAM) + st[2]
BY HistoryAssumption
   DEF Streams, Kinds, Place, SwitchOf, first_history, first_input, HISTORY_STREAM, INPUT_STREAM

\* No two streams have the same bit.
LEMMA PlacesOfStreams ==
  ASSUME NEW st \in Streams, NEW u \in Streams, Place(st) = Place(u)
  PROVE  st = u
<1>1. /\ st[1] \in {"h", "i"} /\ st[2] \in 0 .. MaxHistory - 1 /\ st = <<st[1], st[2]>>
      /\ u[1] \in {"h", "i"} /\ u[2] \in 0 .. MaxHistory - 1 /\ u = <<u[1], u[2]>>
  BY DEF Streams, Kinds
<1>2. st[1] = u[1] /\ st[2] = u[2]
  BY <1>1, PlaceOf, HistoryAssumption DEF HISTORY_STREAM, INPUT_STREAM
<1> QED BY <1>1, <1>2

\* A stream of a mask has a word, and the word of a number that is none may
\* be missing.
LEMMA WordOf ==
  ASSUME NEW e \in 0 .. 2 * MaxHistory - 1
  PROVE  Word(e) \in 0 .. IO_MASK_SIZE - 1
<1> DEFINE d == WordBits - 1
<1>1. d \in Nat \ {0} /\ e \in Nat
  BY WordAssumption, HistoryAssumption
<1> HIDE DEF d
<1>2. e \div d \in Nat
  BY <1>1
<1>3. IO_MASK_SIZE \in Int
  <2>1. MAX_STREAMS \in Int /\ WordBits \in Nat \ {0}
    BY WordAssumption, HistoryAssumption DEF MAX_STREAMS
  <2> QED BY <2>1 DEF IO_MASK_SIZE
<1>4. Word(e) \in Nat /\ Word(e) <= IO_MASK_SIZE - 1
  BY <1>2, WordsAssumption DEF Word, d
<1> QED BY <1>3, <1>4

\* set_mask puts one stream on the mask at most, and keeps all others.
LEMMA SetMaskIs ==
  ASSUME NEW m, IsMask(m), NEW e \in Int
  PROVE  /\ IsMask(SetMask(m, e))
         /\ \A st \in Streams : OnStream(SetMask(m, e), SwitchOf(st))
                                  <=> OnStream(m, SwitchOf(st)) \/ Place(st) = e
<1>1. DOMAIN m = 0 .. IO_MASK_SIZE - 1
  BY DEF IsMask
<1>2. CASE Word(e) \notin 0 .. IO_MASK_SIZE - 1
  <2>1. SetMask(m, e) = m
    BY <1>1, <1>2 DEF SetMask
  <2>2. ASSUME NEW st \in Streams PROVE Place(st) # e
    BY <1>2, PlaceOf, WordOf
  <2> QED BY <2>1, <2>2
<1>3. CASE Word(e) \in 0 .. IO_MASK_SIZE - 1
  <2>1. SetMask(m, e) = [m EXCEPT ![Word(e)] = @ \union {Bit(e)}]
    BY <1>1, <1>3 DEF SetMask
  <2>2. IsMask(SetMask(m, e))
    BY <1>1, <2>1 DEF IsMask
  <2>3. ASSUME NEW st \in Streams
        PROVE  OnStream(SetMask(m, e), SwitchOf(st)) <=> OnStream(m, SwitchOf(st)) \/ Place(st) = e
    <3>1. PICK x \in Int : x = Place(st)
      BY PlaceOf
    <3>2. Word(x) \in DOMAIN m /\ DOMAIN SetMask(m, e) = DOMAIN m
      BY <1>1, <2>1, <3>1, PlaceOf, WordOf
    <3>3. Bit(x) \in SetMask(m, e)[Word(x)] <=> Bit(x) \in m[Word(x)] \/ x = e
      <4>1. CASE Word(x) = Word(e)
        <5>1. SetMask(m, e)[Word(x)] = m[Word(x)] \union {Bit(e)}
          BY <2>1, <3>2, <4>1
        <5>2. Bit(x) = Bit(e) <=> x = e
          BY <4>1, PlacesDiffer
        <5> QED BY <5>1, <5>2
      <4>2. CASE Word(x) # Word(e)
        BY <2>1, <3>2, <4>2
      <4> QED BY <4>1, <4>2
    <3> QED BY <3>1, <3>2, <3>3 DEF OnStream, GetMask, Place
  <2> QED BY <2>2, <2>3
<1> QED BY <1>2, <1>3

\* reset_mask takes one stream away at most.
LEMMA ResetMaskIs ==
  ASSUME NEW m, IsMask(m), NEW e \in Int
  PROVE  /\ IsMask(ResetMask(m, e))
         /\ \A st \in Streams : OnStream(ResetMask(m, e), SwitchOf(st))
                                  <=> OnStream(m, SwitchOf(st)) /\ Place(st) # e
<1>1. DOMAIN m = 0 .. IO_MASK_SIZE - 1
  BY DEF IsMask
<1>2. CASE Word(e) \notin 0 .. IO_MASK_SIZE - 1
  <2>1. ResetMask(m, e) = m
    BY <1>1, <1>2 DEF ResetMask
  <2>2. ASSUME NEW st \in Streams PROVE Place(st) # e
    BY <1>2, PlaceOf, WordOf
  <2> QED BY <2>1, <2>2
<1>3. CASE Word(e) \in 0 .. IO_MASK_SIZE - 1
  <2>1. ResetMask(m, e) = [m EXCEPT ![Word(e)] = @ \ {Bit(e)}]
    BY <1>1, <1>3 DEF ResetMask
  <2>2. IsMask(ResetMask(m, e))
    BY <1>1, <2>1 DEF IsMask
  <2>3. ASSUME NEW st \in Streams
        PROVE  OnStream(ResetMask(m, e), SwitchOf(st)) <=> OnStream(m, SwitchOf(st)) /\ Place(st) # e
    <3>1. PICK x \in Int : x = Place(st)
      BY PlaceOf
    <3>2. Word(x) \in DOMAIN m /\ DOMAIN ResetMask(m, e) = DOMAIN m
      BY <1>1, <2>1, <3>1, PlaceOf, WordOf
    <3>3. Bit(x) \in ResetMask(m, e)[Word(x)] <=> Bit(x) \in m[Word(x)] /\ x # e
      <4>1. CASE Word(x) = Word(e)
        <5>1. ResetMask(m, e)[Word(x)] = m[Word(x)] \ {Bit(e)}
          BY <2>1, <3>2, <4>1
        <5>2. Bit(x) = Bit(e) <=> x = e
          BY <4>1, PlacesDiffer
        <5> QED BY <5>1, <5>2
      <4>2. CASE Word(x) # Word(e)
        BY <2>1, <3>2, <4>2
      <4> QED BY <4>1, <4>2
    <3> QED BY <3>1, <3>2, <3>3 DEF OnStream, GetMask, Place
  <2> QED BY <2>2, <2>3
<1> QED BY <1>2, <1>3

-----------------------------------------------------------------------------
(* The I/O column, character by character                                    *)

Blank == [m |-> Empty, base |-> -1, fresh |-> FALSE, restart |-> FALSE]

\* The states reg_parse.c goes through, where g[k] is the one after k characters.
Passes(g, str) ==
  /\ g[0] = Blank
  /\ \A k \in 1 .. Len(str) : g[k] = ParseChar(g[k - 1], str[k])

\* The function FoldLeft is made of: the characters of a set of places.
Over(str, it, s) == IF s = {} THEN Blank ELSE ParseChar(it[s \ {Max(s)}], str[Max(s)])
IsFold(it, str) == it = [s \in SUBSET (DOMAIN str) |-> Over(str, it, s)]

\* The largest of a set of places.
LEMMA MaxIs ==
  ASSUME NEW n \in Nat, NEW s, s \subseteq 1 .. n, s # {}
  PROVE  Max(s) \in s /\ \A y \in s : Max(s) >= y
<1> DEFINE T == {n - x : x \in s}
<1>1. T \subseteq Nat /\ T # {}
  OBVIOUS
<1>2. PICK d \in T : \A m \in T : d <= m
  BY <1>1, LeastNat
<1>3. PICK x \in s : d = n - x
  OBVIOUS
<1>4. ASSUME NEW y \in s PROVE x >= y
  <2>1. n - x <= n - y
    BY <1>2, <1>3
  <2> QED BY <2>1
<1>5. \E x1 \in s : \A y \in s : x1 >= y
  BY <1>4
<1> QED BY <1>5 DEF Max

\* The last of the first k places.
LEMMA MaxOfFirst ==
  ASSUME NEW k \in Nat \ {0}
  PROVE  Max(1 .. k) = k /\ (1 .. k) \ {k} = 1 .. k - 1
<1>1. 1 .. k # {} /\ 1 .. k \subseteq 1 .. k /\ k \in 1 .. k
  OBVIOUS
<1>2. Max(1 .. k) \in 1 .. k /\ Max(1 .. k) >= k
  BY <1>1, MaxIs
<1> QED BY <1>2

\* Such a function exists.
LEMMA FoldExists ==
  ASSUME NEW str, DOMAIN str = 1 .. Len(str), Len(str) \in Nat
  PROVE  \E it : IsFold(it, str)
<1> DEFINE S == DOMAIN str
           A(g, k) == \A s \in SUBSET S : Cardinality(s) <= k => g[s] = Over(str, g, s)
           P == {k \in Nat : \E g : A(g, k)}
<1>0. IsFiniteSet(S)
  BY FS_Interval
<1>1. \A s \in SUBSET S : IsFiniteSet(s) /\ Cardinality(s) \in Nat
  BY <1>0, FS_Subset, FS_CardinalityType
<1>2. \A s \in SUBSET S : s # {} => /\ s \ {Max(s)} \in SUBSET S
                                    /\ Cardinality(s \ {Max(s)}) = Cardinality(s) - 1
  BY <1>1, MaxIs, FS_RemoveElement
<1>3. \A s \in SUBSET S : Cardinality(s) = 0 => s = {}
  BY <1>1, FS_EmptySet
<1> HIDE DEF S
<1>4. 0 \in P
  <2> DEFINE g == [s \in SUBSET S |-> Blank]
  <2>1. A(g, 0)
    BY <1>1, <1>3 DEF Over
  <2> QED BY <2>1
<1>5. ASSUME NEW k \in Nat, k \in P PROVE k + 1 \in P
  <2>1. PICK g : A(g, k)
    BY <1>5
  <2>2. PICK h : \A s \in SUBSET S : h[s] = IF Cardinality(s) <= k THEN g[s] ELSE Over(str, g, s)
    <3> WITNESS [s \in SUBSET S |-> IF Cardinality(s) <= k THEN g[s] ELSE Over(str, g, s)]
    <3> QED OBVIOUS
  <2>3. ASSUME NEW s \in SUBSET S, Cardinality(s) <= k + 1 PROVE h[s] = Over(str, h, s)
    <3>1. h[s] = Over(str, g, s)
      BY <2>1, <2>2
    <3>2. CASE s = {}
      BY <3>1, <3>2 DEF Over
    <3>3. CASE s # {}
      <4>1. /\ s \ {Max(s)} \in SUBSET S
            /\ Cardinality(s \ {Max(s)}) <= k
        BY <1>1, <1>2, <2>3, <3>3
      <4>2. h[s \ {Max(s)}] = g[s \ {Max(s)}]
        BY <2>2, <4>1
      <4> QED BY <3>1, <3>3, <4>2 DEF Over
    <3> QED BY <3>2, <3>3
  <2>4. A(h, k + 1)
    BY <2>3
  <2> QED BY <2>4
<1>6. Cardinality(S) \in Nat
  BY <1>1
<1> HIDE DEF P
<1>7. \A k \in 0 .. Cardinality(S) : k \in P
  BY <1>4, <1>5, <1>6, UpTo
<1>8. Cardinality(S) \in P
  BY <1>6, <1>7
<1>9. PICK g : A(g, Cardinality(S))
  BY <1>8 DEF P
<1>10. \A s \in SUBSET S : g[s] = Over(str, g, s)
  BY <1>0, <1>9, FS_Subset
<1> DEFINE it == [s \in SUBSET S |-> g[s]]
<1>11. \A s \in SUBSET S : Over(str, it, s) = Over(str, g, s)
  BY <1>2 DEF Over
<1>12. it = [s \in SUBSET S |-> Over(str, it, s)]
  BY <1>10, <1>11
<1> QED BY <1>12 DEF IsFold, S

\* What FoldLeft makes of the column is the last state of such a pass.
LEMMA ParsedIs ==
  ASSUME NEW str, DOMAIN str = 1 .. Len(str), Len(str) \in Nat
  PROVE  \E g : Passes(g, str) /\ Parsed(str) = g[Len(str)]
<1> DEFINE it == CHOOSE it : IsFold(it, str)
<1>1. IsFold(it, str)
  BY FoldExists
<1>2. Parsed(str) = it[DOMAIN str]
  BY DEF Parsed, FoldLeft, MapThenFoldSet, IsFold, Over, Blank
<1> HIDE DEF it
<1>3. \A s \in SUBSET (DOMAIN str) : it[s] = Over(str, it, s)
  <2> DEFINE jt == [s \in SUBSET (DOMAIN str) |-> Over(str, it, s)]
  <2>1. it = jt /\ \A s \in SUBSET (DOMAIN str) : jt[s] = Over(str, it, s)
    BY <1>1 DEF IsFold
  <2> HIDE DEF jt
  <2> QED BY <2>1
<1> DEFINE g == [k \in 0 .. Len(str) |-> it[1 .. k]]
<1>4. g[0] = Blank
  <2>1. 1 .. 0 = {} /\ 0 \in 0 .. Len(str)
    OBVIOUS
  <2> QED BY <1>3, <2>1 DEF Over
<1>5. ASSUME NEW k \in 1 .. Len(str) PROVE g[k] = ParseChar(g[k - 1], str[k])
  <2>1. /\ k \in 0 .. Len(str) /\ k - 1 \in 0 .. Len(str) /\ k \in Nat \ {0}
        /\ 1 .. k \in SUBSET (DOMAIN str) /\ 1 .. k # {}
    OBVIOUS
  <2>2. Max(1 .. k) = k /\ (1 .. k) \ {k} = 1 .. k - 1
    BY <2>1, MaxOfFirst
  <2>3. it[1 .. k] = ParseChar(it[1 .. k - 1], str[k])
    BY <1>3, <2>1, <2>2 DEF Over
  <2> QED BY <2>1, <2>3
<1>6. g[Len(str)] = it[DOMAIN str]
  OBVIOUS
<1> HIDE DEF g
<1> QED BY <1>2, <1>4, <1>5, <1>6 DEF Passes

-----------------------------------------------------------------------------
(* What a column asks for, as far as it has been read                        *)

\* StringsAssumption for one column.
Letters(str) ==
  /\ DOMAIN str = 1 .. Len(str) /\ Len(str) \in Nat
  /\ \A k \in 1 .. Len(str) :
       /\ IsNumber(str[k]) => str[k].n \in 0 .. MaxHistory - 1
       /\ \A l \in 1 .. k - 1 : str[k].c \in {"h", "i"} => str[l].c # str[k].c

\* The letter at place l, with the numbers after it up to place k, asks for st.
Names(str, l, k, st) ==
  /\ str[l].c = st[1]
  /\ IF l < k /\ IsNumber(str[l + 1])
     THEN \E j \in l + 1 .. k : str[j].n = st[2] /\ \A i \in l + 1 .. j : IsNumber(str[i])
     ELSE st[2] = 0

AskTo(str, k) == {st \in Streams : \E l \in 1 .. k : Names(str, l, k, st)}

\* A number at place k + 1 belongs to the letter at place l.
OpenAt(str, l, k) == str[l].c \in Kinds /\ \A i \in l + 1 .. k : IsNumber(str[i])

BaseOf(c) == IF c = "h" THEN HISTORY_STREAM ELSE INPUT_STREAM

Sound(str, k, m, b, f) ==
  /\ IsMask(m) /\ f \in BOOLEAN
  /\ b = -1 => \A l \in 1 .. k : ~OpenAt(str, l, k)
  /\ b # -1 => \E l \in 1 .. k : OpenAt(str, l, k) /\ b = BaseOf(str[l].c) /\ (f <=> l = k)
  /\ StreamsOf(m) = AskTo(str, k)

SoundState(str, k, s) ==
  \E m, b, f, r : /\ s = [m |-> m, base |-> b, fresh |-> f, restart |-> r]
                  /\ Sound(str, k, m, b, f)

\* A character that is no number, or not of this letter, changes nothing for it.
LEMMA NamesKept ==
  ASSUME NEW str, NEW k \in Nat, NEW l \in 1 .. k, NEW st,
         \/ ~IsNumber(str[k + 1])
         \/ \E i \in l + 1 .. k : ~IsNumber(str[i])
  PROVE  Names(str, l, k + 1, st) <=> Names(str, l, k, st)
<1>1. CASE l < k
  <2>1. ASSUME NEW j \in l + 1 .. k + 1, \A i \in l + 1 .. j : IsNumber(str[i])
        PROVE  j \in l + 1 .. k
    <3> SUFFICES ASSUME j = k + 1 PROVE FALSE
      OBVIOUS
    <3>1. \A i \in l + 1 .. k + 1 : IsNumber(str[i])
      BY <2>1
    <3>2. k + 1 \in l + 1 .. k + 1 /\ l + 1 .. k \subseteq l + 1 .. k + 1
      OBVIOUS
    <3> QED BY <3>1, <3>2
  <2>2. l < k + 1 /\ l + 1 .. k \subseteq l + 1 .. k + 1
    BY <1>1
  <2>3. (\E j \in l + 1 .. k + 1 : str[j].n = st[2] /\ \A i \in l + 1 .. j : IsNumber(str[i]))
          <=> \E j \in l + 1 .. k : str[j].n = st[2] /\ \A i \in l + 1 .. j : IsNumber(str[i])
    BY <2>1, <2>2
  <2> QED BY <1>1, <2>2, <2>3 DEF Names
<1>2. CASE l = k
  <2>1. ~IsNumber(str[l + 1]) /\ ~(l < k)
    BY <1>2
  <2> QED BY <2>1 DEF Names
<1> QED BY <1>1, <1>2

\* A letter begins with its stream 0.
LEMMA NamesNew ==
  ASSUME NEW str, NEW k \in Nat, NEW st
  PROVE  Names(str, k, k, st) <=> str[k].c = st[1] /\ st[2] = 0
<1>1. ~(k < k)
  OBVIOUS
<1> QED BY <1>1 DEF Names

\* A number of a letter adds its stream; the first one takes stream 0 away.
LEMMA NamesMore ==
  ASSUME NEW str, NEW k \in Nat, NEW l \in 1 .. k, NEW st,
         IsNumber(str[k + 1]), OpenAt(str, l, k)
  PROVE  Names(str, l, k + 1, st)
           <=> \/ l < k /\ Names(str, l, k, st)
               \/ str[l].c = st[1] /\ str[k + 1].n = st[2]
<1>1. \A i \in l + 1 .. k + 1 : IsNumber(str[i])
  <2>1. \A i \in l + 1 .. k + 1 : i \in l + 1 .. k \/ i = k + 1
    OBVIOUS
  <2> QED BY <2>1 DEF OpenAt
<1>2. l < k + 1 /\ l + 1 \in l + 1 .. k + 1
  OBVIOUS
<1>3. Names(str, l, k + 1, st) <=> str[l].c = st[1] /\ \E j \in l + 1 .. k + 1 : str[j].n = st[2]
  <2>1. \A j \in l + 1 .. k + 1 : \A i \in l + 1 .. j : i \in l + 1 .. k + 1
    OBVIOUS
  <2>2. (\E j \in l + 1 .. k + 1 : str[j].n = st[2] /\ \A i \in l + 1 .. j : IsNumber(str[i]))
          <=> \E j \in l + 1 .. k + 1 : str[j].n = st[2]
    BY <1>1, <2>1
  <2>3. IsNumber(str[l + 1])
    BY <1>1, <1>2
  <2> QED BY <1>2, <2>2, <2>3 DEF Names
<1>4. CASE l < k
  <2>1. \A j \in l + 1 .. k : j \in l + 1 .. k + 1 /\ \A i \in l + 1 .. j : i \in l + 1 .. k + 1
    OBVIOUS
  <2>2. (\E j \in l + 1 .. k : str[j].n = st[2] /\ \A i \in l + 1 .. j : IsNumber(str[i]))
          <=> \E j \in l + 1 .. k : str[j].n = st[2]
    BY <1>1, <2>1
  <2>3. IsNumber(str[l + 1])
    BY <1>1, <1>2
  <2>4. Names(str, l, k, st) <=> str[l].c = st[1] /\ \E j \in l + 1 .. k : str[j].n = st[2]
    BY <1>4, <2>2, <2>3 DEF Names
  <2>5. (\E j \in l + 1 .. k + 1 : str[j].n = st[2])
          <=> (\E j \in l + 1 .. k : str[j].n = st[2]) \/ str[k + 1].n = st[2]
    <3>1. \A j \in l + 1 .. k + 1 : j \in l + 1 .. k \/ j = k + 1
      OBVIOUS
    <3>2. k + 1 \in l + 1 .. k + 1 /\ l + 1 .. k \subseteq l + 1 .. k + 1
      OBVIOUS
    <3> QED BY <3>1, <3>2
  <2> QED BY <1>3, <1>4, <2>4, <2>5
<1>5. CASE l = k
  <2>1. \A j \in l + 1 .. k + 1 : j = k + 1
    BY <1>5
  <2>2. k + 1 \in l + 1 .. k + 1 /\ ~(l < k)
    BY <1>5
  <2> QED BY <1>3, <2>1, <2>2
<1> QED BY <1>4, <1>5

\* The stream a mask bit stands for.
LEMMA PlaceIs ==
  ASSUME NEW c \in Kinds, NEW n \in 0 .. MaxHistory - 1, NEW st \in Streams,
         NEW p, p = BaseOf(c) + n
  PROVE  Place(st) = p <=> st[1] = c /\ st[2] = n
<1> DEFINE u == <<c, n>>
<1>1. u \in Streams /\ u[1] = c /\ u[2] = n
  BY DEF Streams
<1>2. Place(u) = BaseOf(c) + n
  BY <1>1, PlaceOf DEF BaseOf
<1>3. st = u <=> st[1] = c /\ st[2] = n
  BY DEF Streams
<1> HIDE DEF u
<1>4. Place(st) = Place(u) <=> st = u
  BY <1>1, PlacesOfStreams
<1> QED BY <1>1, <1>2, <1>3, <1>4 DEF u

\* The number of stream 0 of a kind.
LEMMA BaseIs ==
  ASSUME NEW c \in Kinds
  PROVE  BaseOf(c) \in Nat
BY HistoryAssumption DEF BaseOf, HISTORY_STREAM, INPUT_STREAM

\* A character that asks for nothing: no number of an open letter, no h and no i.
LEMMA AskToKept ==
  ASSUME NEW str, NEW k \in Nat,
         str[k + 1].c \notin Kinds,
         \/ ~IsNumber(str[k + 1])
         \/ \A l \in 1 .. k : ~OpenAt(str, l, k)
  PROVE  AskTo(str, k + 1) = AskTo(str, k)
<1>1. ASSUME NEW st \in Streams
      PROVE  (\E l \in 1 .. k + 1 : Names(str, l, k + 1, st)) <=> \E l \in 1 .. k : Names(str, l, k, st)
  <2>1. ~Names(str, k + 1, k + 1, st)
    BY DEF Names, Streams
  <2>2. ASSUME NEW l \in 1 .. k PROVE Names(str, l, k + 1, st) <=> Names(str, l, k, st)
    <3>1. CASE str[l].c \notin Kinds
      BY <3>1 DEF Names, Streams
    <3>2. CASE str[l].c \in Kinds
      <4>1. ~IsNumber(str[k + 1]) \/ \E i \in l + 1 .. k : ~IsNumber(str[i])
        BY <3>2 DEF OpenAt
      <4> QED BY <4>1, NamesKept
    <3> QED BY <3>1, <3>2
  <2>3. \A l \in 1 .. k + 1 : l \in 1 .. k \/ l = k + 1
    OBVIOUS
  <2>4. \A l \in 1 .. k : l \in 1 .. k + 1
    OBVIOUS
  <2> QED BY <2>1, <2>2, <2>3, <2>4
<1> QED BY <1>1 DEF AskTo

\* A letter h or i asks for its stream 0.
LEMMA AskToLetter ==
  ASSUME NEW str, NEW k \in Nat, str[k + 1].c \in Kinds,
         NEW st \in Streams
  PROVE  st \in AskTo(str, k + 1) <=> st \in AskTo(str, k) \/ (st[1] = str[k + 1].c /\ st[2] = 0)
<1>1. ~IsNumber(str[k + 1])
  BY DEF IsNumber, Kinds
<1>2. \A l \in 1 .. k : Names(str, l, k + 1, st) <=> Names(str, l, k, st)
  BY <1>1, NamesKept
<1>3. Names(str, k + 1, k + 1, st) <=> str[k + 1].c = st[1] /\ st[2] = 0
  BY NamesNew
<1>4. \A l \in 1 .. k + 1 : l \in 1 .. k \/ l = k + 1
  OBVIOUS
<1>5. k + 1 \in 1 .. k + 1 /\ \A l \in 1 .. k : l \in 1 .. k + 1
  OBVIOUS
<1>6. (\E l \in 1 .. k + 1 : Names(str, l, k + 1, st))
        <=> (\E l \in 1 .. k : Names(str, l, k, st)) \/ (st[1] = str[k + 1].c /\ st[2] = 0)
  BY <1>2, <1>3, <1>4, <1>5
<1> QED BY <1>6 DEF AskTo

\* A number of the letter at place l.
LEMMA AskToNumber ==
  ASSUME NEW str, Letters(str), NEW k \in Nat, k + 1 \in 1 .. Len(str),
         IsNumber(str[k + 1]), NEW l \in 1 .. k, OpenAt(str, l, k), NEW st \in Streams
  PROVE  st \in AskTo(str, k + 1)
           <=> \/ st \in AskTo(str, k) /\ ~(l = k /\ st[1] = str[l].c /\ st[2] = 0)
               \/ st[1] = str[l].c /\ st[2] = str[k + 1].n
<1>1. str[l].c \in Kinds /\ ~IsNumber(str[l]) /\ str[k + 1].c \notin Kinds
  BY DEF OpenAt, IsNumber, Kinds
<1>2. ~Names(str, k + 1, k + 1, st)
  BY <1>1 DEF Names, Streams
<1>3. ASSUME NEW i \in 1 .. k, i # l PROVE Names(str, i, k + 1, st) <=> Names(str, i, k, st)
  <2>1. CASE i < l
    <3>1. l \in i + 1 .. k
      BY <2>1
    <3> QED BY <1>1, <3>1, NamesKept
  <2>2. CASE l < i
    <3>1. i \in l + 1 .. k
      BY <2>2
    <3>2. str[i].c \notin Kinds
      BY <3>1 DEF OpenAt, IsNumber, Kinds
    <3> QED BY <3>2 DEF Names, Streams
  <2> QED BY <1>3, <2>1, <2>2
<1>4. Names(str, l, k + 1, st)
        <=> (l < k /\ Names(str, l, k, st)) \/ (str[l].c = st[1] /\ str[k + 1].n = st[2])
  BY NamesMore
<1>5. \A i \in 1 .. k + 1 : i \in 1 .. k \/ i = k + 1
  OBVIOUS
<1>6. \A i \in 1 .. k : i \in 1 .. k + 1
  OBVIOUS
<1>7. (\E i \in 1 .. k + 1 : Names(str, i, k + 1, st))
        <=> \/ \E i \in 1 .. k : i # l /\ Names(str, i, k, st)
            \/ l < k /\ Names(str, l, k, st)
            \/ str[l].c = st[1] /\ str[k + 1].n = st[2]
  BY <1>2, <1>3, <1>4, <1>5, <1>6
<1>8. CASE l < k
  <2>1. l # k
    BY <1>8
  <2>2. (\E i \in 1 .. k : i # l /\ Names(str, i, k, st)) \/ Names(str, l, k, st)
          <=> \E i \in 1 .. k : Names(str, i, k, st)
    OBVIOUS
  <2> QED BY <1>7, <1>8, <2>1, <2>2 DEF AskTo
<1>9. CASE l = k
  <2>1. ~(l < k) /\ (Names(str, l, k, st) <=> str[l].c = st[1] /\ st[2] = 0)
    BY <1>9, NamesNew
  <2>2. ASSUME NEW i \in 1 .. k, i # l PROVE str[i].c # str[l].c
    <3>1. i \in 1 .. l - 1 /\ l \in 1 .. Len(str)
      BY <1>9, <2>2 DEF Letters
    <3> QED BY <1>1, <3>1 DEF Letters, Kinds
  <2>3. (\E i \in 1 .. k : i # l /\ Names(str, i, k, st))
          <=> (\E i \in 1 .. k : Names(str, i, k, st)) /\ ~(st[1] = str[l].c /\ st[2] = 0)
    <3>1. ASSUME NEW i \in 1 .. k, i # l, Names(str, i, k, st) PROVE st[1] # str[l].c
      BY <2>2, <3>1 DEF Names
    <3> QED BY <2>1, <3>1
  <2> QED BY <1>7, <1>9, <2>1, <2>3 DEF AskTo
<1> QED BY <1>8, <1>9

\* The bits of restart and boundary are of no history and no input stream.
LEMMA OtherBits ==
  ASSUME NEW m, IsMask(m), NEW e \in {RESTART_STREAM, BOUNDARY_STREAM}
  PROVE  IsMask(SetMask(m, e)) /\ StreamsOf(SetMask(m, e)) = StreamsOf(m)
<1>1. e \in Int /\ \A st \in Streams : Place(st) # e
  BY PlaceOf, HistoryAssumption DEF RESTART_STREAM, BOUNDARY_STREAM
<1> QED BY <1>1, SetMaskIs DEF StreamsOf

\* The next character.
LEMMA SoundStep ==
  ASSUME NEW str, Letters(str), NEW k \in Nat, k + 1 \in 1 .. Len(str),
         NEW s, SoundState(str, k, s)
  PROVE  SoundState(str, k + 1, ParseChar(s, str[k + 1]))
<1>1. PICK m, b, f, r : /\ s = [m |-> m, base |-> b, fresh |-> f, restart |-> r]
                        /\ Sound(str, k, m, b, f)
  BY DEF SoundState
<1>2. PICK c : c = str[k + 1]
  OBVIOUS
<1>3. PICK t : t = ParseChar(s, c)
  OBVIOUS
<1>4. s.m = m /\ s.base = b /\ s.fresh = f /\ s.restart = r
  BY <1>1
<1>5. SUFFICES \E m1, b1, f1, r1 : /\ t = [m |-> m1, base |-> b1, fresh |-> f1, restart |-> r1]
                                   /\ Sound(str, k + 1, m1, b1, f1)
  BY <1>2, <1>3 DEF SoundState
<1>6. /\ IsMask(m) /\ f \in BOOLEAN /\ StreamsOf(m) = AskTo(str, k)
      /\ b = -1 => \A l \in 1 .. k : ~OpenAt(str, l, k)
      /\ b # -1 => \E l \in 1 .. k : OpenAt(str, l, k) /\ b = BaseOf(str[l].c) /\ (f <=> l = k)
  BY <1>1 DEF Sound
<1>7. \A l \in 1 .. k + 1 : l \in 1 .. k \/ l = k + 1
  OBVIOUS
<1>8. k + 1 \in 1 .. k + 1 /\ k + 1 + 1 .. k + 1 = {} /\ \A l \in 1 .. k : k + 1 \in l + 1 .. k + 1
  OBVIOUS
<1>9. CASE IsNumber(c) /\ b = -1
  <2>1. t = [m |-> m, base |-> b, fresh |-> f, restart |-> r]
    BY <1>1, <1>3, <1>4, <1>9 DEF ParseChar
  <2>2. str[k + 1].c \notin Kinds
    BY <1>2, <1>9 DEF IsNumber, Kinds
  <2>3. AskTo(str, k + 1) = AskTo(str, k)
    BY <1>6, <1>9, <2>2, AskToKept
  <2>4. ASSUME NEW l \in 1 .. k + 1 PROVE ~OpenAt(str, l, k + 1)
    <3>1. CASE l \in 1 .. k
      <4>1. ~OpenAt(str, l, k) /\ l + 1 .. k \subseteq l + 1 .. k + 1
        BY <1>6, <1>9, <3>1
      <4> QED BY <4>1 DEF OpenAt
    <3>2. CASE l = k + 1
      BY <2>2, <3>2 DEF OpenAt
    <3> QED BY <1>7, <3>1, <3>2
  <2>5. Sound(str, k + 1, m, b, f)
    BY <1>6, <1>9, <2>3, <2>4 DEF Sound
  <2> QED BY <2>1, <2>5
<1>10. CASE IsNumber(c) /\ b # -1
  <2>1. PICK l \in 1 .. k : OpenAt(str, l, k) /\ b = BaseOf(str[l].c) /\ (f <=> l = k)
    BY <1>6, <1>10
  <2>2. PICK n \in 0 .. MaxHistory - 1 : n = c.n
    BY <1>2, <1>10 DEF Letters
  <2>3. PICK x \in Kinds : x = str[l].c
    BY <2>1 DEF OpenAt
  <2>4. b \in Nat /\ b + n \in Int
    BY <2>1, <2>3, BaseIs, HistoryAssumption
  <2> DEFINE m0 == IF f THEN ResetMask(m, b) ELSE m
             m1 == SetMask(m0, b + n)
  <2>5. t = [m |-> m1, base |-> b, fresh |-> FALSE, restart |-> r]
    BY <1>1, <1>3, <1>4, <1>10, <2>2 DEF ParseChar
  <2>6. IsMask(m0) /\ \A st \in Streams : OnStream(m0, SwitchOf(st))
                                            <=> OnStream(m, SwitchOf(st)) /\ ~(f /\ Place(st) = b)
    BY <1>6, <2>4, ResetMaskIs
  <2> HIDE DEF m0
  <2>7. IsMask(m1) /\ \A st \in Streams : OnStream(m1, SwitchOf(st))
                                            <=> OnStream(m0, SwitchOf(st)) \/ Place(st) = b + n
    BY <2>4, <2>6, SetMaskIs
  <2> HIDE DEF m1
  <2>8. ASSUME NEW st \in Streams PROVE st \in StreamsOf(m1) <=> st \in AskTo(str, k + 1)
    <3>0. b = BaseOf(x)
      BY <2>1, <2>3
    <3>1. Place(st) = b + n <=> st[1] = x /\ st[2] = n
      <4>1. PICK p : p = BaseOf(x) + n
        OBVIOUS
      <4>2. Place(st) = p <=> st[1] = x /\ st[2] = n
        BY <4>1, PlaceIs
      <4> QED BY <3>0, <4>1, <4>2
    <3>2. Place(st) = b <=> st[1] = x /\ st[2] = 0
      <4>1. 0 \in 0 .. MaxHistory - 1 /\ b = BaseOf(x) + 0
        BY <2>4, <3>0, HistoryAssumption
      <4> QED BY <4>1, PlaceIs
    <3>3. st \in AskTo(str, k + 1) <=> \/ st \in AskTo(str, k) /\ ~(l = k /\ st[1] = x /\ st[2] = 0)
                                       \/ st[1] = x /\ st[2] = n
      BY <1>2, <1>10, <2>1, <2>2, <2>3, AskToNumber
    <3>4. st \in StreamsOf(m) <=> st \in AskTo(str, k)
      BY <1>6
    <3> QED BY <2>1, <2>6, <2>7, <3>1, <3>2, <3>3, <3>4 DEF StreamsOf
  <2>9. StreamsOf(m1) = AskTo(str, k + 1)
    BY <2>8 DEF StreamsOf, AskTo
  <2>10. OpenAt(str, l, k + 1)
    <3>1. \A i \in l + 1 .. k + 1 : i \in l + 1 .. k \/ i = k + 1
      OBVIOUS
    <3> QED BY <1>2, <1>10, <2>1, <3>1 DEF OpenAt
  <2>11. l \in 1 .. k + 1 /\ l # k + 1
    OBVIOUS
  <2>12. Sound(str, k + 1, m1, b, FALSE)
    BY <1>10, <2>1, <2>7, <2>9, <2>10, <2>11 DEF Sound
  <2> QED BY <2>5, <2>12
<1>11. CASE c.c \in Kinds
  <2>1. PICK x \in Kinds : x = c.c /\ x = str[k + 1].c
    BY <1>2, <1>11
  <2>2. PICK b1 \in Nat : b1 = BaseOf(x)
    BY BaseIs
  <2> DEFINE m1 == SetMask(m, b1)
  <2>3. t = [m |-> m1, base |-> b1, fresh |-> TRUE, restart |-> r]
    BY <1>3, <1>4, <2>1, <2>2 DEF ParseChar, IsNumber, Kinds, BaseOf
  <2>4. IsMask(m1) /\ \A st \in Streams : OnStream(m1, SwitchOf(st))
                                            <=> OnStream(m, SwitchOf(st)) \/ Place(st) = b1
    BY <1>6, SetMaskIs
  <2> HIDE DEF m1
  <2>5. ASSUME NEW st \in Streams PROVE st \in StreamsOf(m1) <=> st \in AskTo(str, k + 1)
    <3>1. 0 \in 0 .. MaxHistory - 1 /\ b1 = BaseOf(x) + 0
      BY <2>2, HistoryAssumption
    <3>2. Place(st) = b1 <=> st[1] = x /\ st[2] = 0
      BY <3>1, PlaceIs
    <3>3. st \in AskTo(str, k + 1) <=> st \in AskTo(str, k) \/ (st[1] = x /\ st[2] = 0)
      BY <2>1, AskToLetter
    <3> QED BY <1>6, <2>2, <2>4, <3>1, <3>2, <3>3 DEF StreamsOf
  <2>6. StreamsOf(m1) = AskTo(str, k + 1)
    BY <2>5 DEF StreamsOf, AskTo
  <2>7. OpenAt(str, k + 1, k + 1)
    BY <1>8, <2>1 DEF OpenAt
  <2>8. b1 # -1
    OBVIOUS
  <2>9. Sound(str, k + 1, m1, b1, TRUE)
    BY <1>8, <2>1, <2>2, <2>4, <2>6, <2>7, <2>8 DEF Sound
  <2> QED BY <2>3, <2>9
<1>12. CASE ~IsNumber(c) /\ c.c \notin Kinds
  <2> DEFINE m1 == IF c.c = "r" THEN SetMask(m, RESTART_STREAM)
                   ELSE IF c.c = "b" THEN SetMask(m, BOUNDARY_STREAM) ELSE m
  <2>0. PICK d : d = -1
    OBVIOUS
  <2>1. /\ t = [m |-> m1, base |-> d, fresh |-> t.fresh, restart |-> t.restart]
        /\ t.fresh \in BOOLEAN
    <3>1. CASE c.c = "r"
      <4>1. t = [m |-> m1, base |-> d, fresh |-> FALSE, restart |-> TRUE]
        BY <2>0, <1>3, <1>4, <1>12, <3>1 DEF ParseChar, Kinds
      <4> QED BY <4>1
    <3>2. CASE c.c # "r"
      <4>1. t = [m |-> m1, base |-> d, fresh |-> f, restart |-> r]
        BY <2>0, <1>1, <1>3, <1>4, <1>12, <3>2 DEF ParseChar, Kinds
      <4> QED BY <1>6, <4>1
    <3> QED BY <3>1, <3>2
  <2>2. IsMask(m1) /\ StreamsOf(m1) = StreamsOf(m)
    BY <1>6, OtherBits
  <2> HIDE DEF m1
  <2>4. AskTo(str, k + 1) = AskTo(str, k)
    BY <1>2, <1>12, AskToKept
  <2>5. ASSUME NEW l \in 1 .. k + 1 PROVE ~OpenAt(str, l, k + 1)
    BY <1>2, <1>7, <1>8, <1>12 DEF OpenAt
  <2>6. Sound(str, k + 1, m1, d, t.fresh)
    BY <1>6, <2>0, <2>1, <2>2, <2>4, <2>5 DEF Sound
  <2> QED BY <2>1, <2>6
<1> QED BY <1>9, <1>10, <1>11, <1>12

\* Read to its end, a column asks for what it says.
LEMMA AskToAll ==
  ASSUME NEW str, Letters(str)
  PROVE  AskTo(str, Len(str)) = AskedByRegistry(str)
<1> DEFINE n == Len(str)
<1>1. n \in Nat /\ DOMAIN str = 1 .. n
  BY DEF Letters
<1> HIDE DEF n
<1>2. ASSUME NEW l \in 1 .. n
      PROVE  Run(str, l) = {} <=> ~(l < n /\ IsNumber(str[l + 1]))
  <2>1. CASE l < n /\ IsNumber(str[l + 1])
    <3>1. l + 1 \in l + 1 .. n /\ \A i \in l + 1 .. l + 1 : i = l + 1
      BY <1>1, <2>1
    <3>2. l + 1 \in Run(str, l)
      BY <2>1, <3>1 DEF Run, n
    <3> QED BY <2>1, <3>2
  <2>2. CASE ~(l < n /\ IsNumber(str[l + 1]))
    <3>1. ASSUME NEW j \in Run(str, l) PROVE FALSE
      <4>1. j \in l + 1 .. n /\ \A i \in l + 1 .. j : IsNumber(str[i])
        BY <3>1 DEF Run, n
      <4>2. l < n /\ l + 1 \in l + 1 .. j
        BY <1>1, <4>1
      <4> QED BY <2>2, <4>1, <4>2
    <3> QED BY <2>2, <3>1
  <2> QED BY <2>1, <2>2
<1>3. ASSUME NEW l \in 1 .. n, NEW st, str[l].c = st[1], st = <<st[1], st[2]>>
      PROVE  Names(str, l, n, st)
               <=> st \in (IF Run(str, l) = {} THEN {<<str[l].c, 0>>}
                           ELSE {<<str[l].c, str[j].n>> : j \in Run(str, l)})
  <2>1. CASE Run(str, l) = {}
    BY <1>2, <1>3, <2>1 DEF Names
  <2>2. CASE Run(str, l) # {}
    <3>1. Names(str, l, n, st) <=> \E j \in Run(str, l) : str[j].n = st[2]
      BY <1>2, <1>3, <2>2 DEF Names, Run, n
    <3>2. ASSUME NEW j PROVE st = <<str[l].c, str[j].n>> <=> str[j].n = st[2]
      BY <1>3
    <3>3. st \in {<<str[l].c, str[j].n>> : j \in Run(str, l)} <=> \E j \in Run(str, l) : str[j].n = st[2]
      BY <3>2
    <3> QED BY <2>2, <3>1, <3>3
  <2> QED BY <2>1, <2>2
<1>4. ASSUME NEW st \in AskTo(str, n) PROVE st \in AskedByRegistry(str)
  <2>1. PICK l \in 1 .. n : Names(str, l, n, st)
    BY <1>4 DEF AskTo
  <2>2. str[l].c = st[1] /\ st = <<st[1], st[2]>> /\ st[1] \in Kinds
    BY <1>4, <2>1 DEF AskTo, Streams, Names
  <2>3. l \in {i \in DOMAIN str : str[i].c \in Kinds}
    BY <1>1, <2>2
  <2>4. st \in (IF Run(str, l) = {} THEN {<<str[l].c, 0>>}
                ELSE {<<str[l].c, str[j].n>> : j \in Run(str, l)})
    BY <1>3, <2>1, <2>2
  <2> QED BY <2>3, <2>4 DEF AskedByRegistry
<1>5. ASSUME NEW st \in AskedByRegistry(str) PROVE st \in AskTo(str, n)
  <2>1. PICK l \in {i \in DOMAIN str : str[i].c \in Kinds} :
               st \in (IF Run(str, l) = {} THEN {<<str[l].c, 0>>}
                       ELSE {<<str[l].c, str[j].n>> : j \in Run(str, l)})
    BY <1>5 DEF AskedByRegistry
  <2>2. l \in 1 .. n /\ str[l].c \in Kinds
    BY <1>1, <2>1
  <2>3. PICK i \in 0 .. MaxHistory - 1 : st = <<str[l].c, i>>
    <3>1. CASE Run(str, l) = {}
      <4>1. 0 \in 0 .. MaxHistory - 1
        BY HistoryAssumption
      <4> QED BY <2>1, <3>1, <4>1
    <3>2. CASE Run(str, l) # {}
      <4>1. PICK j \in Run(str, l) : st = <<str[l].c, str[j].n>>
        BY <2>1, <3>2
      <4>2. j \in l + 1 .. n /\ j \in l + 1 .. j /\ \A k \in l + 1 .. j : IsNumber(str[k])
        BY <1>1, <2>2 DEF Run, n
      <4>3. j \in 1 .. n /\ IsNumber(str[j])
        BY <1>1, <2>2, <4>2
      <4> QED BY <4>1, <4>3 DEF Letters, n
    <3> QED BY <3>1, <3>2
  <2>4. st \in Streams /\ str[l].c = st[1] /\ st = <<st[1], st[2]>>
    BY <2>2, <2>3 DEF Streams
  <2>5. Names(str, l, n, st)
    BY <1>3, <2>1, <2>2, <2>4
  <2> QED BY <2>2, <2>4, <2>5 DEF AskTo
<1> QED BY <1>4, <1>5 DEF n

\* The Registry's entry: reg_parse.c sets the bits of the streams that the
\* column names, and no others.
LEMMA GeneratedIsAsked ==
  ASSUME NEW str \in IoStrings
  PROVE  IsMask(Generated(str)) /\ StreamsOf(Generated(str)) = AskedByRegistry(str)
<1>1. Letters(str)
  BY StringsAssumption DEF Letters
<1>2. DOMAIN str = 1 .. Len(str) /\ Len(str) \in Nat
  BY <1>1 DEF Letters
<1>3. PICK g : Passes(g, str) /\ Parsed(str) = g[Len(str)]
  BY <1>2, ParsedIs
<1> DEFINE n == Len(str)
           P == {k \in Nat : SoundState(str, k, g[k])}
<1>4. 0 \in P
  <2>1. g[0] = Blank
    BY <1>3 DEF Passes
  <2>2. IsMask(Empty) /\ StreamsOf(Empty) = {}
    <3>1. IsMask(Empty)
      BY DEF IsMask, Empty
    <3>2. ASSUME NEW st \in Streams PROVE ~OnStream(Empty, SwitchOf(st))
      BY DEF OnStream, GetMask, Empty
    <3> QED BY <3>1, <3>2 DEF StreamsOf
  <2>3. 1 .. 0 = {}
    OBVIOUS
  <2>4. AskTo(str, 0) = {}
    BY <2>3 DEF AskTo
  <2>5. PICK d : d = -1
    OBVIOUS
  <2>6. Sound(str, 0, Empty, d, FALSE)
    BY <2>2, <2>3, <2>4, <2>5 DEF Sound
  <2>7. g[0] = [m |-> Empty, base |-> d, fresh |-> FALSE, restart |-> FALSE]
    BY <2>1, <2>5 DEF Blank
  <2> QED BY <2>6, <2>7 DEF SoundState
<1>5. ASSUME NEW k \in 0 .. n - 1, k \in P PROVE k + 1 \in P
  <2>1. k \in Nat /\ k + 1 \in 1 .. Len(str) /\ k + 1 - 1 = k /\ k + 1 \in Nat
    BY <1>2
  <2>2. g[k + 1] = ParseChar(g[k], str[k + 1])
    BY <1>3, <2>1 DEF Passes
  <2>3. SoundState(str, k, g[k])
    BY <1>5
  <2> HIDE DEF P
  <2>4. SoundState(str, k + 1, ParseChar(g[k], str[k + 1]))
    BY <1>1, <2>1, <2>3, SoundStep
  <2> QED BY <2>1, <2>2, <2>4 DEF P
<1>6. n \in P
  <2> HIDE DEF P
  <2>1. \A k \in 0 .. n : k \in P
    BY <1>2, <1>4, <1>5, UpTo
  <2> QED BY <1>2, <2>1
<1>7. PICK m, b, f, r : /\ Parsed(str) = [m |-> m, base |-> b, fresh |-> f, restart |-> r]
                        /\ Sound(str, Len(str), m, b, f)
  BY <1>3, <1>6 DEF SoundState
<1>8. Generated(str) = m
  BY <1>7 DEF Generated
<1> QED BY <1>1, <1>7, <1>8, AskToAll DEF Sound

-----------------------------------------------------------------------------
(* The lines of the file                                                     *)

PlainRun == \A f \in MayBeRead : Plain(f)
Wants == [Fields -> SUBSET Streams]

\* The streams of the monitor's masks are the streams asked for, before a file is
\* read; then those that its lines so far ask for, or one of these has an error
\* that is going to be fatal.
Agreed == \A f \in Fields : StreamsOf(mask[Monitor][f]) = want[f]
AgreedSoFar ==
  /\ pos <= Len(file.lines)
  /\ \/ \A f \in Fields : StreamsOf(mask[Monitor][f]) = Asked(want, file.lines, pos)[f]
     \/ warned /\ ~setup.ignore

AskedInv ==
  /\ setup \in Setups /\ file \in setup.files /\ pos \in Nat
  /\ want \in Wants
  /\ \A f \in Fields : IsMask(mask[Monitor][f])
  /\ PlainRun => /\ pc[Monitor] \in {"run", "select"} => Agreed
                 /\ pc[Monitor] = "read" => AgreedSoFar

\* A mask stays one, whatever a line does to it.
LEMMA EditKeepsMask ==
  ASSUME NEW m, IsMask(m), NEW op, NEW e
  PROVE  IsMask(EditMask(m, op, e))
BY DEF IsMask, EditMask, SetMask, ResetMask

Edited(w, op, st) ==
  IF op = "+" THEN w \union ({st} \intersect Streams) ELSE IF op = "-" THEN w \ {st} ELSE w

\* A line with a stream sets or resets the bit of this stream.
LEMMA EditIs ==
  ASSUME NEW m, IsMask(m), NEW op, NEW c \in Kinds, NEW n \in 0 .. MaxHistory - 1,
         NEW e, e = BaseOf(c) + n
  PROVE  StreamsOf(EditMask(m, op, e)) = Edited(StreamsOf(m), op, <<c, n>>)
<1>1. e \in Int
  BY BaseIs, HistoryAssumption
<1>2. ASSUME NEW st \in Streams PROVE Place(st) = e <=> st = <<c, n>>
  <2>1. Place(st) = e <=> st[1] = c /\ st[2] = n
    BY PlaceIs
  <2> QED BY <2>1 DEF Streams
<1>3. CASE op = "+"
  <2>1. EditMask(m, op, e) = SetMask(m, e)
    BY <1>3 DEF EditMask
  <2>2. \A st \in Streams : OnStream(SetMask(m, e), SwitchOf(st)) <=> OnStream(m, SwitchOf(st)) \/ st = <<c, n>>
    BY <1>1, <1>2, SetMaskIs
  <2> QED BY <1>3, <2>1, <2>2 DEF StreamsOf, Edited
<1>4. CASE op = "-"
  <2>1. EditMask(m, op, e) = ResetMask(m, e)
    BY <1>4 DEF EditMask
  <2>2. \A st \in Streams : OnStream(ResetMask(m, e), SwitchOf(st)) <=> OnStream(m, SwitchOf(st)) /\ st # <<c, n>>
    BY <1>1, <1>2, ResetMaskIs
  <2> QED BY <1>4, <2>1, <2>2 DEF StreamsOf, Edited
<1>5. CASE op \notin {"+", "-"}
  BY <1>5 DEF EditMask, Edited
<1> QED BY <1>3, <1>4, <1>5

\* A step that leaves the monitor's masks and its place in the file alone.
LEMMA AskedKept ==
  ASSUME AskedInv, UNCHANGED <<setup, file, want, pos, warned>>,
         mask'[Monitor] = mask[Monitor], pc'[Monitor] = pc[Monitor]
  PROVE  AskedInv'
<1>1. PlainRun' = PlainRun
  BY DEF PlainRun, MayBeRead, Plain
<1>2. Agreed' = Agreed /\ AgreedSoFar' = AgreedSoFar
  BY DEF Agreed, AgreedSoFar
<1> QED BY <1>1, <1>2 DEF AskedInv

\* No line asks for nothing.
LEMMA NothingAsked ==
  ASSUME NEW w \in Wants, NEW lines, NEW f \in Fields
  PROVE  Asked(w, lines, 0)[f] = w[f]
<1>1. 1 .. 0 = {}
  OBVIOUS
<1>2. w[f] \subseteq Streams
  BY DEF Wants
<1> QED BY <1>1, <1>2 DEF Asked

\* One line more does to what was asked for what it says.
LEMMA AskedMore ==
  ASSUME NEW w, NEW lines, NEW n \in Nat, NEW f \in Fields
  PROVE  LET line == lines[n + 1]
             before == Asked(w, lines, n)[f] IN
         Asked(w, lines, n + 1)[f] =
           IF Lists(line, f) THEN Edited(before, line.op, <<line.typ, line.id>>) ELSE before
<1> DEFINE line == lines[n + 1]
           before == Asked(w, lines, n)[f]
           says(st, m) == \/ \E i \in 1 .. m : /\ About(lines[i], f, st) /\ lines[i].op = "+"
                                             /\ \A j \in i + 1 .. m : ~About(lines[j], f, st)
                          \/ st \in w[f] /\ \A i \in 1 .. m : ~About(lines[i], f, st)
<1>1. /\ 1 .. n + 1 = (1 .. n) \union {n + 1}
      /\ n + 1 + 1 .. n + 1 = {}
      /\ \A i \in 1 .. n : i + 1 .. n + 1 = (i + 1 .. n) \union {n + 1}
  OBVIOUS
<1>2. \A st \in Streams : (st \in before <=> says(st, n))
                          /\ (st \in Asked(w, lines, n + 1)[f] <=> says(st, n + 1))
  BY DEF Asked
<1>3. before \subseteq Streams /\ Asked(w, lines, n + 1)[f] \subseteq Streams
  BY DEF Asked
<1>4. ASSUME NEW st \in Streams, About(line, f, st)
      PROVE  says(st, n + 1) <=> line.op = "+"
  <2>1. line.op = "+" => says(st, n + 1)
    BY <1>1, <1>4
  <2>2. says(st, n + 1) => line.op = "+"
    <3>1. ~(\A i \in 1 .. n + 1 : ~About(lines[i], f, st))
      BY <1>1, <1>4
    <3>2. ASSUME NEW i \in 1 .. n + 1, lines[i].op = "+",
                 \A j \in i + 1 .. n + 1 : ~About(lines[j], f, st)
          PROVE  line.op = "+"
      BY <1>1, <1>4, <3>2
    <3> QED BY <3>1, <3>2
  <2> QED BY <2>1, <2>2
<1>5. ASSUME NEW st \in Streams, ~About(line, f, st)
      PROVE  says(st, n + 1) <=> says(st, n)
  <2>1. (\A i \in 1 .. n + 1 : ~About(lines[i], f, st)) <=> \A i \in 1 .. n : ~About(lines[i], f, st)
    BY <1>1, <1>5
  <2>2. ASSUME NEW i \in 1 .. n
        PROVE  (\A j \in i + 1 .. n + 1 : ~About(lines[j], f, st))
               <=> \A j \in i + 1 .. n : ~About(lines[j], f, st)
    BY <1>1, <1>5
  <2> QED BY <1>1, <1>5, <2>1, <2>2
<1>6. ASSUME NEW st \in Streams
      PROVE  About(line, f, st) <=>
               Lists(line, f) /\ line.op \in {"+", "-"} /\ st = <<line.typ, line.id>>
  BY DEF About, Streams
<1> HIDE DEF line, before, says
<1>7. CASE ~Lists(line, f)
  BY <1>2, <1>3, <1>5, <1>6, <1>7 DEF line, before
<1>8. CASE Lists(line, f) /\ line.op \notin {"+", "-"}
  <2>1. Asked(w, lines, n + 1)[f] = before
    BY <1>2, <1>3, <1>5, <1>6, <1>8
  <2> QED BY <1>8, <2>1 DEF Edited, line, before
<1>9. CASE Lists(line, f) /\ line.op = "+"
  <2>1. Asked(w, lines, n + 1)[f] = before \union ({<<line.typ, line.id>>} \intersect Streams)
    BY <1>2, <1>3, <1>4, <1>5, <1>6, <1>9
  <2> QED BY <1>9, <2>1 DEF Edited, line, before
<1>10. CASE Lists(line, f) /\ line.op = "-"
  <2>1. line.op # "+"
    BY <1>10
  <2>2. Asked(w, lines, n + 1)[f] = before \ {<<line.typ, line.id>>}
    BY <1>2, <1>3, <1>4, <1>5, <1>6, <1>10, <2>1
  <2> QED BY <1>10, <2>1, <2>2 DEF Edited, line, before
<1> QED BY <1>7, <1>8, <1>9, <1>10

\* Lines that are no edits ask for nothing more.
LEMMA AskedRest ==
  ASSUME NEW w, NEW lines, NEW n \in Nat, NEW m \in Nat, n <= m, NEW f \in Fields,
         \A i \in n + 1 .. m : lines[i].kind # "edit"
  PROVE  Asked(w, lines, m)[f] = Asked(w, lines, n)[f]
<1>1. 1 .. m = (1 .. n) \union (n + 1 .. m)
  OBVIOUS
<1>2. \A i \in 1 .. n : i + 1 .. m = (i + 1 .. n) \union (n + 1 .. m)
  OBVIOUS
<1>3. \A i \in n + 1 .. m : \A st : ~About(lines[i], f, st)
  BY DEF About, Lists
<1>4. ASSUME NEW st \in Streams
      PROVE  st \in Asked(w, lines, m)[f] <=> st \in Asked(w, lines, n)[f]
  <2>1. (\A i \in 1 .. m : ~About(lines[i], f, st)) <=> \A i \in 1 .. n : ~About(lines[i], f, st)
    BY <1>1, <1>3
  <2>2. ASSUME NEW i \in 1 .. n
        PROVE  (\A j \in i + 1 .. m : ~About(lines[j], f, st))
               <=> \A j \in i + 1 .. n : ~About(lines[j], f, st)
    BY <1>2, <1>3
  <2>3. (\E i \in 1 .. m : /\ About(lines[i], f, st) /\ lines[i].op = "+"
                           /\ \A j \in i + 1 .. m : ~About(lines[j], f, st))
        <=> \E i \in 1 .. n : /\ About(lines[i], f, st) /\ lines[i].op = "+"
                              /\ \A j \in i + 1 .. n : ~About(lines[j], f, st)
    BY <1>1, <1>3, <2>2
  <2> QED BY <2>1, <2>3 DEF Asked
<1> QED BY <1>4 DEF Asked

LEMMA AskedIsWants ==
  ASSUME NEW w, NEW lines, NEW n
  PROVE  Asked(w, lines, n) \in Wants
BY DEF Asked, Wants

\* A call begins with the masks the last one left.
LEMMA AskedBeginIo ==
  ASSUME Types, AskedInv, BeginIo(Monitor)
  PROVE  AskedInv'
<1>1. /\ UNCHANGED <<setup, file, mask, want>> /\ Monitor \in Tasks
      /\ pc[Monitor] = "run" /\ pos' \in Nat
  BY TwoKindsOfTasks DEF BeginIo, reading, AskedInv
<1>2. PlainRun' = PlainRun /\ (PlainRun => Agreed)
  BY <1>1 DEF PlainRun, MayBeRead, Plain, AskedInv
<1>3. CASE file.kind = "none"
  <2>1. pc'[Monitor] = "select"
    BY <1>1, <1>3 DEF BeginIo, Goto, Types
  <2> QED BY <1>1, <1>2, <2>1 DEF AskedInv, Agreed
<1>4. CASE file.kind # "none"
  <2>1. pc'[Monitor] = "read" /\ pos' = 0
    BY <1>1, <1>4 DEF BeginIo, Goto, Types
  <2>2. Len(file.lines) \in Nat
    BY SetupAssumption DEF AskedInv
  <2>3. ASSUME PlainRun PROVE AgreedSoFar'
    <3>1. \A f \in Fields : Asked(want, file.lines, 0)[f] = want[f]
      BY NothingAsked DEF AskedInv
    <3> QED BY <1>1, <1>2, <2>1, <2>2, <2>3, <3>1 DEF AgreedSoFar, Agreed
  <2> QED BY <1>1, <1>2, <2>1, <2>3 DEF AskedInv
<1> QED BY <1>3, <1>4

\* At the end of the file the masks are right, or it is fatal.
LEMMA AskedFinishRead ==
  ASSUME Types, AskedInv, FinishRead
  PROVE  AskedInv'
<1>1. /\ UNCHANGED <<setup, file, mask, pos, warned>> /\ Monitor \in Tasks
      /\ pc[Monitor] = "read" /\ AtEnd
      /\ want' = Asked(want, file.lines, Len(file.lines))
  BY TwoKindsOfTasks DEF FinishRead, reading
<1>2. want' \in Wants /\ PlainRun' = PlainRun
  BY <1>1, AskedIsWants DEF PlainRun, MayBeRead, Plain
<1>3. CASE Fatal
  <2>1. pc'[Monitor] = "fatal"
    BY <1>1, <1>3 DEF FinishRead, Goto, Types
  <2> QED BY <1>1, <1>2, <2>1 DEF AskedInv
<1>4. CASE ~Fatal
  <2>1. pc'[Monitor] = "select"
    BY <1>1, <1>4 DEF FinishRead, Goto, Types
  <2>2. ASSUME PlainRun PROVE Agreed'
    <3>1. /\ DOMAIN file.lines = 1 .. Len(file.lines) /\ Len(file.lines) \in Nat
          /\ pos \in Nat /\ pos <= Len(file.lines) /\ Plain(file)
      BY <1>1, <2>2, SetupAssumption DEF AskedInv, AgreedSoFar, PlainRun, MayBeRead
    <3>2. \A f \in Fields : StreamsOf(mask[Monitor][f]) = Asked(want, file.lines, pos)[f]
      BY <1>1, <1>4, <2>2 DEF AskedInv, AgreedSoFar, Fatal
    <3>3. ASSUME NEW i \in pos + 1 .. Len(file.lines) PROVE file.lines[i].kind # "edit"
      <4>1. pos + 1 \in DOMAIN file.lines /\ i \in DOMAIN file.lines /\ pos + 1 \in 1 .. i
            /\ pos = (pos + 1) - 1
        BY <3>1
      <4>2. file.lines[pos + 1].kind = "blank"
        BY <1>1, <4>1 DEF AtEnd
      <4> QED BY <3>1, <4>1, <4>2 DEF Plain
    <3>4. \A f \in Fields : want'[f] = Asked(want, file.lines, pos)[f]
      BY <1>1, <3>1, <3>3, AskedRest
    <3> QED BY <1>1, <3>2, <3>4 DEF Agreed
  <2> QED BY <1>1, <1>2, <2>1, <2>2 DEF AskedInv
<1> QED BY <1>3, <1>4

\* A line is applied to the masks as it is to the streams asked for.
LEMMA AskedReadLine ==
  ASSUME Types, AskedInv, ReadLine
  PROVE  AskedInv'
<1> DEFINE line == file.lines[pos + 1]
           e == strm' + line.id - 1
           before(f) == Asked(want, file.lines, pos)[f]
<1>1. /\ UNCHANGED <<setup, file, want>> /\ Monitor \in Tasks /\ pos' = pos + 1
      /\ pos \in Nat /\ pos' \in Nat /\ pc[Monitor] = "read" /\ ~AtEnd
  BY TwoKindsOfTasks DEF ReadLine, AskedInv
<1>2. PlainRun' = PlainRun
  BY <1>1 DEF PlainRun, MayBeRead, Plain
<1>3. /\ pos + 1 \in DOMAIN file.lines /\ pos + 1 <= Len(file.lines)
      /\ line.kind \in {"comment", "edit"}
  <2>1. DOMAIN file.lines = 1 .. Len(file.lines) /\ Len(file.lines) \in Nat
    BY SetupAssumption DEF AskedInv
  <2>2. PICK i \in DOMAIN file.lines : file.lines[i].kind # "blank" /\ pos = i - 1
    BY <1>1 DEF AtEnd
  <2>3. i = pos + 1
    BY <2>1, <2>2
  <2>4. file.lines[i].kind \in {"blank", "comment", "edit"}
    BY LinesAssumption DEF AskedInv
  <2> QED BY <2>1, <2>2, <2>3, <2>4
<1>4. \A f \in Fields : Asked(want, file.lines, pos')[f] =
        IF Lists(line, f) THEN Edited(before(f), line.op, <<line.typ, line.id>>) ELSE before(f)
  BY <1>1, AskedMore
<1>5. CASE line.kind = "comment"
  <2>1. mask' = mask /\ warned' = warned /\ pc' = pc
    BY <1>5 DEF ReadLine
  <2>2. \A f \in Fields : ~Lists(line, f)
    BY <1>5 DEF Lists
  <2>3. AgreedSoFar => AgreedSoFar'
    BY <1>1, <1>3, <1>4, <2>1, <2>2 DEF AgreedSoFar
  <2> QED BY <1>1, <1>2, <2>1, <2>3 DEF AskedInv
<1>6. CASE line.kind = "edit"
  <2>1. /\ strm' = CASE line.typ = "h" -> first_history
                     [] line.typ = "i" -> first_input
                     [] OTHER -> strm
        /\ mask' = [mask EXCEPT ![Monitor] =
                      [f \in Fields |-> IF Lists(line, f) THEN EditMask(@[f], line.op, e) ELSE @[f]]]
        /\ warned' = (warned \/ Bad(line))
        /\ pc' = [pc EXCEPT ![Monitor] = "fatal"] \/ pc' = pc
    BY <1>6 DEF ReadLine, Goto
  <2>2. /\ mask'[Monitor] = [f \in Fields |-> IF Lists(line, f) THEN EditMask(mask[Monitor][f], line.op, e)
                                             ELSE mask[Monitor][f]]
        /\ pc'[Monitor] \in {"fatal", "read"}
    BY <1>1, <2>1 DEF Types
  <2>3. ASSUME NEW f \in Fields PROVE IsMask(mask'[Monitor][f])
    BY <2>2, EditKeepsMask DEF AskedInv
  <2>4. ASSUME PlainRun PROVE AgreedSoFar'
    <3>1. AgreedSoFar /\ Plain(file)
      BY <1>1, <2>4 DEF AskedInv, PlainRun, MayBeRead
    <3>2. CASE (Bad(line) \/ warned) /\ ~setup.ignore
      <4>1. warned' /\ ~setup'.ignore /\ pos' <= Len(file'.lines)
        BY <1>1, <1>3, <2>1, <3>2
      <4> QED BY <4>1 DEF AgreedSoFar
    <3>3. CASE ~((Bad(line) \/ warned) /\ ~setup.ignore)
      <4>1. line.typ \in Kinds /\ line.id \in 0 .. MaxHistory - 1
        <5>1. <<line.typ, line.id>> \in Streams
          BY <1>3, <1>6, <3>1, <3>3 DEF Plain
        <5> QED BY <5>1 DEF Streams
      <4>2. e = BaseOf(line.typ) + line.id
        <5>1. strm' = IF line.typ = "h" THEN first_history ELSE first_input
          BY <2>1, <4>1 DEF Kinds
        <5>2. PICK b \in Nat : b = BaseOf(line.typ)
          BY <4>1, BaseIs
        <5>3. strm' = b + 1
          BY <5>1, <5>2, HistoryAssumption
             DEF BaseOf, first_history, first_input, HISTORY_STREAM, INPUT_STREAM
        <5> QED BY <4>1, <5>2, <5>3
      <4>3. ASSUME NEW f \in Fields
            PROVE  StreamsOf(mask'[Monitor][f]) = Asked(want, file.lines, pos')[f]
        <5>1. StreamsOf(mask[Monitor][f]) = before(f) /\ IsMask(mask[Monitor][f])
          BY <3>1, <3>3 DEF AgreedSoFar, AskedInv
        <5>2. CASE ~Lists(line, f)
          BY <1>4, <2>2, <5>1, <5>2
        <5>3. CASE Lists(line, f)
          <6>1. mask'[Monitor][f] = EditMask(mask[Monitor][f], line.op, e)
            BY <2>2, <5>3
          <6>2. Asked(want, file.lines, pos')[f] = Edited(before(f), line.op, <<line.typ, line.id>>)
            BY <1>4, <5>3
          <6> HIDE DEF e, before
          <6>3. PICK x : x = e
            OBVIOUS
          <6>4. StreamsOf(EditMask(mask[Monitor][f], line.op, x))
                  = Edited(StreamsOf(mask[Monitor][f]), line.op, <<line.typ, line.id>>)
            <7>1. x = BaseOf(line.typ) + line.id
              BY <4>2, <6>3
            <7> HIDE DEF line
            <7> QED BY <4>1, <5>1, <7>1, EditIs
          <6> QED BY <5>1, <6>1, <6>2, <6>3, <6>4
        <5> QED BY <5>2, <5>3
      <4> QED BY <1>1, <1>3, <4>3 DEF AgreedSoFar
    <3> QED BY <3>2, <3>3
  <2> QED BY <1>1, <1>2, <2>2, <2>3, <2>4 DEF AskedInv
<1> QED BY <1>3, <1>5, <1>6

\* Through the Registry's copy of the mask code, the generated source and the
\* model's copy, with two numberings of the streams: for any Registry and any
\* number of bits in a word that leaves a mask room for the streams, after a file
\* that is Plain the monitor has a field on the history and input streams that
\* the file and those before it ask for, and on no other.
THEOREM StreamsAreAsAsked == Spec => []StreamsAsAsked
<1>1. Init => AskedInv
  <2> SUFFICES ASSUME Init PROVE AskedInv
    OBVIOUS
  <2>1. /\ setup \in Setups /\ file \in setup.files /\ pos = 0
        /\ io \in [Fields -> IoStrings] /\ Monitor \in Tasks
        /\ want = [f \in Fields |-> AskedByRegistry(io[f])]
        /\ mask[Monitor] = [f \in Fields |-> Generated(io[f])]
    BY TwoKindsOfTasks DEF Init
  <2>2. ASSUME NEW f \in Fields
        PROVE  IsMask(mask[Monitor][f]) /\ StreamsOf(mask[Monitor][f]) = want[f]
    <3>1. io[f] \in IoStrings /\ mask[Monitor][f] = Generated(io[f]) /\ want[f] = AskedByRegistry(io[f])
      BY <2>1
    <3> QED BY <3>1, GeneratedIsAsked
  <2>3. want \in Wants
    BY <2>1, <2>2 DEF Wants, StreamsOf
  <2>4. pc[Monitor] = "run"
    BY <2>1 DEF Init
  <2> QED BY <2>1, <2>2, <2>3, <2>4 DEF AskedInv, Agreed
<1>2. SameInv /\ AskedInv /\ [Next]_vars => AskedInv'
  <2> SUFFICES ASSUME SameInv, AskedInv, [Next]_vars PROVE AskedInv'
    OBVIOUS
  <2>1. Types /\ file \in setup.files
    BY DEF SameInv, AskedInv
  <2>2. ASSUME NEW t \in Tasks, t # Monitor, BeginIo(t) \/ SelectFields(t) PROVE AskedInv'
    <3>1. UNCHANGED <<setup, file, want, pos, warned>> /\ mask' = mask
      BY <2>2 DEF BeginIo, SelectFields, reading
    <3>2. pc'[Monitor] = pc[Monitor]
      BY <2>1, <2>2, TwoKindsOfTasks DEF BeginIo, SelectFields, Goto, Types
    <3> QED BY <2>1, <3>1, <3>2, AskedKept
  <2>3. ASSUME SelectFields(Monitor) PROVE AskedInv'
    <3>1. /\ UNCHANGED <<setup, file, want, pos, warned, mask>> /\ pc[Monitor] = "select"
          /\ pc'[Monitor] = "run"
      BY <2>1, <2>3, TwoKindsOfTasks DEF SelectFields, reading, Goto, Types
    <3>2. PlainRun => Agreed
      BY <3>1 DEF AskedInv
    <3>3. PlainRun' = PlainRun
      BY <3>1 DEF PlainRun, MayBeRead, Plain
    <3> QED BY <3>1, <3>2, <3>3 DEF AskedInv, Agreed
  <2>4. CASE \E t \in Tasks : BeginIo(t) \/ SelectFields(t)
    BY <2>1, <2>2, <2>3, <2>4, AskedBeginIo
  <2>5. CASE ReadLine
    BY <2>1, <2>5, AskedReadLine
  <2>6. CASE FinishRead
    BY <2>1, <2>6, AskedFinishRead
  <2>7. ASSUME NEW t \in Others, Receive(t) PROVE AskedInv'
    <3>1. UNCHANGED <<setup, file, want, pos, warned>>
      BY <2>7 DEF Receive, reading
    <3>2. pc'[Monitor] = pc[Monitor] /\ mask'[Monitor] = mask[Monitor]
      BY <2>1, <2>7, TwoKindsOfTasks DEF Receive, Goto, Types
    <3> QED BY <2>1, <3>1, <3>2, AskedKept
  <2>8. CASE EditFile
    <3>1. UNCHANGED <<setup, want, pos, warned, mask, pc>> /\ file' \in setup.files
      BY <2>8 DEF EditFile, reading
    <3>2. setup.edited /\ pc[Monitor] # "read"
      BY <2>8 DEF EditFile
    <3>3. PlainRun' = PlainRun
      BY <3>1, <3>2 DEF PlainRun, MayBeRead, Plain
    <3> QED BY <3>1, <3>2, <3>3 DEF AskedInv, Agreed
  <2>9. CASE UNCHANGED vars
    BY <2>1, <2>9, AskedKept DEF vars
  <2> QED BY <2>4, <2>5, <2>6, <2>7, <2>8, <2>9 DEF Next
<1>3. AskedInv => StreamsAsAsked
  BY DEF AskedInv, Agreed, PlainRun, StreamsAsAsked, StreamsOf
<1> QED BY <1>1, <1>2, <1>3, SameInvHolds, PTL DEF Spec
=============================================================================
