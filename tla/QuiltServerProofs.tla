-------------------------- MODULE QuiltServerProofs --------------------------
(***************************************************************************)
(* Proofs about the I/O servers (2): what becomes of the calls of the      *)
(* clients in the servers of a group and in its root, for any number of    *)
(* clients, servers, groups, handles, streams and fields.                  *)
(*                                                                         *)
(* The servers of a group match their own collectives; a batch of the root *)
(* is of one call; its tables keep their types; and no server stops the    *)
(* run.                                                                    *)
(***************************************************************************)
EXTENDS QuiltProofs

-----------------------------------------------------------------------------
(***************************************************************************)
(* The pieces.                                                             *)
(*                                                                         *)
(* What the script of a group asks its servers to do is a list of items,   *)
(* a field, a record of another kind or the end of a message each: the     *)
(* pieces in which a server keeps what it has gathered are the next items  *)
(* of the list, for every server of the group alike, and so are those on   *)
(* their way to the root.                                                  *)
(***************************************************************************)

\* What a call can be about.
Tags == {"open", "meta", "train", "commit", "field", "close"}
Subjects ==
  {a \in [tag : Tags, h : 0 .. NH, v : Nat, date : Nat] :
     /\ a.tag # "close" => a.h \in Handles
     /\ a.tag = "open" => a.v \in Streams
     /\ a.tag = "train" => a.v \in 1 .. NF
     /\ a.tag \in {"open", "train", "field"} => a.date \in 1 .. MaxOutputs}
Meant(s) ==
  /\ s.about \in Subjects
  /\ s.kind = "gather" => /\ s.about.tag # "close"
                          /\ s.size = IF s.about.tag = "field" THEN NF ELSE 1
  /\ s.kind = "reduce" /\ s.size = 0 => s.about.tag = "close" /\ s.about.h \in Handles

\* The items of a call; the last one says that there is no further piece.
Items(s) == IF s.kind = "gather" THEN s.size + 1 ELSE IF s.size = 0 THEN 2 ELSE 0
Item(s, i) ==
  IF i = Items(s) THEN About("end", 0, 0, 0)
  ELSE IF s.about.tag = "field" THEN About("field", s.about.h, i, s.about.date)
  ELSE s.about

\* A record, and a piece, of an item; the first server, which serves the monitor,
\* keeps no noops.
Meets(a, it) ==
  /\ a \in ServerRecords
  /\ a.tag # "noop" =>
       /\ a.tag = it.tag
       /\ IF a.tag = "close" THEN a.h \in {0, it.h}
          ELSE a.h = it.h /\ a.v = it.v /\ a.date = it.date /\ a.src \in Clients
PieceOf(r, p, it) ==
  IF it.tag = "end" THEN p = End
  ELSE /\ p # End /\ p \in Seq(ServerRecords) /\ \A i \in 1 .. Len(p) : Meets(p[i], it)
       /\ r = 0 => \A i \in 1 .. Len(p) : p[i].tag # "noop"

\* The items ls of the first l calls of script m: la[j] of them are of the
\* first j calls.
Charted(l, m, la, ls) ==
  /\ la[0] = 0
  /\ \A j \in 0 .. l : la[j] \in Nat /\ la[j] <= la[l]
  /\ \A j \in 0 .. l - 1 :
       /\ Meant(m[j + 1]) /\ la[j + 1] = la[j] + Items(m[j + 1])
       /\ \A i \in 1 .. Items(m[j + 1]) : ls[la[j] + i] = Item(m[j + 1], i)

\* What server r, which has completed k calls, holds after e items.
Holds(g, r, k, la, ls, e) ==
  phase[g][r] # "aborted" =>
    IF phase[g][r] = "forward"
    THEN /\ e + Len(pieces[g][r]) + 1 = la[k] /\ ls[la[k]].tag = "end"
         /\ \A i \in 1 .. Len(pieces[g][r]) :
              ls[e + i].tag # "end" /\ PieceOf(r, pieces[g][r][i], ls[e + i])
    ELSE e = la[k]
\* What is on its way from server r, which is past e items, to the root, which
\* is past b.
Carries(g, r, ls, b, e) ==
  /\ e = b + Len(lchan[g][r])
  /\ \A i \in 1 .. Len(lchan[g][r]) : PieceOf(r, lchan[g][r][i], ls[b + i])
\* What the root handles.
Batched(g, ls, b) ==
  /\ IF busy[g] THEN b > 0 ELSE batch[g] = <<>>
  /\ \A i \in 1 .. Len(batch[g]) : Meets(batch[g][i], ls[b])

Filed(g, l, m, k, la, ls, f) ==
  /\ Charted(l, m, la, ls)
  /\ \A r \in Ranks : f[r] \in Nat /\ f[r] <= la[l] /\ Holds(g, r, k[r], la, ls, f[r])
  /\ \A r \in Others : Carries(g, r, ls, f[Root], f[r])
  /\ Batched(g, ls, f[Root])

SeqTypes ==
  /\ pieces \in [Groups -> [Ranks -> Seq(Seq(ServerRecords))]]
  /\ lchan \in [Groups -> [Others -> Seq(Seq(ServerRecords))]]
  /\ batch \in [Groups -> Seq(ServerRecords)]

-----------------------------------------------------------------------------
(* Steps of the chart.                                                      *)

\* A server that has completed k <= l calls, and the charts la, ls and na, ns
\* that agree up to them.
LEMMA HoldsSame ==
  ASSUME NEW g, NEW r, NEW l \in Nat, NEW k \in 0 .. l, NEW la, NEW ls, NEW na, NEW ns,
         NEW e \in Nat, \A j \in 0 .. l : la[j] \in Nat /\ la[j] <= la[l] /\ na[j] = la[j],
         \A i \in 1 .. la[l] : ns[i] = ls[i],
         Len(pieces[g][r]) \in Nat, Holds(g, r, k, la, ls, e)
  PROVE  Holds(g, r, k, na, ns, e)
<1>1. la[k] \in Nat /\ la[k] <= la[l] /\ na[k] = la[k] /\ la[l] \in Nat
  OBVIOUS
<1>2. CASE phase[g][r] = "forward"
  <2>1. la[k] = e + Len(pieces[g][r]) + 1 /\ la[k] \in 1 .. la[l]
    BY <1>1, <1>2 DEF Holds
  <2>2. \A i \in 1 .. Len(pieces[g][r]) : e + i \in 1 .. la[l]
    BY <1>1, <2>1
  <2>3. ns[la[k]] = ls[la[k]] /\ \A i \in 1 .. Len(pieces[g][r]) : ns[e + i] = ls[e + i]
    BY <2>1, <2>2
  <2> QED BY <1>1, <1>2, <2>1, <2>3 DEF Holds
<1>3. CASE phase[g][r] # "forward"
  BY <1>1, <1>3 DEF Holds
<1> QED BY <1>2, <1>3

LEMMA OthersOf ==
  /\ Root \in Ranks /\ Root \notin Others /\ Others \subseteq Ranks
  /\ \A r \in Ranks : r = Root \/ r \in Others
BY ServerConstants DEF Others, Ranks, Root

\* Sequences, taken apart.
LEMMA HeldTypes ==
  ASSUME SeqTypes, NEW g \in Groups
  PROVE  /\ \A r \in Ranks : /\ pieces[g][r] \in Seq(Seq(ServerRecords))
                             /\ Len(pieces[g][r]) \in Nat
         /\ \A r \in Others : /\ lchan[g][r] \in Seq(Seq(ServerRecords))
                              /\ Len(lchan[g][r]) \in Nat
         /\ batch[g] \in Seq(ServerRecords) /\ Len(batch[g]) \in Nat
BY DEF SeqTypes

LEMMA ItemsNat ==
  ASSUME NEW s, Meant(s)
  PROVE  Items(s) \in Nat
BY ClientConstants DEF Meant, Items

\* One more call.
LEMMA ChartOne ==
  ASSUME NEW l \in Nat, NEW m, NEW la, NEW ls, Charted(l, m, la, ls), Meant(m[l + 1])
  PROVE  \E na, ns : /\ Charted(l + 1, m, na, ns)
                     /\ \A j \in 0 .. l : na[j] = la[j]
                     /\ \A i \in 1 .. la[l] : ns[i] = ls[i]
<1> DEFINE s == m[l + 1]
<1>1. PICK q \in Nat : q = Items(s)
  BY ItemsNat
<1>2. PICK b \in Nat : b = la[l]
  BY DEF Charted
<1>3. PICK na : \A j \in 0 .. l + 1 : na[j] = IF j <= l THEN la[j] ELSE b + q
  <2> WITNESS [j \in 0 .. l + 1 |-> IF j <= l THEN la[j] ELSE b + q]
  <2> QED OBVIOUS
<1>4. PICK ns : \A i \in 1 .. b + q : ns[i] = IF i <= b THEN ls[i] ELSE Item(s, i - b)
  <2> WITNESS [i \in 1 .. b + q |-> IF i <= b THEN ls[i] ELSE Item(s, i - b)]
  <2> QED OBVIOUS
<1>5. \A j \in 0 .. l : na[j] = la[j] /\ na[j] \in Nat /\ na[j] <= b
  BY <1>2, <1>3 DEF Charted
<1>6. na[l + 1] = b + q
  BY <1>3
<1>7. \A i \in 1 .. b : ns[i] = ls[i]
  BY <1>4
<1>8. ASSUME NEW i \in 1 .. q PROVE ns[b + i] = Item(s, i)
  <2>1. b + i \in 1 .. b + q /\ ~(b + i <= b) /\ (b + i) - b = i
    OBVIOUS
  <2> QED BY <1>4, <2>1
<1>9. ASSUME NEW j \in 0 .. l
      PROVE  /\ Meant(m[j + 1]) /\ na[j + 1] = na[j] + Items(m[j + 1])
             /\ \A i \in 1 .. Items(m[j + 1]) : ns[na[j] + i] = Item(m[j + 1], i)
  <2>1. CASE j = l
    BY <1>1, <1>2, <1>5, <1>6, <1>8, <2>1
  <2>2. CASE j # l
    <3>1. j \in 0 .. l - 1 /\ j + 1 \in 0 .. l
      BY <2>2
    <3>2. /\ Meant(m[j + 1]) /\ la[j + 1] = la[j] + Items(m[j + 1])
          /\ \A i \in 1 .. Items(m[j + 1]) : ls[la[j] + i] = Item(m[j + 1], i)
      BY <3>1 DEF Charted
    <3>3. la[j] \in Nat /\ la[j + 1] <= b /\ na[j] = la[j] /\ na[j + 1] = la[j + 1]
      BY <1>5, <3>1
    <3>4. PICK p \in Nat : p = Items(m[j + 1])
      BY <3>2, ItemsNat
    <3>5. \A i \in 1 .. p : la[j] + i \in 1 .. b
      BY <3>2, <3>3, <3>4
    <3> QED BY <1>7, <3>2, <3>3, <3>4, <3>5
  <2> QED BY <2>1, <2>2
<1>10. \A j \in 0 .. l + 1 : na[j] \in Nat /\ na[j] <= b + q
  BY <1>5, <1>6
<1> HIDE DEF s
<1>11. Charted(l + 1, m, na, ns)
  <2>1. na[0] = 0
    BY <1>5 DEF Charted
  <2>2. (l + 1) - 1 = l
    OBVIOUS
  <2> QED BY <1>6, <1>9, <1>10, <2>1, <2>2 DEF Charted
<1> QED BY <1>2, <1>5, <1>7, <1>11

LEMMA ChartSame ==
  ASSUME NEW l \in Nat, NEW m, NEW mm, NEW la, NEW ls, Charted(l, m, la, ls),
         \A k \in 1 .. l : mm[k] = m[k]
  PROVE  Charted(l, mm, la, ls)
<1>1. \A j \in 0 .. l - 1 : mm[j + 1] = m[j + 1]
  OBVIOUS
<1> QED BY <1>1 DEF Charted

\* The chart na, ns goes on where la, ls ends.
GoesOn(l, la, ls, na, ns) ==
  (\A j \in 0 .. l : na[j] = la[j]) /\ \A i \in 1 .. la[l] : ns[i] = ls[i]

\* The script grows; the servers have heard of none of it yet.
LEMMA FiledGrows ==
  ASSUME SeqTypes, NEW g \in Groups, NEW l \in Nat, NEW m, NEW k, NEW la, NEW ls, NEW f,
         Filed(g, l, m, k, la, ls, f), \A r \in Ranks : k[r] \in 0 .. l, Meant(m[l + 1])
  PROVE  \E na, ns : Filed(g, l + 1, m, k, na, ns, f) /\ GoesOn(l, la, ls, na, ns)
<1>1. PICK na, ns : /\ Charted(l + 1, m, na, ns)
                    /\ \A j \in 0 .. l : na[j] = la[j]
                    /\ \A i \in 1 .. la[l] : ns[i] = ls[i]
  BY ChartOne DEF Filed
<1>2. \A j \in 0 .. l : la[j] \in Nat /\ la[j] <= la[l] /\ na[j] = la[j]
  BY <1>1 DEF Filed, Charted
<1>3. na[l + 1] \in Nat /\ la[l] <= na[l + 1] /\ la[l] \in Nat
  <2>1. l \in 0 .. l + 1 /\ l + 1 \in 0 .. l + 1 /\ l \in 0 .. l
    OBVIOUS
  <2>2. na[l] <= na[l + 1] /\ na[l + 1] \in Nat
    BY <1>1, <2>1 DEF Charted
  <2> QED BY <1>2, <2>1, <2>2
<1>4. ASSUME NEW r \in Ranks
      PROVE  f[r] \in Nat /\ f[r] <= na[l + 1] /\ Holds(g, r, k[r], na, ns, f[r])
  <2>1. f[r] \in Nat /\ f[r] <= la[l] /\ Holds(g, r, k[r], la, ls, f[r])
    BY DEF Filed
  <2>2. Len(pieces[g][r]) \in Nat
    BY DEF SeqTypes
  <2>3. PICK e \in Nat : e = f[r]
    BY <2>1
  <2>4. PICK kr \in 0 .. l : kr = k[r]
    OBVIOUS
  <2>5. Holds(g, r, kr, la, ls, e) /\ \A i \in 1 .. la[l] : ns[i] = ls[i]
    BY <1>1, <2>1, <2>3, <2>4
  <2>6. Holds(g, r, kr, na, ns, e)
    BY <1>2, <2>2, <2>5, HoldsSame
  <2> QED BY <1>3, <2>1, <2>3, <2>4, <2>6
<1>5. Root \in Ranks /\ Others \subseteq Ranks
  BY OthersOf
<1>6. ASSUME NEW r \in Others PROVE Carries(g, r, ns, f[Root], f[r])
  <2>1. /\ f[r] = f[Root] + Len(lchan[g][r]) /\ f[r] <= la[l] /\ f[r] \in Nat /\ f[Root] \in Nat
        /\ Len(lchan[g][r]) \in Nat
    BY <1>5, HeldTypes DEF Filed, Carries
  <2>2. \A i \in 1 .. Len(lchan[g][r]) : ns[f[Root] + i] = ls[f[Root] + i]
    BY <1>1, <1>3, <2>1
  <2> QED BY <2>1, <2>2 DEF Filed, Carries
<1>7. Batched(g, ns, f[Root])
  <2>1. f[Root] \in Nat /\ f[Root] <= la[l] /\ Batched(g, ls, f[Root])
    BY <1>5 DEF Filed
  <2>2. f[Root] # 0 => ns[f[Root]] = ls[f[Root]]
    BY <1>1, <1>3, <2>1
  <2>3. CASE busy[g]
    BY <2>1, <2>2, <2>3 DEF Batched
  <2>4. CASE ~busy[g]
    <3>1. Len(batch[g]) = 0
      BY <2>1, <2>4 DEF Batched
    <3> QED BY <2>1, <2>4, <3>1 DEF Batched
  <2> QED BY <2>3, <2>4
<1>8. Filed(g, l + 1, m, k, na, ns, f)
  BY <1>1, <1>4, <1>6, <1>7 DEF Filed
<1>9. GoesOn(l, la, ls, na, ns)
  BY <1>1 DEF GoesOn
<1> QED BY <1>8, <1>9

\* The script grows by what a client has to say.
LEMMA FiledOn ==
  ASSUME SeqTypes, NEW g \in Groups, NEW l \in Nat, NEW m, NEW mm, NEW k, NEW la, NEW ls,
         NEW f, Filed(g, l, m, k, la, ls, f), \A j \in 1 .. l : mm[j] = m[j],
         \A r \in Ranks : k[r] \in 0 .. l, NEW t \in {0, 1, 2},
         \A j \in 1 .. t : Meant(mm[l + j])
  PROVE  \E na, ns : Filed(g, l + t, mm, k, na, ns, f) /\ GoesOn(l, la, ls, na, ns)
<1>1. Charted(l, m, la, ls)
  BY DEF Filed
<1>2. Filed(g, l, mm, k, la, ls, f)
  <2>1. Charted(l, mm, la, ls)
    BY <1>1, ChartSame
  <2> QED BY <2>1 DEF Filed
<1>3. CASE t = 0
  BY <1>2, <1>3 DEF GoesOn
<1>4. CASE t # 0
  <2>1. Meant(mm[l + 1]) /\ SeqTypes /\ \A r \in Ranks : k[r] \in 0 .. l
    BY <1>4
  <2>a. \E na, ns : Filed(g, l + 1, mm, k, na, ns, f) /\ GoesOn(l, la, ls, na, ns)
    BY <1>2, <2>1, FiledGrows, Zenon
  <2>2. PICK na, ns : Filed(g, l + 1, mm, k, na, ns, f) /\ GoesOn(l, la, ls, na, ns)
    BY <2>a, Zenon
  <2>3. CASE t = 1
    BY <2>2, <2>3
  <2>4. CASE t = 2
    <3>1. PICK i \in Nat : i = l + 1
      OBVIOUS
    <3>2. i + 1 = l + 2 /\ Meant(mm[i + 1]) /\ \A r \in Ranks : k[r] \in 0 .. i
      BY <2>4, <3>1
    <3>3. PICK oa, os : Filed(g, i + 1, mm, k, oa, os, f) /\ GoesOn(i, na, ns, oa, os)
      BY <2>2, <3>1, <3>2, FiledGrows
    <3>4. /\ \A j \in 0 .. i : oa[j] = na[j]
          /\ \A j \in 1 .. na[i] : os[j] = ns[j]
      BY <3>3 DEF GoesOn
    <3>5. /\ \A j \in 0 .. l : na[j] = la[j]
          /\ \A j \in 1 .. la[l] : ns[j] = ls[j]
      BY <2>2 DEF GoesOn
    <3>6. l \in 0 .. l /\ l \in 0 .. i /\ \A j \in 0 .. l : j \in 0 .. i
      BY <3>1
    <3>7. la[l] \in Nat /\ na[i] \in Nat /\ la[l] <= na[i]
      <4>1. na[l] \in Nat /\ na[l] <= na[i]
        BY <2>2, <3>1, <3>6 DEF Filed, Charted
      <4>2. i \in 0 .. i
        OBVIOUS
      <4>3. na[i] \in Nat
        BY <2>2, <3>1, <4>2 DEF Filed, Charted
      <4> QED BY <3>5, <3>6, <4>1, <4>3
    <3>8. \A j \in 1 .. la[l] : j \in 1 .. na[i]
      BY <3>7
    <3>9. GoesOn(l, la, ls, oa, os)
      BY <3>4, <3>5, <3>6, <3>8 DEF GoesOn
    <3> QED BY <2>4, <3>2, <3>3, <3>9
  <2> QED BY <1>4, <2>3, <2>4
<1> QED BY <1>3, <1>4

-----------------------------------------------------------------------------
(* The steps of the servers.                                                *)

LEMMA HoldsKept ==
  ASSUME NEW g, NEW r, NEW k, NEW la, NEW ls, NEW e, Holds(g, r, k, la, ls, e),
         phase'[g][r] = phase[g][r], pieces'[g][r] = pieces[g][r]
  PROVE  Holds(g, r, k, la, ls, e)'
BY DEF Holds

\* A server outside its loop over the pieces has sent all of them.
LEMMA HoldsNothing ==
  ASSUME NEW g, NEW r, NEW k, NEW la, NEW ls, NEW e, e = la[k], phase'[g][r] # "forward"
  PROVE  Holds(g, r, k, la, ls, e)'
BY DEF Holds

LEMMA CarriesKept ==
  ASSUME NEW g, NEW r, NEW ls, NEW b, NEW e, Carries(g, r, ls, b, e),
         lchan'[g][r] = lchan[g][r]
  PROVE  Carries(g, r, ls, b, e)'
BY DEF Carries

LEMMA BatchedKept ==
  ASSUME NEW g, NEW ls, NEW b, Batched(g, ls, b), busy'[g] = busy[g], batch'[g] = batch[g]
  PROVE  Batched(g, ls, b)'
BY DEF Batched

\* What a filed group is, server by server.
LEMMA FiledIs ==
  ASSUME NEW g \in Groups, NEW l \in Nat, NEW m, NEW k, NEW la, NEW ls, NEW f,
         Filed(g, l, m, k, la, ls, f)
  PROVE  /\ Charted(l, m, la, ls)
         /\ \A j \in 0 .. l : la[j] \in Nat /\ la[j] <= la[l]
         /\ la[l] \in Nat
         /\ \A r \in Ranks : f[r] \in Nat /\ f[r] <= la[l] /\ Holds(g, r, k[r], la, ls, f[r])
         /\ \A r \in Others : Carries(g, r, ls, f[Root], f[r])
         /\ f[Root] \in Nat /\ Batched(g, ls, f[Root])
<1>1. Charted(l, m, la, ls) /\ \A j \in 0 .. l : la[j] \in Nat /\ la[j] <= la[l]
  BY DEF Filed, Charted
<1>2. l \in 0 .. l
  OBVIOUS
<1> QED BY <1>1, <1>2, OthersOf DEF Filed

\* A step of one group leaves the others filed.
LEMMA FiledKept ==
  ASSUME NEW g \in Groups, NEW l \in Nat, NEW m, NEW k, NEW la, NEW ls, NEW f,
         Filed(g, l, m, k, la, ls, f), pieces'[g] = pieces[g],
         lchan'[g] = lchan[g], batch'[g] = batch[g], busy'[g] = busy[g],
         \A r \in Ranks : \/ phase'[g][r] = phase[g][r]
                          \/ /\ phase[g][r] \notin {"forward", "aborted"}
                             /\ phase'[g][r] # "forward"
  PROVE  Filed(g, l, m, k, la, ls, f)'
<1>1. ASSUME NEW r \in Ranks PROVE Holds(g, r, k[r], la, ls, f[r])'
  <2>1. Holds(g, r, k[r], la, ls, f[r])
    BY DEF Filed
  <2>2. CASE phase'[g][r] = phase[g][r]
    BY <2>1, <2>2, HoldsKept
  <2>3. CASE phase[g][r] \notin {"forward", "aborted"} /\ phase'[g][r] # "forward"
    <3>1. f[r] = la[k[r]]
      BY <2>1, <2>3 DEF Holds
    <3> QED BY <2>3, <3>1, HoldsNothing
  <2> QED BY <2>2, <2>3
<1>2. \A r \in Others : Carries(g, r, ls, f[Root], f[r])'
  BY CarriesKept DEF Filed
<1>3. Batched(g, ls, f[Root])'
  BY BatchedKept DEF Filed
<1> QED BY <1>1, <1>2, <1>3 DEF Filed

\* A step of one server that has to do with its clients.
LEMMA FiledAtOne ==
  ASSUME SeqTypes, NEW g \in Groups, NEW r \in Ranks, NEW l \in Nat, NEW m, NEW k, NEW la,
         NEW ls, NEW f, Filed(g, l, m, k, la, ls, f),
         NEW kk, \A q \in Ranks : q # r => kk[q] = k[q],
         Holds(g, r, kk[r], la, ls, f[r])',
         \A q \in Ranks : q # r => /\ phase'[g][q] = phase[g][q]
                                   /\ pieces'[g][q] = pieces[g][q],
         UNCHANGED <<lchan, batch, busy>>
  PROVE  Filed(g, l, m, kk, la, ls, f)'
<1>1. ASSUME NEW q \in Ranks, q # r PROVE Holds(g, q, kk[q], la, ls, f[q])'
  <2>1. Holds(g, q, k[q], la, ls, f[q]) /\ kk[q] = k[q]
    BY <1>1 DEF Filed
  <2> QED BY <1>1, <2>1, HoldsKept
<1>2. \A q \in Others : Carries(g, q, ls, f[Root], f[q])'
  BY CarriesKept DEF Filed
<1>3. Batched(g, ls, f[Root])'
  BY BatchedKept DEF Filed
<1>4. \A q \in Ranks : Holds(g, q, kk[q], la, ls, f[q])'
  BY <1>1
<1> QED BY <1>2, <1>3, <1>4 DEF Filed

\* The record a server makes up for a close.
LEMMA CloseRecord ==
  ASSUME NEW h \in 0 .. NH, NEW r \in Ranks, NEW it, it.tag = "close", h \in {0, it.h}
  PROVE  /\ Rec("close", h, 0, 0, r) \in ServerRecords
         /\ PieceOf(r, <<Rec("close", h, 0, 0, r)>>, it)
<1>1. Rec("close", h, 0, 0, r) \in ServerRecords
  BY ServerConstants DEF Rec, ServerRecords, Ranks
<1> DEFINE a == Rec("close", h, 0, 0, r)
<1>2. a.tag = "close" /\ a.h = h /\ a \in ServerRecords
  BY <1>1 DEF Rec
<1> HIDE DEF a
<1>3. Meets(a, it)
  BY <1>2 DEF Meets
<1>4. <<a>> # End /\ <<a>> \in Seq(ServerRecords) /\ Len(<<a>>) = 1 /\ <<a>>[1] = a
  BY <1>2 DEF End
<1>5. PieceOf(r, <<a>>, it)
  <2>1. <<a>>[1].tag # "noop"
    BY <1>2, <1>4
  <2> QED BY <1>3, <1>4, <2>1 DEF PieceOf
<1> QED BY <1>1, <1>5 DEF a

\* A call and its items.
LEMMA ChartAt ==
  ASSUME NEW l \in Nat, NEW m, NEW la, NEW ls, Charted(l, m, la, ls), NEW j \in 0 .. l - 1
  PROVE  /\ Meant(m[j + 1]) /\ la[j + 1] = la[j] + Items(m[j + 1])
         /\ \A i \in 1 .. Items(m[j + 1]) : ls[la[j] + i] = Item(m[j + 1], i)
         /\ la[j] \in Nat /\ la[j + 1] \in Nat /\ la[j + 1] <= la[l]
<1>1. j \in 0 .. l /\ j + 1 \in 0 .. l
  OBVIOUS
<1> QED BY <1>1 DEF Charted

\* The items of a reduce.
LEMMA ReduceItems ==
  ASSUME NEW s, Meant(s), s.kind = "reduce"
  PROVE  /\ s.size # 0 => Items(s) = 0
         /\ s.size = 0 => /\ Items(s) = 2 /\ Item(s, 1).tag = "close"
                          /\ Item(s, 1).h = s.about.h /\ Item(s, 2).tag = "end"
BY DEF Meant, Items, Item, About

LEMMA ReduceFiled ==
  ASSUME SeqTypes, LoopInv, NEW g \in Groups, NEW r \in Ranks, NEW l \in Nat, NEW m, NEW k,
         NEW la, NEW ls, NEW f, Filed(g, l, m, k, la, ls, f), ServerReduce(g, r),
         k[r] \in 0 .. l - 1, NEW s, s = m[k[r] + 1],
         s.kind = "reduce", s.size \in Nat \cup {ExitSize},
         \A c \in Served(r) : Fits(c, Head(chan[c][g]), s),
         NEW kk, kk[r] = k[r] + 1, \A q \in Ranks : q # r => kk[q] = k[q]
  PROVE  Filed(g, l, m, kk, la, ls, f)' /\ SeqTypes'
<1> DEFINE size == Reduced(g, r, "size")
           h == Reduced(g, r, "h")
<1>0. /\ Meant(s) /\ la[k[r] + 1] = la[k[r]] + Items(s)
      /\ \A i \in 1 .. Items(s) : ls[la[k[r]] + i] = Item(s, i)
      /\ la[k[r]] \in Nat
  <2>1. Charted(l, m, la, ls)
    BY DEF Filed
  <2> QED BY <2>1, ChartAt
<1>1. s.about.h \in 0 .. NH
  BY <1>0 DEF Meant, Subjects
<1>2. h \in 0 .. NH /\ h \in {0, s.about.h}
  <2>1. 0 \in 0 .. NH
    BY ClientConstants
  <2> QED BY <1>1, <2>1, ReducedHandle
<1>3. /\ s.size = 0 => size = 0
      /\ s.size = ExitSize => size = ExitSize
      /\ s.size \in Nat \ {0} => size \in Nat \ {0}
  BY ReducedSize
<1>4. /\ phase[g][r] = "reduce"
      /\ phase' = [phase EXCEPT ![g][r] = IF size = ExitSize THEN "exited"
                                          ELSE IF size < 0 THEN "aborted"
                                          ELSE IF size > 0 THEN "gather" ELSE "forward"]
      /\ IF size = 0
         THEN pieces' = [pieces EXCEPT ![g][r] = << <<Rec("close", h, 0, 0, r)>> >>]
         ELSE pieces' = pieces
      /\ UNCHANGED <<lchan, batch, busy>>
  BY DEF ServerReduce, rootVars
<1> HIDE DEF size, h
<1>5. f[r] = la[k[r]]
  BY <1>4, FiledIs DEF Holds
<1>6. /\ \A q \in Ranks : q # r => phase'[g][q] = phase[g][q] /\ pieces'[g][q] = pieces[g][q]
      /\ phase'[g][r] = IF size = ExitSize THEN "exited"
                        ELSE IF size < 0 THEN "aborted"
                        ELSE IF size > 0 THEN "gather" ELSE "forward"
      /\ size = 0 => pieces'[g][r] = << <<Rec("close", h, 0, 0, r)>> >>
  BY <1>4 DEF LoopInv, ServersTypeOK, SeqTypes
<1>7. Holds(g, r, kk[r], la, ls, f[r])' /\ SeqTypes'
  <2>1. CASE s.size = 0
    <3> DEFINE p == <<Rec("close", h, 0, 0, r)>>
    <3>1. size = 0 /\ size # ExitSize /\ phase'[g][r] = "forward" /\ pieces'[g][r] = <<p>>
      BY <1>3, <1>6, <2>1 DEF ExitSize
    <3>2. /\ la[kk[r]] = f[r] + 2 /\ ls[f[r] + 1].tag = "close" /\ ls[f[r] + 2].tag = "end"
          /\ ls[f[r] + 1].h = s.about.h
      BY <1>0, <1>5, <2>1, ReduceItems
    <3>3. p \in Seq(ServerRecords) /\ PieceOf(r, p, ls[f[r] + 1])
      <4>1. PICK it : it = ls[f[r] + 1]
        OBVIOUS
      <4>2. it.tag = "close" /\ h \in {0, it.h}
        BY <1>2, <3>2, <4>1
      <4>3. PieceOf(r, p, it) /\ p \in Seq(ServerRecords)
        BY <1>2, <4>2, CloseRecord
      <4> QED BY <4>1, <4>3
    <3>4. pieces' = [pieces EXCEPT ![g][r] = <<p>>]
      BY <1>4, <3>1
    <3> HIDE DEF p
    <3>5. Holds(g, r, kk[r], la, ls, f[r])'
      <4>1. f[r] \in Nat
        BY <1>0, <1>5
      <4> QED BY <3>1, <3>2, <3>3, <4>1 DEF Holds
    <3>6. <<p>> \in Seq(Seq(ServerRecords))
      BY <3>3
    <3> QED BY <1>4, <3>4, <3>5, <3>6 DEF SeqTypes
  <2>2. CASE s.size # 0
    <3>1. phase'[g][r] # "forward" /\ pieces' = pieces
      BY <1>3, <1>4, <1>6, <2>2 DEF ExitSize
    <3>2. f[r] = la[kk[r]]
      BY <1>0, <1>5, <2>2, ReduceItems
    <3> QED BY <1>4, <3>1, <3>2, HoldsNothing DEF SeqTypes
  <2> QED BY <2>1, <2>2
<1> QED BY <1>4, <1>6, <1>7, FiledAtOne

LEMMA HeadTail ==
  ASSUME NEW S, NEW s \in Seq(S), s # <<>>
  PROVE  /\ Len(s) \in Nat \ {0} /\ Head(s) = s[1] /\ Head(s) \in S /\ Tail(s) \in Seq(S)
         /\ Len(Tail(s)) = Len(s) - 1
         /\ \A i \in 1 .. Len(s) - 1 : Tail(s)[i] = s[i + 1]
OBVIOUS

LEMMA AppendIs ==
  ASSUME NEW S, NEW s \in Seq(S), NEW x \in S
  PROVE  /\ Append(s, x) \in Seq(S) /\ Len(Append(s, x)) = Len(s) + 1 /\ Len(s) \in Nat
         /\ \A i \in 1 .. Len(s) : Append(s, x)[i] = s[i]
         /\ Append(s, x)[Len(s) + 1] = x
OBVIOUS

\* A server loses its first piece.
LEMMA HoldsNext ==
  ASSUME NEW g, NEW r, NEW k, NEW la, NEW ls, NEW e \in Nat, Holds(g, r, k, la, ls, e),
         phase[g][r] = "forward", phase'[g][r] = phase[g][r],
         pieces[g][r] \in Seq(Seq(ServerRecords)), pieces[g][r] # <<>>,
         pieces'[g][r] = Tail(pieces[g][r]), la[k] \in Nat
  PROVE  /\ Holds(g, r, k, la, ls, e + 1)' /\ e + 1 <= la[k]
         /\ ls[e + 1].tag # "end" /\ PieceOf(r, Head(pieces[g][r]), ls[e + 1])
<1> DEFINE s == pieces[g][r]
<1>1. /\ Len(s) \in Nat \ {0} /\ Head(s) = s[1] /\ Len(Tail(s)) = Len(s) - 1
      /\ \A i \in 1 .. Len(s) - 1 : Tail(s)[i] = s[i + 1]
  BY HeadTail
<1>2. /\ e + Len(s) + 1 = la[k] /\ ls[la[k]].tag = "end"
      /\ \A i \in 1 .. Len(s) : ls[e + i].tag # "end" /\ PieceOf(r, s[i], ls[e + i])
  BY DEF Holds
<1>6. pieces'[g][r] = Tail(s)
  OBVIOUS
<1> HIDE DEF s
<1>3. 1 \in 1 .. Len(s) /\ e + 1 <= la[k]
  BY <1>1, <1>2
<1>4. ASSUME NEW i \in 1 .. Len(Tail(s))
      PROVE  ls[(e + 1) + i].tag # "end" /\ PieceOf(r, Tail(s)[i], ls[(e + 1) + i])
  <2>1. i + 1 \in 1 .. Len(s) /\ Tail(s)[i] = s[i + 1] /\ e + (i + 1) = (e + 1) + i
    BY <1>1
  <2>2. PICK j : j = i + 1
    OBVIOUS
  <2>3. ls[e + j].tag # "end" /\ PieceOf(r, s[j], ls[e + j])
    BY <1>2, <2>1, <2>2
  <2> QED BY <2>1, <2>2, <2>3
<1>5. (e + 1) + Len(Tail(s)) + 1 = la[k]
  <2>1. PICK p \in Nat \ {0} : p = Len(s)
    BY <1>1, Zenon
  <2>4. Len(Tail(s)) = p - 1
    BY <1>1, <2>1
  <2>2. e + Len(s) + 1 = la[k] /\ Len(s) = p
    BY <1>2, <2>1
  <2>3. (e + 1) + (p - 1) + 1 = e + p + 1
    BY <2>1
  <2>5. PICK q : q = Len(Tail(s))
    OBVIOUS
  <2>6. q = p - 1 /\ e + p + 1 = la[k]
    BY <2>2, <2>4, <2>5
  <2>7. (e + 1) + q + 1 = la[k]
    BY <2>3, <2>6
  <2> QED BY <2>5, <2>7, Zenon
<1>7. ls[e + 1].tag # "end" /\ PieceOf(r, Head(s), ls[e + 1])
  <2>1. 1 \in 1 .. Len(s) /\ s[1] = Head(s)
    BY <1>1
  <2> QED BY <1>2, <2>1
<1>8. Holds(g, r, k, la, ls, e + 1)'
  BY <1>2, <1>4, <1>5, <1>6 DEF Holds
<1> QED BY <1>3, <1>7, <1>8 DEF s

\* One more piece on its way.
LEMMA CarriesMore ==
  ASSUME NEW g, NEW r, NEW ls, NEW b \in Nat, NEW e \in Nat, Carries(g, r, ls, b, e),
         NEW p \in Seq(ServerRecords), PieceOf(r, p, ls[e + 1]),
         lchan[g][r] \in Seq(Seq(ServerRecords)), lchan'[g][r] = Append(lchan[g][r], p)
  PROVE  Carries(g, r, ls, b, e + 1)'
<1> DEFINE s == lchan[g][r]
<1>1. /\ Len(Append(s, p)) = Len(s) + 1 /\ Len(s) \in Nat
      /\ \A i \in 1 .. Len(s) : Append(s, p)[i] = s[i]
      /\ Append(s, p)[Len(s) + 1] = p
  BY AppendIs
<1>2. e = b + Len(s) /\ \A i \in 1 .. Len(s) : PieceOf(r, s[i], ls[b + i])
  BY DEF Carries
<1>3. ASSUME NEW i \in 1 .. Len(s) + 1 PROVE PieceOf(r, Append(s, p)[i], ls[b + i])
  <2>1. CASE i = Len(s) + 1
    <3>1. b + i = e + 1
      <4>1. PICK n \in Nat : n = Len(s)
        BY <1>1
      <4>2. e = b + n /\ i = n + 1
        BY <1>2, <2>1, <4>1
      <4> QED BY <4>2
    <3>2. Append(s, p)[i] = p
      BY <1>1, <2>1
    <3> QED BY <3>1, <3>2
  <2>2. CASE i # Len(s) + 1
    <3>1. i \in 1 .. Len(s)
      <4>1. PICK n \in Nat : n = Len(s)
        BY <1>1
      <4>2. i \in 1 .. n + 1 /\ i # n + 1
        BY <2>2, <4>1
      <4> QED BY <4>1, <4>2
    <3> QED BY <1>1, <1>2, <3>1
  <2> QED BY <2>1, <2>2
<1>4. e + 1 = b + (Len(s) + 1)
  BY <1>1, <1>2
<1>5. lchan'[g][r] = Append(s, p)
  OBVIOUS
<1> HIDE DEF s
<1> QED BY <1>1, <1>3, <1>4, <1>5 DEF Carries

\* One piece has arrived.
LEMMA CarriesLess ==
  ASSUME NEW g, NEW r, NEW ls, NEW b \in Nat, NEW e \in Nat, Carries(g, r, ls, b, e),
         lchan[g][r] \in Seq(Seq(ServerRecords)), lchan[g][r] # <<>>,
         lchan'[g][r] = Tail(lchan[g][r])
  PROVE  /\ Carries(g, r, ls, b + 1, e)'
         /\ PieceOf(r, Head(lchan[g][r]), ls[b + 1]) /\ Head(lchan[g][r]) \in Seq(ServerRecords)
<1> DEFINE s == lchan[g][r]
<1>1. /\ Len(s) \in Nat \ {0} /\ Head(s) = s[1] /\ Len(Tail(s)) = Len(s) - 1
      /\ Head(s) \in Seq(ServerRecords)
      /\ \A i \in 1 .. Len(s) - 1 : Tail(s)[i] = s[i + 1]
  BY HeadTail
<1>2. e = b + Len(s) /\ \A i \in 1 .. Len(s) : PieceOf(r, s[i], ls[b + i])
  BY DEF Carries
<1>5. lchan'[g][r] = Tail(s)
  OBVIOUS
<1> HIDE DEF s
<1>3. ASSUME NEW i \in 1 .. Len(Tail(s)) PROVE PieceOf(r, Tail(s)[i], ls[(b + 1) + i])
  <2>1. i + 1 \in 1 .. Len(s) /\ Tail(s)[i] = s[i + 1] /\ b + (i + 1) = (b + 1) + i
    BY <1>1
  <2> QED BY <1>2, <2>1
<1>4. e = (b + 1) + Len(Tail(s)) /\ 1 \in 1 .. Len(s)
  <2>1. PICK p \in Nat \ {0} : p = Len(s)
    BY <1>1, Zenon
  <2>4. Len(Tail(s)) = p - 1
    BY <1>1, <2>1
  <2>2. e = b + Len(s) /\ Len(s) = p
    BY <1>2, <2>1
  <2>3. PICK q \in Nat : q = p - 1
    OBVIOUS
  <2>5. Len(Tail(s)) = q
    BY <2>3, <2>4
  <2>6. e = b + p /\ b + p = (b + 1) + q /\ 1 \in 1 .. p
    BY <2>2, <2>3
  <2> QED BY <2>1, <2>5, <2>6
<1>6. PieceOf(r, Head(s), ls[b + 1])
  BY <1>1, <1>2, <1>4
<1>7. Carries(g, r, ls, b + 1, e)'
  BY <1>3, <1>4, <1>5 DEF Carries
<1> QED BY <1>1, <1>6, <1>7 DEF s

\* f, with one more item behind server r.
OneItem(ff, f, r) == \A q \in Ranks : ff[q] = IF q = r THEN f[r] + 1 ELSE f[q]

LEMMA OneItemExists ==
  ASSUME NEW f, NEW r \in Ranks
  PROVE  \E ff : OneItem(ff, f, r)
<1> DEFINE ff == [q \in Ranks |-> IF q = r THEN f[r] + 1 ELSE f[q]]
<1>1. \A q \in Ranks : ff[q] = IF q = r THEN f[r] + 1 ELSE f[q]
  OBVIOUS
<1> HIDE DEF ff
<1> QED BY <1>1 DEF OneItem

\* A server at the end of its pieces comes to the end of the message.
LEMMA HoldsEnd ==
  ASSUME NEW g, NEW r, NEW k, NEW la, NEW ls, NEW e \in Nat, Holds(g, r, k, la, ls, e),
         phase[g][r] = "forward", pieces[g][r] = <<>>
  PROVE  e + 1 = la[k] /\ ls[e + 1].tag = "end"
<1>1. Len(pieces[g][r]) = 0
  OBVIOUS
<1>2. e + Len(pieces[g][r]) + 1 = la[k] /\ ls[la[k]].tag = "end"
  BY DEF Holds
<1>3. e + 0 + 1 = e + 1
  OBVIOUS
<1> QED BY <1>1, <1>2, <1>3

LEMMA ForwardFiled ==
  ASSUME SeqTypes, LoopInv, NEW g \in Groups, NEW r \in Others, NEW l \in Nat, NEW m, NEW k,
         NEW la, NEW ls, NEW f, Filed(g, l, m, k, la, ls, f), Forward(g, r), k[r] \in 0 .. l
  PROVE  SeqTypes' /\ \E ff : ff[Root] = f[Root] /\ Filed(g, l, m, k, la, ls, ff)'
<1>1. r \in Ranks /\ r # Root
  BY OthersOf
<1>2. PICK ff : OneItem(ff, f, r)
  BY <1>1, OneItemExists
<1>3. /\ f[r] \in Nat /\ Holds(g, r, k[r], la, ls, f[r]) /\ la[k[r]] \in Nat /\ la[k[r]] <= la[l]
      /\ la[l] \in Nat /\ f[Root] \in Nat /\ Carries(g, r, ls, f[Root], f[r])
  BY <1>1, FiledIs
<1>4. ff[r] = f[r] + 1 /\ \A q \in Ranks : q # r => ff[q] = f[q]
  BY <1>1, <1>2 DEF OneItem
<1>5. /\ pieces[g][r] \in Seq(Seq(ServerRecords)) /\ lchan[g][r] \in Seq(Seq(ServerRecords))
      /\ phase[g][r] = "forward" /\ UNCHANGED <<batch, busy>>
  BY <1>1, HeldTypes DEF Forward, rootVars
<1>6. /\ SeqTypes' /\ Holds(g, r, k[r], la, ls, f[r] + 1)' /\ f[r] + 1 <= la[l]
      /\ Carries(g, r, ls, f[Root], f[r] + 1)'
      /\ \A q \in Ranks : q # r => phase'[g][q] = phase[g][q] /\ pieces'[g][q] = pieces[g][q]
      /\ \A q \in Others : q # r => lchan'[g][q] = lchan[g][q]
  <2>1. CASE pieces[g][r] # <<>>
    <3> DEFINE p == Head(pieces[g][r])
    <3>1. /\ lchan' = [lchan EXCEPT ![g][r] = Append(@, p)]
          /\ pieces' = [pieces EXCEPT ![g][r] = Tail(@)] /\ phase' = phase
      BY <2>1 DEF Forward
    <3>2. p \in Seq(ServerRecords) /\ Tail(pieces[g][r]) \in Seq(Seq(ServerRecords))
      BY <1>5, <2>1, HeadTail
    <3>3. Append(lchan[g][r], p) \in Seq(Seq(ServerRecords))
      BY <1>5, <3>2, AppendIs
    <3> HIDE DEF p
    <3>4. /\ pieces'[g][r] = Tail(pieces[g][r]) /\ lchan'[g][r] = Append(lchan[g][r], p)
          /\ \A q \in Ranks : q # r => phase'[g][q] = phase[g][q] /\ pieces'[g][q] = pieces[g][q]
          /\ \A q \in Others : q # r => lchan'[g][q] = lchan[g][q]
      BY <1>1, <3>1 DEF SeqTypes
    <3>5. SeqTypes'
      BY <1>1, <1>5, <3>1, <3>2, <3>3 DEF SeqTypes
    <3>6. /\ Holds(g, r, k[r], la, ls, f[r] + 1)' /\ f[r] + 1 <= la[k[r]]
          /\ PieceOf(r, p, ls[f[r] + 1])
      <4>1. phase'[g][r] = phase[g][r] /\ pieces'[g][r] = Tail(pieces[g][r])
        BY <3>1, <3>4
      <4>2. f[r] \in Nat /\ la[k[r]] \in Nat /\ Holds(g, r, k[r], la, ls, f[r])
        BY <1>3
      <4>3. pieces[g][r] \in Seq(Seq(ServerRecords)) /\ phase[g][r] = "forward"
        BY <1>5
      <4>4. PICK kr, fr : kr = k[r] /\ fr = f[r]
        OBVIOUS
      <4>5. /\ Holds(g, r, kr, la, ls, fr + 1)' /\ fr + 1 <= la[kr]
            /\ PieceOf(r, Head(pieces[g][r]), ls[fr + 1])
        BY <2>1, <4>1, <4>2, <4>3, <4>4, HoldsNext
      <4> QED BY <4>4, <4>5 DEF p
    <3>7. Carries(g, r, ls, f[Root], f[r] + 1)'
      BY <1>3, <1>5, <3>2, <3>4, <3>6, CarriesMore
    <3> QED BY <1>3, <3>4, <3>5, <3>6, <3>7
  <2>2. CASE pieces[g][r] = <<>>
    <3>1. /\ lchan' = [lchan EXCEPT ![g][r] = Append(@, End)]
          /\ phase' = [phase EXCEPT ![g][r] = LoopTop(g, r)] /\ pieces' = pieces
      BY <2>2 DEF Forward
    <3>2. End \in Seq(ServerRecords)
      BY DEF End
    <3>3. Append(lchan[g][r], End) \in Seq(Seq(ServerRecords))
      BY <1>5, <3>2, AppendIs
    <3>4. /\ lchan'[g][r] = Append(lchan[g][r], End) /\ phase'[g][r] = LoopTop(g, r)
          /\ \A q \in Ranks : q # r => phase'[g][q] = phase[g][q] /\ pieces'[g][q] = pieces[g][q]
          /\ \A q \in Others : q # r => lchan'[g][q] = lchan[g][q]
      BY <1>1, <3>1 DEF SeqTypes, LoopInv, ServersTypeOK
    <3>5. SeqTypes'
      BY <1>5, <3>1, <3>3 DEF SeqTypes
    <3>6. f[r] + 1 = la[k[r]] /\ ls[f[r] + 1].tag = "end"
      BY <1>3, <1>5, <2>2, HoldsEnd
    <3>7. Holds(g, r, k[r], la, ls, f[r] + 1)'
      <4>1. phase'[g][r] # "forward"
        BY <3>4, ReturnTo
      <4> QED BY <3>6, <4>1, HoldsNothing
    <3>8. Carries(g, r, ls, f[Root], f[r] + 1)'
      <4>1. PieceOf(r, End, ls[f[r] + 1])
        BY <3>6 DEF PieceOf
      <4> QED BY <1>3, <1>5, <3>2, <3>4, <4>1, CarriesMore
    <3> QED BY <1>3, <3>4, <3>5, <3>6, <3>7, <3>8
  <2> QED BY <2>1, <2>2
<1>7. ASSUME NEW q \in Ranks
      PROVE  ff[q] \in Nat /\ ff[q] <= la[l] /\ Holds(g, q, k[q], la, ls, ff[q])'
  <2>1. CASE q = r
    BY <1>3, <1>4, <1>6, <2>1
  <2>2. CASE q # r
    <3>1. f[q] \in Nat /\ f[q] <= la[l] /\ Holds(g, q, k[q], la, ls, f[q])
      BY DEF Filed
    <3> QED BY <1>4, <1>6, <2>2, <3>1, HoldsKept
  <2> QED BY <2>1, <2>2
<1>8. ff[Root] = f[Root]
  BY <1>1, <1>4, OthersOf
<1>9. ASSUME NEW q \in Others PROVE Carries(g, q, ls, ff[Root], ff[q])'
  <2>1. CASE q = r
    BY <1>4, <1>6, <1>8, <2>1
  <2>2. CASE q # r
    <3>1. Carries(g, q, ls, f[Root], f[q]) /\ q \in Ranks
      BY OthersOf DEF Filed
    <3> QED BY <1>4, <1>6, <1>8, <2>2, <3>1, CarriesKept
  <2> QED BY <2>1, <2>2
<1>10. Batched(g, ls, ff[Root])'
  <2>1. Batched(g, ls, f[Root])
    BY DEF Filed
  <2> QED BY <1>5, <1>8, <2>1, BatchedKept
<1>11. Filed(g, l, m, k, la, ls, ff)'
  BY <1>7, <1>9, <1>10 DEF Filed
<1> QED BY <1>6, <1>8, <1>11

\* The root takes one piece, or an End, from every server and goes on itself.
LEMMA RootTakes ==
  ASSUME SeqTypes, NEW g \in Groups, NEW l \in Nat, NEW m, NEW k, NEW la, NEW ls, NEW f,
         Filed(g, l, m, k, la, ls, f), Arrived(g), TakeLocal(g),
         \A q \in Others : phase'[g][q] = phase[g][q] /\ pieces'[g][q] = pieces[g][q],
         Holds(g, Root, k[Root], la, ls, f[Root] + 1)', f[Root] + 1 <= la[l],
         Batched(g, ls, f[Root] + 1)'
  PROVE  /\ \E ff : ff[Root] = f[Root] + 1 /\ Filed(g, l, m, k, la, ls, ff)'
         /\ lchan' \in [Groups -> [Others -> Seq(Seq(ServerRecords))]]
         /\ \A h \in Groups : h # g => lchan'[h] = lchan[h]
<1>1. PICK ff : OneItem(ff, f, Root)
  BY OthersOf, OneItemExists
<1>2. ff[Root] = f[Root] + 1 /\ f[Root] \in Nat /\ \A q \in Others : ff[q] = f[q] /\ q \in Ranks
  BY <1>1, OthersOf, FiledIs DEF OneItem
<1> DEFINE t == [q \in Others |-> Tail(lchan[g][q])]
<1>3. \A q \in Others : /\ lchan[g][q] \in Seq(Seq(ServerRecords)) /\ lchan[g][q] # <<>>
                        /\ Tail(lchan[g][q]) \in Seq(Seq(ServerRecords))
  BY HeldTypes, HeadTail DEF Arrived
<1>4. t \in [Others -> Seq(Seq(ServerRecords))] /\ \A q \in Others : t[q] = Tail(lchan[g][q])
  BY <1>3
<1>5. lchan' = [lchan EXCEPT ![g] = t]
  BY DEF TakeLocal
<1> HIDE DEF t
<1>6. /\ lchan' \in [Groups -> [Others -> Seq(Seq(ServerRecords))]]
      /\ \A h \in Groups : h # g => lchan'[h] = lchan[h]
      /\ \A q \in Others : lchan'[g][q] = Tail(lchan[g][q])
  BY <1>4, <1>5 DEF SeqTypes
<1>7. ASSUME NEW q \in Others PROVE Carries(g, q, ls, ff[Root], ff[q])'
  <2>1. Carries(g, q, ls, f[Root], f[q]) /\ f[q] \in Nat
    BY <1>2 DEF Filed
  <2> QED BY <1>2, <1>3, <1>6, <2>1, CarriesLess
<1>8. ASSUME NEW q \in Ranks
      PROVE  ff[q] \in Nat /\ ff[q] <= la[l] /\ Holds(g, q, k[q], la, ls, ff[q])'
  <2>1. CASE q = Root
    BY <1>2, <2>1
  <2>2. CASE q \in Others
    <3>1. f[q] \in Nat /\ f[q] <= la[l] /\ Holds(g, q, k[q], la, ls, f[q])
      BY DEF Filed
    <3> QED BY <1>2, <2>2, <3>1, HoldsKept
  <2> QED BY <2>1, <2>2, OthersOf
<1>9. Batched(g, ls, ff[Root])'
  BY <1>2
<1>10. Filed(g, l, m, k, la, ls, ff)'
  BY <1>7, <1>8, <1>9 DEF Filed
<1> QED BY <1>2, <1>6, <1>10

\* The pieces of a batch, put together.
BatchOf(b, it) ==
  /\ b \in Seq(ServerRecords) /\ \A i \in 1 .. Len(b) : Meets(b[i], it)
  /\ \E i \in 1 .. Len(b) : b[i].tag = it.tag

LEMMA BatchIs ==
  ASSUME NEW it, it.tag # "end", NEW p, NEW P, \A i \in 1 .. NS - 1 : PieceOf(i - 1, P[i], it),
         PieceOf(Root, p, it), NEW b,
         b = FlattenSeq([i \in 1 .. NS |-> IF i = NS THEN p ELSE P[i]])
  PROVE  BatchOf(b, it)
<1>0. NS \in Nat \ {0}
  BY ServerConstants
<1> DEFINE ff == [i \in 1 .. NS |-> IF i = NS THEN p ELSE P[i]]
<1>1. \A i \in 1 .. NS : PieceOf(i - 1, ff[i], it)
  BY <1>0 DEF Root
<1>2. b = Column(ff, NS)
  <2>1. b = FlattenSeq(ff)
    OBVIOUS
  <2> HIDE DEF ff
  <2>2. ff = [i \in 1 .. NS |-> ff[i]]
    BY DEF ff
  <2> QED BY <2>1, <2>2 DEF Column
<1> HIDE DEF ff
<1>3. \A i \in 1 .. NS : ff[i] \in Seq(ServerRecords) /\ \A j \in 1 .. Len(ff[i]) : Meets(ff[i][j], it)
  BY <1>1 DEF PieceOf
<1>4. b \in Seq(ServerRecords)
  <2>1. NS \in 0 .. NS
    BY <1>0
  <2> QED BY <1>0, <1>2, <1>3, <2>1, ColumnType
<1>5. ASSUME NEW i \in 1 .. Len(b) PROVE Meets(b[i], it)
  <2>1. \A j \in 1 .. Len(Column(ff, NS)) : InRow(ff, NS, Column(ff, NS)[j])
    BY <1>0, <1>3, ColumnFrom
  <2>2. PICK n \in 1 .. NS : \E q \in 1 .. Len(ff[n]) : b[i] = ff[n][q]
    <3>1. InRow(ff, NS, b[i])
      BY <1>2, <2>1
    <3> QED BY <3>1 DEF InRow
  <2> QED BY <1>3, <2>2
<1>6. \E i \in 1 .. Len(b) : b[i].tag = it.tag
  <2>1. 1 \in 1 .. NS
    BY <1>0
  <2>2. PICK q \in Seq(ServerRecords) : q = ff[1]
    BY <1>3, <2>1
  <2>3. /\ q # <<>> /\ \A i \in 1 .. Len(q) : Meets(q[i], it)
        /\ \A i \in 1 .. Len(q) : q[i].tag # "noop"
    <3>1. PieceOf(0, q, it)
      BY <1>1, <2>1, <2>2
    <3> QED BY <3>1 DEF PieceOf, End
  <2>4. 1 \in 1 .. Len(q)
    BY <2>3, HeadTail
  <2>5. q[1].tag = it.tag
    BY <2>3, <2>4 DEF Meets
  <2>6. Len(q) <= Len(b) /\ \A j \in 1 .. Len(q) : b[j] = q[j]
    <3>1. \A i \in 1 .. 1 - 1 : Len(ff[i]) = 0
      OBVIOUS
    <3>2. Len(ff[1]) <= Len(Column(ff, NS)) /\ \A j \in 1 .. Len(ff[1]) : Column(ff, NS)[j] = ff[1][j]
      BY <1>0, <1>3, <2>1, <3>1, ColumnHead
    <3> QED BY <1>2, <2>2, <3>2
  <2>7. 1 \in 1 .. Len(b)
    <3>1. PICK x \in Nat, y \in Nat : x = Len(q) /\ y = Len(b)
      BY <1>4, LenProperties
    <3> QED BY <2>4, <2>6, <3>1
  <2> QED BY <2>4, <2>5, <2>6, <2>7
<1> QED BY <1>4, <1>5, <1>6 DEF BatchOf

\* The root has gone on to item e: it has at least a record of it, or the message
\* is over.
Arrives(g, ls, e) ==
  IF busy'[g] THEN \E i \in 1 .. Len(batch'[g]) : batch'[g][i].tag = ls[e].tag
  ELSE ls[e].tag = "end"

LEMMA CollectFiled ==
  ASSUME SeqTypes, LoopInv, NEW g \in Groups, NEW l \in Nat, NEW m, NEW k,
         NEW la, NEW ls, NEW f, Filed(g, l, m, k, la, ls, f), RootCollect(g),
         k[Root] \in 0 .. l
  PROVE  /\ SeqTypes' /\ Arrives(g, ls, f[Root] + 1)
         /\ \E ff : ff[Root] = f[Root] + 1 /\ Filed(g, l, m, k, la, ls, ff)'
<1> DEFINE p == Head(pieces[g][Root])
           P == [i \in 1 .. NS - 1 |-> Head(lchan[g][i - 1])]
           it == ls[f[Root] + 1]
<1>1. /\ f[Root] \in Nat /\ Holds(g, Root, k[Root], la, ls, f[Root])
      /\ la[k[Root]] \in Nat /\ la[k[Root]] <= la[l] /\ la[l] \in Nat
  BY OthersOf, FiledIs
<1>2. /\ phase[g][Root] = "forward" /\ phase' = phase /\ pieces[g][Root] # <<>>
      /\ pieces' = [pieces EXCEPT ![g][Root] = Tail(@)]
      /\ busy' = [busy EXCEPT ![g] = TRUE]
      /\ Arrived(g) /\ TakeLocal(g) /\ \A r \in Others : Head(lchan[g][r]) # End
  BY DEF RootCollect
<1>3. pieces[g][Root] \in Seq(Seq(ServerRecords))
  BY OthersOf, HeldTypes
<1>4. Tail(pieces[g][Root]) \in Seq(Seq(ServerRecords)) /\ p \in Seq(ServerRecords)
  BY <1>2, <1>3, HeadTail
<1>5. /\ pieces'[g][Root] = Tail(pieces[g][Root])
      /\ pieces' \in [Groups -> [Ranks -> Seq(Seq(ServerRecords))]]
      /\ \A q \in Others : pieces'[g][q] = pieces[g][q]
  BY <1>2, <1>4, OthersOf DEF SeqTypes
<1>6. /\ Holds(g, Root, k[Root], la, ls, f[Root] + 1)' /\ f[Root] + 1 <= la[k[Root]]
      /\ it.tag # "end" /\ PieceOf(Root, p, it)
  BY <1>1, <1>2, <1>3, <1>5, HoldsNext
<1>7. ASSUME NEW i \in 1 .. NS - 1 PROVE PieceOf(i - 1, P[i], it)
  <2>1. i - 1 \in Others /\ P[i] = Head(lchan[g][i - 1])
    BY ServerConstants DEF Others
  <2>2. PICK r \in Others : r = i - 1
    BY <2>1
  <2> DEFINE s == lchan[g][r]
  <2>3. s \in Seq(Seq(ServerRecords)) /\ s # <<>>
    BY <1>2, HeldTypes DEF Arrived
  <2>4. Head(s) = s[1] /\ 1 \in 1 .. Len(s)
    BY <2>3, HeadTail
  <2>5. Carries(g, r, ls, f[Root], f[r])
    BY DEF Filed
  <2>6. PieceOf(r, s[1], it)
    BY <2>4, <2>5 DEF Carries
  <2> QED BY <2>1, <2>2, <2>4, <2>6
<1>8. PICK b : /\ b = FlattenSeq([i \in 1 .. NS |-> IF i = NS THEN p ELSE P[i]])
               /\ batch' = [batch EXCEPT ![g] = b]
  <2>1. batch' = [batch EXCEPT ![g] =
          Collect(NS, LAMBDA i : IF i = NS THEN Head(pieces[g][Root])
                                           ELSE Head(lchan[g][i - 1]))]
    BY DEF RootCollect
  <2>2. [i \in 1 .. NS |-> IF i = NS THEN Head(pieces[g][Root]) ELSE Head(lchan[g][i - 1])]
          = [i \in 1 .. NS |-> IF i = NS THEN p ELSE P[i]]
    BY ServerConstants
  <2> QED BY <2>1, <2>2 DEF Collect
<1> HIDE DEF P, p, it
<1>9. /\ b \in Seq(ServerRecords) /\ \A i \in 1 .. Len(b) : Meets(b[i], it)
      /\ \E i \in 1 .. Len(b) : b[i].tag = it.tag
  <2>1. BatchOf(b, it)
    BY <1>6, <1>7, <1>8, BatchIs
  <2> QED BY <2>1 DEF BatchOf
<1>10. batch' \in [Groups -> Seq(ServerRecords)] /\ batch'[g] = b /\ busy'[g]
  BY <1>2, <1>8, <1>9 DEF SeqTypes, LoopInv, ServersTypeOK
<1>11. Batched(g, ls, f[Root] + 1)'
  <2>1. f[Root] + 1 > 0
    BY <1>1
  <2> QED BY <1>9, <1>10, <2>1 DEF Batched, it
<1>12. f[Root] + 1 <= la[l] /\ \A q \in Others : phase'[g][q] = phase[g][q]
  BY <1>1, <1>2, <1>6
<1>13. /\ \E ff : ff[Root] = f[Root] + 1 /\ Filed(g, l, m, k, la, ls, ff)'
       /\ lchan' \in [Groups -> [Others -> Seq(Seq(ServerRecords))]]
  BY <1>2, <1>5, <1>6, <1>11, <1>12, RootTakes
<1>14. Arrives(g, ls, f[Root] + 1)
  BY <1>9, <1>10 DEF Arrives, it
<1> QED BY <1>5, <1>10, <1>13, <1>14 DEF SeqTypes

LEMMA DoneFiled ==
  ASSUME SeqTypes, LoopInv, NEW g \in Groups, NEW l \in Nat, NEW m, NEW k,
         NEW la, NEW ls, NEW f, Filed(g, l, m, k, la, ls, f), RootDone(g),
         k[Root] \in 0 .. l
  PROVE  /\ SeqTypes' /\ Arrives(g, ls, f[Root] + 1)
         /\ \E ff : ff[Root] = f[Root] + 1 /\ Filed(g, l, m, k, la, ls, ff)'
<1>1. /\ f[Root] \in Nat /\ Holds(g, Root, k[Root], la, ls, f[Root])
      /\ la[k[Root]] \in Nat /\ la[k[Root]] <= la[l] /\ la[l] \in Nat
      /\ Batched(g, ls, f[Root])
  BY OthersOf, FiledIs
<1>2. /\ phase[g][Root] = "forward" /\ ~busy[g] /\ pieces[g][Root] = <<>> /\ pieces' = pieces
      /\ phase' = [phase EXCEPT ![g][Root] = LoopTop(g, Root)]
      /\ UNCHANGED <<batch, busy>> /\ Arrived(g) /\ TakeLocal(g)
  BY DEF RootDone, rootVars
<1>3. f[Root] + 1 = la[k[Root]] /\ f[Root] + 1 <= la[l]
  BY <1>1, <1>2, HoldsEnd
<1>4. phase'[g][Root] # "forward" /\ \A q \in Others : phase'[g][q] = phase[g][q]
  BY <1>2, OthersOf, ReturnTo DEF LoopInv, ServersTypeOK
<1>5. Holds(g, Root, k[Root], la, ls, f[Root] + 1)'
  BY <1>3, <1>4, HoldsNothing
<1>6. Batched(g, ls, f[Root] + 1)'
  <2>1. batch'[g] = <<>> /\ ~busy'[g] /\ Len(batch'[g]) = 0
    BY <1>1, <1>2 DEF Batched
  <2> QED BY <2>1 DEF Batched
<1>7. \A q \in Others : pieces'[g][q] = pieces[g][q]
  BY <1>2
<1>8. /\ \E ff : ff[Root] = f[Root] + 1 /\ Filed(g, l, m, k, la, ls, ff)'
      /\ lchan' \in [Groups -> [Others -> Seq(Seq(ServerRecords))]]
  BY <1>2, <1>3, <1>4, <1>5, <1>6, <1>7, RootTakes
<1>9. Arrives(g, ls, f[Root] + 1)
  <2>1. ls[f[Root] + 1].tag = "end" /\ ~busy'[g]
    BY <1>1, <1>2, HoldsEnd
  <2> QED BY <2>1 DEF Arrives
<1> QED BY <1>2, <1>8, <1>9 DEF SeqTypes

\* The root handles a record; it may stop the run.
LEMMA RecordFiled ==
  ASSUME SeqTypes, LoopInv, NEW g \in Groups, NEW l \in Nat, NEW m, NEW k,
         NEW la, NEW ls, NEW f, Filed(g, l, m, k, la, ls, f), busy[g], batch[g] # <<>>,
         NextRecord(g), UNCHANGED <<pieces, lchan, busy>>,
         phase' = phase \/ phase' = [phase EXCEPT ![g][Root] = "aborted"]
  PROVE  SeqTypes' /\ Filed(g, l, m, k, la, ls, f)'
<1>1. /\ batch[g] \in Seq(ServerRecords) /\ batch' = [batch EXCEPT ![g] = Tail(batch[g])]
      /\ Batched(g, ls, f[Root])
  BY HeldTypes DEF NextRecord, Filed
<1>2. /\ Tail(batch[g]) \in Seq(ServerRecords) /\ Len(Tail(batch[g])) = Len(batch[g]) - 1
      /\ Len(batch[g]) \in Nat \ {0}
      /\ \A i \in 1 .. Len(batch[g]) - 1 : Tail(batch[g])[i] = batch[g][i + 1]
  BY <1>1, HeadTail
<1>3. batch' \in [Groups -> Seq(ServerRecords)] /\ batch'[g] = Tail(batch[g])
  BY <1>1, <1>2 DEF SeqTypes
<1>4. ASSUME NEW i \in 1 .. Len(Tail(batch[g])) PROVE Meets(Tail(batch[g])[i], ls[f[Root]])
  <2>1. i + 1 \in 1 .. Len(batch[g]) /\ Tail(batch[g])[i] = batch[g][i + 1]
    BY <1>2
  <2> QED BY <1>1, <2>1 DEF Batched
<1>5. Batched(g, ls, f[Root])'
  <2>1. busy'[g] /\ f[Root] > 0
    BY <1>1 DEF Batched
  <2>2. \A i \in 1 .. Len(batch'[g]) : Meets(batch'[g][i], ls[f[Root]])
    BY <1>3, <1>4
  <2> QED BY <2>1, <2>2 DEF Batched
<1>6. ASSUME NEW q \in Ranks PROVE Holds(g, q, k[q], la, ls, f[q])'
  <2>1. Holds(g, q, k[q], la, ls, f[q])
    BY DEF Filed
  <2>2. CASE phase'[g][q] = phase[g][q]
    BY <2>1, <2>2, HoldsKept
  <2>3. CASE phase'[g][q] # phase[g][q]
    <3>1. phase'[g][q] = "aborted"
      BY <2>3 DEF LoopInv, ServersTypeOK
    <3> QED BY <3>1 DEF Holds
  <2> QED BY <2>2, <2>3
<1>7. \A q \in Others : Carries(g, q, ls, f[Root], f[q])'
  BY CarriesKept DEF Filed
<1>8. Filed(g, l, m, k, la, ls, f)'
  BY <1>5, <1>6, <1>7 DEF Filed
<1> QED BY <1>3, <1>8 DEF SeqTypes

LEMMA FinishFiled ==
  ASSUME SeqTypes, LoopInv, NEW g \in Groups, NEW l \in Nat, NEW m, NEW k,
         NEW la, NEW ls, NEW f, Filed(g, l, m, k, la, ls, f), FinishBatch(g)
  PROVE  SeqTypes' /\ Filed(g, l, m, k, la, ls, f)'
<1>1. /\ batch[g] = <<>> /\ UNCHANGED <<phase, pieces, lchan, batch>>
      /\ busy' = [busy EXCEPT ![g] = FALSE]
  BY DEF FinishBatch, taskVars
<1>2. ~busy'[g]
  BY <1>1 DEF LoopInv, ServersTypeOK
<1>3. Batched(g, ls, f[Root])'
  <2>1. Len(batch'[g]) = 0 /\ batch'[g] = <<>>
    BY <1>1
  <2> QED BY <1>2, <2>1 DEF Batched
<1>4. \A q \in Ranks : Holds(g, q, k[q], la, ls, f[q])'
  BY <1>1, HoldsKept DEF Filed
<1>5. \A q \in Others : Carries(g, q, ls, f[Root], f[q])'
  BY <1>1, CarriesKept DEF Filed
<1>6. Filed(g, l, m, k, la, ls, f)'
  BY <1>3, <1>4, <1>5 DEF Filed
<1> QED BY <1>1, <1>6 DEF SeqTypes

LEMMA RootFiled ==
  ASSUME SeqTypes, LoopInv, NEW g \in Groups, NEW l \in Nat, NEW m, NEW k,
         NEW la, NEW ls, NEW f, Filed(g, l, m, k, la, ls, f), RootStep(g), k[Root] \in 0 .. l
  PROVE  /\ SeqTypes' /\ (~busy[g] => Arrives(g, ls, f[Root] + 1))
         /\ \E ff : /\ Filed(g, l, m, k, la, ls, ff)'
                    /\ ff[Root] = IF busy[g] THEN f[Root] ELSE f[Root] + 1
<1>1. CASE RootCollect(g)
  <2>1. ~busy[g]
    BY <1>1 DEF RootCollect
  <2> QED BY <1>1, <2>1, CollectFiled
<1>2. CASE RootDone(g)
  <2>1. ~busy[g]
    BY <1>2 DEF RootDone
  <2> QED BY <1>2, <2>1, DoneFiled
<1>3. CASE FinishBatch(g)
  <2>1. busy[g]
    BY <1>3 DEF FinishBatch
  <2> QED BY <1>3, <2>1, FinishFiled
<1>4. ASSUME NEW tags, Handling(g, tags), NextRecord(g), UNCHANGED <<pieces, lchan, busy>>,
             phase' = phase \/ phase' = [phase EXCEPT ![g][Root] = "aborted"]
      PROVE  /\ SeqTypes' /\ (~busy[g] => Arrives(g, ls, f[Root] + 1))
             /\ \E ff : /\ Filed(g, l, m, k, la, ls, ff)'
                        /\ ff[Root] = IF busy[g] THEN f[Root] ELSE f[Root] + 1
  <2>1. busy[g] /\ batch[g] # <<>>
    BY <1>4 DEF Handling
  <2> QED BY <1>4, <2>1, RecordFiled
<1>5. CASE HandleNoop(g)
  BY <1>4, <1>5 DEF HandleNoop, taskVars
<1>6. CASE HandleMeta(g)
  BY <1>4, <1>6 DEF HandleMeta, taskVars
<1>7. CASE HandleOpen(g)
  BY <1>4, <1>7 DEF HandleOpen, taskVars
<1>8. CASE HandleCommit(g)
  BY <1>4, <1>8 DEF HandleCommit, taskVars
<1>9. CASE HandleClose(g)
  BY <1>4, <1>9 DEF HandleClose, taskVars
<1>10. CASE HandleField(g)
  <2>1. Handling(g, {"train", "field"}) /\ NextRecord(g) /\ UNCHANGED <<pieces, lchan, busy>>
    BY <1>10 DEF HandleField
  <2>2. phase' = phase \/ phase' = [phase EXCEPT ![g][Root] = "aborted"]
    BY <1>10 DEF HandleField
  <2> QED BY <1>4, <2>1, <2>2
<1> QED BY <1>1, <1>2, <1>3, <1>5, <1>6, <1>7, <1>8, <1>9, <1>10 DEF RootStep

-----------------------------------------------------------------------------
(* What collect_on_comm puts together.                                      *)

\* The records of the clients of server r: those of the first client, the
\* monitor if it is one of them, and behind them those of the others.
Gathered(recs, r, size, a) ==
  /\ recs \in Seq(Records) /\ size <= Len(recs)
  /\ \E c \in Served(r) :
       /\ Monitor \in Served(r) => c = Monitor
       /\ \A i \in 1 .. size : recs[i] = Record(c, a, i)
       /\ \A j \in size + 1 .. Len(recs) :
            \E d \in Served(r) : d # c /\ \E i \in 1 .. size : recs[j] = Record(d, a, i)

LEMMA GatheredIs ==
  ASSUME IInv, NEW g \in Groups, NEW r \in Ranks, NEW size \in Nat, NEW a, NEW recs,
         \A c \in Served(r) : /\ chan[c][g] # <<>>
                              /\ Recorded(c, Head(chan[c][g]).recs, size, a),
         recs = FlattenSeq([i \in 1 .. NC |-> IF i - 1 \in Served(r)
                                              THEN Head(chan[i - 1][g]).recs ELSE <<>>])
  PROVE  Gathered(recs, r, size, a)
<1>0. NC \in Nat \ {0} /\ Clients = 0 .. NC - 1 /\ Served(r) \subseteq Clients /\ Served(r) # {}
  BY ClientConstants, RanksOf DEF Clients
<1> DEFINE f == [i \in 1 .. NC |-> IF i - 1 \in Served(r)
                                   THEN Head(chan[i - 1][g]).recs ELSE <<>>]
<1>1. ASSUME NEW c \in Served(r)
      PROVE  /\ c + 1 \in 1 .. NC /\ f[c + 1] = Head(chan[c][g]).recs
             /\ f[c + 1] \in Seq(Records)
             /\ Len(f[c + 1]) = size /\ \A i \in 1 .. size : f[c + 1][i] = Record(c, a, i)
  <2>1. c \in Clients /\ c + 1 \in 1 .. NC /\ (c + 1) - 1 = c
    BY <1>0
  <2>2. f[c + 1] = Head(chan[c][g]).recs
    BY <2>1
  <2>3. chan[c][g] \in Seq(Messages) /\ chan[c][g] # <<>>
    BY <2>1 DEF IInv, ClientTypeOK, MessagesTypeOK
  <2>4. Head(chan[c][g]) \in Messages
    BY <2>3, HeadTail
  <2>5. Head(chan[c][g]).recs \in Seq(Records)
    BY <2>4 DEF Messages
  <2> HIDE DEF f
  <2> QED BY <2>1, <2>2, <2>5 DEF Recorded
<1>2. ASSUME NEW i \in 1 .. NC, i - 1 \notin Served(r)
      PROVE  f[i] = <<>> /\ Len(f[i]) = 0 /\ f[i] \in Seq(Records)
  BY <1>2
<1>3. recs = Column(f, NC)
  <2>1. recs = FlattenSeq(f)
    OBVIOUS
  <2> HIDE DEF f
  <2>2. f = [i \in 1 .. NC |-> f[i]]
    BY DEF f
  <2> QED BY <2>1, <2>2 DEF Column
<1> HIDE DEF f
<1>4. ASSUME NEW i \in 1 .. NC PROVE f[i] \in Seq(Records)
  <2>1. CASE i - 1 \in Served(r)
    <3>1. (i - 1) + 1 = i
      OBVIOUS
    <3> QED BY <1>1, <2>1, <3>1
  <2>2. CASE i - 1 \notin Served(r)
    BY <1>2, <2>2
  <2> QED BY <2>1, <2>2
<1>5. recs \in Seq(Records)
  <2>1. NC \in 0 .. NC
    BY <1>0
  <2> QED BY <1>0, <1>3, <1>4, <2>1, ColumnType
<1>6. PICK c \in Served(r) : \A d \in Served(r) : c <= d
  <2>1. Served(r) \subseteq Nat
    BY <1>0
  <2> QED BY <1>0, <2>1, LeastNat
<1>7. ASSUME NEW i \in 1 .. c PROVE Len(f[i]) = 0
  <2>1. i \in 1 .. NC /\ i - 1 < c /\ c \in Nat
    BY <1>0
  <2>2. i - 1 \notin Served(r)
    BY <1>6, <2>1
  <2> QED BY <1>2, <2>1, <2>2
<1>8. PICK m \in 1 .. NC : m = c + 1 /\ m - 1 = c
  BY <1>0
<1>9. /\ size <= Len(recs)
      /\ \A i \in 1 .. size : recs[i] = Record(c, a, i)
  <2>1. /\ Len(f[m]) <= Len(Column(f, NC))
        /\ \A j \in 1 .. Len(f[m]) : Column(f, NC)[j] = f[m][j]
    BY <1>0, <1>4, <1>7, <1>8, ColumnHead
  <2>2. Len(f[m]) = size /\ \A i \in 1 .. size : f[m][i] = Record(c, a, i)
    BY <1>1, <1>8
  <2> QED BY <1>3, <2>1, <2>2
<1>10. ASSUME NEW j \in size + 1 .. Len(recs)
       PROVE  \E d \in Served(r) : d # c /\ \E i \in 1 .. size : recs[j] = Record(d, a, i)
  <2>1. \A n \in Len(f[m]) + 1 .. Len(Column(f, NC)) :
           \E i \in m + 1 .. NC : \E l \in 1 .. Len(f[i]) : Column(f, NC)[n] = f[i][l]
    <3>1. NC \in Nat /\ (\A i \in 1 .. m - 1 : Len(f[i]) = 0)
      BY <1>0, <1>7, <1>8
    <3>2. Behind(f, NC, m)
      BY <1>4, <3>1, ColumnRest
    <3> QED BY <3>2 DEF Behind
  <2>2. Len(f[m]) = size
    BY <1>1, <1>8
  <2> DEFINE From(b) == \E i \in m + 1 .. NC : \E l \in 1 .. Len(f[i]) : b[j] = f[i][l]
  <2>8. j \in Len(f[m]) + 1 .. Len(Column(f, NC))
    BY <1>3, <2>2
  <2>9. From(Column(f, NC))
    BY <2>1, <2>8
  <2>7. From(recs)
    <3> HIDE DEF From
    <3> QED BY <1>3, <2>9
  <2>3. PICK i \in m + 1 .. NC : \E l \in 1 .. Len(f[i]) : recs[j] = f[i][l]
    BY <2>7
  <2>4. i \in 1 .. NC /\ i - 1 # c /\ (i - 1) + 1 = i
    BY <1>0, <1>8
  <2>5. i - 1 \in Served(r)
    <3>1. CASE i - 1 \notin Served(r)
      BY <1>2, <2>3, <2>4, <3>1
    <3> QED BY <3>1
  <2>6. Len(f[i]) = size /\ \A l \in 1 .. size : f[i][l] = Record(i - 1, a, l)
    BY <1>1, <2>4, <2>5
  <2> QED BY <2>3, <2>4, <2>5, <2>6
<1>11. Monitor \in Served(r) => c = Monitor
  <2>1. c \in Nat
    BY <1>0
  <2> QED BY <1>6, <2>1 DEF Monitor
<1> QED BY <1>5, <1>9, <1>10, <1>11 DEF Gathered

-----------------------------------------------------------------------------
(* The pieces a server sorts them into.                                     *)

\* Pieces, by its parts.
KeptIn(r, recs) == {i \in 1 .. Len(recs) : Kept(r, recs, i)}
FirstIn(r, recs, i) ==
  i \in KeptIn(r, recs) /\ \A j \in KeptIn(r, recs) : j < i => ~SamePiece(recs, i, j)
PieceAt(r, recs, i) ==
  FlattenSeq([j \in 1 .. Len(recs) |-> IF j \in KeptIn(r, recs) /\ SamePiece(recs, i, j)
                                       THEN <<recs[j]>> ELSE <<>>])

LEMMA PiecesIs ==
  ASSUME NEW r, NEW recs
  PROVE  Pieces(r, recs) =
           FlattenSeq([i \in 1 .. Len(recs) |-> IF FirstIn(r, recs, i)
                                                THEN <<PieceAt(r, recs, i)>> ELSE <<>>])
BY DEF Pieces, Collect, KeptIn, FirstIn, PieceAt

\* Some of the records, one after the other.
SomeRows(recs, K, n) ==
  FlattenSeq([j \in 1 .. n |-> IF j \in K THEN <<recs[j]>> ELSE <<>>])
Chosen(b, recs, K) == \A l \in 1 .. Len(b) : \E j \in K : b[l] = recs[j]

LEMMA SomeOf ==
  ASSUME NEW S, NEW recs \in Seq(S), NEW n \in Nat, n = Len(recs), NEW K, K \subseteq 1 .. n,
         K # {}, NEW b, b = SomeRows(recs, K, n)
  PROVE  b \in Seq(S) /\ b # <<>> /\ Chosen(b, recs, K)
<1> DEFINE f == [j \in 1 .. n |-> IF j \in K THEN <<recs[j]>> ELSE <<>>]
<1>1. \A j \in 1 .. n : recs[j] \in S
  OBVIOUS
<1>2. ASSUME NEW j \in 1 .. n
      PROVE  /\ f[j] \in Seq(S)
             /\ j \in K => Len(f[j]) = 1 /\ f[j][1] = recs[j]
             /\ j \notin K => Len(f[j]) = 0
  <2>1. CASE j \in K
    <3>1. f[j] = <<recs[j]>>
      BY <2>1
    <3> QED BY <1>1, <2>1, <3>1
  <2>2. CASE j \notin K
    <3>1. f[j] = <<>>
      BY <2>2
    <3> QED BY <2>2, <3>1
  <2> QED BY <2>1, <2>2
<1>3. b = Column(f, n)
  <2>1. b = FlattenSeq(f)
    BY DEF SomeRows
  <2> HIDE DEF f
  <2>2. f = [j \in 1 .. n |-> f[j]]
    BY DEF f
  <2> QED BY <2>1, <2>2 DEF Column
<1> HIDE DEF f
<1>10. \A j \in 1 .. n : f[j] \in Seq(S)
  BY <1>2
<1>4. b \in Seq(S)
  <2>1. n \in 0 .. n
    OBVIOUS
  <2>2. Column(f, n) \in Seq(S)
    BY <1>10, <2>1, ColumnType
  <2> QED BY <1>3, <2>2
<1>5. PICK m \in K : \A j \in K : m <= j
  <2>1. K \subseteq Nat
    OBVIOUS
  <2> QED BY <2>1, LeastNat
<1>6. ASSUME NEW j \in 1 .. m - 1 PROVE Len(f[j]) = 0
  <2>1. j \in 1 .. n /\ j < m /\ j \in Nat /\ m \in Nat
    OBVIOUS
  <2>2. j \notin K
    BY <1>5, <2>1
  <2> QED BY <1>2, <2>1, <2>2
<1>7. Len(f[m]) <= Len(b)
  <2>1. m \in 1 .. n
    OBVIOUS
  <2> QED BY <1>2, <1>3, <1>6, <2>1, ColumnHead
<1>8. b # <<>>
  <2>1. Len(f[m]) = 1
    BY <1>2
  <2> QED BY <1>7, <2>1
<1>9. ASSUME NEW l \in 1 .. Len(b) PROVE \E j \in K : b[l] = recs[j]
  <2>1. PICK j \in 1 .. n : \E i \in 1 .. Len(f[j]) : b[l] = f[j][i]
    <3>1. \A k \in 1 .. Len(Column(f, n)) : InRow(f, n, Column(f, n)[k])
      BY <1>10, ColumnFrom
    <3>2. InRow(f, n, b[l])
      BY <1>3, <3>1
    <3> QED BY <3>2 DEF InRow
  <2>2. j \in K
    BY <1>2, <2>1
  <2>3. b[l] = recs[j]
    <3>1. Len(f[j]) = 1 /\ f[j][1] = recs[j]
      BY <1>2, <2>2
    <3> QED BY <2>1, <3>1
  <2> QED BY <2>2, <2>3
<1> QED BY <1>4, <1>8, <1>9 DEF Chosen

\* As many pieces as the call has items but for the end, each of its item.
Sorted(r, recs, s) ==
  /\ recs \in Seq(ServerRecords) /\ s.size \in Nat /\ s.size <= Len(recs)
  /\ \A i \in 1 .. Len(recs) : FirstIn(r, recs, i) <=> i <= s.size
  /\ \A i \in 1 .. s.size : \A j \in KeptIn(r, recs) :
       SamePiece(recs, i, j) => Meets(recs[j], Item(s, i))

AllMeet(p, it) == \A l \in 1 .. Len(p) : Meets(p[l], it)

LEMMA PieceAtIs ==
  ASSUME NEW r, NEW recs, NEW s, Sorted(r, recs, s), NEW i \in 1 .. s.size
  PROVE  /\ PieceAt(r, recs, i) \in Seq(ServerRecords) /\ PieceAt(r, recs, i) # <<>>
         /\ AllMeet(PieceAt(r, recs, i), Item(s, i))
         /\ r = 0 => \A j \in 1 .. Len(PieceAt(r, recs, i)) : PieceAt(r, recs, i)[j].tag # "noop"
<1> DEFINE K == {j \in KeptIn(r, recs) : SamePiece(recs, i, j)}
           b == PieceAt(r, recs, i)
<1>1. PICK n \in Nat : n = Len(recs)
  BY DEF Sorted
<1>2. b = SomeRows(recs, K, n)
  <2>1. [j \in 1 .. Len(recs) |-> IF j \in KeptIn(r, recs) /\ SamePiece(recs, i, j)
                                  THEN <<recs[j]>> ELSE <<>>]
        = [j \in 1 .. n |-> IF j \in K THEN <<recs[j]>> ELSE <<>>]
    BY <1>1
  <2> QED BY <2>1 DEF PieceAt, SomeRows
<1>3. K \subseteq 1 .. n
  BY <1>1 DEF KeptIn
<1>4. i \in K
  <2>1. i \in 1 .. Len(recs) /\ i <= s.size
    BY DEF Sorted
  <2>2. i \in KeptIn(r, recs)
    BY <2>1 DEF Sorted, FirstIn
  <2> QED BY <2>2 DEF SamePiece
<1>5. \A j \in K : Meets(recs[j], Item(s, i))
  BY DEF Sorted
<1>6. recs \in Seq(ServerRecords)
  BY DEF Sorted
<1> HIDE DEF K, b
<1>7. b \in Seq(ServerRecords) /\ b # <<>> /\ Chosen(b, recs, K)
  <2>1. K # {}
    BY <1>4
  <2> QED BY <1>1, <1>2, <1>3, <1>6, <2>1, SomeOf
<1>8. AllMeet(b, Item(s, i))
  BY <1>5, <1>7 DEF Chosen, AllMeet
<1>9. ASSUME r = 0, NEW j \in 1 .. Len(b) PROVE b[j].tag # "noop"
  <2>1. PICK k \in K : b[j] = recs[k]
    BY <1>7 DEF Chosen
  <2>2. Kept(r, recs, k)
    BY <2>1 DEF K, KeptIn
  <2> QED BY <1>9, <2>1, <2>2 DEF Kept, NoopKept
<1> QED BY <1>7, <1>8, <1>9 DEF b

LEMMA SortedPieces ==
  ASSUME NEW r, NEW recs, NEW s, Meant(s), s.kind = "gather", Sorted(r, recs, s), NEW p,
         p = Pieces(r, recs)
  PROVE  /\ p \in Seq(Seq(ServerRecords)) /\ Len(p) = s.size
         /\ \A i \in 1 .. s.size : Item(s, i).tag # "end" /\ PieceOf(r, p[i], Item(s, i))
<1>1. PICK m \in Nat : m = s.size
  BY DEF Sorted
<1>2. PICK n \in Nat : n = Len(recs)
  BY DEF Sorted
<1> DEFINE f == [i \in 1 .. n |-> IF FirstIn(r, recs, i) THEN <<PieceAt(r, recs, i)>> ELSE <<>>]
<1>3. m <= n /\ \A i \in 1 .. n : FirstIn(r, recs, i) <=> i <= m
  BY <1>1, <1>2 DEF Sorted
<1>4. ASSUME NEW i \in 1 .. m
      PROVE  /\ i \in 1 .. n /\ f[i] = <<PieceAt(r, recs, i)>>
             /\ PieceAt(r, recs, i) \in Seq(ServerRecords) /\ PieceAt(r, recs, i) # <<>>
             /\ AllMeet(PieceAt(r, recs, i), Item(s, i))
             /\ r = 0 => \A j \in 1 .. Len(PieceAt(r, recs, i)) :
                          PieceAt(r, recs, i)[j].tag # "noop"
  <2>1. i \in 1 .. n /\ i <= m /\ i \in 1 .. s.size
    BY <1>1, <1>3
  <2>2. f[i] = <<PieceAt(r, recs, i)>>
    BY <1>3, <2>1
  <2> HIDE DEF f
  <2>3. /\ PieceAt(r, recs, i) \in Seq(ServerRecords) /\ PieceAt(r, recs, i) # <<>>
        /\ AllMeet(PieceAt(r, recs, i), Item(s, i))
        /\ r = 0 => \A j \in 1 .. Len(PieceAt(r, recs, i)) : PieceAt(r, recs, i)[j].tag # "noop"
    BY <2>1, PieceAtIs
  <2> QED BY <2>1, <2>2, <2>3
<1>5. p = Column(f, n)
  <2>1. p = FlattenSeq(f)
    BY <1>2, PiecesIs
  <2> HIDE DEF f
  <2>2. f = [i \in 1 .. n |-> f[i]]
    BY DEF f
  <2> QED BY <2>1, <2>2 DEF Column
<1>6. ASSUME NEW i \in 1 .. n
      PROVE  f[i] \in Seq(Seq(ServerRecords)) /\ Len(f[i]) = IF i <= m THEN 1 ELSE 0
  <2>1. CASE i <= m
    <3>1. i \in 1 .. m
      BY <2>1
    <3>2. PICK q \in Seq(ServerRecords) : q = PieceAt(r, recs, i)
      BY <1>4, <3>1
    <3>3. f[i] = <<q>>
      BY <1>4, <3>1, <3>2
    <3> HIDE DEF f
    <3> QED BY <2>1, <3>3
  <2>2. CASE ~(i <= m)
    <3>1. f[i] = <<>>
      BY <1>3, <2>2
    <3> HIDE DEF f
    <3> QED BY <2>2, <3>1
  <2> QED BY <2>1, <2>2
<1> HIDE DEF f
<1>7. m \in 0 .. n /\ n \in 0 .. n
  BY <1>3
<1>8. \A i \in 1 .. n : f[i] \in Seq(Seq(ServerRecords))
  BY <1>6
<1>9. p \in Seq(Seq(ServerRecords))
  <2> DEFINE S == Seq(ServerRecords)
  <2>1. \A i \in 1 .. n : f[i] \in Seq(S)
    BY <1>8
  <2> HIDE DEF S
  <2>2. Column(f, n) \in Seq(S)
    BY <1>7, <2>1, ColumnType
  <2> QED BY <1>5, <2>2 DEF S
<1>10. Len(p) = m /\ \A j \in 1 .. m : p[j] = f[j][1]
  <2>1. Singles(f, n, m)
    BY <1>6 DEF Singles
  <2> DEFINE S == Seq(ServerRecords)
  <2>3. \A i \in 1 .. n : f[i] \in Seq(S)
    BY <1>8
  <2> HIDE DEF S
  <2>2. Firsts(f, n, m)
    BY <1>7, <2>1, <2>3, ColumnPrefix
  <2> QED BY <1>5, <2>2 DEF Firsts
<1>11. ASSUME NEW i \in 1 .. m PROVE Item(s, i).tag # "end" /\ PieceOf(r, p[i], Item(s, i))
  <2>1. p[i] = PieceAt(r, recs, i)
    BY <1>4, <1>10
  <2>2. Item(s, i).tag # "end"
    <3>1. s.about.tag # "end"
      BY DEF Meant, Subjects, Tags
    <3>2. Items(s) = m + 1 /\ i # m + 1
      BY <1>1 DEF Items
    <3> QED BY <3>1, <3>2 DEF Item, About
  <2> QED BY <1>4, <2>1, <2>2 DEF PieceOf, End, AllMeet
<1> QED BY <1>1, <1>9, <1>10, <1>11

LEMMA RecordsOfServers == Records \subseteq ServerRecords
<1>1. Clients \subseteq Nat
  BY ClientConstants DEF Clients
<1> QED BY <1>1 DEF Records, ServerRecords

\* Fields come from every client, and are kept by field.
LEMMA FieldsSorted ==
  ASSUME NEW r \in Ranks, NEW recs, NEW s, Meant(s), s.kind = "gather", s.about.tag = "field",
         Gathered(recs, r, s.size, s.about)
  PROVE  Sorted(r, recs, s)
<1>1. PICK n \in Nat : n = s.size
  BY ClientConstants DEF Meant
<1>2. PICK h, date : h = s.about.h /\ date = s.about.date
  OBVIOUS
<1>3. Served(r) \subseteq Clients
  BY RanksOf
<1>0. recs \in Seq(Records) /\ n <= Len(recs)
  BY <1>1 DEF Gathered
<1>4. PICK c \in Served(r) :
        /\ \A i \in 1 .. n : recs[i] = Record(c, s.about, i)
        /\ \A j \in n + 1 .. Len(recs) :
             \E d \in Served(r) : d # c /\ \E i \in 1 .. n : recs[j] = Record(d, s.about, i)
  <2>1. Gathered(recs, r, n, s.about)
    BY <1>1
  <2> QED BY <2>1 DEF Gathered
<1>5. PICK m \in Nat : m = Len(recs)
  BY <1>0
<1>6. ASSUME NEW d, NEW i PROVE Record(d, s.about, i) = Rec("field", h, i, date, d)
  BY <1>2 DEF Record
<1>7. ASSUME NEW i \in 1 .. n PROVE recs[i].v = i
  <2>1. recs[i] = Record(c, s.about, i)
    BY <1>4
  <2>2. recs[i] = Rec("field", h, i, date, c)
    BY <1>6, <2>1
  <2> QED BY <2>2 DEF Rec
<1>8. ASSUME NEW j \in 1 .. m
      PROVE  /\ recs[j].v \in 1 .. n /\ recs[j].tag = "field"
             /\ recs[j].h = h /\ recs[j].date = date
             /\ recs[j].src \in Clients /\ recs[j] \in ServerRecords
  <2>1. recs[j] \in ServerRecords
    BY <1>0, <1>5, RecordsOfServers
  <2>2. \E d \in Served(r) : \E i \in 1 .. n : recs[j] = Record(d, s.about, i)
    <3>1. j \in 1 .. n \/ j \in n + 1 .. Len(recs)
      BY <1>5
    <3> QED BY <1>4, <3>1
  <2>3. PICK d \in Served(r), i \in 1 .. n : recs[j] = Rec("field", h, i, date, d)
    BY <1>6, <2>2
  <2> QED BY <1>3, <2>1, <2>3 DEF Rec
<1>9. KeptIn(r, recs) = 1 .. m
  BY <1>5, <1>8 DEF KeptIn, Kept
<1>10. \A i, j \in 1 .. m : SamePiece(recs, i, j) <=> recs[i].v = recs[j].v
  BY <1>8 DEF SamePiece
<1>11. ASSUME NEW i \in 1 .. m PROVE FirstIn(r, recs, i) <=> i <= n
  <2>1. CASE i <= n
    <3>1. ASSUME NEW j \in 1 .. m, j < i PROVE recs[i].v # recs[j].v
      <4>1. i \in 1 .. n /\ j \in 1 .. n
        BY <2>1, <3>1
      <4>2. recs[i].v = i /\ recs[j].v = j
        BY <1>7, <4>1
      <4> QED BY <3>1, <4>2
    <3> QED BY <1>9, <1>10, <2>1, <3>1 DEF FirstIn
  <2>2. CASE ~(i <= n)
    <3>1. PICK j \in 1 .. n : j = recs[i].v
      BY <1>8
    <3>2. j \in 1 .. m /\ j < i /\ recs[j].v = recs[i].v
      BY <1>0, <1>5, <1>7, <2>2, <3>1
    <3> QED BY <1>9, <1>10, <2>2, <3>2 DEF FirstIn
  <2> QED BY <2>1, <2>2
<1>12. ASSUME NEW i \in 1 .. n, NEW j \in KeptIn(r, recs), SamePiece(recs, i, j)
       PROVE  Meets(recs[j], Item(s, i))
  <2>1. i \in 1 .. m /\ j \in 1 .. m
    BY <1>0, <1>5, <1>9
  <2>2. recs[j].v = i
    BY <1>7, <1>10, <1>12, <2>1
  <2>3. Item(s, i) = About("field", h, i, date)
    <3>1. Items(s) = n + 1 /\ i # n + 1
      BY <1>1 DEF Items
    <3> QED BY <1>2, <3>1 DEF Item
  <2> QED BY <1>8, <2>1, <2>2, <2>3 DEF Meets, About
<1>13. recs \in Seq(ServerRecords)
  BY <1>0, RecordsOfServers
<1> QED BY <1>1, <1>0, <1>5, <1>11, <1>12, <1>13 DEF Sorted

\* Of the records of any other call one is kept: a replicated one, the monitor's,
\* or a noop.
LEMMA OthersSorted ==
  ASSUME NEW r \in Ranks, NEW recs, NEW s, Meant(s), s.kind = "gather", s.about.tag # "field",
         Gathered(recs, r, s.size, s.about)
  PROVE  Sorted(r, recs, s)
<1>1. s.size = 1 /\ s.about.tag \in {"open", "meta", "train", "commit"}
  BY DEF Meant, Subjects, Tags
<1>2. PICK a : a = s.about
  OBVIOUS
<1>3. a.tag \in {"open", "meta", "train", "commit"}
  BY <1>1, <1>2
<1>4. recs \in Seq(Records) /\ 1 <= Len(recs)
  BY <1>1 DEF Gathered
<1>5. PICK m \in Nat \ {0} : m = Len(recs)
  BY <1>4
<1>6. PICK c \in Served(r) :
        /\ Monitor \in Served(r) => c = Monitor
        /\ recs[1] = Record(c, a, 1)
        /\ \A j \in 2 .. m : \E d \in Served(r) : d # c /\ recs[j] = Record(d, a, 1)
  <2>1. PICK c \in Served(r) :
          /\ Monitor \in Served(r) => c = Monitor
          /\ \A i \in 1 .. 1 : recs[i] = Record(c, a, i)
          /\ \A j \in 2 .. m :
               \E d \in Served(r) : d # c /\ \E i \in 1 .. 1 : recs[j] = Record(d, a, i)
    BY <1>1, <1>2, <1>5 DEF Gathered
  <2> QED BY <2>1
<1>7. Served(r) \subseteq Clients /\ (Monitor \in Served(r) <=> r = 0)
  <2>1. Monitor \in Clients /\ ServerOf[Monitor] = 0
    BY ServerConstants, ClientConstants DEF Clients, Monitor
  <2> QED BY <2>1 DEF Served
<1>8. \A j \in 1 .. m : recs[j] \in ServerRecords
  BY <1>4, <1>5, RecordsOfServers
<1>9. recs[1].tag # "noop" =>
        /\ recs[1].tag = a.tag /\ recs[1].h = a.h /\ recs[1].v = a.v
        /\ recs[1].date = a.date /\ recs[1].src \in Clients
  <2>1. c \in Clients /\ recs[1] = Record(c, a, 1)
    BY <1>6, <1>7
  <2>2. CASE recs[1] = Rec(a.tag, a.h, a.v, a.date, c)
    BY <2>1, <2>2 DEF Rec
  <2>3. CASE recs[1] = Noop(c)
    BY <2>3 DEF Rec, Noop
  <2>4. recs[1] = Rec(a.tag, a.h, a.v, a.date, c) \/ recs[1] = Noop(c)
    BY <1>3, <2>1 DEF Record, OnMonitor
  <2> QED BY <2>2, <2>3, <2>4
<1>10. ASSUME NEW j \in 2 .. m PROVE ~Kept(r, recs, j)
  <2>1. PICK d \in Served(r) : d # c /\ recs[j] = Record(d, a, 1)
    BY <1>6
  <2>2. 1 \in 1 .. j - 1
    OBVIOUS
  <2>3. CASE a.tag = "train"
    <3>1. recs[j].tag = "train" /\ recs[1].tag = "train"
      BY <1>6, <2>1, <2>3 DEF Record, Rec
    <3> QED BY <2>2, <3>1 DEF Kept
  <2>4. CASE a.tag # "train" /\ r = 0
    <3>1. d # Monitor
      BY <1>6, <1>7, <2>1, <2>4
    <3>2. recs[j].tag = "noop"
      BY <1>3, <2>1, <2>4, <3>1 DEF Record, OnMonitor, Noop, Rec
    <3> QED BY <2>4, <3>2 DEF Kept, NoopKept
  <2>5. CASE a.tag # "train" /\ r # 0
    <3>1. d # Monitor /\ c # Monitor
      BY <1>7, <2>5
    <3>2. recs[j].tag = "noop" /\ recs[1].tag = "noop"
      BY <1>3, <1>6, <2>1, <2>5, <3>1 DEF Record, OnMonitor, Noop, Rec
    <3> QED BY <2>2, <3>2 DEF Kept, NoopKept
  <2> QED BY <2>3, <2>4, <2>5
<1>11. Kept(r, recs, 1)
  <2>1. CASE recs[1].tag # "noop"
    BY <2>1 DEF Kept
  <2>2. CASE recs[1].tag = "noop"
    <3>1. r # 0
      BY <1>3, <1>6, <1>7, <2>2 DEF Record, OnMonitor, Rec
    <3> QED BY <2>2, <3>1 DEF Kept, NoopKept
  <2> QED BY <2>1, <2>2
<1>12. KeptIn(r, recs) = {1}
  <2>1. \A j \in 1 .. m : j \in 2 .. m \/ j = 1
    OBVIOUS
  <2>2. 1 \in 1 .. m
    OBVIOUS
  <2> QED BY <1>5, <1>10, <1>11, <2>1, <2>2 DEF KeptIn
<1>13. \A i \in 1 .. m : FirstIn(r, recs, i) <=> i <= 1
  BY <1>12 DEF FirstIn
<1>14. Meets(recs[1], Item(s, 1))
  <2>1. Items(s) = 2
    BY <1>1 DEF Items
  <2>2. Item(s, 1) = a
    BY <1>2, <2>1 DEF Item
  <2> QED BY <1>5, <1>8, <1>9, <2>2 DEF Meets
<1>15. recs \in Seq(ServerRecords)
  BY <1>4, RecordsOfServers
<1>16. s.size \in Nat /\ s.size <= Len(recs)
  BY <1>1, <1>4
<1>17. \A i \in 1 .. s.size : \A j \in KeptIn(r, recs) : Meets(recs[j], Item(s, i))
  BY <1>1, <1>12, <1>14
<1> QED BY <1>1, <1>5, <1>13, <1>15, <1>16, <1>17 DEF Sorted

\* The items of a gather.
LEMMA GatherItems ==
  ASSUME NEW s, Meant(s), s.kind = "gather"
  PROVE  /\ s.size \in Nat /\ Items(s) = s.size + 1 /\ Item(s, s.size + 1).tag = "end"
BY ClientConstants DEF Meant, Items, Item, About

LEMMA GatherFiled ==
  ASSUME IInv, SeqTypes, LoopInv, NEW g \in Groups, NEW r \in Ranks, NEW l \in Nat, NEW m,
         NEW k, NEW la, NEW ls, NEW f, Filed(g, l, m, k, la, ls, f), ServerGather(g, r),
         k[r] \in 0 .. l - 1, NEW s, s = m[k[r] + 1], s.kind = "gather",
         \A c \in Served(r) : chan[c][g] # <<>> /\ Fits(c, Head(chan[c][g]), s),
         NEW kk, kk[r] = k[r] + 1, \A q \in Ranks : q # r => kk[q] = k[q]
  PROVE  Filed(g, l, m, kk, la, ls, f)' /\ SeqTypes'
<1>0. /\ Meant(s) /\ la[k[r] + 1] = la[k[r]] + Items(s)
      /\ \A i \in 1 .. Items(s) : ls[la[k[r]] + i] = Item(s, i)
      /\ la[k[r]] \in Nat
  <2>1. Charted(l, m, la, ls)
    BY DEF Filed
  <2>2. PICK j \in 0 .. l - 1 : j = k[r]
    OBVIOUS
  <2>3. /\ Meant(m[j + 1]) /\ la[j + 1] = la[j] + Items(m[j + 1])
        /\ \A i \in 1 .. Items(m[j + 1]) : ls[la[j] + i] = Item(m[j + 1], i)
        /\ la[j] \in Nat
    BY <2>1, ChartAt
  <2> QED BY <2>2, <2>3
<1> DEFINE recs == FlattenSeq([i \in 1 .. NC |-> IF i - 1 \in Served(r)
                                                 THEN Head(chan[i - 1][g]).recs ELSE <<>>])
<1>1. /\ phase[g][r] = "gather"
      /\ \/ /\ pieces' = [pieces EXCEPT ![g][r] = Pieces(r, recs)]
            /\ phase' = [phase EXCEPT ![g][r] = "forward"]
         \/ /\ phase' = [phase EXCEPT ![g][r] = "aborted"]
            /\ pieces' = pieces
      /\ UNCHANGED <<lchan, batch, busy>>
  BY DEF ServerGather, rootVars, Collect
<1>2. Gathered(recs, r, s.size, s.about)
  <2>1. \A c \in Served(r) : chan[c][g] # <<>> /\ Recorded(c, Head(chan[c][g]).recs, s.size, s.about)
    BY DEF Fits
  <2>2. s.size \in Nat
    BY <1>0, GatherItems
  <2> QED BY <2>1, <2>2, GatheredIs
<1> HIDE DEF recs
<1>3. Sorted(r, recs, s)
  BY <1>0, <1>2, FieldsSorted, OthersSorted
<1> DEFINE p == Pieces(r, recs)
<1>a. p = Pieces(r, recs)
  OBVIOUS
<1> HIDE DEF p
<1>4. /\ p \in Seq(Seq(ServerRecords)) /\ Len(p) = s.size
      /\ \A i \in 1 .. s.size : Item(s, i).tag # "end" /\ PieceOf(r, p[i], Item(s, i))
  BY <1>0, <1>3, <1>a, SortedPieces
<1>5. f[r] = la[k[r]]
  BY <1>1, FiledIs DEF Holds
<1>6. CASE /\ pieces' = [pieces EXCEPT ![g][r] = p]
           /\ phase' = [phase EXCEPT ![g][r] = "forward"]
  <2>1. /\ \A q \in Ranks : q # r => phase'[g][q] = phase[g][q] /\ pieces'[g][q] = pieces[g][q]
        /\ phase'[g][r] = "forward" /\ pieces'[g][r] = p
    BY <1>6 DEF LoopInv, ServersTypeOK, SeqTypes
  <2>2. SeqTypes'
    BY <1>1, <1>4, <1>6 DEF SeqTypes
  <2>3. PICK n \in Nat : n = s.size
    BY <1>0, GatherItems
  <2>4. /\ la[kk[r]] = f[r] + n + 1 /\ f[r] \in Nat
        /\ \A i \in 1 .. n + 1 : ls[f[r] + i] = Item(s, i)
        /\ Item(s, n + 1).tag = "end"
    <3>1. Items(s) = n + 1 /\ Item(s, n + 1).tag = "end"
      BY <1>0, <2>3, GatherItems
    <3>2. PICK e \in Nat : e = la[k[r]]
      BY <1>0
    <3>3. la[kk[r]] = e + (n + 1) /\ f[r] = e
      BY <1>0, <1>5, <3>1, <3>2
    <3>4. \A i \in 1 .. n + 1 : ls[e + i] = Item(s, i)
      BY <1>0, <3>1, <3>2
    <3> QED BY <3>1, <3>3, <3>4
  <2>5. ls[la[kk[r]]].tag = "end"
    <3>1. n + 1 \in 1 .. n + 1 /\ f[r] + (n + 1) = la[kk[r]]
      BY <2>4
    <3> QED BY <2>4, <3>1
  <2>6. \A i \in 1 .. n : ls[f[r] + i].tag # "end" /\ PieceOf(r, p[i], ls[f[r] + i])
    <3>1. \A i \in 1 .. n : i \in 1 .. n + 1
      OBVIOUS
    <3> QED BY <1>4, <2>3, <2>4, <3>1
  <2>7. Len(p) = n
    BY <1>4, <2>3
  <2>8. Holds(g, r, kk[r], la, ls, f[r])'
    BY <2>1, <2>4, <2>5, <2>6, <2>7 DEF Holds
  <2> QED BY <1>1, <2>1, <2>2, <2>8, FiledAtOne
<1>7. CASE phase' = [phase EXCEPT ![g][r] = "aborted"] /\ pieces' = pieces
  <2>1. /\ \A q \in Ranks : q # r => phase'[g][q] = phase[g][q] /\ pieces'[g][q] = pieces[g][q]
        /\ phase'[g][r] = "aborted"
    BY <1>7 DEF LoopInv, ServersTypeOK
  <2>2. SeqTypes'
    BY <1>1, <1>7 DEF SeqTypes
  <2>3. Holds(g, r, kk[r], la, ls, f[r])'
    BY <2>1 DEF Holds
  <2> QED BY <1>1, <2>1, <2>2, <2>3, FiledAtOne
<1> QED BY <1>1, <1>6, <1>7 DEF p

-----------------------------------------------------------------------------
(* What a client says is meant.                                             *)

\* Outputs are counted, and one that is being written has been counted.
Dated(c) ==
  /\ \A s \in Streams : outs[c][s] <= pos[c] /\ outs[c][s] <= MaxOutputs
  /\ Writing(c) \/ stage[c] = "open" => outs[c][cur[c]] >= 1

LEMMA DatedStep ==
  ASSUME IInv, NEW c \in Clients, ClientStep(c), Dated(c)
  PROVE  Dated(c)'
<1>1. /\ pos \in [Clients -> Nat] /\ cur \in [Clients -> Streams] /\ stage \in [Clients -> Stages]
      /\ outs \in [Clients -> [Streams -> Nat]] /\ MaxOutputs \in Nat
  BY ClientConstants DEF IInv, ClientTypeOK, MediationTypeOK
<1>2. CASE BeginOutput(c)
  <2>1. PICK s \in Streams :
          /\ pos[c] < MaxOutputs /\ pos' = [pos EXCEPT ![c] = @ + 1]
          /\ cur' = [cur EXCEPT ![c] = s] /\ outs' = [outs EXCEPT ![c][s] = @ + 1]
    BY <1>2 DEF BeginOutput, Follow
  <2>2. /\ pos'[c] = pos[c] + 1 /\ cur'[c] = s
        /\ \A r \in Streams : outs'[c][r] = IF r = s THEN outs[c][r] + 1 ELSE outs[c][r]
    BY <1>1, <2>1
  <2>3. \A r \in Streams : outs[c][r] \in Nat /\ outs[c][r] <= pos[c] /\ outs[c][r] <= MaxOutputs
    BY <1>1 DEF Dated
  <2>4. pos[c] \in Nat
    BY <1>1
  <2> QED BY <1>1, <2>1, <2>2, <2>3, <2>4 DEF Dated
<1>3. CASE BeginShutdown(c) \/ ShutdownStream(c)
  <2>1. /\ pos' = pos \/ pos' = [pos EXCEPT ![c] = @ + 1]
        /\ outs' = outs /\ stage'[c] \in {"shutdown", "lastClose", "exit"}
    BY <1>1, <1>3 DEF BeginShutdown, ShutdownStream, Follow
  <2>2. pos'[c] \in Nat /\ pos[c] <= pos'[c] /\ pos[c] \in Nat
    BY <1>1, <2>1
  <2>3. \A r \in Streams : outs[c][r] \in Nat
    BY <1>1
  <2> QED BY <2>1, <2>2, <2>3 DEF Dated, Writing
<1>4. CASE OpenForWriteBegin(c) \/ PutMeta(c) \/ TrainField(c) \/ PackField(c)
           \/ OpenForWriteCommit(c)
  <2>1. UNCHANGED <<pos, cur, outs>> /\ (Writing(c) \/ stage[c] = "open")
    BY <1>4 DEF OpenForWriteBegin, PutMeta, TrainField, PackField, OpenForWriteCommit, Writing
  <2> QED BY <2>1 DEF Dated
<1>5. CASE IoSync(c) \/ IoClose(c) \/ IoExit(c)
  <2>1. UNCHANGED <<pos, outs>>
    BY <1>5 DEF IoSync, IoClose, IoExit
  <2>2. stage'[c] \in {"close", "idle", "shutdown", "exit", "gone"}
    BY <1>1, <1>5 DEF IoSync, CountFrame, IoClose, IoExit
  <2> QED BY <2>1, <2>2 DEF Dated, Writing
<1> QED BY <1>2, <1>3, <1>4, <1>5 DEF ClientStep

LEMMA DatedStays ==
  ASSUME NEW d, Local(d)' = Local(d), Dated(d)
  PROVE  Dated(d)'
<1>1. pos'[d] = pos[d] /\ stage'[d] = stage[d] /\ cur'[d] = cur[d] /\ outs'[d] = outs[d]
  BY LocalIs, LocalIsNext
<1> QED BY <1>1 DEF Dated, Writing

LEMMA SubjectIs ==
  ASSUME IInv, NEW c \in Clients, ClientStep(c), Dated(c), Calls(Local(c)) # 0
  PROVE  /\ Subject(Local(c)) \in Subjects
         /\ Calls(Local(c)) = 1 <=> Subject(Local(c)).tag = "close"
         /\ Calls(Local(c)) = 2 =>
              Size(Local(c)) = IF Subject(Local(c)).tag = "field" THEN NF ELSE 1
         /\ Size(Local(c)) = 0 => Subject(Local(c)).h \in Handles
<1> DEFINE x == Local(c)
           date == outs[c][cur[c]]
           h == oid[c][cur[c]]
<1>0. /\ x.stage = stage[c] /\ x.cur = cur[c] /\ x.fld = fld[c] /\ x.oid = oid[c]
      /\ x.outs = outs[c]
  BY LocalIs
<1>1. cur[c] \in Streams /\ cur[c] \in Nat /\ fld[c] \in 1 .. NF /\ fld[c] \in Nat /\ date \in Nat
  BY OutputType DEF IInv, ClientTypeOK, MediationTypeOK, Date
<1>2. Writing(c) \/ stage[c] = "open" => date \in 1 .. MaxOutputs
  BY <1>1, ClientConstants DEF Dated
<1>3. Writing(c) \/ stage[c] \in {"close", "lastClose"} => h \in Handles /\ h \in 0 .. NH
  BY OpenHandle, ClientConstants DEF IInv, ClientTypeOK, ClientInv, Handle, Handles
<1>4. 0 \in 0 .. NH /\ 0 \in Nat
  BY ClientConstants
<1> HIDE DEF x, date, h
<1>5. CASE stage[c] = "open"
  <2>1. PICK k \in Handles : FreshHandle(c, k)
    BY <1>5 DEF ClientStep, BeginOutput, OpenForWriteBegin, PutMeta, TrainField, PackField,
                OpenForWriteCommit, IoSync, IoClose, BeginShutdown, ShutdownStream, IoExit
  <2>2. Fresh(x) = k /\ k \in 0 .. NH
    BY <2>1, FreshIs, ClientConstants DEF x, Handles
  <2>3. Subject(x) = About("open", k, cur[c], date) /\ Calls(x) = 2 /\ Size(x) = 1
    BY <1>0, <1>5, <2>2 DEF Subject, Calls, Size, date
  <2> QED BY <1>1, <1>2, <1>5, <2>2, <2>3 DEF Subjects, Tags, About, x
<1>6. CASE stage[c] \in {"trainMeta", "putMeta"}
  <2>1. Subject(x) = About("meta", h, 0, date) /\ Calls(x) = 2 /\ Size(x) = 1
    BY <1>0, <1>6 DEF Subject, Calls, Size, date, h
  <2>2. h \in Handles /\ h \in 0 .. NH
    BY <1>3, <1>6 DEF Writing
  <2> QED BY <1>1, <1>4, <2>1, <2>2 DEF Subjects, Tags, About, x
<1>7. CASE stage[c] = "train"
  <2>1. Subject(x) = About("train", h, fld[c], date) /\ Calls(x) = 2 /\ Size(x) = 1
    BY <1>0, <1>7 DEF Subject, Calls, Size, date, h
  <2>2. h \in Handles /\ h \in 0 .. NH /\ date \in 1 .. MaxOutputs
    BY <1>2, <1>3, <1>7 DEF Writing
  <2> QED BY <1>1, <2>1, <2>2 DEF Subjects, Tags, About, x
<1>8. CASE stage[c] = "commit"
  <2>1. Subject(x) = About("commit", h, 0, 0) /\ Calls(x) = 2 /\ Size(x) = 1
    BY <1>0, <1>8 DEF Subject, Calls, Size, h
  <2>2. h \in Handles /\ h \in 0 .. NH
    BY <1>3, <1>8 DEF Writing
  <2> QED BY <1>4, <2>1, <2>2 DEF Subjects, Tags, About, x
<1>9. CASE stage[c] = "sync"
  <2>1. Subject(x) = About("field", h, 0, date) /\ Calls(x) = 2 /\ Size(x) = NF /\ NF # 0
    BY <1>0, <1>9, ClientConstants DEF Subject, Calls, Size, date, h
  <2>2. h \in Handles /\ h \in 0 .. NH /\ date \in 1 .. MaxOutputs
    BY <1>2, <1>3, <1>9 DEF Writing
  <2> QED BY <1>1, <1>4, <2>1, <2>2 DEF Subjects, Tags, About, x
<1>10. CASE stage[c] \in {"close", "lastClose"}
  <2>1. Subject(x) = About("close", h, 0, 0) /\ Calls(x) = 1
    BY <1>0, <1>10 DEF Subject, Calls, h
  <2>2. h \in 0 .. NH /\ h \in Handles
    BY <1>3, <1>10
  <2> QED BY <1>4, <2>1, <2>2 DEF Subjects, Tags, About, x
<1>11. CASE stage[c] = "exit"
  <2>1. Subject(x) = About("close", 0, 0, 0) /\ Calls(x) = 1 /\ Size(x) # 0
    BY <1>0, <1>11 DEF Subject, Calls, Size, ExitSize
  <2> QED BY <1>4, <2>1 DEF Subjects, Tags, About, x
<1> QED
  <2>1. Calls(x) # 0
    BY DEF x
  <2>2. stage[c] \in {"open", "trainMeta", "putMeta", "train", "commit", "sync", "close",
                      "lastClose", "exit"}
    BY <1>0, <2>1 DEF Calls
  <2> QED BY <1>5, <1>6, <1>7, <1>8, <1>9, <1>10, <1>11, <2>2

LEMMA SaidMeant ==
  ASSUME IInv, NEW c \in Clients, ClientStep(c), Dated(c), NEW j \in 1 .. Calls(Local(c))
  PROVE  Meant(Said(Local(c), j))
<1> DEFINE x == Local(c)
<1>1. Calls(x) \in {1, 2} /\ j \in {1, 2} /\ (j = 2 => Calls(x) = 2)
  <2>1. Calls(x) \in {0, 1, 2}
    BY CallsIs
  <2> QED BY <2>1
<1>2. /\ Subject(x) \in Subjects
      /\ Calls(x) = 1 <=> Subject(x).tag = "close"
      /\ Calls(x) = 2 => Size(x) = IF Subject(x).tag = "field" THEN NF ELSE 1
      /\ Size(x) = 0 => Subject(x).h \in Handles
  BY <1>1, SubjectIs
<1> HIDE DEF x
<1>3. /\ Said(x, j).about = Subject(x) /\ Said(x, j).size = Size(x)
      /\ Said(x, j).kind = IF j = 1 THEN "reduce" ELSE "gather"
  BY DEF Said, Call
<1> QED BY <1>1, <1>2, <1>3, ClientConstants DEF Meant, x

-----------------------------------------------------------------------------
(* The steps of the system.                                                 *)

FiledBy(g, l, m, k) == \E la, ls, f : Filed(g, l, m, k, la, ls, f)

\* A step that has to do with other groups, or with the polling of this one.
Untouched(g) ==
  /\ pieces'[g] = pieces[g] /\ lchan'[g] = lchan[g]
  /\ batch'[g] = batch[g] /\ busy'[g] = busy[g]
  /\ \A r \in Ranks : \/ phase'[g][r] = phase[g][r]
                      \/ /\ phase[g][r] \notin {"forward", "aborted"}
                         /\ phase'[g][r] # "forward"

LEMMA FiledStays ==
  ASSUME NEW g \in Groups, NEW l \in Nat, NEW m, NEW k, NEW kk, FiledBy(g, l, m, k),
         Untouched(g), \A r \in Ranks : kk[r] = k[r]
  PROVE  FiledBy(g, l, m, kk)'
<1>1. PICK la, ls, f : Filed(g, l, m, k, la, ls, f)
  BY DEF FiledBy
<1>2. Filed(g, l, m, k, la, ls, f)'
  BY <1>1, FiledKept DEF Untouched
<1>3. Filed(g, l, m, kk, la, ls, f)'
  <2>1. \A r \in Ranks : (Holds(g, r, k[r], la, ls, f[r]))' => (Holds(g, r, kk[r], la, ls, f[r]))'
    OBVIOUS
  <2> QED BY <1>2, <2>1 DEF Filed
<1> QED BY <1>3 DEF FiledBy

LEMMA FiledMore ==
  ASSUME SeqTypes, NEW g \in Groups, NEW l \in Nat, NEW m, NEW mm, NEW k,
         FiledBy(g, l, m, k), \A j \in 1 .. l : mm[j] = m[j],
         \A r \in Ranks : k[r] \in 0 .. l, NEW t \in {0, 1, 2},
         \A j \in 1 .. t : Meant(mm[l + j])
  PROVE  FiledBy(g, l + t, mm, k)
<1>1. PICK la, ls, f : Filed(g, l, m, k, la, ls, f)
  BY DEF FiledBy
<1>2. PICK na, ns : Filed(g, l + t, mm, k, na, ns, f)
  BY <1>1, FiledOn
<1> QED BY <1>2 DEF FiledBy

Sorting(n, at, ms, got) == \A g \in Groups : FiledBy(g, at[n][g], ms[g], got[g])
Full ==
  /\ SeqTypes /\ \A c \in Clients : Dated(c)
  /\ \E n \in Nat \ {0} : \E tr, at, ms, got :
       Joint(tr, n, at, ms, got) /\ Sorting(n, at, ms, got)

\* Calls begun and completed are counted.
LEMMA JointCounts ==
  ASSUME NEW n \in Nat \ {0}, NEW tr, NEW at, NEW ms, NEW got, Joint(tr, n, at, ms, got)
  PROVE  \A g \in Groups : at[n][g] \in Nat /\ \A r \in Ranks : got[g][r] \in 0 .. at[n][g]
<1>1. n \in 1 .. n
  OBVIOUS
<1> QED BY <1>1 DEF Joint, Scripted, Completed

LEMMA SortingStays ==
  ASSUME NEW n \in Nat \ {0}, NEW tr, NEW at, NEW ms, NEW got, Joint(tr, n, at, ms, got),
         Sorting(n, at, ms, got), \A g \in Groups : Untouched(g)
  PROVE  Sorting(n, at, ms, got)'
<1> SUFFICES ASSUME NEW g \in Groups PROVE FiledBy(g, at[n][g], ms[g], got[g])'
  BY DEF Sorting
<1>1. at[n][g] \in Nat /\ FiledBy(g, at[n][g], ms[g], got[g]) /\ Untouched(g)
  BY JointCounts DEF Sorting
<1> QED BY <1>1, FiledStays

LEMMA FrontSorting ==
  ASSUME IInv, SeqTypes, NEW c \in Clients, ClientStep(c), Dated(c),
         NEW n \in Nat \ {0}, NEW tr, NEW at, NEW ms, NEW got, Joint(tr, n, at, ms, got),
         Sorting(n, at, ms, got), \A g \in Groups : Untouched(g),
         NEW ts, NEW bt, NEW mz,
         Longer(ts, bt, mz, tr, n, at, ms, Local(c), found', Local(c)')
  PROVE  Sorting(n + 1, bt, mz, got)'
<1> SUFFICES ASSUME NEW g \in Groups PROVE FiledBy(g, bt[n + 1][g], mz[g], got[g])'
  BY DEF Sorting
<1>1. PICK l \in Nat : l = at[n][g]
  BY JointCounts
<1>2. PICK k : k = got[g] /\ \A r \in Ranks : k[r] \in 0 .. l
  BY <1>1, JointCounts
<1>3. PICK m : m = ms[g] /\ FiledBy(g, l, m, k)
  BY <1>1, <1>2 DEF Sorting
<1>4. PICK mm : mm = mz[g]
  OBVIOUS
<1>5. PICK t \in {0, 1, 2} : t = SaidTo(Local(c), found', g)
  BY CallsIs
<1>6. /\ bt[n + 1][g] = l + t
      /\ \A j \in 1 .. l : mm[j] = m[j]
      /\ \A j \in 1 .. t : mm[l + j] = Said(Local(c), j)
  BY <1>1, <1>3, <1>4, <1>5 DEF Longer
<1>7. \A j \in 1 .. t : Meant(mm[l + j])
  <2>1. t = 0 \/ t = Calls(Local(c))
    BY <1>5, CallsIs
  <2>2. CASE t = 0
    BY <2>2
  <2>3. CASE t = Calls(Local(c))
    BY <1>6, <2>3, SaidMeant
  <2> QED BY <2>1, <2>2, <2>3
<1>8. FiledBy(g, l + t, mm, k)
  BY <1>2, <1>3, <1>6, <1>7, FiledMore
<1>9. l + t \in Nat
  OBVIOUS
<1>10. FiledBy(g, l + t, mm, k)'
  BY <1>8, <1>9, FiledStays
<1>11. FiledBy(g, bt[n + 1][g], mz[g], got[g])' <=> FiledBy(g, l + t, mm, k)'
  BY <1>2, <1>4, <1>6
<1> QED BY <1>10, <1>11

LEMMA ClientFull ==
  ASSUME IInv, IInv', Within, Full, NEW c \in Clients, ClientStep(c), UNCHANGED serverVars
  PROVE  Full'
<1>0. UNCHANGED <<phase, callReady, pieces, lchan, batch, busy>>
  BY DEF serverVars, taskVars, rootVars
<1>1. \A g \in Groups : Untouched(g)
  BY <1>0 DEF Untouched
<1>2. SeqTypes'
  BY <1>0 DEF Full, SeqTypes
<1>3. ASSUME NEW d \in Clients PROVE Dated(d)'
  <2>1. CASE d = c
    BY <2>1, DatedStep DEF Full
  <2>2. CASE d # c
    <3>1. Local(d)' = Local(d)
      BY <2>2, ClientStepMoves DEF Moved
    <3> QED BY <3>1, DatedStays DEF Full
  <2> QED BY <2>1, <2>2
<1>4. PICK n \in Nat \ {0} : \E tr, at, ms, got :
         Joint(tr, n, at, ms, got) /\ Sorting(n, at, ms, got)
  BY DEF Full
<1>5. PICK tr, at, ms, got : Joint(tr, n, at, ms, got) /\ Sorting(n, at, ms, got)
  BY <1>4
<1>6. PICK i \in 1 .. n :
        /\ tr[i] = Local(c)
        /\ \A g \in Groups : Pending(c, g, at[i][g], ms[g], got[g][ServerOf[c]])
  BY <1>5 DEF Joint, Heard
<1>7. CASE i < n
  <2>1. Joint(tr, n, at, ms, got)'
    BY <1>0, <1>5, <1>6, <1>7, FollowsMatched
  <2>2. Sorting(n, at, ms, got)'
    BY <1>1, <1>5, SortingStays
  <2> QED BY <1>2, <1>3, <2>1, <2>2 DEF Full
<1>8. CASE i = n
  <2>1. PICK ts, bt, mz :
          /\ Longer(ts, bt, mz, tr, n, at, ms, Local(c), found', Local(c)')
          /\ Joint(ts, n + 1, bt, mz, got)'
    BY <1>0, <1>5, <1>6, <1>8, FrontMatched
  <2>2. Sorting(n + 1, bt, mz, got)'
    BY <1>1, <1>5, <2>1, FrontSorting DEF Full
  <2>3. n + 1 \in Nat \ {0}
    OBVIOUS
  <2> QED BY <1>2, <1>3, <2>1, <2>2, <2>3 DEF Full
<1> QED BY <1>7, <1>8

\* A step of the servers of one group.
\* Only the servers of group g completed calls; the step leaves other groups be.
Moves(gat, got, g) == \A h \in Groups, r \in Ranks : h # g => gat[h][r] = got[h][r]
Beside(g) == \A h \in Groups : h # g => Untouched(h)

LEMMA GroupFull ==
  ASSUME SeqTypes', Full, UNCHANGED mediationVars,
         NEW n \in Nat \ {0}, NEW tr, NEW at, NEW ms, NEW got, NEW gat, NEW g \in Groups,
         Joint(tr, n, at, ms, got), Sorting(n, at, ms, got), Joint(tr, n, at, ms, gat)',
         Moves(gat, got, g), Beside(g), FiledBy(g, at[n][g], ms[g], gat[g])'
  PROVE  Full'
<1>1. \A c \in Clients : Dated(c)'
  BY DEF Full, Dated, Writing, mediationVars
<1>2. ASSUME NEW h \in Groups PROVE FiledBy(h, at[n][h], ms[h], gat[h])'
  <2>1. CASE h = g
    BY <2>1
  <2>2. CASE h # g
    <3>1. at[n][h] \in Nat /\ FiledBy(h, at[n][h], ms[h], got[h]) /\ Untouched(h)
      BY <2>2, JointCounts DEF Sorting, Beside
    <3>2. \A r \in Ranks : gat[h][r] = got[h][r]
      BY <2>2 DEF Moves
    <3> QED BY <3>1, <3>2, FiledStays
  <2> QED BY <2>1, <2>2
<1>3. Sorting(n, at, ms, gat)'
  BY <1>2 DEF Sorting
<1> QED BY <1>1, <1>3 DEF Full

LEMMA FullIs ==
  ASSUME Full
  PROVE  \E n \in Nat \ {0} : \E tr, at, ms, got :
           Joint(tr, n, at, ms, got) /\ Sorting(n, at, ms, got)
BY DEF Full

\* One group at a time: what a step leaves alone.
LEMMA Elsewhere ==
  ASSUME LoopInv, SeqTypes, NEW g \in Groups, NEW r \in Ranks,
         ServerReduce(g, r) \/ ServerGather(g, r) \/ (r \in Others /\ Forward(g, r))
           \/ (r = Root /\ RootStep(g)),
         NEW h \in Groups, h # g
  PROVE  Untouched(h)
<1>1. pieces'[h] = pieces[h] /\ lchan'[h] = lchan[h] /\ batch'[h] = batch[h] /\ busy'[h] = busy[h]
      /\ phase'[h] = phase[h]
  <2>0. DOMAIN phase = Groups /\ DOMAIN pieces = Groups /\ DOMAIN lchan = Groups
        /\ DOMAIN batch = Groups /\ DOMAIN busy = Groups
    BY DEF LoopInv, ServersTypeOK, SeqTypes
  <2>1. CASE ServerReduce(g, r)
    <3>1. /\ UNCHANGED <<lchan, batch, busy>>
          /\ \E p : phase' = [phase EXCEPT ![g][r] = p]
          /\ pieces' = pieces \/ \E p : pieces' = [pieces EXCEPT ![g][r] = p]
      BY <2>1 DEF ServerReduce, rootVars
    <3> QED BY <2>0, <3>1
  <2>2. CASE ServerGather(g, r)
    <3>1. /\ UNCHANGED <<lchan, batch, busy>>
          /\ \E p : phase' = [phase EXCEPT ![g][r] = p]
          /\ pieces' = pieces \/ \E p : pieces' = [pieces EXCEPT ![g][r] = p]
      BY <2>2 DEF ServerGather, rootVars
    <3> QED BY <2>0, <3>1
  <2>3. CASE r \in Others /\ Forward(g, r)
    BY <2>0, <2>3 DEF Forward, rootVars
  <2>4. CASE RootCollect(g)
    BY <2>0, <2>4 DEF RootCollect, TakeLocal
  <2>5. CASE RootDone(g)
    BY <2>0, <2>5 DEF RootDone, TakeLocal, rootVars
  <2>6. CASE FinishBatch(g)
    BY <2>0, <2>6 DEF FinishBatch, taskVars
  <2>7. CASE HandleField(g)
    <3>1. /\ NextRecord(g) /\ UNCHANGED <<pieces, lchan, busy>>
          /\ phase' = phase \/ phase' = [phase EXCEPT ![g][Root] = "aborted"]
      BY <2>7 DEF HandleField
    <3> QED BY <2>0, <3>1 DEF NextRecord
  <2>8. CASE \/ HandleNoop(g) \/ HandleMeta(g) \/ HandleOpen(g) \/ HandleCommit(g)
             \/ HandleClose(g)
    <3>1. NextRecord(g) /\ UNCHANGED <<pieces, lchan, busy, phase>>
      BY <2>8 DEF HandleNoop, HandleMeta, HandleOpen, HandleCommit, HandleClose, taskVars
    <3> QED BY <2>0, <3>1 DEF NextRecord
  <2> QED BY <2>1, <2>2, <2>3, <2>4, <2>5, <2>6, <2>7, <2>8 DEF RootStep
<1> QED BY <1>1 DEF Untouched

LEMMA PollElsewhere ==
  ASSUME LoopInv, NEW g \in Groups, PollStep(g), NEW h \in Groups
  PROVE  Untouched(h) /\ UNCHANGED <<pieces, lchan, batch, mediationVars>>
<1>1. DOMAIN phase = Groups
  BY DEF LoopInv, ServersTypeOK
<1>2. /\ UNCHANGED <<pieces, lchan, batch, busy, mediationVars>>
      /\ \/ /\ \A r \in Ranks : phase[g][r] = "ready"
            /\ phase' = [phase EXCEPT ![g] = [r \in Ranks |-> "offering"]]
         \/ /\ \A r \in Ranks : phase[g][r] = "offering"
            /\ phase' = [phase EXCEPT ![g] = [r \in Ranks |-> "reduce"]]
  BY DEF PollStep, OfferGroup, GroupFound, rootVars, clientVars
<1>3. CASE h = g
  <2>1. \A r \in Ranks : phase[h][r] \in {"ready", "offering"} /\ phase'[h][r] \in {"offering", "reduce"}
    BY <1>1, <1>2, <1>3
  <2> QED BY <1>2, <2>1 DEF Untouched
<1>4. CASE h # g
  BY <1>1, <1>2, <1>4 DEF Untouched
<1> QED BY <1>3, <1>4

LEMMA ReduceFull ==
  ASSUME LoopInv, IInv, Full, NEW g \in Groups, NEW r \in Ranks, ServerReduce(g, r)
  PROVE  Full'
<1>1. PICK n \in Nat \ {0} : \E tr, at, ms, got :
         Joint(tr, n, at, ms, got) /\ Sorting(n, at, ms, got)
  BY DEF Full
<1>2. PICK tr, at, ms, got : Joint(tr, n, at, ms, got) /\ Sorting(n, at, ms, got)
  BY <1>1
<1>3. PICK gat : OneMore(gat, got, g, r) /\ Joint(tr, n, at, ms, gat)'
  BY <1>2, ReduceMatched
<1>4. PICK l \in Nat : l = at[n][g]
  BY <1>2, JointCounts
<1>5. PICK m, k, kk : m = ms[g] /\ k = got[g] /\ kk = gat[g]
  OBVIOUS
<1>6. PICK la, ls, f : Filed(g, l, m, k, la, ls, f)
  BY <1>2, <1>4, <1>5 DEF Sorting, FiledBy
<1>7. /\ \A c \in Served(r) : chan[c][g] # <<>> /\ Head(chan[c][g]).kind = "reduce"
      /\ UNCHANGED mediationVars
  BY DEF ServerReduce, Joined
<1>8. PICK s : s = m[k[r] + 1]
  OBVIOUS
<1>9. /\ k[r] \in Nat /\ k[r] + 1 <= l /\ s.size \in Nat \cup {ExitSize}
      /\ \A c \in Served(r) : Fits(c, Head(chan[c][g]), s)
  BY <1>2, <1>4, <1>5, <1>7, <1>8, NextOfScript
<1>10. s.kind = "reduce"
  <2>1. PICK c \in Served(r) : TRUE
    BY RanksOf
  <2> QED BY <1>7, <1>9, <2>1 DEF Fits
<1>11. kk[r] = k[r] + 1 /\ \A q \in Ranks : q # r => kk[q] = k[q]
  BY <1>3, <1>5 DEF OneMore
<1>12. k[r] \in 0 .. l - 1
  BY <1>9
<1>13. Filed(g, l, m, kk, la, ls, f)' /\ SeqTypes'
  BY <1>6, <1>8, <1>9, <1>10, <1>11, <1>12, ReduceFiled DEF Full
<1>14. FiledBy(g, at[n][g], ms[g], gat[g])'
  BY <1>4, <1>5, <1>13 DEF FiledBy
<1>15. Beside(g)
  BY Elsewhere DEF Full, Beside
<1>16. Moves(gat, got, g)
  BY <1>3 DEF OneMore, Moves
<1>17. SeqTypes' /\ UNCHANGED mediationVars
  BY <1>7, <1>13
<1>18. Joint(tr, n, at, ms, got) /\ Sorting(n, at, ms, got) /\ Joint(tr, n, at, ms, gat)'
  BY <1>2, <1>3
<1> QED BY <1>14, <1>15, <1>16, <1>17, <1>18, GroupFull

LEMMA GatherFull ==
  ASSUME LoopInv, IInv, Full, NEW g \in Groups, NEW r \in Ranks, ServerGather(g, r)
  PROVE  Full'
<1>1. PICK n \in Nat \ {0} : \E tr, at, ms, got :
         Joint(tr, n, at, ms, got) /\ Sorting(n, at, ms, got)
  BY DEF Full
<1>2. PICK tr, at, ms, got : Joint(tr, n, at, ms, got) /\ Sorting(n, at, ms, got)
  BY <1>1
<1>3. PICK gat : OneMore(gat, got, g, r) /\ Joint(tr, n, at, ms, gat)'
  BY <1>2, GatherMatched
<1>4. PICK l \in Nat : l = at[n][g]
  BY <1>2, JointCounts
<1>5. PICK m, k, kk : m = ms[g] /\ k = got[g] /\ kk = gat[g]
  OBVIOUS
<1>6. PICK la, ls, f : Filed(g, l, m, k, la, ls, f)
  BY <1>2, <1>4, <1>5 DEF Sorting, FiledBy
<1>7. /\ \A c \in Served(r) : chan[c][g] # <<>> /\ Head(chan[c][g]).kind = "gather"
      /\ UNCHANGED mediationVars
  BY DEF ServerGather, Joined
<1>8. PICK s : s = m[k[r] + 1]
  OBVIOUS
<1>9. /\ k[r] \in Nat /\ k[r] + 1 <= l
      /\ \A c \in Served(r) : Fits(c, Head(chan[c][g]), s)
  BY <1>2, <1>4, <1>5, <1>7, <1>8, NextOfScript
<1>10. s.kind = "gather"
  <2>1. PICK c \in Served(r) : TRUE
    BY RanksOf
  <2> QED BY <1>7, <1>9, <2>1 DEF Fits
<1>11. kk[r] = k[r] + 1 /\ \A q \in Ranks : q # r => kk[q] = k[q]
  BY <1>3, <1>5 DEF OneMore
<1>12. k[r] \in 0 .. l - 1
  BY <1>9
<1>13. Filed(g, l, m, kk, la, ls, f)' /\ SeqTypes'
  BY <1>6, <1>7, <1>8, <1>9, <1>10, <1>11, <1>12, GatherFiled DEF Full
<1>14. FiledBy(g, at[n][g], ms[g], gat[g])'
  BY <1>4, <1>5, <1>13 DEF FiledBy
<1>15. Beside(g)
  BY Elsewhere DEF Full, Beside
<1>16. Moves(gat, got, g)
  BY <1>3 DEF OneMore, Moves
<1>17. SeqTypes' /\ UNCHANGED mediationVars
  BY <1>7, <1>13
<1>18. Joint(tr, n, at, ms, got) /\ Sorting(n, at, ms, got) /\ Joint(tr, n, at, ms, gat)'
  BY <1>2, <1>3
<1> QED BY <1>14, <1>15, <1>16, <1>17, <1>18, GroupFull

\* Within a group no collective with the clients is completed.
LEMMA InsideFull ==
  ASSUME LoopInv, IInv, Full, NEW g \in Groups, NEW r \in Ranks,
         (r \in Others /\ Forward(g, r)) \/ (r = Root /\ RootStep(g))
  PROVE  Full'
<1>1. PICK n \in Nat \ {0} : \E tr, at, ms, got :
         Joint(tr, n, at, ms, got) /\ Sorting(n, at, ms, got)
  BY DEF Full
<1>2. PICK tr, at, ms, got : Joint(tr, n, at, ms, got) /\ Sorting(n, at, ms, got)
  BY <1>1
<1>3. PICK l \in Nat : l = at[n][g]
  BY <1>2, JointCounts
<1>4. PICK m, k : m = ms[g] /\ k = got[g]
  OBVIOUS
<1>5. PICK la, ls, f : Filed(g, l, m, k, la, ls, f)
  BY <1>2, <1>3, <1>4 DEF Sorting, FiledBy
<1>6. k[r] \in 0 .. l
  BY <1>2, <1>3, <1>4, JointCounts
<1>7. SeqTypes' /\ \E ff : Filed(g, l, m, k, la, ls, ff)'
  <2>1. CASE r \in Others /\ Forward(g, r)
    BY <1>5, <1>6, <2>1, ForwardFiled DEF Full
  <2>2. CASE r = Root /\ RootStep(g)
    BY <1>5, <1>6, <2>2, RootFiled DEF Full
  <2> QED BY <2>1, <2>2
<1>8. GroupStep
  BY ForwardLoop, RootLoop
<1>9. Joint(tr, n, at, ms, got)'
  BY <1>2, <1>8, StepsWithin
<1>10. FiledBy(g, at[n][g], ms[g], got[g])'
  BY <1>3, <1>4, <1>7 DEF FiledBy
<1>11. Beside(g) /\ Moves(got, got, g)
  BY Elsewhere DEF Full, Beside, Moves
<1>12. UNCHANGED mediationVars
  BY <1>8 DEF GroupStep, clientVars
<1> QED BY <1>2, <1>7, <1>9, <1>10, <1>11, <1>12, GroupFull

\* Steps that no record is moved by.
LEMMA PollFull ==
  ASSUME LoopInv, IInv, Full, (\E g \in Groups : PollStep(g)) \/ UNCHANGED vars
  PROVE  Full'
<1>1. PICK n \in Nat \ {0} : \E tr, at, ms, got :
         Joint(tr, n, at, ms, got) /\ Sorting(n, at, ms, got)
  BY DEF Full
<1>2. PICK tr, at, ms, got : Joint(tr, n, at, ms, got) /\ Sorting(n, at, ms, got)
  BY <1>1
<1>3. Joint(tr, n, at, ms, got)'
  <2>1. CASE UNCHANGED vars
    BY <1>2, <2>1, StepsWithin
  <2>2. ASSUME NEW g \in Groups, PollStep(g) PROVE Joint(tr, n, at, ms, got)'
    BY <1>2, <2>2, OfferMatched, FoundMatched DEF PollStep
  <2> QED BY <2>1, <2>2
<1>4. (\A h \in Groups : Untouched(h)) /\ UNCHANGED <<pieces, lchan, batch, mediationVars>>
  <2>1. CASE UNCHANGED vars
    <3>1. UNCHANGED <<pieces, lchan, batch, busy, phase, mediationVars>>
      BY <2>1 DEF vars, serverVars, taskVars, rootVars, clientVars
    <3> QED BY <3>1 DEF Untouched
  <2>2. ASSUME NEW g \in Groups, PollStep(g)
        PROVE  (\A h \in Groups : Untouched(h)) /\ UNCHANGED <<pieces, lchan, batch, mediationVars>>
    BY <2>2, PollElsewhere, RanksOf
  <2> QED BY <2>1, <2>2
<1>5. Sorting(n, at, ms, got)'
  BY <1>2, <1>4, SortingStays
<1>6. SeqTypes' /\ \A c \in Clients : Dated(c)'
  BY <1>4 DEF Full, SeqTypes, Dated, Writing, mediationVars
<1> QED BY <1>3, <1>5, <1>6 DEF Full

LEMMA NextFull ==
  ASSUME LoopInv, IInv, IInv', Within, Full, [Next]_vars
  PROVE  Full'
<1>1. ASSUME NEW c \in Clients, ClientStep(c), UNCHANGED serverVars PROVE Full'
  BY <1>1, ClientFull
<1>2. ASSUME NEW g \in Groups, PollStep(g) PROVE Full'
  BY <1>2, PollFull
<1>3. ASSUME NEW g \in Groups, NEW r \in Ranks, ServerStep(g, r) PROVE Full'
  <2>1. CASE ServerReduce(g, r)
    BY <2>1, ReduceFull
  <2>2. CASE ServerGather(g, r)
    BY <2>2, GatherFull
  <2>3. CASE r \in Others /\ Forward(g, r)
    BY <2>3, InsideFull
  <2>4. CASE r = Root /\ RootStep(g)
    BY <2>4, InsideFull
  <2> QED BY <1>3, <2>1, <2>2, <2>3, <2>4 DEF ServerStep
<1>4. CASE UNCHANGED vars
  BY <1>4, PollFull
<1> QED BY <1>1, <1>2, <1>3, <1>4 DEF Next, ServersNext, Over

LEMMA InitFiled ==
  ASSUME QuiltInit, NEW g \in Groups, NEW m, NEW k, \A r \in Ranks : k[r] = 0
  PROVE  FiledBy(g, 0, m, k)
<1>1. /\ \A r \in Ranks : phase[g][r] \notin {"forward", "aborted"}
      /\ \A r \in Others : lchan[g][r] = <<>>
      /\ batch[g] = <<>> /\ ~busy[g]
  BY DEF QuiltInit
<1>2. PICK la : la[0] = 0
  <2> WITNESS [j \in {0} |-> 0]
  <2> QED OBVIOUS
<1>3. PICK f : \A r \in Ranks : f[r] = 0
  <2> WITNESS [r \in Ranks |-> 0]
  <2> QED OBVIOUS
<1>4. PICK ls : ls = 0
  OBVIOUS
<1>5. Charted(0, m, la, ls)
  BY <1>2 DEF Charted
<1>6. \A r \in Ranks : k[r] = 0 /\ Holds(g, r, k[r], la, ls, f[r])
  BY <1>1, <1>2, <1>3 DEF Holds
<1>7. \A r \in Others : f[r] = 0 /\ Carries(g, r, ls, 0, 0)
  <2>1. Len(<<>>) = 0 /\ \A r \in Others : r \in Ranks
    BY ServerConstants, EmptySeq DEF Others, Ranks
  <2> QED BY <1>1, <1>3, <2>1 DEF Carries
<1>8. f[Root] = 0 /\ Batched(g, ls, 0)
  <2>1. Len(batch[g]) = 0 /\ Root \in Ranks
    BY <1>1, EmptySeq, RanksOf
  <2> QED BY <1>1, <1>3, <2>1 DEF Batched
<1>9. Filed(g, 0, m, k, la, ls, f)
  BY <1>2, <1>3, <1>5, <1>6, <1>7, <1>8 DEF Filed
<1> QED BY <1>9 DEF FiledBy

LEMMA InitFull ==
  ASSUME QuiltInit
  PROVE  Full
<1>1. PICK tr, at, ms, got :
        /\ Joint(tr, 1, at, ms, got)
        /\ \A g \in Groups : at[1][g] = 0 /\ \A r \in Ranks : got[g][r] = 0
  BY InitJoint
<1>2. /\ pieces = [g \in Groups |-> [r \in Ranks |-> <<>>]]
      /\ lchan = [g \in Groups |-> [r \in Others |-> <<>>]]
      /\ batch = [g \in Groups |-> <<>>]
  BY DEF QuiltInit
<1>3. SeqTypes
  <2>1. <<>> \in Seq(Seq(ServerRecords)) /\ <<>> \in Seq(ServerRecords)
    BY EmptySeq
  <2> QED BY <1>2, <2>1 DEF SeqTypes
<1>4. \A c \in Clients : Dated(c)
  BY ClientConstants DEF QuiltInit, Init, Dated, Writing
<1>5. Sorting(1, at, ms, got)
  BY <1>1, InitFiled DEF Sorting
<1> QED BY <1>1, <1>3, <1>4, <1>5 DEF Full

LEMMA FullHolds == QuiltSpec => []Full
<1>1. QuiltInit => Agree /\ Full
  BY InitAgree, InitFull DEF QuiltInit
<1>2. LoopInv /\ IInv /\ IInv' /\ Agree /\ Full /\ [Next]_vars => Agree' /\ Full'
  <2> SUFFICES ASSUME LoopInv, IInv, IInv', Agree, Full, [Next]_vars
               PROVE  Agree' /\ Full'
    OBVIOUS
  <2>1. [ClientNext]_clientVars
    BY StepMaps
  <2>2. Agree'
    BY <2>1, StepAgrees
  <2>3. Within
    BY DEF Agree
  <2> QED BY <2>2, <2>3, NextFull
<1> QED BY <1>1, <1>2, LoopInvHolds, PTL DEF QuiltSpec

\* What a group is doing, as items of its script.
LEMMA FullFiled ==
  ASSUME Full, NEW g \in Groups
  PROVE  \E l \in Nat : \E m, k, la, ls, f :
           Filed(g, l, m, k, la, ls, f) /\ k[Root] \in 0 .. l
<1>1. PICK n \in Nat \ {0} : \E tr, at, ms, got :
         Joint(tr, n, at, ms, got) /\ Sorting(n, at, ms, got)
  BY DEF Full
<1>2. PICK tr, at, ms, got : Joint(tr, n, at, ms, got) /\ Sorting(n, at, ms, got)
  BY <1>1
<1>3. PICK l \in Nat : l = at[n][g]
  BY <1>2, JointCounts
<1>4. got[g][Root] \in 0 .. l
  BY <1>2, <1>3, JointCounts, RanksOf
<1> QED BY <1>2, <1>3, <1>4 DEF Sorting, FiledBy

\* Within a group every server forwards as many pieces of a message as its
\* root does: what the root finds next from another server is the end of the
\* message just when it has no piece of its own left.
THEOREM LocalCollectivesStayMatched == QuiltSpec => []LocalCollectivesMatch
<1>1. Full => LocalCollectivesMatch
  <2> SUFFICES ASSUME Full, NEW g \in Groups, phase[g][Root] = "forward", ~busy[g],
                      NEW r \in Others, lchan[g][r] # <<>>
               PROVE  Head(lchan[g][r]) = End <=> pieces[g][Root] = <<>>
    BY DEF LocalCollectivesMatch
  <2>1. PICK l \in Nat : \E m, k, la, ls, f :
           Filed(g, l, m, k, la, ls, f) /\ k[Root] \in 0 .. l
    BY FullFiled
  <2>2. PICK m, k, la, ls, f : Filed(g, l, m, k, la, ls, f) /\ k[Root] \in 0 .. l
    BY <2>1
  <2>3. PICK b \in Nat : b = f[Root]
    BY <2>2, RanksOf DEF Filed
  <2>4. PICK p : p = Head(lchan[g][r])
    OBVIOUS
  <2>5. PieceOf(r, p, ls[b + 1])
    <3>1. lchan[g][r] \in Seq(Seq(ServerRecords))
      BY DEF Full, SeqTypes
    <3>2. 1 \in 1 .. Len(lchan[g][r]) /\ p = lchan[g][r][1]
      BY <2>4, <3>1, EmptySeq, LenProperties
    <3>3. \A i \in 1 .. Len(lchan[g][r]) : PieceOf(r, lchan[g][r][i], ls[b + i])
      BY <2>2, <2>3 DEF Filed, Carries
    <3> QED BY <3>2, <3>3
  <2>6. p = End <=> ls[b + 1].tag = "end"
    BY <2>5 DEF PieceOf
  <2>7. Holds(g, Root, k[Root], la, ls, b)
    BY <2>2, <2>3, RanksOf DEF Filed
  <2>8. pieces[g][Root] \in Seq(Seq(ServerRecords)) /\ Len(pieces[g][Root]) \in Nat
    BY RanksOf, LenProperties DEF Full, SeqTypes
  <2>9. CASE pieces[g][Root] = <<>>
    <3>1. Len(pieces[g][Root]) = 0
      BY <2>9, EmptySeq
    <3>2. b + 1 = la[k[Root]] /\ ls[la[k[Root]]].tag = "end"
      BY <2>7, <3>1 DEF Holds
    <3> QED BY <2>4, <2>6, <2>9, <3>2
  <2>10. CASE pieces[g][Root] # <<>>
    <3>1. 1 \in 1 .. Len(pieces[g][Root])
      BY <2>8, <2>10, EmptySeq, LenProperties
    <3>2. \A i \in 1 .. Len(pieces[g][Root]) : ls[b + i].tag # "end"
      BY <2>7 DEF Holds
    <3> QED BY <2>4, <2>6, <2>10, <3>1, <3>2
  <2> QED BY <2>9, <2>10
<1> QED BY <1>1, FullHolds, PTL

\* Whatever the root of a group handles at a time, the records its servers
\* forwarded, comes from one call of the clients.
THEOREM BatchesAreOfOneCall == QuiltSpec => []BatchOfOneCall
<1>1. Full => BatchOfOneCall
  <2> SUFFICES ASSUME Full, NEW g \in Groups, NEW i \in DOMAIN batch[g], NEW j \in DOMAIN batch[g],
                      batch[g][i].tag # "noop", batch[g][j].tag # "noop"
               PROVE  /\ batch[g][i].tag = batch[g][j].tag
                      /\ batch[g][i].tag # "close" =>
                           /\ batch[g][i].h = batch[g][j].h
                           /\ batch[g][i].v = batch[g][j].v
                           /\ batch[g][i].date = batch[g][j].date
    BY DEF BatchOfOneCall
  <2>1. PICK l \in Nat : \E m, k, la, ls, f :
           Filed(g, l, m, k, la, ls, f) /\ k[Root] \in 0 .. l
    BY FullFiled
  <2>2. PICK m, k, la, ls, f : Filed(g, l, m, k, la, ls, f)
    BY <2>1
  <2>3. DOMAIN batch[g] = 1 .. Len(batch[g])
    BY LenProperties DEF Full, SeqTypes
  <2>4. Meets(batch[g][i], ls[f[Root]]) /\ Meets(batch[g][j], ls[f[Root]])
    BY <2>2, <2>3 DEF Filed, Batched
  <2> QED BY <2>4 DEF Meets
<1> QED BY <1>1, FullHolds, PTL

(* The root's tables and the files.                                         *)

\* The call an item is of.
LEMMA ItemOfCall ==
  ASSUME NEW l \in Nat, NEW m, NEW la, NEW ls, Charted(l, m, la, ls), NEW b \in 1 .. la[l]
  PROVE  \E j \in 0 .. l - 1 : \E i \in 1 .. Items(m[j + 1]) :
           b = la[j] + i /\ ls[b] = Item(m[j + 1], i) /\ Meant(m[j + 1])
<1> DEFINE T == {j \in 0 .. l : b <= la[j]}
<1>1. la[0] = 0 /\ \A j \in 0 .. l : la[j] \in Nat
  BY DEF Charted
<1>2. b \in Nat \ {0} /\ b <= la[l]
  BY <1>1
<1>3. l \in T /\ 0 \notin T
  <2>1. l \in 0 .. l /\ ~(b <= 0)
    BY <1>2
  <2> QED BY <1>1, <1>2, <2>1
<1>4. PICK n \in T : \A j \in T : n <= j
  <2>1. T \subseteq Nat /\ T # {}
    BY <1>3
  <2> HIDE DEF T
  <2> QED BY <2>1, LeastNat
<1>5. PICK j \in 0 .. l - 1 : n = j + 1
  <2>1. n \in 1 .. l /\ n - 1 \in 0 .. l - 1 /\ n = (n - 1) + 1
    BY <1>3, <1>4
  <2> QED BY <2>1
<1>6. j \notin T /\ b <= la[j + 1]
  <2>1. ~(n <= j) /\ n \in T
    BY <1>5
  <2> QED BY <1>4, <1>5, <2>1
<1>7. j \in 0 .. l /\ la[j] \in Nat /\ ~(b <= la[j])
  <2>1. j \in 0 .. l
    OBVIOUS
  <2> QED BY <1>1, <1>6, <2>1
<1> HIDE DEF T
<1>8. PICK s : s = m[j + 1]
  OBVIOUS
<1>9. Meant(s) /\ la[j + 1] = la[j] + Items(s) /\ \A i \in 1 .. Items(s) : ls[la[j] + i] = Item(s, i)
  BY <1>8, ChartAt
<1>10. Items(s) \in Nat
  BY <1>9, ItemsNat
<1>11. PICK i \in 1 .. Items(s) : b = la[j] + i
  <2>1. PICK a \in Nat, k \in Nat : a = la[j] /\ k = Items(s)
    BY <1>7, <1>10
  <2>2. b <= a + k /\ ~(b <= a)
    BY <1>6, <1>7, <1>9, <2>1
  <2>3. b - a \in 1 .. k /\ b = a + (b - a)
    BY <1>2, <2>2
  <2> QED BY <2>1, <2>3
<1> QED BY <1>8, <1>9, <1>11

\* What a record can be, apart from a noop.
Spoken(a) ==
  /\ a.tag # "close" => a.h \in Handles
  /\ a.tag = "open" => a.v \in Streams
  /\ a.tag \in {"train", "field"} => a.v \in 1 .. NF
  /\ a.tag \in {"open", "train", "field"} => a.date \in 1 .. MaxOutputs

LEMMA ItemSpoken ==
  ASSUME NEW s, Meant(s), NEW i \in 1 .. Items(s), Item(s, i).tag # "end"
  PROVE  Spoken(Item(s, i))
<1>1. i # Items(s)
  BY DEF Item, About
<1>2. s.about \in Subjects
  BY DEF Meant
<1>3. CASE s.about.tag = "field"
  <2>1. i \in 1 .. NF
    <3>1. NF \in Nat \ {0}
      BY ClientConstants
    <3>2. s.kind = "gather" => Items(s) = NF + 1
      BY <1>3 DEF Meant, Items
    <3>3. s.kind # "gather" => Items(s) \in {0, 2}
      BY DEF Items
    <3> QED BY <1>1, <3>1, <3>2, <3>3
  <2>2. Item(s, i) = About("field", s.about.h, i, s.about.date)
    BY <1>1, <1>3 DEF Item
  <2> QED BY <1>2, <1>3, <2>1, <2>2 DEF Spoken, About, Subjects
<1>4. CASE s.about.tag # "field"
  <2>1. Item(s, i) = s.about
    BY <1>1, <1>4 DEF Item
  <2> QED BY <1>2, <1>4, <2>1 DEF Spoken, Subjects
<1> QED BY <1>3, <1>4

\* The record the root handles next.
LEMMA HeadSpoken ==
  ASSUME Full, NEW g \in Groups, batch[g] # <<>>
  PROVE  /\ Head(batch[g]) \in ServerRecords
         /\ Head(batch[g]).tag # "noop" =>
              /\ Spoken(Head(batch[g]))
              /\ Head(batch[g]).tag # "close" => Head(batch[g]).src \in Clients
<1>1. PICK l \in Nat : \E m, k, la, ls, f :
         Filed(g, l, m, k, la, ls, f) /\ k[Root] \in 0 .. l
  BY FullFiled
<1>2. PICK m, k, la, ls, f : Filed(g, l, m, k, la, ls, f)
  BY <1>1
<1>3. PICK a : a = Head(batch[g])
  OBVIOUS
<1>4. a \in ServerRecords /\ a = batch[g][1] /\ 1 \in 1 .. Len(batch[g])
  <2>1. batch[g] \in Seq(ServerRecords)
    BY DEF Full, SeqTypes
  <2> QED BY <1>3, <2>1, HeadTail
<1>5. f[Root] \in Nat /\ f[Root] <= la[l] /\ la[l] \in Nat /\ Batched(g, ls, f[Root])
      /\ Charted(l, m, la, ls)
  BY <1>2, FiledIs, OthersOf
<1>6. f[Root] \in 1 .. la[l] /\ Meets(a, ls[f[Root]])
  <2>1. f[Root] > 0 /\ Meets(batch[g][1], ls[f[Root]])
    BY <1>4, <1>5 DEF Batched
  <2> QED BY <1>4, <1>5, <2>1
<1>7. PICK it : it = ls[f[Root]]
  OBVIOUS
<1>8. PICK s, i : Meant(s) /\ i \in 1 .. Items(s) /\ it = Item(s, i)
  BY <1>5, <1>6, <1>7, ItemOfCall
<1>9. ASSUME a.tag # "noop" PROVE Spoken(a) /\ (a.tag # "close" => a.src \in Clients)
  <2>1. a.tag = it.tag /\ (a.tag # "close" => a.h = it.h /\ a.v = it.v /\ a.date = it.date
                                            /\ a.src \in Clients)
    BY <1>6, <1>7, <1>9 DEF Meets
  <2>2. a.tag # "end"
    BY <1>4 DEF ServerRecords
  <2>3. Spoken(it)
    BY <1>8, <2>1, <2>2, ItemSpoken
  <2> QED BY <2>1, <2>3 DEF Spoken
<1> QED BY <1>3, <1>4, <1>9

-----------------------------------------------------------------------------
(* The types of what the root of a group keeps, and of the files.           *)

Patches == [v : 1 .. NF, date : 1 .. MaxOutputs, src : Clients]
Entries == [v : 1 .. NF, date : Nat, from : SUBSET Clients]
States == {"none", "opened", "committed", "closed"}

\* A commit is asked for on a handle of the clients only.
RootTypes ==
  /\ want \in [Groups -> [Ranks -> Nat]]
  /\ dh \in [Groups -> 0 .. NH]
  /\ rokw \in [Groups -> [0 .. NH -> BOOLEAN]]
  /\ rokc \in [Groups -> [0 .. NH -> BOOLEAN]]
  /\ \A g \in Groups : ~rokc[g][0]
  /\ file \in [Groups -> [Handles -> Files]]
  /\ outbuf \in [Groups -> SUBSET Patches]
  /\ fname \in [Groups -> Files]
  /\ status \in [Datasets -> States]
  /\ contents \in [Datasets -> Seq(Entries)]
  /\ ready \subseteq Datasets
SyncTypes == stored \in [Groups -> BOOLEAN] /\ unsynced \in [Datasets -> BOOLEAN]

LEMMA TypesAre ==
  ASSUME IInv, LoopInv, Full, RootTypes, SyncTypes
  PROVE  TypeOK
<1>1. ClientTypeOK
  BY DEF IInv
<1>2. /\ phase \in [Groups -> [Ranks -> Phases]] /\ callReady \in [Groups -> [Ranks -> BOOLEAN]]
      /\ busy \in [Groups -> BOOLEAN]
  BY DEF LoopInv, ServersTypeOK
<1>3. SeqTypes
  BY DEF Full
<1> QED BY <1>1, <1>2, <1>3 DEF TypeOK, RootTypes, SyncTypes, SeqTypes, Patches, Entries, States

LEMMA RootTypesStay ==
  ASSUME RootTypes, UNCHANGED <<dh, rokw, rokc, file, outbuf, fname, status, contents, ready>>,
         want' \in [Groups -> [Ranks -> Nat]]
  PROVE  RootTypes'
BY DEF RootTypes

\* What there is to sync is said of every group and of every dataset.
LEMMA SyncTypesStay ==
  ASSUME SyncTypes, [Next]_vars
  PROVE  SyncTypes'
<1>1. CASE UNCHANGED <<stored, unsynced>>
  BY <1>1 DEF SyncTypes
<1>2. CASE UNCHANGED serverVars \/ UNCHANGED vars
  BY <1>1, <1>2 DEF vars, serverVars, rootVars, diskVars
<1>3. ASSUME NEW g \in Groups, PollStep(g) PROVE SyncTypes'
  BY <1>1, <1>3 DEF PollStep, OfferGroup, GroupFound, rootVars, diskVars
<1>4. ASSUME NEW g \in Groups, RootStep(g) PROVE SyncTypes'
  <2>1. CASE RootCollect(g)
    BY <2>1 DEF RootCollect, SyncTypes, diskVars
  <2>2. CASE RootDone(g)
    <3>1. PICK d : d = file[g][dh[g]]
      OBVIOUS
    <3>2. /\ unsynced' = unsynced \/ unsynced' = [unsynced EXCEPT ![d] = FALSE]
          /\ stored' = stored
      BY <2>2, <3>1 DEF RootDone, rootVars
    <3> QED BY <3>2 DEF SyncTypes
  <2>3. CASE HandleNoop(g) \/ HandleMeta(g) \/ HandleOpen(g) \/ HandleCommit(g)
    BY <1>1, <2>3 DEF HandleNoop, HandleMeta, HandleOpen, HandleCommit, diskVars
  <2>4. CASE HandleField(g)
    <3>1. PICK b \in BOOLEAN : b <=> (stored[g] \/ rokw[g][Head(batch[g]).h])
      OBVIOUS
    <3>2. stored' = stored \/ stored' = [stored EXCEPT ![g] = b]
      <4>1. stored' = stored \/ stored' = [stored EXCEPT ![g] = stored[g] \/ rokw[g][Head(batch[g]).h]]
        BY <2>4 DEF HandleField
      <4>2. b = (stored[g] \/ rokw[g][Head(batch[g]).h])
        BY <3>1
      <4> QED BY <4>1, <4>2
    <3>3. unsynced' = unsynced
      BY <2>4 DEF HandleField, diskVars
    <3> QED BY <3>2, <3>3 DEF SyncTypes
  <2>5. CASE HandleClose(g)
    <3>1. PICK d : d = file[g][Head(batch[g]).h]
      OBVIOUS
    <3>2. /\ unsynced' = unsynced \/ unsynced' = [unsynced EXCEPT ![d] = FALSE]
          /\ stored' = stored
      BY <2>5, <3>1 DEF HandleClose
    <3> QED BY <3>2 DEF SyncTypes
  <2>6. CASE FinishBatch(g)
    <3>1. PICK d : d = file[g][dh[g]]
      OBVIOUS
    <3>2. /\ unsynced' = unsynced \/ unsynced' = [unsynced EXCEPT ![d] = TRUE]
          /\ stored' = stored
      BY <2>6, <3>1 DEF FinishBatch
    <3> QED BY <3>2 DEF SyncTypes
  <2> QED BY <1>4, <2>1, <2>2, <2>3, <2>4, <2>5, <2>6 DEF RootStep
<1>5. ASSUME NEW g \in Groups, NEW r \in Ranks, ServerStep(g, r) PROVE SyncTypes'
  <2>1. CASE ServerReduce(g, r) \/ ServerGather(g, r) \/ (r \in Others /\ Forward(g, r))
    BY <1>1, <2>1 DEF ServerReduce, ServerGather, Forward, rootVars, diskVars
  <2> QED BY <1>4, <1>5, <2>1 DEF ServerStep
<1> QED BY <1>2, <1>3, <1>5 DEF Next, ServersNext, Over

\* What the clients of a server announce is the size of a message, or a signal.
LEMMA AnnouncedSize ==
  ASSUME IInv, Full, NEW g \in Groups, NEW r \in Ranks, ServerReduce(g, r)
  PROVE  Reduced(g, r, "size") \in Nat \cup {ExitSize}
<1>1. PICK n \in Nat \ {0} : \E tr, at, ms, got :
         Joint(tr, n, at, ms, got) /\ Sorting(n, at, ms, got)
  BY DEF Full
<1>2. PICK tr, at, ms, got : Joint(tr, n, at, ms, got)
  BY <1>1
<1>3. \A c \in Served(r) : chan[c][g] # <<>> /\ Head(chan[c][g]).kind = "reduce"
  BY DEF ServerReduce, Joined
<1>4. PICK s : s = ms[g][got[g][r] + 1]
  OBVIOUS
<1>5. s.size \in Nat \cup {ExitSize} /\ \A c \in Served(r) : Fits(c, Head(chan[c][g]), s)
  BY <1>2, <1>3, <1>4, NextOfScript
<1>6. s.kind = "reduce"
  <2>1. PICK c \in Served(r) : TRUE
    BY RanksOf
  <2> QED BY <1>3, <1>5, <2>1 DEF Fits
<1>7. /\ s.size = 0 => Reduced(g, r, "size") = 0
      /\ s.size = ExitSize => Reduced(g, r, "size") = ExitSize
      /\ s.size \in Nat \ {0} => Reduced(g, r, "size") \in Nat \ {0}
  BY <1>5, <1>6, ReducedSize
<1> QED BY <1>5, <1>7

LEMMA ReduceTypes ==
  ASSUME IInv, Full, RootTypes, NEW g \in Groups, NEW r \in Ranks, ServerReduce(g, r)
  PROVE  RootTypes'
<1>1. PICK z : z = Reduced(g, r, "size")
  OBVIOUS
<1>2. z \in Nat \cup {ExitSize}
  BY <1>1, AnnouncedSize
<1>3. PICK w \in Nat : w = IF z > 0 THEN z ELSE 0
  <2>1. CASE z \in Nat
    BY <2>1
  <2>2. CASE z = ExitSize
    BY <2>2 DEF ExitSize
  <2> QED BY <1>2, <2>1, <2>2
<1>4. want' = [want EXCEPT ![g][r] = w] /\ UNCHANGED <<rootVars, diskVars>>
  BY <1>1, <1>3 DEF ServerReduce
<1>5. want' \in [Groups -> [Ranks -> Nat]]
  BY <1>4 DEF RootTypes
<1> QED BY <1>4, <1>5, RootTypesStay DEF rootVars, diskVars

\* What write_outbuf puts together.
LEMMA AssembledType ==
  ASSUME NEW g \in Groups, RootTypes
  PROVE  Assembled(g) \in Seq(Entries)
<1> DEFINE R(v) == IF Stored(g, v) = {} THEN <<>> ELSE <<Entry(g, v)>>
           ff == [v \in 1 .. NF |-> R(v)]
<1>1. NF \in Nat
  BY ClientConstants
<1>2. ASSUME NEW v \in 1 .. NF PROVE ff[v] \in Seq(Entries)
  <2>1. CASE Stored(g, v) = {}
    BY <2>1
  <2>2. CASE Stored(g, v) # {}
    <3>1. Stored(g, v) \subseteq Patches
      BY DEF Stored, RootTypes
    <3>2. PICK p \in Patches : p = CHOOSE q \in Stored(g, v) : TRUE
      BY <2>2, <3>1
    <3>3. PICK fr : fr = {q.src : q \in Stored(g, v)}
      OBVIOUS
    <3>4. fr \in SUBSET Clients
      BY <3>1, <3>3 DEF Patches
    <3>5. p.date \in Nat
      BY DEF Patches
    <3>6. Entry(g, v) = [v |-> v, date |-> p.date, from |-> fr]
      BY <3>2, <3>3 DEF Entry
    <3>7. Entry(g, v) \in Entries
      BY <3>4, <3>5, <3>6 DEF Entries
    <3>8. ff[v] = <<Entry(g, v)>>
      BY <2>2
    <3> QED BY <3>7, <3>8
  <2> QED BY <2>1, <2>2
<1>3. Assembled(g) = FlattenSeq(ff)
  BY DEF Assembled, Collect
<1> HIDE DEF ff
<1>4. ff = [i \in 1 .. NF |-> ff[i]]
  BY DEF ff
<1>5. Assembled(g) = Column(ff, NF)
  BY <1>3, <1>4 DEF Column
<1>6. NF \in 0 .. NF
  BY <1>1
<1>7. \A k \in 0 .. NF : Column(ff, k) \in Seq(Entries)
  BY <1>1, <1>2, ColumnType
<1> QED BY <1>5, <1>6, <1>7

LEMMA OpenTypes ==
  ASSUME Full, RootTypes, NEW g \in Groups, HandleOpen(g)
  PROVE  RootTypes'
<1>1. PICK a : a = Head(batch[g])
  OBVIOUS
<1>2. batch[g] # <<>> /\ a.tag = "open"
  BY <1>1 DEF HandleOpen, Handling
<1>3. a.h \in Handles /\ a.v \in Streams /\ a.date \in 1 .. MaxOutputs
  BY <1>1, <1>2, HeadSpoken DEF Spoken
<1>4. PICK d : d = <<a.v, a.date>>
  OBVIOUS
<1>5. d \in Datasets /\ d \in Files
  BY <1>3, <1>4 DEF Datasets, Files
<1>6. /\ dh' = [dh EXCEPT ![g] = a.h] /\ file' = [file EXCEPT ![g][a.h] = d]
      /\ status' = [status EXCEPT ![d] = "opened"] /\ rokw' = [rokw EXCEPT ![g][a.h] = FALSE]
      /\ UNCHANGED <<want, rokc, outbuf, fname, contents, ready>>
  BY <1>1, <1>4 DEF HandleOpen, OpenedNoWrite, taskVars
<1>7. a.h \in 0 .. NH
  BY <1>3, ClientConstants DEF Handles
<1> QED BY <1>3, <1>5, <1>6, <1>7 DEF RootTypes, States

LEMMA CloseTypes ==
  ASSUME Full, RootTypes, NEW g \in Groups, HandleClose(g)
  PROVE  RootTypes'
<1>1. PICK h : h = Head(batch[g]).h
  OBVIOUS
<1>2. batch[g] # <<>>
  BY DEF HandleClose, Handling
<1>3. h \in 0 .. NH
  BY <1>1, <1>2, HeadSpoken DEF ServerRecords
<1>4. PICK name : name = IF h >= 1 THEN file[g][h] ELSE fname[g]
  OBVIOUS
<1>5. name \in Files
  <2>1. CASE h >= 1
    <3>1. h \in Handles
      BY <1>3, <2>1, ClientConstants DEF Handles
    <3>2. file[g] \in [Handles -> Files]
      BY DEF RootTypes
    <3> QED BY <1>4, <2>1, <3>1, <3>2
  <2>2. CASE ~(h >= 1)
    <3>1. fname[g] \in Files
      BY DEF RootTypes
    <3> QED BY <1>4, <2>2, <3>1
  <2> QED BY <2>1, <2>2
<1>6. /\ dh' = [dh EXCEPT ![g] = h] /\ fname' = [fname EXCEPT ![g] = name]
      /\ ready' = IF name[1] \in ReadyStreams THEN ready \cup {name} ELSE ready
      /\ status' = status \/ status' = [status EXCEPT ![file[g][h]] = "closed"]
      /\ UNCHANGED <<want, rokw, rokc, file, outbuf, contents>>
  BY <1>1, <1>4 DEF HandleClose, taskVars
<1>7. status' \in [Datasets -> States]
  BY <1>6 DEF RootTypes, States
<1>8. ready' \subseteq Datasets
  <2>1. name[1] \in ReadyStreams => name \in Datasets
    <3>1. 0 \notin ReadyStreams
      BY ServerConstants DEF Streams
    <3> QED BY <1>5, <3>1 DEF Files, NoFile
  <2> QED BY <1>6, <2>1 DEF RootTypes
<1> QED BY <1>3, <1>5, <1>6, <1>7, <1>8 DEF RootTypes

LEMMA FieldTypes ==
  ASSUME Full, RootTypes, NEW g \in Groups, HandleField(g)
  PROVE  RootTypes'
<1>1. PICK a : a = Head(batch[g])
  OBVIOUS
<1>2. batch[g] # <<>> /\ a.tag \in {"train", "field"}
  BY <1>1 DEF HandleField, Handling
<1>3. /\ a.h \in Handles /\ a.v \in 1 .. NF /\ a.date \in 1 .. MaxOutputs /\ a.src \in Clients
  BY <1>1, <1>2, HeadSpoken DEF Spoken
<1>4. PICK p : p = [v |-> a.v, date |-> a.date, src |-> a.src]
  OBVIOUS
<1>5. p \in Patches
  BY <1>3, <1>4 DEF Patches
<1>6. /\ dh' = [dh EXCEPT ![g] = a.h]
      /\ outbuf' = outbuf \/ outbuf' = [outbuf EXCEPT ![g] = outbuf[g] \cup {p}]
      /\ UNCHANGED <<want, rokw, rokc, file, fname, diskVars>>
  BY <1>1, <1>4 DEF HandleField
<1>7. outbuf' \in [Groups -> SUBSET Patches]
  <2>1. outbuf \in [Groups -> SUBSET Patches]
    BY DEF RootTypes
  <2>2. outbuf[g] \cup {p} \in SUBSET Patches
    BY <1>5, <2>1
  <2> QED BY <1>6, <2>1, <2>2
<1>8. a.h \in 0 .. NH
  BY <1>3, ClientConstants DEF Handles
<1> QED BY <1>6, <1>7, <1>8 DEF RootTypes, diskVars

LEMMA FinishTypes ==
  ASSUME RootTypes, NEW g \in Groups, FinishBatch(g)
  PROVE  RootTypes'
<1>1. PICK h \in 0 .. NH : h = dh[g]
  BY DEF RootTypes
<1>2. PICK d : d = file[g][h]
  OBVIOUS
<1>3. /\ contents' = contents \/ contents' = [contents EXCEPT ![d] = @ \o Assembled(g)]
      /\ outbuf' = outbuf \/ outbuf' = [outbuf EXCEPT ![g] = {}]
      /\ UNCHANGED <<want, dh, file, ready>>
  BY <1>1, <1>2 DEF FinishBatch, Flushed, taskVars
<1>4. contents' \in [Datasets -> Seq(Entries)]
  <2>1. \A s \in Seq(Entries) : s \o Assembled(g) \in Seq(Entries)
    BY AssembledType, ConcatProperties
  <2>2. contents \in [Datasets -> Seq(Entries)]
    BY DEF RootTypes
  <2>3. PICK as : as = Assembled(g)
    OBVIOUS
  <2>4. \A s \in Seq(Entries) : s \o as \in Seq(Entries)
    BY <2>1, <2>3
  <2>5. contents' = contents \/ contents' = [contents EXCEPT ![d] = contents[d] \o as]
    BY <1>3, <2>3
  <2>6. CASE d \in Datasets
    <3>1. contents[d] \o as \in Seq(Entries)
      BY <2>2, <2>4, <2>6
    <3> QED BY <2>2, <2>5, <3>1
  <2>7. CASE d \notin Datasets
    BY <2>2, <2>5, <2>7
  <2> QED BY <2>6, <2>7
<1>5. outbuf' \in [Groups -> SUBSET Patches]
  BY <1>3 DEF RootTypes
<1>6. CASE rokc[g][h]
  <2>1. h \in Handles /\ d \in Files
    <3>1. h # 0
      BY <1>6 DEF RootTypes
    <3>2. h \in Handles
      BY <3>1, ClientConstants DEF Handles
    <3> QED BY <1>2, <3>2 DEF RootTypes
  <2>2. /\ fname' = [fname EXCEPT ![g] = d] /\ rokc' = [rokc EXCEPT ![g][h] = FALSE]
        /\ status' = status \/ status' = [status EXCEPT ![d] = "committed"]
        /\ rokw' = rokw \/ rokw' = [rokw EXCEPT ![g][h] = TRUE]
    BY <1>1, <1>2, <1>6 DEF FinishBatch, CommitDone
  <2>3. fname' \in [Groups -> Files]
    BY <2>1, <2>2 DEF RootTypes
  <2>4. rokc' \in [Groups -> [0 .. NH -> BOOLEAN]] /\ \A k \in Groups : ~rokc'[k][0]
    <3>1. rokc \in [Groups -> [0 .. NH -> BOOLEAN]] /\ \A k \in Groups : ~rokc[k][0]
      BY DEF RootTypes
    <3>2. rokc[g] \in [0 .. NH -> BOOLEAN] /\ ~rokc[g][0]
      BY <3>1
    <3>3. PICK row : row = [rokc[g] EXCEPT ![h] = FALSE]
      OBVIOUS
    <3>4. row \in [0 .. NH -> BOOLEAN] /\ ~row[0]
      BY <3>2, <3>3, <2>1 DEF Handles
    <3>5. rokc' = [rokc EXCEPT ![g] = row]
      BY <2>2, <3>3
    <3> QED BY <3>1, <3>4, <3>5
  <2>5. rokw' \in [Groups -> [0 .. NH -> BOOLEAN]]
    <3>1. rokw \in [Groups -> [0 .. NH -> BOOLEAN]] /\ rokw[g] \in [0 .. NH -> BOOLEAN]
      BY DEF RootTypes
    <3>2. PICK row : row = [rokw[g] EXCEPT ![h] = TRUE]
      OBVIOUS
    <3>3. row \in [0 .. NH -> BOOLEAN]
      BY <3>1, <3>2
    <3>4. rokw' = rokw \/ rokw' = [rokw EXCEPT ![g] = row]
      BY <2>2, <3>2
    <3> QED BY <3>1, <3>3, <3>4
  <2>6. status' \in [Datasets -> States]
    BY <2>2 DEF RootTypes, States
  <2> QED BY <1>3, <1>4, <1>5, <2>3, <2>4, <2>5, <2>6 DEF RootTypes
<1>7. CASE ~rokc[g][h]
  <2>1. UNCHANGED <<fname, rokc, status, rokw>>
    BY <1>1, <1>7 DEF FinishBatch
  <2> QED BY <1>3, <1>4, <2>1 DEF RootTypes
<1> QED BY <1>6, <1>7

LEMMA RootStepTypes ==
  ASSUME Full, RootTypes, NEW g \in Groups, RootStep(g)
  PROVE  RootTypes'
<1>1. CASE RootCollect(g) \/ RootDone(g) \/ HandleNoop(g)
  <2>1. UNCHANGED <<want, dh, rokw, rokc, file, outbuf, fname, status, contents, ready>>
    BY <1>1 DEF RootCollect, RootDone, HandleNoop, rootVars, taskVars, diskVars
  <2> QED BY <2>1, RootTypesStay DEF RootTypes
<1>2. CASE HandleMeta(g)
  <2>1. PICK h : h = Head(batch[g]).h
    OBVIOUS
  <2>2. h \in 0 .. NH
    BY <1>2, <2>1, HeadSpoken DEF HandleMeta, Handling, ServerRecords
  <2>3. dh' = [dh EXCEPT ![g] = h] /\ UNCHANGED <<want, rokw, rokc, file, outbuf, fname, diskVars>>
    BY <1>2, <2>1 DEF HandleMeta, taskVars
  <2> QED BY <2>2, <2>3 DEF RootTypes, diskVars
<1>3. CASE HandleCommit(g)
  <2>1. PICK h : h = Head(batch[g]).h
    OBVIOUS
  <2>2. h \in Handles
    BY <1>3, <2>1, HeadSpoken DEF HandleCommit, Handling, Spoken
  <2>3. /\ dh' = [dh EXCEPT ![g] = h] /\ rokc' = [rokc EXCEPT ![g][h] = TRUE]
        /\ UNCHANGED <<want, rokw, file, outbuf, fname, diskVars>>
    BY <1>3, <2>1 DEF HandleCommit, taskVars
  <2>4. h \in 0 .. NH /\ h # 0
    BY <2>2, ClientConstants DEF Handles
  <2> QED BY <2>3, <2>4 DEF RootTypes, diskVars
<1> QED BY <1>1, <1>2, <1>3, OpenTypes, CloseTypes, FieldTypes, FinishTypes DEF RootStep

LEMMA NextTypes ==
  ASSUME IInv, Full, RootTypes, [Next]_vars
  PROVE  RootTypes'
<1>1. CASE UNCHANGED serverVars \/ UNCHANGED vars
  <2>1. UNCHANGED <<want, dh, rokw, rokc, file, outbuf, fname, status, contents, ready>>
    BY <1>1 DEF vars, serverVars, taskVars, rootVars, diskVars
  <2> QED BY <2>1, RootTypesStay DEF RootTypes
<1>2. ASSUME NEW g \in Groups, PollStep(g) PROVE RootTypes'
  <2>1. UNCHANGED <<want, rootVars, diskVars>>
    BY <1>2 DEF PollStep, OfferGroup, GroupFound
  <2> QED BY <2>1, RootTypesStay DEF RootTypes, rootVars, diskVars
<1>3. ASSUME NEW g \in Groups, NEW r \in Ranks, ServerStep(g, r) PROVE RootTypes'
  <2>1. CASE ServerGather(g, r) \/ (r \in Others /\ Forward(g, r))
    <3>1. UNCHANGED <<want, rootVars, diskVars>>
      BY <2>1 DEF ServerGather, Forward
    <3> QED BY <3>1, RootTypesStay DEF RootTypes, rootVars, diskVars
  <2> QED BY <1>3, <2>1, ReduceTypes, RootStepTypes DEF ServerStep
<1> QED BY <1>1, <1>2, <1>3 DEF Next, ServersNext, Over

LEMMA InitTypes ==
  ASSUME QuiltInit
  PROVE  RootTypes
<1>1. NoFile \in Files /\ NH \in Nat
  BY ClientConstants DEF Files
<1>2. Streams \subseteq Nat
  BY DEF Streams
<1> QED BY <1>1 DEF QuiltInit, RootTypes, States

\* Every variable of the clients and of the servers has its type: no record has a
\* handle, a stream, a field or a date that the tables of the root have no place for.
THEOREM ServersTypes == QuiltSpec => []TypeOK
<1>1. QuiltInit => RootTypes /\ SyncTypes
  BY InitTypes DEF QuiltInit, SyncTypes
<1>2. IInv /\ Full /\ RootTypes /\ SyncTypes /\ [Next]_vars => RootTypes' /\ SyncTypes'
  BY NextTypes, SyncTypesStay
<1>3. IInv /\ LoopInv /\ Full /\ RootTypes /\ SyncTypes => TypeOK
  BY TypesAre
<1> QED BY <1>1, <1>2, <1>3, FullHolds, LoopInvHolds, PTL DEF QuiltSpec

-----------------------------------------------------------------------------
(* What has been said of a handle.                                         *)

\* Items that change what a group may be told of a handle, and the last of them.
Turns(it, h) == it.h = h /\ it.tag \in {"open", "commit", "close"}
LastOf(ls, b, h, t) ==
  \E i \in 1 .. b : /\ Turns(ls[i], h) /\ ls[i].tag = t
                    /\ \A q \in i + 1 .. b : ~Turns(ls[q], h)
DataOf(it) == <<it.v, it.date>>

\* Training and commits follow an open, fields a commit; no dataset of o, those
\* of the group, is opened twice.
Lawful(ls, a, o) ==
  \A i \in 1 .. a :
    /\ ls[i].tag \in {"train", "commit"} => LastOf(ls, i - 1, ls[i].h, "open")
    /\ ls[i].tag = "field" => LastOf(ls, i - 1, ls[i].h, "commit")
    /\ ls[i].tag = "open" =>
         /\ DataOf(ls[i]) \in o
         /\ \A j \in 1 .. i - 1 : ls[j].tag = "open" => DataOf(ls[j]) # DataOf(ls[i])
\* What client x, the furthest ahead, believes of its handles at group g.
Told(g, x, ls, a) ==
  \A h \in Handles : x.server[h] = g =>
    LastOf(ls, a, h, IF x.okw[h] THEN "commit" ELSE "open")

LEMMA LastKept ==
  ASSUME NEW a \in Nat, NEW z \in Nat, a <= z, NEW ls, NEW zs, NEW h, NEW t,
         \A i \in 1 .. a : zs[i] = ls[i], \A q \in a + 1 .. z : ~Turns(zs[q], h),
         LastOf(ls, a, h, t)
  PROVE  LastOf(zs, z, h, t)
<1>1. PICK i \in 1 .. a : Turns(ls[i], h) /\ ls[i].tag = t /\ \A q \in i + 1 .. a : ~Turns(ls[q], h)
  BY DEF LastOf
<1>2. i \in 1 .. z /\ zs[i] = ls[i]
  OBVIOUS
<1>3. ASSUME NEW q \in i + 1 .. z PROVE ~Turns(zs[q], h)
  <2>1. CASE q \in i + 1 .. a
    BY <1>1, <2>1
  <2>2. CASE q \in a + 1 .. z
    BY <2>2
  <2> QED BY <2>1, <2>2
<1> QED BY <1>1, <1>2, <1>3 DEF LastOf

LEMMA LastBack ==
  ASSUME NEW e \in Nat, NEW ls, NEW h, NEW t, ~Turns(ls[e + 1], h), LastOf(ls, e + 1, h, t)
  PROVE  LastOf(ls, e, h, t)
<1>1. PICK i \in 1 .. e + 1 :
        Turns(ls[i], h) /\ ls[i].tag = t /\ \A q \in i + 1 .. e + 1 : ~Turns(ls[q], h)
  BY DEF LastOf
<1>2. i # e + 1
  BY <1>1
<1>3. i \in 1 .. e /\ \A q \in i + 1 .. e : ~Turns(ls[q], h)
  BY <1>1, <1>2
<1> QED BY <1>1, <1>3 DEF LastOf

LEMMA LastIs ==
  ASSUME NEW e \in Nat, NEW ls, NEW h, NEW t, Turns(ls[e + 1], h)
  PROVE  LastOf(ls, e + 1, h, t) <=> ls[e + 1].tag = t
<1>1. ASSUME LastOf(ls, e + 1, h, t) PROVE ls[e + 1].tag = t
  <2>1. PICK i \in 1 .. e + 1 :
          Turns(ls[i], h) /\ ls[i].tag = t /\ \A q \in i + 1 .. e + 1 : ~Turns(ls[q], h)
    BY <1>1 DEF LastOf
  <2>2. ~(e + 1 \in i + 1 .. e + 1)
    BY <2>1
  <2>3. i = e + 1
    BY <2>2
  <2> QED BY <2>1, <2>3
<1>2. ASSUME ls[e + 1].tag = t PROVE LastOf(ls, e + 1, h, t)
  <2>1. e + 1 \in 1 .. e + 1 /\ \A q \in (e + 1) + 1 .. e + 1 : ~Turns(ls[q], h)
    OBVIOUS
  <2>2. \E i \in 1 .. e + 1 : /\ Turns(ls[i], h) /\ ls[i].tag = t
                              /\ \A q \in i + 1 .. e + 1 : ~Turns(ls[q], h)
    <3> WITNESS e + 1 \in 1 .. e + 1
    <3> QED BY <1>2, <2>1
  <2> QED BY <2>2 DEF LastOf
<1> QED BY <1>1, <1>2

LEMMA LastOne ==
  ASSUME NEW b \in Nat, NEW ls, NEW h, NEW t, NEW u, LastOf(ls, b, h, t), LastOf(ls, b, h, u)
  PROVE  t = u
<1>1. PICK i \in 1 .. b : Turns(ls[i], h) /\ ls[i].tag = t /\ \A q \in i + 1 .. b : ~Turns(ls[q], h)
  BY DEF LastOf
<1>2. PICK j \in 1 .. b : Turns(ls[j], h) /\ ls[j].tag = u /\ \A q \in j + 1 .. b : ~Turns(ls[q], h)
  BY DEF LastOf
<1>3. i = j
  <2>1. ~(i \in j + 1 .. b) /\ ~(j \in i + 1 .. b)
    BY <1>1, <1>2
  <2> QED BY <2>1
<1> QED BY <1>1, <1>2, <1>3

-----------------------------------------------------------------------------
(* The items of what a client says.                                        *)

\* How many items the calls of client x have.
NewItems(x, t) ==
  IF t = 0 \/ x.stage = "exit" THEN 0 ELSE IF t = 1 THEN 2 ELSE Size(x) + 1
\* The items of t calls of x behind the first a.
Adds(x, t, a, ls, z, zs) ==
  /\ a \in Nat /\ z = a + NewItems(x, t) /\ NewItems(x, t) \in Nat
  /\ \A i \in 1 .. a : zs[i] = ls[i]
  /\ \A i \in 1 .. NewItems(x, t) : zs[a + i] = Item(Said(x, t), i)

LEMMA CallItems ==
  ASSUME NEW x, NEW j \in {1, 2}, NEW s, s = Said(x, j), Meant(s)
  PROVE  /\ j = 1 /\ Size(x) # 0 => Items(s) = 0
         /\ j = 1 /\ Size(x) = 0 => Items(s) = 2
         /\ j = 2 => Items(s) = Size(x) + 1 /\ Size(x) \in Nat
<1>1. s.size = Size(x) /\ s.kind = IF j = 1 THEN "reduce" ELSE "gather"
  BY DEF Said, Call
<1>2. CASE j = 1
  BY <1>1, <1>2, ReduceItems DEF Items
<1>3. CASE j = 2
  BY <1>1, <1>3, GatherItems
<1> QED BY <1>2, <1>3

LEMMA ChartAdds ==
  ASSUME NEW l \in Nat, NEW la, NEW ls, NEW x, NEW t \in {0, 1, 2}, t # 0 => t = Calls(x),
         NEW mm, \A j \in 1 .. t : mm[l + j] = Said(x, j) /\ Meant(mm[l + j]),
         NEW za, NEW zs, Charted(l + t, mm, za, zs), la[l] \in Nat, za[l] = la[l],
         \A i \in 1 .. la[l] : zs[i] = ls[i]
  PROVE  Adds(x, t, la[l], ls, za[l + t], zs)
<1>1. PICK a \in Nat : a = la[l]
  OBVIOUS
<1>2. CASE t = 0
  <2>1. NewItems(x, t) = 0 /\ za[l + t] = a
    BY <1>1, <1>2 DEF NewItems
  <2> QED BY <1>1, <2>1 DEF Adds
<1>3. CASE t # 0
  <2>1. t = Calls(x) /\ mm[l + 1] = Said(x, 1) /\ Meant(Said(x, 1))
    BY <1>3
  <2>2. l \in 0 .. (l + t) - 1
    BY <1>3
  <2>3. /\ za[l + 1] = a + Items(Said(x, 1))
        /\ \A i \in 1 .. Items(Said(x, 1)) : zs[a + i] = Item(Said(x, 1), i)
    <3>1. /\ za[l + 1] = za[l] + Items(mm[l + 1])
          /\ \A i \in 1 .. Items(mm[l + 1]) : zs[za[l] + i] = Item(mm[l + 1], i)
      BY <2>2, ChartAt
    <3> QED BY <1>1, <2>1, <3>1
  <2>4. /\ Size(x) # 0 => Items(Said(x, 1)) = 0
        /\ Size(x) = 0 => Items(Said(x, 1)) = 2
    BY <2>1, CallItems
  <2>5. /\ Calls(x) = 2 => x.stage # "exit" /\ Size(x) # 0
        /\ Calls(x) = 1 => (Size(x) = 0 <=> x.stage # "exit")
    BY ClientConstants DEF Calls, Size, ExitSize
  <2>6. CASE t = 1
    <3>1. NewItems(x, t) = Items(Said(x, 1)) /\ NewItems(x, t) \in Nat
      BY <2>1, <2>4, <2>5, <2>6 DEF NewItems
    <3> QED BY <1>1, <2>3, <2>6, <3>1 DEF Adds
  <2>7. CASE t = 2
    <3>1. za[l + 1] = a
      BY <1>1, <2>1, <2>3, <2>4, <2>5, <2>7
    <3>2. mm[l + 2] = Said(x, 2) /\ Meant(Said(x, 2))
      BY <2>7
    <3>3. PICK j \in 0 .. (l + t) - 1 : j = l + 1
      BY <2>7
    <3>4. /\ za[j + 1] = za[j] + Items(mm[j + 1])
          /\ \A i \in 1 .. Items(mm[j + 1]) : zs[za[j] + i] = Item(mm[j + 1], i)
      BY ChartAt
    <3>5. j + 1 = l + 2
      BY <3>3
    <3>6. Items(Said(x, 2)) = NewItems(x, t) /\ NewItems(x, t) \in Nat
      <4>1. Items(Said(x, 2)) = Size(x) + 1 /\ Size(x) \in Nat
        BY <3>2, CallItems
      <4> QED BY <2>1, <2>5, <2>7, <4>1 DEF NewItems
    <3>7. za[l + 2] = a + NewItems(x, t)
      BY <3>1, <3>2, <3>3, <3>4, <3>5, <3>6
    <3>8. \A i \in 1 .. NewItems(x, t) : zs[a + i] = Item(Said(x, 2), i)
      BY <3>1, <3>2, <3>3, <3>4, <3>5, <3>6
    <3> QED BY <1>1, <2>7, <3>6, <3>7, <3>8 DEF Adds
  <2> QED BY <1>3, <2>6, <2>7
<1> QED BY <1>2, <1>3

-----------------------------------------------------------------------------
(* What a client does to its tables.                                       *)

\* What is known of the tables of client x.
Sound(x) ==
  /\ x.server \in [Handles -> 0 .. NG] /\ x.okw \in [Handles -> BOOLEAN]
  /\ x.outs \in [Streams -> Nat] /\ x.cur \in Streams
  /\ x.stage = "open" => Fresh(x) \in Handles
  /\ x.stage \in {"trainMeta", "putMeta", "train", "commit", "sync", "close", "lastClose"} =>
       x.oid[x.cur] \in Handles
  /\ x.stage \in {"train", "commit"} => ~x.okw[x.oid[x.cur]] /\ x.inUse[x.oid[x.cur]] = TRUE
  /\ x.stage = "sync" => x.okw[x.oid[x.cur]]
\* What its next step makes of them, with groups f.
Tables(x, y, f) ==
  CASE x.stage = "open" ->
         /\ y.server = Put(x.server, Fresh(x), To(x, f)) /\ y.okw = Put(x.okw, Fresh(x), FALSE)
    [] x.stage = "commit" ->
         y.server = x.server /\ y.okw = Put(x.okw, x.oid[x.cur], TRUE)
    [] x.stage \in {"close", "lastClose"} ->
         /\ y.server = Put(x.server, x.oid[x.cur], 0)
         /\ y.okw = Put(x.okw, x.oid[x.cur], FALSE)
    [] OTHER -> y.server = x.server /\ y.okw = x.okw

LEMMA SoundIs ==
  ASSUME IInv, NEW c \in Clients, ClientStep(c)
  PROVE  Sound(Local(c))
<1> DEFINE x == Local(c)
           h == oid[c][cur[c]]
<1>0. /\ x.stage = stage[c] /\ x.cur = cur[c] /\ x.oid = oid[c] /\ x.server = server[c]
      /\ x.okw = okw[c] /\ x.inUse = inUse[c] /\ x.outs = outs[c]
  BY LocalIs
<1>1. /\ server[c] \in [Handles -> 0 .. NG] /\ okw[c] \in [Handles -> BOOLEAN]
      /\ inUse[c] \in [Handles -> BOOLEAN]
      /\ outs[c] \in [Streams -> Nat] /\ cur[c] \in Streams
  BY DEF IInv, ClientTypeOK, MediationTypeOK, TablesTypeOK
<1>2. ASSUME stage[c] = "open" PROVE Fresh(x) \in Handles
  <2>1. PICK k \in Handles : FreshHandle(c, k)
    BY <1>2 DEF ClientStep, BeginOutput, OpenForWriteBegin, PutMeta, TrainField, PackField,
                OpenForWriteCommit, IoSync, IoClose, BeginShutdown, ShutdownStream, IoExit
  <2> QED BY <2>1, FreshIs
<1>3. ASSUME stage[c] \in {"trainMeta", "putMeta", "train", "commit", "sync", "close", "lastClose"}
      PROVE  h \in Handles /\ h # 0 /\ inUse[c][h]
  <2>1. Writing(c) \/ stage[c] \in {"close", "lastClose"}
    BY <1>3 DEF Writing
  <2> QED BY <2>1, OpenHandle DEF IInv, ClientTypeOK, ClientInv, Handle
<1>4. Sized(c)
  BY DEF IInv, ClientInv
<1> HIDE DEF x, h
<1>5. ASSUME stage[c] \in {"train", "commit"} PROVE ~okw[c][h] /\ inUse[c][h] = TRUE
  <2>1. Training(c) /\ h # 0 /\ inUse[c][h] /\ h \in Handles
    BY <1>3, <1>5 DEF Training
  <2> QED BY <1>1, <1>4, <2>1 DEF Sized, h
<1>6. ASSUME stage[c] = "sync" PROVE okw[c][h]
  <2>1. ~Training(c) /\ h # 0
    BY <1>3, <1>6 DEF Training
  <2> QED BY <1>1, <1>4, <2>1 DEF Sized, h
<1>7. x.oid[x.cur] = h
  BY <1>0 DEF h
<1>8. Sound(x)
  BY <1>0, <1>1, <1>2, <1>3, <1>5, <1>6, <1>7 DEF Sound
<1> QED BY <1>8 DEF x

LEMMA TablesAre ==
  ASSUME NEW x, Sound(x), NEW p, NEW f, NEW y, y = After(x, p, f), x.stage \in Stages,
         x.stage # "gone"
  PROVE  Tables(x, y, f)
<1>1. CASE x.stage = "open"
  <2>1. y = AfterOpen(x, f) /\ To(x, f) = Group(x, f)
    BY <1>1 DEF After, To
  <2>2. y.server = Put(x.server, Fresh(x), Group(x, f)) /\ y.okw = Put(x.okw, Fresh(x), FALSE)
    BY <2>1 DEF AfterOpen, State
  <2> QED BY <1>1, <2>1, <2>2 DEF Tables
<1>2. CASE x.stage = "commit"
  <2>1. y = AfterCommit(x)
    BY <1>2 DEF After
  <2> DEFINE h == x.oid[x.cur]
  <2>2. y.server = x.server /\ y.okw = Put(x.okw, h, x.okw[h] \/ x.inUse[h])
    BY <2>1 DEF AfterCommit, State
  <2>3. (x.okw[h] \/ x.inUse[h]) = TRUE
    BY <1>2 DEF Sound
  <2> QED BY <1>2, <2>2, <2>3 DEF Tables
<1>3. CASE x.stage \in {"close", "lastClose"}
  <2>1. y = AfterClose(x)
    BY <1>3 DEF After
  <2>2. y.server = Put(x.server, x.oid[x.cur], 0) /\ y.okw = Put(x.okw, x.oid[x.cur], FALSE)
    BY <2>1 DEF AfterClose, State
  <2> QED BY <1>3, <2>2 DEF Tables
<1>4. CASE x.stage \notin {"open", "commit", "close", "lastClose"}
  <2>1. y.server = x.server /\ y.okw = x.okw
    <3>1. x.stage = "idle" => y = AfterIdle(x, p)
      BY DEF After
    <3>2. x.stage \in {"trainMeta", "putMeta"} => y = AfterMeta(x)
      BY DEF After
    <3>3. x.stage = "train" => y = AfterTrain(x)
      BY DEF After
    <3>4. x.stage = "write" => y = AfterPack(x)
      BY DEF After
    <3>5. x.stage = "sync" => y = AfterSync(x)
      BY DEF After
    <3>6. x.stage = "shutdown" => y = AfterShutdown(x)
      BY DEF After
    <3>7. x.stage = "exit" => y = AfterExit(x)
      BY DEF After
    <3>8. x.stage = "idle" => y.server = x.server /\ y.okw = x.okw
      BY <3>1 DEF AfterIdle, State
    <3>9. x.stage \in {"trainMeta", "putMeta", "train", "write"} =>
            y.server = x.server /\ y.okw = x.okw
      BY <3>2, <3>3, <3>4 DEF AfterMeta, AfterTrain, AfterPack, State
    <3>10. x.stage \in {"sync", "shutdown", "exit"} => y.server = x.server /\ y.okw = x.okw
      BY <3>5, <3>6, <3>7 DEF AfterSync, AfterShutdown, AfterExit, State
    <3> QED BY <1>4, <3>8, <3>9, <3>10 DEF Stages
  <2> QED BY <1>4, <2>1 DEF Tables
<1> QED BY <1>1, <1>2, <1>3, <1>4

\* Dataset d has been, or is being, written when the client furthest ahead is x.
Begun(x, d) ==
  d[2] <= x.outs[d[1]] /\ ~(x.stage = "open" /\ x.cur = d[1] /\ d[2] = x.outs[d[1]])

LEMMA BegunStays ==
  ASSUME NEW x, Sound(x), NEW p, NEW f, NEW y, y = After(x, p, f), x.stage \in Stages,
         x.stage # "gone", NEW d \in Datasets
  PROVE  /\ Begun(x, d) => Begun(y, d)
         /\ x.stage = "open" => LET e == <<x.cur, x.outs[x.cur]>> IN ~Begun(x, e) /\ Begun(y, e)
<1>1. /\ d[1] \in Streams /\ d[2] \in Nat /\ x.outs \in [Streams -> Nat] /\ x.cur \in Streams
  BY DEF Datasets, Sound
<1>2. CASE x.stage = "idle"
  <2>1. PICK s : s = p[x.pos + 1]
    OBVIOUS
  <2>2. y = AfterIdle(x, p)
    BY <1>2 DEF After
  <2>3. \/ y.stage = "shutdown" /\ y.outs = x.outs
        \/ /\ y.stage \in {"open", "putMeta"} /\ y.cur = s
           /\ y.outs = [x.outs EXCEPT ![s] = x.outs[s] + 1]
    BY <2>1, <2>2 DEF AfterIdle, State, Put
  <2>4. CASE y.stage = "shutdown" /\ y.outs = x.outs
    BY <1>2, <2>4 DEF Begun
  <2>5. CASE /\ y.stage \in {"open", "putMeta"} /\ y.cur = s
             /\ y.outs = [x.outs EXCEPT ![s] = x.outs[s] + 1]
    <3>1. x.outs[d[1]] \in Nat
      BY <1>1
    <3>2. CASE d[1] = s
      <4>1. y.outs[d[1]] = x.outs[d[1]] + 1
        BY <1>1, <2>5, <3>2
      <4> QED BY <1>1, <1>2, <3>1, <4>1 DEF Begun
    <3>3. CASE d[1] # s
      <4>1. y.outs[d[1]] = x.outs[d[1]]
        BY <1>1, <2>5, <3>3
      <4> QED BY <1>2, <2>5, <3>3, <4>1 DEF Begun
    <3> QED BY <3>2, <3>3
  <2> QED BY <2>3, <2>4, <2>5
<1>3. CASE x.stage # "idle"
  <2>1. y.stage # "open" /\ y.outs = x.outs
    <3>1. x.stage = "open" => y = AfterOpen(x, f)
      BY DEF After
    <3>2. x.stage \in {"trainMeta", "putMeta"} => y = AfterMeta(x)
      BY DEF After
    <3>3. x.stage = "train" => y = AfterTrain(x)
      BY DEF After
    <3>4. x.stage = "write" => y = AfterPack(x)
      BY DEF After
    <3>5. x.stage = "sync" => y = AfterSync(x)
      BY DEF After
    <3>6. x.stage = "shutdown" => y = AfterShutdown(x)
      BY DEF After
    <3>7. x.stage = "exit" => y = AfterExit(x)
      BY DEF After
    <3>8. x.stage = "commit" => y = AfterCommit(x)
      BY DEF After
    <3>9. x.stage \in {"close", "lastClose"} => y = AfterClose(x)
      BY DEF After
    <3>10. x.stage \in {"open", "trainMeta", "putMeta", "commit"} => y.stage # "open" /\ y.outs = x.outs
      <4>1. x.stage = "open" => y.stage = "trainMeta" /\ y.outs = x.outs
        BY <3>1 DEF AfterOpen, State
      <4>2. x.stage \in {"trainMeta", "putMeta"} => y.stage \in {"train", "write"} /\ y.outs = x.outs
        BY <3>2 DEF AfterMeta, State
      <4>3. x.stage = "commit" => y.stage = "putMeta" /\ y.outs = x.outs
        BY <3>8 DEF AfterCommit, State
      <4> QED BY <4>1, <4>2, <4>3
    <3>11. x.stage \in {"train", "write"} => y.stage # "open" /\ y.outs = x.outs
      BY <3>3, <3>4 DEF AfterTrain, AfterPack, State, Stage
    <3>12. x.stage \in {"sync", "shutdown"} => y.stage # "open" /\ y.outs = x.outs
      BY <3>5, <3>6 DEF AfterSync, AfterShutdown, State
    <3>13. x.stage \in {"exit", "close", "lastClose"} => y.stage # "open" /\ y.outs = x.outs
      <4>1. x.stage = "exit" => y.stage \in {"gone", "exit"} /\ y.outs = x.outs
        BY <3>7 DEF AfterExit, State
      <4>2. AfterClose(x).stage \in {"idle", "shutdown"} /\ AfterClose(x).outs = x.outs
        BY DEF AfterClose, State
      <4> QED BY <3>9, <4>1, <4>2
    <3> QED BY <1>3, <3>10, <3>11, <3>12, <3>13 DEF Stages
  <2>2. x.outs[x.cur] \in Nat
    BY <1>1
  <2> QED BY <2>1, <2>2 DEF Begun
<1> QED BY <1>2, <1>3

\* The items of a call, in turn.
LEMMA NewItemIs ==
  ASSUME NEW x, NEW t \in {1, 2}, t = Calls(x), NEW n, n = NewItems(x, t), n \in Nat,
         Meant(Said(x, t)), NEW i \in 1 .. n, NEW it, it = Item(Said(x, t), i)
  PROVE  /\ i = n => it.tag = "end"
         /\ i # n => /\ it.tag = Subject(x).tag /\ it.h = Subject(x).h
                     /\ Subject(x).tag # "field" => i = 1 /\ DataOf(it) = DataOf(Subject(x))
<1> DEFINE s == Said(x, t)
<1>1. s.about = Subject(x) /\ s.size = Size(x) /\ s.kind = IF t = 1 THEN "reduce" ELSE "gather"
  BY DEF Said, Call
<1>2. x.stage # "exit" /\ n = IF t = 1 THEN 2 ELSE Size(x) + 1
  BY DEF NewItems
<1>3. Items(s) = n
  <2>1. CASE t = 1
    <3>1. Size(x) = 0
      BY <1>2, <2>1, ClientConstants DEF Calls, Size
    <3> QED BY <1>1, <1>2, <2>1, <3>1 DEF Items
  <2>2. CASE t = 2
    BY <1>1, <1>2, <2>2 DEF Items
  <2> QED BY <2>1, <2>2
<1>4. i = n => it.tag = "end"
  BY <1>3 DEF Item, About
<1>5. ASSUME i # n, Subject(x).tag # "field" PROVE i = 1 /\ it = Subject(x)
  <2>1. n = 2
    <3>1. t = 2 => s.size = 1
      BY <1>1, <1>5 DEF Meant
    <3> QED BY <1>1, <1>2, <3>1
  <2> QED BY <1>1, <1>3, <1>5, <2>1 DEF Item
<1>6. ASSUME i # n, Subject(x).tag = "field" PROVE it.tag = "field" /\ it.h = Subject(x).h
  <2>1. it = About("field", s.about.h, i, s.about.date)
    BY <1>1, <1>3, <1>6 DEF Item
  <2> QED BY <1>1, <2>1 DEF About
<1> QED BY <1>4, <1>5, <1>6

-----------------------------------------------------------------------------
(* What is said is lawful, and what has been told stays true.                *)

\* Client x, the furthest ahead, goes on to y and begins t calls to group g.
Onward(x, y, f, g, t) ==
  /\ Sound(x) /\ Tables(x, y, f) /\ x.stage \in Stages /\ t = SaidTo(x, f, g)
  /\ \A j \in 1 .. t : Meant(Said(x, j))

LEMMA SubjectOf ==
  ASSUME NEW x
  PROVE  /\ x.stage = "open" =>
              /\ Subject(x).tag = "open" /\ Subject(x).h = Fresh(x)
              /\ DataOf(Subject(x)) = <<x.cur, x.outs[x.cur]>>
         /\ x.stage \notin {"open", "exit"} => Subject(x).h = x.oid[x.cur]
         /\ x.stage \in {"trainMeta", "putMeta"} => Subject(x).tag = "meta"
         /\ x.stage = "train" => Subject(x).tag = "train"
         /\ x.stage = "commit" => Subject(x).tag = "commit"
         /\ x.stage = "sync" => Subject(x).tag = "field"
         /\ x.stage \in {"close", "lastClose", "exit"} => Subject(x).tag = "close"
<1>1. x.stage = "open" => /\ Subject(x).tag = "open" /\ Subject(x).h = Fresh(x)
                          /\ DataOf(Subject(x)) = <<x.cur, x.outs[x.cur]>>
  BY DEF Subject, About, DataOf
<1>2. x.stage \notin {"open", "exit"} => Subject(x).h = x.oid[x.cur]
  BY DEF Subject, About
<1>3. /\ x.stage \in {"trainMeta", "putMeta"} => Subject(x).tag = "meta"
      /\ x.stage = "train" => Subject(x).tag = "train"
      /\ x.stage = "commit" => Subject(x).tag = "commit"
  BY DEF Subject, About
<1>4. /\ x.stage = "sync" => Subject(x).tag = "field"
      /\ x.stage \in {"close", "lastClose", "exit"} => Subject(x).tag = "close"
  BY DEF Subject, About
<1> QED BY <1>1, <1>2, <1>3, <1>4

\* What a new item can be.
LEMMA NewOf ==
  ASSUME NEW x, NEW y, NEW f, NEW g \in Groups, NEW t, Onward(x, y, f, g, t),
         NEW a, NEW ls, NEW z, NEW zs, Adds(x, t, a, ls, z, zs), NEW i \in a + 1 .. z
  PROVE  /\ t \in {1, 2} /\ t = Calls(x) /\ g = To(x, f) /\ x.stage # "exit"
         /\ \/ zs[i].tag = "end"
            \/ /\ zs[i].tag = Subject(x).tag /\ zs[i].h = Subject(x).h
               /\ Subject(x).tag # "field" => i = a + 1 /\ DataOf(zs[i]) = DataOf(Subject(x))
<1>1. a \in Nat /\ z = a + NewItems(x, t) /\ NewItems(x, t) \in Nat
  BY DEF Adds
<1>2. PICK n \in Nat : n = NewItems(x, t) /\ n # 0
  BY <1>1
<1>3. t # 0 /\ x.stage # "exit"
  BY <1>2 DEF NewItems
<1>4. t \in {1, 2} /\ t = Calls(x) /\ g = To(x, f)
  <2>1. t \in {0, 1, 2} /\ (t # 0 => g = To(x, f) /\ t = Calls(x))
    BY CallsIs DEF Onward
  <2> QED BY <1>3, <2>1
<1>5. PICK q \in 1 .. n : i = a + q
  <2>1. i - a \in 1 .. n /\ i = a + (i - a)
    BY <1>1, <1>2
  <2> QED BY <2>1
<1>6. zs[i] = Item(Said(x, t), q)
  BY <1>2, <1>5 DEF Adds
<1>7. Meant(Said(x, t))
  BY <1>4 DEF Onward
<1>8. /\ q = n => zs[i].tag = "end"
      /\ q # n => /\ zs[i].tag = Subject(x).tag /\ zs[i].h = Subject(x).h
                  /\ Subject(x).tag # "field" => q = 1 /\ DataOf(zs[i]) = DataOf(Subject(x))
  BY <1>2, <1>4, <1>6, <1>7, NewItemIs
<1> QED BY <1>3, <1>4, <1>5, <1>8

\* The first of them is not an end.
LEMMA NewFirst ==
  ASSUME NEW x, NEW y, NEW f, NEW g \in Groups, NEW t, Onward(x, y, f, g, t),
         NEW a, NEW ls, NEW z, NEW zs, Adds(x, t, a, ls, z, zs), t # 0, x.stage # "exit"
  PROVE  /\ a + 1 \in a + 1 .. z
         /\ zs[a + 1].tag = Subject(x).tag /\ zs[a + 1].h = Subject(x).h
<1>1. a \in Nat /\ z = a + NewItems(x, t) /\ NewItems(x, t) \in Nat
  BY DEF Adds
<1>2. t \in {1, 2} /\ t = Calls(x)
  <2>1. t \in {0, 1, 2} /\ (t # 0 => t = Calls(x))
    BY CallsIs DEF Onward
  <2> QED BY <2>1
<1>3. NewItems(x, t) > 1
  <2>1. t = 2 => Size(x) \in Nat /\ Size(x) # 0
    <3>1. t = 2 => Size(x) = 1 \/ Size(x) = NF
      BY <1>2 DEF Calls, Size
    <3> QED BY <3>1, ClientConstants
  <2> QED BY <1>2, <2>1 DEF NewItems
<1>4. PICK n \in Nat : n = NewItems(x, t) /\ n > 1
  BY <1>1, <1>3
<1>5. a + 1 \in a + 1 .. z
  BY <1>1, <1>4
<1>6. zs[a + 1] = Item(Said(x, t), 1)
  BY <1>4 DEF Adds
<1>7. Meant(Said(x, t))
  BY <1>2 DEF Onward
<1>8. 1 \in 1 .. n /\ 1 # n
  BY <1>4
<1>9. zs[a + 1].tag = Subject(x).tag /\ zs[a + 1].h = Subject(x).h
  BY <1>2, <1>4, <1>6, <1>7, <1>8, NewItemIs
<1> QED BY <1>5, <1>9

LEMMA LawfulGrows ==
  ASSUME NEW x, NEW y, NEW f, NEW g \in Groups, NEW t, Onward(x, y, f, g, t),
         NEW a, NEW ls, NEW z, NEW zs, Adds(x, t, a, ls, z, zs),
         NEW o, NEW oo, Lawful(ls, a, o), Told(g, x, ls, a), o \subseteq oo,
         t # 0 /\ x.stage = "open" =>
           <<x.cur, x.outs[x.cur]>> \in oo /\ <<x.cur, x.outs[x.cur]>> \notin o
  PROVE  Lawful(zs, z, oo)
<1>1. a \in Nat /\ z \in Nat /\ \A i \in 1 .. a : zs[i] = ls[i]
  BY DEF Adds
<1>2. ASSUME NEW i \in 1 .. z, NEW u, i <= a, LastOf(ls, i - 1, ls[i].h, u)
      PROVE  LastOf(zs, i - 1, zs[i].h, u)
  <2>1. i - 1 \in Nat /\ zs[i] = ls[i] /\ \A q \in 1 .. i - 1 : zs[q] = ls[q]
    BY <1>1, <1>2
  <2>2. i - 1 <= i - 1 /\ \A q \in (i - 1) + 1 .. i - 1 : ~Turns(zs[q], ls[i].h)
    BY <2>1
  <2>3. PICK b \in Nat : b = i - 1
    BY <2>1
  <2>4. /\ \A q \in 1 .. b : zs[q] = ls[q]
        /\ \A q \in b + 1 .. b : ~Turns(zs[q], ls[i].h)
        /\ LastOf(ls, b, ls[i].h, u) /\ b <= b
    BY <1>2, <2>1, <2>3
  <2>5. LastOf(zs, b, ls[i].h, u)
    BY <2>4, LastKept
  <2> QED BY <2>1, <2>3, <2>5
<1>3. ASSUME NEW i \in 1 .. z, i <= a
      PROVE  /\ zs[i].tag \in {"train", "commit"} => LastOf(zs, i - 1, zs[i].h, "open")
             /\ zs[i].tag = "field" => LastOf(zs, i - 1, zs[i].h, "commit")
             /\ zs[i].tag = "open" =>
                  /\ DataOf(zs[i]) \in oo
                  /\ \A j \in 1 .. i - 1 : zs[j].tag = "open" => DataOf(zs[j]) # DataOf(zs[i])
  <2>1. i \in 1 .. a /\ zs[i] = ls[i] /\ \A j \in 1 .. i - 1 : zs[j] = ls[j]
    BY <1>1, <1>3
  <2>2. /\ ls[i].tag \in {"train", "commit"} => LastOf(ls, i - 1, ls[i].h, "open")
        /\ ls[i].tag = "field" => LastOf(ls, i - 1, ls[i].h, "commit")
        /\ ls[i].tag = "open" =>
             /\ DataOf(ls[i]) \in o
             /\ \A j \in 1 .. i - 1 : ls[j].tag = "open" => DataOf(ls[j]) # DataOf(ls[i])
    BY <2>1 DEF Lawful
  <2>3. /\ zs[i].tag \in {"train", "commit"} => LastOf(zs, i - 1, zs[i].h, "open")
        /\ zs[i].tag = "field" => LastOf(zs, i - 1, zs[i].h, "commit")
    BY <1>2, <1>3, <2>1, <2>2
  <2> QED BY <2>1, <2>2, <2>3
<1>4. ASSUME NEW i \in 1 .. z, ~(i <= a)
      PROVE  /\ zs[i].tag \in {"train", "commit"} => LastOf(zs, i - 1, zs[i].h, "open")
             /\ zs[i].tag = "field" => LastOf(zs, i - 1, zs[i].h, "commit")
             /\ zs[i].tag = "open" =>
                  /\ DataOf(zs[i]) \in oo
                  /\ \A j \in 1 .. i - 1 : zs[j].tag = "open" => DataOf(zs[j]) # DataOf(zs[i])
  <2>1. i \in a + 1 .. z /\ i - 1 \in Nat /\ a <= i - 1
    BY <1>1, <1>4
  <2>2. /\ t \in {1, 2} /\ t = Calls(x) /\ g = To(x, f) /\ x.stage # "exit"
        /\ \/ zs[i].tag = "end"
           \/ /\ zs[i].tag = Subject(x).tag /\ zs[i].h = Subject(x).h
              /\ Subject(x).tag # "field" => i = a + 1 /\ DataOf(zs[i]) = DataOf(Subject(x))
    BY <2>1, NewOf
  <2>3. CASE zs[i].tag = "end"
    BY <2>3
  <2>4. CASE zs[i].tag # "end"
    <3>1. zs[i].tag = Subject(x).tag /\ zs[i].h = Subject(x).h
      BY <2>2, <2>4
    <3>2. x.stage \in {"open", "trainMeta", "putMeta", "train", "commit", "sync", "close", "lastClose"}
      BY <2>2, CallsIs
    <3>3. ASSUME zs[i].tag \in {"train", "commit"} PROVE LastOf(zs, i - 1, zs[i].h, "open")
      <4>1. x.stage \in {"train", "commit"}
        BY <3>1, <3>2, <3>3, SubjectOf
      <4>2. zs[i].h = x.oid[x.cur] /\ i - 1 = a
        BY <1>1, <2>2, <2>4, <3>1, <3>3, <4>1, SubjectOf
      <4>3. x.server[zs[i].h] = g /\ zs[i].h \in Handles /\ ~x.okw[zs[i].h]
        BY <2>2, <4>1, <4>2 DEF To, Onward, Sound
      <4>4. LastOf(ls, a, zs[i].h, "open")
        BY <4>3 DEF Told
      <4>5. \A q \in a + 1 .. a : ~Turns(zs[q], zs[i].h)
        BY <1>1
      <4>6. LastOf(zs, a, zs[i].h, "open")
        BY <1>1, <4>4, <4>5, LastKept
      <4> QED BY <4>2, <4>6
    <3>4. ASSUME zs[i].tag = "field" PROVE LastOf(zs, i - 1, zs[i].h, "commit")
      <4>1. x.stage = "sync"
        BY <3>1, <3>2, <3>4, SubjectOf
      <4>2. zs[i].h = x.oid[x.cur]
        BY <3>1, <4>1, SubjectOf
      <4>3. x.server[zs[i].h] = g /\ zs[i].h \in Handles /\ x.okw[zs[i].h]
        BY <2>2, <4>1, <4>2 DEF To, Onward, Sound
      <4>4. LastOf(ls, a, zs[i].h, "commit")
        BY <4>3 DEF Told
      <4>5. ASSUME NEW q \in a + 1 .. i - 1 PROVE ~Turns(zs[q], zs[i].h)
        <5>1. q \in a + 1 .. z
          BY <1>1, <2>1
        <5>2. zs[q].tag = "end" \/ zs[q].tag = Subject(x).tag
          BY <5>1, NewOf
        <5> QED BY <3>1, <3>4, <5>2 DEF Turns
      <4> QED BY <1>1, <2>1, <4>4, <4>5, LastKept
    <3>5. ASSUME zs[i].tag = "open"
          PROVE  /\ DataOf(zs[i]) \in oo
                 /\ \A j \in 1 .. i - 1 : zs[j].tag = "open" => DataOf(zs[j]) # DataOf(zs[i])
      <4>1. x.stage = "open"
        BY <3>1, <3>2, <3>5, SubjectOf
      <4>2. DataOf(zs[i]) = <<x.cur, x.outs[x.cur]>> /\ i - 1 = a
        BY <1>1, <2>2, <2>4, <3>1, <3>5, <4>1, SubjectOf
      <4>3. DataOf(zs[i]) \in oo /\ DataOf(zs[i]) \notin o
        BY <2>2, <4>1, <4>2
      <4>4. ASSUME NEW j \in 1 .. i - 1, zs[j].tag = "open" PROVE DataOf(zs[j]) # DataOf(zs[i])
        <5>1. j \in 1 .. a /\ zs[j] = ls[j]
          BY <1>1, <4>2
        <5>2. DataOf(zs[j]) \in o
          BY <4>4, <5>1 DEF Lawful
        <5> QED BY <4>3, <5>2
      <4> QED BY <4>3, <4>4
    <3> QED BY <3>3, <3>4, <3>5
  <2> QED BY <2>3, <2>4
<1> QED BY <1>3, <1>4 DEF Lawful

LEMMA ToldGrows ==
  ASSUME NEW x, NEW y, NEW f, NEW g \in Groups, NEW t, Onward(x, y, f, g, t),
         NEW a, NEW ls, NEW z, NEW zs, Adds(x, t, a, ls, z, zs), Told(g, x, ls, a)
  PROVE  Told(g, y, zs, z)
<1> SUFFICES ASSUME NEW h \in Handles, y.server[h] = g
             PROVE  LastOf(zs, z, h, IF y.okw[h] THEN "commit" ELSE "open")
  BY DEF Told
<1>1. a \in Nat /\ z \in Nat /\ a <= z /\ \A i \in 1 .. a : zs[i] = ls[i]
  BY DEF Adds
<1>2. g # 0 /\ x.server \in [Handles -> 0 .. NG] /\ x.okw \in [Handles -> BOOLEAN]
  BY ClientConstants DEF Groups, Onward, Sound
<1>3. t \in {0, 1, 2} /\ (t # 0 => g = To(x, f) /\ t = Calls(x)) /\ t = SaidTo(x, f, g)
  BY CallsIs DEF Onward
<1>4. Tables(x, y, f)
  BY DEF Onward
  \* A handle that nothing changes of.
<1>5. ASSUME x.server[h] = g, x.okw[h] = y.okw[h],
             \A q \in a + 1 .. z : zs[q].tag # "end" => ~Turns(zs[q], h)
      PROVE  LastOf(zs, z, h, IF y.okw[h] THEN "commit" ELSE "open")
  <2>1. \A q \in a + 1 .. z : ~Turns(zs[q], h)
    BY <1>5 DEF Turns
  <2>2. LastOf(ls, a, h, IF y.okw[h] THEN "commit" ELSE "open")
    BY <1>5 DEF Told
  <2> QED BY <1>1, <2>1, <2>2, LastKept
\* One that the step is about.
<1>6. ASSUME NEW u, t # 0, x.stage # "exit", Subject(x).tag = u, Subject(x).h = h,
             u \in {"open", "commit"}
      PROVE  LastOf(zs, z, h, u)
  <2>1. a + 1 \in a + 1 .. z /\ zs[a + 1].tag = u /\ zs[a + 1].h = h
    BY <1>6, NewFirst
  <2>2. LastOf(zs, a + 1, h, u)
    BY <1>1, <1>6, <2>1, LastIs DEF Turns
  <2>3. ASSUME NEW q \in (a + 1) + 1 .. z PROVE ~Turns(zs[q], h)
    <3>1. q \in a + 1 .. z /\ q # a + 1
      BY <1>1
    <3>2. zs[q].tag = "end"
      BY <1>6, <3>1, NewOf
    <3> QED BY <3>2 DEF Turns
  <2>4. a + 1 \in Nat /\ a + 1 <= z /\ \A i \in 1 .. a + 1 : zs[i] = zs[i]
    BY <1>1, <2>1
  <2> QED BY <1>1, <2>2, <2>3, <2>4, LastKept
\* The new items are about another handle, or turn none.
<1>7. ASSUME Subject(x).h # h \/ Subject(x).tag \notin {"open", "commit", "close"}
      PROVE  \A q \in a + 1 .. z : zs[q].tag # "end" => ~Turns(zs[q], h)
  <2> SUFFICES ASSUME NEW q \in a + 1 .. z, zs[q].tag # "end" PROVE ~Turns(zs[q], h)
    OBVIOUS
  <2>1. zs[q].tag = Subject(x).tag /\ zs[q].h = Subject(x).h
    BY NewOf
  <2> QED BY <1>7, <2>1 DEF Turns
<1>8. CASE x.stage = "open"
  <2>1. /\ y.server = Put(x.server, Fresh(x), To(x, f)) /\ y.okw = Put(x.okw, Fresh(x), FALSE)
        /\ Fresh(x) \in Handles
    BY <1>4, <1>8 DEF Tables, Onward, Sound
  <2>2. Subject(x).tag = "open" /\ Subject(x).h = Fresh(x)
    BY <1>8, SubjectOf
  <2>3. CASE h = Fresh(x)
    <3>1. g = To(x, f) /\ ~y.okw[h]
      BY <1>2, <2>1, <2>3 DEF Put
    <3>2. t # 0
      BY <1>3, <1>8, <3>1, CallsIs DEF SaidTo
    <3> QED BY <1>6, <1>8, <2>2, <2>3, <3>1, <3>2
  <2>4. CASE h # Fresh(x)
    <3>1. x.server[h] = g /\ x.okw[h] = y.okw[h]
      BY <1>2, <2>1, <2>4 DEF Put
    <3> QED BY <1>5, <1>7, <2>2, <2>4, <3>1
  <2> QED BY <2>3, <2>4
<1>9. CASE x.stage = "commit"
  <2>1. /\ y.server = x.server /\ y.okw = Put(x.okw, x.oid[x.cur], TRUE)
        /\ x.oid[x.cur] \in Handles
    BY <1>4, <1>9 DEF Tables, Onward, Sound
  <2>2. Subject(x).tag = "commit" /\ Subject(x).h = x.oid[x.cur]
    BY <1>9, SubjectOf
  <2>3. CASE h = x.oid[x.cur]
    <3>1. g = To(x, f) /\ y.okw[h]
      BY <1>2, <1>9, <2>1, <2>3 DEF Put, To
    <3>2. t # 0
      BY <1>3, <1>9, <3>1, CallsIs DEF SaidTo
    <3> QED BY <1>6, <1>9, <2>2, <2>3, <3>1, <3>2
  <2>4. CASE h # x.oid[x.cur]
    <3>1. x.server[h] = g /\ x.okw[h] = y.okw[h]
      BY <1>2, <2>1, <2>4 DEF Put
    <3> QED BY <1>5, <1>7, <2>2, <2>4, <3>1
  <2> QED BY <2>3, <2>4
<1>10. CASE x.stage \in {"close", "lastClose"}
  <2>1. /\ y.server = Put(x.server, x.oid[x.cur], 0) /\ y.okw = Put(x.okw, x.oid[x.cur], FALSE)
        /\ x.oid[x.cur] \in Handles
    BY <1>4, <1>10 DEF Tables, Onward, Sound
  <2>2. Subject(x).h = x.oid[x.cur]
    BY <1>10, SubjectOf
  <2>3. h # x.oid[x.cur]
    BY <1>2, <2>1 DEF Put
  <2>4. x.server[h] = g /\ x.okw[h] = y.okw[h]
    BY <1>2, <2>1, <2>3 DEF Put
  <2> QED BY <1>5, <1>7, <2>2, <2>3, <2>4
<1>11. CASE x.stage \notin {"open", "commit", "close", "lastClose"}
  <2>1. x.server[h] = g /\ x.okw[h] = y.okw[h]
    BY <1>4, <1>11 DEF Tables
  <2>2. ASSUME NEW q \in a + 1 .. z, zs[q].tag # "end" PROVE ~Turns(zs[q], h)
    <3>1. t \in {1, 2} /\ t = Calls(x) /\ x.stage # "exit" /\ zs[q].tag = Subject(x).tag
      BY <2>2, NewOf
    <3>2. x.stage \in {"trainMeta", "putMeta", "train", "sync"}
      BY <1>11, <3>1, CallsIs
    <3>3. Subject(x).tag \in {"meta", "train", "field"}
      BY <3>2, SubjectOf
    <3> QED BY <3>1, <3>3 DEF Turns
  <2> QED BY <1>5, <2>1, <2>2
<1> QED BY <1>8, <1>9, <1>10, <1>11

-----------------------------------------------------------------------------
(* What the root of a group knows of its files.                              *)

\* Some record of the batch, still to be handled, has that tag.
Waits(g, t) == \E i \in 1 .. Len(batch[g]) : batch[g][i].tag = t
\* What the items up to the b-th have made of the files: a handle opened is being
\* trained, one committed takes fields.
Shown(g, ls, b) ==
  \A h \in Handles :
    /\ LastOf(ls, b, h, "open") =>
         /\ ~rokw[g][h] /\ file[g][h] # NoFile /\ status[file[g][h]] = "opened"
    /\ LastOf(ls, b, h, "commit") => rokw[g][h]
\* A dataset of the group's own, those in o, is behind one handle only.
Owned(g, o) ==
  \A h \in Handles : file[g][h] # NoFile =>
    /\ file[g][h] \in o /\ status[file[g][h]] # "none"
    /\ \A k \in Handles : file[g][k] = file[g][h] => k = h
\* A dataset is not touched before the root comes to its open.
Unopened(g, ls, a, e) ==
  \A i \in 1 .. a : ls[i].tag = "open" =>
    /\ i > e => status[DataOf(ls[i])] = "none"
    /\ i = e /\ busy[g] => \/ status[DataOf(ls[i])] = "none"
                           \/ file[g][ls[i].h] = DataOf(ls[i])
\* Between two batches, and within the batch of an item.
AtRest(g, ls, e) ==
  Shown(g, ls, e) /\ outbuf[g] = {} /\ \A h \in Handles : ~rokc[g][h]
Underway(g, ls, e) ==
  CASE ls[e].tag = "open" -> Shown(g, ls, e) \/ (Waits(g, "open") /\ Shown(g, ls, e - 1))
    [] ls[e].tag = "commit" ->
         /\ Shown(g, ls, e - 1)
         /\ Waits(g, "commit") \/ (rokc[g][ls[e].h] /\ dh[g] = ls[e].h)
    [] OTHER -> Shown(g, ls, e)
Asked(g, it) == \A h \in Handles : rokc[g][h] => it.tag = "commit" /\ h = it.h
OfDate(g, it) == \A p \in outbuf[g] : p.date = it.date
AtWork(g, ls, e) == Underway(g, ls, e) /\ Asked(g, ls[e]) /\ OfDate(g, ls[e])
Rooted(g, ls, a, e, o) ==
  /\ Owned(g, o) /\ Unopened(g, ls, a, e)
  /\ IF busy[g] THEN AtWork(g, ls, e) ELSE AtRest(g, ls, e)
\* What else is known of the group, at item e of the first a.
Posed(g, ls, a, e, o) ==
  /\ a \in Nat /\ e \in Nat /\ e <= a /\ o \subseteq Datasets
  /\ Lawful(ls, a, o) /\ Batched(g, ls, e)

LEMMA HeadMeets ==
  ASSUME SeqTypes, NEW g \in Groups, NEW ls, NEW e \in Nat, Batched(g, ls, e),
         NEW tags, Handling(g, tags), NextRecord(g), NEW rec, rec = Head(batch[g])
  PROVE  /\ Meets(rec, ls[e]) /\ rec.tag \in tags /\ busy[g] /\ e > 0
         /\ \A t : Waits(g, t) /\ rec.tag # t => Waits(g, t)'
<1>1. batch[g] \in Seq(ServerRecords) /\ batch[g] # <<>> /\ rec.tag \in tags /\ busy[g]
  BY DEF SeqTypes, Handling
<1>2. batch'[g] = Tail(batch[g])
  BY DEF SeqTypes, NextRecord
<1>3. /\ rec = batch[g][1] /\ 1 \in 1 .. Len(batch[g])
      /\ Len(Tail(batch[g])) = Len(batch[g]) - 1
      /\ Len(batch[g]) \in Nat \ {0}
      /\ \A i \in 1 .. Len(batch[g]) - 1 : Tail(batch[g])[i] = batch[g][i + 1]
  BY <1>1, HeadTail
<1>4. Meets(rec, ls[e]) /\ e > 0
  BY <1>1, <1>3 DEF Batched
<1>5. ASSUME NEW t, Waits(g, t), rec.tag # t PROVE Waits(g, t)'
  <2>1. PICK i \in 1 .. Len(batch[g]) : batch[g][i].tag = t
    BY <1>5 DEF Waits
  <2>2. i # 1
    BY <1>3, <1>5, <2>1
  <2>3. PICK n \in Nat \ {0} : n = Len(batch[g])
    BY <1>3
  <2>4. i - 1 \in 1 .. n - 1 /\ (i - 1) + 1 = i
    BY <2>2, <2>3
  <2>5. Tail(batch[g])[i - 1] = batch[g][i] /\ Len(Tail(batch[g])) = n - 1
    BY <1>3, <2>3, <2>4
  <2>6. Len(batch'[g]) = n - 1 /\ batch'[g][i - 1].tag = t
    BY <1>2, <2>1, <2>5
  <2> QED BY <2>4, <2>6 DEF Waits
<1> QED BY <1>1, <1>4, <1>5

\* Items of other kinds change nothing of it.
LEMMA ShownOn ==
  ASSUME NEW g, NEW ls, NEW b \in Nat, Shown(g, ls, b), ls[b + 1].tag \notin {"open", "commit"}
  PROVE  Shown(g, ls, b + 1)
<1> SUFFICES ASSUME NEW h \in Handles, NEW t \in {"open", "commit"}, LastOf(ls, b + 1, h, t)
             PROVE  LastOf(ls, b, h, t)
  BY DEF Shown
<1>1. CASE Turns(ls[b + 1], h)
  BY <1>1, LastIs
<1>2. CASE ~Turns(ls[b + 1], h)
  BY <1>2, LastBack
<1> QED BY <1>1, <1>2

-----------------------------------------------------------------------------
(* The steps of the root.                                                    *)

LEMMA ShownKept ==
  ASSUME NEW g, NEW ls, NEW b, Shown(g, ls, b), UNCHANGED <<rokw, file, status>>
  PROVE  Shown(g, ls, b)'
BY DEF Shown

LEMMA RootGoesOn ==
  ASSUME NEW g \in Groups, NEW ls, NEW a, NEW e, NEW o, Posed(g, ls, a, e, o),
         Rooted(g, ls, a, e, o), ~busy[g], Arrives(g, ls, e + 1),
         UNCHANGED <<dh, rokw, rokc, file, outbuf, status>>
  PROVE  Rooted(g, ls, a, e + 1, o)'
<1>1. e \in Nat /\ a \in Nat
  BY DEF Posed
<1>2. Shown(g, ls, e) /\ outbuf[g] = {} /\ \A h \in Handles : ~rokc[g][h]
  BY DEF Rooted, AtRest
<1>3. Shown(g, ls, e)' /\ outbuf'[g] = {} /\ \A h \in Handles : ~rokc'[g][h]
  BY <1>2, ShownKept
<1>4. Owned(g, o)'
  BY DEF Rooted, Owned
<1>5. Unopened(g, ls, a, e + 1)'
  <2> SUFFICES ASSUME NEW i \in 1 .. a, ls[i].tag = "open"
               PROVE  i > e => status'[DataOf(ls[i])] = "none"
    BY <1>1 DEF Unopened
  <2> QED BY DEF Rooted, Unopened
<1>6. ls[e + 1].tag \notin {"open", "commit"} => Shown(g, ls, e + 1)'
  <2>1. ls[e + 1].tag \notin {"open", "commit"} => Shown(g, ls, e + 1)
    BY <1>1, <1>2, ShownOn
  <2> QED BY <2>1, ShownKept
<1>7. CASE busy'[g]
  <2>1. Waits(g, ls[e + 1].tag)'
    BY <1>7 DEF Arrives, Waits
  <2>2. (e + 1) - 1 = e
    BY <1>1
  <2>3. Underway(g, ls, e + 1)'
    BY <1>3, <1>6, <2>1, <2>2 DEF Underway
  <2>4. Asked(g, ls[e + 1])' /\ OfDate(g, ls[e + 1])'
    BY <1>3 DEF Asked, OfDate
  <2> QED BY <1>4, <1>5, <1>7, <2>3, <2>4 DEF Rooted, AtWork
<1>8. CASE ~busy'[g]
  <2>1. ls[e + 1].tag = "end"
    BY <1>8 DEF Arrives
  <2>2. AtRest(g, ls, e + 1)'
    BY <1>3, <1>6, <2>1 DEF AtRest
  <2> QED BY <1>4, <1>5, <1>8, <2>2 DEF Rooted
<1> QED BY <1>7, <1>8

\* A record that changes no table and no file: a noop, or one of metadata.
LEMMA RootSkips ==
  ASSUME SeqTypes, NEW g \in Groups, NEW ls, NEW a, NEW e, NEW o, Posed(g, ls, a, e, o),
         Rooted(g, ls, a, e, o), Handling(g, {"noop"}) \/ Handling(g, {"meta"}), NextRecord(g),
         Handling(g, {"noop"}) => dh' = dh,
         UNCHANGED <<busy, rokw, rokc, file, outbuf, status>>
  PROVE  Rooted(g, ls, a, e, o)'
<1>1. e \in Nat /\ a \in Nat /\ Batched(g, ls, e)
  BY DEF Posed
<1>2. PICK rec : rec = Head(batch[g])
  OBVIOUS
<1>3. /\ Meets(rec, ls[e]) /\ rec.tag \in {"noop", "meta"} /\ busy[g]
      /\ \A t : Waits(g, t) /\ rec.tag # t => Waits(g, t)'
      /\ rec.tag = "meta" => ls[e].tag = "meta"
      /\ rec.tag = "noop" => dh' = dh
  <2>1. CASE Handling(g, {"noop"})
    BY <1>1, <1>2, <2>1, HeadMeets DEF Meets
  <2>2. CASE Handling(g, {"meta"})
    BY <1>1, <1>2, <2>2, HeadMeets DEF Meets
  <2> QED BY <2>1, <2>2
<1>4. Owned(g, o)' /\ Unopened(g, ls, a, e)'
  BY DEF Rooted, Owned, Unopened
<1>5. Underway(g, ls, e) /\ Asked(g, ls[e]) /\ OfDate(g, ls[e])
  BY <1>3 DEF Rooted, AtWork
<1>6. /\ Shown(g, ls, e) => Shown(g, ls, e)'
      /\ Shown(g, ls, e - 1) => Shown(g, ls, e - 1)'
  BY ShownKept
<1>7. Underway(g, ls, e)'
  <2>1. CASE rec.tag = "noop"
    BY <1>3, <1>5, <1>6, <2>1 DEF Underway
  <2>2. CASE rec.tag = "meta"
    BY <1>3, <1>5, <1>6, <2>2 DEF Underway
  <2> QED BY <1>3, <2>1, <2>2
<1>8. Asked(g, ls[e])' /\ OfDate(g, ls[e])'
  BY <1>5 DEF Asked, OfDate
<1> QED BY <1>3, <1>4, <1>7, <1>8 DEF Rooted, AtWork

\* The tables after an open.
OpenedAt(g, h, d) ==
  /\ file'[g][h] = d /\ status'[d] = "opened" /\ ~rokw'[g][h]
  /\ \A k \in Handles : k # h => file'[g][k] = file[g][k] /\ rokw'[g][k] = rokw[g][k]
  /\ \A x : x # d => status'[x] = status[x]

LEMMA OpenRows ==
  ASSUME RootTypes, NEW g \in Groups, NEW h \in Handles, NEW d \in Datasets,
         file' = [file EXCEPT ![g][h] = d], status' = [status EXCEPT ![d] = "opened"],
         rokw' = [rokw EXCEPT ![g][h] = FALSE]
  PROVE  OpenedAt(g, h, d)
<1>1. h \in 0 .. NH /\ \A k \in Handles : k \in 0 .. NH
  BY ClientConstants DEF Handles
<1>2. file[g] \in [Handles -> Files] /\ rokw[g] \in [0 .. NH -> BOOLEAN]
  BY DEF RootTypes
<1>3. PICK row : row = [file[g] EXCEPT ![h] = d]
  OBVIOUS
<1>4. PICK rew : rew = [rokw[g] EXCEPT ![h] = FALSE]
  OBVIOUS
<1>5. file' = [file EXCEPT ![g] = row] /\ rokw' = [rokw EXCEPT ![g] = rew]
  BY <1>3, <1>4
<1>6. file'[g] = row /\ rokw'[g] = rew
  BY <1>5 DEF RootTypes
<1>7. row[h] = d /\ \A k \in Handles : k # h => row[k] = file[g][k]
  BY <1>2, <1>3
<1>8. ~rew[h] /\ \A k \in Handles : k # h => rew[k] = rokw[g][k]
  BY <1>1, <1>2, <1>4
<1>9. status'[d] = "opened" /\ \A x : x # d => status'[x] = status[x]
  BY DEF RootTypes
<1> QED BY <1>6, <1>7, <1>8, <1>9 DEF OpenedAt

LEMMA RootOpens ==
  ASSUME SeqTypes, RootTypes, NEW g \in Groups, NEW ls, NEW a, NEW e, NEW o,
         Posed(g, ls, a, e, o), Rooted(g, ls, a, e, o), HandleOpen(g),
         Spoken(Head(batch[g]))
  PROVE  Rooted(g, ls, a, e, o)'
<1>1. e \in Nat /\ a \in Nat /\ e <= a /\ Batched(g, ls, e) /\ Lawful(ls, a, o) /\ o \subseteq Datasets
  BY DEF Posed
<1>2. PICK rec : rec = Head(batch[g])
  OBVIOUS
<1>3. Handling(g, {"open"}) /\ NextRecord(g) /\ UNCHANGED <<busy, rokc, outbuf>>
  BY DEF HandleOpen
<1>4. Meets(rec, ls[e]) /\ rec.tag = "open" /\ busy[g] /\ e > 0
  BY <1>1, <1>2, <1>3, HeadMeets
<1>5. PICK h, d : h = rec.h /\ d = <<rec.v, rec.date>>
  OBVIOUS
<1>6. ls[e].tag = "open" /\ ls[e].h = h /\ DataOf(ls[e]) = d
  BY <1>4, <1>5 DEF Meets, DataOf
<1>7. h \in Handles
  BY <1>2, <1>4, <1>5 DEF Spoken
<1>8. e \in 1 .. a /\ e - 1 \in Nat /\ (e - 1) + 1 = e
  BY <1>1, <1>4
<1>9. d \in o /\ d \in Datasets
  BY <1>1, <1>6, <1>8 DEF Lawful
<1>10. /\ file' = [file EXCEPT ![g][h] = d] /\ status' = [status EXCEPT ![d] = "opened"]
       /\ rokw' = [rokw EXCEPT ![g][h] = FALSE]
  BY <1>2, <1>5 DEF HandleOpen, OpenedNoWrite
<1>11. /\ file'[g][h] = d /\ status'[d] = "opened" /\ ~rokw'[g][h]
       /\ \A k \in Handles : k # h => file'[g][k] = file[g][k] /\ rokw'[g][k] = rokw[g][k]
       /\ \A x : x # d => status'[x] = status[x]
  <2>1. OpenedAt(g, h, d)
    BY <1>7, <1>9, <1>10, OpenRows
  <2> QED BY <2>1 DEF OpenedAt
<1>12. d # NoFile
  BY <1>9 DEF Datasets, NoFile
<1>13. Owned(g, o) /\ Unopened(g, ls, a, e) /\ AtWork(g, ls, e)
  BY <1>4 DEF Rooted
<1>14. ASSUME NEW k \in Handles, k # h, file[g][k] # NoFile
       PROVE  file[g][k] # d /\ file[g][k] \in o /\ status[file[g][k]] # "none"
  <2>1. file[g][k] \in o /\ status[file[g][k]] # "none"
        /\ \A j \in Handles : file[g][j] = file[g][k] => j = k
    BY <1>13, <1>14 DEF Owned
  <2>2. status[d] = "none" \/ file[g][h] = d
    BY <1>4, <1>6, <1>8, <1>13 DEF Unopened
  <2> QED BY <1>7, <1>14, <2>1, <2>2
<1>15. Owned(g, o)'
  <2> SUFFICES ASSUME NEW k \in Handles, file'[g][k] # NoFile
               PROVE  /\ file'[g][k] \in o /\ status'[file'[g][k]] # "none"
                      /\ \A j \in Handles : file'[g][j] = file'[g][k] => j = k
    BY DEF Owned
  <2>1. CASE k = h
    <3>1. ASSUME NEW j \in Handles, file'[g][j] = d PROVE j = h
      BY <1>11, <1>12, <1>14, <3>1
    <3> QED BY <1>9, <1>11, <2>1, <3>1
  <2>2. CASE k # h
    <3>1. file'[g][k] = file[g][k] /\ file[g][k] # d /\ file[g][k] \in o
          /\ status[file[g][k]] # "none"
      BY <1>11, <1>14, <2>2
    <3>2. status'[file[g][k]] = status[file[g][k]]
      BY <1>11, <3>1
    <3>3. ASSUME NEW j \in Handles, file'[g][j] = file[g][k] PROVE j = k
      <4>1. j # h
        BY <1>11, <3>1, <3>3
      <4>2. file[g][j] = file[g][k] /\ file[g][k] # NoFile
        BY <1>11, <3>1, <3>3, <4>1
      <4> QED BY <1>13, <4>2 DEF Owned
    <3> QED BY <3>1, <3>2, <3>3
  <2> QED BY <2>1, <2>2
<1>16. Unopened(g, ls, a, e)'
  <2> SUFFICES ASSUME NEW i \in 1 .. a, ls[i].tag = "open"
               PROVE  /\ i > e => status'[DataOf(ls[i])] = "none"
                      /\ i = e => file'[g][ls[i].h] = DataOf(ls[i])
    BY DEF Unopened
  <2>1. i = e => file'[g][ls[i].h] = DataOf(ls[i])
    BY <1>6, <1>11
  <2>2. ASSUME i > e PROVE status'[DataOf(ls[i])] = "none"
    <3>1. e \in 1 .. i - 1
      BY <1>1, <1>8, <2>2
    <3>2. DataOf(ls[i]) # d
      BY <1>1, <1>6, <3>1 DEF Lawful
    <3>3. status[DataOf(ls[i])] = "none"
      BY <1>13, <2>2 DEF Unopened
    <3> QED BY <1>11, <3>2, <3>3
  <2> QED BY <2>1, <2>2
<1>17. Shown(g, ls, e)'
  <2> SUFFICES ASSUME NEW k \in Handles
               PROVE  /\ LastOf(ls, e, k, "open") =>
                           /\ ~rokw'[g][k] /\ file'[g][k] # NoFile
                           /\ status'[file'[g][k]] = "opened"
                      /\ LastOf(ls, e, k, "commit") => rokw'[g][k]
    BY DEF Shown
  <2>1. CASE k = h
    <3>1. Turns(ls[e], k)
      BY <1>6, <2>1 DEF Turns
    <3>2. ~LastOf(ls, e, k, "commit")
      BY <1>6, <1>8, <3>1, LastIs
    <3> QED BY <1>11, <1>12, <2>1, <3>2
  <2>2. CASE k # h
    <3>1. ~Turns(ls[e], k)
      BY <1>6, <2>2 DEF Turns
    <3>2. PICK b \in Nat : b = e - 1 /\ b + 1 = e
      BY <1>8
    <3>3. \A t : LastOf(ls, e, k, t) => LastOf(ls, b, k, t)
      BY <3>1, <3>2, LastBack
    <3>4. \A t : LastOf(ls, e, k, t) => LastOf(ls, e - 1, k, t)
      BY <3>2, <3>3
    <3>5. Shown(g, ls, e) \/ Shown(g, ls, e - 1)
      BY <1>6, <1>13 DEF AtWork, Underway
    <3>6. /\ LastOf(ls, e, k, "open") =>
               ~rokw[g][k] /\ file[g][k] # NoFile /\ status[file[g][k]] = "opened"
          /\ LastOf(ls, e, k, "commit") => rokw[g][k]
      BY <3>4, <3>5 DEF Shown
    <3>7. file[g][k] # NoFile => file[g][k] # d
      BY <1>14, <2>2
    <3>8. file[g][k] # NoFile => status'[file[g][k]] = status[file[g][k]]
      BY <1>11, <3>7
    <3> QED BY <1>11, <2>2, <3>6, <3>8
  <2> QED BY <2>1, <2>2
<1>18. AtWork(g, ls, e)'
  <2>1. Underway(g, ls, e)'
    BY <1>6, <1>17 DEF Underway
  <2>2. Asked(g, ls[e])' /\ OfDate(g, ls[e])'
    BY <1>3, <1>13 DEF AtWork, Asked, OfDate
  <2> QED BY <2>1, <2>2 DEF AtWork
<1> QED BY <1>3, <1>4, <1>15, <1>16, <1>18 DEF Rooted

LEMMA RootCommits ==
  ASSUME SeqTypes, RootTypes, NEW g \in Groups, NEW ls, NEW a, NEW e, NEW o,
         Posed(g, ls, a, e, o), Rooted(g, ls, a, e, o), HandleCommit(g),
         Spoken(Head(batch[g]))
  PROVE  Rooted(g, ls, a, e, o)'
<1>1. e \in Nat /\ a \in Nat /\ Batched(g, ls, e)
  BY DEF Posed
<1>2. PICK rec : rec = Head(batch[g])
  OBVIOUS
<1>3. PICK h : h = rec.h
  OBVIOUS
<1>4. /\ Handling(g, {"commit"}) /\ NextRecord(g)
      /\ UNCHANGED <<busy, rokw, file, outbuf, status>>
      /\ dh' = [dh EXCEPT ![g] = h] /\ rokc' = [rokc EXCEPT ![g][h] = TRUE]
  BY <1>2, <1>3 DEF HandleCommit, diskVars
<1>5. Meets(rec, ls[e]) /\ rec.tag = "commit" /\ busy[g]
  BY <1>1, <1>2, <1>4, HeadMeets
<1>6. ls[e].tag = "commit" /\ ls[e].h = h /\ h \in Handles
  BY <1>2, <1>3, <1>5 DEF Meets, Spoken
<1>7. dh'[g] = h /\ rokc'[g][h] /\ \A k \in Handles : k # h => rokc'[g][k] = rokc[g][k]
  <2>1. h \in 0 .. NH /\ \A k \in Handles : k \in 0 .. NH
    BY <1>6, ClientConstants DEF Handles
  <2>2. PICK row : row = [rokc[g] EXCEPT ![h] = TRUE]
    OBVIOUS
  <2>3. rokc' = [rokc EXCEPT ![g] = row]
    BY <1>4, <2>2
  <2>4. rokc'[g] = row /\ dh'[g] = h /\ rokc[g] \in [0 .. NH -> BOOLEAN]
    BY <1>4, <2>3 DEF RootTypes
  <2> QED BY <2>1, <2>2, <2>4
<1>8. Owned(g, o)' /\ Unopened(g, ls, a, e)'
  BY <1>4 DEF Rooted, Owned, Unopened
<1>9. Underway(g, ls, e) /\ Asked(g, ls[e]) /\ OfDate(g, ls[e])
  BY <1>5 DEF Rooted, AtWork
<1>10. Shown(g, ls, e - 1)'
  <2>1. Shown(g, ls, e - 1)
    BY <1>6, <1>9 DEF Underway
  <2> QED BY <1>4, <2>1, ShownKept
<1>11. Underway(g, ls, e)'
  BY <1>6, <1>7, <1>10 DEF Underway
<1>12. Asked(g, ls[e])'
  BY <1>6, <1>7, <1>9 DEF Asked
<1>13. OfDate(g, ls[e])'
  BY <1>4, <1>9 DEF OfDate
<1> QED BY <1>4, <1>5, <1>8, <1>11, <1>12, <1>13 DEF Rooted, AtWork

\* A field finds the root of the clients' mind, and no other date in the buffer.
LEMMA RootStores ==
  ASSUME SeqTypes, RootTypes, NEW g \in Groups, NEW ls, NEW a, NEW e, NEW o,
         Posed(g, ls, a, e, o), Rooted(g, ls, a, e, o), HandleField(g),
         Spoken(Head(batch[g]))
  PROVE  Rooted(g, ls, a, e, o)' /\ phase' = phase
<1>1. e \in Nat /\ a \in Nat /\ e <= a /\ Batched(g, ls, e) /\ Lawful(ls, a, o)
  BY DEF Posed
<1>2. PICK rec : rec = Head(batch[g])
  OBVIOUS
<1>3. /\ Handling(g, {"train", "field"}) /\ NextRecord(g)
      /\ UNCHANGED <<busy, rokw, rokc, file, status>>
  BY DEF HandleField, diskVars
<1>4. Meets(rec, ls[e]) /\ rec.tag \in {"train", "field"} /\ busy[g] /\ e > 0
  BY <1>1, <1>2, <1>3, HeadMeets
<1>5. ls[e].tag = rec.tag /\ ls[e].h = rec.h /\ ls[e].date = rec.date /\ rec.h \in Handles
  BY <1>2, <1>4 DEF Meets, Spoken
<1>6. e \in 1 .. a /\ e - 1 \in Nat /\ (e - 1) + 1 = e
  BY <1>1, <1>4
<1>7. Underway(g, ls, e) /\ Asked(g, ls[e]) /\ OfDate(g, ls[e])
  BY <1>4 DEF Rooted, AtWork
<1>8. Shown(g, ls, e)
  BY <1>4, <1>5, <1>7 DEF Underway
<1>9. PICK t \in {"open", "commit"} :
        /\ t = (IF rec.tag = "field" THEN "commit" ELSE "open")
        /\ LastOf(ls, e - 1, rec.h, t)
  <2>1. CASE rec.tag = "field"
    BY <1>1, <1>5, <1>6, <2>1 DEF Lawful
  <2>2. CASE rec.tag = "train"
    BY <1>1, <1>5, <1>6, <2>2 DEF Lawful
  <2> QED BY <1>4, <2>1, <2>2
<1>10. LastOf(ls, e, rec.h, t)
  <2>1. \A q \in (e - 1) + 1 .. e : ~Turns(ls[q], rec.h)
    <3>1. ~Turns(ls[e], rec.h)
      BY <1>4, <1>5 DEF Turns
    <3> QED BY <1>6, <3>1
  <2>2. PICK b \in Nat : b = e - 1 /\ b <= e
    BY <1>6
  <2>3. /\ \A i \in 1 .. b : ls[i] = ls[i]
        /\ \A q \in b + 1 .. e : ~Turns(ls[q], rec.h)
        /\ LastOf(ls, b, rec.h, t)
    BY <1>9, <2>1, <2>2
  <2> QED BY <1>1, <2>2, <2>3, LastKept
<1>11. rokw[g][rec.h] <=> rec.tag = "field"
  BY <1>5, <1>8, <1>9, <1>10 DEF Shown
<1>12. rokw[g][rec.h] \in BOOLEAN
  BY <1>5, ClientConstants DEF RootTypes, Handles
<1>13. \A p \in outbuf[g] : p.date = rec.date
  BY <1>5, <1>7 DEF OfDate
<1>14. /\ phase' = phase
       /\ outbuf' = IF rokw[g][rec.h]
                    THEN [outbuf EXCEPT ![g] =
                            @ \cup {[v |-> rec.v, date |-> rec.date, src |-> rec.src]}]
                    ELSE outbuf
  <2>1. rokw[g][rec.h] = (rec.tag = "field")
    BY <1>11, <1>12
  <2>2. ~(\/ rokw[g][rec.h] # (rec.tag = "field")
          \/ rokw[g][rec.h] /\ \E p \in outbuf[g] : p.v = rec.v /\ p.date # rec.date)
    BY <1>13, <2>1
  <2> QED BY <1>2, <2>2 DEF HandleField
<1>15. OfDate(g, ls[e])'
  <2>0. PICK p : p = [v |-> rec.v, date |-> rec.date, src |-> rec.src]
    OBVIOUS
  <2>1. p = [v |-> rec.v, date |-> rec.date, src |-> rec.src] /\ p.date = rec.date
    BY <2>0
  <2>2. outbuf' = outbuf \/ outbuf' = [outbuf EXCEPT ![g] = outbuf[g] \cup {p}]
    <3>1. CASE rokw[g][rec.h]
      <4>1. outbuf' = [outbuf EXCEPT ![g] = outbuf[g] \cup {p}]
        BY <1>14, <2>1, <3>1, Zenon
      <4> QED BY <4>1, Zenon
    <3>2. CASE ~rokw[g][rec.h]
      BY <1>14, <3>2, Zenon
    <3> QED BY <3>1, <3>2, Zenon
  <2>3. outbuf'[g] \subseteq outbuf[g] \cup {p}
    BY <2>2 DEF RootTypes
  <2> QED BY <1>5, <1>13, <2>1, <2>3 DEF OfDate
<1>16. Owned(g, o)' /\ Unopened(g, ls, a, e)' /\ Asked(g, ls[e])'
  BY <1>3, <1>7 DEF Rooted, Owned, Unopened, Asked
<1>17. Shown(g, ls, e)'
  BY <1>3, <1>8, ShownKept
<1>18. Underway(g, ls, e)'
  BY <1>4, <1>5, <1>17 DEF Underway
<1> QED BY <1>3, <1>4, <1>14, <1>15, <1>16, <1>18 DEF Rooted, AtWork

LEMMA RootCloses ==
  ASSUME SeqTypes, RootTypes, NEW g \in Groups, NEW ls, NEW a, NEW e, NEW o,
         Posed(g, ls, a, e, o), Rooted(g, ls, a, e, o), HandleClose(g)
  PROVE  Rooted(g, ls, a, e, o)'
<1>1. e \in Nat /\ a \in Nat /\ e <= a /\ Batched(g, ls, e) /\ o \subseteq Datasets
  BY DEF Posed
<1>2. PICK rec : rec = Head(batch[g])
  OBVIOUS
<1>3. PICK h, d : h = rec.h /\ d = file[g][h]
  OBVIOUS
<1>4. /\ Handling(g, {"close"}) /\ NextRecord(g) /\ UNCHANGED <<busy, rokw, rokc, file, outbuf>>
      /\ status' = IF h >= 1 /\ ClosesOpen(d) THEN [status EXCEPT ![d] = "closed"] ELSE status
  BY <1>2, <1>3 DEF HandleClose
<1>5. Meets(rec, ls[e]) /\ rec.tag = "close" /\ busy[g] /\ e > 0
  BY <1>1, <1>2, <1>4, HeadMeets
<1>6. ls[e].tag = "close" /\ h \in {0, ls[e].h} /\ h \in 0 .. NH
  BY <1>3, <1>5 DEF Meets, ServerRecords
<1>7. Owned(g, o) /\ Unopened(g, ls, a, e) /\ Underway(g, ls, e) /\ Asked(g, ls[e])
      /\ OfDate(g, ls[e])
  BY <1>5 DEF Rooted, AtWork
<1>8. Shown(g, ls, e)
  BY <1>6, <1>7 DEF Underway
<1>9. CASE status' = status
  <2>1. Owned(g, o)' /\ Unopened(g, ls, a, e)' /\ Asked(g, ls[e])' /\ OfDate(g, ls[e])'
    BY <1>4, <1>7, <1>9 DEF Owned, Unopened, Asked, OfDate
  <2>2. Shown(g, ls, e)'
    BY <1>4, <1>8, <1>9, ShownKept
  <2>3. Underway(g, ls, e)'
    BY <1>6, <2>2 DEF Underway
  <2> QED BY <1>4, <1>5, <2>1, <2>3 DEF Rooted, AtWork
<1>10. CASE status' # status
  <2>1. h >= 1 /\ ClosesOpen(d) /\ status' = [status EXCEPT ![d] = "closed"]
    BY <1>4, <1>10
  <2>2. h \in Handles /\ h = ls[e].h
    BY <1>6, <2>1, ClientConstants DEF Handles
  <2>3. d \in Datasets
    BY <1>10, <2>1 DEF RootTypes
  <2>4. /\ status[d] \in {"opened", "committed"} /\ status'[d] = "closed"
        /\ \A x : x # d => status'[x] = status[x]
    BY <2>1, <2>3 DEF ClosesOpen, RootTypes
  <2>5. ASSUME NEW k \in Handles, k # h, file[g][k] # NoFile PROVE file[g][k] # d
    BY <1>3, <1>7, <2>2, <2>5 DEF Owned
  <2>6. Owned(g, o)'
    <3> SUFFICES ASSUME NEW k \in Handles, file[g][k] # NoFile
                 PROVE  /\ file[g][k] \in o /\ status'[file[g][k]] # "none"
                        /\ \A j \in Handles : file[g][j] = file[g][k] => j = k
      BY <1>4 DEF Owned
    <3>1. /\ file[g][k] \in o /\ status[file[g][k]] # "none"
          /\ \A j \in Handles : file[g][j] = file[g][k] => j = k
      BY <1>7 DEF Owned
    <3>2. status'[file[g][k]] # "none"
      BY <2>4, <3>1
    <3> QED BY <3>1, <3>2
  <2>7. Unopened(g, ls, a, e)'
    <3> SUFFICES ASSUME NEW i \in 1 .. a, ls[i].tag = "open"
                 PROVE  i > e => status'[DataOf(ls[i])] = "none"
      BY <1>6 DEF Unopened
    <3>1. i > e => status[DataOf(ls[i])] = "none"
      BY <1>7 DEF Unopened
    <3> QED BY <2>4, <3>1
  <2>8. Shown(g, ls, e)'
    <3> SUFFICES ASSUME NEW k \in Handles
                 PROVE  /\ LastOf(ls, e, k, "open") =>
                             /\ ~rokw[g][k] /\ file[g][k] # NoFile
                             /\ status'[file[g][k]] = "opened"
                        /\ LastOf(ls, e, k, "commit") => rokw[g][k]
      BY <1>4 DEF Shown
    <3>1. /\ LastOf(ls, e, k, "open") =>
               ~rokw[g][k] /\ file[g][k] # NoFile /\ status[file[g][k]] = "opened"
          /\ LastOf(ls, e, k, "commit") => rokw[g][k]
      BY <1>8 DEF Shown
    <3>2. CASE k = h
      <4>1. PICK b \in Nat : b + 1 = e
        <5>1. e - 1 \in Nat /\ (e - 1) + 1 = e
          BY <1>1, <1>5
        <5> QED BY <5>1
      <4>2. Turns(ls[e], k)
        BY <1>6, <2>2, <3>2 DEF Turns
      <4>3. ~LastOf(ls, e, k, "open")
        BY <1>6, <4>1, <4>2, LastIs
      <4> QED BY <3>1, <4>3
    <3>3. CASE k # h
      BY <2>4, <2>5, <3>1, <3>3
    <3> QED BY <3>2, <3>3
  <2>9. Underway(g, ls, e)'
    BY <1>6, <2>8 DEF Underway
  <2>10. Asked(g, ls[e])' /\ OfDate(g, ls[e])'
    BY <1>4, <1>7 DEF Asked, OfDate
  <2> QED BY <1>4, <1>5, <2>6, <2>7, <2>9, <2>10 DEF Rooted, AtWork
<1> QED BY <1>9, <1>10

\* The batch is done with.
LEMMA RootFinishes ==
  ASSUME SeqTypes, LoopInv, RootTypes, NEW g \in Groups, NEW ls, NEW a, NEW e, NEW o,
         Posed(g, ls, a, e, o), Rooted(g, ls, a, e, o), FinishBatch(g)
  PROVE  Rooted(g, ls, a, e, o)'
<1>1. e \in Nat /\ a \in Nat /\ e <= a /\ Batched(g, ls, e) /\ Lawful(ls, a, o) /\ o \subseteq Datasets
  BY DEF Posed
<1>2. PICK h, d : h = dh[g] /\ d = file[g][h]
  OBVIOUS
<1>3. /\ busy[g] /\ batch[g] = <<>> /\ busy' = [busy EXCEPT ![g] = FALSE] /\ file' = file
      /\ outbuf' = IF outbuf[g] # {} THEN [outbuf EXCEPT ![g] = {}] ELSE outbuf
  BY DEF FinishBatch, Flushed
<1>4. IF rokc[g][h]
      THEN /\ rokc' = [rokc EXCEPT ![g][h] = FALSE]
           /\ IF status[d] = "opened"
              THEN /\ status' = [status EXCEPT ![d] = "committed"]
                   /\ rokw' = [rokw EXCEPT ![g][h] = TRUE]
              ELSE UNCHANGED <<status, rokw>>
      ELSE UNCHANGED <<rokc, status, rokw>>
  BY <1>2 DEF FinishBatch, CommitDone
<1>5. ~busy'[g] /\ outbuf'[g] = {}
  BY <1>3 DEF LoopInv, ServersTypeOK, RootTypes
<1>6. e > 0 /\ e \in 1 .. a
  BY <1>1, <1>3 DEF Batched
<1>7. PICK b \in Nat : b = e - 1 /\ b + 1 = e
  <2>1. e - 1 \in Nat /\ (e - 1) + 1 = e
    BY <1>1, <1>6
  <2> QED BY <2>1
<1>8. \A t : ~Waits(g, t)
  <2>1. Len(batch[g]) = 0
    BY <1>3
  <2> QED BY <2>1 DEF Waits
<1>9. Owned(g, o) /\ Unopened(g, ls, a, e) /\ Underway(g, ls, e) /\ Asked(g, ls[e])
  BY <1>3 DEF Rooted, AtWork
<1>10. CASE ls[e].tag # "commit"
  <2>1. Shown(g, ls, e)
    BY <1>8, <1>9, <1>10 DEF Underway
  <2>2. \A k \in Handles : ~rokc[g][k]
    BY <1>9, <1>10 DEF Asked
  <2>3. ~rokc[g][h]
    <3>1. h \in 0 .. NH /\ ~rokc[g][0] /\ (h # 0 => h \in Handles)
      BY <1>2, ClientConstants DEF RootTypes, Handles
    <3> QED BY <2>2, <3>1
  <2>4. UNCHANGED <<rokc, status, rokw>>
    BY <1>4, <2>3
  <2>5. Shown(g, ls, e)'
    BY <1>3, <2>1, <2>4, ShownKept
  <2>6. AtRest(g, ls, e)'
    BY <1>5, <2>2, <2>4, <2>5 DEF AtRest
  <2>7. Owned(g, o)' /\ Unopened(g, ls, a, e)'
    BY <1>3, <1>5, <1>9, <2>4 DEF Owned, Unopened
  <2> QED BY <1>5, <2>6, <2>7 DEF Rooted
<1>11. CASE ls[e].tag = "commit"
  <2>1. Shown(g, ls, b) /\ rokc[g][ls[e].h] /\ h = ls[e].h
    BY <1>2, <1>7, <1>8, <1>9, <1>11 DEF Underway
  <2>2. h \in Handles
    <3>1. h \in 0 .. NH /\ ~rokc[g][0]
      BY <1>2 DEF RootTypes
    <3> QED BY <2>1, <3>1, ClientConstants DEF Handles
  <2>3. LastOf(ls, b, h, "open")
    BY <1>1, <1>6, <1>7, <1>11, <2>1 DEF Lawful
  <2>4. d # NoFile /\ status[d] = "opened"
    BY <1>2, <2>1, <2>2, <2>3 DEF Shown
  <2>5. d \in o /\ d \in Datasets /\ \A k \in Handles : file[g][k] = d => k = h
    BY <1>1, <1>2, <1>9, <2>2, <2>4 DEF Owned
  <2>6. /\ rokc' = [rokc EXCEPT ![g][h] = FALSE]
        /\ status' = [status EXCEPT ![d] = "committed"]
        /\ rokw' = [rokw EXCEPT ![g][h] = TRUE]
    BY <1>4, <2>1, <2>4
  <2>7. /\ status'[d] = "committed" /\ \A x : x # d => status'[x] = status[x]
        /\ rokw'[g][h] /\ \A k \in Handles : k # h => rokw'[g][k] = rokw[g][k]
        /\ ~rokc'[g][h] /\ \A k \in Handles : k # h => rokc'[g][k] = rokc[g][k]
    <3>1. h \in 0 .. NH /\ \A k \in Handles : k \in 0 .. NH
      BY <2>2, ClientConstants DEF Handles
    <3>2. PICK rew, row : rew = [rokw[g] EXCEPT ![h] = TRUE] /\ row = [rokc[g] EXCEPT ![h] = FALSE]
      OBVIOUS
    <3>3. rokw' = [rokw EXCEPT ![g] = rew] /\ rokc' = [rokc EXCEPT ![g] = row]
      BY <2>6, <3>2
    <3>4. rokw'[g] = rew /\ rokc'[g] = row
      BY <3>3 DEF RootTypes
    <3>5. rokw[g] \in [0 .. NH -> BOOLEAN] /\ rokc[g] \in [0 .. NH -> BOOLEAN]
      BY DEF RootTypes
    <3>6. rew[h] /\ \A k \in Handles : k # h => rew[k] = rokw[g][k]
      BY <3>1, <3>2, <3>5
    <3>7. ~row[h] /\ \A k \in Handles : k # h => row[k] = rokc[g][k]
      BY <3>1, <3>2, <3>5
    <3>8. status'[d] = "committed" /\ \A x : x # d => status'[x] = status[x]
      BY <2>5, <2>6 DEF RootTypes
    <3> QED BY <3>4, <3>6, <3>7, <3>8
  <2>8. \A k \in Handles : ~rokc'[g][k]
    BY <1>9, <2>1, <2>7 DEF Asked
  <2>9. Owned(g, o)'
    <3> SUFFICES ASSUME NEW k \in Handles, file[g][k] # NoFile
                 PROVE  /\ file[g][k] \in o /\ status'[file[g][k]] # "none"
                        /\ \A j \in Handles : file[g][j] = file[g][k] => j = k
      BY <1>3 DEF Owned
    <3>1. /\ file[g][k] \in o /\ status[file[g][k]] # "none"
          /\ \A j \in Handles : file[g][j] = file[g][k] => j = k
      BY <1>9 DEF Owned
    <3>2. status'[file[g][k]] # "none"
      BY <2>7, <3>1
    <3> QED BY <3>1, <3>2
  <2>10. Unopened(g, ls, a, e)'
    <3> SUFFICES ASSUME NEW i \in 1 .. a, ls[i].tag = "open"
                 PROVE  i > e => status'[DataOf(ls[i])] = "none"
      BY <1>5 DEF Unopened
    <3>1. i > e => status[DataOf(ls[i])] = "none"
      BY <1>9 DEF Unopened
    <3> QED BY <2>4, <2>7, <3>1
  <2>11. Shown(g, ls, e)'
    <3> SUFFICES ASSUME NEW k \in Handles
                 PROVE  /\ LastOf(ls, e, k, "open") =>
                             /\ ~rokw'[g][k] /\ file[g][k] # NoFile
                             /\ status'[file[g][k]] = "opened"
                        /\ LastOf(ls, e, k, "commit") => rokw'[g][k]
      BY <1>3 DEF Shown
    <3>1. CASE k = h
      <4>1. Turns(ls[e], k)
        BY <1>11, <2>1, <3>1 DEF Turns
      <4>2. ~LastOf(ls, e, k, "open")
        BY <1>7, <1>11, <4>1, LastIs
      <4> QED BY <2>7, <3>1, <4>2
    <3>2. CASE k # h
      <4>1. ~Turns(ls[b + 1], k)
        BY <1>7, <2>1, <3>2 DEF Turns
      <4>2. \A t : LastOf(ls, b + 1, k, t) => LastOf(ls, b, k, t)
        BY <4>1, LastBack
      <4>3. /\ LastOf(ls, e, k, "open") =>
                 ~rokw[g][k] /\ file[g][k] # NoFile /\ status[file[g][k]] = "opened"
            /\ LastOf(ls, e, k, "commit") => rokw[g][k]
        BY <1>7, <2>1, <4>2 DEF Shown
      <4>4. file[g][k] # d
        BY <2>5, <3>2
      <4>5. rokw'[g][k] = rokw[g][k] /\ status'[file[g][k]] = status[file[g][k]]
        BY <2>7, <3>2, <4>4
      <4> QED BY <4>3, <4>5
    <3> QED BY <3>1, <3>2
  <2> QED BY <1>5, <2>8, <2>9, <2>10, <2>11 DEF Rooted, AtRest
<1> QED BY <1>10, <1>11

-----------------------------------------------------------------------------
(* All the steps of a root.                                                  *)

\* What the root of group h keeps.
RowsKept(h) ==
  /\ dh'[h] = dh[h] /\ rokw'[h] = rokw[h] /\ rokc'[h] = rokc[h] /\ file'[h] = file[h]
  /\ outbuf'[h] = outbuf[h] /\ batch'[h] = batch[h] /\ busy'[h] = busy[h]
Leaves(o) == \A d \in o : status'[d] = status[d]

LEMMA RootRooted ==
  ASSUME LoopInv, RootTypes, Full, NEW g \in Groups, NEW ls, NEW a, NEW e, NEW o,
         Posed(g, ls, a, e, o), Rooted(g, ls, a, e, o), RootStep(g),
         ~busy[g] => Arrives(g, ls, e + 1),
         NEW ee, ee = IF busy[g] THEN e ELSE e + 1
  PROVE  Rooted(g, ls, a, ee, o)'
<1>0. SeqTypes
  BY DEF Full
<1>1. CASE RootCollect(g) \/ RootDone(g)
  <2>1. ~busy[g] /\ UNCHANGED <<dh, rokw, rokc, file, outbuf, status>>
    BY <1>1 DEF RootCollect, RootDone, rootVars, diskVars
  <2>2. Arrives(g, ls, e + 1) /\ ee = e + 1
    BY <2>1
  <2>3. Rooted(g, ls, a, e + 1, o)'
    BY <2>1, <2>2, RootGoesOn
  <2> QED BY <2>2, <2>3
<1>2. CASE HandleNoop(g) \/ HandleMeta(g)
  <2>1. /\ busy[g] /\ NextRecord(g)
        /\ (Handling(g, {"noop"}) /\ dh' = dh) \/ Handling(g, {"meta"})
        /\ UNCHANGED <<busy, rokw, rokc, file, outbuf, status>>
    BY <1>2 DEF HandleNoop, HandleMeta, Handling, diskVars
  <2>2. ~(Handling(g, {"noop"}) /\ Handling(g, {"meta"}))
    BY DEF Handling
  <2>3. Rooted(g, ls, a, e, o)'
    BY <1>0, <2>1, <2>2, RootSkips
  <2> QED BY <2>1, <2>3
<1>3. CASE HandleOpen(g) \/ HandleCommit(g) \/ HandleField(g)
  <2>1. busy[g] /\ batch[g] # <<>> /\ Head(batch[g]).tag # "noop"
    BY <1>3 DEF HandleOpen, HandleCommit, HandleField, Handling
  <2>2. Spoken(Head(batch[g]))
    BY <2>1, HeadSpoken
  <2>3. Rooted(g, ls, a, e, o)'
    BY <1>0, <1>3, <2>2, RootOpens, RootCommits, RootStores
  <2> QED BY <2>1, <2>3
<1>4. CASE HandleClose(g)
  <2>1. busy[g]
    BY <1>4 DEF HandleClose, Handling
  <2>2. Rooted(g, ls, a, e, o)'
    BY <1>0, <1>4, RootCloses
  <2> QED BY <2>1, <2>2
<1>5. CASE FinishBatch(g)
  <2>1. busy[g]
    BY <1>5 DEF FinishBatch
  <2>2. Rooted(g, ls, a, e, o)'
    BY <1>0, <1>5, RootFinishes
  <2> QED BY <2>1, <2>2
<1> QED BY <1>1, <1>2, <1>3, <1>4, <1>5 DEF RootStep

\* A root stops the run only on a field, and that it never does.
LEMMA RootNeverStops ==
  ASSUME LoopInv, RootTypes, Full, NEW g \in Groups, NEW ls, NEW a, NEW e, NEW o,
         Posed(g, ls, a, e, o), Rooted(g, ls, a, e, o), RootStep(g), NeverAborts
  PROVE  NeverAborts'
<1>1. CASE HandleField(g)
  <2>1. batch[g] # <<>> /\ Head(batch[g]).tag # "noop"
    BY <1>1 DEF HandleField, Handling
  <2>2. Spoken(Head(batch[g])) /\ SeqTypes
    BY <2>1, HeadSpoken DEF Full
  <2>3. phase' = phase
    BY <1>1, <2>2, RootStores
  <2> QED BY <2>3 DEF NeverAborts
<1>2. CASE RootDone(g)
  <2>1. phase' = [phase EXCEPT ![g][Root] = LoopTop(g, Root)]
    BY <1>2 DEF RootDone
  <2>2. PICK p : p = LoopTop(g, Root) /\ p # "aborted"
    BY DEF LoopTop
  <2>3. \A h \in Groups, q \in Ranks : phase'[h][q] \in {phase[h][q], p}
    BY <2>1, <2>2 DEF LoopInv, ServersTypeOK
  <2> QED BY <2>2, <2>3 DEF NeverAborts
<1>3. CASE ~HandleField(g) /\ ~RootDone(g)
  <2>1. phase' = phase
    BY <1>3 DEF RootStep, RootCollect, HandleNoop, HandleMeta, HandleOpen, HandleCommit,
                HandleClose, FinishBatch, taskVars
  <2> QED BY <2>1 DEF NeverAborts
<1> QED BY <1>1, <1>2, <1>3

\* The handle of a group's file is behind a dataset of the group.
LEMMA OwnFile ==
  ASSUME RootTypes, NEW g \in Groups, NEW o, Owned(g, o), NEW h \in Handles,
         NEW d, d = file[g][h], NEW u, status' = [status EXCEPT ![d] = u]
  PROVE  Leaves(Datasets \ o)
<1>1. CASE d \in Datasets
  <2>1. d # NoFile
    BY <1>1 DEF Datasets, NoFile
  <2>2. d \in o
    BY <2>1 DEF Owned
  <2> QED BY <2>2 DEF Leaves, RootTypes
<1>2. CASE d \notin Datasets
  BY <1>2 DEF Leaves, RootTypes
<1> QED BY <1>1, <1>2

LEMMA RootLeaves ==
  ASSUME RootTypes, Full, NEW g \in Groups, NEW ls, NEW a, NEW e, NEW o,
         Posed(g, ls, a, e, o), Rooted(g, ls, a, e, o), RootStep(g)
  PROVE  Leaves(Datasets \ o)
<1>0. SeqTypes /\ Owned(g, o)
  BY DEF Full, Rooted
<1>1. CASE HandleOpen(g)
  <2>1. PICK rec : rec = Head(batch[g])
    OBVIOUS
  <2>2. PICK d : d = <<rec.v, rec.date>>
    OBVIOUS
  <2>3. /\ Handling(g, {"open"}) /\ NextRecord(g) /\ status' = [status EXCEPT ![d] = "opened"]
    BY <1>1, <2>1, <2>2 DEF HandleOpen
  <2>4. /\ e \in Nat /\ a \in Nat /\ e <= a /\ Batched(g, ls, e) /\ Lawful(ls, a, o)
        /\ o \subseteq Datasets
    BY DEF Posed
  <2>5. Meets(rec, ls[e]) /\ rec.tag = "open" /\ e > 0
    BY <1>0, <2>1, <2>3, <2>4, HeadMeets
  <2>6. ls[e].tag = "open" /\ DataOf(ls[e]) = d /\ e \in 1 .. a
    BY <2>2, <2>4, <2>5 DEF Meets, DataOf
  <2>7. d \in o
    BY <2>4, <2>6 DEF Lawful
  <2> QED BY <2>3, <2>7 DEF Leaves
<1>2. CASE HandleClose(g)
  <2>1. PICK h, d : h = Head(batch[g]).h /\ d = file[g][h]
    OBVIOUS
  <2>2. /\ Handling(g, {"close"})
        /\ status' = IF h >= 1 /\ ClosesOpen(d) THEN [status EXCEPT ![d] = "closed"] ELSE status
    BY <1>2, <2>1 DEF HandleClose
  <2>3. h \in 0 .. NH
    BY <2>1, <2>2, HeadSpoken DEF Handling, ServerRecords
  <2>4. CASE status' = status
    BY <2>4 DEF Leaves
  <2>5. CASE status' # status
    <3>1. h \in Handles /\ status' = [status EXCEPT ![d] = "closed"]
      BY <2>2, <2>3, <2>5, ClientConstants DEF Handles
    <3> QED BY <1>0, <2>1, <3>1, OwnFile
  <2> QED BY <2>4, <2>5
<1>3. CASE FinishBatch(g)
  <2>1. PICK h, d : h = dh[g] /\ d = file[g][h]
    OBVIOUS
  <2>2. \/ status' = status
        \/ rokc[g][h] /\ status' = [status EXCEPT ![d] = "committed"]
    BY <1>3, <2>1 DEF FinishBatch, CommitDone
  <2>3. CASE status' = status
    BY <2>3 DEF Leaves
  <2>4. CASE rokc[g][h] /\ status' = [status EXCEPT ![d] = "committed"]
    <3>1. h \in Handles
      <4>1. h \in 0 .. NH /\ ~rokc[g][0]
        BY <2>1 DEF RootTypes
      <4> QED BY <2>4, <4>1, ClientConstants DEF Handles
    <3> QED BY <1>0, <2>1, <2>4, <3>1, OwnFile
  <2> QED BY <2>2, <2>3, <2>4
<1>4. CASE ~HandleOpen(g) /\ ~HandleClose(g) /\ ~FinishBatch(g)
  <2>1. status' = status
    BY <1>4 DEF RootStep, RootCollect, RootDone, HandleNoop, HandleMeta, HandleCommit,
                HandleField, diskVars
  <2> QED BY <2>1 DEF Leaves
<1> QED BY <1>1, <1>2, <1>3, <1>4

LEMMA RootRows ==
  ASSUME LoopInv, SeqTypes, RootTypes, NEW g \in Groups, RootStep(g), NEW h \in Groups, h # g
  PROVE  RowsKept(h)
<1>0. /\ DOMAIN dh = Groups /\ DOMAIN rokw = Groups /\ DOMAIN rokc = Groups
      /\ DOMAIN file = Groups /\ DOMAIN outbuf = Groups /\ DOMAIN batch = Groups
      /\ DOMAIN busy = Groups
  BY DEF LoopInv, ServersTypeOK, SeqTypes, RootTypes
<1>1. CASE RootCollect(g) \/ RootDone(g)
  BY <1>0, <1>1 DEF RootCollect, RootDone, RowsKept, rootVars
<1>2. CASE HandleNoop(g) \/ HandleMeta(g)
  BY <1>0, <1>2 DEF HandleNoop, HandleMeta, NextRecord, RowsKept
<1>3. CASE HandleOpen(g)
  <2>1. PICK k, d : k = Head(batch[g]).h /\ d = <<Head(batch[g]).v, Head(batch[g]).date>>
    OBVIOUS
  <2>2. PICK r1, r2 : r1 = [file[g] EXCEPT ![k] = d] /\ r2 = [rokw[g] EXCEPT ![k] = FALSE]
    OBVIOUS
  <2>3. /\ dh' = [dh EXCEPT ![g] = k] /\ file' = [file EXCEPT ![g] = r1]
        /\ rokw' = [rokw EXCEPT ![g] = r2] /\ NextRecord(g) /\ UNCHANGED <<busy, rokc, outbuf>>
    BY <1>3, <2>1, <2>2 DEF HandleOpen, OpenedNoWrite
  <2> QED BY <1>0, <2>3 DEF NextRecord, RowsKept
<1>4. CASE HandleCommit(g)
  <2>1. PICK k : k = Head(batch[g]).h
    OBVIOUS
  <2>2. PICK r1 : r1 = [rokc[g] EXCEPT ![k] = TRUE]
    OBVIOUS
  <2>3. /\ dh' = [dh EXCEPT ![g] = k] /\ rokc' = [rokc EXCEPT ![g] = r1]
        /\ NextRecord(g) /\ UNCHANGED <<busy, rokw, file, outbuf>>
    BY <1>4, <2>1, <2>2 DEF HandleCommit
  <2> QED BY <1>0, <2>3 DEF NextRecord, RowsKept
<1>5. CASE HandleField(g)
  <2>1. PICK k, r1 : k = Head(batch[g]).h /\ r1 = outbuf'[g]
    OBVIOUS
  <2>2. /\ dh' = [dh EXCEPT ![g] = k] /\ NextRecord(g) /\ UNCHANGED <<busy, rokw, rokc, file>>
        /\ outbuf' = outbuf \/ \E q : outbuf' = [outbuf EXCEPT ![g] = q]
    BY <1>5, <2>1 DEF HandleField
  <2> QED BY <1>0, <2>2 DEF NextRecord, RowsKept
<1>6. CASE HandleClose(g)
  BY <1>0, <1>6 DEF HandleClose, NextRecord, RowsKept
<1>7. CASE FinishBatch(g)
  <2>1. PICK k : k = dh[g]
    OBVIOUS
  <2>2. PICK r1, r2 : r1 = [rokc[g] EXCEPT ![k] = FALSE] /\ r2 = [rokw[g] EXCEPT ![k] = TRUE]
    OBVIOUS
  <2>3. /\ rokc' = rokc \/ rokc' = [rokc EXCEPT ![g] = r1]
        /\ rokw' = rokw \/ rokw' = [rokw EXCEPT ![g] = r2]
        /\ outbuf' = outbuf \/ outbuf' = [outbuf EXCEPT ![g] = {}]
        /\ busy' = [busy EXCEPT ![g] = FALSE] /\ UNCHANGED <<batch, dh, file>>
    BY <1>7, <2>1, <2>2 DEF FinishBatch, Flushed
  <2> QED BY <1>0, <2>3 DEF RowsKept
<1> QED BY <1>1, <1>2, <1>3, <1>4, <1>5, <1>6, <1>7 DEF RootStep

\* A step of others leaves a group's files be.
LEMMA RootedKept ==
  ASSUME NEW g, NEW ls, NEW a, NEW e, NEW o, Lawful(ls, a, o), Rooted(g, ls, a, e, o),
         RowsKept(g), Leaves(o)
  PROVE  Rooted(g, ls, a, e, o)'
<1>1. /\ dh'[g] = dh[g] /\ rokw'[g] = rokw[g] /\ rokc'[g] = rokc[g] /\ file'[g] = file[g]
      /\ outbuf'[g] = outbuf[g] /\ batch'[g] = batch[g] /\ busy'[g] = busy[g]
      /\ \A d \in o : status'[d] = status[d]
  BY DEF RowsKept, Leaves
<1>2. Owned(g, o) /\ \A h \in Handles : file[g][h] # NoFile => file[g][h] \in o
  BY DEF Rooted, Owned
<1>3. Owned(g, o)'
  BY <1>1, <1>2 DEF Owned
<1>4. Unopened(g, ls, a, e)'
  <2> SUFFICES ASSUME NEW i \in 1 .. a, ls[i].tag = "open"
               PROVE  /\ i > e => status'[DataOf(ls[i])] = "none"
                      /\ i = e /\ busy'[g] => \/ status'[DataOf(ls[i])] = "none"
                                              \/ file'[g][ls[i].h] = DataOf(ls[i])
    BY DEF Unopened
  <2>1. DataOf(ls[i]) \in o
    BY DEF Lawful
  <2>2. /\ i > e => status[DataOf(ls[i])] = "none"
        /\ i = e /\ busy[g] => \/ status[DataOf(ls[i])] = "none"
                               \/ file[g][ls[i].h] = DataOf(ls[i])
    BY DEF Rooted, Unopened
  <2> QED BY <1>1, <2>1, <2>2
<1>5. ASSUME NEW b, Shown(g, ls, b) PROVE Shown(g, ls, b)'
  <2> SUFFICES ASSUME NEW h \in Handles
               PROVE  /\ LastOf(ls, b, h, "open") =>
                           /\ ~rokw'[g][h] /\ file'[g][h] # NoFile
                           /\ status'[file'[g][h]] = "opened"
                      /\ LastOf(ls, b, h, "commit") => rokw'[g][h]
    BY DEF Shown
  <2>1. /\ LastOf(ls, b, h, "open") =>
             /\ ~rokw[g][h] /\ file[g][h] # NoFile /\ status[file[g][h]] = "opened"
        /\ LastOf(ls, b, h, "commit") => rokw[g][h]
    BY <1>5 DEF Shown
  <2>2. file[g][h] # NoFile => status'[file[g][h]] = status[file[g][h]]
    BY <1>1, <1>2
  <2> QED BY <1>1, <2>1, <2>2
<1>6. \A t : Waits(g, t)' <=> Waits(g, t)
  BY <1>1 DEF Waits
<1>7. CASE busy[g]
  <2>1. Underway(g, ls, e) /\ Asked(g, ls[e]) /\ OfDate(g, ls[e])
    BY <1>7 DEF Rooted, AtWork
  <2>2. Underway(g, ls, e)'
    BY <1>1, <1>5, <1>6, <2>1 DEF Underway
  <2>3. Asked(g, ls[e])' /\ OfDate(g, ls[e])'
    BY <1>1, <2>1 DEF Asked, OfDate
  <2> QED BY <1>1, <1>3, <1>4, <1>7, <2>2, <2>3 DEF Rooted, AtWork
<1>8. CASE ~busy[g]
  <2>1. Shown(g, ls, e) /\ outbuf[g] = {} /\ \A h \in Handles : ~rokc[g][h]
    BY <1>8 DEF Rooted, AtRest
  <2>2. AtRest(g, ls, e)'
    BY <1>1, <1>5, <2>1 DEF AtRest
  <2> QED BY <1>1, <1>3, <1>4, <1>8, <2>2 DEF Rooted
<1> QED BY <1>7, <1>8

LEMMA LastSame ==
  ASSUME NEW a \in Nat, NEW ls, NEW zs, \A i \in 1 .. a : zs[i] = ls[i], NEW b \in 0 .. a,
         NEW h, NEW t, LastOf(zs, b, h, t)
  PROVE  LastOf(ls, b, h, t)
<1>1. PICK i \in 1 .. b : Turns(zs[i], h) /\ zs[i].tag = t /\ \A q \in i + 1 .. b : ~Turns(zs[q], h)
  BY DEF LastOf
<1>2. zs[i] = ls[i] /\ \A q \in i + 1 .. b : zs[q] = ls[q]
  OBVIOUS
<1>3. Turns(ls[i], h) /\ ls[i].tag = t /\ \A q \in i + 1 .. b : ~Turns(ls[q], h)
  BY <1>1, <1>2
<1> QED BY <1>3 DEF LastOf

\* More is said, of datasets that nobody has begun.
LEMMA RootedGrows ==
  ASSUME NEW g, NEW ls, NEW zs, NEW a \in Nat, NEW z \in Nat, NEW e \in Nat, NEW o, NEW oo,
         Rooted(g, ls, a, e, o), e <= a, busy[g] => e > 0, o \subseteq oo,
         \A i \in 1 .. a : zs[i] = ls[i],
         \A i \in a + 1 .. z : zs[i].tag = "open" => status[DataOf(zs[i])] = "none"
  PROVE  Rooted(g, zs, z, e, oo)
<1>1. Owned(g, oo)
  BY DEF Rooted, Owned
<1>2. Unopened(g, zs, z, e)
  <2> SUFFICES ASSUME NEW i \in 1 .. z, zs[i].tag = "open"
               PROVE  /\ i > e => status[DataOf(zs[i])] = "none"
                      /\ i = e /\ busy[g] => \/ status[DataOf(zs[i])] = "none"
                                             \/ file[g][zs[i].h] = DataOf(zs[i])
    BY DEF Unopened
  <2>1. CASE i <= a
    <3>1. i \in 1 .. a /\ zs[i] = ls[i]
      BY <2>1
    <3> QED BY <3>1 DEF Rooted, Unopened
  <2>2. CASE ~(i <= a)
    <3>1. i \in a + 1 .. z
      BY <2>2
    <3> QED BY <3>1
  <2> QED BY <2>1, <2>2
<1>3. ASSUME NEW b \in 0 .. a, Shown(g, ls, b) PROVE Shown(g, zs, b)
  <2>1. \A h, t : LastOf(zs, b, h, t) => LastOf(ls, b, h, t)
    BY LastSame
  <2> QED BY <1>3, <2>1 DEF Shown
<1>4. e \in 0 .. a
  OBVIOUS
<1>5. CASE busy[g]
  <2>1. Underway(g, ls, e) /\ Asked(g, ls[e]) /\ OfDate(g, ls[e])
    BY <1>5 DEF Rooted, AtWork
  <2>2. e \in 1 .. a /\ e - 1 \in 0 .. a /\ zs[e] = ls[e]
    BY <1>5
  <2>3. Underway(g, zs, e)
    BY <1>3, <1>4, <2>1, <2>2 DEF Underway
  <2> QED BY <1>1, <1>2, <1>5, <2>1, <2>2, <2>3 DEF Rooted, AtWork
<1>6. CASE ~busy[g]
  <2>1. Shown(g, ls, e) /\ outbuf[g] = {} /\ \A h \in Handles : ~rokc[g][h]
    BY <1>6 DEF Rooted, AtRest
  <2>2. AtRest(g, zs, e)
    BY <1>3, <1>4, <2>1 DEF AtRest
  <2> QED BY <1>1, <1>2, <1>6, <2>2 DEF Rooted
<1> QED BY <1>5, <1>6

-----------------------------------------------------------------------------
(* The sizes announced and the sizes sent.                                   *)

\* A gather follows a reduce that announces its size.
Echo(l, m) == \A j \in 1 .. l : m[j].kind = "gather" => j > 1 /\ m[j - 1].size = m[j].size
\* What the clients of a server send together, s records each.
Total(r, s) == SumOf([c \in Served(r) |-> s], Served(r))
\* A server waits for as much as its clients have announced.
Awaits(g, m, k) ==
  \A r \in Ranks : phase[g][r] = "gather" => want[g][r] = Total(r, m[k[r]].size)

LEMMA EchoGrows ==
  ASSUME NEW l \in Nat, NEW m, NEW mm, Echo(l, m), \A j \in 1 .. l : mm[j] = m[j],
         NEW t \in {0, 1, 2}, NEW x, \A j \in 1 .. t : mm[l + j] = Said(x, j)
  PROVE  Echo(l + t, mm)
<1>1. \A j : Said(x, j).size = Size(x) /\ Said(x, j).kind = IF j = 1 THEN "reduce" ELSE "gather"
  BY DEF Said, Call
<1> SUFFICES ASSUME NEW j \in 1 .. l + t, mm[j].kind = "gather"
             PROVE  j > 1 /\ mm[j - 1].size = mm[j].size
  BY DEF Echo
<1>2. CASE j <= l
  <2>1. j \in 1 .. l /\ mm[j] = m[j]
    BY <1>2
  <2>2. j > 1 /\ m[j - 1].size = m[j].size
    BY <2>1 DEF Echo
  <2>3. j - 1 \in 1 .. l
    BY <2>1, <2>2
  <2> QED BY <2>1, <2>2, <2>3
<1>3. CASE ~(j <= l)
  <2>1. j = l + 1 \/ (t = 2 /\ j = l + 2)
    BY <1>3
  <2>2. t # 0 /\ 1 \in 1 .. t
    BY <1>3
  <2>3. mm[l + 1] = Said(x, 1)
    BY <2>2
  <2>4. j # l + 1
    BY <1>1, <2>3
  <2>5. t = 2 /\ j = l + 2 /\ j - 1 = l + 1 /\ j > 1
    BY <2>1, <2>4
  <2>6. mm[l + 2] = Said(x, 2)
    BY <2>5
  <2> QED BY <1>1, <2>3, <2>5, <2>6
<1> QED BY <1>2, <1>3

LEMMA AwaitsKept ==
  ASSUME NEW g, NEW m, NEW k, NEW kk, Awaits(g, m, k),
         \A r \in Ranks : phase'[g][r] = "gather" =>
           phase[g][r] = "gather" /\ want'[g][r] = want[g][r] /\ kk[r] = k[r]
  PROVE  Awaits(g, m, kk)'
BY DEF Awaits

LEMMA AwaitsReduced ==
  ASSUME LoopInv, RootTypes, NEW g \in Groups, NEW r \in Ranks, ServerReduce(g, r),
         NEW m, NEW k, NEW s, s = m[k[r] + 1], s.kind = "reduce",
         s.size \in Nat \cup {ExitSize}, \A c \in Served(r) : Fits(c, Head(chan[c][g]), s),
         NEW kk, kk[r] = k[r] + 1, \A q \in Ranks : q # r => kk[q] = k[q], Awaits(g, m, k)
  PROVE  Awaits(g, m, kk)' /\ (NeverAborts => NeverAborts')
<1>1. PICK z : z = Reduced(g, r, "size")
  OBVIOUS
<1>2. /\ s.size = 0 => z = 0
      /\ s.size = ExitSize => z = ExitSize
      /\ s.size \in Nat \ {0} => z \in Nat \ {0}
  BY <1>1, ReducedSize
<1>3. z = SumOf(Words(g, r, "size"), Served(r))
  BY <1>1, ReducedIs
<1>4. PICK w, p : /\ w = (IF z > 0 THEN z ELSE 0)
                  /\ p = (IF z = ExitSize THEN "exited" ELSE IF z < 0 THEN "aborted"
                          ELSE IF z > 0 THEN "gather" ELSE "forward")
  OBVIOUS
<1>5. want' = [want EXCEPT ![g][r] = w] /\ phase' = [phase EXCEPT ![g][r] = p]
  BY <1>1, <1>4 DEF ServerReduce
<1>6. p # "aborted" /\ (p = "gather" => s.size \in Nat \ {0} /\ w = z)
  <2>1. CASE s.size = 0
    BY <1>2, <1>4, <2>1 DEF ExitSize
  <2>2. CASE s.size = ExitSize
    BY <1>2, <1>4, <2>2
  <2>3. CASE s.size \in Nat \ {0}
    BY <1>2, <1>4, <2>3 DEF ExitSize
  <2> QED BY <2>1, <2>2, <2>3
<1>7. /\ phase'[g][r] = p /\ want'[g][r] = w
      /\ \A q \in Ranks : q # r => phase'[g][q] = phase[g][q] /\ want'[g][q] = want[g][q]
      /\ \A h \in Groups, q \in Ranks : phase'[h][q] \in {phase[h][q], p}
  BY <1>5 DEF LoopInv, ServersTypeOK, RootTypes
<1>8. ASSUME p = "gather" PROVE w = Total(r, s.size)
  <2>1. s.size \in Nat \ {0} /\ w = z
    BY <1>6, <1>8
  <2>2. \A c \in Served(r) : Head(chan[c][g])["size"] = s.size
    BY <2>1 DEF Fits, Share, ExitSize
  <2>3. Words(g, r, "size") = [c \in Served(r) |-> s.size]
    BY <2>2 DEF Words
  <2> QED BY <1>3, <2>1, <2>3 DEF Total
<1>9. Awaits(g, m, kk)'
  <2> SUFFICES ASSUME NEW q \in Ranks, phase'[g][q] = "gather"
               PROVE  want'[g][q] = Total(q, m[kk[q]].size)
    BY DEF Awaits
  <2>1. CASE q = r
    BY <1>7, <1>8, <2>1
  <2>2. CASE q # r
    BY <1>7, <2>2 DEF Awaits
  <2> QED BY <2>1, <2>2
<1>10. NeverAborts => NeverAborts'
  BY <1>6, <1>7 DEF NeverAborts
<1> QED BY <1>9, <1>10

LEMMA GatheredAll ==
  ASSUME IInv, NEW g \in Groups, NEW r \in Ranks, NEW size \in Nat, NEW a, NEW recs,
         \A c \in Served(r) : /\ chan[c][g] # <<>>
                              /\ Recorded(c, Head(chan[c][g]).recs, size, a),
         recs = FlattenSeq([i \in 1 .. NC |-> IF i - 1 \in Served(r)
                                              THEN Head(chan[i - 1][g]).recs ELSE <<>>])
  PROVE  Len(recs) = Total(r, size)
<1>0. NC \in Nat \ {0} /\ Clients = 0 .. NC - 1 /\ Served(r) \subseteq 0 .. NC - 1
  BY ClientConstants DEF Clients, Served
<1> DEFINE f == [i \in 1 .. NC |-> IF i - 1 \in Served(r)
                                   THEN Head(chan[i - 1][g]).recs ELSE <<>>]
           L == [c \in Served(r) |-> size]
<1>1. ASSUME NEW i \in 1 .. NC, i - 1 \in Served(r)
      PROVE  f[i] \in Seq(Records) /\ Len(f[i]) = size
  <2>1. PICK c \in Served(r) : c = i - 1
    BY <1>1
  <2>2. c \in Clients /\ f[i] = Head(chan[c][g]).recs
    BY <1>0, <2>1
  <2>3. chan[c][g] \in Seq(Messages) /\ chan[c][g] # <<>>
    BY <2>2 DEF IInv, ClientTypeOK, MessagesTypeOK
  <2>4. Head(chan[c][g]) \in Messages
    BY <2>3, HeadTail
  <2>5. Head(chan[c][g]).recs \in Seq(Records)
    BY <2>4 DEF Messages
  <2>6. Len(Head(chan[c][g]).recs) = size
    BY DEF Recorded
  <2> HIDE DEF f
  <2> QED BY <2>2, <2>5, <2>6
<1>2. ASSUME NEW i \in 1 .. NC, i - 1 \notin Served(r)
      PROVE  Len(f[i]) = 0 /\ f[i] \in Seq(Records)
  BY <1>2
<1>3. recs = Column(f, NC)
  <2>1. recs = FlattenSeq(f)
    OBVIOUS
  <2> HIDE DEF f
  <2>2. f = [i \in 1 .. NC |-> f[i]]
    BY DEF f
  <2> QED BY <2>1, <2>2 DEF Column
<1>4. \A c \in Served(r) : L[c] = size /\ L[c] \in Int
  OBVIOUS
<1>a. Total(r, size) = SumOf(L, Served(r))
  BY DEF Total
<1> HIDE DEF f, L
<1>5. \A i \in 1 .. NC : f[i] \in Seq(Records)
  BY <1>1, <1>2
<1>6. ASSUME NEW i \in 1 .. NC PROVE Len(f[i]) = IF i - 1 \in Served(r) THEN L[i - 1] ELSE 0
  BY <1>1, <1>2, <1>4
<1>7. Len(Column(f, NC)) = SumOf(L, Served(r))
  <2>1. Measured(f, NC, Records, Served(r), L)
    BY <1>0, <1>4, <1>5, <1>6 DEF Measured
  <2> QED BY <1>0, <2>1, ColumnLength
<1> QED BY <1>3, <1>7, <1>a

\* A server receives what was announced.
LEMMA GatherComplete ==
  ASSUME LoopInv, IInv, NEW g \in Groups, NEW r \in Ranks, ServerGather(g, r),
         NEW l \in Nat, NEW m, NEW k, k[r] \in 0 .. l - 1, NEW s, s = m[k[r] + 1],
         s.kind = "gather", s.size \in Nat,
         \A c \in Served(r) : chan[c][g] # <<>> /\ Fits(c, Head(chan[c][g]), s),
         NEW kk, kk[r] = k[r] + 1, \A q \in Ranks : q # r => kk[q] = k[q],
         Awaits(g, m, k), Echo(l, m)
  PROVE  Awaits(g, m, kk)' /\ (NeverAborts => NeverAborts')
<1> DEFINE recs == FlattenSeq([i \in 1 .. NC |-> IF i - 1 \in Served(r)
                                                 THEN Head(chan[i - 1][g]).recs ELSE <<>>])
<1>1. /\ phase[g][r] = "gather" /\ want' = want
      /\ IF Len(recs) = want[g][r] THEN phase' = [phase EXCEPT ![g][r] = "forward"]
         ELSE phase' = [phase EXCEPT ![g][r] = "aborted"]
  BY DEF ServerGather, Collect
<1>2. Len(recs) = Total(r, s.size)
  <2>1. PICK n \in Nat : n = s.size
    OBVIOUS
  <2>2. PICK a : a = s.about
    OBVIOUS
  <2>3. \A c \in Served(r) : /\ chan[c][g] # <<>>
                             /\ Recorded(c, Head(chan[c][g]).recs, n, a)
    BY <2>1, <2>2 DEF Fits
  <2>4. recs = FlattenSeq([i \in 1 .. NC |-> IF i - 1 \in Served(r)
                                             THEN Head(chan[i - 1][g]).recs ELSE <<>>])
    OBVIOUS
  <2> HIDE DEF recs
  <2>5. Len(recs) = Total(r, n)
    BY <2>3, <2>4, GatheredAll
  <2> QED BY <2>1, <2>5
<1> HIDE DEF recs
<1>3. m[k[r]].size = s.size
  <2>1. PICK j \in 1 .. l : j = k[r] + 1 /\ j - 1 = k[r]
    OBVIOUS
  <2> QED BY <2>1 DEF Echo
<1>4. phase' = [phase EXCEPT ![g][r] = "forward"]
  BY <1>1, <1>2, <1>3 DEF Awaits
<1>5. /\ phase'[g][r] = "forward"
      /\ \A q \in Ranks : q # r => phase'[g][q] = phase[g][q]
      /\ \A h \in Groups, q \in Ranks : phase'[h][q] \in {phase[h][q], "forward"}
  BY <1>4 DEF LoopInv, ServersTypeOK
<1>6. Awaits(g, m, kk)'
  BY <1>1, <1>5, AwaitsKept
<1> QED BY <1>5, <1>6 DEF NeverAborts

-----------------------------------------------------------------------------
(* From the calls of the clients to the files of a group.                    *)

\* Group g, when the first l calls of its script m, the last of them by client x or
\* one before it, make the items ls; its datasets are those of o.
Carried(g, l, m, k, x, o, la, ls, f) ==
  /\ Filed(g, l, m, k, la, ls, f) /\ Rooted(g, ls, la[l], f[Root], o)
  /\ Echo(l, m) /\ Awaits(g, m, k) /\ Lawful(ls, la[l], o) /\ Told(g, x, ls, la[l])
CarriedBy(g, l, m, k, x, o) == \E la, ls, f : Carried(g, l, m, k, x, o, la, ls, f)

LEMMA AwaitsLonger ==
  ASSUME NEW g, NEW l \in Nat, NEW m, NEW mm, NEW k, Awaits(g, m, k),
         \A j \in 1 .. l : mm[j] = m[j], \A r \in Ranks : k[r] \in 0 .. l,
         \A r \in Ranks : phase[g][r] = "gather" => k[r] > 0
  PROVE  Awaits(g, mm, k)
<1> SUFFICES ASSUME NEW r \in Ranks, phase[g][r] = "gather"
             PROVE  want[g][r] = Total(r, mm[k[r]].size)
  BY DEF Awaits
<1>1. k[r] \in 1 .. l
  OBVIOUS
<1>2. mm[k[r]] = m[k[r]]
  BY <1>1
<1> QED BY <1>2 DEF Awaits

\* The calls completed are of the first l; the calls of client x follow them; the
\* dataset it opens, if it does, is a new one of the group.
Counted(g, l, k) ==
  \A r \in Ranks : k[r] \in 0 .. l /\ (phase[g][r] = "gather" => k[r] > 0)
Continues(l, m, mm, x, t) ==
  (\A j \in 1 .. l : mm[j] = m[j]) /\ \A j \in 1 .. t : mm[l + j] = Said(x, j)
NewData(x, t, o, oo) ==
  /\ o \subseteq oo
  /\ t # 0 /\ x.stage = "open" =>
       \E d : d = <<x.cur, x.outs[x.cur]>> /\ d \in oo /\ d \notin o /\ status[d] = "none"

\* The calls of client x join the script.
LEMMA FrontCarried ==
  ASSUME SeqTypes, NEW g \in Groups, NEW l \in Nat, NEW m, NEW k, NEW x, NEW o,
         CarriedBy(g, l, m, k, x, o), Counted(g, l, k),
         NEW y, NEW f, NEW t, Onward(x, y, f, g, t), NEW mm, Continues(l, m, mm, x, t),
         NEW oo, NewData(x, t, o, oo)
  PROVE  CarriedBy(g, l + t, mm, k, y, oo)
<1>1. PICK la, ls, e : Carried(g, l, m, k, x, o, la, ls, e)
  BY DEF CarriedBy
<1>2. Filed(g, l, m, k, la, ls, e)
  BY <1>1 DEF Carried
<1>3. t \in {0, 1, 2} /\ (t # 0 => t = Calls(x)) /\ \A j \in 1 .. t : Meant(Said(x, j))
  BY CallsIs DEF Onward
<1>4. \A j \in 1 .. t : mm[l + j] = Said(x, j) /\ Meant(mm[l + j])
  BY <1>3 DEF Continues
<1>5. PICK za, zs : Filed(g, l + t, mm, k, za, zs, e) /\ GoesOn(l, la, ls, za, zs)
  <2>1. \A r \in Ranks : k[r] \in 0 .. l
    BY DEF Counted
  <2>2. \A j \in 1 .. l : mm[j] = m[j]
    BY DEF Continues
  <2> QED BY <1>2, <1>3, <1>4, <2>1, <2>2, FiledOn
<1>6. PICK a \in Nat : a = la[l] /\ e[Root] \in Nat /\ e[Root] <= a /\ Batched(g, ls, e[Root])
  BY <1>2, FiledIs, RanksOf
<1>7. za[l] = a /\ \A i \in 1 .. a : zs[i] = ls[i]
  BY <1>5, <1>6 DEF GoesOn
<1>8. Charted(l + t, mm, za, zs)
  BY <1>5 DEF Filed
<1>9. PICK z : z = za[l + t]
  OBVIOUS
<1>10. Adds(x, t, a, ls, z, zs)
  <2>1. la[l] \in Nat /\ za[l] = la[l] /\ \A i \in 1 .. la[l] : zs[i] = ls[i]
    BY <1>6, <1>7
  <2>2. Adds(x, t, la[l], ls, za[l + t], zs)
    BY <1>3, <1>4, <1>8, <2>1, ChartAdds
  <2> QED BY <1>6, <1>9, <2>2
<1>11. z \in Nat
  BY <1>10 DEF Adds
<1>12. Lawful(ls, a, o) /\ Told(g, x, ls, a) /\ Rooted(g, ls, a, e[Root], o)
  BY <1>1, <1>6 DEF Carried
<1>13. Lawful(zs, z, oo)
  <2>1. o \subseteq oo
    BY DEF NewData
  <2>2. t # 0 /\ x.stage = "open" =>
          <<x.cur, x.outs[x.cur]>> \in oo /\ <<x.cur, x.outs[x.cur]>> \notin o
    BY DEF NewData
  <2> QED BY <1>10, <1>12, <2>1, <2>2, LawfulGrows
<1>14. Told(g, y, zs, z)
  BY <1>10, <1>12, ToldGrows
<1>15. Rooted(g, zs, z, e[Root], oo)
  <2>1. ASSUME NEW i \in a + 1 .. z, zs[i].tag = "open" PROVE status[DataOf(zs[i])] = "none"
    <3>1. /\ t \in {1, 2} /\ zs[i].tag = Subject(x).tag
          /\ Subject(x).tag # "field" => DataOf(zs[i]) = DataOf(Subject(x))
      BY <1>10, <2>1, NewOf
    <3>2. t = Calls(x) /\ Subject(x).tag = "open"
      BY <1>3, <2>1, <3>1
    <3>3. x.stage = "open"
      <4>1. x.stage \in {"open", "trainMeta", "putMeta", "train", "commit", "sync", "close",
                         "lastClose", "exit"}
        BY <3>1, <3>2 DEF Calls
      <4> QED BY <3>2, <4>1, SubjectOf
    <3>4. DataOf(zs[i]) = <<x.cur, x.outs[x.cur]>>
      BY <3>1, <3>2, <3>3, SubjectOf
    <3> QED BY <3>1, <3>3, <3>4 DEF NewData
  <2>2. busy[g] => e[Root] > 0
    BY <1>6 DEF Batched
  <2>3. o \subseteq oo
    BY DEF NewData
  <2> QED BY <1>6, <1>7, <1>11, <1>12, <2>1, <2>2, <2>3, RootedGrows
<1>16. Echo(l + t, mm) /\ Awaits(g, mm, k)
  <2>1. Echo(l, m) /\ Awaits(g, m, k)
    BY <1>1 DEF Carried
  <2>2. Echo(l + t, mm)
    <3>1. \A j \in 1 .. l : mm[j] = m[j]
      BY DEF Continues
    <3>2. \A j \in 1 .. t : mm[l + j] = Said(x, j)
      BY DEF Continues
    <3> QED BY <1>3, <2>1, <3>1, <3>2, EchoGrows
  <2>3. Awaits(g, mm, k)
    <3>1. \A j \in 1 .. l : mm[j] = m[j]
      BY DEF Continues
    <3>2. \A r \in Ranks : k[r] \in 0 .. l
      BY DEF Counted
    <3>3. \A r \in Ranks : phase[g][r] = "gather" => k[r] > 0
      BY DEF Counted
    <3> QED BY <2>1, <3>1, <3>2, <3>3, AwaitsLonger
  <2> QED BY <2>2, <2>3
<1>17. Carried(g, l + t, mm, k, y, oo, za, zs, e)
  BY <1>5, <1>9, <1>13, <1>14, <1>15, <1>16 DEF Carried
<1> QED BY <1>17 DEF CarriedBy

\* A step that has to do with other groups.
Steady(g) ==
  \A r \in Ranks : phase'[g][r] = "gather" =>
    phase[g][r] = "gather" /\ want'[g][r] = want[g][r]

LEMMA CarriedKept ==
  ASSUME NEW g \in Groups, NEW l \in Nat, NEW m, NEW k, NEW x, NEW o,
         CarriedBy(g, l, m, k, x, o), Untouched(g), RowsKept(g), Leaves(o), Steady(g),
         NEW kk, \A r \in Ranks : kk[r] = k[r]
  PROVE  CarriedBy(g, l, m, kk, x, o)'
<1>1. PICK la, ls, f : Carried(g, l, m, k, x, o, la, ls, f)
  BY DEF CarriedBy
<1>2. Filed(g, l, m, k, la, ls, f)'
  BY <1>1, FiledKept DEF Untouched, Carried
<1>3. Filed(g, l, m, kk, la, ls, f)'
  <2>1. \A r \in Ranks : (Holds(g, r, k[r], la, ls, f[r]))' => (Holds(g, r, kk[r], la, ls, f[r]))'
    OBVIOUS
  <2> QED BY <1>2, <2>1 DEF Filed
<1>4. Lawful(ls, la[l], o) /\ Rooted(g, ls, la[l], f[Root], o)
  BY <1>1 DEF Carried
<1>5. Rooted(g, ls, la[l], f[Root], o)'
  BY <1>4, RootedKept
<1>6. Awaits(g, m, kk)'
  BY <1>1, AwaitsKept DEF Carried, Steady
<1>7. (Echo(l, m) /\ Told(g, x, ls, la[l]))'
  BY <1>1 DEF Carried, Echo, Told
<1>8. Carried(g, l, m, kk, x, o, la, ls, f)'
  BY <1>3, <1>4, <1>5, <1>6, <1>7 DEF Carried, Lawful
<1> QED BY <1>8 DEF CarriedBy

-----------------------------------------------------------------------------
(* All groups.                                                               *)

\* Each group has datasets of its own, those of own; all were begun by client x,
\* the furthest ahead, or one before it, and no other has been touched.
Apart(x, own) ==
  /\ \A g \in Groups : own[g] \subseteq Datasets /\ \A d \in own[g] : Begun(x, d)
  /\ \A g, h \in Groups : g # h => own[g] \cap own[h] = {}
Touched(own) == \A d \in Datasets : status[d] # "none" => \E g \in Groups : d \in own[g]
Carrying(n, x, at, ms, got, own) ==
  \A g \in Groups : CarriedBy(g, at[n][g], ms[g], got[g], x, own[g])
Whole ==
  /\ NeverAborts
  /\ \E n \in Nat \ {0} : \E tr, at, ms, got, own :
       /\ Joint(tr, n, at, ms, got) /\ Apart(tr[n], own) /\ Touched(own)
       /\ Carrying(n, tr[n], at, ms, got, own)

LEMMA OwnGrows ==
  ASSUME NEW x, Sound(x), NEW p, NEW f, NEW y, y = After(x, p, f), x.stage \in Stages,
         x.stage # "gone", NEW own, Apart(x, own), Touched(own),
         NEW e, e = <<x.cur, x.outs[x.cur]>>, x.stage = "open" => e \in Datasets,
         NEW oo, oo = [g \in Groups |-> IF x.stage = "open" /\ g = To(x, f)
                                        THEN own[g] \cup {e} ELSE own[g]],
         x.stage = "open" => To(x, f) \in Groups
  PROVE  /\ Apart(y, oo) /\ Touched(oo) /\ \A g \in Groups : own[g] \subseteq oo[g]
         /\ x.stage = "open" => /\ status[e] = "none" /\ \A g \in Groups : e \notin own[g]
                                /\ e \in oo[To(x, f)]
<1>1. \A d \in Datasets : Begun(x, d) => Begun(y, d)
  BY BegunStays
<1>2. x.stage = "open" => ~Begun(x, e) /\ Begun(y, e)
  <2>1. CASE x.stage = "open"
    BY <2>1, BegunStays
  <2> QED BY <2>1
<1>3. x.stage = "open" => \A g \in Groups : e \notin own[g]
  BY <1>2 DEF Apart
<1>4. x.stage = "open" => status[e] = "none"
  BY <1>3 DEF Touched
<1>5. CASE x.stage # "open"
  <2>1. \A g \in Groups : oo[g] = own[g]
    BY <1>5
  <2> QED BY <1>1, <1>5, <2>1 DEF Apart, Touched
<1>6. CASE x.stage = "open"
  <2>1. PICK t \in Groups : t = To(x, f)
    BY <1>6
  <2>2. oo[t] = own[t] \cup {e} /\ \A g \in Groups : g # t => oo[g] = own[g]
    BY <1>6, <2>1
  <2>3. \A g \in Groups : own[g] \subseteq oo[g] /\ oo[g] \subseteq own[g] \cup {e}
    BY <2>2
  <2>4. Apart(y, oo)
    <3>1. \A g \in Groups : oo[g] \subseteq Datasets /\ \A d \in oo[g] : Begun(y, d)
      BY <1>1, <1>2, <1>6, <2>3 DEF Apart
    <3>2. \A g, h \in Groups : g # h => oo[g] \cap oo[h] = {}
      BY <1>3, <1>6, <2>2 DEF Apart
    <3> QED BY <3>1, <3>2 DEF Apart
  <2>5. Touched(oo)
    BY <2>3 DEF Touched
  <2> QED BY <1>3, <1>4, <1>6, <2>1, <2>2, <2>3, <2>4, <2>5
<1> QED BY <1>5, <1>6

\* A client that opens a file says so to a group.
LEMMA OpensTo ==
  ASSUME IInv, NEW c \in Clients, ClientStep(c), Within, Dated(c), NEW x, x = Local(c),
         x.stage = "open", NEW f, f = found'
  PROVE  To(x, f) \in Groups /\ <<x.cur, x.outs[x.cur]>> \in Datasets
<1>1. x.stage = stage[c]
  BY LocalIs
<1>2. To(x, f) \in Groups
  <2>1. Says(c)
    BY ClientStepSays
  <2>2. PICK g \in Groups : g = To(Local(c), found')
    BY <1>1, <2>1 DEF Says, Locks
  <2> QED BY <2>2
<1>3. Subject(x) \in Subjects
  <2>1. Calls(x) # 0
    BY DEF Calls
  <2> QED BY <2>1, SubjectIs
<1>4. Subject(x).v \in Streams /\ Subject(x).date \in 1 .. MaxOutputs
  <2>1. Subject(x).tag = "open"
    BY SubjectOf
  <2> QED BY <1>3, <2>1 DEF Subjects
<1>5. <<x.cur, x.outs[x.cur]>> = <<Subject(x).v, Subject(x).date>>
  BY SubjectOf DEF DataOf
<1> QED BY <1>2, <1>4, <1>5 DEF Datasets

LEMMA GoesOnward ==
  ASSUME IInv, Within, NEW c \in Clients, ClientStep(c), Dated(c), NEW x, x = Local(c),
         NEW y, y = Local(c)', NEW f, f = found', NEW p, p = plan'
  PROVE  /\ Sound(x) /\ y = After(x, p, f) /\ x.stage \in Stages /\ x.stage # "gone"
         /\ \A g \in Groups : Onward(x, y, f, g, SaidTo(x, f, g))
<1>1. Ready(x, p, f) /\ y = After(x, p, f)
  BY ClientStepMoves DEF Moved
<1>2. x.stage # "gone"
  BY <1>1 DEF Ready
<1>3. Sound(x)
  BY SoundIs
<1>4. x.stage \in Stages
  <2>1. x.stage = stage[c]
    BY LocalIs
  <2> QED BY <2>1 DEF IInv, ClientTypeOK, MediationTypeOK
<1>5. Tables(x, y, f)
  BY <1>1, <1>2, <1>3, <1>4, TablesAre
<1>6. ASSUME NEW g \in Groups PROVE Onward(x, y, f, g, SaidTo(x, f, g))
  <2>1. \A j \in 1 .. Calls(x) : Meant(Said(x, j))
    BY SaidMeant
  <2>2. SaidTo(x, f, g) = Calls(x) \/ SaidTo(x, f, g) = 0
    BY DEF SaidTo
  <2>3. \A j \in 1 .. SaidTo(x, f, g) : Meant(Said(x, j))
    BY <2>1, <2>2
  <2> QED BY <1>3, <1>4, <1>5, <2>3 DEF Onward
<1> QED BY <1>1, <1>2, <1>3, <1>4, <1>6

LEMMA FrontWhole ==
  ASSUME IInv, Within, Full, NEW c \in Clients, ClientStep(c), UNCHANGED serverVars,
         NEW n \in Nat \ {0}, NEW tr, NEW at, NEW ms, NEW got, Joint(tr, n, at, ms, got),
         NEW own, Apart(tr[n], own), Touched(own), Carrying(n, tr[n], at, ms, got, own),
         tr[n] = Local(c), NEW ts, NEW bt, NEW mz,
         Longer(ts, bt, mz, tr, n, at, ms, Local(c), found', Local(c)')
  PROVE  \E oo : /\ Apart(ts[n + 1], oo) /\ Touched(oo)'
                 /\ Carrying(n + 1, ts[n + 1], bt, mz, got, oo)'
<1>0. SeqTypes /\ Dated(c)
  BY DEF Full
<1>1. PICK x, y : x = Local(c) /\ y = Local(c)'
  OBVIOUS
<1>2. PICK f, p : f = found' /\ p = plan'
  OBVIOUS
<1>3. /\ Sound(x) /\ y = After(x, p, f) /\ x.stage \in Stages /\ x.stage # "gone"
      /\ \A g \in Groups : Onward(x, y, f, g, SaidTo(x, f, g))
  BY <1>0, <1>1, <1>2, GoesOnward
<1>4. PICK e : e = <<x.cur, x.outs[x.cur]>>
  OBVIOUS
<1>5. x.stage = "open" => To(x, f) \in Groups /\ e \in Datasets
  BY <1>0, <1>1, <1>2, <1>4, OpensTo
<1>6. PICK oo : oo = [g \in Groups |-> IF x.stage = "open" /\ g = To(x, f)
                                       THEN own[g] \cup {e} ELSE own[g]]
  OBVIOUS
<1>7. Apart(x, own) /\ Touched(own) /\ ts[n + 1] = y /\ tr[n] = x
  BY <1>1 DEF Longer
<1>8. /\ Apart(y, oo) /\ Touched(oo) /\ \A g \in Groups : own[g] \subseteq oo[g]
      /\ x.stage = "open" => /\ status[e] = "none" /\ \A g \in Groups : e \notin own[g]
                             /\ e \in oo[To(x, f)]
  BY <1>3, <1>4, <1>5, <1>6, <1>7, OwnGrows
<1>9. ASSUME NEW g \in Groups PROVE CarriedBy(g, bt[n + 1][g], mz[g], got[g], y, oo[g])'
  <2>1. PICK l \in Nat : l = at[n][g]
    BY JointCounts
  <2>2. PICK k : k = got[g] /\ \A r \in Ranks : k[r] \in 0 .. l
    BY <2>1, JointCounts
  <2>3. PICK m, mm : m = ms[g] /\ mm = mz[g]
    OBVIOUS
  <2>4. CarriedBy(g, l, m, k, x, own[g])
    BY <1>7, <2>1, <2>2, <2>3 DEF Carrying
  <2>5. PICK t \in {0, 1, 2} : t = SaidTo(x, f, g) /\ (t # 0 => g = To(x, f))
    BY CallsIs
  <2>6. /\ bt[n + 1][g] = l + t
        /\ \A j \in 1 .. l : mm[j] = m[j]
        /\ \A j \in 1 .. t : mm[l + j] = Said(x, j)
    BY <1>1, <1>2, <2>1, <2>3, <2>5 DEF Longer
  <2>7. Counted(g, l, k)
    <3>1. ASSUME NEW r \in Ranks, phase[g][r] = "gather" PROVE k[r] > 0
      <4>1. Expects(m, k[r]) = "gather"
        BY <2>2, <2>3, <3>1 DEF Joint, Completed
      <4>2. k[r] # 0 /\ k[r] \in 0 .. l
        BY <2>2, <4>1 DEF Expects
      <4> QED BY <4>2
    <3> QED BY <2>2, <3>1 DEF Counted
  <2>8. Onward(x, y, f, g, t)
    BY <1>3, <2>5
  <2>9. PICK o, q : o = own[g] /\ q = oo[g]
    OBVIOUS
  <2>10. NewData(x, t, o, q)
    <3>1. o \subseteq q
      BY <1>8, <2>9
    <3>2. t # 0 /\ x.stage = "open" => e \in q /\ e \notin o /\ status[e] = "none"
      BY <1>8, <2>5, <2>9
    <3> QED BY <1>4, <3>1, <3>2 DEF NewData
  <2>11. Continues(l, m, mm, x, t)
    BY <2>6 DEF Continues
  <2>12. CarriedBy(g, l, m, k, x, o)
    BY <2>4, <2>9
  <2>13. CarriedBy(g, l + t, mm, k, y, q)
    BY <1>0, <2>7, <2>8, <2>10, <2>11, <2>12, FrontCarried
  <2>14. Untouched(g) /\ RowsKept(g) /\ Leaves(q) /\ Steady(g)
    BY DEF Untouched, RowsKept, Leaves, Steady, serverVars, taskVars, rootVars, diskVars
  <2>15. l + t \in Nat /\ \A r \in Ranks : k[r] = k[r]
    OBVIOUS
  <2>16. CarriedBy(g, l + t, mm, k, y, q)'
    BY <2>13, <2>14, <2>15, CarriedKept
  <2> QED BY <2>2, <2>3, <2>6, <2>9, <2>16
<1>10. Carrying(n + 1, y, bt, mz, got, oo)'
  BY <1>9 DEF Carrying
<1>11. Touched(oo)'
  BY <1>8 DEF Touched, serverVars, diskVars
<1> QED BY <1>7, <1>8, <1>10, <1>11

LEMMA WholeIs ==
  ASSUME Whole
  PROVE  /\ NeverAborts
         /\ \E n \in Nat \ {0} : \E tr, at, ms, got, own :
              /\ Joint(tr, n, at, ms, got) /\ Apart(tr[n], own) /\ Touched(own)
              /\ Carrying(n, tr[n], at, ms, got, own)
BY DEF Whole

\* Steps that change nothing of the servers' tables.
LEMMA CarryingStays ==
  ASSUME NEW n \in Nat \ {0}, NEW tr, NEW at, NEW ms, NEW got, Joint(tr, n, at, ms, got),
         NEW x, NEW own, Carrying(n, x, at, ms, got, own),
         \A g \in Groups : Untouched(g) /\ RowsKept(g) /\ Steady(g), UNCHANGED status
  PROVE  Carrying(n, x, at, ms, got, own)'
<1> SUFFICES ASSUME NEW g \in Groups PROVE CarriedBy(g, at[n][g], ms[g], got[g], x, own[g])'
  BY DEF Carrying
<1>1. at[n][g] \in Nat /\ CarriedBy(g, at[n][g], ms[g], got[g], x, own[g])
  BY JointCounts DEF Carrying
<1>2. Untouched(g) /\ RowsKept(g) /\ Steady(g) /\ Leaves(own[g])
  BY DEF Leaves
<1> QED BY <1>1, <1>2, CarriedKept

LEMMA ClientWhole ==
  ASSUME IInv, IInv', Within, Full, Whole, NEW c \in Clients, ClientStep(c),
         UNCHANGED serverVars
  PROVE  Whole'
<1>0. UNCHANGED <<phase, callReady, want, pieces, lchan, batch, busy, status>>
  BY DEF serverVars, taskVars, rootVars, diskVars
<1>1. \A g \in Groups : Untouched(g) /\ RowsKept(g) /\ Steady(g)
  BY DEF Untouched, RowsKept, Steady, serverVars, taskVars, rootVars
<1>2. NeverAborts'
  BY <1>0, WholeIs DEF NeverAborts
<1>3. PICK n \in Nat \ {0} : \E tr, at, ms, got, own :
         /\ Joint(tr, n, at, ms, got) /\ Apart(tr[n], own) /\ Touched(own)
         /\ Carrying(n, tr[n], at, ms, got, own)
  BY WholeIs
<1>4. PICK tr, at, ms, got, own :
         /\ Joint(tr, n, at, ms, got) /\ Apart(tr[n], own) /\ Touched(own)
         /\ Carrying(n, tr[n], at, ms, got, own)
  BY <1>3
<1>5. PICK i \in 1 .. n :
        /\ tr[i] = Local(c)
        /\ \A g \in Groups : Pending(c, g, at[i][g], ms[g], got[g][ServerOf[c]])
  BY <1>4 DEF Joint, Heard
<1>6. CASE i < n
  <2>1. Joint(tr, n, at, ms, got)'
    BY <1>0, <1>4, <1>5, <1>6, FollowsMatched
  <2>2. Carrying(n, tr[n], at, ms, got, own)'
    BY <1>0, <1>1, <1>4, CarryingStays
  <2>3. Touched(own)'
    BY <1>0, <1>4 DEF Touched
  <2> QED BY <1>2, <1>4, <2>1, <2>2, <2>3 DEF Whole, Apart
<1>7. CASE i = n
  <2>1. PICK ts, bt, mz :
          /\ Longer(ts, bt, mz, tr, n, at, ms, Local(c), found', Local(c)')
          /\ Joint(ts, n + 1, bt, mz, got)'
    BY <1>0, <1>4, <1>5, <1>7, FrontMatched
  <2>2. PICK oo : /\ Apart(ts[n + 1], oo) /\ Touched(oo)'
                  /\ Carrying(n + 1, ts[n + 1], bt, mz, got, oo)'
    BY <1>4, <1>5, <1>7, <2>1, FrontWhole
  <2>3. n + 1 \in Nat \ {0}
    OBVIOUS
  <2> QED BY <1>2, <2>1, <2>2, <2>3 DEF Whole, Apart
<1> QED BY <1>6, <1>7

\* A step of the servers of one group.
Aside(g) == \A h \in Groups : h # g => RowsKept(h) /\ Steady(h)

LEMMA GroupWhole ==
  ASSUME NEW n \in Nat \ {0}, NEW tr, NEW at, NEW ms, NEW got, NEW gat, NEW own,
         NEW g \in Groups,
         Joint(tr, n, at, ms, got), Apart(tr[n], own), Touched(own),
         Carrying(n, tr[n], at, ms, got, own), Joint(tr, n, at, ms, gat)',
         Moves(gat, got, g), Beside(g), Aside(g), Leaves(Datasets \ own[g]),
         CarriedBy(g, at[n][g], ms[g], gat[g], tr[n], own[g])', NeverAborts'
  PROVE  Whole'
<1>1. ASSUME NEW h \in Groups
      PROVE  CarriedBy(h, at[n][h], ms[h], gat[h], tr[n], own[h])'
  <2>1. CASE h = g
    BY <2>1
  <2>2. CASE h # g
    <3>1. at[n][h] \in Nat /\ CarriedBy(h, at[n][h], ms[h], got[h], tr[n], own[h])
      BY JointCounts DEF Carrying
    <3>2. Untouched(h) /\ RowsKept(h) /\ Steady(h)
      BY <2>2 DEF Beside, Aside
    <3>3. \A r \in Ranks : gat[h][r] = got[h][r]
      BY <2>2 DEF Moves
    <3>4. own[h] \subseteq Datasets \ own[g]
      BY <2>2 DEF Apart
    <3>5. Leaves(own[h])
      BY <3>4 DEF Leaves
    <3> QED BY <3>1, <3>2, <3>3, <3>5, CarriedKept
  <2> QED BY <2>1, <2>2
<1>2. Carrying(n, tr[n], at, ms, gat, own)'
  BY <1>1 DEF Carrying
<1>3. Touched(own)'
  <2>1. ASSUME NEW d \in Datasets, status'[d] # "none" PROVE \E h \in Groups : d \in own[h]
    BY <2>1 DEF Touched, Leaves
  <2> QED BY <2>1 DEF Touched
<1>4. Apart(tr[n], own)'
  BY DEF Apart
<1> QED BY <1>2, <1>3, <1>4 DEF Whole

LEMMA ReduceWhole ==
  ASSUME LoopInv, IInv, RootTypes, Full, Whole, NEW g \in Groups, NEW r \in Ranks,
         ServerReduce(g, r)
  PROVE  Whole'
<1>0. SeqTypes /\ NeverAborts
  BY WholeIs DEF Full
<1>1. PICK n \in Nat \ {0} : \E tr, at, ms, got, own :
         /\ Joint(tr, n, at, ms, got) /\ Apart(tr[n], own) /\ Touched(own)
         /\ Carrying(n, tr[n], at, ms, got, own)
  BY WholeIs
<1>2. PICK tr, at, ms, got, own :
         /\ Joint(tr, n, at, ms, got) /\ Apart(tr[n], own) /\ Touched(own)
         /\ Carrying(n, tr[n], at, ms, got, own)
  BY <1>1
<1>3. PICK gat : OneMore(gat, got, g, r) /\ Joint(tr, n, at, ms, gat)'
  BY <1>2, ReduceMatched
<1>4. PICK l \in Nat : l = at[n][g]
  BY <1>2, JointCounts
<1>5. PICK m, k, kk : m = ms[g] /\ k = got[g] /\ kk = gat[g]
  OBVIOUS
<1>6. PICK x, o : x = tr[n] /\ o = own[g]
  OBVIOUS
<1>7. PICK la, ls, f : Carried(g, l, m, k, x, o, la, ls, f)
  BY <1>2, <1>4, <1>5, <1>6 DEF Carrying, CarriedBy
<1>8. /\ Filed(g, l, m, k, la, ls, f) /\ Rooted(g, ls, la[l], f[Root], o)
      /\ Echo(l, m) /\ Awaits(g, m, k) /\ Lawful(ls, la[l], o) /\ Told(g, x, ls, la[l])
  BY <1>7 DEF Carried
<1>9. /\ \A c \in Served(r) : chan[c][g] # <<>> /\ Head(chan[c][g]).kind = "reduce"
      /\ UNCHANGED rootVars /\ UNCHANGED diskVars
      /\ \E w, p : want' = [want EXCEPT ![g][r] = w] /\ phase' = [phase EXCEPT ![g][r] = p]
  BY DEF ServerReduce, Joined
<1>10. PICK s : s = m[k[r] + 1]
  OBVIOUS
<1>11. /\ k[r] \in Nat /\ k[r] + 1 <= l /\ s.size \in Nat \cup {ExitSize}
       /\ \A c \in Served(r) : Fits(c, Head(chan[c][g]), s)
  BY <1>2, <1>4, <1>5, <1>9, <1>10, NextOfScript
<1>12. s.kind = "reduce"
  <2>1. PICK c \in Served(r) : TRUE
    BY RanksOf
  <2> QED BY <1>9, <1>11, <2>1 DEF Fits
<1>13. kk[r] = k[r] + 1 /\ \A q \in Ranks : q # r => kk[q] = k[q]
  BY <1>3, <1>5 DEF OneMore
<1>14. k[r] \in 0 .. l - 1
  BY <1>11
<1>15. Filed(g, l, m, kk, la, ls, f)'
  BY <1>0, <1>8, <1>10, <1>11, <1>12, <1>13, <1>14, ReduceFiled
<1>16. Awaits(g, m, kk)' /\ NeverAborts'
  BY <1>0, <1>8, <1>10, <1>11, <1>12, <1>13, AwaitsReduced
<1>17. \A h \in Groups : RowsKept(h)
  BY <1>9 DEF RowsKept, rootVars
<1>18. \A oo : oo \subseteq Datasets => Leaves(oo)
  BY <1>9 DEF Leaves, diskVars
<1>19. Leaves(o)
  BY <1>2, <1>6, <1>18 DEF Apart
<1>20. Rooted(g, ls, la[l], f[Root], o)'
  BY <1>8, <1>17, <1>19, RootedKept
<1>21. CarriedBy(g, l, m, kk, x, o)'
  <2>1. (Echo(l, m) /\ Lawful(ls, la[l], o) /\ Told(g, x, ls, la[l]))'
    BY <1>8 DEF Echo, Lawful, Told
  <2>2. Carried(g, l, m, kk, x, o, la, ls, f)'
    BY <1>15, <1>16, <1>20, <2>1 DEF Carried
  <2> QED BY <2>2 DEF CarriedBy
<1>22. CarriedBy(g, at[n][g], ms[g], gat[g], tr[n], own[g])'
  BY <1>4, <1>5, <1>6, <1>21
<1>23. Beside(g)
  BY <1>0, Elsewhere DEF Beside
<1>24. Moves(gat, got, g)
  BY <1>3 DEF OneMore, Moves
<1>25. Aside(g)
  <2>1. \A h \in Groups : h # g => phase'[h] = phase[h] /\ want'[h] = want[h]
    BY <1>9 DEF LoopInv, ServersTypeOK, RootTypes
  <2> QED BY <1>17, <2>1 DEF Aside, Steady
<1>26. Leaves(Datasets \ own[g])
  BY <1>18
<1> QED BY <1>2, <1>3, <1>16, <1>22, <1>23, <1>24, <1>25, <1>26, GroupWhole

LEMMA GatherWhole ==
  ASSUME LoopInv, IInv, RootTypes, Full, Whole, NEW g \in Groups, NEW r \in Ranks,
         ServerGather(g, r)
  PROVE  Whole'
<1>0. SeqTypes /\ NeverAborts
  BY WholeIs DEF Full
<1>1. PICK n \in Nat \ {0} : \E tr, at, ms, got, own :
         /\ Joint(tr, n, at, ms, got) /\ Apart(tr[n], own) /\ Touched(own)
         /\ Carrying(n, tr[n], at, ms, got, own)
  BY WholeIs
<1>2. PICK tr, at, ms, got, own :
         /\ Joint(tr, n, at, ms, got) /\ Apart(tr[n], own) /\ Touched(own)
         /\ Carrying(n, tr[n], at, ms, got, own)
  BY <1>1
<1>3. PICK gat : OneMore(gat, got, g, r) /\ Joint(tr, n, at, ms, gat)'
  BY <1>2, GatherMatched
<1>4. PICK l \in Nat : l = at[n][g]
  BY <1>2, JointCounts
<1>5. PICK m, k, kk : m = ms[g] /\ k = got[g] /\ kk = gat[g]
  OBVIOUS
<1>6. PICK x, o : x = tr[n] /\ o = own[g]
  OBVIOUS
<1>7. PICK la, ls, f : Carried(g, l, m, k, x, o, la, ls, f)
  BY <1>2, <1>4, <1>5, <1>6 DEF Carrying, CarriedBy
<1>8. /\ Filed(g, l, m, k, la, ls, f) /\ Rooted(g, ls, la[l], f[Root], o)
      /\ Echo(l, m) /\ Awaits(g, m, k) /\ Lawful(ls, la[l], o) /\ Told(g, x, ls, la[l])
  BY <1>7 DEF Carried
<1>9. /\ \A c \in Served(r) : chan[c][g] # <<>> /\ Head(chan[c][g]).kind = "gather"
      /\ UNCHANGED rootVars /\ UNCHANGED diskVars
      /\ want' = want /\ \E p : phase' = [phase EXCEPT ![g][r] = p]
  BY DEF ServerGather, Joined
<1>10. PICK s : s = m[k[r] + 1]
  OBVIOUS
<1>11. /\ k[r] \in Nat /\ k[r] + 1 <= l
       /\ \A c \in Served(r) : Fits(c, Head(chan[c][g]), s)
  BY <1>2, <1>4, <1>5, <1>9, <1>10, NextOfScript
<1>12. s.kind = "gather"
  <2>1. PICK c \in Served(r) : TRUE
    BY RanksOf
  <2> QED BY <1>9, <1>11, <2>1 DEF Fits
<1>13. kk[r] = k[r] + 1 /\ \A q \in Ranks : q # r => kk[q] = k[q]
  BY <1>3, <1>5 DEF OneMore
<1>14. k[r] \in 0 .. l - 1
  BY <1>11
<1>15. Filed(g, l, m, kk, la, ls, f)'
  <2>1. \A c \in Served(r) : chan[c][g] # <<>> /\ Fits(c, Head(chan[c][g]), s)
    BY <1>9, <1>11
  <2> QED BY <1>0, <1>8, <1>10, <1>12, <1>13, <1>14, <2>1, GatherFiled
<1>16. Awaits(g, m, kk)' /\ NeverAborts'
  <2>1. \A c \in Served(r) : chan[c][g] # <<>> /\ Fits(c, Head(chan[c][g]), s)
    BY <1>9, <1>11
  <2>2. Meant(s)
    <3>1. PICK j \in 0 .. l - 1 : j = k[r]
      BY <1>14
    <3>2. Meant(m[j + 1])
      BY <1>8, ChartAt DEF Filed
    <3> QED BY <1>10, <3>1, <3>2
  <2>3. s.size \in Nat
    BY <1>12, <2>2, GatherItems
  <2> QED BY <1>0, <1>8, <1>10, <1>12, <1>13, <1>14, <2>1, <2>3, GatherComplete
<1>17. \A h \in Groups : RowsKept(h)
  BY <1>9 DEF RowsKept, rootVars
<1>18. \A oo : oo \subseteq Datasets => Leaves(oo)
  BY <1>9 DEF Leaves, diskVars
<1>19. Leaves(o)
  BY <1>2, <1>6, <1>18 DEF Apart
<1>20. Rooted(g, ls, la[l], f[Root], o)'
  BY <1>8, <1>17, <1>19, RootedKept
<1>21. CarriedBy(g, l, m, kk, x, o)'
  <2>1. (Echo(l, m) /\ Lawful(ls, la[l], o) /\ Told(g, x, ls, la[l]))'
    BY <1>8 DEF Echo, Lawful, Told
  <2>2. Carried(g, l, m, kk, x, o, la, ls, f)'
    BY <1>15, <1>16, <1>20, <2>1 DEF Carried
  <2> QED BY <2>2 DEF CarriedBy
<1>22. CarriedBy(g, at[n][g], ms[g], gat[g], tr[n], own[g])'
  BY <1>4, <1>5, <1>6, <1>21
<1>23. Beside(g)
  BY <1>0, Elsewhere DEF Beside
<1>24. Moves(gat, got, g)
  BY <1>3 DEF OneMore, Moves
<1>25. Aside(g)
  <2>1. \A h \in Groups : h # g => phase'[h] = phase[h] /\ want'[h] = want[h]
    BY <1>9 DEF LoopInv, ServersTypeOK, RootTypes
  <2> QED BY <1>17, <2>1 DEF Aside, Steady
<1>26. Leaves(Datasets \ own[g])
  BY <1>18
<1> QED BY <1>2, <1>3, <1>16, <1>22, <1>23, <1>24, <1>25, <1>26, GroupWhole

LEMMA ForwardWhole ==
  ASSUME LoopInv, IInv, RootTypes, Full, Whole, NEW g \in Groups, NEW r \in Others,
         Forward(g, r)
  PROVE  Whole'
<1>0. SeqTypes /\ NeverAborts /\ r \in Ranks
  BY WholeIs, OthersOf DEF Full
<1>1. PICK n \in Nat \ {0} : \E tr, at, ms, got, own :
         /\ Joint(tr, n, at, ms, got) /\ Apart(tr[n], own) /\ Touched(own)
         /\ Carrying(n, tr[n], at, ms, got, own)
  BY WholeIs
<1>2. PICK tr, at, ms, got, own :
         /\ Joint(tr, n, at, ms, got) /\ Apart(tr[n], own) /\ Touched(own)
         /\ Carrying(n, tr[n], at, ms, got, own)
  BY <1>1
<1>3. Joint(tr, n, at, ms, got)'
  <2>1. GroupStep
    BY ForwardLoop
  <2> QED BY <1>2, <2>1, StepsWithin
<1>4. PICK l \in Nat : l = at[n][g]
  BY <1>2, JointCounts
<1>5. PICK m, k : m = ms[g] /\ k = got[g]
  OBVIOUS
<1>6. PICK x, o : x = tr[n] /\ o = own[g]
  OBVIOUS
<1>7. PICK la, ls, f : Carried(g, l, m, k, x, o, la, ls, f)
  BY <1>2, <1>4, <1>5, <1>6 DEF Carrying, CarriedBy
<1>8. /\ Filed(g, l, m, k, la, ls, f) /\ Rooted(g, ls, la[l], f[Root], o)
      /\ Echo(l, m) /\ Awaits(g, m, k) /\ Lawful(ls, la[l], o) /\ Told(g, x, ls, la[l])
  BY <1>7 DEF Carried
<1>9. UNCHANGED rootVars /\ UNCHANGED diskVars /\ want' = want
  BY DEF Forward
<1>10. k[r] \in 0 .. l
  BY <1>0, <1>2, <1>4, <1>5, JointCounts
<1>11. PICK ff : ff[Root] = f[Root] /\ Filed(g, l, m, k, la, ls, ff)'
  BY <1>0, <1>8, <1>10, ForwardFiled
<1>12. \A h \in Groups, q \in Ranks :
         phase'[h][q] = phase[h][q] \/ phase'[h][q] \in {"ready", "reduce"}
  <2>1. PICK p : p = LoopTop(g, r) /\ p \in {"ready", "reduce"}
    BY DEF LoopTop
  <2>2. phase' = phase \/ phase' = [phase EXCEPT ![g][r] = p]
    BY <2>1 DEF Forward
  <2> QED BY <2>1, <2>2 DEF LoopInv, ServersTypeOK
<1>13. NeverAborts'
  BY <1>0, <1>12 DEF NeverAborts
<1>14. \A h \in Groups : Steady(h)
  BY <1>9, <1>12 DEF Steady
<1>15. Awaits(g, m, k)'
  BY <1>8, <1>14, AwaitsKept DEF Steady
<1>16. \A h \in Groups : RowsKept(h)
  BY <1>9 DEF RowsKept, rootVars
<1>17. \A oo : oo \subseteq Datasets => Leaves(oo)
  BY <1>9 DEF Leaves, diskVars
<1>18. Leaves(o)
  BY <1>2, <1>6, <1>17 DEF Apart
<1>19. Rooted(g, ls, la[l], ff[Root], o)'
  <2>1. Rooted(g, ls, la[l], f[Root], o)'
    BY <1>8, <1>16, <1>18, RootedKept
  <2> QED BY <1>11, <2>1
<1>20. CarriedBy(g, l, m, k, x, o)'
  <2>1. (Echo(l, m) /\ Lawful(ls, la[l], o) /\ Told(g, x, ls, la[l]))'
    BY <1>8 DEF Echo, Lawful, Told
  <2>2. Carried(g, l, m, k, x, o, la, ls, ff)'
    BY <1>11, <1>15, <1>19, <2>1 DEF Carried
  <2> QED BY <2>2 DEF CarriedBy
<1>21. CarriedBy(g, at[n][g], ms[g], got[g], tr[n], own[g])'
  BY <1>4, <1>5, <1>6, <1>20
<1>22. Beside(g)
  BY <1>0, Elsewhere DEF Beside
<1>23. Moves(got, got, g)
  BY DEF Moves
<1>24. Aside(g)
  BY <1>14, <1>16 DEF Aside
<1>25. Leaves(Datasets \ own[g])
  BY <1>17
<1> QED BY <1>2, <1>3, <1>13, <1>21, <1>22, <1>23, <1>24, <1>25, GroupWhole

LEMMA RootWhole ==
  ASSUME LoopInv, IInv, RootTypes, Full, Whole, NEW g \in Groups, RootStep(g)
  PROVE  Whole'
<1>0. SeqTypes /\ NeverAborts /\ Root \in Ranks
  BY WholeIs, RanksOf DEF Full
<1>1. PICK n \in Nat \ {0} : \E tr, at, ms, got, own :
         /\ Joint(tr, n, at, ms, got) /\ Apart(tr[n], own) /\ Touched(own)
         /\ Carrying(n, tr[n], at, ms, got, own)
  BY WholeIs
<1>2. PICK tr, at, ms, got, own :
         /\ Joint(tr, n, at, ms, got) /\ Apart(tr[n], own) /\ Touched(own)
         /\ Carrying(n, tr[n], at, ms, got, own)
  BY <1>1
<1>3. Joint(tr, n, at, ms, got)'
  <2>1. GroupStep
    BY RootLoop
  <2> QED BY <1>2, <2>1, StepsWithin
<1>4. PICK l \in Nat : l = at[n][g]
  BY <1>2, JointCounts
<1>5. PICK m, k : m = ms[g] /\ k = got[g]
  OBVIOUS
<1>6. PICK x, o : x = tr[n] /\ o = own[g]
  OBVIOUS
<1>7. PICK la, ls, f : Carried(g, l, m, k, x, o, la, ls, f)
  BY <1>2, <1>4, <1>5, <1>6 DEF Carrying, CarriedBy
<1>8. /\ Filed(g, l, m, k, la, ls, f) /\ Rooted(g, ls, la[l], f[Root], o)
      /\ Echo(l, m) /\ Awaits(g, m, k) /\ Lawful(ls, la[l], o) /\ Told(g, x, ls, la[l])
  BY <1>7 DEF Carried
<1>9. k[Root] \in 0 .. l
  BY <1>0, <1>2, <1>4, <1>5, JointCounts
<1>10. PICK e, a : e = f[Root] /\ a = la[l]
  OBVIOUS
<1>11. ~busy[g] => Arrives(g, ls, e + 1)
  BY <1>0, <1>8, <1>9, <1>10, RootFiled
<1>12. PICK ee : ee = IF busy[g] THEN e ELSE e + 1
  OBVIOUS
<1>13. PICK ff : ff[Root] = ee /\ Filed(g, l, m, k, la, ls, ff)'
  BY <1>0, <1>8, <1>9, <1>10, <1>12, RootFiled
<1>14. Posed(g, ls, a, e, o) /\ Rooted(g, ls, a, e, o)
  <2>1. /\ la[l] \in Nat /\ f[Root] \in Nat /\ f[Root] <= la[l] /\ Batched(g, ls, f[Root])
    BY <1>0, <1>8, FiledIs
  <2>2. o \subseteq Datasets
    BY <1>2, <1>6 DEF Apart
  <2> QED BY <1>8, <1>10, <2>1, <2>2 DEF Posed
<1>15. Rooted(g, ls, a, ee, o)'
  BY <1>11, <1>12, <1>14, RootRooted
<1>16. NeverAborts'
  BY <1>0, <1>14, RootNeverStops
<1>17. Leaves(Datasets \ o)
  BY <1>14, RootLeaves
<1>18. want' = want /\ \A h \in Groups, q \in Ranks :
         phase'[h][q] = phase[h][q] \/ phase'[h][q] \in {"ready", "reduce", "aborted"}
  <2>1. PICK p : p = LoopTop(g, Root) /\ p \in {"ready", "reduce"}
    BY DEF LoopTop
  <2>2. want' = want
    BY DEF RootStep, RootCollect, RootDone, HandleNoop, HandleMeta, HandleOpen, HandleCommit,
           HandleField, HandleClose, FinishBatch, taskVars
  <2>3. \/ phase' = phase \/ phase' = [phase EXCEPT ![g][Root] = p]
        \/ phase' = [phase EXCEPT ![g][Root] = "aborted"]
    BY <2>1 DEF RootStep, RootCollect, RootDone, HandleNoop, HandleMeta, HandleOpen,
                HandleCommit, HandleField, HandleClose, FinishBatch, taskVars
  <2> QED BY <2>1, <2>2, <2>3 DEF LoopInv, ServersTypeOK
<1>19. \A h \in Groups : Steady(h)
  BY <1>18 DEF Steady
<1>20. Awaits(g, m, k)'
  BY <1>8, <1>19, AwaitsKept DEF Steady
<1>21. CarriedBy(g, l, m, k, x, o)'
  <2>1. (Echo(l, m) /\ Lawful(ls, la[l], o) /\ Told(g, x, ls, la[l]))'
    BY <1>8 DEF Echo, Lawful, Told
  <2>2. Rooted(g, ls, la[l], ff[Root], o)'
    BY <1>10, <1>13, <1>15
  <2>3. Carried(g, l, m, k, x, o, la, ls, ff)'
    BY <1>13, <1>20, <2>1, <2>2 DEF Carried
  <2> QED BY <2>3 DEF CarriedBy
<1>22. CarriedBy(g, at[n][g], ms[g], got[g], tr[n], own[g])'
  BY <1>4, <1>5, <1>6, <1>21
<1>23. Beside(g)
  BY <1>0, Elsewhere DEF Beside
<1>24. Moves(got, got, g)
  BY DEF Moves
<1>25. Aside(g)
  BY <1>0, <1>19, RootRows DEF Aside
<1>26. Leaves(Datasets \ own[g])
  BY <1>6, <1>17
<1> QED BY <1>2, <1>3, <1>16, <1>22, <1>23, <1>24, <1>25, <1>26, GroupWhole

\* Steps that no record is moved by.
LEMMA PollWhole ==
  ASSUME LoopInv, IInv, Whole, (\E g \in Groups : PollStep(g)) \/ UNCHANGED vars
  PROVE  Whole'
<1>1. PICK n \in Nat \ {0} : \E tr, at, ms, got, own :
         /\ Joint(tr, n, at, ms, got) /\ Apart(tr[n], own) /\ Touched(own)
         /\ Carrying(n, tr[n], at, ms, got, own)
  BY WholeIs
<1>2. PICK tr, at, ms, got, own :
         /\ Joint(tr, n, at, ms, got) /\ Apart(tr[n], own) /\ Touched(own)
         /\ Carrying(n, tr[n], at, ms, got, own)
  BY <1>1
<1>3. Joint(tr, n, at, ms, got)'
  <2>1. CASE UNCHANGED vars
    BY <1>2, <2>1, StepsWithin
  <2>2. ASSUME NEW g \in Groups, PollStep(g) PROVE Joint(tr, n, at, ms, got)'
    BY <1>2, <2>2, OfferMatched, FoundMatched DEF PollStep
  <2> QED BY <2>1, <2>2
<1>4. UNCHANGED <<want, rootVars, status>> /\ \A h \in Groups : Untouched(h)
  <2>1. CASE UNCHANGED vars
    <3>1. UNCHANGED <<want, rootVars, status, pieces, lchan, batch, busy, phase>>
      BY <2>1 DEF vars, serverVars, taskVars, rootVars, diskVars
    <3> QED BY <3>1 DEF Untouched
  <2>2. ASSUME NEW g \in Groups, PollStep(g)
        PROVE  UNCHANGED <<want, rootVars, status>> /\ \A h \in Groups : Untouched(h)
    <3>1. UNCHANGED <<want, rootVars, diskVars>>
      BY <2>2 DEF PollStep, OfferGroup, GroupFound
    <3> QED BY <2>2, <3>1, PollElsewhere DEF diskVars
  <2> QED BY <2>1, <2>2
<1>5. \A h \in Groups, q \in Ranks :
        phase'[h][q] = phase[h][q] \/ phase'[h][q] \in {"offering", "reduce"}
  <2>1. CASE UNCHANGED vars
    BY <2>1 DEF vars, serverVars, taskVars
  <2>2. ASSUME NEW g \in Groups, PollStep(g)
        PROVE  \A h \in Groups, q \in Ranks :
                 phase'[h][q] = phase[h][q] \/ phase'[h][q] \in {"offering", "reduce"}
    <3>1. \E p \in {"offering", "reduce"} : phase' = [phase EXCEPT ![g] = [r \in Ranks |-> p]]
      BY <2>2 DEF PollStep, OfferGroup, GroupFound
    <3> QED BY <3>1 DEF LoopInv, ServersTypeOK
  <2> QED BY <2>1, <2>2
<1>6. \A h \in Groups : Untouched(h) /\ RowsKept(h) /\ Steady(h)
  <2>1. \A h \in Groups : RowsKept(h)
    BY <1>4 DEF RowsKept, rootVars
  <2>2. \A h \in Groups : Steady(h)
    BY <1>4, <1>5 DEF Steady
  <2> QED BY <1>4, <2>1, <2>2
<1>7. Carrying(n, tr[n], at, ms, got, own)'
  BY <1>2, <1>4, <1>6, CarryingStays
<1>8. Touched(own)' /\ Apart(tr[n], own)'
  BY <1>2, <1>4 DEF Touched, Apart
<1>9. NeverAborts'
  BY <1>5, WholeIs DEF NeverAborts
<1> QED BY <1>3, <1>7, <1>8, <1>9 DEF Whole

LEMMA NextWhole ==
  ASSUME LoopInv, IInv, IInv', Within, RootTypes, Full, Whole, [Next]_vars
  PROVE  Whole'
<1>1. ASSUME NEW c \in Clients, ClientStep(c), UNCHANGED serverVars PROVE Whole'
  BY <1>1, ClientWhole
<1>2. ASSUME NEW g \in Groups, PollStep(g) PROVE Whole'
  BY <1>2, PollWhole
<1>3. ASSUME NEW g \in Groups, NEW r \in Ranks, ServerStep(g, r) PROVE Whole'
  <2>1. CASE ServerReduce(g, r)
    BY <2>1, ReduceWhole
  <2>2. CASE ServerGather(g, r)
    BY <2>2, GatherWhole
  <2>3. CASE r \in Others /\ Forward(g, r)
    BY <2>3, ForwardWhole
  <2>4. CASE r = Root /\ RootStep(g)
    BY <2>4, RootWhole
  <2> QED BY <1>3, <2>1, <2>2, <2>3, <2>4 DEF ServerStep
<1>4. CASE UNCHANGED vars
  BY <1>4, PollWhole
<1> QED BY <1>1, <1>2, <1>3, <1>4 DEF Next, ServersNext, Over

\* The beginning: no group has been asked anything.
LEMMA InitCarried ==
  ASSUME QuiltInit, NEW g \in Groups, NEW m, NEW k, FiledBy(g, 0, m, k), NEW x,
         \A h \in Handles : x.server[h] = 0
  PROVE  CarriedBy(g, 0, m, k, x, {})
<1>1. PICK la, ls, f : Filed(g, 0, m, k, la, ls, f)
  BY DEF FiledBy
<1>2. la[0] = 0 /\ f[Root] = 0
  <2>1. la[0] = 0 /\ f[Root] \in Nat /\ f[Root] <= la[0]
    BY <1>1, RanksOf DEF Filed, Charted
  <2> QED BY <2>1
<1>3. /\ ~busy[g] /\ outbuf[g] = {} /\ \A h \in Handles : file[g][h] = NoFile /\ ~rokc[g][h]
      /\ \A r \in Ranks : phase[g][r] # "gather"
  BY ClientConstants DEF QuiltInit, Handles
<1>4. \A h, t : ~LastOf(ls, 0, h, t)
  BY DEF LastOf
<1>5. Rooted(g, ls, 0, 0, {})
  <2>1. Owned(g, {}) /\ Unopened(g, ls, 0, 0)
    BY <1>3 DEF Owned, Unopened
  <2>2. AtRest(g, ls, 0)
    BY <1>3, <1>4 DEF AtRest, Shown
  <2> QED BY <1>3, <2>1, <2>2 DEF Rooted
<1>6. Echo(0, m) /\ Awaits(g, m, k) /\ Lawful(ls, 0, {})
  BY <1>3 DEF Echo, Awaits, Lawful
<1>7. Told(g, x, ls, 0)
  BY ClientConstants DEF Told, Groups
<1>8. Carried(g, 0, m, k, x, {}, la, ls, f)
  BY <1>1, <1>2, <1>5, <1>6, <1>7 DEF Carried
<1> QED BY <1>8 DEF CarriedBy

LEMMA InitWhole ==
  ASSUME QuiltInit
  PROVE  Whole
<1>1. PICK tr, at, ms, got :
        /\ Joint(tr, 1, at, ms, got)
        /\ \A g \in Groups : at[1][g] = 0 /\ \A r \in Ranks : got[g][r] = 0
  BY InitJoint
<1>2. PICK x : x = tr[1]
  OBVIOUS
<1>3. \A h \in Handles : x.server[h] = 0
  <2>1. PICK i \in 1 .. 1 : tr[i] = Local(Monitor)
    BY <1>1, RanksOf, ClientConstants DEF Joint, Heard, Monitor, Clients
  <2>2. x = Local(Monitor) /\ Monitor \in Clients
    BY <1>2, <2>1, ClientConstants DEF Monitor, Clients
  <2>3. x.server = server[Monitor]
    BY <2>2, LocalIs
  <2> QED BY <2>2, <2>3 DEF QuiltInit, Init
<1>4. PICK own : own = [g \in Groups |-> {}]
  OBVIOUS
<1>5. ASSUME NEW g \in Groups PROVE CarriedBy(g, at[1][g], ms[g], got[g], x, own[g])
  <2>1. PICK m, k : m = ms[g] /\ k = got[g]
    OBVIOUS
  <2>2. FiledBy(g, 0, m, k)
    BY <1>1, <2>1, InitFiled
  <2>3. CarriedBy(g, 0, m, k, x, {})
    BY <1>3, <2>2, InitCarried
  <2> QED BY <1>1, <1>4, <2>1, <2>3
<1>6. Carrying(1, x, at, ms, got, own)
  BY <1>5 DEF Carrying
<1>7. Apart(x, own)
  BY <1>4 DEF Apart
<1>8. Touched(own)
  BY DEF Touched, QuiltInit
<1>9. NeverAborts
  BY DEF NeverAborts, QuiltInit
<1> QED BY <1>1, <1>2, <1>6, <1>7, <1>8, <1>9 DEF Whole

LEMMA WholeHolds == QuiltSpec => []Whole
<1>1. QuiltInit => Agree /\ RootTypes /\ Whole
  BY InitAgree, InitTypes, InitWhole DEF QuiltInit
<1>2. LoopInv /\ IInv /\ IInv' /\ Agree /\ RootTypes /\ Full /\ Whole /\ [Next]_vars
        => Agree' /\ RootTypes' /\ Whole'
  <2> SUFFICES ASSUME LoopInv, IInv, IInv', Agree, RootTypes, Full, Whole, [Next]_vars
               PROVE  Agree' /\ RootTypes' /\ Whole'
    OBVIOUS
  <2>1. [ClientNext]_clientVars
    BY StepMaps
  <2>2. Agree'
    BY <2>1, StepAgrees
  <2>3. Within
    BY DEF Agree
  <2>4. RootTypes'
    BY NextTypes
  <2> QED BY <2>2, <2>3, <2>4, NextWhole
<1> QED BY <1>1, <1>2, FullHolds, LoopInvHolds, PTL DEF QuiltSpec

\* No server stops the run, whatever the calls and however the steps of clients and
\* servers interleave: the sizes announced are the sizes sent, their sum is never
\* taken for another signal, the root takes for training just what the clients do,
\* and no field of another date is left in its buffer.
THEOREM NoServerAborts == QuiltSpec => []NeverAborts
<1>1. Whole => NeverAborts
  BY WholeIs
<1> QED BY <1>1, WholeHolds, PTL

=============================================================================
