----------------------------- MODULE QuiltProofs -----------------------------
(***************************************************************************)
(* Proofs about the I/O servers (1): QuiltSetup, QuiltClient, and Quilt as *)
(* far as its channels go, for any number of tasks, clients, servers,      *)
(* groups, handles, streams and fields.                                    *)
(*                                                                         *)
(* The division of the tasks (QuiltSetup): every collective of the client  *)
(* and server halves finds the tasks it takes for granted.                 *)
(*                                                                         *)
(* The compute tasks (QuiltClient): their tables keep their types, and the *)
(* handle, training and buffer rules hold in every state.  The rules of    *)
(* one client do not depend on the others, so the inductive invariant is   *)
(* stated client by client; a step of one client, and every step of the    *)
(* servers, leaves the other clients' part as it was.                      *)
(*                                                                         *)
(* The servers (Quilt): they do to the clients' variables only what        *)
(* QuiltClient allows, and the collectives of the two halves match.        *)
(***************************************************************************)
EXTENDS QuiltSetup, Quilt, SequenceTheorems, FiniteSetTheorems, SumLemmas, TLAPS

-----------------------------------------------------------------------------
(***************************************************************************)
(* The division of the tasks.                                              *)
(***************************************************************************)

(* Arithmetic *)

LEMMA Division ==
  ASSUME NEW x \in Int, NEW d \in Nat \ {0}
  PROVE  /\ x \div d \in Int
         /\ x % d \in 0 .. d - 1
         /\ x = d * (x \div d) + (x % d)
<1>1. x \div d \in Int /\ x % d \in 0 .. d - 1
  OBVIOUS
<1>2. x = d * (x \div d) + (x % d)
  OBVIOUS
<1> QED BY <1>1, <1>2

LEMMA Times ==
  ASSUME NEW p \in Int, NEW q \in Int, p <= q, NEW d \in Nat
  PROVE  d * p <= d * q
OBVIOUS

\* Bounds of a number bound its quotient.
LEMMA QuotientBounds ==
  ASSUME NEW x \in Int, NEW d \in Nat \ {0}, NEW lo \in Int, NEW hi \in Int,
         d * lo <= x, x < d * hi
  PROVE  x \div d \in lo .. hi - 1
<1> DEFINE y == x \div d
<1>1. y \in Int /\ d * y <= x /\ x < d * y + d
  BY Division
<1> HIDE DEF y
<1>2. ASSUME y < lo PROVE FALSE
  <2>1. d * (y + 1) <= d * lo
    BY <1>1, <1>2, Times
  <2> QED BY <2>1, <1>1
<1>3. ASSUME hi <= y PROVE FALSE
  <2>1. d * hi <= d * y
    BY <1>1, <1>3, Times
  <2> QED BY <2>1, <1>1
<1>4. y \in lo .. hi - 1
  BY <1>1, <1>2, <1>3
<1> QED BY <1>4 DEF y

-----------------------------------------------------------------------------
(* Rows of the mesh *)

\* The remainder is handed out a row at a time to the first servers.
LEMMA RowsShared ==
  ASSUME NEW rows \in Nat \ {0}, NEW n \in 1 .. rows
  PROVE  /\ rows \div n \in Nat \ {0} /\ rows % n \in 0 .. n - 1
         /\ rows = n * (rows \div n) + (rows % n)
<1> DEFINE q == rows \div n
           r == rows % n
<1>1. q \in Int /\ r \in 0 .. n - 1 /\ rows = n * q + r
  BY Division
<1> HIDE DEF q, r
<1>2. q \in Nat \ {0}
  <2>1. ASSUME q <= 0 PROVE FALSE
    <3>1. n * q <= n * 0
      BY <1>1, <2>1, Times
    <3> QED BY <3>1, <1>1
  <2> QED BY <1>1, <2>1
<1> QED BY <1>1, <1>2 DEF q, r

LEMMA RowsBeforeIs ==
  ASSUME NEW rows \in Nat \ {0}, NEW n \in 1 .. rows, NEW k \in Nat
  PROVE  /\ RowsBefore(k, rows, n) \in Nat
         /\ k <= rows % n => RowsBefore(k, rows, n) = (rows \div n) * k + k
         /\ rows % n <= k => RowsBefore(k, rows, n) = (rows \div n) * k + (rows % n)
<1> DEFINE q == rows \div n
           r == rows % n
<1>0. q \in Nat /\ r \in Nat
  BY RowsShared
<1> DEFINE s == Smaller(k, r)
<1>1. RowsBefore(k, rows, n) = k * q + s
  BY DEF RowsBefore
<1> HIDE DEF q, r
<1>2. k * q = q * k /\ q * k \in Nat
  BY <1>0
<1>3. (k <= r => s = k) /\ (r <= k => s = r) /\ s \in Nat
  BY <1>0 DEF Smaller
<1> HIDE DEF s
<1> QED BY <1>0, <1>1, <1>2, <1>3 DEF q, r

\* The rows are shared out until they are gone, and every server gets one.
LEMMA RowsGone ==
  ASSUME NEW rows \in Nat \ {0}, NEW n \in 1 .. rows
  PROVE  /\ RowsBefore(0, rows, n) = 0
         /\ RowsBefore(n, rows, n) = rows
         /\ \A k \in 0 .. n : RowsBefore(k, rows, n) \in 0 .. rows
         /\ \A k \in 0 .. n - 1 : RowsBefore(k, rows, n) < RowsBefore(k + 1, rows, n)
         /\ \A k \in 0 .. n, l \in 0 .. n :
               k <= l => RowsBefore(k, rows, n) <= RowsBefore(l, rows, n)
<1> DEFINE q == rows \div n
           r == rows % n
           R(k) == RowsBefore(k, rows, n)
<1>1. q \in Nat \ {0} /\ r \in 0 .. n - 1 /\ rows = n * q + r
  BY RowsShared
<1>2. ASSUME NEW k \in Nat
      PROVE  /\ R(k) \in Nat
             /\ k <= r => R(k) = q * k + k
             /\ r <= k => R(k) = q * k + r
  BY RowsBeforeIs, Zenon
<1> HIDE DEF q, r, R
<1>3. R(0) = 0
  <2>1. R(0) = q * 0 + 0
    BY <1>1, <1>2
  <2> QED BY <1>1, <2>1
<1>4. R(n) = rows
  <2>1. R(n) = q * n + r
    <3>1. n \in Nat /\ r <= n
      BY <1>1
    <3> QED BY <3>1, <1>2
  <2>2. q * n = n * q
    BY <1>1
  <2> QED BY <1>1, <2>1, <2>2
<1>5. ASSUME NEW k \in 0 .. n, NEW l \in 0 .. n, k <= l
      PROVE  R(k) <= R(l)
  <2>1. q * k <= q * l
    BY <1>1, <1>5, Times
  <2>2. q * k \in Int /\ q * l \in Int /\ r \in Int
    BY <1>1
  <2>3. /\ k <= r => R(k) = q * k + k
        /\ r <= k => R(k) = q * k + r
        /\ l <= r => R(l) = q * l + l
        /\ r <= l => R(l) = q * l + r
    BY <1>2
  <2> QED BY <1>5, <2>1, <2>2, <2>3
<1>6. ASSUME NEW k \in 0 .. n - 1
      PROVE  R(k) < R(k + 1)
  <2>1. q * (k + 1) = q * k + q /\ q * k \in Int
    BY <1>1
  <2>2. k \in Nat /\ k + 1 \in Nat /\ r \in Nat /\ q \in Nat \ {0}
    BY <1>1
  <2>3. /\ k <= r => R(k) = q * k + k
        /\ r <= k => R(k) = q * k + r
        /\ k + 1 <= r => R(k + 1) = q * (k + 1) + (k + 1)
        /\ r <= k + 1 => R(k + 1) = q * (k + 1) + r
    BY <1>2, <2>2
  <2> QED BY <2>1, <2>2, <2>3
<1>7. ASSUME NEW k \in 0 .. n PROVE R(k) \in 0 .. rows
  <2>1. R(k) \in Nat
    BY <1>2
  <2>2. R(k) <= R(n)
    BY <1>5
  <2> QED BY <1>4, <2>1, <2>2
<1> QED BY <1>3, <1>4, <1>5, <1>6, <1>7 DEF R

\* Every row has a server.
LEMMA RowIsServed ==
  ASSUME NEW rows \in Nat \ {0}, NEW n \in 1 .. rows, NEW y \in 0 .. rows - 1
  PROVE  \E k \in 0 .. n - 1 :
           RowsBefore(k, rows, n) <= y /\ y < RowsBefore(k + 1, rows, n)
<1> DEFINE q == rows \div n
           r == rows % n
           R(k) == RowsBefore(k, rows, n)
<1> SUFFICES \E k \in 0 .. n - 1 : R(k) <= y /\ y < R(k + 1)
  OBVIOUS
<1>1. q \in Nat \ {0} /\ r \in 0 .. n - 1 /\ rows = n * q + r
  BY RowsShared
<1>2. ASSUME NEW k \in Nat
      PROVE  /\ k <= r => R(k) = q * k + k
             /\ r <= k => R(k) = q * k + r
  BY RowsBeforeIs, Zenon
<1> HIDE DEF q, r, R
<1>3. ASSUME y < (q + 1) * r
      PROVE  \E k \in 0 .. n - 1 : R(k) <= y /\ y < R(k + 1)
  <2>1. PICK d \in Nat \ {0} : d = q + 1
    BY <1>1
  <2> DEFINE k == y \div d
  <2>2. k \in 0 .. r - 1
    <3>1. d * 0 <= y /\ y < d * r /\ y \in Int /\ 0 \in Int /\ r \in Int
      BY <1>1, <1>3, <2>1
    <3> HIDE DEF k
    <3> QED BY <3>1, QuotientBounds DEF k
  <2>3. d * k <= y /\ y < d * k + d
    <3>1. k \in Int /\ y % d \in 0 .. d - 1 /\ y = d * k + (y % d)
      BY Division
    <3> HIDE DEF k
    <3> QED BY <3>1
  <2> HIDE DEF k
  <2>4. k \in Nat /\ k + 1 \in Nat /\ k <= r /\ k + 1 <= r
    BY <1>1, <2>2
  <2>5. R(k) = q * k + k /\ R(k + 1) = q * (k + 1) + (k + 1)
    BY <1>2, <2>4
  <2>6. d * k = q * k + k /\ q * (k + 1) = q * k + q /\ q * k \in Int
    BY <1>1, <2>1, <2>4
  <2>7. R(k) <= y /\ y < R(k + 1)
    BY <1>1, <2>1, <2>3, <2>4, <2>5, <2>6
  <2>8. k \in 0 .. n - 1
    BY <1>1, <2>2
  <2> QED BY <2>7, <2>8
<1>4. ASSUME (q + 1) * r <= y
      PROVE  \E k \in 0 .. n - 1 : R(k) <= y /\ y < R(k + 1)
  <2>1. PICK z \in Int : z = y - r
    BY <1>1
  <2> DEFINE k == z \div q
  <2>2. q * r <= z /\ z < q * n
    <3>1. (q + 1) * r = q * r + r /\ q * r \in Int /\ n * q = q * n /\ q * n \in Int
      BY <1>1
    <3> QED BY <1>1, <1>4, <2>1, <3>1
  <2>3. k \in r .. n - 1
    <3>1. r \in Int /\ n \in Int
      BY <1>1
    <3> HIDE DEF k
    <3> QED BY <1>1, <2>2, <3>1, QuotientBounds DEF k
  <2>4. q * k <= z /\ z < q * k + q
    <3>1. k \in Int /\ z % q \in 0 .. q - 1 /\ z = q * k + (z % q)
      BY <1>1, Division
    <3> HIDE DEF k
    <3> QED BY <1>1, <3>1
  <2> HIDE DEF k
  <2>5. k \in Nat /\ k + 1 \in Nat /\ r <= k /\ r <= k + 1
    BY <1>1, <2>3
  <2>6. R(k) = q * k + r /\ R(k + 1) = q * (k + 1) + r
    BY <1>2, <2>5
  <2>7. q * (k + 1) = q * k + q /\ q * k \in Int
    BY <1>1, <2>5
  <2>8. R(k) <= y /\ y < R(k + 1)
    BY <1>1, <2>1, <2>4, <2>6, <2>7
  <2>9. k \in 0 .. n - 1
    BY <1>1, <2>3
  <2> QED BY <2>8, <2>9
<1> QED
  <2>1. (q + 1) * r \in Int
    BY <1>1
  <2> QED BY <1>3, <1>4, <2>1

-----------------------------------------------------------------------------
(* The mesh *)

\* The least number of a set.
LEMMA LeastNumber ==
  ASSUME NEW T, T \subseteq Nat, T # {}
  PROVE  \E x \in T : \A y \in T : x <= y
<1>1. PICK x \in T : \A y \in T : ~(<<y, x>> \in OpToRel(<, Nat))
  BY NatLessThanWellFounded, WFMin
<1>2. ASSUME NEW y \in T PROVE x <= y
  <2>1. x \in Nat /\ y \in Nat
    OBVIOUS
  <2>2. y < x => <<y, x>> \in OpToRel(<, Nat)
    BY <2>1 DEF OpToRel
  <2>3. ~(y < x)
    BY <1>1, <2>2, Zenon
  <2> QED BY <2>1, <2>3
<1> QED BY <1>2

\* The search of MPASPECT finds a mesh of all compute tasks.
LEMMA SquarestMeshIsAMesh ==
  ASSUME NEW p \in Nat \ {0}
  PROVE  /\ SquarestMesh(p)[1] \in Nat \ {0} /\ SquarestMesh(p)[2] \in Nat \ {0}
         /\ SquarestMesh(p)[1] * SquarestMesh(p)[2] = p
<1> DEFINE gap(m) == IF m >= p \div m THEN m - p \div m ELSE p \div m - m
           D == {m \in 1 .. p : p % m = 0}
           Best(m) == \A n \in D : gap(m) < gap(n) \/ (gap(m) = gap(n) /\ m <= n)
           m0 == CHOOSE m \in D : Best(m)
<1>1. SquarestMesh(p) = <<m0, p \div m0>>
  BY DEF SquarestMesh
<1>2. \A m \in D : gap(m) \in Nat
  <2> SUFFICES ASSUME NEW m \in D PROVE gap(m) \in Nat
    OBVIOUS
  <2>1. m \in Nat \ {0} /\ p \div m \in Int
    OBVIOUS
  <2> QED BY <2>1
<1>3. 1 \in D
  OBVIOUS
<1> HIDE DEF gap
<1>4. \E m \in D : Best(m)
  <2>1. PICK g \in {gap(m) : m \in D} : \A h \in {gap(m) : m \in D} : g <= h
    <3>1. {gap(m) : m \in D} # {} /\ {gap(m) : m \in D} \subseteq Nat
      BY <1>2, <1>3
    <3> QED BY <3>1, LeastNumber
  <2> DEFINE E == {m \in D : gap(m) = g}
  <2>2. PICK m \in E : \A n \in E : m <= n
    <3>1. E # {} /\ E \subseteq Nat
      BY <2>1
    <3> HIDE DEF E
    <3> QED BY <3>1, LeastNumber
  <2>3. ASSUME NEW n \in D PROVE gap(m) < gap(n) \/ (gap(m) = gap(n) /\ m <= n)
    <3>1. gap(m) = g /\ g <= gap(n) /\ g \in Nat /\ gap(n) \in Nat
      BY <1>2, <2>1
    <3>2. gap(n) = g => m <= n
      BY <2>2
    <3> QED BY <3>1, <3>2
  <2>4. m \in D
    OBVIOUS
  <2> QED BY <2>3, <2>4
<1>5. m0 \in D
  <2> HIDE DEF D, Best
  <2> QED BY <1>4
<1> HIDE DEF m0
<1>6. m0 \in Nat \ {0} /\ m0 <= p /\ p % m0 = 0
  BY <1>5
<1>7. p \div m0 \in Int /\ p = m0 * (p \div m0) + (p % m0)
  BY <1>6, Division
<1>8. m0 * (p \div m0) = p
  BY <1>6, <1>7
<1>9. p \div m0 \in Nat \ {0}
  <2>1. PICK y \in Int : y = p \div m0 /\ m0 * y = p
    BY <1>7, <1>8
  <2>2. ASSUME y <= 0 PROVE FALSE
    <3>1. m0 * y <= m0 * 0
      BY <1>6, <2>2, Times
    <3> QED BY <1>6, <2>1, <3>1
  <2> QED BY <2>1, <2>2
<1> QED BY <1>1, <1>6, <1>8, <1>9

-----------------------------------------------------------------------------
(* Who is in which communicator *)

Server(j, k) == ncompute + (j - 1) * nio + k
ClientsOf(k) == {t \in Computes : RowColor(t, nio) = k}
Comm(j, k) == ClientsOf(k) \cup {Server(j, k)}

\* The tasks as SizeGroups, SplitLocal and AssignRows have divided them.
Divided ==
  /\ cfg.ntasks \in Nat /\ cfg.perGroup \in Nat \ {0}
  /\ ncompute \in Nat \ {0} /\ nGroups \in Nat \ {0}
  /\ cfg.ntasks = ncompute + cfg.perGroup * nGroups
  /\ mesh[1] \in Nat \ {0} /\ mesh[2] \in Nat \ {0} /\ mesh[1] * mesh[2] = ncompute
  /\ nio = Smaller(cfg.perGroup, mesh[2])

LEMMA ServersAreFew ==
  ASSUME Divided
  PROVE  nio \in 1 .. mesh[2] /\ nio \in 1 .. cfg.perGroup
BY DEF Divided, Smaller

\* Every compute task has the server of its row of the mesh.
LEMMA RowColorIsAServer ==
  ASSUME Divided, NEW t \in Computes
  PROVE  /\ RowColor(t, nio) \in 0 .. nio - 1
         /\ RowsBefore(RowColor(t, nio), mesh[2], nio) <= t \div mesh[1]
         /\ t \div mesh[1] < RowsBefore(RowColor(t, nio) + 1, mesh[2], nio)
<1> DEFINE y == t \div mesh[1]
           Has(k) == /\ RowsBefore(k, mesh[2], nio) <= y
                     /\ y < RowsBefore(k + 1, mesh[2], nio)
<1>1. nio \in 1 .. mesh[2] /\ mesh[2] \in Nat \ {0}
  BY ServersAreFew DEF Divided
<1>2. y \in 0 .. mesh[2] - 1
  <2>1. /\ t \in Int /\ 0 <= t /\ t < mesh[1] * mesh[2] /\ mesh[1] * 0 = 0
        /\ mesh[1] \in Nat \ {0} /\ mesh[2] \in Int /\ 0 \in Int
    BY DEF Divided, Computes, Tasks
  <2>2. mesh[1] * 0 <= t
    BY <2>1
  <2> HIDE DEF y
  <2> QED BY <2>1, <2>2, QuotientBounds DEF y
<1> HIDE DEF y
<1>3. \E k \in 0 .. nio - 1 : Has(k)
  BY <1>1, <1>2, RowIsServed
<1>4. RowColor(t, nio) = CHOOSE k \in 0 .. nio - 1 : Has(k)
  BY DEF RowColor, y
<1> HIDE DEF Has
<1>5. RowColor(t, nio) \in 0 .. nio - 1 /\ Has(RowColor(t, nio))
  BY <1>3, <1>4
<1> QED BY <1>5 DEF Has, y

\* Every server has a compute task, the first one compute task 0.
LEMMA EveryServerHasAClient ==
  ASSUME Divided
  PROVE  /\ 0 \in ClientsOf(0)
         /\ \A k \in 0 .. nio - 1 : ClientsOf(k) # {}
<1>1. nio \in 1 .. mesh[2] /\ mesh[2] \in Nat \ {0} /\ mesh[1] \in Nat \ {0}
  BY ServersAreFew DEF Divided
<1> DEFINE R(k) == RowsBefore(k, mesh[2], nio)
<1>2. /\ R(0) = 0 /\ R(nio) = mesh[2]
      /\ \A k \in 0 .. nio : R(k) \in 0 .. mesh[2]
      /\ \A k \in 0 .. nio - 1 : R(k) < R(k + 1)
      /\ \A k \in 0 .. nio, l \in 0 .. nio : k <= l => R(k) <= R(l)
  BY <1>1, RowsGone
<1>3. ASSUME NEW k \in 0 .. nio - 1
      PROVE  mesh[1] * R(k) \in ClientsOf(k)
  <2> DEFINE t == mesh[1] * R(k)
  <2>1. k \in 0 .. nio /\ k + 1 \in 0 .. nio
    BY <1>1
  <2>2. R(k) \in Nat /\ R(k) < mesh[2]
    <3>1. R(k) \in 0 .. mesh[2] /\ R(k + 1) \in 0 .. mesh[2] /\ R(k) < R(k + 1)
      BY <1>2, <2>1
    <3> HIDE DEF R
    <3> QED BY <1>1, <3>1
  <2> HIDE DEF R
  <2>3. t \in Nat
    BY <1>1, <2>2
  <2>4. t < mesh[1] * mesh[2]
    <3>1. mesh[1] * (R(k) + 1) <= mesh[1] * mesh[2]
      BY <1>1, <2>2, Times
    <3>2. mesh[1] * (R(k) + 1) = mesh[1] * R(k) + mesh[1] /\ mesh[1] * mesh[2] \in Int
      BY <1>1, <2>2
    <3> QED BY <1>1, <2>3, <3>1, <3>2
  <2>5. t \div mesh[1] = R(k)
    <3>1. mesh[1] * (R(k) + 1) = mesh[1] * R(k) + mesh[1]
      BY <1>1, <2>2
    <3>2. mesh[1] * R(k) <= t /\ t < mesh[1] * (R(k) + 1) /\ t \in Int
      BY <1>1, <2>3, <3>1
    <3>3. R(k) \in Int /\ R(k) + 1 \in Int
      BY <2>2
    <3> HIDE DEF t
    <3>4. t \div mesh[1] \in R(k) .. R(k) + 1 - 1
      BY <1>1, <3>2, <3>3, QuotientBounds
    <3> QED BY <2>2, <3>4
  <2>6. t \in Computes
    <3> HIDE DEF t
    <3>1. t < ncompute
      BY <2>4 DEF Divided
    <3>2. cfg.perGroup * nGroups \in Nat
      BY DEF Divided
    <3> QED BY <2>3, <3>1, <3>2 DEF Divided, Computes, Tasks
  <2> HIDE DEF t
  <2> DEFINE c == RowColor(t, nio)
  <2>7. c \in 0 .. nio - 1 /\ R(c) <= R(k) /\ R(k) < R(c + 1)
    BY <2>5, <2>6, RowColorIsAServer DEF R
  <2> HIDE DEF c
  <2>8. c \in 0 .. nio /\ c + 1 \in 0 .. nio /\ c \in Nat
    BY <1>1, <2>7
  <2>9. R(c) \in Int /\ R(c + 1) \in Int /\ R(k) \in Int /\ R(k + 1) \in Int
    BY <1>2, <2>1, <2>8
  <2>10. ASSUME c < k PROVE FALSE
    <3>1. c + 1 <= k
      BY <2>8, <2>10
    <3>2. R(c + 1) <= R(k)
      BY <1>2, <2>1, <2>8, <3>1
    <3> QED BY <2>7, <2>9, <3>2
  <2>11. ASSUME k < c PROVE FALSE
    <3>1. k + 1 <= c
      BY <2>8, <2>11
    <3>2. R(k + 1) <= R(c) /\ R(k) < R(k + 1)
      BY <1>2, <2>1, <2>8, <3>1
    <3> QED BY <2>7, <2>9, <3>2
  <2>12. c = k
    BY <2>8, <2>10, <2>11
  <2> QED BY <2>6, <2>12 DEF ClientsOf, c, t
<1>4. 0 \in 0 .. nio - 1 /\ mesh[1] * R(0) = 0
  <2> HIDE DEF R
  <2> QED BY <1>1, <1>2
<1> QED BY <1>3, <1>4

\* The servers of a group are a block of tasks after the compute tasks, and no
\* task is in two of them.
LEMMA ServersAreTasks ==
  ASSUME Divided, NEW j \in IoGroups, NEW k \in 0 .. nio - 1
  PROVE  Server(j, k) \in Tasks /\ Server(j, k) \notin Computes
<1>1. /\ nio \in Nat \ {0} /\ nio <= cfg.perGroup /\ cfg.perGroup \in Nat \ {0}
      /\ ncompute \in Nat /\ nGroups \in Nat /\ j \in 1 .. nGroups
  BY ServersAreFew DEF Divided, IoGroups
<1>2. 0 <= (j - 1) * nio /\ (j - 1) * nio + nio <= cfg.perGroup * nGroups
  <2>1. nio * 0 <= nio * (j - 1)
    BY <1>1, Times
  <2>2. nio * j <= nio * nGroups
    BY <1>1, Times
  <2>3. nGroups * nio <= nGroups * cfg.perGroup
    BY <1>1, Times
  <2>4. /\ (j - 1) * nio = nio * (j - 1) /\ nio * (j - 1) = nio * j - nio
        /\ nGroups * nio = nio * nGroups /\ nGroups * cfg.perGroup = cfg.perGroup * nGroups
        /\ nio * j \in Int /\ nio * nGroups \in Int /\ cfg.perGroup * nGroups \in Int
        /\ nio * 0 = 0
    BY <1>1
  <2> QED BY <1>1, <2>1, <2>2, <2>3, <2>4
<1>3. (j - 1) * nio \in Int /\ cfg.perGroup * nGroups \in Int
  BY <1>1
<1> QED BY <1>1, <1>2, <1>3 DEF Divided, Server, Tasks, Computes

LEMMA ServersApart ==
  ASSUME Divided, NEW i \in IoGroups, NEW j \in IoGroups,
         NEW k \in 0 .. nio - 1, NEW l \in 0 .. nio - 1, Server(i, k) = Server(j, l)
  PROVE  i = j /\ k = l
<1>1. nio \in Nat \ {0} /\ ncompute \in Nat /\ i \in Nat /\ j \in Nat
  BY ServersAreFew DEF Divided, IoGroups
<1>2. /\ (i - 1) * nio = nio * i - nio /\ (j - 1) * nio = nio * j - nio
      /\ nio * i \in Int /\ nio * j \in Int
  BY <1>1
<1>3. nio * i + k = nio * j + l
  BY <1>1, <1>2 DEF Server
<1>4. ASSUME i < j PROVE FALSE
  <2>1. nio * (i + 1) <= nio * j /\ nio * (i + 1) = nio * i + nio
    BY <1>1, <1>4, Times
  <2> QED BY <1>1, <1>2, <1>3, <2>1
<1>5. ASSUME j < i PROVE FALSE
  <2>1. nio * (j + 1) <= nio * i /\ nio * (j + 1) = nio * j + nio
    BY <1>1, <1>5, Times
  <2> QED BY <1>1, <1>2, <1>3, <2>1
<1>6. i = j
  BY <1>1, <1>4, <1>5
<1> QED BY <1>2, <1>3, <1>6

LEMMA BlockIsServers ==
  ASSUME Divided, NEW j \in IoGroups
  PROVE  Block(j) = {Server(j, k) : k \in 0 .. nio - 1}
<1>1. /\ nio \in Nat \ {0} /\ ncompute \in Nat /\ j \in Nat /\ cfg.ntasks \in Nat
      /\ (j - 1) * nio \in Int /\ j * nio = (j - 1) * nio + nio
  BY ServersAreFew DEF Divided, IoGroups
<1>2. ASSUME NEW t \in Block(j) PROVE t \in {Server(j, k) : k \in 0 .. nio - 1}
  <2> DEFINE k == t - (ncompute + (j - 1) * nio)
  <2>1. k \in 0 .. nio - 1 /\ t = Server(j, k)
    BY <1>1 DEF Block, Tasks, Server
  <2> QED BY <2>1
<1>3. ASSUME NEW k \in 0 .. nio - 1 PROVE Server(j, k) \in Block(j)
  <2>1. Server(j, k) \in Tasks
    BY ServersAreTasks
  <2> QED BY <1>1, <2>1 DEF Block, Server
<1> QED BY <1>2, <1>3

\* The split for group j gives every client and its server their communicator.
Made(j) ==
  /\ \A t \in Computes : io[j][t] = Comm(j, RowColor(t, nio))
  /\ \A k \in 0 .. nio - 1 : io[j][Server(j, k)] = Comm(j, k)

LEMMA SplitMakesComms ==
  ASSUME Divided, NEW j \in IoGroups, NEW c, c = [t \in Tasks |-> c[t]],
         \A t \in Computes : c[t] = RowColor(t, nio),
         \A t \in Tasks \ Computes :
            c[t] = IF t \in Block(j) THEN t - (ncompute + (j - 1) * nio) ELSE Undef
  PROVE  /\ \A t \in Computes : Split(c)[t] = Comm(j, RowColor(t, nio))
         /\ \A k \in 0 .. nio - 1 : Split(c)[Server(j, k)] = Comm(j, k)
<1>1. /\ nio \in Nat \ {0} /\ ncompute \in Nat /\ (j - 1) * nio \in Int
      /\ Computes \subseteq Tasks
  BY ServersAreFew DEF Divided, IoGroups, Computes
<1>2. \A k \in 0 .. nio - 1 : /\ Server(j, k) \in Tasks \ Computes
                             /\ c[Server(j, k)] = k
  <2> SUFFICES ASSUME NEW k \in 0 .. nio - 1
               PROVE  Server(j, k) \in Tasks \ Computes /\ c[Server(j, k)] = k
    OBVIOUS
  <2>1. Server(j, k) \in Tasks \ Computes /\ Server(j, k) \in Block(j)
    BY ServersAreTasks, BlockIsServers
  <2>2. c[Server(j, k)] = Server(j, k) - (ncompute + (j - 1) * nio)
    BY <2>1
  <2> QED BY <1>1, <2>1, <2>2 DEF Server
<1>3. ASSUME NEW k \in 0 .. nio - 1
      PROVE  {u \in Tasks : c[u] = k} = Comm(j, k)
  <2>1. ASSUME NEW u \in Computes PROVE c[u] = k <=> u \in ClientsOf(k)
    BY <2>1 DEF ClientsOf
  <2>2. ASSUME NEW u \in Tasks \ Computes PROVE c[u] = k <=> u = Server(j, k)
    <3>1. CASE u \in Block(j)
      <4>1. PICK l \in 0 .. nio - 1 : u = Server(j, l)
        BY <3>1, BlockIsServers
      <4>2. c[u] = l
        BY <1>2, <4>1
      <4>3. Server(j, l) = Server(j, k) => l = k
        BY ServersApart
      <4> QED BY <4>1, <4>2, <4>3
    <3>2. CASE u \notin Block(j)
      <4>1. c[u] = Undef /\ Undef # k
        BY <3>2 DEF Undef
      <4>2. u # Server(j, k)
        BY <3>2, BlockIsServers
      <4> QED BY <4>1, <4>2
    <3> QED BY <3>1, <3>2
  <2>3. Server(j, k) \in Tasks \ Computes
    BY <1>2
  <2>4. ClientsOf(k) \subseteq Computes
    BY DEF ClientsOf
  <2> QED BY <1>1, <2>1, <2>2, <2>3, <2>4 DEF Comm
<1>4. \A k \in 0 .. nio - 1 : k # Undef
  BY DEF Undef
<1>5. ASSUME NEW t \in Computes PROVE Split(c)[t] = Comm(j, RowColor(t, nio))
  <2>1. RowColor(t, nio) \in 0 .. nio - 1 /\ c[t] = RowColor(t, nio) /\ t \in Tasks
    BY <1>1, RowColorIsAServer
  <2>2. Split(c)[t] = {u \in Tasks : c[u] = c[t]}
    BY <1>4, <2>1 DEF Split
  <2> QED BY <1>3, <2>1, <2>2
<1>6. ASSUME NEW k \in 0 .. nio - 1 PROVE Split(c)[Server(j, k)] = Comm(j, k)
  <2>1. Server(j, k) \in Tasks /\ c[Server(j, k)] = k
    BY <1>2
  <2>2. Split(c)[Server(j, k)] = {u \in Tasks : c[u] = k}
    BY <1>4, <2>1 DEF Split
  <2> QED BY <1>3, <2>2
<1> QED BY <1>5, <1>6

-----------------------------------------------------------------------------
(* The inductive invariant: what the blocks of the routine have set up.      *)

Counts ==
  /\ cfg.ntasks \in Nat /\ cfg.perGroup \in Nat \ {0}
  /\ ncompute \in Nat \ {0} /\ nGroups \in Nat \ {0} /\ nGroups = cfg.groups
  /\ cfg.ntasks = ncompute + cfg.perGroup * nGroups
  /\ \/ cfg.given = <<-1, -1>>
     \/ cfg.given[1] \in Nat \ {0} /\ cfg.given[2] \in Nat \ {0}
        /\ cfg.given[1] * cfg.given[2] = ncompute

MeshMade ==
  mesh[1] \in Nat \ {0} /\ mesh[2] \in Nat \ {0} /\ mesh[1] * mesh[2] = ncompute

\* mpi_comm_local was split off before nio was reduced to the rows there are.
LocalMade ==
  \A s \in Tasks \ Computes :
    local[s] = {u \in Tasks \ Computes :
                  (u - ncompute) \div cfg.perGroup = (s - ncompute) \div cfg.perGroup}

Done ==
  /\ \A j \in IoGroups, t \in Computes : io[j][t] = Comm(j, RowColor(t, nio))
  /\ \A j \in IoGroups, k \in 0 .. nio - 1 : io[1][Server(j, k)] = Comm(j, k)
  /\ groupMaster = {tj \in Computes \X IoGroups :
                      RankIn(tj[1], Comm(tj[2], RowColor(tj[1], nio))) = 0}

SetupInv ==
  /\ cfg \in Configs
  /\ pc \in {"size", "off", "local", "rows", "io", "masters", "done"}
  /\ pc \in {"size", "local", "rows"} => made = 0
  /\ pc \in {"local", "rows", "io", "masters", "done"} =>
       Counts /\ io = [j \in IoGroups |-> io[j]]
  /\ pc \in {"local", "rows"} => nio = cfg.perGroup
  /\ pc \in {"rows", "io", "masters", "done"} => MeshMade /\ LocalMade
  /\ pc \in {"io", "masters", "done"} => nio = Smaller(cfg.perGroup, mesh[2])
  /\ pc = "io" => \A t \in Computes : icolor[t] = RowColor(t, nio)
  /\ pc \in {"io", "masters"} => made \in 0 .. nGroups /\ \A j \in 1 .. made : Made(j)
  /\ pc = "masters" => made = nGroups
  /\ pc = "done" => Done

LEMMA DividedFromInv ==
  ASSUME SetupInv, pc \in {"io", "masters", "done"}
  PROVE  Divided
BY DEF SetupInv, Counts, MeshMade, Divided

\* What depends on the division of the tasks only.
division == <<cfg, nGroups, nio, ncompute, mesh>>

LEMMA SameDivision ==
  ASSUME UNCHANGED division
  PROVE  /\ Tasks' = Tasks /\ Computes' = Computes /\ IoGroups' = IoGroups
         /\ Counts' = Counts /\ MeshMade' = MeshMade
         /\ \A j, k : Server(j, k)' = Server(j, k) /\ Comm(j, k)' = Comm(j, k)
         /\ \A t : RowColor(t, nio)' = RowColor(t, nio)
         /\ \A j : Block(j)' = Block(j)
         /\ local' = local => LocalMade' = LocalMade
<1>1. Tasks' = Tasks /\ Computes' = Computes /\ IoGroups' = IoGroups
  BY DEF Tasks, Computes, IoGroups, division
<1>2. \A t : RowColor(t, nio)' = RowColor(t, nio)
  BY DEF RowColor, division
<1>3. \A j, k : Server(j, k)' = Server(j, k)
  BY DEF Server, division
<1>4. \A k : ClientsOf(k)' = ClientsOf(k)
  BY <1>1, <1>2 DEF ClientsOf
<1>5. \A j, k : Comm(j, k)' = Comm(j, k)
  BY <1>3, <1>4 DEF Comm
<1>6. \A j : Block(j)' = Block(j)
  BY <1>1 DEF Block, division
<1>7. Counts' = Counts /\ MeshMade' = MeshMade
  BY DEF Counts, MeshMade, division
<1>8. local' = local => LocalMade' = LocalMade
  BY <1>1 DEF LocalMade, division
<1> QED BY <1>1, <1>2, <1>3, <1>5, <1>6, <1>7, <1>8

-----------------------------------------------------------------------------
(* One block of the routine after the other *)

LEMMA Initially ==
  ASSUME SetupInit
  PROVE  SetupInv
BY DEF SetupInit, SetupInv

LEMMA NoQuiltingStep ==
  ASSUME SetupInv, NoQuilting
  PROVE  SetupInv'
<1>1. pc' = "off" /\ cfg' = cfg
  BY DEF NoQuilting
<1> QED BY <1>1 DEF SetupInv

LEMMA SizeGroupsStep ==
  ASSUME SetupInv, SizeGroups
  PROVE  SetupInv'
<1> DEFINE left == LeftForCompute(cfg.ntasks, cfg.perGroup, cfg.groups)
<1>1. /\ pc = "size" /\ pc' = "local" /\ cfg.perGroup > 0 /\ left >= cfg.perGroup
      /\ nGroups' = cfg.groups /\ nio' = cfg.perGroup /\ ncompute' = left
      /\ io' = [j \in 1 .. cfg.groups |-> [t \in Tasks |-> NoComm]]
      /\ cfg' = cfg /\ made' = made
  BY DEF SizeGroups
<1>2. /\ cfg.ntasks \in Nat /\ cfg.perGroup \in Int /\ cfg.groups \in Nat \ {0}
      /\ cfg.given \in Meshes /\ MeshAccepted(cfg)
  BY SetupBounds DEF SetupInv, Configs
<1>3. /\ left \in Nat \ {0} /\ cfg.ntasks = left + cfg.perGroup * cfg.groups
      /\ cfg.perGroup \in Nat \ {0}
  <2>1. cfg.perGroup * cfg.groups \in Int
    BY <1>2
  <2>2. left = cfg.ntasks - cfg.perGroup * cfg.groups
    BY DEF LeftForCompute
  <2>3. left >= cfg.perGroup /\ cfg.perGroup > 0
    BY <1>1
  <2> HIDE DEF left
  <2>4. left \in Int /\ cfg.ntasks = left + cfg.perGroup * cfg.groups
    BY <1>2, <2>1, <2>2
  <2> QED BY <1>2, <2>3, <2>4
<1>4. \/ cfg.given = <<-1, -1>>
      \/ cfg.given[1] \in Nat \ {0} /\ cfg.given[2] \in Nat \ {0}
         /\ cfg.given[1] * cfg.given[2] = left
  <2>1. cfg.given = <<-1, -1>> \/ cfg.given \in (1 .. MaxTasks) \X (1 .. MaxTasks)
    BY <1>2 DEF Meshes
  <2>2. cfg.given = <<-1, -1>> \/ cfg.given[1] * cfg.given[2] = left
    BY <1>2 DEF MeshAccepted
  <2>3. cfg.given \in (1 .. MaxTasks) \X (1 .. MaxTasks) =>
           cfg.given[1] \in Nat \ {0} /\ cfg.given[2] \in Nat \ {0}
    BY SetupBounds
  <2> QED BY <2>1, <2>2, <2>3
<1> HIDE DEF left
<1>5. Counts'
  BY <1>1, <1>2, <1>3, <1>4 DEF Counts
<1>6. io' = [j \in IoGroups' |-> io'[j]]
  BY <1>1 DEF IoGroups
<1> QED BY <1>1, <1>5, <1>6 DEF SetupInv

LEMMA SplitLocalStep ==
  ASSUME SetupInv, SplitLocal
  PROVE  SetupInv'
<1>1. /\ pc = "local" /\ pc' = "rows" /\ icolor' = [t \in Tasks |-> LocalColor(t)]
      /\ local' = Split(icolor')
      /\ mesh' = IF cfg.given = <<-1, -1>> THEN SquarestMesh(ncompute) ELSE cfg.given
      /\ UNCHANGED <<cfg, nGroups, nio, ncompute, io, made>>
  BY DEF SplitLocal
<1>2. Counts /\ nio = cfg.perGroup
  BY <1>1 DEF SetupInv
<1>3. Counts' /\ IoGroups' = IoGroups /\ Tasks' = Tasks /\ Computes' = Computes
  BY <1>1, <1>2 DEF Counts, IoGroups, Tasks, Computes
<1>4. MeshMade'
  <2>1. ncompute \in Nat \ {0}
    BY <1>2 DEF Counts
  <2>2. CASE cfg.given = <<-1, -1>>
    <3>1. mesh' = SquarestMesh(ncompute) /\ ncompute' = ncompute
      BY <1>1, <2>2
    <3> QED BY <2>1, <3>1, SquarestMeshIsAMesh DEF MeshMade
  <2>3. CASE cfg.given # <<-1, -1>>
    <3>1. mesh' = cfg.given /\ ncompute' = ncompute
      BY <1>1, <2>3
    <3> QED BY <1>2, <2>3, <3>1 DEF MeshMade, Counts
  <2> QED BY <2>2, <2>3
<1>5. LocalMade'
  <2> SUFFICES ASSUME NEW s \in Tasks \ Computes
               PROVE  local'[s] = {u \in Tasks \ Computes :
                        (u - ncompute) \div cfg.perGroup = (s - ncompute) \div cfg.perGroup}
    BY <1>1, <1>3 DEF LocalMade
  <2> DEFINE B(t) == (t - ncompute) \div cfg.perGroup
  <2>1. /\ cfg.perGroup \in Nat \ {0} /\ ncompute \in Nat /\ cfg.ntasks \in Nat
    BY <1>2 DEF Counts
  <2>2. ASSUME NEW t \in Tasks \ Computes
        PROVE  B(t) \in Nat /\ icolor'[t] = B(t) + 1
    <3>1. t \in Int /\ 0 <= t - ncompute /\ ~(t < ncompute)
      BY <2>1 DEF Tasks, Computes
    <3>2. t - ncompute \in 0 .. t - ncompute /\ t - ncompute \in Int
      BY <2>1, <3>1
    <3>3. B(t) \in Int
      BY <2>1, <3>2, Division
    <3>4. ASSUME B(t) < 0 PROVE FALSE
      <4>1. PICK b \in Int : b = B(t)
        BY <3>3
      <4>2. /\ t - ncompute = cfg.perGroup * b + ((t - ncompute) % cfg.perGroup)
            /\ (t - ncompute) % cfg.perGroup \in 0 .. cfg.perGroup - 1
        BY <2>1, <3>2, <4>1, Division
      <4>3. cfg.perGroup * (b + 1) <= cfg.perGroup * 0
        BY <2>1, <3>4, <4>1, Times
      <4>4. cfg.perGroup * (b + 1) = cfg.perGroup * b + cfg.perGroup
            /\ cfg.perGroup * b \in Int
        BY <2>1, <4>1
      <4> QED BY <2>1, <3>1, <4>2, <4>3, <4>4
    <3>5. icolor'[t] = LocalColor(t)
      BY <1>1
    <3>6. LocalColor(t) = B(t) + 1
      BY <1>2, <3>1 DEF LocalColor
    <3> QED BY <3>3, <3>4, <3>5, <3>6
  <2>3. ASSUME NEW t \in Computes PROVE icolor'[t] = 0
    <3>1. t \in Tasks /\ t < ncompute
      BY DEF Computes
    <3> QED BY <1>1, <3>1 DEF LocalColor
  <2> HIDE DEF B
  <2>4. local'[s] = {u \in Tasks : icolor'[u] = icolor'[s]}
    <3>1. icolor'[s] # Undef
      <4>1. B(s) \in Nat /\ icolor'[s] = B(s) + 1
        BY <2>2
      <4> QED BY <4>1 DEF Undef
    <3>2. local' = [t \in Tasks |-> IF icolor'[t] = Undef THEN NoComm
                                     ELSE {u \in Tasks : icolor'[u] = icolor'[t]}]
      BY <1>1 DEF Split
    <3> QED BY <3>1, <3>2
  <2>5. ASSUME NEW u \in Tasks
        PROVE  icolor'[u] = icolor'[s] <=> u \notin Computes /\ B(u) = B(s)
    <3>1. B(s) \in Nat /\ icolor'[s] = B(s) + 1
      BY <2>2
    <3>2. CASE u \in Computes
      BY <2>3, <3>1, <3>2
    <3>3. CASE u \notin Computes
      <4>1. B(u) \in Nat /\ icolor'[u] = B(u) + 1
        BY <2>2, <3>3
      <4> QED BY <3>1, <3>3, <4>1
    <3> QED BY <3>2, <3>3
  <2>6. local'[s] = {u \in Tasks \ Computes : B(u) = B(s)}
    BY <2>4, <2>5
  <2> QED BY <2>6 DEF B
<1>6. io' = [j \in IoGroups' |-> io'[j]]
  BY <1>1, <1>3 DEF SetupInv
<1> QED BY <1>1, <1>2, <1>3, <1>4, <1>5, <1>6 DEF SetupInv

LEMMA AssignRowsStep ==
  ASSUME SetupInv, AssignRows
  PROVE  SetupInv'
<1>1. /\ pc = "rows" /\ pc' = "io" /\ nio' = ServersPerGroup(mesh[2])
      /\ icolor' = [t \in Tasks |-> IF t < ncompute THEN RowColor(t, nio') ELSE icolor[t]]
      /\ UNCHANGED <<cfg, nGroups, ncompute, mesh, local, io, made>>
  BY DEF AssignRows
<1>2. Counts /\ nio = cfg.perGroup /\ MeshMade /\ LocalMade /\ made = 0
  BY <1>1 DEF SetupInv
<1>3. /\ Counts' /\ MeshMade' /\ LocalMade' /\ IoGroups' = IoGroups
      /\ Tasks' = Tasks /\ Computes' = Computes
  <2>1. IoGroups' = IoGroups /\ Tasks' = Tasks /\ Computes' = Computes
    BY <1>1 DEF IoGroups, Tasks, Computes
  <2>2. Counts' /\ MeshMade'
    BY <1>1, <1>2 DEF Counts, MeshMade
  <2>3. LocalMade'
    BY <1>1, <1>2, <2>1 DEF LocalMade
  <2> QED BY <2>1, <2>2, <2>3
<1>4. nio' = Smaller(cfg.perGroup, mesh[2])'
  BY <1>1, <1>2 DEF ServersPerGroup, Smaller
<1>5. ASSUME NEW t \in Computes PROVE icolor'[t] = RowColor(t, nio)'
  <2>1. t \in Tasks /\ t < ncompute
    BY DEF Computes
  <2>2. icolor'[t] = RowColor(t, nio')
    BY <1>1, <2>1
  <2>3. RowColor(t, nio)' = RowColor(t, nio')
    BY <1>1 DEF RowColor
  <2> QED BY <2>2, <2>3
<1>6. io' = [j \in IoGroups' |-> io'[j]]
  BY <1>1, <1>3 DEF SetupInv
<1>7. made' \in 0 .. nGroups' /\ 1 .. made' = {}
  <2>1. nGroups' \in Nat /\ made' = 0
    BY <1>1, <1>2, <1>3 DEF Counts
  <2> QED BY <2>1
<1> QED BY <1>1, <1>3, <1>4, <1>5, <1>6, <1>7 DEF SetupInv

LEMMA SplitIoGroupStep ==
  ASSUME SetupInv, SplitIoGroup
  PROVE  SetupInv'
<1> DEFINE g == made + 1
<1>1. /\ pc = "io" /\ pc' = "io" /\ made < nGroups /\ made' = g
      /\ icolor' = [t \in Tasks |-> IoColor(t, g)]
      /\ io' = [io EXCEPT ![g] = Split(icolor')]
      /\ UNCHANGED division /\ local' = local
  BY DEF SplitIoGroup, division
<1>2. /\ Counts /\ MeshMade /\ LocalMade /\ io = [j \in IoGroups |-> io[j]]
      /\ nio = Smaller(cfg.perGroup, mesh[2])
      /\ \A t \in Computes : icolor[t] = RowColor(t, nio)
      /\ made \in 0 .. nGroups /\ \A j \in 1 .. made : Made(j)
  BY <1>1 DEF SetupInv
<1>3. Divided
  BY <1>1, DividedFromInv
<1>4. g \in IoGroups /\ made \in Nat /\ nGroups \in Nat
  BY <1>1, <1>2 DEF Counts, IoGroups
<1>5. ASSUME NEW t \in Computes PROVE icolor'[t] = RowColor(t, nio)
  <2>1. t \in Tasks /\ t < ncompute
    BY DEF Computes
  <2> HIDE DEF g
  <2> QED BY <1>1, <1>2, <2>1 DEF IoColor
<1>6. ASSUME NEW t \in Tasks \ Computes
      PROVE  icolor'[t] = IF t \in Block(g) THEN t - (ncompute + (g - 1) * nio) ELSE Undef
  <2>1. ~(t < ncompute)
    BY DEF Computes
  <2> HIDE DEF g
  <2> QED BY <1>1, <2>1 DEF IoColor
<1> HIDE DEF g
<1>7. icolor' = [t \in Tasks |-> icolor'[t]]
  BY <1>1
<1>8. /\ \A t \in Computes : Split(icolor')[t] = Comm(g, RowColor(t, nio))
      /\ \A k \in 0 .. nio - 1 : Split(icolor')[Server(g, k)] = Comm(g, k)
  BY <1>3, <1>4, <1>5, <1>6, <1>7, SplitMakesComms
<1>9. /\ Computes' = Computes /\ IoGroups' = IoGroups /\ Counts' /\ MeshMade' /\ LocalMade'
      /\ \A j, k : Server(j, k)' = Server(j, k) /\ Comm(j, k)' = Comm(j, k)
      /\ \A t : RowColor(t, nio)' = RowColor(t, nio)
  BY <1>1, <1>2, SameDivision
<1>10. io'[g] = Split(icolor') /\ \A j \in IoGroups \ {g} : io'[j] = io[j]
  BY <1>1, <1>2, <1>4
<1>11. io' = [j \in IoGroups' |-> io'[j]]
  BY <1>1, <1>2, <1>9
<1>12. nio' = nio /\ nGroups' = nGroups
  BY <1>1 DEF division
<1>13. ASSUME NEW j \in 1 .. made' PROVE Made(j)'
  <2>1. CASE j = g
    BY <1>8, <1>9, <1>10, <1>12, <2>1 DEF Made
  <2>2. CASE j # g
    <3>1. j \in 1 .. made /\ j \in IoGroups \ {g}
      BY <1>1, <1>2, <1>4, <2>2 DEF g, IoGroups
    <3>2. Made(j) /\ io'[j] = io[j]
      BY <1>2, <1>10, <3>1
    <3> QED BY <1>9, <1>12, <3>2 DEF Made
  <2> QED BY <2>1, <2>2
<1>14. made' \in 0 .. nGroups'
  BY <1>1, <1>4, <1>12 DEF IoGroups
<1>15. /\ nio' = Smaller(cfg.perGroup, mesh[2])'
      /\ \A t \in Computes' : icolor'[t] = RowColor(t, nio)'
      /\ cfg' = cfg
  BY <1>1, <1>2, <1>5, <1>9 DEF division, Smaller
<1>16. (\A t \in Computes : icolor[t] = RowColor(t, nio))'
  BY <1>15
<1>17. (made \in 0 .. nGroups /\ \A j \in 1 .. made : Made(j))'
  BY <1>13, <1>14
<1>18. pc' = "io" /\ cfg' \in Configs
  <2>1. cfg \in Configs
    BY DEF SetupInv
  <2>2. cfg' = cfg
    BY <1>1 DEF division
  <2>3. pc' = "io"
    BY <1>1
  <2> QED BY <2>1, <2>2, <2>3, Zenon
<1> QED BY <1>9, <1>11, <1>15, <1>16, <1>17, <1>18 DEF SetupInv

LEMMA SplitAvailStep ==
  ASSUME SetupInv, SplitAvail
  PROVE  SetupInv'
<1>1. /\ pc = "io" /\ made = nGroups /\ pc' = "masters"
      /\ UNCHANGED division /\ local' = local /\ io' = io /\ made' = made
  BY DEF SplitAvail, division
<1>2. /\ Computes' = Computes /\ IoGroups' = IoGroups /\ Counts' /\ MeshMade' /\ LocalMade'
      /\ \A j, k : Server(j, k)' = Server(j, k) /\ Comm(j, k)' = Comm(j, k)
      /\ \A t : RowColor(t, nio)' = RowColor(t, nio)
  BY <1>1, SameDivision DEF SetupInv
<1>3. UNCHANGED <<cfg, nGroups, nio, mesh>>
  BY <1>1 DEF division
<1>4. ASSUME NEW j \in 1 .. made' PROVE Made(j)'
  <2>1. Made(j)
    BY <1>1 DEF SetupInv
  <2> QED BY <1>1, <1>2, <1>3, <2>1 DEF Made
<1>5. nio' = Smaller(cfg.perGroup, mesh[2])' /\ made' \in 0 .. nGroups'
  BY <1>1, <1>3 DEF SetupInv, Smaller
<1>6. io' = [j \in IoGroups' |-> io'[j]]
  BY <1>1, <1>2 DEF SetupInv
<1> QED BY <1>1, <1>2, <1>3, <1>4, <1>5, <1>6 DEF SetupInv

LEMMA AssignMastersStep ==
  ASSUME SetupInv, AssignMasters
  PROVE  SetupInv'
<1>1. /\ pc = "masters" /\ pc' = "done"
      /\ groupMaster' = {tj \in Computes \X IoGroups : IsGroupMaster(tj[1], tj[2])}
      /\ io' = [io EXCEPT ![1] = [t \in Tasks |->
                  IF \E j \in IoGroups : t \in Block(j)
                  THEN io[CHOOSE j \in IoGroups : t \in Block(j)][t] ELSE @[t]]]
      /\ UNCHANGED division /\ local' = local /\ made' = made
  BY DEF AssignMasters, division
<1>2. /\ Counts /\ MeshMade /\ LocalMade /\ io = [j \in IoGroups |-> io[j]]
      /\ nio = Smaller(cfg.perGroup, mesh[2])
  BY <1>1 DEF SetupInv
<1>3. \A j \in IoGroups : Made(j)
  BY <1>1 DEF SetupInv, IoGroups
<1>4. Divided
  BY <1>1, DividedFromInv
<1>5. 1 \in IoGroups
  BY <1>2 DEF Counts, IoGroups
<1>6. /\ Computes' = Computes /\ IoGroups' = IoGroups /\ Counts' /\ MeshMade' /\ LocalMade'
      /\ \A j, k : Server(j, k)' = Server(j, k) /\ Comm(j, k)' = Comm(j, k)
      /\ \A t : RowColor(t, nio)' = RowColor(t, nio)
  BY <1>1, <1>2, SameDivision
<1>7. UNCHANGED <<cfg, nGroups, nio, mesh>>
  BY <1>1 DEF division
<1>8. ASSUME NEW j \in IoGroups, NEW t \in Computes PROVE io'[j][t] = io[j][t]
  <2>1. ASSUME NEW i \in IoGroups PROVE t \notin Block(i)
    BY <1>4, BlockIsServers, ServersAreTasks
  <2>2. CASE j = 1
    <3>1. t \in Tasks
      BY DEF Computes
    <3>2. io'[1] = [u \in Tasks |->
                      IF \E i \in IoGroups : u \in Block(i)
                      THEN io[CHOOSE i \in IoGroups : u \in Block(i)][u] ELSE io[1][u]]
      BY <1>1, <1>2, <1>5
    <3> QED BY <2>1, <2>2, <3>1, <3>2
  <2>3. CASE j # 1
    BY <1>1, <1>2, <2>3
  <2> QED BY <2>2, <2>3
<1>9. ASSUME NEW j \in IoGroups, NEW k \in 0 .. nio - 1
      PROVE  io'[1][Server(j, k)] = Comm(j, k)
  <2> DEFINE s == Server(j, k)
  <2>1. s \in Tasks /\ s \in Block(j)
    BY <1>4, ServersAreTasks, BlockIsServers
  <2>2. ASSUME NEW i \in IoGroups, s \in Block(i) PROVE i = j
    <3>1. PICK l \in 0 .. nio - 1 : s = Server(i, l)
      BY <1>4, <2>2, BlockIsServers
    <3> QED BY <1>4, <3>1, ServersApart
  <2> HIDE DEF s
  <2>3. (CHOOSE i \in IoGroups : s \in Block(i)) = j
    BY <2>1, <2>2
  <2>4. io'[1] = [u \in Tasks |->
                    IF \E i \in IoGroups : u \in Block(i)
                    THEN io[CHOOSE i \in IoGroups : u \in Block(i)][u] ELSE io[1][u]]
    BY <1>1, <1>2, <1>5
  <2>5. io'[1][s] = io[j][s]
    BY <2>1, <2>3, <2>4
  <2> QED BY <1>3, <2>5 DEF Made, s
<1>10. \A j \in IoGroups, t \in Computes : io[j][t] = Comm(j, RowColor(t, nio))
  BY <1>3 DEF Made
<1>11. groupMaster' = {tj \in Computes \X IoGroups :
                        RankIn(tj[1], Comm(tj[2], RowColor(tj[1], nio))) = 0}
  <2>1. \A tj \in Computes \X IoGroups :
          IsGroupMaster(tj[1], tj[2]) <=>
            RankIn(tj[1], Comm(tj[2], RowColor(tj[1], nio))) = 0
    BY <1>10 DEF IsGroupMaster
  <2> QED BY <1>1, <2>1
<1>12. Done'
  BY <1>6, <1>7, <1>8, <1>9, <1>10, <1>11 DEF Done, RankIn
<1>13. io' = [j \in IoGroups' |-> io'[j]]
  BY <1>1, <1>2, <1>6
<1>14. nio' = Smaller(cfg.perGroup, mesh[2])'
  BY <1>2, <1>7 DEF Smaller
<1> QED BY <1>1, <1>6, <1>7, <1>12, <1>13, <1>14 DEF SetupInv

\* A step that changes nothing.
LEMMA StutterStep ==
  ASSUME SetupInv, UNCHANGED setupVars
  PROVE  SetupInv'
<1>1. UNCHANGED division /\ UNCHANGED <<pc, icolor, local, io, made, groupMaster>>
  BY DEF setupVars, division
<1>2. /\ Computes' = Computes /\ IoGroups' = IoGroups
      /\ Counts' = Counts /\ MeshMade' = MeshMade /\ LocalMade' = LocalMade
      /\ \A j, k : Server(j, k)' = Server(j, k) /\ Comm(j, k)' = Comm(j, k)
      /\ \A t : RowColor(t, nio)' = RowColor(t, nio)
  BY <1>1, SameDivision
<1>3. UNCHANGED <<cfg, nGroups, nio, mesh>>
  BY <1>1 DEF division
<1>4. \A j : Made(j) => Made(j)'
  BY <1>1, <1>2, <1>3 DEF Made
<1>5. Done => Done'
  BY <1>1, <1>2, <1>3 DEF Done, RankIn
<1>6. nio = Smaller(cfg.perGroup, mesh[2]) => nio' = Smaller(cfg.perGroup, mesh[2])'
  BY <1>3 DEF Smaller
<1> QED BY <1>1, <1>2, <1>3, <1>4, <1>5, <1>6 DEF SetupInv

\* The blocks of the routine set up what SetupInv says of them, in their order.
THEOREM SetupInvHolds == SetupSpec => []SetupInv
<1>1. SetupInit => SetupInv
  BY Initially
<1>2. SetupInv /\ [SetupNext]_setupVars => SetupInv'
  BY NoQuiltingStep, SizeGroupsStep, SplitLocalStep, AssignRowsStep, SplitIoGroupStep,
     SplitAvailStep, AssignMastersStep, StutterStep DEF SetupNext
<1> QED BY <1>1, <1>2, PTL DEF SetupSpec

-----------------------------------------------------------------------------
(* The theorems *)

LEMMA DoneIs ==
  ASSUME SetupInv, pc = "done"
  PROVE  Divided /\ Done /\ LocalMade
BY DividedFromInv DEF SetupInv

\* The least of the clients speaks for the communicator.
LEMMA CommIs ==
  ASSUME Divided, NEW j \in IoGroups, NEW k \in 0 .. nio - 1
  PROVE  /\ IsFiniteSet(Comm(j, k)) /\ Comm(j, k) \subseteq Nat
         /\ ClientsOf(k) \subseteq Computes /\ ClientsOf(k) # {}
         /\ Server(j, k) \in Tasks /\ Server(j, k) \notin Computes
         /\ \A t \in ClientsOf(k) : t \in Nat /\ t < Server(j, k)
<1>1. ClientsOf(k) \subseteq Computes /\ ClientsOf(k) # {}
  BY EveryServerHasAClient DEF ClientsOf
<1>2. Server(j, k) \in Tasks /\ Server(j, k) \notin Computes
  BY ServersAreTasks
<1>3. Computes \subseteq Tasks /\ Tasks \subseteq Nat /\ IsFiniteSet(Tasks)
  <2>1. cfg.ntasks \in Nat /\ ncompute \in Nat
    BY DEF Divided
  <2>2. IsFiniteSet(0 .. cfg.ntasks - 1)
    BY <2>1, FS_Interval
  <2> QED BY <2>1, <2>2 DEF Computes, Tasks
<1>4. Comm(j, k) \subseteq Tasks
  BY <1>1, <1>2, <1>3 DEF Comm
<1>5. IsFiniteSet(Comm(j, k))
  BY <1>3, <1>4, FS_Subset
<1>6. ASSUME NEW t \in ClientsOf(k) PROVE t \in Nat /\ t < Server(j, k)
  <2>1. t < ncompute /\ t \in Nat /\ Server(j, k) \in Nat /\ ~(Server(j, k) < ncompute)
    BY <1>1, <1>2, <1>3 DEF Computes
  <2>2. ncompute \in Nat
    BY DEF Divided
  <2> QED BY <2>1, <2>2
<1> QED BY <1>1, <1>2, <1>3, <1>4, <1>5, <1>6

\* Nobody is before the least of a set, and somebody before any other.
LEMMA RankZero ==
  ASSUME NEW C, IsFiniteSet(C), C \subseteq Nat, NEW t \in C
  PROVE  RankIn(t, C) = 0 <=> \A u \in C : t <= u
<1> DEFINE B == {u \in C : u < t}
<1>1. IsFiniteSet(B)
  <2>1. B \in SUBSET C
    OBVIOUS
  <2> QED BY <2>1, FS_Subset
<1>2. RankIn(t, C) = 0 <=> B = {}
  BY <1>1, FS_EmptySet DEF RankIn
<1>3. B = {} <=> \A u \in C : t <= u
  <2>1. \A u \in C : ~(u < t) <=> t <= u
    OBVIOUS
  <2> QED BY <2>1
<1> QED BY <1>2, <1>3

\* "one or more compute tasks and a single I/O server ... always the last task":
\* the root of every collective between clients and server is the one meant.
THEOREM ServerIsLast == SetupSpec => []OneServerAndLast
<1>1. SetupInv => OneServerAndLast
  <2> SUFFICES ASSUME SetupInv, pc = "done", NEW t \in Computes, NEW j \in IoGroups
               PROVE  \E s \in Servers : /\ io[j][t] \cap Servers = {s}
                                         /\ io[1][s] = io[j][t]
                                         /\ RankIn(s, io[j][t]) = Cardinality(io[j][t]) - 1
    BY DEF OneServerAndLast
  <2>1. Divided /\ Done
    BY DoneIs
  <2>2. PICK k \in 0 .. nio - 1 : k = RowColor(t, nio)
    BY <2>1, RowColorIsAServer
  <2> DEFINE s == Server(j, k)
             C == Comm(j, k)
  <2>3. io[j][t] = C /\ io[1][s] = C
    BY <2>1, <2>2 DEF Done
  <2>4. /\ IsFiniteSet(C) /\ C \subseteq Nat /\ C = ClientsOf(k) \cup {s}
        /\ ClientsOf(k) \subseteq Computes /\ s \in Tasks /\ s \notin Computes
        /\ \A u \in ClientsOf(k) : u \in Nat /\ u < s
    BY <2>1, CommIs DEF Comm
  <2>5. s \in Servers /\ C \cap Servers = {s}
    <3> HIDE DEF s, C
    <3> QED BY <2>4 DEF Servers
  <2>6. RankIn(s, C) = Cardinality(C) - 1
    <3> HIDE DEF s, C
    <3>1. {u \in C : u < s} = C \ {s}
      BY <2>4
    <3>2. Cardinality(C \ {s}) = Cardinality(C) - 1
      BY <2>4, FS_RemoveElement
    <3> QED BY <3>1, <3>2 DEF RankIn
  <2> HIDE DEF s, C
  <2> QED BY <2>3, <2>5, <2>6
<1> QED BY <1>1, SetupInvHolds, PTL

\* A group's servers have every compute task between them, each once: a field
\* assembled by the group has every patch.
THEOREM ClientsCovered == SetupSpec => []GroupsCoverClients
<1>1. SetupInv => GroupsCoverClients
  <2> SUFFICES ASSUME SetupInv, pc = "done", NEW j \in IoGroups, NEW t \in Computes
               PROVE  Cardinality({s \in Block(j) : t \in io[1][s]}) = 1
    BY DEF GroupsCoverClients
  <2>1. Divided /\ Done
    BY DoneIs
  <2>2. PICK k \in 0 .. nio - 1 : k = RowColor(t, nio)
    BY <2>1, RowColorIsAServer
  <2>3. ASSUME NEW l \in 0 .. nio - 1 PROVE t \in io[1][Server(j, l)] <=> l = k
    <3>1. io[1][Server(j, l)] = ClientsOf(l) \cup {Server(j, l)} /\ Server(j, l) \notin Computes
      BY <2>1, CommIs DEF Done, Comm
    <3> QED BY <2>2, <3>1 DEF ClientsOf
  <2>4. {s \in Block(j) : t \in io[1][s]} = {Server(j, k)}
    BY <2>1, <2>3, BlockIsServers
  <2> QED BY <2>4, FS_Singleton
<1> QED BY <1>1, SetupInvHolds, PTL

\* What a server calls its local communicator is the group its clients see.
LEMMA LocalIsBlock ==
  ASSUME Divided, LocalMade, cfg.perGroup <= mesh[2], NEW j \in IoGroups, NEW s \in Block(j)
  PROVE  local[s] = Block(j)
<1>1. /\ nio = cfg.perGroup /\ nio \in Nat \ {0} /\ ncompute \in Nat
      /\ cfg.ntasks \in Nat /\ j \in Nat
  BY DEF Divided, Smaller, IoGroups
<1>2. s \in Tasks \ Computes
  BY BlockIsServers, ServersAreTasks
<1>3. ASSUME NEW u \in Tasks \ Computes
      PROVE  u \in Block(j) <=> (u - ncompute) \div nio = j - 1
  <2>1. PICK x \in Int : x = u - ncompute
    BY <1>1 DEF Tasks
  <2>2. PICK p \in Int : p = j - 1
    BY <1>1
  <2>3. nio * (p + 1) = nio * p + nio /\ nio * p \in Int /\ nio \in Nat \ {0}
    BY <1>1
  <2>4. u \in Block(j) <=> nio * p <= x /\ x < nio * (p + 1)
    <3>1. (j - 1) * nio = nio * p /\ j * nio = nio * (p + 1)
      BY <1>1, <2>2
    <3> QED BY <1>1, <2>1, <2>3, <3>1 DEF Block, Tasks
  <2>5. x \div nio = p => nio * p <= x /\ x < nio * (p + 1)
    <3> DEFINE q == x \div nio
    <3>1. x % nio \in 0 .. nio - 1 /\ x = nio * q + (x % nio) /\ q \in Int
      BY <2>3, Division
    <3> HIDE DEF q
    <3>2. q = p => nio * p <= x /\ x < nio * (p + 1)
      BY <2>3, <3>1
    <3> QED BY <3>2 DEF q
  <2>6. nio * p <= x /\ x < nio * (p + 1) => x \div nio = p
    <3>1. HAVE nio * p <= x /\ x < nio * (p + 1)
    <3>2. x \div nio \in p .. p + 1 - 1
      <4>1. p + 1 \in Int
        OBVIOUS
      <4> QED BY <2>3, <3>1, <4>1, QuotientBounds
    <3> QED BY <3>2
  <2> QED BY <2>1, <2>2, <2>4, <2>5, <2>6
<1>4. local[s] = {u \in Tasks \ Computes : (u - ncompute) \div nio = j - 1}
  <2>1. (s - ncompute) \div nio = j - 1
    BY <1>2, <1>3
  <2>2. local[s] = {u \in Tasks \ Computes :
                     (u - ncompute) \div nio = (s - ncompute) \div nio}
    BY <1>1, <1>2 DEF LocalMade
  <2> QED BY <2>1, <2>2
<1>5. Block(j) \subseteq Tasks \ Computes
  BY BlockIsServers, ServersAreTasks
<1> QED BY <1>3, <1>4, <1>5

\* The servers that gather onto one root over mpi_comm_local are those the
\* clients of the group have, no more and no fewer.
THEOREM LocalIsGroup == SetupSpec => []LocalIsTheGroup
<1>1. SetupInv => LocalIsTheGroup
  <2> SUFFICES ASSUME SetupInv, pc = "done", FullRows, NEW j \in IoGroups, NEW s \in Block(j)
               PROVE  /\ local[s] = Block(j)
                      /\ local[s] = (UNION {io[j][t] : t \in Computes}) \cap Servers
    BY DEF LocalIsTheGroup
  <2>1. Divided /\ Done /\ LocalMade
    BY DoneIs
  <2>2. local[s] = Block(j)
    BY <2>1, LocalIsBlock DEF FullRows
  <2>3. ASSUME NEW u \in Block(j)
        PROVE  u \in (UNION {io[j][t] : t \in Computes}) \cap Servers
    <3>1. PICK k \in 0 .. nio - 1 : u = Server(j, k)
      BY <2>1, BlockIsServers
    <3>2. PICK t \in Computes : RowColor(t, nio) = k
      BY <2>1, EveryServerHasAClient DEF ClientsOf
    <3>3. u \in io[j][t]
      BY <2>1, <3>1, <3>2 DEF Done, Comm
    <3>4. u \in Servers
      BY <2>1, <3>1, ServersAreTasks DEF Servers
    <3> QED BY <3>3, <3>4
  <2>4. ASSUME NEW t \in Computes, NEW u \in io[j][t] \cap Servers
        PROVE  u \in Block(j)
    <3>1. PICK k \in 0 .. nio - 1 : k = RowColor(t, nio)
      BY <2>1, RowColorIsAServer
    <3>2. io[j][t] = ClientsOf(k) \cup {Server(j, k)} /\ ClientsOf(k) \subseteq Computes
      BY <2>1, <3>1 DEF Done, Comm, ClientsOf
    <3>3. u = Server(j, k)
      BY <3>2 DEF Servers
    <3> QED BY <2>1, <3>3, BlockIsServers
  <2>5. Block(j) = (UNION {io[j][t] : t \in Computes}) \cap Servers
    BY <2>3, <2>4
  <2> QED BY <2>2, <2>5
<1> QED BY <1>1, SetupInvHolds, PTL

\* Compute task 0, which alone sends commands, is in every group the master of the
\* server that is first in it, the one that drops records of no operation.
THEOREM MonitorHasFirst == SetupSpec => []MonitorServedByFirst
<1>1. SetupInv => MonitorServedByFirst
  <2> SUFFICES ASSUME SetupInv, pc = "done", FullRows, NEW j \in IoGroups
               PROVE  /\ <<0, j>> \in groupMaster
                      /\ \A s \in Block(j) : (0 \in io[1][s]) <=> RankIn(s, local[s]) = 0
    BY DEF MonitorServedByFirst
  <2>1. Divided /\ Done /\ LocalMade
    BY DoneIs
  <2>2. 0 \in Computes /\ RowColor(0, nio) = 0 /\ 0 \in 0 .. nio - 1
    <3>1. 0 \in Computes /\ RowColor(0, nio) = 0
      BY <2>1, EveryServerHasAClient DEF ClientsOf
    <3> QED BY <2>1, <3>1, RowColorIsAServer
  <2>3. <<0, j>> \in groupMaster
    <3> DEFINE C == Comm(j, 0)
    <3>1. IsFiniteSet(C) /\ C \subseteq Nat /\ 0 \in C
      BY <2>1, <2>2, CommIs DEF Comm, ClientsOf
    <3> HIDE DEF C
    <3>2. \A u \in C : 0 <= u
      BY <3>1
    <3>3. RankIn(0, C) = 0
      BY <3>1, <3>2, RankZero, Zenon
    <3> QED BY <2>1, <2>2, <3>3 DEF Done, C
  <2>4. ASSUME NEW s \in Block(j) PROVE (0 \in io[1][s]) <=> RankIn(s, local[s]) = 0
    <3>1. PICK k \in 0 .. nio - 1 : s = Server(j, k)
      BY <2>1, BlockIsServers
    <3>2. 0 \in io[1][s] <=> k = 0
      <4>1. io[1][s] = ClientsOf(k) \cup {s} /\ s \notin Computes
        BY <2>1, <3>1, CommIs DEF Done, Comm
      <4> QED BY <2>2, <4>1 DEF ClientsOf
    <3>3. local[s] = Block(j)
      BY <2>1, LocalIsBlock DEF FullRows
    <3>4. IsFiniteSet(Block(j)) /\ Block(j) \subseteq Nat
      <4>1. cfg.ntasks \in Nat
        BY <2>1 DEF Divided
      <4>2. IsFiniteSet(Tasks) /\ Tasks \subseteq Nat
        <5>1. IsFiniteSet(0 .. cfg.ntasks - 1)
          BY <4>1, FS_Interval
        <5> QED BY <4>1, <5>1 DEF Tasks
      <4>3. Block(j) \in SUBSET Tasks
        BY DEF Block
      <4> QED BY <4>2, <4>3, FS_Subset
    <3>5. (\A u \in Block(j) : s <= u) <=> k = 0
      <4>1. PICK b \in Int : b = ncompute + (j - 1) * nio
        BY <2>1, ServersAreFew DEF Divided, IoGroups
      <4>2. \A l \in 0 .. nio - 1 : Server(j, l) = b + l
        BY <4>1 DEF Server
      <4>3. Block(j) = {b + l : l \in 0 .. nio - 1}
        BY <2>1, <4>2, BlockIsServers
      <4>4. s = b + k
        BY <3>1, <4>2
      <4>5. b + 0 \in Block(j)
        BY <2>2, <4>3
      <4>6. (\A u \in Block(j) : s <= u) => k = 0
        <5> HAVE \A u \in Block(j) : s <= u
        <5>1. s <= b + 0
          BY <4>5
        <5> QED BY <4>1, <4>4, <5>1, <3>1
      <4>7. ASSUME k = 0, NEW u \in Block(j) PROVE s <= u
        <5>1. PICK l \in 0 .. nio - 1 : u = b + l
          BY <4>3
        <5> QED BY <4>1, <4>4, <4>7, <5>1
      <4> QED BY <4>6, <4>7
    <3> QED BY <3>2, <3>3, <3>4, <3>5, RankZero
  <2> QED BY <2>3, <2>4
<1> QED BY <1>1, SetupInvHolds, PTL

\* One client of each server relays commands to it.
THEOREM MasterIsUnique == SetupSpec => []OneMasterPerServer
<1>1. SetupInv => OneMasterPerServer
  <2> SUFFICES ASSUME SetupInv, pc = "done", NEW j \in IoGroups, NEW t \in Computes
               PROVE  Cardinality({u \in io[j][t] : <<u, j>> \in groupMaster}) = 1
    BY DEF OneMasterPerServer
  <2>1. Divided /\ Done
    BY DoneIs
  <2>2. PICK k \in 0 .. nio - 1 : k = RowColor(t, nio)
    BY <2>1, RowColorIsAServer
  <2> DEFINE C == Comm(j, k)
  <2>3. /\ io[j][t] = C /\ C = ClientsOf(k) \cup {Server(j, k)}
        /\ IsFiniteSet(C) /\ C \subseteq Nat
        /\ ClientsOf(k) \subseteq Computes /\ ClientsOf(k) # {} /\ Server(j, k) \notin Computes
        /\ \A u \in ClientsOf(k) : u \in Nat /\ u < Server(j, k)
    BY <2>1, <2>2, CommIs DEF Done, Comm
  <2>4. PICK m \in ClientsOf(k) : \A u \in ClientsOf(k) : m <= u
    <3>1. ClientsOf(k) \subseteq Nat
      BY <2>3
    <3> QED BY <2>3, <3>1, LeastNumber
  <2>5. ASSUME NEW u \in C PROVE <<u, j>> \in groupMaster <=> u = m
    <3>1. CASE u = Server(j, k)
      BY <2>1, <2>3, <2>4, <3>1 DEF Done
    <3>2. CASE u \in ClientsOf(k)
      <4>1. <<u, j>> \in groupMaster <=> RankIn(u, C) = 0
        BY <2>1, <2>3, <3>2 DEF Done, ClientsOf
      <4>2. RankIn(u, C) = 0 <=> \A v \in C : u <= v
        <5> HIDE DEF C
        <5> QED BY <2>3, RankZero
      <4>3. (\A v \in C : u <= v) => u = m
        <5>1. m \in C /\ m \in Nat /\ u \in Nat /\ m <= u
          BY <2>3, <2>4, <3>2
        <5> QED BY <5>1
      <4>4. u = m => \A v \in C : u <= v
        <5>1. \A v \in ClientsOf(k) : m <= v
          BY <2>4
        <5>2. m <= Server(j, k)
          <6>1. Server(j, k) \in Nat /\ m \in Nat /\ m < Server(j, k)
            BY <2>3
          <6> QED BY <6>1
        <5> HIDE DEF C
        <5> QED BY <2>3, <5>1, <5>2
      <4> QED BY <4>1, <4>2, <4>3, <4>4
    <3> HIDE DEF C
    <3> QED BY <2>3, <3>1, <3>2
  <2>6. {u \in io[j][t] : <<u, j>> \in groupMaster} = {m}
    <3> HIDE DEF C
    <3> QED BY <2>3, <2>4, <2>5
  <2> QED BY <2>6, FS_Singleton
<1> QED BY <1>1, SetupInvHolds, PTL

-----------------------------------------------------------------------------
(***************************************************************************)
(* The clients.                                                            *)
(***************************************************************************)

(* The inductive invariant.                                                 *)

Training(c) == stage[c] \in {"trainMeta", "train", "commit"}

\* HandlesLocked, for one client.
Locked(c) ==
  /\ \A s \in Streams : oid[c][s] # 0 => inUse[c][oid[c][s]]
  /\ \A r, s \in Streams : r # s /\ oid[c][r] # 0 => oid[c][r] # oid[c][s]
  /\ \A h \in Handles :
       IF inUse[c][h] THEN server[c][h] \in Groups
       ELSE server[c][h] = 0 /\ ~okw[c][h] /\ bytes[c][h] = 0

\* An output without a file is opening one; every other has its handle.
Placed(c) ==
  /\ stage[c] = "open" => oid[c][cur[c]] = 0
  /\ Writing(c) \/ stage[c] \in {"close", "lastClose"} => oid[c][cur[c]] # 0
  /\ stage[c] \notin {"train", "write"} => fld[c] = 1

\* The handle of the file being trained has the size of the fields trained so
\* far, and every other open handle that of a whole output.
Trained(c) == IF stage[c] = "commit" THEN NF ELSE fld[c] - 1
Sized(c) ==
  \A s \in Streams : oid[c][s] # 0 =>
    IF s = cur[c] /\ Training(c)
    THEN ~okw[c][oid[c][s]] /\ bytes[c][oid[c][s]] = Trained(c)
    ELSE okw[c][oid[c][s]] /\ bytes[c][oid[c][s]] = NF

\* The buffer holds the fields packed so far, and is empty between two outputs.
InBuffer(c) ==
  IF stage[c] = "write" THEN fld[c] - 1 ELSE IF stage[c] = "sync" THEN NF ELSE 0
Filled(c) ==
  /\ Len(buf[c]) = InBuffer(c)
  /\ \A i \in 1 .. Len(buf[c]) : buf[c][i] = Rec("field", Handle(c), i, Date(c), c)

ClientInv(c) == Locked(c) /\ Placed(c) /\ Sized(c) /\ Filled(c)
IInv == ClientTypeOK /\ \A c \in Clients : ClientInv(c)

-----------------------------------------------------------------------------
(* Facts used by every step.                                                *)

\* Records have their type.
LEMMA RecType ==
  ASSUME NEW tag \in {"open", "meta", "train", "commit", "field"}, NEW h \in 0 .. NH,
         NEW v \in Nat, NEW date \in Nat, NEW c \in Clients
  PROVE  Rec(tag, h, v, date, c) \in Records /\ Noop(c) \in Records
BY ClientConstants DEF Rec, Noop, Records

\* The messages of a call are messages.
LEMMA MessageType ==
  ASSUME NEW c \in Clients, NEW h \in Handles, NEW recs \in Seq(Records)
  PROVE  Message(c, h, recs) \in Seq(Messages)
<1>1. Reduce(Len(recs), OnMonitor(c, h, 0)) \in Messages
  <2>1. <<>> \in Seq(Records) BY EmptySeq
  <2>2. Len(recs) \in Int BY LenProperties
  <2>3. OnMonitor(c, h, 0) \in 0 .. NH BY ClientConstants DEF OnMonitor, Handles
  <2> QED BY <2>1, <2>2, <2>3 DEF Reduce, Messages
<1>2. Gather(recs) \in Messages
  BY ClientConstants DEF Gather, Messages
<1> QED BY <1>1, <1>2 DEF Message

\* Sending appends messages to one channel.
LEMMA SendType ==
  ASSUME MessagesTypeOK, NEW c \in Clients, NEW g \in Groups,
         NEW msgs \in Seq(Messages), Send(c, g, msgs)
  PROVE  chan' \in [Clients -> [Groups -> Seq(Messages)]]
<1>1. chan[c][g] \o msgs \in Seq(Messages)
  BY ConcatProperties DEF MessagesTypeOK
<1> QED BY <1>1 DEF Send, MessagesTypeOK

\* Looking up the group of a handle keeps the types it is concerned with, and
\* finds a group.
LEMMA ServerIdType ==
  ASSUME TablesTypeOK, MessagesTypeOK, NEW c \in Clients, NEW h \in Handles,
         NEW g \in Groups, ServerId(c, h, g)
  PROVE  /\ prev' \in [Clients -> -1 .. NG - 1]
         /\ idle' \subseteq Groups
         /\ found' \in Seq(Groups)
         /\ seen' \in [Clients -> Nat]
<1>1. NextTurn(c) \in -1 .. NG - 1
  <2>1. prev[c] \in Int /\ NG \in Nat \ {0}
    BY ClientConstants DEF TablesTypeOK
  <2> QED BY <2>1 DEF NextTurn
<1>2. Append(found, g) \in Seq(Groups)
  BY DEF MessagesTypeOK
<1>3. seen[c] + 1 \in Nat BY DEF MessagesTypeOK
<1>4. CASE UNCHANGED <<prev, pollVars>>
  BY <1>4 DEF pollVars, TablesTypeOK, MessagesTypeOK
<1>5. CASE FindServer(c, g) /\ UNCHANGED prev
  <2>1. idle' \subseteq Groups /\ found' \in Seq(Groups)
    BY <1>5, <1>2 DEF FindServer, MessagesTypeOK
  <2> QED BY <1>3, <1>5, <2>1 DEF FindServer, TablesTypeOK, MessagesTypeOK
<1>6. CASE prev' = [prev EXCEPT ![c] = NextTurn(c)] /\ UNCHANGED pollVars
  BY <1>1, <1>6 DEF pollVars, TablesTypeOK, MessagesTypeOK
<1> QED BY <1>4, <1>5, <1>6 DEF ServerId

\* Following the plan keeps its type.
LEMMA FollowType ==
  ASSUME MediationTypeOK, NEW c \in Clients, NEW x \in Streams \cup {Stop}, Follow(c, x)
  PROVE  plan' \in Seq(Streams \cup {Stop}) /\ pos' \in [Clients -> Nat]
<1>1. Append(plan, x) \in Seq(Streams \cup {Stop}) BY DEF MediationTypeOK
<1>2. pos[c] + 1 \in Nat BY DEF MediationTypeOK
<1>3. plan' = plan \/ plan' = Append(plan, x) BY DEF Follow
<1>4. pos' = [pos EXCEPT ![c] = pos[c] + 1] BY DEF Follow
<1>5. plan' \in Seq(Streams \cup {Stop}) BY <1>1, <1>3 DEF MediationTypeOK
<1>6. pos' \in [Clients -> Nat] BY <1>2, <1>4 DEF MediationTypeOK
<1> QED BY <1>5, <1>6

\* Dates and streams are numbers; an open handle is a handle.
LEMMA OutputType ==
  ASSUME MediationTypeOK, NEW c \in Clients
  PROVE  /\ cur[c] \in Streams /\ cur[c] \in Nat /\ fld[c] \in Nat /\ Date(c) \in Nat
         /\ Handle(c) \in 0 .. NH
         /\ \A s \in Streams : oid[c][s] # 0 => oid[c][s] \in Handles
<1>1. cur[c] \in Streams /\ fld[c] \in 1 .. NF BY DEF MediationTypeOK
<1>2. outs[c][cur[c]] \in Nat /\ oid[c][cur[c]] \in 0 .. NH BY <1>1 DEF MediationTypeOK
<1>3. \A s \in Streams : oid[c][s] # 0 => oid[c][s] \in Handles
  <2>1. NH \in Nat BY ClientConstants
  <2>2. \A s \in Streams : oid[c][s] \in 0 .. NH BY DEF MediationTypeOK
  <2>3. \A i \in 0 .. NH : i # 0 => i \in Handles BY <2>1 DEF Handles
  <2> QED BY <2>2, <2>3
<1>4. cur[c] \in Nat /\ fld[c] \in Nat BY <1>1, ClientConstants DEF Streams
<1> QED BY <1>1, <1>2, <1>3, <1>4 DEF Date, Handle

\* Outside the writing of fields the buffer is empty.
LEMMA EmptyBuffer ==
  ASSUME TablesTypeOK, NEW c \in Clients, Filled(c), stage[c] \notin {"write", "sync"}
  PROVE  buf[c] = NoBuf
<1>1. buf[c] \in Seq(Records) /\ Len(buf[c]) = 0
  BY DEF TablesTypeOK, Filled, InBuffer
<1> QED BY <1>1, EmptySeq DEF NoBuf

LEMMA BufferStaysEmpty ==
  ASSUME NEW c \in Clients, buf'[c] = NoBuf,
         \/ stage'[c] \notin {"write", "sync"}
         \/ stage'[c] = "write" /\ fld'[c] = 1
  PROVE  Filled(c)'
<1>1. Len(buf'[c]) = 0 BY EmptySeq DEF NoBuf
<1>2. 1 .. Len(buf'[c]) = {} BY <1>1
<1> QED BY <1>1, <1>2 DEF Filled, InBuffer

\* A step that leaves the tables of a client alone keeps its rules.
Same(d) ==
  /\ stage'[d] = stage[d] /\ cur'[d] = cur[d] /\ fld'[d] = fld[d]
  /\ outs'[d] = outs[d] /\ oid'[d] = oid[d]
  /\ inUse'[d] = inUse[d] /\ okw'[d] = okw[d] /\ bytes'[d] = bytes[d]
  /\ server'[d] = server[d] /\ buf'[d] = buf[d]

LEMMA Frame ==
  ASSUME NEW d \in Clients, ClientInv(d), Same(d)
  PROVE  ClientInv(d)'
BY DEF Same, ClientInv, Locked, Placed, Sized, Filled, InBuffer, Trained, Training,
       Writing, Handle, Date, Rec

\* While a file is written to, its handle is open.
LEMMA OpenHandle ==
  ASSUME MediationTypeOK, NEW c \in Clients, Locked(c), Placed(c),
         Writing(c) \/ stage[c] \in {"close", "lastClose"}
  PROVE  Handle(c) \in Handles /\ Handle(c) # 0 /\ inUse[c][Handle(c)]
<1>1. oid[c][cur[c]] # 0 /\ cur[c] \in Streams BY OutputType DEF Placed
<1> QED BY <1>1, OutputType DEF Locked, Handle

\* Locking an open handle onto a group keeps the handle rules.
LEMMA Relock ==
  ASSUME TablesTypeOK, NEW c \in Clients, NEW h \in Handles, NEW g \in Groups,
         Locked(c), inUse[c][h], LockOnto(c, h, g),
         oid'[c] = oid[c], inUse'[c] = inUse[c],
         \A k \in Handles : k # h => okw'[c][k] = okw[c][k] /\ bytes'[c][k] = bytes[c][k]
  PROVE  Locked(c)' /\ server' \in [Clients -> [Handles -> 0 .. NG]]
<1>1. server' = [server EXCEPT ![c][h] = g] /\ g \in 0 .. NG
  BY ClientConstants DEF LockOnto, Groups
<1>2. server' \in [Clients -> [Handles -> 0 .. NG]] BY <1>1 DEF TablesTypeOK
<1>3. \A k \in Handles : server'[c][k] = IF k = h THEN g ELSE server[c][k]
  BY <1>1 DEF TablesTypeOK
<1>4. \A k \in Handles : IF inUse'[c][k] THEN server'[c][k] \in Groups
                         ELSE server'[c][k] = 0 /\ ~okw'[c][k] /\ bytes'[c][k] = 0
  BY <1>3 DEF Locked
<1> QED BY <1>2, <1>4 DEF Locked

\* Sending one record in a message of its own, or a noop in its place.
LEMMA CallType ==
  ASSUME MessagesTypeOK, NEW c \in Clients, NEW g \in Groups, NEW h \in Handles,
         NEW rec \in Records,
         \/ Send(c, g, Message(c, h, <<rec>>))
         \/ Send(c, g, Message(c, h, <<OnMonitor(c, rec, Noop(c))>>))
  PROVE  chan' \in [Clients -> [Groups -> Seq(Messages)]]
<1>1. Noop(c) \in Records BY ClientConstants DEF Noop, Rec, Records
<1>2. <<rec>> \in Seq(Records) /\ <<OnMonitor(c, rec, Noop(c))>> \in Seq(Records)
  BY <1>1 DEF OnMonitor
<1> QED BY <1>2, SendType, MessageType

-----------------------------------------------------------------------------
(* The initial states.                                                      *)

LEMMA InitIInv ==
  ASSUME Init
  PROVE  IInv
<1>1. MediationTypeOK
  BY ClientConstants DEF Init, MediationTypeOK, Stages, Streams
<1>2. TablesTypeOK
  BY ClientConstants, EmptySeq DEF Init, TablesTypeOK, NoBuf
<1>3. MessagesTypeOK
  BY EmptySeq DEF Init, MessagesTypeOK
<1>4. ASSUME NEW c \in Clients PROVE ClientInv(c)
  BY <1>4, EmptySeq DEF Init, ClientInv, Locked, Placed, Sized, Filled, InBuffer, Writing, NoBuf
<1> QED BY <1>1, <1>2, <1>3, <1>4 DEF IInv, ClientTypeOK

-----------------------------------------------------------------------------
(* The steps of a client.                                                   *)

LEMMA BeginOutputStep ==
  ASSUME IInv, NEW c \in Clients, BeginOutput(c)
  PROVE  IInv'
<1> USE DEF IInv, ClientTypeOK
<1>1. PICK s \in Streams :
        /\ Follow(c, s)
        /\ cur' = [cur EXCEPT ![c] = s]
        /\ outs' = [outs EXCEPT ![c][s] = @ + 1]
        /\ stage' = [stage EXCEPT ![c] = IF oid[c][s] = 0 THEN "open" ELSE "putMeta"]
  BY DEF BeginOutput
<1>2. UNCHANGED <<fld, oid, frames, exited, tableVars, chan, pollVars>> /\ stage[c] = "idle"
  BY DEF BeginOutput
<1>3. plan' \in Seq(Streams \cup {Stop}) /\ pos' \in [Clients -> Nat]
  BY <1>1, FollowType
<1>4. MediationTypeOK'
  <2>1. outs[c][s] + 1 \in Nat BY DEF MediationTypeOK
  <2>2. outs' \in [Clients -> [Streams -> Nat]] BY <1>1, <2>1 DEF MediationTypeOK
  <2>3. stage' \in [Clients -> Stages] BY <1>1 DEF MediationTypeOK, Stages
  <2> QED BY <1>1, <1>2, <1>3, <2>2, <2>3 DEF MediationTypeOK
<1>5. TablesTypeOK' /\ MessagesTypeOK'
  BY <1>2 DEF tableVars, pollVars, TablesTypeOK, MessagesTypeOK
<1>6. ASSUME NEW d \in Clients, d # c PROVE ClientInv(d)'
  BY <1>1, <1>2, <1>6, Frame DEF Same, tableVars, MediationTypeOK
<1>7. ClientInv(c)'
  <2>1. Locked(c)' BY <1>2 DEF ClientInv, Locked, tableVars
  <2>2. Placed(c)'
    BY <1>1, <1>2 DEF ClientInv, Placed, Writing, MediationTypeOK
  <2>3. Sized(c)'
    BY <1>1, <1>2 DEF ClientInv, Sized, Training, Trained, tableVars, MediationTypeOK
  <2>4. buf'[c] = NoBuf /\ stage'[c] \notin {"write", "sync"}
    BY <1>1, <1>2, EmptyBuffer DEF ClientInv, tableVars, MediationTypeOK
  <2>5. Filled(c)' BY <2>4, BufferStaysEmpty
  <2> QED BY <2>1, <2>2, <2>3, <2>5 DEF ClientInv
<1> QED BY <1>4, <1>5, <1>6, <1>7

LEMMA OpenForWriteBeginStep ==
  ASSUME IInv, NEW c \in Clients, OpenForWriteBegin(c)
  PROVE  IInv'
<1> USE DEF IInv, ClientTypeOK
<1>1. PICK h \in Handles, g \in Groups :
        /\ FreshHandle(c, h)
        /\ ServerId(c, h, g)
        /\ LockOnto(c, h, g)
        /\ inUse' = [inUse EXCEPT ![c][h] = TRUE]
        /\ okw' = [okw EXCEPT ![c][h] = FALSE]
        /\ oid' = [oid EXCEPT ![c][cur[c]] = h]
        /\ Send(c, g, Message(c, h, <<OnMonitor(c,
                  Rec("open", h, cur[c], Date(c), c), Noop(c))>>))
  BY DEF OpenForWriteBegin
<1>2. /\ stage[c] = "open"
      /\ buf' = [buf EXCEPT ![c] = NoBuf]
      /\ stage' = [stage EXCEPT ![c] = "trainMeta"]
      /\ UNCHANGED <<plan, pos, cur, fld, outs, frames, exited, bytes>>
  BY DEF OpenForWriteBegin
<1> DEFINE rec == OnMonitor(c, Rec("open", h, cur[c], Date(c), c), Noop(c))
<1>3. <<rec>> \in Seq(Records)
  <2>1. h \in 0 .. NH /\ cur[c] \in Nat /\ Date(c) \in Nat
    BY ClientConstants, OutputType DEF Handles
  <2>2. Rec("open", h, cur[c], Date(c), c) \in Records /\ Noop(c) \in Records
    BY <2>1, RecType
  <2> QED BY <2>2 DEF OnMonitor
<1>4. MediationTypeOK'
  BY <1>1, <1>2 DEF MediationTypeOK, Stages, Handles
<1>5. TablesTypeOK'
  BY <1>1, <1>2, ServerIdType, EmptySeq DEF TablesTypeOK, LockOnto, NoBuf, Groups
<1>6. MessagesTypeOK'
  BY <1>1, <1>3, ServerIdType, SendType, MessageType DEF MessagesTypeOK
<1>7. ASSUME NEW d \in Clients, d # c PROVE ClientInv(d)'
  BY <1>1, <1>2, <1>7, Frame DEF Same, LockOnto, MediationTypeOK, TablesTypeOK
<1>8. ClientInv(c)'
  <2>1. /\ ~inUse[c][h] /\ bytes[c][h] = 0 /\ oid[c][cur[c]] = 0
        /\ \A s \in Streams : oid[c][s] # h
    BY <1>1, <1>2, ClientConstants DEF FreshHandle, ClientInv, Locked, Placed, Handles
  <2>2. /\ oid'[c] = [oid[c] EXCEPT ![cur[c]] = h] /\ inUse'[c] = [inUse[c] EXCEPT ![h] = TRUE]
        /\ okw'[c] = [okw[c] EXCEPT ![h] = FALSE] /\ server'[c] = [server[c] EXCEPT ![h] = g]
        /\ cur'[c] \in Streams /\ h # 0
    BY <1>1, <1>2, ClientConstants DEF LockOnto, MediationTypeOK, TablesTypeOK, Handles
  <2>3. Locked(c)'
    <3>1. /\ \A s \in Streams : oid'[c][s] = IF s = cur[c] THEN h ELSE oid[c][s]
          /\ \A k \in Handles : k # h =>
               /\ inUse'[c][k] = inUse[c][k] /\ okw'[c][k] = okw[c][k]
               /\ server'[c][k] = server[c][k] /\ bytes'[c][k] = bytes[c][k]
          /\ inUse'[c][h] /\ server'[c][h] = g
      BY <1>2, <2>2 DEF MediationTypeOK, TablesTypeOK
    <3>2. \A s \in Streams : oid[c][s] # 0 => oid[c][s] \in Handles
      BY OutputType
    <3>3. \A s \in Streams : oid'[c][s] # 0 => inUse'[c][oid'[c][s]]
      BY <2>1, <3>1, <3>2 DEF ClientInv, Locked
    <3>4. \A r, s \in Streams : r # s /\ oid'[c][r] # 0 => oid'[c][r] # oid'[c][s]
      BY <2>1, <3>1 DEF ClientInv, Locked
    <3>5. \A k \in Handles : IF inUse'[c][k] THEN server'[c][k] \in Groups
                             ELSE server'[c][k] = 0 /\ ~okw'[c][k] /\ bytes'[c][k] = 0
      BY <3>1 DEF ClientInv, Locked
    <3> QED BY <3>3, <3>4, <3>5 DEF Locked
  <2>4. Placed(c)'
    BY <1>2, <2>2 DEF ClientInv, Placed, Writing, MediationTypeOK
  <2>5. Sized(c)'
    <3>1. stage'[c] = "trainMeta" /\ cur'[c] = cur[c] /\ fld'[c] = 1
      BY <1>2 DEF ClientInv, Placed, MediationTypeOK
    <3>2. \A s \in Streams : s # cur[c] /\ oid'[c][s] # 0 =>
            /\ oid'[c][s] = oid[c][s] /\ okw'[c][oid[c][s]] /\ bytes'[c][oid[c][s]] = NF
      BY <1>2, <2>1, <2>2, OutputType
      DEF ClientInv, Sized, MediationTypeOK, TablesTypeOK
    <3>3. /\ oid'[c][cur[c]] = h /\ ~okw'[c][h] /\ bytes'[c][h] = 0
      BY <1>2, <2>1, <2>2 DEF MediationTypeOK, TablesTypeOK
    <3> QED BY <3>1, <3>2, <3>3 DEF Sized, Training, Trained
  <2>6. Filled(c)'
    <3>1. buf'[c] = NoBuf /\ stage'[c] = "trainMeta"
      BY <1>2 DEF MediationTypeOK, TablesTypeOK
    <3> QED BY <3>1, BufferStaysEmpty
  <2> QED BY <2>3, <2>4, <2>5, <2>6 DEF ClientInv
<1> QED BY <1>4, <1>5, <1>6, <1>7, <1>8

LEMMA PutMetaStep ==
  ASSUME IInv, NEW c \in Clients, PutMeta(c)
  PROVE  IInv'
<1> USE DEF IInv, ClientTypeOK
<1> DEFINE h == Handle(c)
<1>1. /\ stage[c] \in {"trainMeta", "putMeta"}
      /\ stage' = [stage EXCEPT ![c] = IF @ = "trainMeta" THEN "train" ELSE "write"]
      /\ UNCHANGED <<plan, pos, cur, fld, outs, oid, frames, exited, inUse, okw, bytes, buf>>
  BY DEF PutMeta
<1>2. h \in Handles /\ inUse[c][h]
  BY <1>1, OpenHandle DEF ClientInv, Writing
<1>3. PICK g \in Groups :
        /\ ServerId(c, h, g)
        /\ LockOnto(c, h, g)
        /\ Send(c, g, Message(c, h, <<OnMonitor(c, Rec("meta", h, 0, Date(c), c), Noop(c))>>))
  BY <1>2 DEF PutMeta
<1>4. Rec("meta", h, 0, Date(c), c) \in Records
  BY OutputType, RecType
<1>5. MediationTypeOK'
  BY <1>1 DEF MediationTypeOK, Stages
<1>6. Locked(c)' /\ server' \in [Clients -> [Handles -> 0 .. NG]]
  BY <1>1, <1>2, <1>3, Relock DEF ClientInv
<1>7. TablesTypeOK'
  BY <1>1, <1>2, <1>3, <1>6, ServerIdType DEF TablesTypeOK
<1>8. MessagesTypeOK'
  BY <1>2, <1>3, <1>4, ServerIdType, CallType DEF MessagesTypeOK
<1>9. ASSUME NEW d \in Clients, d # c PROVE ClientInv(d)'
  BY <1>1, <1>3, <1>9, Frame DEF Same, LockOnto, MediationTypeOK, TablesTypeOK
<1>10. ClientInv(c)'
  <2>1. Placed(c)' BY <1>1 DEF ClientInv, Placed, Writing, MediationTypeOK
  <2>2. Sized(c)' BY <1>1 DEF ClientInv, Placed, Sized, Training, Trained, MediationTypeOK
  <2>3. buf'[c] = NoBuf /\ fld'[c] = 1 /\ stage'[c] \in {"train", "write"}
    BY <1>1, EmptyBuffer DEF ClientInv, Placed, MediationTypeOK
  <2>4. Filled(c)' BY <2>3, BufferStaysEmpty
  <2> QED BY <1>6, <2>1, <2>2, <2>4 DEF ClientInv
<1> QED BY <1>5, <1>7, <1>8, <1>9, <1>10

\* The next field of a pass keeps the types, and the fields are counted.
LEMMA NextFieldType ==
  ASSUME MediationTypeOK, NEW c \in Clients, stage[c] \in {"train", "write"}, NextField(c)
  PROVE  /\ fld' \in [Clients -> 1 .. NF] /\ stage' \in [Clients -> Stages]
         /\ \/ /\ fld[c] < NF /\ fld'[c] = fld[c] + 1 /\ stage'[c] = stage[c]
            \/ /\ fld[c] = NF /\ fld'[c] = 1
               /\ stage'[c] = IF stage[c] = "train" THEN "commit" ELSE "sync"
         /\ \A d \in Clients : d # c => fld'[d] = fld[d] /\ stage'[d] = stage[d]
<1>1. fld[c] \in 1 .. NF /\ NF \in Nat BY ClientConstants DEF MediationTypeOK
<1>2. CASE fld[c] < NF
  <2>1. fld[c] + 1 \in 1 .. NF BY <1>1, <1>2
  <2> QED BY <1>2, <2>1 DEF NextField, MediationTypeOK
<1>3. CASE ~(fld[c] < NF)
  <2>1. fld[c] = NF /\ 1 \in 1 .. NF BY <1>1, <1>3
  <2> QED BY <1>3, <2>1 DEF NextField, MediationTypeOK, Stages
<1> QED BY <1>2, <1>3

LEMMA TrainFieldStep ==
  ASSUME IInv, NEW c \in Clients, TrainField(c)
  PROVE  IInv'
<1> USE DEF IInv, ClientTypeOK
<1> DEFINE h == Handle(c)
<1>1. /\ stage[c] \in {"train", "write"}
      /\ inUse[c][h] /\ ~okw[c][h]
      /\ bytes' = [bytes EXCEPT ![c][h] = @ + 1]
      /\ NextField(c)
      /\ UNCHANGED <<plan, pos, cur, outs, oid, frames, exited, inUse, okw, buf>>
  BY DEF TrainField
<1>2. PICK g \in Groups :
        /\ ServerId(c, h, g)
        /\ LockOnto(c, h, g)
        /\ Send(c, g, Message(c, h, <<Rec("train", h, fld[c], Date(c), c)>>))
  BY DEF TrainField
<1>3. h \in Handles /\ h # 0
  BY <1>1, OpenHandle DEF ClientInv, Writing
<1>4. Rec("train", h, fld[c], Date(c), c) \in Records
  BY OutputType, RecType
<1>5. stage[c] = "train"
  <2>1. Training(c) BY <1>1, <1>3, OutputType DEF ClientInv, Sized, Handle
  <2> QED BY <1>1, <2>1 DEF Training
<1>6. MediationTypeOK'
  BY <1>1, NextFieldType DEF MediationTypeOK
<1>7. /\ bytes' \in [Clients -> [Handles -> Nat]]
      /\ bytes'[c][h] = bytes[c][h] + 1
      /\ \A k \in Handles : k # h => bytes'[c][k] = bytes[c][k]
  <2>1. bytes[c][h] + 1 \in Nat BY <1>3 DEF TablesTypeOK
  <2> QED BY <1>1, <1>3, <2>1 DEF TablesTypeOK
<1>8. Locked(c)' /\ server' \in [Clients -> [Handles -> 0 .. NG]]
  BY <1>1, <1>2, <1>3, <1>7, Relock DEF ClientInv
<1>9. TablesTypeOK'
  BY <1>1, <1>2, <1>3, <1>7, <1>8, ServerIdType DEF TablesTypeOK
<1>10. MessagesTypeOK'
  BY <1>2, <1>3, <1>4, ServerIdType, CallType DEF MessagesTypeOK
<1>11. ASSUME NEW d \in Clients, d # c PROVE ClientInv(d)'
  BY <1>1, <1>2, <1>11, Frame, NextFieldType DEF Same, LockOnto, MediationTypeOK, TablesTypeOK
<1>12. ClientInv(c)'
  <2>1. Placed(c)'
    BY <1>1, <1>3, <1>5, NextFieldType DEF ClientInv, Placed, Writing, Handle
  <2>2. Sized(c)'
    <3>1. \A s \in Streams : s # cur[c] /\ oid[c][s] # 0 => oid[c][s] # h
      BY <1>3, OutputType DEF ClientInv, Locked, Handle
    <3>2. bytes[c][h] = fld[c] - 1
      BY <1>3, <1>5, OutputType DEF ClientInv, Sized, Training, Trained, Handle
    <3>3. bytes'[c][h] = Trained(c)' /\ Training(c)'
      <4>1. \/ fld'[c] = fld[c] + 1 /\ stage'[c] = "train"
            \/ fld[c] = NF /\ stage'[c] = "commit"
        BY <1>1, <1>5, NextFieldType
      <4>2. fld[c] \in Nat BY OutputType
      <4> QED BY <4>1, <4>2, <1>7, <3>2 DEF Trained, Training
    <3>4. \A s \in Streams : s # cur[c] /\ oid[c][s] # 0 =>
            okw[c][oid[c][s]] /\ bytes'[c][oid[c][s]] = NF
      BY <1>7, <3>1, OutputType DEF ClientInv, Sized
    <3> QED BY <1>1, <3>3, <3>4 DEF Sized, Handle
  <2>3. buf'[c] = NoBuf /\ stage'[c] \in {"train", "commit"}
    BY <1>1, <1>5, EmptyBuffer, NextFieldType DEF ClientInv
  <2>4. Filled(c)' BY <2>3, BufferStaysEmpty
  <2> QED BY <1>8, <2>1, <2>2, <2>4 DEF ClientInv
<1> QED BY <1>6, <1>9, <1>10, <1>11, <1>12

LEMMA PackFieldStep ==
  ASSUME IInv, NEW c \in Clients, PackField(c)
  PROVE  IInv'
<1> USE DEF IInv, ClientTypeOK
<1> DEFINE h == Handle(c)
           rec == Rec("field", h, fld[c], Date(c), c)
<1>1. /\ stage[c] \in {"train", "write"}
      /\ inUse[c][h] /\ okw[c][h]
      /\ buf' = [buf EXCEPT ![c] = Append(buf[c], rec)]
      /\ NextField(c)
      /\ UNCHANGED <<plan, pos, cur, outs, oid, frames, exited, inUse, okw, bytes, chan>>
  BY DEF PackField, Packed
<1>2. PICK g \in Groups : ServerId(c, h, g) /\ LockOnto(c, h, g)
  BY DEF PackField
<1>3. h \in Handles /\ h # 0
  BY <1>1, OpenHandle DEF ClientInv, Writing
<1>4. rec \in Records
  BY OutputType, RecType
<1>5. stage[c] = "write"
  <2>1. ~Training(c) BY <1>1, <1>3, OutputType DEF ClientInv, Sized, Handle
  <2> QED BY <1>1, <2>1 DEF Training
<1>6. MediationTypeOK'
  BY <1>1, NextFieldType DEF MediationTypeOK
<1>7. Locked(c)' /\ server' \in [Clients -> [Handles -> 0 .. NG]]
  BY <1>1, <1>2, <1>3, Relock DEF ClientInv
<1>8. TablesTypeOK'
  <2>1. Append(buf[c], rec) \in Seq(Records) BY <1>4 DEF TablesTypeOK
  <2>2. buf' \in [Clients -> Seq(Records)] BY <1>1, <2>1 DEF TablesTypeOK
  <2> QED BY <1>1, <1>2, <1>3, <1>7, <2>2, ServerIdType DEF TablesTypeOK
<1>9. MessagesTypeOK'
  BY <1>1, <1>2, <1>3, ServerIdType DEF MessagesTypeOK
<1>10. ASSUME NEW d \in Clients, d # c PROVE ClientInv(d)'
  BY <1>1, <1>2, <1>10, Frame, NextFieldType DEF Same, LockOnto, MediationTypeOK, TablesTypeOK
<1>11. ClientInv(c)'
  <2>1. \/ /\ fld[c] < NF /\ fld'[c] = fld[c] + 1 /\ stage'[c] = "write"
        \/ /\ fld[c] = NF /\ fld'[c] = 1 /\ stage'[c] = "sync"
    BY <1>1, <1>5, NextFieldType
  <2>2. Placed(c)'
    BY <1>1, <1>3, <2>1 DEF ClientInv, Placed, Writing, Handle
  <2>3. Sized(c)'
    BY <1>1, <1>5, <2>1 DEF ClientInv, Sized, Training
  <2>4. Filled(c)'
    <3>1. buf[c] \in Seq(Records) /\ Len(buf[c]) = fld[c] - 1 /\ fld[c] \in Nat
      BY <1>5, OutputType DEF ClientInv, Filled, InBuffer, TablesTypeOK
    <3>2. buf'[c] = Append(buf[c], rec) BY <1>1 DEF TablesTypeOK
    <3>3. Len(buf'[c]) = fld[c] /\ buf'[c][fld[c]] = rec
      BY <1>4, <3>1, <3>2
    <3>4. \A i \in 1 .. Len(buf[c]) : buf'[c][i] = buf[c][i]
      BY <1>4, <3>1, <3>2
    <3>5. \A i \in 1 .. Len(buf[c]) : buf[c][i] = Rec("field", h, i, Date(c), c)
      BY DEF ClientInv, Filled
    <3>6. \A i \in 1 .. fld[c] : buf'[c][i] = Rec("field", h, i, Date(c), c)
      <4>1. ASSUME NEW i \in 1 .. fld[c] PROVE i = fld[c] \/ i \in 1 .. Len(buf[c])
        BY <3>1
      <4> QED BY <3>3, <3>4, <3>5, <4>1
    <3>7. Len(buf'[c]) = InBuffer(c)'
      BY <2>1, <3>1, <3>3 DEF InBuffer
    <3>8. Handle(c)' = h /\ Date(c)' = Date(c) BY <1>1 DEF Handle, Date
    <3> QED BY <3>3, <3>6, <3>7, <3>8 DEF Filled, Rec
  <2> QED BY <1>7, <2>2, <2>3, <2>4 DEF ClientInv
<1> QED BY <1>6, <1>8, <1>9, <1>10, <1>11

LEMMA OpenForWriteCommitStep ==
  ASSUME IInv, NEW c \in Clients, OpenForWriteCommit(c)
  PROVE  IInv'
<1> USE DEF IInv, ClientTypeOK
<1> DEFINE h == Handle(c)
<1>1. /\ stage[c] = "commit"
      /\ okw' = [okw EXCEPT ![c][h] = @ \/ inUse[c][h]]
      /\ stage' = [stage EXCEPT ![c] = "putMeta"]
      /\ UNCHANGED <<plan, pos, cur, fld, outs, oid, frames, exited, inUse, bytes, buf>>
  BY DEF OpenForWriteCommit, Granted
<1>2. PICK g \in Groups :
        /\ ServerId(c, h, g)
        /\ LockOnto(c, h, g)
        /\ Send(c, g, Message(c, h, <<OnMonitor(c, Rec("commit", h, 0, 0, c), Noop(c))>>))
  BY DEF OpenForWriteCommit
<1>3. h \in Handles /\ h # 0 /\ inUse[c][h]
  BY <1>1, OpenHandle DEF ClientInv, Writing
<1>4. Rec("commit", h, 0, 0, c) \in Records
  BY OutputType, RecType
<1>5. MediationTypeOK'
  BY <1>1 DEF MediationTypeOK, Stages
<1>6. /\ okw' \in [Clients -> [Handles -> BOOLEAN]]
      /\ okw'[c][h]
      /\ \A k \in Handles : k # h => okw'[c][k] = okw[c][k]
  BY <1>1, <1>3 DEF TablesTypeOK
<1>7. Locked(c)' /\ server' \in [Clients -> [Handles -> 0 .. NG]]
  BY <1>1, <1>2, <1>3, <1>6, Relock DEF ClientInv
<1>8. TablesTypeOK'
  BY <1>1, <1>2, <1>3, <1>6, <1>7, ServerIdType DEF TablesTypeOK
<1>9. MessagesTypeOK'
  BY <1>2, <1>3, <1>4, ServerIdType, CallType DEF MessagesTypeOK
<1>10. ASSUME NEW d \in Clients, d # c PROVE ClientInv(d)'
  BY <1>1, <1>2, <1>10, Frame DEF Same, LockOnto, MediationTypeOK, TablesTypeOK
<1>11. ClientInv(c)'
  <2>1. Placed(c)' BY <1>1 DEF ClientInv, Placed, Writing, MediationTypeOK
  <2>2. Sized(c)'
    <3>1. ~Training(c)' BY <1>1 DEF Training, MediationTypeOK
    <3>2. bytes[c][h] = NF
      BY <1>1, <1>3, OutputType DEF ClientInv, Sized, Training, Trained, Handle
    <3>3. \A s \in Streams : s # cur[c] /\ oid[c][s] # 0 =>
            okw'[c][oid[c][s]] /\ bytes[c][oid[c][s]] = NF
      BY <1>3, <1>6, OutputType DEF ClientInv, Sized, Locked, Handle
    <3> QED BY <1>1, <1>6, <3>1, <3>2, <3>3 DEF Sized, Handle
  <2>3. buf'[c] = NoBuf /\ stage'[c] = "putMeta"
    BY <1>1, EmptyBuffer DEF ClientInv, MediationTypeOK
  <2>4. Filled(c)' BY <2>3, BufferStaysEmpty
  <2> QED BY <1>7, <2>1, <2>2, <2>4 DEF ClientInv
<1> QED BY <1>5, <1>8, <1>9, <1>10, <1>11

\* Counting the frame leads to the next output or to the close of a full file.
LEMMA CountFrameType ==
  ASSUME MediationTypeOK, NEW c \in Clients, CountFrame(c)
  PROVE  /\ frames' \in [Clients -> [Streams -> Nat]] /\ stage' \in [Clients -> Stages]
         /\ stage'[c] \in {"close", "idle"}
         /\ \A d \in Clients : d # c => stage'[d] = stage[d]
<1>1. frames[c][cur[c]] + 1 \in Nat BY DEF MediationTypeOK
<1>2. frames' \in [Clients -> [Streams -> Nat]] BY <1>1 DEF CountFrame, MediationTypeOK
<1> QED BY <1>2 DEF CountFrame, MediationTypeOK, Stages

LEMMA IoSyncStep ==
  ASSUME IInv, NEW c \in Clients, IoSync(c)
  PROVE  IInv'
<1> USE DEF IInv, ClientTypeOK
<1> DEFINE h == Handle(c)
           msgs == <<Reduce(bytes[c][h], OnMonitor(c, h, 0)), Gather(buf[c])>>
<1>1. /\ stage[c] = "sync"
      /\ CountFrame(c)
      /\ UNCHANGED <<plan, pos, cur, fld, outs, oid, exited, inUse, okw, bytes>>
  BY DEF IoSync
<1>2. buf[c] # NoBuf
  <2>1. Len(buf[c]) = NF BY <1>1 DEF ClientInv, Filled, InBuffer
  <2> QED BY <2>1, ClientConstants, EmptySeq DEF NoBuf
<1>3. PICK g \in Groups : ServerId(c, h, g) /\ LockOnto(c, h, g) /\ Send(c, g, msgs)
  BY <1>2 DEF IoSync
<1>4. buf' = [buf EXCEPT ![c] = NoBuf]
  BY <1>2 DEF IoSync
<1>5. h \in Handles /\ h # 0 /\ inUse[c][h]
  BY <1>1, OpenHandle DEF ClientInv, Writing
<1>6. msgs \in Seq(Messages)
  <2>1. bytes[c][h] \in Int /\ buf[c] \in Seq(Records) BY <1>5 DEF TablesTypeOK
  <2>2. OnMonitor(c, h, 0) \in 0 .. NH BY <1>5, ClientConstants DEF OnMonitor, Handles
  <2>3. <<>> \in Seq(Records) BY EmptySeq
  <2>4. Reduce(bytes[c][h], OnMonitor(c, h, 0)) \in Messages
    BY <2>1, <2>2, <2>3 DEF Reduce, Messages
  <2>5. Gather(buf[c]) \in Messages BY <2>1, ClientConstants DEF Gather, Messages
  <2> QED BY <2>4, <2>5
<1>7. MediationTypeOK'
  BY <1>1, CountFrameType DEF MediationTypeOK
<1>8. Locked(c)' /\ server' \in [Clients -> [Handles -> 0 .. NG]]
  BY <1>1, <1>3, <1>5, Relock DEF ClientInv
<1>9. TablesTypeOK'
  <2>1. buf' \in [Clients -> Seq(Records)] BY <1>4, EmptySeq DEF TablesTypeOK, NoBuf
  <2> QED BY <1>1, <1>3, <1>5, <1>8, <2>1, ServerIdType DEF TablesTypeOK
<1>10. MessagesTypeOK'
  BY <1>3, <1>5, <1>6, ServerIdType, SendType DEF MessagesTypeOK
<1>11. ASSUME NEW d \in Clients, d # c PROVE ClientInv(d)'
  BY <1>1, <1>3, <1>4, <1>11, Frame, CountFrameType
  DEF Same, LockOnto, MediationTypeOK, TablesTypeOK
<1>12. ClientInv(c)'
  <2>1. stage'[c] \in {"close", "idle"} /\ buf'[c] = NoBuf
    BY <1>1, <1>4, CountFrameType DEF TablesTypeOK
  <2>2. Placed(c)' BY <1>1, <1>5, <2>1 DEF ClientInv, Placed, Writing, Handle
  <2>3. Sized(c)' BY <1>1, <2>1 DEF ClientInv, Sized, Training
  <2>4. Filled(c)' BY <2>1, BufferStaysEmpty
  <2> QED BY <1>8, <2>2, <2>3, <2>4 DEF ClientInv
<1> QED BY <1>7, <1>9, <1>10, <1>11, <1>12

LEMMA IoCloseStep ==
  ASSUME IInv, NEW c \in Clients, IoClose(c)
  PROVE  IInv'
<1> USE DEF IInv, ClientTypeOK
<1> DEFINE h == Handle(c)
<1>1. /\ stage[c] \in {"close", "lastClose"}
      /\ inUse' = [inUse EXCEPT ![c][h] = FALSE]
      /\ server' = [server EXCEPT ![c][h] = 0]
      /\ okw' = [okw EXCEPT ![c][h] = FALSE]
      /\ bytes' = [bytes EXCEPT ![c][h] = 0]
      /\ buf' = [buf EXCEPT ![c] = NoBuf]
      /\ oid' = [oid EXCEPT ![c][cur[c]] = 0]
      /\ frames' = [frames EXCEPT ![c][cur[c]] = 0]
      /\ stage' = [stage EXCEPT ![c] = IF @ = "close" THEN "idle" ELSE "shutdown"]
      /\ UNCHANGED <<plan, pos, cur, fld, outs, exited>>
  BY DEF IoClose, ClearedBytes
<1>2. PICK g \in Groups : ServerId(c, h, g) /\ Send(c, g, CloseMessage(c, h))
  BY DEF IoClose
<1>3. h \in Handles /\ h # 0 /\ inUse[c][h]
  BY <1>1, OpenHandle DEF ClientInv
<1>4. CloseMessage(c, h) \in Seq(Messages)
  <2>1. OnMonitor(c, h, 0) \in 0 .. NH BY <1>3, ClientConstants DEF OnMonitor, Handles
  <2>2. <<>> \in Seq(Records) BY EmptySeq
  <2>3. Reduce(0, OnMonitor(c, h, 0)) \in Messages BY <2>1, <2>2 DEF Reduce, Messages
  <2> QED BY <2>3 DEF CloseMessage
<1>5. MediationTypeOK'
  <2>1. 0 \in 0 .. NH BY ClientConstants
  <2>2. oid' \in [Clients -> [Streams -> 0 .. NH]] /\ frames' \in [Clients -> [Streams -> Nat]]
    BY <1>1, <2>1 DEF MediationTypeOK
  <2> QED BY <1>1, <2>2 DEF MediationTypeOK, Stages
<1>6. TablesTypeOK'
  <2>1. 0 \in 0 .. NG BY ClientConstants
  <2>2. server' \in [Clients -> [Handles -> 0 .. NG]] /\ bytes' \in [Clients -> [Handles -> Nat]]
    BY <1>1, <2>1 DEF TablesTypeOK
  <2>3. buf' \in [Clients -> Seq(Records)] BY <1>1, EmptySeq DEF TablesTypeOK, NoBuf
  <2> QED BY <1>1, <1>2, <1>3, <2>2, <2>3, ServerIdType DEF TablesTypeOK
<1>7. MessagesTypeOK'
  BY <1>2, <1>3, <1>4, ServerIdType, SendType DEF MessagesTypeOK
<1>8. ASSUME NEW d \in Clients, d # c PROVE ClientInv(d)'
  BY <1>1, <1>8, Frame DEF Same, MediationTypeOK, TablesTypeOK
<1>9. ClientInv(c)'
  <2>1. /\ oid'[c][cur[c]] = 0
        /\ \A s \in Streams : s # cur[c] => oid'[c][s] = oid[c][s]
    BY <1>1 DEF MediationTypeOK
  <2>2. /\ ~inUse'[c][h] /\ server'[c][h] = 0 /\ ~okw'[c][h] /\ bytes'[c][h] = 0
        /\ \A k \in Handles : k # h =>
             /\ inUse'[c][k] = inUse[c][k] /\ okw'[c][k] = okw[c][k]
             /\ server'[c][k] = server[c][k] /\ bytes'[c][k] = bytes[c][k]
    BY <1>1, <1>3 DEF TablesTypeOK
  <2>3. \A s \in Streams : s # cur[c] /\ oid[c][s] # 0 => oid[c][s] \in Handles \ {h}
    BY <1>3, OutputType DEF ClientInv, Locked, Handle
  <2>4. stage'[c] \in {"idle", "shutdown"} /\ buf'[c] = NoBuf
    BY <1>1 DEF MediationTypeOK, TablesTypeOK
  <2>5. Locked(c)'
    <3>1. \A s \in Streams : oid'[c][s] # 0 => inUse'[c][oid'[c][s]]
      BY <2>1, <2>2, <2>3 DEF ClientInv, Locked
    <3>2. \A r, s \in Streams : r # s /\ oid'[c][r] # 0 => oid'[c][r] # oid'[c][s]
      BY <2>1 DEF ClientInv, Locked
    <3>3. \A k \in Handles : IF inUse'[c][k] THEN server'[c][k] \in Groups
                             ELSE server'[c][k] = 0 /\ ~okw'[c][k] /\ bytes'[c][k] = 0
      BY <2>2 DEF ClientInv, Locked
    <3> QED BY <3>1, <3>2, <3>3 DEF Locked
  <2>6. Placed(c)' BY <1>1, <2>4 DEF ClientInv, Placed, Writing
  <2>7. Sized(c)'
    <3>1. \A s \in Streams : oid'[c][s] # 0 =>
            okw'[c][oid'[c][s]] /\ bytes'[c][oid'[c][s]] = NF
      BY <2>1, <2>2, <2>3 DEF ClientInv, Sized
    <3> QED BY <2>4, <3>1 DEF Sized, Training
  <2>8. Filled(c)' BY <2>4, BufferStaysEmpty
  <2> QED BY <2>5, <2>6, <2>7, <2>8 DEF ClientInv
<1> QED BY <1>5, <1>6, <1>7, <1>8, <1>9

LEMMA BeginShutdownStep ==
  ASSUME IInv, NEW c \in Clients, BeginShutdown(c)
  PROVE  IInv'
<1> USE DEF IInv, ClientTypeOK
<1>1. /\ stage[c] = "idle"
      /\ Follow(c, Stop)
      /\ stage' = [stage EXCEPT ![c] = "shutdown"]
      /\ UNCHANGED <<cur, fld, outs, oid, frames, exited, tableVars, chan, pollVars>>
  BY DEF BeginShutdown
<1>2. MediationTypeOK'
  BY <1>1, FollowType DEF MediationTypeOK, Stages
<1>3. TablesTypeOK' /\ MessagesTypeOK'
  BY <1>1 DEF tableVars, pollVars, TablesTypeOK, MessagesTypeOK
<1>4. ASSUME NEW d \in Clients, d # c PROVE ClientInv(d)'
  BY <1>1, <1>4, Frame DEF Same, tableVars, MediationTypeOK
<1>5. ClientInv(c)'
  <2>1. stage'[c] = "shutdown" /\ buf'[c] = NoBuf
    BY <1>1, EmptyBuffer DEF ClientInv, tableVars, MediationTypeOK
  <2>2. Locked(c)' BY <1>1 DEF ClientInv, Locked, tableVars
  <2>3. Placed(c)' BY <1>1, <2>1 DEF ClientInv, Placed, Writing
  <2>4. Sized(c)' BY <1>1, <2>1 DEF ClientInv, Sized, Training, tableVars
  <2>5. Filled(c)' BY <2>1, BufferStaysEmpty
  <2> QED BY <2>2, <2>3, <2>4, <2>5 DEF ClientInv
<1> QED BY <1>2, <1>3, <1>4, <1>5

LEMMA ShutdownStreamStep ==
  ASSUME IInv, NEW c \in Clients, ShutdownStream(c)
  PROVE  IInv'
<1> USE DEF IInv, ClientTypeOK
<1>1. /\ stage[c] = "shutdown"
      /\ UNCHANGED <<plan, pos, fld, outs, oid, frames, exited, tableVars, chan, pollVars>>
  BY DEF ShutdownStream
<1>2. \/ \E s \in StillOpen(c) : /\ cur' = [cur EXCEPT ![c] = s]
                                /\ stage' = [stage EXCEPT ![c] = "lastClose"]
      \/ stage' = [stage EXCEPT ![c] = "exit"] /\ UNCHANGED cur
  BY DEF ShutdownStream
<1>3. \/ oid[c][cur'[c]] # 0 /\ cur'[c] \in Streams /\ stage'[c] = "lastClose"
      \/ stage'[c] = "exit" /\ UNCHANGED cur
  BY <1>2 DEF StillOpen, MediationTypeOK
<1>4. MediationTypeOK'
  <2>1. StillOpen(c) \subseteq Streams BY DEF StillOpen
  <2>2. cur' \in [Clients -> Streams] BY <1>2, <2>1 DEF MediationTypeOK
  <2>3. stage' \in [Clients -> Stages] BY <1>2 DEF MediationTypeOK, Stages
  <2> QED BY <1>1, <2>2, <2>3 DEF MediationTypeOK
<1>5. TablesTypeOK' /\ MessagesTypeOK'
  BY <1>1 DEF tableVars, pollVars, TablesTypeOK, MessagesTypeOK
<1>6. ASSUME NEW d \in Clients, d # c PROVE ClientInv(d)'
  BY <1>1, <1>2, <1>6, Frame DEF Same, tableVars, MediationTypeOK
<1>7. ClientInv(c)'
  <2>1. buf'[c] = NoBuf /\ stage'[c] \in {"lastClose", "exit"}
    BY <1>1, <1>3, EmptyBuffer DEF ClientInv, tableVars
  <2>2. Locked(c)' BY <1>1 DEF ClientInv, Locked, tableVars
  <2>3. Placed(c)' BY <1>1, <1>3 DEF ClientInv, Placed, Writing
  <2>4. Sized(c)' BY <1>1, <2>1 DEF ClientInv, Sized, Training, tableVars
  <2>5. Filled(c)' BY <2>1, BufferStaysEmpty
  <2> QED BY <2>2, <2>3, <2>4, <2>5 DEF ClientInv
<1> QED BY <1>4, <1>5, <1>6, <1>7

LEMMA IoExitStep ==
  ASSUME IInv, NEW c \in Clients, IoExit(c)
  PROVE  IInv'
<1> USE DEF IInv, ClientTypeOK
<1>1. /\ stage[c] = "exit" /\ exited[c] < NG
      /\ exited' = [exited EXCEPT ![c] = @ + 1]
      /\ stage' = [stage EXCEPT ![c] = IF exited[c] + 1 = NG THEN "gone" ELSE "exit"]
      /\ UNCHANGED <<plan, pos, cur, fld, outs, oid, frames, tableVars>>
  BY DEF IoExit
<1>2. PICK g \in Groups :
        /\ FindServer(c, g) \/ UNCHANGED pollVars
        /\ Send(c, g, <<Reduce(ExitShare(c), 0)>>)
  BY DEF IoExit
<1>3. MediationTypeOK'
  <2>1. exited[c] + 1 \in 0 .. NG BY <1>1, ClientConstants, SMTT(30) DEF MediationTypeOK
  <2>2. exited' \in [Clients -> 0 .. NG] BY <1>1, <2>1 DEF MediationTypeOK
  <2>3. stage' \in [Clients -> Stages] BY <1>1 DEF MediationTypeOK, Stages
  <2> QED BY <1>1, <2>2, <2>3 DEF MediationTypeOK
<1>4. TablesTypeOK'
  BY <1>1 DEF tableVars, TablesTypeOK
<1>5. MessagesTypeOK'
  <2>1. <<>> \in Seq(Records) BY EmptySeq
  <2>2. Reduce(ExitShare(c), 0) \in Messages
    BY <2>1, ClientConstants DEF Reduce, Messages, ExitShare, ExitSize
  <2>3. chan' \in [Clients -> [Groups -> Seq(Messages)]]
    <3>1. <<Reduce(ExitShare(c), 0)>> \in Seq(Messages) BY <2>2
    <3> QED BY <1>2, <3>1, SendType
  <2>4. seen[c] + 1 \in Nat /\ Append(found, g) \in Seq(Groups) BY DEF MessagesTypeOK
  <2>5. idle' \subseteq Groups /\ found' \in Seq(Groups)
    BY <1>2, <2>4 DEF FindServer, pollVars, MessagesTypeOK
  <2>6. seen' \in [Clients -> Nat]
    BY <1>2, <2>4 DEF FindServer, pollVars, MessagesTypeOK
  <2> QED BY <2>3, <2>5, <2>6 DEF MessagesTypeOK
<1>6. ASSUME NEW d \in Clients, d # c PROVE ClientInv(d)'
  BY <1>1, <1>6, Frame DEF Same, tableVars, MediationTypeOK
<1>7. ClientInv(c)'
  <2>1. stage'[c] \in {"gone", "exit"} /\ buf'[c] = NoBuf
    BY <1>1, EmptyBuffer DEF ClientInv, tableVars, MediationTypeOK
  <2>2. Locked(c)' BY <1>1 DEF ClientInv, Locked, tableVars
  <2>3. Placed(c)' BY <1>1, <2>1 DEF ClientInv, Placed, Writing
  <2>4. Sized(c)' BY <1>1, <2>1 DEF ClientInv, Sized, Training, tableVars
  <2>5. Filled(c)' BY <2>1, BufferStaysEmpty
  <2> QED BY <2>2, <2>3, <2>4, <2>5 DEF ClientInv
<1> QED BY <1>3, <1>4, <1>5, <1>6, <1>7

LEMMA ClientStepInv ==
  ASSUME IInv, NEW c \in Clients, ClientStep(c)
  PROVE  IInv'
BY BeginOutputStep, OpenForWriteBeginStep, PutMetaStep, TrainFieldStep, PackFieldStep,
   OpenForWriteCommitStep, IoSyncStep, IoCloseStep, BeginShutdownStep, ShutdownStreamStep,
   IoExitStep DEF ClientStep

-----------------------------------------------------------------------------
(* The steps of the servers, and steps that change nothing here.            *)

LEMMA ServersInv ==
  ASSUME IInv, UNCHANGED <<mediationVars, tableVars>>, MessagesTypeOK'
  PROVE  IInv'
<1> USE DEF mediationVars, tableVars
<1>1. MediationTypeOK' BY DEF IInv, ClientTypeOK, MediationTypeOK
<1>2. TablesTypeOK' BY DEF IInv, ClientTypeOK, TablesTypeOK
<1>3. ASSUME NEW d \in Clients PROVE ClientInv(d)'
  BY <1>3, Frame DEF IInv, Same
<1> QED BY <1>1, <1>2, <1>3 DEF IInv, ClientTypeOK

LEMMA ReceivedInv ==
  ASSUME IInv, Received
  PROVE  IInv'
<1>1. UNCHANGED <<mediationVars, tableVars, pollVars>> BY DEF Received
<1>2. PICK S \in SUBSET (Clients \X Groups) :
        /\ \A cg \in S : chan[cg[1]][cg[2]] # <<>>
        /\ chan' = [c \in Clients |-> [g \in Groups |->
                      IF <<c, g>> \in S THEN Tail(chan[c][g]) ELSE chan[c][g]]]
  BY DEF Received
<1>3. ASSUME NEW c \in Clients, NEW g \in Groups
      PROVE  (IF <<c, g>> \in S THEN Tail(chan[c][g]) ELSE chan[c][g]) \in Seq(Messages)
  <2>1. chan[c][g] \in Seq(Messages) BY DEF IInv, ClientTypeOK, MessagesTypeOK
  <2>2. <<c, g>> \in S => chan[c][g] # <<>> BY <1>2
  <2> QED BY <2>1, <2>2, HeadTailProperties
<1>4. MessagesTypeOK'
  BY <1>1, <1>2, <1>3 DEF IInv, ClientTypeOK, MessagesTypeOK, pollVars
<1> QED BY <1>1, <1>4, ServersInv

LEMMA OfferedInv ==
  ASSUME IInv, Offered
  PROVE  IInv'
<1>1. MessagesTypeOK' BY DEF Offered, IInv, ClientTypeOK, MessagesTypeOK
<1> QED BY <1>1, ServersInv DEF Offered

LEMMA StutterInv ==
  ASSUME IInv, UNCHANGED clientVars
  PROVE  IInv'
<1>1. MessagesTypeOK'
  BY DEF IInv, ClientTypeOK, MessagesTypeOK, clientVars, pollVars
<1> QED BY <1>1, ServersInv DEF clientVars

-----------------------------------------------------------------------------
(* The theorems.                                                            *)

\* The inductive invariant holds: it is true at the start and every step of a
\* client or a server keeps it.
THEOREM IInvHolds == ClientSpec => []IInv
<1>1. Init => IInv BY InitIInv
<1>2. IInv /\ [ClientNext]_clientVars => IInv'
  BY ClientStepInv, ReceivedInv, OfferedInv, StutterInv DEF ClientNext
<1> QED BY <1>1, <1>2, PTL DEF ClientSpec

\* The tables, messages and plan of the compute tasks keep their types.
THEOREM ClientTypes == ClientSpec => []ClientTypeOK
<1>1. IInv => ClientTypeOK BY DEF IInv
<1> QED BY <1>1, IInvHolds, PTL

\* int_get_fresh_handle, set_server_id and ioclose together keep every handle
\* with one stream and one group from open to close, and leave nothing behind.
THEOREM HandlesStayLocked == ClientSpec => []HandlesLocked
<1>1. IInv => HandlesLocked BY DEF IInv, ClientInv, Locked, HandlesLocked
<1> QED BY <1>1, IInvHolds, PTL

\* Whatever the streams, fields and frames, the unchecked output buffer holds
\* only what training made room for, and iosync sends exactly that much.
THEOREM BufferNeverOverflows == ClientSpec => []BufferFits
<1>1. ASSUME IInv, NEW c \in Clients
      PROVE  /\ buf[c] # NoBuf =>
                  /\ stage[c] \in {"write", "sync"}
                  /\ Len(buf[c]) <= bytes[c][Handle(c)]
                  /\ \A i \in 1 .. Len(buf[c]) :
                       buf[c][i] = Rec("field", Handle(c), i, Date(c), c)
             /\ stage[c] = "sync" =>
                  buf[c] # NoBuf /\ Len(buf[c]) = bytes[c][Handle(c)]
  <2>1. stage[c] \in {"write", "sync"} => bytes[c][Handle(c)] = NF
    <3>1. stage[c] \in {"write", "sync"} => oid[c][cur[c]] # 0 /\ ~Training(c)
      BY <1>1 DEF IInv, ClientInv, Placed, Writing, Training
    <3> QED BY <1>1, <3>1, OutputType DEF IInv, ClientTypeOK, ClientInv, Sized, Handle
  <2>2. stage[c] \notin {"write", "sync"} => buf[c] = NoBuf
    BY <1>1, EmptyBuffer DEF IInv, ClientTypeOK, ClientInv
  <2>3. /\ stage[c] = "write" => Len(buf[c]) = fld[c] - 1
        /\ stage[c] = "sync" => Len(buf[c]) = NF
        /\ fld[c] \in 1 .. NF
    BY <1>1 DEF IInv, ClientTypeOK, MediationTypeOK, ClientInv, Filled, InBuffer
  <2>4. stage[c] = "sync" => buf[c] # NoBuf
    BY <2>3, EmptySeq, ClientConstants DEF NoBuf
  <2>5. stage[c] \in {"write", "sync"} => Len(buf[c]) <= NF
    BY <2>3, ClientConstants
  <2>6. \A i \in 1 .. Len(buf[c]) : buf[c][i] = Rec("field", Handle(c), i, Date(c), c)
    BY <1>1 DEF IInv, ClientInv, Filled
  <2> QED BY <2>1, <2>2, <2>3, <2>4, <2>5, <2>6
<1>2. IInv => BufferFits BY <1>1 DEF BufferFits
<1> QED BY <1>2, IInvHolds, PTL

\* A field is written for good exactly when its file has been committed.
THEOREM TrainingComesFirst == ClientSpec => []TrainedBeforeWritten
<1>1. ASSUME IInv, NEW c \in Clients, Writing(c)
      PROVE  /\ inUse[c][Handle(c)]
             /\ okw[c][Handle(c)] <=> stage[c] \in {"putMeta", "write", "sync"}
  <2>1. oid[c][cur[c]] # 0 /\ cur[c] \in Streams /\ inUse[c][Handle(c)]
    BY <1>1, OpenHandle, OutputType DEF IInv, ClientTypeOK, ClientInv, Handle
  <2>2. okw[c][Handle(c)] <=> ~Training(c)
    BY <1>1, <2>1 DEF IInv, ClientInv, Sized, Handle
  <2> QED BY <1>1, <2>1, <2>2 DEF Writing, Training
<1>2. IInv => TrainedBeforeWritten BY <1>1 DEF TrainedBeforeWritten
<1> QED BY <1>2, IInvHolds, PTL
-----------------------------------------------------------------------------
(***************************************************************************)
(* That the tables of the compute tasks agree, for any number of clients,  *)
(* groups, handles, streams and fields.  Each task keeps its own; nothing  *)
(* is exchanged but the number of the group the monitor finds.             *)
(*                                                                         *)
(* The proof compares no two tasks.  What a task does next depends on its  *)
(* own state, the plan and the groups found so far only, so there is one   *)
(* sequence of states which all tasks go through, each at its own pace;    *)
(* and the sequence passes every point of the program once.                *)
(***************************************************************************)

\* A client's state, but for the contents of its buffer.
State(po, st, cu, fl, oi, fr, iu, ok, by, se, pr, ex, sn, ou) ==
  [pos |-> po, stage |-> st, cur |-> cu, fld |-> fl, oid |-> oi, frames |-> fr,
   inUse |-> iu, okw |-> ok, bytes |-> by, server |-> se, prev |-> pr,
   exited |-> ex, seen |-> sn, outs |-> ou]
Local(c) == State(pos[c], stage[c], cur[c], fld[c], oid[c], frames[c], inUse[c], okw[c],
                  bytes[c], server[c], prev[c], exited[c], seen[c], outs[c])

LEMMA StateIs ==
  ASSUME NEW po, NEW st, NEW cu, NEW fl, NEW oi, NEW fr, NEW iu, NEW ok, NEW by, NEW se,
         NEW pr, NEW ex, NEW sn, NEW ou, NEW x,
         x = State(po, st, cu, fl, oi, fr, iu, ok, by, se, pr, ex, sn, ou)
  PROVE  /\ x.pos = po /\ x.stage = st /\ x.cur = cu /\ x.fld = fl /\ x.oid = oi
         /\ x.frames = fr /\ x.inUse = iu /\ x.okw = ok /\ x.bytes = by
         /\ x.server = se /\ x.prev = pr /\ x.exited = ex /\ x.seen = sn /\ x.outs = ou
BY DEF State

LEMMA LocalIs ==
  ASSUME NEW c
  PROVE  /\ Local(c).pos = pos[c] /\ Local(c).stage = stage[c] /\ Local(c).cur = cur[c]
         /\ Local(c).fld = fld[c] /\ Local(c).oid = oid[c] /\ Local(c).frames = frames[c]
         /\ Local(c).inUse = inUse[c] /\ Local(c).okw = okw[c] /\ Local(c).bytes = bytes[c]
         /\ Local(c).server = server[c] /\ Local(c).prev = prev[c]
         /\ Local(c).exited = exited[c] /\ Local(c).seen = seen[c]
         /\ Local(c).outs = outs[c]
BY StateIs DEF Local

-----------------------------------------------------------------------------
(* What a client does next, from its state x, a plan p and the groups f.     *)

\* The next pass over the fields, or what follows it.
Fld(x) == IF x.fld < NF THEN x.fld + 1 ELSE 1
Stage(x, next) == IF x.fld < NF THEN x.stage ELSE next

Open(x) == {s \in Streams : x.oid[s] # 0}
First(S) == CHOOSE s \in S : \A r \in S : s <= r
Fresh(x) == CHOOSE h \in Handles : ~x.inUse[h] /\ \A k \in 1 .. h - 1 : x.inUse[k]
Turn(x) == (x.prev + 1) % NG
Group(x, f) == IF Poll THEN f[x.seen + 1] ELSE Turn(x) + 1
Seen(x) == IF Poll THEN x.seen + 1 ELSE x.seen

\* The function f with another value v at h.
Put(f, h, v) == [f EXCEPT ![h] = v]

LEMMA PutAt ==
  ASSUME NEW S, NEW T, NEW V, NEW f \in [S -> [T -> V]], NEW c \in S, NEW h, NEW v
  PROVE  [f EXCEPT ![c][h] = v][c] = Put(f[c], h, v)
BY DEF Put

AfterIdle(x, p) ==
  LET s == p[x.pos + 1]
  IN  IF s = Stop
      THEN State(x.pos + 1, "shutdown", x.cur, x.fld, x.oid, x.frames, x.inUse, x.okw,
                 x.bytes, x.server, x.prev, x.exited, x.seen, x.outs)
      ELSE State(x.pos + 1, IF x.oid[s] = 0 THEN "open" ELSE "putMeta", s, x.fld, x.oid,
                 x.frames, x.inUse, x.okw, x.bytes, x.server, x.prev, x.exited, x.seen,
                 Put(x.outs, s, x.outs[s] + 1))
AfterOpen(x, f) ==
  LET h == Fresh(x)
  IN  State(x.pos, "trainMeta", x.cur, x.fld, Put(x.oid, x.cur, h), x.frames,
            Put(x.inUse, h, TRUE), Put(x.okw, h, FALSE), x.bytes,
            Put(x.server, h, Group(x, f)), IF Poll THEN x.prev ELSE Turn(x),
            x.exited, Seen(x), x.outs)
AfterMeta(x) ==
  State(x.pos, IF x.stage = "trainMeta" THEN "train" ELSE "write", x.cur, x.fld, x.oid,
        x.frames, x.inUse, x.okw, x.bytes, x.server, x.prev, x.exited, x.seen, x.outs)
AfterTrain(x) ==
  State(x.pos, Stage(x, "commit"), x.cur, Fld(x), x.oid, x.frames, x.inUse, x.okw,
        Put(x.bytes, x.oid[x.cur], x.bytes[x.oid[x.cur]] + 1), x.server, x.prev, x.exited,
        x.seen, x.outs)
AfterPack(x) ==
  State(x.pos, Stage(x, "sync"), x.cur, Fld(x), x.oid, x.frames, x.inUse, x.okw, x.bytes,
        x.server, x.prev, x.exited, x.seen, x.outs)
AfterCommit(x) ==
  LET h == x.oid[x.cur]
  IN  State(x.pos, "putMeta", x.cur, x.fld, x.oid, x.frames, x.inUse,
            Put(x.okw, h, x.okw[h] \/ x.inUse[h]), x.bytes, x.server, x.prev, x.exited,
            x.seen, x.outs)
AfterSync(x) ==
  State(x.pos, IF x.frames[x.cur] + 1 >= FramesPerFile[x.cur] THEN "close" ELSE "idle",
        x.cur, x.fld, x.oid, Put(x.frames, x.cur, x.frames[x.cur] + 1), x.inUse, x.okw,
        x.bytes, x.server, x.prev, x.exited, x.seen, x.outs)
AfterClose(x) ==
  LET h == x.oid[x.cur]
  IN  State(x.pos, IF x.stage = "close" THEN "idle" ELSE "shutdown", x.cur, x.fld,
            Put(x.oid, x.cur, 0), Put(x.frames, x.cur, 0), Put(x.inUse, h, FALSE),
            Put(x.okw, h, FALSE), Put(x.bytes, h, 0), Put(x.server, h, 0), x.prev,
            x.exited, x.seen, x.outs)
AfterShutdown(x) ==
  State(x.pos, IF Open(x) # {} THEN "lastClose" ELSE "exit",
        IF Open(x) # {} THEN First(Open(x)) ELSE x.cur, x.fld, x.oid, x.frames, x.inUse,
        x.okw, x.bytes, x.server, x.prev, x.exited, x.seen, x.outs)
AfterExit(x) ==
  State(x.pos, IF x.exited + 1 = NG THEN "gone" ELSE "exit", x.cur, x.fld, x.oid, x.frames,
        x.inUse, x.okw, x.bytes, x.server, x.prev, x.exited + 1, Seen(x), x.outs)

After(x, p, f) ==
  CASE x.stage = "idle"                     -> AfterIdle(x, p)
    [] x.stage = "open"                     -> AfterOpen(x, f)
    [] x.stage \in {"trainMeta", "putMeta"} -> AfterMeta(x)
    [] x.stage = "train"                    -> AfterTrain(x)
    [] x.stage = "write"                    -> AfterPack(x)
    [] x.stage = "commit"                   -> AfterCommit(x)
    [] x.stage = "sync"                     -> AfterSync(x)
    [] x.stage \in {"close", "lastClose"}   -> AfterClose(x)
    [] x.stage = "shutdown"                 -> AfterShutdown(x)
    [] x.stage = "exit"                     -> AfterExit(x)

\* There is a next call, and the plan and the groups found go far enough for it.
Ready(x, p, f) ==
  /\ x.stage # "gone"
  /\ x.stage = "idle" => x.pos < Len(p)
  /\ Poll /\ x.stage \in {"open", "exit"} => x.seen < Len(f)

\* What holds of every state a client has been in.
Good(x, p, f) ==
  /\ x.pos \in Nat /\ x.pos <= Len(p) /\ x.seen \in Nat /\ x.seen <= Len(f)
  /\ x.stage \in Stages /\ x.fld \in Nat /\ x.exited \in Nat
  /\ x.stage = "lastClose" => x.cur \in Open(x)

-----------------------------------------------------------------------------
(* The order of the points of the program                                   *)

Order(st) ==
  CASE st = "open" -> 1 [] st = "trainMeta" -> 2 [] st = "train" -> 3
    [] st = "commit" -> 4 [] st = "putMeta" -> 5 [] st = "write" -> 6
    [] st = "sync" -> 7 [] st = "close" -> 8 [] st = "idle" -> 9
    [] st \in {"shutdown", "lastClose"} -> 10 [] st = "exit" -> 11 [] st = "gone" -> 12

\* Within the shutdown files are closed one after the other.
Closing(x, y) ==
  \/ /\ Open(y) \subseteq Open(x) /\ Open(y) # Open(x)
     /\ x.stage = "lastClose" => x.cur \notin Open(y)
  \/ Open(y) = Open(x) /\ x.stage = "shutdown" /\ y.stage = "lastClose"

Before(x, y) ==
  \/ x.pos < y.pos
  \/ x.pos = y.pos /\ Order(x.stage) < Order(y.stage)
  \/ /\ x.pos = y.pos /\ Order(x.stage) = Order(y.stage)
     /\ \/ x.stage \in {"train", "write"} /\ x.fld < y.fld
        \/ x.stage = "exit" /\ x.exited < y.exited
        \/ x.stage \in {"shutdown", "lastClose"} /\ Closing(x, y)

LEMMA OrderIs ==
  ASSUME NEW st \in Stages
  PROVE  /\ Order(st) \in Nat
         /\ st = "open" <=> Order(st) = 1
         /\ st = "trainMeta" <=> Order(st) = 2
         /\ st = "train" <=> Order(st) = 3
         /\ st = "commit" <=> Order(st) = 4
         /\ st = "putMeta" <=> Order(st) = 5
         /\ st = "write" <=> Order(st) = 6
         /\ st = "sync" <=> Order(st) = 7
         /\ st = "close" <=> Order(st) = 8
         /\ st = "idle" <=> Order(st) = 9
         /\ st \in {"shutdown", "lastClose"} <=> Order(st) = 10
         /\ st = "exit" <=> Order(st) = 11
         /\ st = "gone" <=> Order(st) = 12
<1>1. st = "open" => Order(st) = 1
  BY DEF Order
<1>2. st = "trainMeta" => Order(st) = 2
  BY DEF Order
<1>3. st = "train" => Order(st) = 3
  BY DEF Order
<1>4. st = "commit" => Order(st) = 4
  BY DEF Order
<1>5. st = "putMeta" => Order(st) = 5
  BY DEF Order
<1>6. st = "write" => Order(st) = 6
  BY DEF Order
<1>7. st = "sync" => Order(st) = 7
  BY DEF Order
<1>8. st = "close" => Order(st) = 8
  BY DEF Order
<1>9. st = "idle" => Order(st) = 9
  BY DEF Order
<1>10. st \in {"shutdown", "lastClose"} => Order(st) = 10
  BY DEF Order
<1>11. st = "exit" => Order(st) = 11
  BY DEF Order
<1>12. st = "gone" => Order(st) = 12
  BY DEF Order
<1> QED BY <1>1, <1>2, <1>3, <1>4, <1>5, <1>6, <1>7, <1>8,
           <1>9, <1>10, <1>11, <1>12 DEF Stages

LEMMA BeforeTransitive ==
  ASSUME NEW p, NEW f, NEW x, NEW y, NEW z, Good(x, p, f), Good(y, p, f), Good(z, p, f),
         Before(x, y), Before(y, z)
  PROVE  Before(x, z)
<1>1. /\ x.pos \in Nat /\ y.pos \in Nat /\ z.pos \in Nat
      /\ x.fld \in Nat /\ y.fld \in Nat /\ z.fld \in Nat
      /\ x.exited \in Nat /\ y.exited \in Nat /\ z.exited \in Nat
      /\ x.stage \in Stages /\ y.stage \in Stages /\ z.stage \in Stages
  BY DEF Good
<1>2. Order(x.stage) \in Nat /\ Order(y.stage) \in Nat /\ Order(z.stage) \in Nat
  BY <1>1, OrderIs
<1>3. CASE x.pos < y.pos \/ y.pos < z.pos
  BY <1>1, <1>3 DEF Before
<1>4. CASE /\ x.pos = y.pos /\ y.pos = z.pos
           /\ Order(x.stage) < Order(y.stage) \/ Order(y.stage) < Order(z.stage)
  BY <1>1, <1>2, <1>4 DEF Before
<1>5. CASE /\ x.pos = y.pos /\ y.pos = z.pos
           /\ ~(Order(x.stage) < Order(y.stage)) /\ ~(Order(y.stage) < Order(z.stage))
  <2>1. /\ Order(x.stage) = Order(y.stage) /\ Order(y.stage) = Order(z.stage)
        /\ \/ x.stage \in {"train", "write"} /\ x.fld < y.fld
           \/ x.stage = "exit" /\ x.exited < y.exited
           \/ x.stage \in {"shutdown", "lastClose"} /\ Closing(x, y)
        /\ \/ y.stage \in {"train", "write"} /\ y.fld < z.fld
           \/ y.stage = "exit" /\ y.exited < z.exited
           \/ y.stage \in {"shutdown", "lastClose"} /\ Closing(y, z)
    BY <1>1, <1>5 DEF Before
  <2>2. /\ x.stage \in {"train", "write"} <=> y.stage \in {"train", "write"}
        /\ x.stage = "exit" <=> y.stage = "exit"
        /\ x.stage \in {"shutdown", "lastClose"} <=> y.stage \in {"shutdown", "lastClose"}
    BY <1>1, <2>1, OrderIs
  <2>3. CASE x.stage \in {"train", "write"}
    BY <1>1, <1>5, <2>1, <2>2, <2>3 DEF Before
  <2>4. CASE x.stage = "exit"
    BY <1>1, <1>5, <2>1, <2>2, <2>4 DEF Before
  <2>5. CASE x.stage \in {"shutdown", "lastClose"}
    <3>1. Closing(x, y) /\ Closing(y, z)
      BY <2>1, <2>2, <2>5
    <3>2. Closing(x, z)
      BY <3>1 DEF Closing
    <3> QED BY <1>5, <2>1, <2>5, <3>2 DEF Before
  <2> QED BY <2>1, <2>3, <2>4, <2>5
<1> QED BY <1>1, <1>3, <1>4, <1>5 DEF Before

\* AtSamePoint, of two states.
SamePoint(x, y) ==
  /\ x.pos = y.pos /\ x.stage = y.stage /\ x.fld = y.fld
  /\ x.cur = y.cur /\ x.exited = y.exited
  /\ x.stage = "shutdown" => Open(x) = Open(y)

LEMMA BeforeIsElsewhere ==
  ASSUME NEW p, NEW f, NEW x, NEW y, Good(x, p, f), Good(y, p, f), Before(x, y)
  PROVE  ~SamePoint(x, y)
<1> SUFFICES ASSUME SamePoint(x, y) PROVE FALSE
  OBVIOUS
<1>1. /\ x.pos \in Nat /\ x.fld \in Nat /\ x.exited \in Nat /\ Order(x.stage) \in Nat
      /\ x.pos = y.pos /\ x.stage = y.stage /\ x.fld = y.fld /\ x.cur = y.cur
      /\ x.exited = y.exited
  BY OrderIs DEF SamePoint, Good
<1>2. x.stage \in {"shutdown", "lastClose"} /\ Closing(x, y)
  BY <1>1 DEF Before
<1>3. CASE x.stage = "shutdown"
  BY <1>1, <1>2, <1>3 DEF SamePoint, Closing
<1>4. CASE x.stage = "lastClose"
  BY <1>1, <1>2, <1>4 DEF Closing, Good
<1> QED BY <1>2, <1>3, <1>4

-----------------------------------------------------------------------------
(* A step of one client                                                      *)

LEMMA LocalNext ==
  ASSUME NEW c
  PROVE  Local(c)' = State(pos'[c], stage'[c], cur'[c], fld'[c], oid'[c], frames'[c],
                           inUse'[c], okw'[c], bytes'[c], server'[c], prev'[c], exited'[c],
                           seen'[c], outs'[c])
BY DEF Local

LEMMA LocalIsNext ==
  ASSUME NEW c
  PROVE  /\ Local(c)'.pos = pos'[c] /\ Local(c)'.stage = stage'[c]
         /\ Local(c)'.fld = fld'[c] /\ Local(c)'.cur = cur'[c]
         /\ Local(c)'.oid = oid'[c] /\ Local(c)'.outs = outs'[c]
         /\ Local(c)'.exited = exited'[c] /\ Local(c)'.seen = seen'[c]
BY StateIs DEF Local

LEMMA LocalStays ==
  ASSUME NEW d, pos'[d] = pos[d], stage'[d] = stage[d], cur'[d] = cur[d],
         fld'[d] = fld[d], oid'[d] = oid[d], frames'[d] = frames[d],
         inUse'[d] = inUse[d], okw'[d] = okw[d], bytes'[d] = bytes[d],
         server'[d] = server[d], prev'[d] = prev[d], exited'[d] = exited[d],
         seen'[d] = seen[d], outs'[d] = outs[d]
  PROVE  Local(d)' = Local(d)
BY DEF Local

\* The plan and the groups found only grow.
Extends(t, s) == Len(s) <= Len(t) /\ \A i \in 1 .. Len(s) : t[i] = s[i]

\* No client is ahead of the plan or of the broadcasts, and the monitor is
\* the source of the latter.
Within ==
  /\ \A c \in Clients : pos[c] <= Len(plan) /\ seen[c] <= Len(found)
  /\ seen[Monitor] = Len(found)

\* A step of client c takes it to the next state of the common sequence, which
\* is a later point of the program, and takes no other client anywhere.
Moved(c) ==
  /\ Ready(Local(c), plan', found')
  /\ Local(c)' = After(Local(c), plan', found')
  /\ Before(Local(c), Local(c)')
  /\ \A d \in Clients : d # c => Local(d)' = Local(d)
  /\ Extends(plan', plan) /\ Extends(found', found)
  /\ Within'

LEMMA WithinGood ==
  ASSUME IInv, Within, NEW c \in Clients
  PROVE  Good(Local(c), plan, found)
<1>1. /\ pos[c] \in Nat /\ seen[c] \in Nat /\ stage[c] \in Stages /\ fld[c] \in Nat
      /\ exited[c] \in Nat /\ cur[c] \in Streams
  BY ClientConstants DEF IInv, ClientTypeOK, MediationTypeOK, MessagesTypeOK
<1>2. stage[c] = "lastClose" => oid[c][cur[c]] # 0
  BY DEF IInv, ClientInv, Placed
<1> QED BY <1>1, <1>2, LocalIs DEF Good, Open, Within

LEMMA WithinGoodNext ==
  ASSUME IInv', Within', NEW c \in Clients
  PROVE  Good(Local(c)', plan', found')
<1>1. /\ pos'[c] \in Nat /\ seen'[c] \in Nat /\ stage'[c] \in Stages /\ fld'[c] \in Nat
      /\ exited'[c] \in Nat /\ cur'[c] \in Streams
  BY ClientConstants DEF IInv, ClientTypeOK, MediationTypeOK, MessagesTypeOK
<1>2. stage'[c] = "lastClose" => oid'[c][cur'[c]] # 0
  BY DEF IInv, ClientInv, Placed
<1> QED BY <1>1, <1>2, LocalIsNext DEF Good, Open, Within

\* A step that neither decides about the plan nor finds a group.
LEMMA QuietStep ==
  ASSUME IInv, Within, NEW c \in Clients, UNCHANGED <<plan, pos, found, seen>>,
         stage[c] \notin {"idle", "open", "exit", "gone"},
         Local(c)' = After(Local(c), plan, found),
         Before(Local(c), Local(c)'),
         \A d \in Clients : d # c => Local(d)' = Local(d)
  PROVE  Moved(c)
<1>1. Ready(Local(c), plan', found')
  BY LocalIs DEF Ready
<1>2. Extends(plan', plan) /\ Extends(found', found)
  BY DEF Extends, IInv, ClientTypeOK, MediationTypeOK, MessagesTypeOK
<1>3. Within'
  BY DEF Within
<1> QED BY <1>1, <1>2, <1>3 DEF Moved

\* A call for an open handle goes to its group and changes no table.
LEMMA LockedCall ==
  ASSUME IInv, NEW c \in Clients, NEW h \in Handles, NEW g \in Groups,
         inUse[c][h], ServerId(c, h, g)
  PROVE  g = server[c][h] /\ UNCHANGED <<prev, pollVars>>
<1>1. server[c][h] \in Groups
  BY DEF IInv, ClientInv, Locked
<1>2. ~NeedsGroup(c, h)
  BY <1>1, ClientConstants DEF NeedsGroup, Groups
<1> QED BY <1>2 DEF ServerId

LEMMA LockedCallTable ==
  ASSUME IInv, NEW c \in Clients, NEW h \in Handles, NEW g \in Groups,
         inUse[c][h], ServerId(c, h, g), LockOnto(c, h, g)
  PROVE  UNCHANGED <<server, prev, pollVars>>
<1>1. g = server[c][h] /\ UNCHANGED <<prev, pollVars>>
  BY LockedCall
<1>2. server' = server
  BY <1>1 DEF LockOnto, IInv, ClientTypeOK, TablesTypeOK
<1> QED BY <1>1, <1>2

\* The handle a client calls with while it has a file.
LEMMA CallHandle ==
  ASSUME IInv, NEW c \in Clients, Writing(c) \/ stage[c] \in {"close", "lastClose"}
  PROVE  Handle(c) \in Handles /\ inUse[c][Handle(c)]
BY OpenHandle DEF IInv, ClientTypeOK, ClientInv

\* Later in the program at the same output.
LEMMA Later ==
  ASSUME NEW c \in Clients, pos'[c] = pos[c], Order(stage[c]) < Order(stage'[c])
  PROVE  Before(Local(c), Local(c)')
BY LocalIs, LocalIsNext DEF Before

LEMMA LaterOutput ==
  ASSUME IInv, NEW c \in Clients, pos'[c] = pos[c] + 1
  PROVE  Before(Local(c), Local(c)')
<1>1. pos[c] < pos'[c]
  BY DEF IInv, ClientTypeOK, MediationTypeOK
<1> QED BY <1>1, LocalIs, LocalIsNext DEF Before

LEMMA LaterField ==
  ASSUME NEW c \in Clients, pos'[c] = pos[c], stage'[c] = stage[c],
         stage[c] \in {"train", "write"}, fld[c] < fld'[c]
  PROVE  Before(Local(c), Local(c)')
BY LocalIs, LocalIsNext DEF Before

-----------------------------------------------------------------------------

LEMMA PutMetaMoves ==
  ASSUME IInv, Within, NEW c \in Clients, PutMeta(c)
  PROVE  Moved(c)
<1> DEFINE h == Handle(c)
<1>1. /\ stage[c] \in {"trainMeta", "putMeta"}
      /\ stage' = [stage EXCEPT ![c] = IF stage[c] = "trainMeta" THEN "train" ELSE "write"]
      /\ UNCHANGED <<plan, pos, cur, fld, outs, oid, frames, exited, inUse, okw, bytes, buf>>
  BY DEF PutMeta
<1>2. h \in Handles /\ inUse[c][h]
  BY <1>1, CallHandle DEF Writing
<1>3. PICK g \in Groups : ServerId(c, h, g) /\ LockOnto(c, h, g)
  BY <1>2 DEF PutMeta
<1>4. UNCHANGED <<server, prev, idle, found, seen>>
  BY <1>2, <1>3, LockedCallTable DEF pollVars
<1>5. stage'[c] = (IF stage[c] = "trainMeta" THEN "train" ELSE "write")
  BY <1>1 DEF IInv, ClientTypeOK, MediationTypeOK
<1>6. Local(c)' = AfterMeta(Local(c))
  BY <1>1, <1>4, <1>5, LocalIs, LocalNext DEF AfterMeta
<1>7. After(Local(c), plan, found) = AfterMeta(Local(c))
  BY <1>1, LocalIs DEF After
<1>8. Before(Local(c), Local(c)')
  <2>1. Order(stage[c]) < Order(stage'[c])
    BY <1>1, <1>5 DEF Order
  <2> QED BY <1>1, <2>1, Later
<1>9. ASSUME NEW d \in Clients, d # c PROVE Local(d)' = Local(d)
  BY <1>1, <1>4, <1>9, LocalStays DEF IInv, ClientTypeOK, MediationTypeOK
<1> QED BY <1>1, <1>4, <1>6, <1>7, <1>8, <1>9, QuietStep

LEMMA NextFieldMoves ==
  ASSUME IInv, Within, NEW c \in Clients, NextField(c), stage[c] \in {"train", "write"},
         UNCHANGED pos
  PROVE  /\ fld'[c] = Fld(Local(c))
         /\ stage'[c] = Stage(Local(c), IF stage[c] = "train" THEN "commit" ELSE "sync")
         /\ Before(Local(c), Local(c)')
         /\ \A d \in Clients : d # c => fld'[d] = fld[d] /\ stage'[d] = stage[d]
<1>1. fld \in [Clients -> 1 .. NF] /\ stage \in [Clients -> Stages] /\ fld[c] \in Int
  BY DEF IInv, ClientTypeOK, MediationTypeOK
<1>2. CASE fld[c] < NF
  <2>1. fld' = [fld EXCEPT ![c] = fld[c] + 1] /\ stage' = stage
    BY <1>2 DEF NextField
  <2>2. fld'[c] = fld[c] + 1
    BY <1>1, <2>1
  <2>3. Before(Local(c), Local(c)')
    BY <1>1, <2>1, <2>2, LaterField
  <2>4. Fld(Local(c)) = fld[c] + 1 /\ \A next : Stage(Local(c), next) = stage[c]
    BY <1>2, LocalIs DEF Fld, Stage
  <2> QED BY <1>1, <2>1, <2>2, <2>3, <2>4
<1>3. CASE ~(fld[c] < NF)
  <2>1. /\ fld' = [fld EXCEPT ![c] = 1]
        /\ stage' = [stage EXCEPT ![c] = IF stage[c] = "train" THEN "commit" ELSE "sync"]
    BY <1>3 DEF NextField
  <2>2. fld'[c] = 1 /\ stage'[c] = (IF stage[c] = "train" THEN "commit" ELSE "sync")
    BY <1>1, <2>1
  <2>3. Order(stage[c]) < Order(stage'[c])
    BY <2>2 DEF Order
  <2>4. Before(Local(c), Local(c)')
    BY <2>3, Later
  <2>5. Fld(Local(c)) = 1 /\ \A next : Stage(Local(c), next) = next
    BY <1>3, LocalIs DEF Fld, Stage
  <2> QED BY <1>1, <2>1, <2>2, <2>4, <2>5
<1> QED BY <1>2, <1>3

\* A handle is granted by the commit: fields are trained up to it.
LEMMA FieldStage ==
  ASSUME IInv, NEW c \in Clients, stage[c] \in {"train", "write"}
  PROVE  okw[c][Handle(c)] <=> stage[c] = "write"
<1>1. oid[c][cur[c]] # 0 /\ cur[c] \in Streams
  BY DEF IInv, ClientTypeOK, MediationTypeOK, ClientInv, Placed, Writing
<1> QED BY <1>1 DEF IInv, ClientInv, Sized, Training, Handle

LEMMA TrainFieldMoves ==
  ASSUME IInv, Within, NEW c \in Clients, TrainField(c)
  PROVE  Moved(c)
<1> DEFINE h == Handle(c)
<1>1. /\ stage[c] \in {"train", "write"} /\ ~okw[c][h]
      /\ bytes' = [bytes EXCEPT ![c][h] = @ + 1]
      /\ NextField(c)
      /\ UNCHANGED <<plan, pos, cur, outs, oid, frames, exited, inUse, okw, buf>>
  BY DEF TrainField
<1>2. h \in Handles /\ inUse[c][h]
  BY <1>1, CallHandle DEF Writing
<1>3. PICK g \in Groups : ServerId(c, h, g) /\ LockOnto(c, h, g)
  BY DEF TrainField
<1>4. UNCHANGED <<server, prev, idle, found, seen>>
  BY <1>2, <1>3, LockedCallTable DEF pollVars
<1>5. stage[c] = "train"
  BY <1>1, FieldStage
<1>6. /\ fld'[c] = Fld(Local(c)) /\ stage'[c] = Stage(Local(c), "commit")
      /\ Before(Local(c), Local(c)')
      /\ \A d \in Clients : d # c => fld'[d] = fld[d] /\ stage'[d] = stage[d]
  BY <1>1, <1>5, NextFieldMoves
<1>7. bytes'[c] = Put(bytes[c], oid[c][cur[c]], bytes[c][oid[c][cur[c]]] + 1)
  <2>1. bytes \in [Clients -> [Handles -> Nat]]
    BY DEF IInv, ClientTypeOK, TablesTypeOK
  <2>2. bytes'[c] = Put(bytes[c], h, bytes[c][h] + 1)
    <3>1. bytes' = [bytes EXCEPT ![c][h] = bytes[c][h] + 1] BY <1>1
    <3> HIDE DEF h
    <3> QED BY Zenon, <2>1, <3>1, PutAt
  <2> QED BY <2>2 DEF Handle
<1>8. Local(c)' = AfterTrain(Local(c))
  <2>1. /\ pos'[c] = pos[c] /\ cur'[c] = cur[c] /\ oid'[c] = oid[c] /\ frames'[c] = frames[c]
        /\ inUse'[c] = inUse[c] /\ okw'[c] = okw[c] /\ server'[c] = server[c]
        /\ prev'[c] = prev[c] /\ exited'[c] = exited[c] /\ seen'[c] = seen[c] /\ outs'[c] = outs[c]
    BY <1>1, <1>4
  <2> QED BY <1>6, <1>7, <2>1, LocalIs, LocalNext DEF AfterTrain
<1>9. After(Local(c), plan, found) = AfterTrain(Local(c))
  BY <1>5, LocalIs DEF After
<1>10. ASSUME NEW d \in Clients, d # c PROVE Local(d)' = Local(d)
  <2>1. bytes'[d] = bytes[d]
    BY <1>1, <1>10 DEF IInv, ClientTypeOK, TablesTypeOK
  <2> QED BY <1>1, <1>4, <1>6, <1>10, <2>1, LocalStays
<1> QED BY <1>1, <1>4, <1>5, <1>6, <1>8, <1>9, <1>10, QuietStep

LEMMA PackFieldMoves ==
  ASSUME IInv, Within, NEW c \in Clients, PackField(c)
  PROVE  Moved(c)
<1> DEFINE h == Handle(c)
<1>1. /\ stage[c] \in {"train", "write"} /\ okw[c][h]
      /\ NextField(c)
      /\ UNCHANGED <<plan, pos, cur, outs, oid, frames, exited, inUse, okw, bytes, chan>>
  BY DEF PackField
<1>2. h \in Handles /\ inUse[c][h]
  BY <1>1, CallHandle DEF Writing
<1>3. PICK g \in Groups : ServerId(c, h, g) /\ LockOnto(c, h, g)
  BY DEF PackField
<1>4. UNCHANGED <<server, prev, idle, found, seen>>
  BY <1>2, <1>3, LockedCallTable DEF pollVars
<1>5. stage[c] = "write"
  BY <1>1, FieldStage
<1>6. /\ fld'[c] = Fld(Local(c)) /\ stage'[c] = Stage(Local(c), "sync")
      /\ Before(Local(c), Local(c)')
      /\ \A d \in Clients : d # c => fld'[d] = fld[d] /\ stage'[d] = stage[d]
  BY <1>1, <1>5, NextFieldMoves
<1>7. Local(c)' = AfterPack(Local(c))
  BY <1>1, <1>4, <1>6, LocalIs, LocalNext DEF AfterPack
<1>8. After(Local(c), plan, found) = AfterPack(Local(c))
  BY <1>5, LocalIs DEF After
<1>9. ASSUME NEW d \in Clients, d # c PROVE Local(d)' = Local(d)
  BY <1>1, <1>4, <1>6, <1>9, LocalStays
<1> QED BY <1>1, <1>4, <1>5, <1>6, <1>7, <1>8, <1>9, QuietStep

LEMMA CommitMoves ==
  ASSUME IInv, Within, NEW c \in Clients, OpenForWriteCommit(c)
  PROVE  Moved(c)
<1> DEFINE h == Handle(c)
<1>1. /\ stage[c] = "commit"
      /\ okw' = [okw EXCEPT ![c][h] = @ \/ inUse[c][h]]
      /\ stage' = [stage EXCEPT ![c] = "putMeta"]
      /\ UNCHANGED <<plan, pos, cur, fld, outs, oid, frames, exited, inUse, bytes, buf>>
  BY DEF OpenForWriteCommit, Granted
<1>2. h \in Handles /\ inUse[c][h]
  BY <1>1, CallHandle DEF Writing
<1>3. PICK g \in Groups : ServerId(c, h, g) /\ LockOnto(c, h, g)
  BY DEF OpenForWriteCommit
<1>4. UNCHANGED <<server, prev, idle, found, seen>>
  BY <1>2, <1>3, LockedCallTable DEF pollVars
<1>5. stage'[c] = "putMeta"
  BY <1>1 DEF IInv, ClientTypeOK, MediationTypeOK
<1>6. okw'[c] = Put(okw[c], oid[c][cur[c]],
                    okw[c][oid[c][cur[c]]] \/ inUse[c][oid[c][cur[c]]])
  <2>1. okw \in [Clients -> [Handles -> BOOLEAN]]
    BY DEF IInv, ClientTypeOK, TablesTypeOK
  <2>2. okw'[c] = Put(okw[c], h, okw[c][h] \/ inUse[c][h])
    <3> DEFINE v == okw[c][h] \/ inUse[c][h]
    <3>1. okw' = [okw EXCEPT ![c][h] = v] BY <1>1
    <3> HIDE DEF h, v
    <3>2. okw'[c] = Put(okw[c], h, v) BY Zenon, <2>1, <3>1, PutAt
    <3> QED BY <3>2 DEF v
  <2> QED BY <2>2 DEF Handle
<1>7. Local(c)' = AfterCommit(Local(c))
  <2>1. /\ pos'[c] = pos[c] /\ cur'[c] = cur[c] /\ fld'[c] = fld[c] /\ oid'[c] = oid[c]
        /\ frames'[c] = frames[c] /\ inUse'[c] = inUse[c] /\ bytes'[c] = bytes[c]
        /\ server'[c] = server[c] /\ prev'[c] = prev[c] /\ exited'[c] = exited[c]
        /\ seen'[c] = seen[c] /\ outs'[c] = outs[c]
    BY <1>1, <1>4
  <2> QED BY <1>5, <1>6, <2>1, LocalIs, LocalNext DEF AfterCommit
<1>8. After(Local(c), plan, found) = AfterCommit(Local(c))
  BY <1>1, LocalIs DEF After
<1>9. Before(Local(c), Local(c)')
  <2>1. Order(stage[c]) < Order(stage'[c])
    BY <1>1, <1>5 DEF Order
  <2> QED BY <1>1, <2>1, Later
<1>10. ASSUME NEW d \in Clients, d # c PROVE Local(d)' = Local(d)
  BY <1>1, <1>4, <1>10, LocalStays DEF IInv, ClientTypeOK, MediationTypeOK, TablesTypeOK
<1> QED BY <1>1, <1>4, <1>7, <1>8, <1>9, <1>10, QuietStep

LEMMA IoSyncMoves ==
  ASSUME IInv, Within, NEW c \in Clients, IoSync(c)
  PROVE  Moved(c)
<1> DEFINE h == Handle(c)
           next == IF frames[c][cur[c]] + 1 >= FramesPerFile[cur[c]] THEN "close" ELSE "idle"
<1>1. /\ stage[c] = "sync"
      /\ frames' = [frames EXCEPT ![c][cur[c]] = @ + 1]
      /\ stage' = [stage EXCEPT ![c] = next]
      /\ UNCHANGED <<plan, pos, cur, fld, outs, oid, exited, inUse, okw, bytes>>
  BY DEF IoSync, CountFrame
<1>2. h \in Handles /\ inUse[c][h]
  BY <1>1, CallHandle DEF Writing
<1>3. UNCHANGED <<server, prev, idle, found, seen>>
  <2>1. CASE UNCHANGED <<server, prev, chan, pollVars, buf>>
    BY <2>1 DEF pollVars
  <2>2. CASE \E g \in Groups : ServerId(c, h, g) /\ LockOnto(c, h, g)
    BY <1>2, <2>2, LockedCallTable DEF pollVars
  <2> QED BY <2>1, <2>2 DEF IoSync
<1>4. stage'[c] = next /\ frames'[c] = Put(frames[c], cur[c], frames[c][cur[c]] + 1)
  BY <1>1 DEF IInv, ClientTypeOK, MediationTypeOK, Put
<1>5. Local(c)' = AfterSync(Local(c))
  <2>1. /\ pos'[c] = pos[c] /\ cur'[c] = cur[c] /\ fld'[c] = fld[c] /\ oid'[c] = oid[c]
        /\ inUse'[c] = inUse[c] /\ okw'[c] = okw[c] /\ bytes'[c] = bytes[c]
        /\ server'[c] = server[c] /\ prev'[c] = prev[c] /\ exited'[c] = exited[c]
        /\ seen'[c] = seen[c] /\ outs'[c] = outs[c]
    BY <1>1, <1>3
  <2> QED BY <1>4, <2>1, LocalIs, LocalNext DEF AfterSync
<1>6. After(Local(c), plan, found) = AfterSync(Local(c))
  BY <1>1, LocalIs DEF After
<1>7. Before(Local(c), Local(c)')
  <2>1. Order(stage[c]) < Order(stage'[c])
    BY <1>1, <1>4 DEF Order
  <2> QED BY <1>1, <2>1, Later
<1>8. ASSUME NEW d \in Clients, d # c PROVE Local(d)' = Local(d)
  BY <1>1, <1>3, <1>8, LocalStays DEF IInv, ClientTypeOK, MediationTypeOK
<1> QED BY <1>1, <1>3, <1>5, <1>6, <1>7, <1>8, QuietStep

LEMMA IoCloseMoves ==
  ASSUME IInv, Within, NEW c \in Clients, IoClose(c)
  PROVE  Moved(c)
<1> DEFINE h == Handle(c)
<1>1. /\ stage[c] \in {"close", "lastClose"}
      /\ inUse' = [inUse EXCEPT ![c][h] = FALSE]
      /\ server' = [server EXCEPT ![c][h] = 0]
      /\ okw' = [okw EXCEPT ![c][h] = FALSE]
      /\ bytes' = [bytes EXCEPT ![c][h] = 0]
      /\ oid' = [oid EXCEPT ![c][cur[c]] = 0]
      /\ frames' = [frames EXCEPT ![c][cur[c]] = 0]
      /\ stage' = [stage EXCEPT ![c] = IF stage[c] = "close" THEN "idle" ELSE "shutdown"]
      /\ UNCHANGED <<plan, pos, cur, fld, outs, exited>>
  BY DEF IoClose, ClearedBytes
<1>2. h \in Handles /\ inUse[c][h]
  BY <1>1, CallHandle
<1>3. PICK g \in Groups : ServerId(c, h, g)
  BY DEF IoClose
<1>4. UNCHANGED <<prev, idle, found, seen>>
  BY <1>2, <1>3, LockedCall DEF pollVars
<1>5. /\ stage'[c] = (IF stage[c] = "close" THEN "idle" ELSE "shutdown")
      /\ oid'[c] = [oid[c] EXCEPT ![cur[c]] = 0]
      /\ frames'[c] = [frames[c] EXCEPT ![cur[c]] = 0]
  BY <1>1 DEF IInv, ClientTypeOK, MediationTypeOK
<1>6. /\ inUse'[c] = [inUse[c] EXCEPT ![h] = FALSE]
      /\ okw'[c] = [okw[c] EXCEPT ![h] = FALSE]
      /\ bytes'[c] = [bytes[c] EXCEPT ![h] = 0]
      /\ server'[c] = [server[c] EXCEPT ![h] = 0]
  BY <1>1 DEF IInv, ClientTypeOK, TablesTypeOK
<1>7. Local(c)' = AfterClose(Local(c))
  <2>1. /\ pos'[c] = pos[c] /\ cur'[c] = cur[c] /\ fld'[c] = fld[c] /\ prev'[c] = prev[c]
        /\ exited'[c] = exited[c] /\ seen'[c] = seen[c] /\ outs'[c] = outs[c]
    BY <1>1, <1>4
  <2>2. h = oid[c][cur[c]] BY DEF Handle
  <2>3. /\ oid'[c] = Put(oid[c], cur[c], 0) /\ frames'[c] = Put(frames[c], cur[c], 0)
        /\ inUse'[c] = Put(inUse[c], h, FALSE) /\ okw'[c] = Put(okw[c], h, FALSE)
        /\ bytes'[c] = Put(bytes[c], h, 0) /\ server'[c] = Put(server[c], h, 0)
    BY <1>5, <1>6 DEF Put
  <2>4. stage'[c] = IF stage[c] = "close" THEN "idle" ELSE "shutdown"
    BY <1>5
  <2> QED BY <2>1, <2>2, <2>3, <2>4, LocalIs, LocalNext DEF AfterClose
<1>8. After(Local(c), plan, found) = AfterClose(Local(c))
  BY <1>1, LocalIs DEF After
<1>9. Before(Local(c), Local(c)')
  <2>1. CASE stage[c] = "close"
    <3>1. Order(stage[c]) < Order(stage'[c])
      BY <1>5, <2>1 DEF Order
    <3> QED BY <1>1, <3>1, Later
  <2>2. CASE stage[c] = "lastClose"
    <3>1. oid[c][cur[c]] # 0 /\ cur[c] \in Streams /\ oid[c] \in [Streams -> 0 .. NH]
      BY <2>2 DEF IInv, ClientTypeOK, MediationTypeOK, ClientInv, Placed
    <3>2. /\ Open(Local(c)') = Open(Local(c)) \ {cur[c]}
          /\ cur[c] \in Open(Local(c))
      BY <1>5, <3>1, LocalIs, LocalIsNext DEF Open
    <3>3. Closing(Local(c), Local(c)')
      BY <3>2, LocalIs DEF Closing
    <3>4. stage'[c] = "shutdown" /\ Order(stage'[c]) = Order(stage[c])
      BY <1>5, <2>2 DEF Order
    <3> QED BY <1>1, <2>2, <3>3, <3>4, LocalIs, LocalIsNext DEF Before
  <2> QED BY <1>1, <2>1, <2>2
<1>10. ASSUME NEW d \in Clients, d # c PROVE Local(d)' = Local(d)
  BY <1>1, <1>4, <1>10, LocalStays DEF IInv, ClientTypeOK, MediationTypeOK, TablesTypeOK
<1> QED BY <1>1, <1>4, <1>7, <1>8, <1>9, <1>10, QuietStep

\* The first of a set of streams is the only one which all others follow.
LEMMA FirstIs ==
  ASSUME NEW S \in SUBSET Streams, NEW s \in S, \A r \in S : s <= r
  PROVE  First(S) = s
<1>1. S \subseteq Int
  BY DEF Streams
<1>2. \A t \in S : (\A r \in S : t <= r) => t = s
  BY <1>1
<1> QED BY <1>2 DEF First

LEMMA ShutdownStreamMoves ==
  ASSUME IInv, Within, NEW c \in Clients, ShutdownStream(c)
  PROVE  Moved(c)
<1>1. /\ stage[c] = "shutdown"
      /\ UNCHANGED <<plan, pos, fld, outs, oid, frames, exited, chan>>
      /\ UNCHANGED <<inUse, okw, bytes, server, prev, idle, found, seen>>
  BY DEF ShutdownStream, tableVars, pollVars
<1>2. /\ stage \in [Clients -> Stages] /\ cur \in [Clients -> Streams]
      /\ oid[c] \in [Streams -> 0 .. NH]
  BY DEF IInv, ClientTypeOK, MediationTypeOK
<1>3. StillOpen(c) = Open(Local(c)) /\ StillOpen(c) \in SUBSET Streams
  BY <1>2, ClientConstants, LocalIs DEF StillOpen, Open
<1>4. After(Local(c), plan, found) = AfterShutdown(Local(c))
  BY <1>1, LocalIs DEF After
<1>5. Open(Local(c)') = Open(Local(c))
  BY <1>1, LocalIs, LocalIsNext DEF Open
<1>6. CASE StillOpen(c) # {}
  <2>1. PICK s \in StillOpen(c) : /\ \A r \in StillOpen(c) : s <= r
                                  /\ cur' = [cur EXCEPT ![c] = s]
    BY <1>6 DEF ShutdownStream
  <2>2. stage' = [stage EXCEPT ![c] = "lastClose"]
    BY <1>6 DEF ShutdownStream
  <2>3. First(Open(Local(c))) = s
    BY <1>3, <2>1, FirstIs
  <2>4. stage'[c] = "lastClose" /\ cur'[c] = First(Open(Local(c)))
    BY <1>2, <2>1, <2>2, <2>3
  <2>5. Local(c)' = AfterShutdown(Local(c))
    BY <1>1, <1>3, <1>6, <2>4, LocalIs, LocalNext DEF AfterShutdown
  <2>6. Before(Local(c), Local(c)')
    <3>1. Order(stage'[c]) = Order(stage[c])
      BY <1>1, <2>4 DEF Order
    <3>2. Closing(Local(c), Local(c)')
      BY <1>1, <1>5, <2>4, LocalIs, LocalIsNext DEF Closing
    <3> QED BY <1>1, <3>1, <3>2, LocalIs, LocalIsNext DEF Before
  <2>7. ASSUME NEW d \in Clients, d # c PROVE Local(d)' = Local(d)
    BY <1>1, <1>2, <2>1, <2>2, <2>7, LocalStays
  <2> QED BY <1>1, <1>4, <2>5, <2>6, <2>7, QuietStep
<1>7. CASE StillOpen(c) = {}
  <2>1. stage' = [stage EXCEPT ![c] = "exit"] /\ cur' = cur
    BY <1>7 DEF ShutdownStream
  <2>2. stage'[c] = "exit"
    BY <1>2, <2>1
  <2>3. Local(c)' = AfterShutdown(Local(c))
    BY <1>1, <1>3, <1>7, <2>1, <2>2, LocalIs, LocalNext DEF AfterShutdown
  <2>4. Before(Local(c), Local(c)')
    <3>1. Order(stage[c]) < Order(stage'[c])
      BY <1>1, <2>2 DEF Order
    <3> QED BY <1>1, <3>1, Later
  <2>5. ASSUME NEW d \in Clients, d # c PROVE Local(d)' = Local(d)
    BY <1>1, <1>2, <2>1, <2>5, LocalStays
  <2> QED BY <1>1, <1>4, <2>3, <2>4, <2>5, QuietStep
<1> QED BY <1>6, <1>7

-----------------------------------------------------------------------------
(* Steps that follow or extend the plan.                                     *)

LEMMA FollowMoves ==
  ASSUME IInv, Within, NEW c \in Clients, NEW x \in Streams \cup {Stop}, Follow(c, x),
         UNCHANGED <<found, seen>>
  PROVE  /\ plan'[pos[c] + 1] = x /\ pos[c] < Len(plan') /\ pos'[c] = pos[c] + 1
         /\ Extends(plan', plan) /\ Extends(found', found) /\ Within'
         /\ \A d \in Clients : d # c => pos'[d] = pos[d]
<1>1. /\ plan \in Seq(Streams \cup {Stop}) /\ pos \in [Clients -> Nat]
      /\ found \in Seq(Groups)
  BY DEF IInv, ClientTypeOK, MediationTypeOK, MessagesTypeOK
<1>2. /\ pos'[c] = pos[c] + 1
      /\ \A d \in Clients : d # c => pos'[d] = pos[d]
  BY <1>1 DEF Follow
<1>3. pos[c] <= Len(plan) /\ pos[c] \in Nat /\ Len(plan) \in Nat
  BY <1>1, LenProperties DEF Within
<1>4. Extends(found', found)
  BY <1>1, LenProperties DEF Extends
<1>5. CASE pos[c] < Len(plan)
  <2>1. plan' = plan /\ plan'[pos[c] + 1] = x
    BY <1>5 DEF Follow
  <2>2. Extends(plan', plan)
    BY <1>3, <2>1 DEF Extends
  <2>3. Within'
    BY <1>2, <1>3, <1>5, <2>1 DEF Within
  <2> QED BY <1>2, <1>4, <1>5, <2>1, <2>2, <2>3
<1>6. CASE ~(pos[c] < Len(plan))
  <2>1. plan' = Append(plan, x) /\ pos[c] = Len(plan)
    BY <1>3, <1>6 DEF Follow
  <2>2. /\ Len(plan') = Len(plan) + 1 /\ plan'[Len(plan) + 1] = x
        /\ \A i \in 1 .. Len(plan) : plan'[i] = plan[i]
    BY <1>1, <2>1, AppendProperties
  <2>3. Extends(plan', plan)
    BY <1>3, <2>2 DEF Extends
  <2>4. Within'
    <3>1. ASSUME NEW d \in Clients
          PROVE  pos'[d] <= Len(plan') /\ seen'[d] <= Len(found')
      <4>1. pos[d] \in Nat /\ pos[d] <= Len(plan) /\ seen[d] <= Len(found)
        BY <1>1 DEF Within
      <4> QED BY <1>2, <1>3, <2>1, <2>2, <4>1
    <3> QED BY <3>1 DEF Within
  <2> QED BY <1>2, <1>3, <1>4, <2>1, <2>2, <2>3, <2>4
<1> QED BY <1>5, <1>6

LEMMA BeginOutputMoves ==
  ASSUME IInv, Within, NEW c \in Clients, BeginOutput(c)
  PROVE  Moved(c)
<1>1. PICK s \in Streams :
        /\ Follow(c, s)
        /\ cur' = [cur EXCEPT ![c] = s]
        /\ outs' = [outs EXCEPT ![c][s] = @ + 1]
        /\ stage' = [stage EXCEPT ![c] = IF oid[c][s] = 0 THEN "open" ELSE "putMeta"]
  BY DEF BeginOutput
<1>2. /\ stage[c] = "idle"
      /\ UNCHANGED <<fld, oid, frames, exited, chan>>
      /\ UNCHANGED <<inUse, okw, bytes, server, prev, found, seen>>
  BY DEF BeginOutput, tableVars, pollVars
<1>3. /\ plan'[pos[c] + 1] = s /\ pos[c] < Len(plan') /\ pos'[c] = pos[c] + 1
      /\ Extends(plan', plan) /\ Extends(found', found) /\ Within'
      /\ \A d \in Clients : d # c => pos'[d] = pos[d]
  BY <1>1, <1>2, FollowMoves
<1>4. /\ cur'[c] = s /\ stage'[c] = (IF oid[c][s] = 0 THEN "open" ELSE "putMeta")
      /\ outs'[c] = Put(outs[c], s, outs[c][s] + 1)
  BY <1>1 DEF IInv, ClientTypeOK, MediationTypeOK, Put
<1>5. s # Stop
  BY DEF Streams, Stop
<1>6. Local(c)' = AfterIdle(Local(c), plan')
  <2>1. /\ fld'[c] = fld[c] /\ oid'[c] = oid[c] /\ frames'[c] = frames[c]
        /\ inUse'[c] = inUse[c] /\ okw'[c] = okw[c] /\ bytes'[c] = bytes[c]
        /\ server'[c] = server[c] /\ prev'[c] = prev[c] /\ exited'[c] = exited[c]
        /\ seen'[c] = seen[c]
    BY <1>2
  <2> QED BY <1>3, <1>4, <1>5, <2>1, LocalIs, LocalNext DEF AfterIdle
<1>7. After(Local(c), plan', found') = AfterIdle(Local(c), plan')
  BY <1>2, LocalIs DEF After
<1>8. Ready(Local(c), plan', found')
  BY <1>2, <1>3, LocalIs DEF Ready
<1>9. Before(Local(c), Local(c)')
  BY <1>3, LaterOutput
<1>10. ASSUME NEW d \in Clients, d # c PROVE Local(d)' = Local(d)
  BY <1>1, <1>2, <1>3, <1>10, LocalStays DEF IInv, ClientTypeOK, MediationTypeOK
<1> QED BY <1>3, <1>6, <1>7, <1>8, <1>9, <1>10 DEF Moved

LEMMA BeginShutdownMoves ==
  ASSUME IInv, Within, NEW c \in Clients, BeginShutdown(c)
  PROVE  Moved(c)
<1>1. /\ stage[c] = "idle" /\ Follow(c, Stop)
      /\ stage' = [stage EXCEPT ![c] = "shutdown"]
      /\ UNCHANGED <<cur, fld, outs, oid, frames, exited, chan>>
      /\ UNCHANGED <<inUse, okw, bytes, server, prev, found, seen>>
  BY DEF BeginShutdown, tableVars, pollVars
<1>2. /\ plan'[pos[c] + 1] = Stop /\ pos[c] < Len(plan') /\ pos'[c] = pos[c] + 1
      /\ Extends(plan', plan) /\ Extends(found', found) /\ Within'
      /\ \A d \in Clients : d # c => pos'[d] = pos[d]
  BY <1>1, FollowMoves
<1>3. stage'[c] = "shutdown"
  BY <1>1 DEF IInv, ClientTypeOK, MediationTypeOK
<1>4. Local(c)' = AfterIdle(Local(c), plan')
  <2>1. /\ cur'[c] = cur[c] /\ fld'[c] = fld[c] /\ oid'[c] = oid[c] /\ frames'[c] = frames[c]
        /\ inUse'[c] = inUse[c] /\ okw'[c] = okw[c] /\ bytes'[c] = bytes[c]
        /\ server'[c] = server[c] /\ prev'[c] = prev[c] /\ exited'[c] = exited[c]
        /\ seen'[c] = seen[c] /\ outs'[c] = outs[c]
    BY <1>1
  <2> QED BY <1>2, <1>3, <2>1, LocalIs, LocalNext DEF AfterIdle
<1>5. After(Local(c), plan', found') = AfterIdle(Local(c), plan')
  BY <1>1, LocalIs DEF After
<1>6. Ready(Local(c), plan', found')
  BY <1>1, <1>2, LocalIs DEF Ready
<1>7. Before(Local(c), Local(c)')
  BY <1>2, LaterOutput
<1>8. ASSUME NEW d \in Clients, d # c PROVE Local(d)' = Local(d)
  BY <1>1, <1>2, <1>8, LocalStays DEF IInv, ClientTypeOK, MediationTypeOK
<1> QED BY <1>2, <1>4, <1>5, <1>6, <1>7, <1>8 DEF Moved

-----------------------------------------------------------------------------
(* Steps that find a group.                                                  *)

LEMMA FoundMoves ==
  ASSUME IInv, Within, NEW c \in Clients, NEW g \in Groups, FindServer(c, g),
         UNCHANGED <<plan, pos>>
  PROVE  /\ found'[seen[c] + 1] = g /\ seen[c] < Len(found') /\ seen'[c] = seen[c] + 1
         /\ Extends(plan', plan) /\ Extends(found', found) /\ Within'
         /\ \A d \in Clients : d # c => seen'[d] = seen[d]
<1>1. /\ plan \in Seq(Streams \cup {Stop}) /\ pos \in [Clients -> Nat]
      /\ found \in Seq(Groups) /\ seen \in [Clients -> Nat]
  BY DEF IInv, ClientTypeOK, MediationTypeOK, MessagesTypeOK
<1>2. /\ seen'[c] = seen[c] + 1
      /\ \A d \in Clients : d # c => seen'[d] = seen[d]
  BY <1>1 DEF FindServer
<1>3. Len(found) \in Nat /\ Len(plan) \in Nat /\ seen[c] \in Nat /\ Monitor \in Clients
  BY <1>1, LenProperties, ClientConstants DEF Monitor, Clients
<1>4. Extends(plan', plan)
  BY <1>3 DEF Extends
<1>5. CASE c = Monitor
  <2>1. found' = Append(found, g) /\ seen[c] = Len(found)
    BY <1>5 DEF FindServer, Within
  <2>2. /\ Len(found') = Len(found) + 1 /\ found'[Len(found) + 1] = g
        /\ \A i \in 1 .. Len(found) : found'[i] = found[i]
    BY <1>1, <2>1, AppendProperties
  <2>3. Extends(found', found)
    BY <1>3, <2>2 DEF Extends
  <2>4. Within'
    <3>1. ASSUME NEW d \in Clients
          PROVE  pos'[d] <= Len(plan') /\ seen'[d] <= Len(found')
      <4>1. seen[d] \in Nat /\ seen[d] <= Len(found) /\ pos[d] <= Len(plan)
        BY <1>1 DEF Within
      <4> QED BY <1>2, <1>3, <2>1, <2>2, <4>1
    <3>2. seen'[Monitor] = Len(found')
      BY <1>2, <1>5, <2>1, <2>2
    <3> QED BY <3>1, <3>2 DEF Within
  <2> QED BY <1>2, <1>3, <1>4, <2>1, <2>2, <2>3, <2>4
<1>6. CASE c # Monitor
  <2>1. found' = found /\ seen[c] < Len(found) /\ g = found[seen[c] + 1]
    BY <1>6 DEF FindServer, Broadcast
  <2>2. Extends(found', found)
    BY <1>3, <2>1 DEF Extends
  <2>3. Within'
    <3>1. ASSUME NEW d \in Clients
          PROVE  pos'[d] <= Len(plan') /\ seen'[d] <= Len(found')
      <4>1. seen[d] \in Nat /\ seen[d] <= Len(found) /\ pos[d] <= Len(plan)
        BY <1>1 DEF Within
      <4> QED BY <1>2, <1>3, <2>1, <4>1
    <3>2. seen'[Monitor] = Len(found')
      BY <1>2, <1>3, <1>6, <2>1 DEF Within
    <3> QED BY <3>1, <3>2 DEF Within
  <2> QED BY <1>2, <1>4, <2>1, <2>2, <2>3
<1> QED BY <1>5, <1>6

LEMMA FreshIs ==
  ASSUME NEW c \in Clients, NEW h, FreshHandle(c, h)
  PROVE  Fresh(Local(c)) = h
<1>1. /\ h \in Handles /\ ~inUse[c][h] /\ \A k \in 1 .. h - 1 : inUse[c][k]
  BY DEF FreshHandle
<1>2. \A k \in Handles :
        ~inUse[c][k] /\ (\A j \in 1 .. k - 1 : inUse[c][j]) => k = h
  <2> SUFFICES ASSUME NEW k \in Handles, ~inUse[c][k], \A j \in 1 .. k - 1 : inUse[c][j],
                      k # h
               PROVE  FALSE
    OBVIOUS
  <2>1. k \in 1 .. h - 1 \/ h \in 1 .. k - 1
    BY <1>1, ClientConstants DEF Handles
  <2> QED BY <1>1, <2>1
<1> QED BY <1>1, <1>2, LocalIs DEF Fresh

LEMMA OpenForWriteBeginMoves ==
  ASSUME IInv, Within, NEW c \in Clients, OpenForWriteBegin(c)
  PROVE  Moved(c)
<1>1. PICK h \in Handles, g \in Groups :
        /\ FreshHandle(c, h)
        /\ ServerId(c, h, g)
        /\ LockOnto(c, h, g)
        /\ inUse' = [inUse EXCEPT ![c][h] = TRUE]
        /\ okw' = [okw EXCEPT ![c][h] = FALSE]
        /\ oid' = [oid EXCEPT ![c][cur[c]] = h]
  BY DEF OpenForWriteBegin
<1>2. /\ stage[c] = "open" /\ stage' = [stage EXCEPT ![c] = "trainMeta"]
      /\ UNCHANGED <<plan, pos, cur, fld, outs, frames, exited, bytes>>
  BY DEF OpenForWriteBegin
<1>3. /\ server' = [server EXCEPT ![c][h] = g]
      /\ prev \in [Clients -> -1 .. NG - 1]
      /\ seen \in [Clients -> Nat] /\ found \in Seq(Groups)
      /\ plan \in Seq(Streams \cup {Stop})
  BY <1>1 DEF LockOnto, IInv, ClientTypeOK, TablesTypeOK, MediationTypeOK, MessagesTypeOK
<1>4. NeedsGroup(c, h)
  <2>1. server[c][h] = 0
    BY <1>1 DEF FreshHandle, IInv, ClientInv, Locked
  <2> QED BY <2>1 DEF NeedsGroup
<1>5. /\ g = Group(Local(c), found') /\ seen'[c] = Seen(Local(c))
      /\ prev'[c] = IF Poll THEN prev[c] ELSE Turn(Local(c))
      /\ Poll => seen[c] < Len(found')
      /\ Extends(plan', plan) /\ Extends(found', found) /\ Within'
      /\ \A d \in Clients : d # c => seen'[d] = seen[d] /\ prev'[d] = prev[d]
  <2>1. CASE Poll
    <3>1. FindServer(c, g) /\ UNCHANGED prev
      BY <1>1, <1>4, <2>1 DEF ServerId
    <3>2. /\ found'[seen[c] + 1] = g /\ seen[c] < Len(found') /\ seen'[c] = seen[c] + 1
          /\ Extends(plan', plan) /\ Extends(found', found) /\ Within'
          /\ \A d \in Clients : d # c => seen'[d] = seen[d]
      BY <1>2, <3>1, FoundMoves
    <3> QED BY <2>1, <3>1, <3>2, LocalIs DEF Group, Seen
  <2>2. CASE ~Poll
    <3>1. /\ g = NextTurn(c) + 1 /\ prev' = [prev EXCEPT ![c] = NextTurn(c)]
          /\ UNCHANGED <<found, seen>>
      BY <1>1, <1>4, <2>2 DEF ServerId, pollVars
    <3>2. NextTurn(c) = Turn(Local(c))
      BY LocalIs DEF NextTurn, Turn
    <3>3. Extends(plan', plan) /\ Extends(found', found)
      BY <1>2, <1>3, <3>1, LenProperties DEF Extends
    <3>4. Within'
      BY <1>2, <3>1 DEF Within
    <3>5. prev'[c] = NextTurn(c) /\ \A d \in Clients : d # c => prev'[d] = prev[d]
      BY <1>3, <3>1
    <3>6. g = Group(Local(c), found') /\ seen'[c] = Seen(Local(c))
      BY <2>2, <3>1, <3>2, LocalIs DEF Group, Seen
    <3>7. prev'[c] = Turn(Local(c)) /\ \A d \in Clients : d # c => seen'[d] = seen[d]
      BY <3>1, <3>2, <3>5
    <3> QED BY <2>2, <3>3, <3>4, <3>5, <3>6, <3>7
  <2> QED BY <2>1, <2>2
<1>6. stage'[c] = "trainMeta" /\ oid'[c] = [oid[c] EXCEPT ![cur[c]] = h]
  BY <1>1, <1>2 DEF IInv, ClientTypeOK, MediationTypeOK
<1>7. /\ inUse'[c] = [inUse[c] EXCEPT ![h] = TRUE]
      /\ okw'[c] = [okw[c] EXCEPT ![h] = FALSE]
      /\ server'[c] = [server[c] EXCEPT ![h] = g]
  BY <1>1, <1>3 DEF IInv, ClientTypeOK, TablesTypeOK
<1>8. Fresh(Local(c)) = h
  BY <1>1, FreshIs
<1>9. Local(c)' = AfterOpen(Local(c), found')
  <2>1. /\ pos'[c] = pos[c] /\ cur'[c] = cur[c] /\ fld'[c] = fld[c] /\ frames'[c] = frames[c]
        /\ bytes'[c] = bytes[c] /\ exited'[c] = exited[c] /\ outs'[c] = outs[c]
    BY <1>2
  <2>2. /\ g = Group(Local(c), found') /\ seen'[c] = Seen(Local(c))
        /\ prev'[c] = IF Poll THEN prev[c] ELSE Turn(Local(c))
    BY <1>5
  <2>3. /\ oid'[c] = Put(oid[c], cur[c], h) /\ inUse'[c] = Put(inUse[c], h, TRUE)
        /\ okw'[c] = Put(okw[c], h, FALSE) /\ server'[c] = Put(server[c], h, g)
    BY <1>6, <1>7 DEF Put
  <2> QED BY <1>6, <1>8, <2>1, <2>2, <2>3, LocalIs, LocalNext DEF AfterOpen
<1>10. After(Local(c), plan', found') = AfterOpen(Local(c), found')
  BY <1>2, LocalIs DEF After
<1>11. Ready(Local(c), plan', found')
  BY <1>2, <1>5, LocalIs DEF Ready
<1>12. Before(Local(c), Local(c)')
  <2>1. Order(stage[c]) < Order(stage'[c])
    BY <1>2, <1>6 DEF Order
  <2> QED BY <1>2, <2>1, Later
<1>13. ASSUME NEW d \in Clients, d # c PROVE Local(d)' = Local(d)
  <2>1. /\ inUse'[d] = inUse[d] /\ okw'[d] = okw[d] /\ server'[d] = server[d]
        /\ oid'[d] = oid[d] /\ stage'[d] = stage[d]
    BY <1>1, <1>2, <1>3, <1>13 DEF IInv, ClientTypeOK, MediationTypeOK, TablesTypeOK
  <2> QED BY <1>2, <1>5, <1>13, <2>1, LocalStays
<1> QED BY <1>5, <1>9, <1>10, <1>11, <1>12, <1>13 DEF Moved

LEMMA IoExitMoves ==
  ASSUME IInv, Within, NEW c \in Clients, IoExit(c)
  PROVE  Moved(c)
<1>1. /\ stage[c] = "exit"
      /\ exited' = [exited EXCEPT ![c] = exited[c] + 1]
      /\ stage' = [stage EXCEPT ![c] = IF exited[c] + 1 = NG THEN "gone" ELSE "exit"]
      /\ UNCHANGED <<plan, pos, cur, fld, outs, oid, frames>>
      /\ UNCHANGED <<inUse, okw, bytes, server, prev>>
  BY DEF IoExit, tableVars
<1>2. /\ plan \in Seq(Streams \cup {Stop}) /\ found \in Seq(Groups)
      /\ exited[c] \in Nat
  BY ClientConstants DEF IInv, ClientTypeOK, MediationTypeOK, MessagesTypeOK
<1>3. /\ seen'[c] = Seen(Local(c))
      /\ Poll => seen[c] < Len(found')
      /\ Extends(plan', plan) /\ Extends(found', found) /\ Within'
      /\ \A d \in Clients : d # c => seen'[d] = seen[d]
  <2>1. CASE Poll
    <3>1. PICK g \in Groups : FindServer(c, g)
      BY <2>1 DEF IoExit
    <3>2. /\ seen[c] < Len(found') /\ seen'[c] = seen[c] + 1
          /\ Extends(plan', plan) /\ Extends(found', found) /\ Within'
          /\ \A d \in Clients : d # c => seen'[d] = seen[d]
      BY <1>1, <3>1, FoundMoves
    <3> QED BY <2>1, <3>2, LocalIs DEF Seen
  <2>2. CASE ~Poll
    <3>1. UNCHANGED <<found, seen>>
      BY <2>2 DEF IoExit, pollVars
    <3>2. Extends(plan', plan) /\ Extends(found', found)
      BY <1>1, <1>2, <3>1, LenProperties DEF Extends
    <3>3. Within'
      BY <1>1, <3>1 DEF Within
    <3>4. seen'[c] = Seen(Local(c))
      BY <2>2, <3>1, LocalIs DEF Seen
    <3> QED BY <2>2, <3>1, <3>2, <3>3, <3>4
  <2> QED BY <2>1, <2>2
<1>4. /\ stage'[c] = (IF exited[c] + 1 = NG THEN "gone" ELSE "exit")
      /\ exited'[c] = exited[c] + 1
  BY <1>1 DEF IInv, ClientTypeOK, MediationTypeOK
<1>5. Local(c)' = AfterExit(Local(c))
  BY <1>1, <1>3, <1>4, LocalIs, LocalNext DEF AfterExit
<1>6. After(Local(c), plan', found') = AfterExit(Local(c))
  BY <1>1, LocalIs DEF After
<1>7. Ready(Local(c), plan', found')
  BY <1>1, <1>3, LocalIs DEF Ready
<1>8. Before(Local(c), Local(c)')
  <2>1. CASE exited[c] + 1 = NG
    <3>1. Order(stage[c]) < Order(stage'[c])
      BY <1>1, <1>4, <2>1 DEF Order
    <3> QED BY <1>1, <3>1, Later
  <2>2. CASE exited[c] + 1 # NG
    <3>1. stage'[c] = "exit" /\ exited[c] < exited'[c]
      BY <1>2, <1>4, <2>2
    <3> QED BY <1>1, <3>1, LocalIs, LocalIsNext DEF Before
  <2> QED BY <2>1, <2>2
<1>9. ASSUME NEW d \in Clients, d # c PROVE Local(d)' = Local(d)
  <2>1. exited'[d] = exited[d] /\ stage'[d] = stage[d]
    BY <1>1, <1>9 DEF IInv, ClientTypeOK, MediationTypeOK
  <2> QED BY <1>1, <1>3, <1>9, <2>1, LocalStays
<1> QED BY <1>3, <1>5, <1>6, <1>7, <1>8, <1>9 DEF Moved

LEMMA ClientStepMoves ==
  ASSUME IInv, Within, NEW c \in Clients, ClientStep(c)
  PROVE  Moved(c)
BY BeginOutputMoves, OpenForWriteBeginMoves, PutMetaMoves, TrainFieldMoves,
   PackFieldMoves, CommitMoves, IoSyncMoves, IoCloseMoves, BeginShutdownMoves,
   ShutdownStreamMoves, IoExitMoves DEF ClientStep

-----------------------------------------------------------------------------
(* The common sequence                                                       *)

\* A state already passed stays good, and what followed it still does, when the
\* plan and the groups found grow.
LEMMA GoodStays ==
  ASSUME NEW p, NEW f, NEW q, NEW k, NEW x, Extends(q, p), Extends(k, f),
         Len(p) \in Nat, Len(f) \in Nat, Len(q) \in Nat, Len(k) \in Nat, Good(x, p, f)
  PROVE  Good(x, q, k)
BY DEF Good, Extends

LEMMA AfterIsSettled ==
  ASSUME NEW p, NEW f, NEW q, NEW k, NEW x, Extends(q, p), Extends(k, f),
         Len(p) \in Nat, Len(f) \in Nat, Len(q) \in Nat, Len(k) \in Nat,
         Good(x, p, f), Ready(x, p, f)
  PROVE  Ready(x, q, k) /\ After(x, q, k) = After(x, p, f)
<1>1. x.pos \in Nat /\ x.seen \in Nat /\ x.stage \in Stages
  BY DEF Good
<1>2. Ready(x, q, k)
  BY <1>1 DEF Ready, Extends
<1>3. CASE x.stage = "idle"
  <2>1. q[x.pos + 1] = p[x.pos + 1]
    BY <1>1, <1>3 DEF Ready, Extends
  <2>2. AfterIdle(x, q) = AfterIdle(x, p)
    BY <2>1 DEF AfterIdle
  <2> QED BY <1>2, <1>3, <2>2 DEF After
<1>4. CASE x.stage = "open"
  <2>1. Poll => k[x.seen + 1] = f[x.seen + 1]
    BY <1>1, <1>4 DEF Ready, Extends
  <2>2. Group(x, k) = Group(x, f)
    BY <2>1 DEF Group
  <2>3. AfterOpen(x, k) = AfterOpen(x, f)
    BY <2>2 DEF AfterOpen
  <2> QED BY <1>2, <1>4, <2>3 DEF After
<1>5. CASE x.stage \in {"trainMeta", "putMeta", "train", "write"}
  <2>1. /\ x.stage \in {"trainMeta", "putMeta"} =>
             After(x, q, k) = AfterMeta(x) /\ After(x, p, f) = AfterMeta(x)
        /\ x.stage = "train" =>
             After(x, q, k) = AfterTrain(x) /\ After(x, p, f) = AfterTrain(x)
        /\ x.stage = "write" =>
             After(x, q, k) = AfterPack(x) /\ After(x, p, f) = AfterPack(x)
    BY DEF After
  <2> QED BY <1>2, <1>5, <2>1
<1>6. CASE x.stage \in {"commit", "sync", "close", "lastClose"}
  <2>1. /\ x.stage = "commit" =>
             After(x, q, k) = AfterCommit(x) /\ After(x, p, f) = AfterCommit(x)
        /\ x.stage = "sync" =>
             After(x, q, k) = AfterSync(x) /\ After(x, p, f) = AfterSync(x)
        /\ x.stage \in {"close", "lastClose"} =>
             After(x, q, k) = AfterClose(x) /\ After(x, p, f) = AfterClose(x)
    BY DEF After
  <2> QED BY <1>2, <1>6, <2>1
<1>7. CASE x.stage \in {"shutdown", "exit"}
  <2>1. /\ x.stage = "shutdown" =>
             After(x, q, k) = AfterShutdown(x) /\ After(x, p, f) = AfterShutdown(x)
        /\ x.stage = "exit" =>
             After(x, q, k) = AfterExit(x) /\ After(x, p, f) = AfterExit(x)
    BY DEF After
  <2> QED BY <1>2, <1>7, <2>1
<1> QED BY <1>1, <1>3, <1>4, <1>5, <1>6, <1>7 DEF Stages, Ready

\* The first n states of the sequence tr: each follows from the one before it,
\* and no point of the program is passed twice.
Passed(tr, n) ==
  /\ \A i \in 1 .. n : Good(tr[i], plan, found)
  /\ \A i \in 1 .. n - 1 : Ready(tr[i], plan, found) /\ tr[i + 1] = After(tr[i], plan, found)
  /\ \A i, j \in 1 .. n : i < j => Before(tr[i], tr[j])
\* Every client is in one of them.
OnIt(tr, n) == \A c \in Clients : \E i \in 1 .. n : tr[i] = Local(c)

Agree == Within /\ \E n \in Nat \ {0} : \E tr : Passed(tr, n) /\ OnIt(tr, n)

LEMMA InitAgree ==
  ASSUME Init
  PROVE  Agree
<1> DEFINE x == Local(Monitor)
           tr == [i \in 1 .. 1 |-> x]
<1>1. Len(plan) = 0 /\ Len(found) = 0 /\ Monitor \in Clients
  BY ClientConstants DEF Init, Monitor, Clients
<1>2. Within
  BY <1>1 DEF Init, Within
<1>3. ASSUME NEW c \in Clients PROVE Local(c) = x
  BY <1>1 DEF Init, Local
<1>4. Good(x, plan, found)
  BY <1>1, InitIInv, <1>2, WithinGood
<1>5. tr[1] = x
  OBVIOUS
<1> HIDE DEF tr, x
<1>6. Passed(tr, 1)
  BY <1>4, <1>5 DEF Passed
<1>7. OnIt(tr, 1)
  BY <1>3, <1>5 DEF OnIt
<1> QED BY <1>2, <1>6, <1>7 DEF Agree

\* What has been passed stays passed when the plan and the groups found grow.
LEMMA PassedStays ==
  ASSUME IInv, IInv', NEW tr, NEW n \in Nat, Passed(tr, n),
         Extends(plan', plan), Extends(found', found)
  PROVE  Passed(tr, n)'
<1>1. Len(plan) \in Nat /\ Len(found) \in Nat /\ Len(plan') \in Nat /\ Len(found') \in Nat
  BY LenProperties DEF IInv, ClientTypeOK, MediationTypeOK, MessagesTypeOK
<1>2. ASSUME NEW i \in 1 .. n PROVE Good(tr[i], plan', found')
  BY <1>1, <1>2, GoodStays DEF Passed
<1>3. ASSUME NEW i \in 1 .. n - 1
      PROVE  Ready(tr[i], plan', found') /\ tr[i + 1] = After(tr[i], plan', found')
  <2>1. i \in 1 .. n
    OBVIOUS
  <2>2. /\ Good(tr[i], plan, found) /\ Ready(tr[i], plan, found)
        /\ tr[i + 1] = After(tr[i], plan, found)
    BY <1>3, <2>1 DEF Passed
  <2>3. /\ Ready(tr[i], plan', found')
        /\ After(tr[i], plan', found') = After(tr[i], plan, found)
    BY <1>1, <2>2, AfterIsSettled
  <2> QED BY <2>2, <2>3
<1>4. \A i, j \in 1 .. n : i < j => Before(tr[i], tr[j])
  BY DEF Passed
<1> QED BY <1>2, <1>3, <1>4 DEF Passed

\* The client furthest ahead adds its new state to the sequence; any other moves
\* to a state which is on it already.
LEMMA ClientStepAgrees ==
  ASSUME IInv, IInv', Agree, NEW c \in Clients, ClientStep(c)
  PROVE  Agree'
<1>1. Moved(c)
  BY ClientStepMoves DEF Agree
<1>2. /\ Ready(Local(c), plan', found')
      /\ Local(c)' = After(Local(c), plan', found')
      /\ Before(Local(c), Local(c)')
      /\ \A d \in Clients : d # c => Local(d)' = Local(d)
      /\ Extends(plan', plan) /\ Extends(found', found) /\ Within'
  BY <1>1 DEF Moved
<1>a. PICK n \in Nat \ {0} : \E tr : Passed(tr, n) /\ OnIt(tr, n)
  BY DEF Agree
<1>3. PICK tr : Passed(tr, n) /\ OnIt(tr, n)
  BY <1>a
<1>4. Passed(tr, n)'
  BY <1>2, <1>3, PassedStays
<1>5. PICK i \in 1 .. n : tr[i] = Local(c)
  BY <1>3 DEF OnIt
<1>6. Good(Local(c)', plan', found')
  BY <1>2, WithinGoodNext
<1>7. CASE i < n
  <2>1. i \in 1 .. n - 1 /\ i + 1 \in 1 .. n
    BY <1>7
  <2>2. tr[i + 1] = Local(c)'
    BY <1>2, <1>4, <1>5, <2>1 DEF Passed
  <2>3. ASSUME NEW d \in Clients PROVE \E j \in 1 .. n : tr[j] = Local(d)'
    <3>1. CASE d = c
      BY <2>1, <2>2, <3>1
    <3>2. CASE d # c
      BY <1>2, <1>3, <3>2 DEF OnIt
    <3> QED BY <3>1, <3>2
  <2>4. OnIt(tr, n)'
    BY <2>3 DEF OnIt
  <2> QED BY <1>2, <1>4, <2>4 DEF Agree
<1>8. CASE i = n
  <2> DEFINE m == n + 1
  <2>1. PICK ts : /\ ts[m] = Local(c)' /\ ts[n] = tr[n]
                  /\ \A j \in 1 .. n : ts[j] = tr[j] /\ j \in 1 .. m
                  /\ m \in Nat \ {0} /\ m \in 1 .. m
    <3> WITNESS [j \in 1 .. m |-> IF j = m THEN Local(c)' ELSE tr[j]]
    <3> QED OBVIOUS
  <2>2. \A j \in 1 .. m : Good(ts[j], plan', found')
    BY <1>4, <1>6, <2>1 DEF Passed
  <2>3. ASSUME NEW j \in 1 .. m - 1
        PROVE  Ready(ts[j], plan', found') /\ ts[j + 1] = After(ts[j], plan', found')
    <3>1. CASE j = n
      BY <1>2, <1>5, <1>8, <2>1, <3>1
    <3>2. CASE j # n
      <4>1. j \in 1 .. n - 1 /\ j \in 1 .. n /\ j + 1 \in 1 .. n
        BY <3>2
      <4>2. Ready(tr[j], plan', found') /\ tr[j + 1] = After(tr[j], plan', found')
        BY <1>4, <4>1 DEF Passed
      <4> QED BY <2>1, <4>1, <4>2
    <3> QED BY <3>1, <3>2
  <2>4. ASSUME NEW j \in 1 .. m, NEW k \in 1 .. m, j < k PROVE Before(ts[j], ts[k])
    <3>1. CASE k # m
      <4>1. j \in 1 .. n /\ k \in 1 .. n
        BY <2>4, <3>1
      <4> QED BY <1>4, <2>1, <2>4, <4>1 DEF Passed
    <3>2. CASE k = m
      <4>1. j \in 1 .. n /\ n \in 1 .. n
        BY <2>4, <3>2
      <4>2. Before(tr[n], Local(c)')
        BY <1>2, <1>5, <1>8
      <4>3. CASE j = n
        BY <2>1, <3>2, <4>1, <4>2, <4>3
      <4>4. CASE j # n
        <5>1. Before(tr[j], tr[n])
          BY <1>4, <4>1, <4>4 DEF Passed
        <5>2. Good(tr[j], plan', found') /\ Good(tr[n], plan', found')
          BY <1>4, <4>1 DEF Passed
        <5>3. Before(tr[j], Local(c)')
          BY <1>6, <4>2, <5>1, <5>2, BeforeTransitive
        <5> QED BY <2>1, <3>2, <4>1, <5>3
      <4> QED BY <4>3, <4>4
    <3> QED BY <3>1, <3>2
  <2>5. Passed(ts, m)'
    BY <2>2, <2>3, <2>4 DEF Passed
  <2>6. ASSUME NEW d \in Clients PROVE \E j \in 1 .. m : ts[j] = Local(d)'
    <3>1. CASE d = c
      BY <2>1, <3>1
    <3>2. CASE d # c
      <4>1. PICK j \in 1 .. n : tr[j] = Local(d)
        BY <1>3 DEF OnIt
      <4> QED BY <1>2, <2>1, <3>2, <4>1
    <3> QED BY <3>1, <3>2
  <2>7. OnIt(ts, m)'
    BY <2>6 DEF OnIt
  <2> QED BY <1>2, <2>1, <2>5, <2>7 DEF Agree
<1> QED BY <1>7, <1>8

\* Steps that leave the clients where they are.
LEMMA StandingAgrees ==
  ASSUME IInv, Agree, UNCHANGED <<mediationVars, tableVars>>, UNCHANGED <<found, seen>>
  PROVE  Agree'
<1>1. UNCHANGED <<plan, pos, stage, cur, fld, outs, oid, frames, exited,
                  inUse, okw, bytes, server, prev>>
  BY DEF mediationVars, tableVars
<1>2. \A c \in Clients : Local(c)' = Local(c)
  BY <1>1, LocalStays
<1>3. Within'
  BY <1>1 DEF Agree, Within
<1>a. PICK n \in Nat \ {0} : \E tr : Passed(tr, n) /\ OnIt(tr, n)
  BY DEF Agree
<1>4. PICK tr : Passed(tr, n) /\ OnIt(tr, n)
  BY <1>a
<1>5. Passed(tr, n)'
  BY <1>1, <1>4 DEF Passed
<1>6. OnIt(tr, n)'
  BY <1>2, <1>4 DEF OnIt
<1> QED BY <1>3, <1>5, <1>6 DEF Agree

LEMMA StepAgrees ==
  ASSUME IInv, IInv', Agree, [ClientNext]_clientVars
  PROVE  Agree'
<1>1. CASE \E c \in Clients : ClientStep(c)
  BY <1>1, ClientStepAgrees
<1>2. CASE Received \/ Offered \/ UNCHANGED clientVars
  <2>1. UNCHANGED <<mediationVars, tableVars>> /\ UNCHANGED <<found, seen>>
    BY <1>2 DEF Received, Offered, clientVars, pollVars
  <2> QED BY <2>1, StandingAgrees
<1> QED BY <1>1, <1>2 DEF ClientNext

\* Two clients at the same point of the program are in the same state.
LEMMA SameState ==
  ASSUME IInv, Agree, NEW c \in Clients, NEW d \in Clients, AtSamePoint(c, d)
  PROVE  Local(c) = Local(d)
<1>a. PICK n \in Nat \ {0} : \E tr : Passed(tr, n) /\ OnIt(tr, n)
  BY DEF Agree
<1>1. PICK tr : Passed(tr, n) /\ OnIt(tr, n)
  BY <1>a
<1>2. PICK i \in 1 .. n : tr[i] = Local(c)
  BY <1>1 DEF OnIt
<1>3. PICK j \in 1 .. n : tr[j] = Local(d)
  BY <1>1 DEF OnIt
<1>4. SamePoint(Local(c), Local(d)) /\ SamePoint(Local(d), Local(c))
  BY LocalIs DEF AtSamePoint, SamePoint, Open
<1>5. Good(Local(c), plan, found) /\ Good(Local(d), plan, found)
  BY <1>1, <1>2, <1>3 DEF Passed
<1>6. ~(i < j)
  BY <1>1, <1>2, <1>3, <1>4, <1>5, BeforeIsElsewhere DEF Passed
<1>7. ~(j < i)
  BY <1>1, <1>2, <1>3, <1>4, <1>5, BeforeIsElsewhere DEF Passed
<1>8. i = j
  BY <1>6, <1>7
<1> QED BY <1>2, <1>3, <1>8

-----------------------------------------------------------------------------
(* The theorem.                                                              *)

\* Each compute task keeps tables of its own and none compares them: yet two
\* tasks at the same point of the program hold the same handles, groups, sizes
\* and permissions, so that their collective calls meet on one server.
THEOREM TablesStayInStep == ClientSpec => []TablesAgree
<1>1. Init => IInv /\ Agree
  BY InitIInv, InitAgree
<1>2. IInv /\ IInv' /\ Agree /\ [ClientNext]_clientVars => Agree'
  BY StepAgrees
<1>3. IInv /\ Agree => TablesAgree
  <2> SUFFICES ASSUME IInv, Agree, NEW c \in Clients, NEW d \in Clients, AtSamePoint(c, d)
               PROVE  /\ oid[c] = oid[d] /\ server[c] = server[d] /\ prev[c] = prev[d]
                      /\ bytes[c] = bytes[d] /\ okw[c] = okw[d] /\ seen[c] = seen[d]
    BY DEF TablesAgree
  <2> QED BY SameState, LocalIs
<1> QED BY <1>1, <1>2, <1>3, IInvHolds, PTL DEF ClientSpec

-----------------------------------------------------------------------------
(* Where the servers of a group can be.                                     *)

ServersTypeOK ==
  /\ phase \in [Groups -> [Ranks -> Phases]]
  /\ callReady \in [Groups -> [Ranks -> BOOLEAN]]
  /\ busy \in [Groups -> BOOLEAN]

\* Only groups that are polled announce themselves, as one, and wait to be
\* found; the root of a group handles records within a message.
LoopInv ==
  /\ ServersTypeOK
  /\ \A g \in Groups, r \in Ranks : phase[g][r] = "ready" => callReady[g][r]
  /\ \A g \in Groups, r \in Ranks : callReady[g][r] => Poll
  /\ \A g \in idle, r \in Ranks : phase[g][r] = "offering"
  /\ \A g \in Groups : busy[g] => phase[g][Root] \in {"forward", "aborted"}

LEMMA RanksOf ==
  /\ Root \in Ranks /\ Ranks # {} /\ Groups # {}
  /\ \A r \in Ranks : Served(r) # {} /\ Served(r) \subseteq Clients
  /\ \A c \in Clients : ServerOf[c] \in Ranks /\ c \in Served(ServerOf[c])
<1>1. Root \in Ranks /\ 1 \in Groups
  BY ServerConstants, ClientConstants DEF Root, Ranks, Groups
<1>2. \A r \in Ranks : Served(r) # {} /\ Served(r) \subseteq Clients
  BY ServerConstants DEF Ranks, Served
<1>3. \A c \in Clients : ServerOf[c] \in Ranks /\ c \in Served(ServerOf[c])
  BY ServerConstants, ClientConstants DEF Ranks, Served, Clients
<1> QED BY <1>1, <1>2, <1>3

LEMMA InitLoopInv ==
  ASSUME QuiltInit
  PROVE  LoopInv
<1>1. Poll \in BOOLEAN /\ idle = {}
  BY ClientConstants DEF QuiltInit, Init
<1>2. ServersTypeOK
  BY <1>1 DEF QuiltInit, ServersTypeOK, Phases
<1> QED BY <1>1, <1>2 DEF QuiltInit, LoopInv

\* A step of the clients may only take a group out of idle.
LEMMA ClientsLoopInv ==
  ASSUME LoopInv, idle' \subseteq idle, UNCHANGED <<phase, callReady, busy>>
  PROVE  LoopInv'
BY DEF LoopInv, ServersTypeOK

\* A step of one server, or of the root of a group within a message.
LEMMA PhaseStep ==
  ASSUME LoopInv, NEW g \in Groups, NEW r \in Ranks, NEW p \in Phases,
         phase' = [phase EXCEPT ![g][r] = p], UNCHANGED idle,
         phase[g][r] # "offering", p \notin {"offering"},
         callReady' = callReady \/ callReady' = [callReady EXCEPT ![g][r] = Poll],
         p = "ready" => callReady'[g][r],
         busy' = busy \/ \E b \in BOOLEAN : busy' = [busy EXCEPT ![g] = b],
         busy'[g] /\ r = Root => p \in {"forward", "aborted"},
         busy'[g] /\ r # Root => busy[g]
  PROVE  LoopInv'
<1>1. /\ phase \in [Groups -> [Ranks -> Phases]]
      /\ callReady \in [Groups -> [Ranks -> BOOLEAN]]
      /\ busy \in [Groups -> BOOLEAN] /\ Poll \in BOOLEAN
  BY ClientConstants DEF LoopInv, ServersTypeOK
<1>2. /\ phase' \in [Groups -> [Ranks -> Phases]]
      /\ phase'[g][r] = p
      /\ \A h \in Groups, s \in Ranks : <<h, s>> # <<g, r>> => phase'[h][s] = phase[h][s]
  BY <1>1
<1>3. /\ callReady' \in [Groups -> [Ranks -> BOOLEAN]]
      /\ \A h \in Groups, s \in Ranks :
           callReady'[h][s] = callReady[h][s] \/ (callReady'[h][s] = Poll /\ <<h, s>> = <<g, r>>)
  <2>1. CASE callReady' = callReady
    BY <1>1, <2>1
  <2>2. CASE callReady' = [callReady EXCEPT ![g][r] = Poll]
    <3>1. callReady' \in [Groups -> [Ranks -> BOOLEAN]]
      BY <1>1, <2>2
    <3>2. /\ callReady'[g][r] = Poll
          /\ \A h \in Groups, s \in Ranks :
               ~(h = g /\ s = r) => callReady'[h][s] = callReady[h][s]
      BY <1>1, <2>2
    <3> QED BY <3>1, <3>2
  <2> QED BY <2>1, <2>2
<1>4. /\ busy' \in [Groups -> BOOLEAN]
      /\ \A h \in Groups : h # g => busy'[h] = busy[h]
  BY <1>1
<1>5. ServersTypeOK'
  BY <1>2, <1>3, <1>4 DEF ServersTypeOK
<1>6. ASSUME NEW h \in Groups, NEW s \in Ranks
      PROVE  /\ phase'[h][s] = "ready" => callReady'[h][s]
             /\ callReady'[h][s] => Poll
  BY <1>2, <1>3 DEF LoopInv
<1>7. ASSUME NEW h \in idle', NEW s \in Ranks PROVE phase'[h][s] = "offering"
  <2>1. h \in idle /\ h # g
    BY DEF LoopInv
  <2>2. phase'[h] = phase[h]
    BY <1>1, <2>1
  <2> QED BY <2>1, <2>2 DEF LoopInv
<1>8. ASSUME NEW h \in Groups, busy'[h] PROVE phase'[h][Root] \in {"forward", "aborted"}
  <2>1. CASE h = g /\ r = Root
    BY <1>2, <1>8, <2>1
  <2>2. CASE ~(h = g /\ r = Root)
    <3>1. busy[h] /\ Root \in Ranks /\ <<h, Root>> # <<g, r>>
      BY <1>4, <1>8, <2>2, RanksOf
    <3> QED BY <1>2, <3>1 DEF LoopInv
  <2> QED BY <2>1, <2>2
<1> QED BY <1>5, <1>6, <1>7, <1>8 DEF LoopInv

-----------------------------------------------------------------------------
(* The servers' steps.                                                      *)

\* A server returns to the top of its loop, or stops the run.
Returns(g, r) ==
  \E p \in {"ready", "reduce", "aborted"} :
    /\ phase[g][r] \in {"forward", "aborted"}
    /\ phase' = [phase EXCEPT ![g][r] = p]
    /\ p = "ready" => callReady[g][r]
\* What happens within a group is no business of the clients.
GroupStep ==
  /\ UNCHANGED <<clientVars, callReady>>
  /\ UNCHANGED phase \/ \E g \in Groups, r \in Ranks : Returns(g, r)

LEMMA ReturnTo ==
  ASSUME NEW g, NEW r
  PROVE  /\ LoopTop(g, r) \in {"ready", "reduce"}
         /\ LoopTop(g, r) = "ready" => callReady[g][r]
BY DEF LoopTop

LEMMA ReduceLoop ==
  ASSUME LoopInv, NEW g \in Groups, NEW r \in Ranks, ServerReduce(g, r)
  PROVE  LoopInv'
<1>1. PICK p \in {"exited", "aborted", "gather", "forward"} :
        phase' = [phase EXCEPT ![g][r] = p]
  BY DEF ServerReduce
<1>2. /\ phase[g][r] = "reduce" /\ UNCHANGED <<idle, busy>>
      /\ callReady' = callReady \/ callReady' = [callReady EXCEPT ![g][r] = Poll]
  BY DEF ServerReduce, pollVars, rootVars
<1>3. ~(busy'[g] /\ r = Root)
  BY <1>2 DEF LoopInv
<1>4. p \in Phases /\ p # "offering" /\ p # "ready"
  BY DEF Phases
<1> QED BY <1>1, <1>2, <1>3, <1>4, PhaseStep

LEMMA GatherLoop ==
  ASSUME LoopInv, NEW g \in Groups, NEW r \in Ranks, ServerGather(g, r)
  PROVE  LoopInv'
<1>1. PICK p \in {"aborted", "forward"} : phase' = [phase EXCEPT ![g][r] = p]
  BY DEF ServerGather
<1>2. phase[g][r] = "gather" /\ UNCHANGED <<idle, busy, callReady>>
  BY DEF ServerGather, pollVars, rootVars
<1>3. ~(busy'[g] /\ r = Root)
  BY <1>2 DEF LoopInv
<1>4. p \in Phases /\ p # "offering" /\ p # "ready"
  BY DEF Phases
<1> QED BY <1>1, <1>2, <1>3, <1>4, PhaseStep

LEMMA OfferLoop ==
  ASSUME LoopInv, NEW g \in Groups, OfferGroup(g)
  PROVE  LoopInv' /\ Poll /\ g \notin idle
<1>1. /\ \A r \in Ranks : phase[g][r] = "ready"
      /\ phase' = [phase EXCEPT ![g] = [r \in Ranks |-> "offering"]]
      /\ callReady' = [callReady EXCEPT ![g] = [r \in Ranks |-> FALSE]]
      /\ idle' = idle \cup {g} /\ busy' = busy
  BY DEF OfferGroup, rootVars
<1>2. Poll /\ g \notin idle /\ ~busy[g]
  BY <1>1, RanksOf DEF LoopInv
<1>3. /\ phase' \in [Groups -> [Ranks -> Phases]]
      /\ callReady' \in [Groups -> [Ranks -> BOOLEAN]]
  BY <1>1 DEF LoopInv, ServersTypeOK, Phases
<1>4. /\ \A r \in Ranks : phase'[g][r] = "offering" /\ ~callReady'[g][r]
      /\ \A h \in Groups : h # g => phase'[h] = phase[h] /\ callReady'[h] = callReady[h]
  BY <1>1 DEF LoopInv, ServersTypeOK
<1>5. ASSUME NEW h \in Groups, NEW r \in Ranks
      PROVE  /\ phase'[h][r] = "ready" => callReady'[h][r]
             /\ h \in idle' => phase'[h][r] = "offering"
             /\ busy'[h] => phase'[h][Root] \in {"forward", "aborted"}
  BY <1>1, <1>2, <1>4 DEF LoopInv
<1> QED BY <1>1, <1>2, <1>3, <1>4, <1>5 DEF LoopInv, ServersTypeOK

LEMMA FoundLoop ==
  ASSUME LoopInv, NEW g \in Groups, GroupFound(g)
  PROVE  LoopInv'
<1>1. /\ \A r \in Ranks : phase[g][r] = "offering"
      /\ g \notin idle
      /\ phase' = [phase EXCEPT ![g] = [r \in Ranks |-> "reduce"]]
      /\ UNCHANGED <<idle, callReady, busy>>
  BY DEF GroupFound, clientVars, pollVars, rootVars
<1>2. ~busy[g]
  BY <1>1, RanksOf DEF LoopInv
<1>3. phase' \in [Groups -> [Ranks -> Phases]]
  BY <1>1 DEF LoopInv, ServersTypeOK, Phases
<1>4. /\ \A r \in Ranks : phase'[g][r] = "reduce"
      /\ \A h \in Groups : h # g => phase'[h] = phase[h]
  BY <1>1 DEF LoopInv, ServersTypeOK
<1>5. ASSUME NEW h \in Groups, NEW r \in Ranks
      PROVE  /\ phase'[h][r] = "ready" => callReady'[h][r]
             /\ callReady'[h][r] => Poll
             /\ busy'[h] => phase'[h][Root] \in {"forward", "aborted"}
  BY <1>1, <1>2, <1>4 DEF LoopInv
<1>7. ServersTypeOK'
  BY <1>1, <1>3 DEF LoopInv, ServersTypeOK
<1>6. ASSUME NEW h \in idle, NEW r \in Ranks PROVE phase'[h][r] = "offering"
  <2>1. h # g /\ phase[h][r] = "offering"
    BY <1>1 DEF LoopInv
  <2> QED BY <1>1, <2>1 DEF LoopInv, ServersTypeOK
<1> QED BY <1>1, <1>5, <1>6, <1>7, RanksOf DEF LoopInv

\* A server that returns to the top.
LEMMA ReturnsLoop ==
  ASSUME LoopInv, NEW g \in Groups, NEW r \in Ranks, NEW p \in {"ready", "reduce", "aborted"},
         phase[g][r] \in {"forward", "aborted"}, phase' = [phase EXCEPT ![g][r] = p],
         p = "ready" => callReady[g][r], UNCHANGED <<idle, callReady, busy>>,
         busy[g] /\ r = Root => p = "aborted"
  PROVE  LoopInv' /\ Returns(g, r)
<1>1. p \in Phases /\ p # "offering" /\ phase[g][r] # "offering"
  BY DEF Phases
<1>2. LoopInv'
  BY <1>1, PhaseStep
<1> QED BY <1>2 DEF Returns

\* Steps that leave every server where it is.
LEMMA SteadyLoop ==
  ASSUME LoopInv, NEW g \in Groups, NEW b \in BOOLEAN, UNCHANGED <<phase, callReady, idle>>,
         busy' = busy \/ busy' = [busy EXCEPT ![g] = b],
         b => phase[g][Root] = "forward"
  PROVE  LoopInv'
<1>0. ASSUME NEW h \in Groups, NEW r \in Ranks
      PROVE  /\ phase'[h][r] = "ready" => callReady'[h][r]
             /\ callReady'[h][r] => Poll
  BY DEF LoopInv
<1>1. busy' \in [Groups -> BOOLEAN] /\ \A h \in Groups : busy'[h] => busy[h] \/ (h = g /\ b)
  <2>1. busy \in [Groups -> BOOLEAN]
    BY DEF LoopInv, ServersTypeOK
  <2>2. CASE busy' = busy
    BY <2>1, <2>2
  <2>3. CASE busy' = [busy EXCEPT ![g] = b]
    <3>1. busy' \in [Groups -> BOOLEAN]
      BY <2>1, <2>3
    <3>2. busy'[g] = b /\ \A h \in Groups : h # g => busy'[h] = busy[h]
      BY <2>1, <2>3
    <3> QED BY <3>1, <3>2
  <2> QED BY <2>2, <2>3
<1>2. \A h \in Groups : busy'[h] => phase'[h][Root] \in {"forward", "aborted"}
  BY <1>1 DEF LoopInv
<1>3. ServersTypeOK'
  BY <1>1 DEF LoopInv, ServersTypeOK
<1>4. ASSUME NEW h \in idle', NEW r \in Ranks PROVE phase'[h][r] = "offering"
  BY DEF LoopInv
<1> QED BY <1>0, <1>2, <1>3, <1>4 DEF LoopInv

LEMMA ForwardLoop ==
  ASSUME LoopInv, NEW g \in Groups, NEW r \in Others, Forward(g, r)
  PROVE  LoopInv' /\ GroupStep
<1>1. r \in Ranks /\ r # Root
  BY ServerConstants DEF Others, Ranks, Root
<1>2. UNCHANGED <<clientVars, callReady>> /\ UNCHANGED <<idle, busy>>
  BY DEF Forward, clientVars, pollVars, rootVars
<1>3. CASE phase' = phase
  BY <1>2, <1>3, SteadyLoop DEF GroupStep
<1>4. CASE phase[g][r] = "forward" /\ phase' = [phase EXCEPT ![g][r] = LoopTop(g, r)]
  <2>1. LoopInv' /\ Returns(g, r)
    BY <1>1, <1>2, <1>4, ReturnTo, ReturnsLoop
  <2> QED BY <1>1, <1>2, <2>1 DEF GroupStep
<1> QED BY <1>3, <1>4 DEF Forward

LEMMA RootLoop ==
  ASSUME LoopInv, NEW g \in Groups, RootStep(g)
  PROVE  LoopInv' /\ GroupStep
<1>1. UNCHANGED <<clientVars, callReady>>
  BY DEF RootStep, RootCollect, RootDone, HandleNoop, HandleMeta, HandleOpen, HandleCommit,
         HandleField, HandleClose, FinishBatch, taskVars
<1>2. UNCHANGED idle
  BY <1>1 DEF clientVars, pollVars
<1>3. CASE RootCollect(g)
  <2>1. phase' = phase /\ phase[g][Root] = "forward" /\ busy' = [busy EXCEPT ![g] = TRUE]
    BY <1>3 DEF RootCollect
  <2> QED BY <1>1, <1>2, <2>1, SteadyLoop DEF GroupStep
<1>4. CASE RootDone(g)
  <2>1. /\ phase[g][Root] = "forward" /\ ~busy[g] /\ busy' = busy
        /\ phase' = [phase EXCEPT ![g][Root] = LoopTop(g, Root)]
    BY <1>4 DEF RootDone, rootVars
  <2>2. LoopInv' /\ Returns(g, Root)
    BY <1>1, <1>2, <2>1, RanksOf, ReturnTo, ReturnsLoop
  <2> QED BY <1>1, <2>2, RanksOf DEF GroupStep
<1>5. CASE HandleNoop(g) \/ HandleMeta(g) \/ HandleOpen(g) \/ HandleCommit(g) \/ HandleClose(g)
  <2>1. phase' = phase /\ busy' = busy
    BY <1>5 DEF HandleNoop, HandleMeta, HandleOpen, HandleCommit, HandleClose, taskVars
  <2> QED BY <1>1, <1>2, <2>1, SteadyLoop DEF GroupStep
<1>6. CASE HandleField(g)
  <2>1. /\ busy' = busy /\ busy[g]
        /\ phase' = phase \/ phase' = [phase EXCEPT ![g][Root] = "aborted"]
    BY <1>6 DEF HandleField, Handling
  <2>2. CASE phase' = phase
    BY <1>1, <1>2, <2>1, <2>2, SteadyLoop DEF GroupStep
  <2>3. CASE phase' = [phase EXCEPT ![g][Root] = "aborted"]
    <3>1. phase[g][Root] \in {"forward", "aborted"}
      BY <2>1 DEF LoopInv
    <3>2. LoopInv' /\ Returns(g, Root)
      BY <1>1, <1>2, <2>1, <2>3, <3>1, RanksOf, ReturnsLoop
    <3> QED BY <1>1, <3>2, RanksOf DEF GroupStep
  <2> QED BY <2>1, <2>2, <2>3
<1>7. CASE FinishBatch(g)
  <2>1. phase' = phase /\ busy' = [busy EXCEPT ![g] = FALSE]
    BY <1>7 DEF FinishBatch, taskVars
  <2> QED BY <1>1, <1>2, <2>1, SteadyLoop DEF GroupStep
<1> QED BY <1>3, <1>4, <1>5, <1>6, <1>7 DEF RootStep

-----------------------------------------------------------------------------
(* The clients' half of a step.                                             *)

LEMMA HeadsAreReceived ==
  ASSUME NEW g \in Groups, NEW r \in Ranks, TakeHeads(g, r),
         \A c \in Served(r) : chan[c][g] # <<>>,
         chan \in [Clients -> [Groups -> Seq(Messages)]],
         UNCHANGED <<mediationVars, tableVars, pollVars>>
  PROVE  Received
<1> DEFINE S == Served(r) \X {g}
<1>0. Served(r) \subseteq Clients /\ Served(r) # {}
  BY RanksOf
<1>a. PICK d \in Served(r) : TRUE
  BY <1>0
<1>1. S \in SUBSET (Clients \X Groups) /\ S # {}
  <2>1. <<d, g>> \in S
    OBVIOUS
  <2> QED BY <1>0, <2>1
<1>2. \A cg \in S : chan[cg[1]][cg[2]] # <<>>
  OBVIOUS
<1>3. chan' = [c \in Clients |-> [h \in Groups |->
                 IF <<c, h>> \in S THEN Tail(chan[c][h]) ELSE chan[c][h]]]
  BY DEF TakeHeads
<1> QED BY <1>1, <1>2, <1>3 DEF Received

\* A step of a client only takes groups out of idle.
LEMMA ClientsIdle ==
  ASSUME NEW c \in Clients, ClientStep(c)
  PROVE  idle' \subseteq idle
<1>1. CASE OpenForWriteBegin(c) \/ PutMeta(c) \/ TrainField(c) \/ PackField(c)
           \/ OpenForWriteCommit(c) \/ IoSync(c) \/ IoClose(c) \/ IoExit(c)
  BY <1>1 DEF OpenForWriteBegin, PutMeta, TrainField, PackField, OpenForWriteCommit, IoSync,
              IoClose, IoExit, ServerId, FindServer, pollVars
<1>2. CASE BeginOutput(c) \/ BeginShutdown(c) \/ ShutdownStream(c)
  BY <1>2 DEF BeginOutput, BeginShutdown, ShutdownStream, pollVars
<1> QED BY <1>1, <1>2 DEF ClientStep

LEMMA StepMaps ==
  ASSUME LoopInv, IInv, [Next]_vars
  PROVE  LoopInv' /\ [ClientNext]_clientVars
<1>1. chan \in [Clients -> [Groups -> Seq(Messages)]]
  BY DEF IInv, ClientTypeOK, MessagesTypeOK
<1>2. ASSUME NEW c \in Clients, ClientStep(c), UNCHANGED serverVars
      PROVE  LoopInv' /\ ClientNext
  BY <1>2, ClientsIdle, ClientsLoopInv DEF serverVars, taskVars, rootVars, ClientNext
<1>3. ASSUME NEW g \in Groups, OfferGroup(g)
      PROVE  LoopInv' /\ ClientNext
  <2>1. LoopInv' /\ Poll /\ g \notin idle
    BY <1>3, OfferLoop
  <2> QED BY <1>3, <2>1 DEF OfferGroup, Offered, ClientNext
<1>4. ASSUME NEW g \in Groups, GroupFound(g)
      PROVE  LoopInv' /\ UNCHANGED clientVars
  BY <1>4, FoundLoop DEF GroupFound
<1>5. ASSUME NEW g \in Groups, NEW r \in Ranks, ServerReduce(g, r)
      PROVE  LoopInv' /\ ClientNext
  BY <1>1, <1>5, ReduceLoop, HeadsAreReceived DEF ServerReduce, Joined, ClientNext
<1>6. ASSUME NEW g \in Groups, NEW r \in Ranks, ServerGather(g, r)
      PROVE  LoopInv' /\ ClientNext
  BY <1>1, <1>6, GatherLoop, HeadsAreReceived DEF ServerGather, Joined, ClientNext
<1>7. ASSUME NEW g \in Groups, NEW r \in Others, Forward(g, r)
      PROVE  LoopInv' /\ UNCHANGED clientVars
  BY <1>7, ForwardLoop DEF GroupStep
<1>8. ASSUME NEW g \in Groups, RootStep(g)
      PROVE  LoopInv' /\ UNCHANGED clientVars
  BY <1>8, RootLoop DEF GroupStep
<1>9. CASE UNCHANGED vars
  <2>1. UNCHANGED clientVars /\ UNCHANGED <<idle, phase, callReady, busy>>
    BY <1>9 DEF vars, clientVars, pollVars, serverVars, taskVars, rootVars
  <2> QED BY <2>1, ClientsLoopInv
<1> QED BY <1>2, <1>3, <1>4, <1>5, <1>6, <1>7, <1>8, <1>9
        DEF Next, ServersNext, PollStep, ServerStep, Over

-----------------------------------------------------------------------------
LEMMA LoopInvHolds == QuiltSpec => [](LoopInv /\ IInv)
<1>1. QuiltInit => LoopInv /\ IInv
  BY InitLoopInv, InitIInv DEF QuiltInit
<1>2. LoopInv /\ IInv /\ [Next]_vars => LoopInv' /\ IInv'
  <2>1. ASSUME IInv, [ClientNext]_clientVars PROVE IInv'
    BY <2>1, ClientStepInv, ReceivedInv, OfferedInv, StutterInv DEF ClientNext
  <2> QED BY <2>1, StepMaps
<1> QED BY <1>1, <1>2, PTL DEF QuiltSpec

\* Whatever the servers do, they do to the clients' variables only what
\* QuiltClient expects: receive what is at the head of a channel, and offer a
\* group.  What is proved about the clients alone holds beside the servers.
THEOREM ServersRefineTheirPart == QuiltSpec => ClientSpec
<1>1. QuiltInit => Init
  BY DEF QuiltInit
<1>2. LoopInv /\ IInv /\ [Next]_vars => [ClientNext]_clientVars
  BY StepMaps
<1> QED BY <1>1, <1>2, LoopInvHolds, PTL DEF QuiltSpec, ClientSpec

\* So the rules of the clients' tables hold in the whole system.
THEOREM TablesBesideServers ==
  QuiltSpec => [](HandlesLocked /\ BufferFits /\ TrainedBeforeWritten /\ TablesAgree)
BY ServersRefineTheirPart, HandlesStayLocked, BufferNeverOverflows, TrainingComesFirst,
   TablesStayInStep, PTL

-----------------------------------------------------------------------------
(***************************************************************************)
(* The collectives.                                                        *)
(*                                                                         *)
(* All clients go through one sequence of states (see above), so what they *)
(* have to say to a group is one sequence too, its script, and a channel   *)
(* holds the part of the script between the last collective its server     *)
(* has completed and the last one its client has begun.                    *)
(***************************************************************************)

\* The collectives that client x begins with its next step, what they are
\* about, and their group.
Call(kind, size, about) == [kind |-> kind, size |-> size, about |-> about]
Calls(x) ==
  CASE x.stage \in {"open", "trainMeta", "putMeta", "train", "commit", "sync"} -> 2
    [] x.stage \in {"close", "lastClose", "exit"} -> 1
    [] OTHER -> 0
Size(x) ==
  CASE x.stage = "sync"                 -> NF
    [] x.stage \in {"close", "lastClose"} -> 0
    [] x.stage = "exit"                 -> ExitSize
    [] OTHER                            -> 1
About(tag, h, v, date) == [tag |-> tag, h |-> h, v |-> v, date |-> date]
Subject(x) ==
  CASE x.stage = "open" -> About("open", Fresh(x), x.cur, x.outs[x.cur])
    [] x.stage \in {"trainMeta", "putMeta"} ->
         About("meta", x.oid[x.cur], 0, x.outs[x.cur])
    [] x.stage = "train"  -> About("train", x.oid[x.cur], x.fld, x.outs[x.cur])
    [] x.stage = "commit" -> About("commit", x.oid[x.cur], 0, 0)
    [] x.stage = "sync"   -> About("field", x.oid[x.cur], 0, x.outs[x.cur])
    [] x.stage = "exit"   -> About("close", 0, 0, 0)
    [] OTHER              -> About("close", x.oid[x.cur], 0, 0)
Said(x, j) == Call(IF j = 1 THEN "reduce" ELSE "gather", Size(x), Subject(x))

Finds(x) == Poll /\ x.stage \in {"open", "exit"}
To(x, f) ==
  CASE x.stage = "open" -> Group(x, f)
    [] x.stage = "exit" -> (IF Poll THEN f[x.seen + 1] ELSE x.exited + 1)
    [] OTHER            -> x.server[x.oid[x.cur]]
SaidTo(x, f, g) == IF g = To(x, f) THEN Calls(x) ELSE 0

\* The part of client c in a collective of the script: its share of a size, or
\* its records, which are noops where the monitor speaks for all.
Share(c, size) == IF size = ExitSize THEN ExitShare(c) ELSE size
Record(c, a, i) ==
  CASE a.tag = "field" -> Rec("field", a.h, i, a.date, c)
    [] a.tag = "train" -> Rec("train", a.h, a.v, a.date, c)
    [] OTHER           -> OnMonitor(c, Rec(a.tag, a.h, a.v, a.date, c), Noop(c))
Recorded(c, recs, size, a) ==
  Len(recs) = size /\ \A i \in 1 .. size : recs[i] = Record(c, a, i)
Fits(c, m, s) ==
  /\ m.kind = s.kind
  /\ m.kind = "reduce" => m.size = Share(c, s.size) /\ m.h = OnMonitor(c, s.about.h, 0)
  /\ m.kind = "gather" => Recorded(c, m.recs, s.size, s.about)

\* A step of client c appends its part to the channel of one group.
Speaks(c) ==
  /\ \A d \in Clients, g \in Groups : d # c => chan'[d][g] = chan[d][g]
  /\ \A g \in Groups :
       /\ Len(chan'[c][g]) = Len(chan[c][g]) + SaidTo(Local(c), found', g)
       /\ \A j \in 1 .. Len(chan[c][g]) : chan'[c][g][j] = chan[c][g][j]
       /\ \A j \in 1 .. SaidTo(Local(c), found', g) :
            Fits(c, chan'[c][g][Len(chan[c][g]) + j], Said(Local(c), j))
\* It finds a group only to open a file or to leave.
Searches(c) ==
  IF Finds(Local(c))
  THEN LET g == To(Local(c), found')
       IN /\ g \in Groups
          /\ IF c = Monitor THEN g \in idle /\ idle' = idle \ {g}
                            ELSE seen[c] < Len(found) /\ idle' = idle
  ELSE idle' = idle
\* It takes and gives up groups only when it opens and closes files.
Locks(c) ==
  CASE stage[c] = "open" ->
         \E h \in Handles, g \in Groups :
           /\ g = To(Local(c), found') /\ server'[c] = [server[c] EXCEPT ![h] = g]
    [] stage[c] \in {"close", "lastClose"} ->
         \E h \in Handles :
           /\ server[c][h] = To(Local(c), found') /\ server[c][h] \in Groups
           /\ server'[c] = [server[c] EXCEPT ![h] = 0]
    [] OTHER ->
         /\ server'[c] = server[c]
         /\ Calls(Local(c)) = 2 =>
              \E h \in Handles :
                server[c][h] = To(Local(c), found') /\ server[c][h] \in Groups
         /\ stage[c] = "exit" => To(Local(c), found') \in Groups
Says(c) == Speaks(c) /\ Searches(c) /\ Locks(c)

\* What is appended to a channel.
LEMMA SendAppends ==
  ASSUME IInv, NEW c \in Clients, NEW g \in Groups, NEW msgs \in Seq(Messages),
         Send(c, g, msgs)
  PROVE  /\ \A d \in Clients, h \in Groups : (d # c \/ h # g) => chan'[d][h] = chan[d][h]
         /\ Len(chan'[c][g]) = Len(chan[c][g]) + Len(msgs)
         /\ \A j \in 1 .. Len(chan[c][g]) : chan'[c][g][j] = chan[c][g][j]
         /\ \A j \in 1 .. Len(msgs) : chan'[c][g][Len(chan[c][g]) + j] = msgs[j]
         /\ \A h \in Groups : Len(chan[c][h]) \in Nat
<1>1. chan \in [Clients -> [Groups -> Seq(Messages)]]
  BY DEF IInv, ClientTypeOK, MessagesTypeOK
<1>2. chan'[c][g] = chan[c][g] \o msgs
  BY <1>1 DEF Send
<1>3. \A d \in Clients, h \in Groups : (d # c \/ h # g) => chan'[d][h] = chan[d][h]
  BY <1>1 DEF Send
<1>4. chan[c][g] \in Seq(Messages)
  BY <1>1
<1>5. \A h \in Groups : Len(chan[c][h]) \in Nat
  BY <1>1, LenProperties
<1>6. /\ Len(chan'[c][g]) = Len(chan[c][g]) + Len(msgs)
      /\ \A j \in 1 .. Len(chan[c][g]) : chan'[c][g][j] = chan[c][g][j]
      /\ \A j \in 1 .. Len(msgs) : chan'[c][g][Len(chan[c][g]) + j] = msgs[j]
  BY <1>2, <1>4, ConcatIs
<1> QED BY <1>3, <1>5, <1>6

\* A call of two messages to group g.
LEMMA SpeaksTwice ==
  ASSUME IInv, NEW c \in Clients, NEW g \in Groups, NEW a \in Messages, NEW b \in Messages,
         Send(c, g, <<a, b>>),
         g = To(Local(c), found'), Calls(Local(c)) = 2,
         a.kind = "reduce", a.size = Size(Local(c)), Size(Local(c)) # ExitSize,
         a.h = OnMonitor(c, Subject(Local(c)).h, 0),
         b.kind = "gather", Recorded(c, b.recs, Size(Local(c)), Subject(Local(c)))
  PROVE  Speaks(c)
<1>1. <<a, b>> \in Seq(Messages) /\ Len(<<a, b>>) = 2 /\ <<a, b>>[1] = a /\ <<a, b>>[2] = b
  OBVIOUS
<1>2. /\ \A d \in Clients, h \in Groups : (d # c \/ h # g) => chan'[d][h] = chan[d][h]
      /\ Len(chan'[c][g]) = Len(chan[c][g]) + 2
      /\ \A j \in 1 .. Len(chan[c][g]) : chan'[c][g][j] = chan[c][g][j]
      /\ \A j \in 1 .. 2 : chan'[c][g][Len(chan[c][g]) + j] = <<a, b>>[j]
      /\ \A h \in Groups : Len(chan[c][h]) \in Nat
  BY <1>1, SendAppends
<1>3. Fits(c, a, Said(Local(c), 1)) /\ Fits(c, b, Said(Local(c), 2))
  BY DEF Fits, Said, Call, Share
<1>4. \A j \in 1 .. 2 : Fits(c, <<a, b>>[j], Said(Local(c), j))
  BY <1>1, <1>3
<1>5. \A h \in Groups : SaidTo(Local(c), found', h) = IF h = g THEN 2 ELSE 0
  BY DEF SaidTo
<1>6. ASSUME NEW h \in Groups, h # g
      PROVE  /\ Len(chan'[c][h]) = Len(chan[c][h]) + SaidTo(Local(c), found', h)
             /\ \A j \in 1 .. Len(chan[c][h]) : chan'[c][h][j] = chan[c][h][j]
             /\ 1 .. SaidTo(Local(c), found', h) = {}
  BY <1>2, <1>5, <1>6
<1>7. SaidTo(Local(c), found', g) = 2
  BY <1>5
<1>8. \A j \in 1 .. SaidTo(Local(c), found', g) :
        Fits(c, chan'[c][g][Len(chan[c][g]) + j], Said(Local(c), j))
  BY <1>2, <1>4, <1>7
<1>9. ASSUME NEW h \in Groups
      PROVE  /\ Len(chan'[c][h]) = Len(chan[c][h]) + SaidTo(Local(c), found', h)
             /\ \A j \in 1 .. Len(chan[c][h]) : chan'[c][h][j] = chan[c][h][j]
             /\ \A j \in 1 .. SaidTo(Local(c), found', h) :
                  Fits(c, chan'[c][h][Len(chan[c][h]) + j], Said(Local(c), j))
  <2>1. CASE h = g
    BY <1>2, <1>7, <1>8, <2>1
  <2>2. CASE h # g
    BY <1>6, <2>2
  <2> QED BY <2>1, <2>2
<1> QED BY <1>2, <1>9 DEF Speaks

LEMMA SpeaksOnce ==
  ASSUME IInv, NEW c \in Clients, NEW g \in Groups, NEW a \in Messages,
         Send(c, g, <<a>>),
         g = To(Local(c), found'), Calls(Local(c)) = 1,
         a.kind = "reduce", a.size = Share(c, Size(Local(c))),
         a.h = OnMonitor(c, Subject(Local(c)).h, 0)
  PROVE  Speaks(c)
<1>1. <<a>> \in Seq(Messages) /\ Len(<<a>>) = 1 /\ <<a>>[1] = a
  OBVIOUS
<1>2. /\ \A d \in Clients, h \in Groups : (d # c \/ h # g) => chan'[d][h] = chan[d][h]
      /\ Len(chan'[c][g]) = Len(chan[c][g]) + 1
      /\ \A j \in 1 .. Len(chan[c][g]) : chan'[c][g][j] = chan[c][g][j]
      /\ \A j \in 1 .. 1 : chan'[c][g][Len(chan[c][g]) + j] = <<a>>[j]
      /\ \A h \in Groups : Len(chan[c][h]) \in Nat
  BY <1>1, SendAppends
<1>3. Fits(c, a, Said(Local(c), 1))
  BY DEF Fits, Said, Call
<1>4. \A j \in 1 .. 1 : Fits(c, <<a>>[j], Said(Local(c), j))
  BY <1>1, <1>3
<1>5. \A h \in Groups : SaidTo(Local(c), found', h) = IF h = g THEN 1 ELSE 0
  BY DEF SaidTo
<1>6. ASSUME NEW h \in Groups, h # g
      PROVE  /\ Len(chan'[c][h]) = Len(chan[c][h]) + SaidTo(Local(c), found', h)
             /\ \A j \in 1 .. Len(chan[c][h]) : chan'[c][h][j] = chan[c][h][j]
             /\ 1 .. SaidTo(Local(c), found', h) = {}
  BY <1>2, <1>5, <1>6
<1>7. SaidTo(Local(c), found', g) = 1
  BY <1>5
<1>8. \A j \in 1 .. SaidTo(Local(c), found', g) :
        Fits(c, chan'[c][g][Len(chan[c][g]) + j], Said(Local(c), j))
  BY <1>2, <1>4, <1>7
<1>9. ASSUME NEW h \in Groups
      PROVE  /\ Len(chan'[c][h]) = Len(chan[c][h]) + SaidTo(Local(c), found', h)
             /\ \A j \in 1 .. Len(chan[c][h]) : chan'[c][h][j] = chan[c][h][j]
             /\ \A j \in 1 .. SaidTo(Local(c), found', h) :
                  Fits(c, chan'[c][h][Len(chan[c][h]) + j], Said(Local(c), j))
  <2>1. CASE h = g
    BY <1>2, <1>7, <1>8, <2>1
  <2>2. CASE h # g
    BY <1>6, <2>2
  <2> QED BY <2>1, <2>2
<1> QED BY <1>2, <1>9 DEF Speaks

LEMMA SpeaksNot ==
  ASSUME IInv, NEW c \in Clients, chan' = chan, Calls(Local(c)) = 0
  PROVE  Speaks(c)
<1>1. \A g \in Groups : SaidTo(Local(c), found', g) = 0
  BY DEF SaidTo
<1>2. \A g \in Groups : Len(chan[c][g]) \in Nat
  BY LenProperties DEF IInv, ClientTypeOK, MessagesTypeOK
<1> QED BY <1>1, <1>2 DEF Speaks

\* A call with one record.
LEMMA CallSpeaks ==
  ASSUME IInv, NEW c \in Clients, NEW g \in Groups, NEW h \in Handles, NEW rec \in Records,
         Send(c, g, Message(c, h, <<rec>>)),
         g = To(Local(c), found'), Calls(Local(c)) = 2, Size(Local(c)) = 1,
         rec = Record(c, Subject(Local(c)), 1), Subject(Local(c)).h = h
  PROVE  Speaks(c)
<1> DEFINE a == Reduce(Len(<<rec>>), OnMonitor(c, h, 0))
           b == Gather(<<rec>>)
<1>1. <<rec>> \in Seq(Records) /\ Len(<<rec>>) = 1
  OBVIOUS
<1>2. Message(c, h, <<rec>>) = <<a, b>>
  BY DEF Message
<1>3. a \in Messages
  <2>1. <<>> \in Seq(Records)
    BY EmptySeq
  <2>2. OnMonitor(c, h, 0) \in 0 .. NH
    BY ClientConstants DEF OnMonitor, Handles
  <2> QED BY <1>1, <2>1, <2>2 DEF Reduce, Messages
<1>4. b \in Messages
  BY <1>1, ClientConstants DEF Gather, Messages
<1>5. /\ a.kind = "reduce" /\ a.size = Size(Local(c)) /\ b.kind = "gather"
      /\ a.h = OnMonitor(c, Subject(Local(c)).h, 0)
  BY <1>1 DEF Reduce, Gather
<1>6. Size(Local(c)) # ExitSize
  BY DEF ExitSize
<1>7. Recorded(c, b.recs, 1, Subject(Local(c)))
  <2>1. b.recs = <<rec>> /\ Len(<<rec>>) = 1 /\ <<rec>>[1] = rec
    BY <1>1 DEF Gather
  <2>2. \A i \in 1 .. 1 : i = 1
    OBVIOUS
  <2> QED BY <2>1, <2>2 DEF Recorded
<1> HIDE DEF a, b
<1> QED BY <1>2, <1>3, <1>4, <1>5, <1>6, <1>7, SpeaksTwice

\* What a client's record is.
LEMMA SaidRec ==
  ASSUME IInv, NEW c \in Clients, NEW h \in 0 .. NH, NEW v \in Nat,
         NEW tag \in {"open", "meta", "train", "commit", "field"}
  PROVE  /\ Rec(tag, h, v, Date(c), c) \in Records
         /\ OnMonitor(c, Rec(tag, h, v, Date(c), c), Noop(c)) \in Records
         /\ OnMonitor(c, Rec(tag, h, v, 0, c), Noop(c)) \in Records
<1>1. Date(c) \in Nat
  BY OutputType DEF IInv, ClientTypeOK
<1>2. Rec(tag, h, v, Date(c), c) \in Records /\ Rec(tag, h, v, 0, c) \in Records
      /\ Noop(c) \in Records
  BY <1>1, RecType
<1> QED BY <1>2 DEF OnMonitor

\* A call for a handle that is locked onto a group.
LEMMA LockedSays ==
  ASSUME IInv, NEW c \in Clients, NEW g \in Groups, ServerId(c, Handle(c), g),
         Writing(c) \/ stage[c] \in {"close", "lastClose"}
  PROVE  /\ Handle(c) \in Handles /\ inUse[c][Handle(c)]
         /\ g = To(Local(c), found') /\ g = server[c][Handle(c)]
         /\ UNCHANGED <<idle, found>>
         /\ Searches(c)
<1>1. Handle(c) \in Handles /\ inUse[c][Handle(c)]
  BY CallHandle
<1>2. g = server[c][Handle(c)] /\ UNCHANGED <<prev, pollVars>>
  BY <1>1, LockedCall
<1>3. stage[c] # "open" /\ stage[c] # "exit"
  BY DEF Writing
<1>4. To(Local(c), found') = server[c][Handle(c)]
  BY <1>3, LocalIs DEF To, Handle
<1>5. ~Finds(Local(c))
  BY <1>3, LocalIs DEF Finds
<1> QED BY <1>1, <1>2, <1>4, <1>5 DEF Searches, pollVars

\* It changes no lock.
LEMMA LockedLocks ==
  ASSUME IInv, NEW c \in Clients, NEW g \in Groups, ServerId(c, Handle(c), g),
         Writing(c), server' = server \/ LockOnto(c, Handle(c), g)
  PROVE  Locks(c)
<1>1. /\ Handle(c) \in Handles /\ inUse[c][Handle(c)]
      /\ g = To(Local(c), found') /\ g = server[c][Handle(c)]
  BY LockedSays
<1>2. server'[c] = server[c]
  BY <1>1, LockedCallTable
<1>3. stage[c] \notin {"open", "close", "lastClose", "exit"}
  BY DEF Writing
<1> QED BY <1>1, <1>2, <1>3 DEF Locks

LEMMA OpenSays ==
  ASSUME IInv, Within, NEW c \in Clients, OpenForWriteBegin(c)
  PROVE  Says(c)
<1>1. PICK h \in Handles, g \in Groups :
        /\ FreshHandle(c, h)
        /\ ServerId(c, h, g)
        /\ LockOnto(c, h, g)
        /\ Send(c, g, Message(c, h, <<OnMonitor(c,
                  Rec("open", h, cur[c], Date(c), c), Noop(c))>>))
  BY DEF OpenForWriteBegin
<1>2. stage[c] = "open" /\ UNCHANGED <<plan, pos>>
  BY DEF OpenForWriteBegin
<1>3. NeedsGroup(c, h)
  <2>1. server[c][h] = 0
    BY <1>1 DEF FreshHandle, IInv, ClientInv, Locked
  <2> QED BY <2>1 DEF NeedsGroup
<1>4. g = To(Local(c), found') /\ Searches(c)
  <2>1. CASE Poll
    <3>1. FindServer(c, g)
      BY <1>1, <1>3, <2>1 DEF ServerId
    <3>3. To(Local(c), found') = found'[seen[c] + 1]
      BY <1>2, <2>1, LocalIs DEF To, Group
    <3>4. Finds(Local(c))
      BY <1>2, <2>1, LocalIs DEF Finds
    <3>5. g = To(Local(c), found')
      BY <1>2, <3>1, <3>3, FoundMoves
    <3> QED BY <3>1, <3>4, <3>5 DEF Searches, FindServer
  <2>2. CASE ~Poll
    <3>1. g = NextTurn(c) + 1 /\ UNCHANGED pollVars
      BY <1>1, <1>3, <2>2 DEF ServerId
    <3>2. To(Local(c), found') = NextTurn(c) + 1
      BY <1>2, <2>2, LocalIs DEF To, Group, NextTurn, Turn
    <3> QED BY <2>2, <3>1, <3>2 DEF Searches, Finds, pollVars
  <2> QED BY <2>1, <2>2
<1>5. Speaks(c)
  <2>1. Calls(Local(c)) = 2 /\ Size(Local(c)) = 1
    BY <1>2, LocalIs DEF Calls, Size
  <2>2. cur[c] \in Nat /\ h \in 0 .. NH
    BY OutputType, ClientConstants DEF IInv, ClientTypeOK, Handles
  <2>3. Fresh(Local(c)) = h
    BY <1>1, FreshIs
  <2>4. Subject(Local(c)) = About("open", h, cur[c], Date(c))
    BY <1>2, <2>3, LocalIs DEF Subject, Date
  <2>5. Record(c, Subject(Local(c)), 1)
          = OnMonitor(c, Rec("open", h, cur[c], Date(c), c), Noop(c))
        /\ Subject(Local(c)).h = h
    BY <2>4 DEF Record, About
  <2> QED BY <1>1, <1>4, <2>1, <2>2, <2>5, SaidRec, CallSpeaks
<1>6. Locks(c)
  <2>1. server'[c] = [server[c] EXCEPT ![h] = g]
    BY <1>1 DEF LockOnto, IInv, ClientTypeOK, TablesTypeOK
  <2> QED BY <1>2, <1>4, <2>1 DEF Locks
<1> QED BY <1>4, <1>5, <1>6 DEF Says

LEMMA MetaSays ==
  ASSUME IInv, NEW c \in Clients, PutMeta(c)
  PROVE  Says(c)
<1>1. stage[c] \in {"trainMeta", "putMeta"} /\ Writing(c)
  BY DEF PutMeta, Writing
<1>2. inUse[c][Handle(c)] /\ Handle(c) \in Handles
  BY <1>1, CallHandle
<1>3. PICK g \in Groups :
        /\ ServerId(c, Handle(c), g)
        /\ LockOnto(c, Handle(c), g)
        /\ Send(c, g, Message(c, Handle(c), <<OnMonitor(c,
                  Rec("meta", Handle(c), 0, Date(c), c), Noop(c))>>))
  BY <1>2 DEF PutMeta
<1>4. g = To(Local(c), found') /\ Searches(c) /\ Locks(c)
  BY <1>1, <1>3, LockedSays, LockedLocks
<1>5. Calls(Local(c)) = 2 /\ Size(Local(c)) = 1
  BY <1>1, LocalIs DEF Calls, Size
<1>6. Handle(c) \in 0 .. NH
  BY <1>2, ClientConstants DEF Handles
<1>7. Speaks(c)
  <2>1. Subject(Local(c)) = About("meta", Handle(c), 0, Date(c))
    BY <1>1, LocalIs DEF Subject, Date, Handle
  <2>2. Record(c, Subject(Local(c)), 1)
          = OnMonitor(c, Rec("meta", Handle(c), 0, Date(c), c), Noop(c))
        /\ Subject(Local(c)).h = Handle(c)
    BY <2>1 DEF Record, About
  <2> QED BY <1>2, <1>3, <1>4, <1>5, <1>6, <2>2, SaidRec, CallSpeaks
<1> QED BY <1>4, <1>7 DEF Says

LEMMA TrainSays ==
  ASSUME IInv, NEW c \in Clients, TrainField(c)
  PROVE  Says(c)
<1>1. stage[c] = "train" /\ Writing(c)
  BY FieldStage DEF TrainField, Writing
<1>2. inUse[c][Handle(c)] /\ Handle(c) \in Handles
  BY <1>1, CallHandle
<1>3. PICK g \in Groups :
        /\ ServerId(c, Handle(c), g)
        /\ LockOnto(c, Handle(c), g)
        /\ Send(c, g, Message(c, Handle(c), <<Rec("train", Handle(c), fld[c], Date(c), c)>>))
  BY DEF TrainField
<1>4. g = To(Local(c), found') /\ Searches(c) /\ Locks(c)
  BY <1>1, <1>3, LockedSays, LockedLocks
<1>5. Calls(Local(c)) = 2 /\ Size(Local(c)) = 1
  BY <1>1, LocalIs DEF Calls, Size
<1>6. Handle(c) \in 0 .. NH /\ fld[c] \in Nat
  BY <1>2, OutputType, ClientConstants DEF Handles, IInv, ClientTypeOK
<1>7. Speaks(c)
  <2>1. Subject(Local(c)) = About("train", Handle(c), fld[c], Date(c))
    BY <1>1, LocalIs DEF Subject, Date, Handle
  <2>2. Record(c, Subject(Local(c)), 1)
          = Rec("train", Handle(c), fld[c], Date(c), c)
        /\ Subject(Local(c)).h = Handle(c)
    BY <2>1 DEF Record, About
  <2> QED BY <1>2, <1>3, <1>4, <1>5, <1>6, <2>2, SaidRec, CallSpeaks
<1> QED BY <1>4, <1>7 DEF Says

LEMMA CommitSays ==
  ASSUME IInv, NEW c \in Clients, OpenForWriteCommit(c)
  PROVE  Says(c)
<1>1. stage[c] = "commit" /\ Writing(c)
  BY DEF OpenForWriteCommit, Writing
<1>2. inUse[c][Handle(c)] /\ Handle(c) \in Handles
  BY <1>1, CallHandle
<1>3. PICK g \in Groups :
        /\ ServerId(c, Handle(c), g)
        /\ LockOnto(c, Handle(c), g)
        /\ Send(c, g, Message(c, Handle(c), <<OnMonitor(c,
                  Rec("commit", Handle(c), 0, 0, c), Noop(c))>>))
  BY DEF OpenForWriteCommit
<1>4. g = To(Local(c), found') /\ Searches(c) /\ Locks(c)
  BY <1>1, <1>3, LockedSays, LockedLocks
<1>5. Calls(Local(c)) = 2 /\ Size(Local(c)) = 1
  BY <1>1, LocalIs DEF Calls, Size
<1>6. Handle(c) \in 0 .. NH
  BY <1>2, ClientConstants DEF Handles
<1>7. Speaks(c)
  <2>1. Subject(Local(c)) = About("commit", Handle(c), 0, 0)
    BY <1>1, LocalIs DEF Subject, Date, Handle
  <2>2. Record(c, Subject(Local(c)), 1)
          = OnMonitor(c, Rec("commit", Handle(c), 0, 0, c), Noop(c))
        /\ Subject(Local(c)).h = Handle(c)
    BY <2>1 DEF Record, About
  <2> QED BY <1>2, <1>3, <1>4, <1>5, <1>6, <2>2, SaidRec, CallSpeaks
<1> QED BY <1>4, <1>7 DEF Says

LEMMA SyncSays ==
  ASSUME IInv, NEW c \in Clients, IoSync(c)
  PROVE  Says(c)
<1>1. stage[c] = "sync" /\ Writing(c)
  BY DEF IoSync, Writing
<1>2. inUse[c][Handle(c)] /\ Handle(c) \in Handles
  BY <1>1, CallHandle
<1>3. bytes[c][Handle(c)] = NF
  <2>1. oid[c][cur[c]] # 0 /\ cur[c] \in Streams /\ ~Training(c)
    BY <1>1 DEF IInv, ClientTypeOK, MediationTypeOK, ClientInv, Placed, Writing, Training
  <2> QED BY <2>1 DEF IInv, ClientInv, Sized, Handle
<1>4. buf[c] \in Seq(Records) /\ buf[c] # NoBuf
  <2>1. Len(buf[c]) = NF /\ buf[c] \in Seq(Records)
    BY <1>1 DEF IInv, ClientTypeOK, TablesTypeOK, ClientInv, Filled, InBuffer
  <2> QED BY <2>1, EmptySeq, ClientConstants DEF NoBuf
<1> DEFINE a == Reduce(bytes[c][Handle(c)], OnMonitor(c, Handle(c), 0))
           b == Gather(buf[c])
<1>5. PICK g \in Groups :
        /\ ServerId(c, Handle(c), g)
        /\ LockOnto(c, Handle(c), g)
        /\ Send(c, g, <<a, b>>)
  BY <1>4 DEF IoSync
<1>6. g = To(Local(c), found') /\ Searches(c) /\ Locks(c)
  BY <1>1, <1>5, LockedSays, LockedLocks
<1>7. Calls(Local(c)) = 2 /\ Size(Local(c)) = NF /\ NF # ExitSize
  BY <1>1, LocalIs, ClientConstants DEF Calls, Size, ExitSize
<1>8. a \in Messages /\ b \in Messages
  <2>1. <<>> \in Seq(Records)
    BY EmptySeq
  <2>2. OnMonitor(c, Handle(c), 0) \in 0 .. NH /\ bytes[c][Handle(c)] \in Int /\ 0 \in 0 .. NH
    BY <1>2, <1>3, ClientConstants DEF OnMonitor, Handles
  <2> QED BY <1>4, <2>1, <2>2 DEF Reduce, Gather, Messages
<1>9. /\ a.kind = "reduce" /\ a.size = NF /\ b.kind = "gather" /\ b.recs = buf[c]
      /\ a.h = OnMonitor(c, Subject(Local(c)).h, 0)
  <2>1. Subject(Local(c)).h = Handle(c)
    BY <1>1, LocalIs DEF Subject, Handle, About
  <2> QED BY <1>3, <2>1 DEF Reduce, Gather
<1>11. Recorded(c, b.recs, NF, Subject(Local(c)))
  <2>1. Subject(Local(c)) = About("field", Handle(c), 0, Date(c))
    BY <1>1, LocalIs DEF Subject, Date, Handle
  <2>2. \A i : Record(c, Subject(Local(c)), i) = Rec("field", Handle(c), i, Date(c), c)
    BY <2>1 DEF Record, About
  <2>3. /\ Len(buf[c]) = NF
        /\ \A i \in 1 .. Len(buf[c]) : buf[c][i] = Rec("field", Handle(c), i, Date(c), c)
    BY <1>1 DEF IInv, ClientInv, Filled, InBuffer
  <2> QED BY <1>9, <2>2, <2>3 DEF Recorded
<1> HIDE DEF a, b
<1>10. Speaks(c)
  BY <1>5, <1>6, <1>7, <1>8, <1>9, <1>11, SpeaksTwice
<1> QED BY <1>6, <1>10 DEF Says

LEMMA CloseSays ==
  ASSUME IInv, NEW c \in Clients, IoClose(c)
  PROVE  Says(c)
<1>1. stage[c] \in {"close", "lastClose"}
  BY DEF IoClose
<1>2. inUse[c][Handle(c)] /\ Handle(c) \in Handles
  BY <1>1, CallHandle
<1> DEFINE a == Reduce(0, OnMonitor(c, Handle(c), 0))
<1>3. PICK g \in Groups : ServerId(c, Handle(c), g) /\ Send(c, g, <<a>>)
  BY DEF IoClose, CloseMessage
<1>4. g = To(Local(c), found') /\ g = server[c][Handle(c)] /\ Searches(c)
  BY <1>1, <1>3, LockedSays
<1>5. Calls(Local(c)) = 1 /\ Size(Local(c)) = 0 /\ Share(c, 0) = 0
  BY <1>1, LocalIs DEF Calls, Size, Share, ExitSize
<1>6. /\ a \in Messages /\ a.kind = "reduce" /\ a.size = 0
      /\ a.h = OnMonitor(c, Subject(Local(c)).h, 0)
  <2>3. Subject(Local(c)).h = Handle(c)
    BY <1>1, LocalIs DEF Subject, Handle, About
  <2>1. <<>> \in Seq(Records)
    BY EmptySeq
  <2>2. OnMonitor(c, Handle(c), 0) \in 0 .. NH
    BY <1>2, ClientConstants DEF OnMonitor, Handles
  <2> QED BY <2>1, <2>2, <2>3 DEF Reduce, Messages
<1> HIDE DEF a
<1>7. Speaks(c)
  BY <1>3, <1>4, <1>5, <1>6, SpeaksOnce
<1>8. Locks(c)
  <2>1. server'[c] = [server[c] EXCEPT ![Handle(c)] = 0]
    BY <1>2 DEF IoClose, IInv, ClientTypeOK, TablesTypeOK
  <2>2. stage[c] # "open"
    BY <1>1
  <2> QED BY <1>1, <1>2, <1>4, <2>1, <2>2 DEF Locks
<1> QED BY <1>4, <1>7, <1>8 DEF Says

LEMMA ExitSays ==
  ASSUME IInv, Within, NEW c \in Clients, IoExit(c)
  PROVE  Says(c)
<1> DEFINE a == Reduce(ExitShare(c), 0)
<1>1. /\ stage[c] = "exit" /\ UNCHANGED <<plan, pos>> /\ server' = server
      /\ exited[c] < NG
  BY DEF IoExit, tableVars
<1>2. PICK g \in Groups :
        /\ IF Poll THEN FindServer(c, g) ELSE g = exited[c] + 1 /\ UNCHANGED pollVars
        /\ Send(c, g, <<a>>)
  BY DEF IoExit
<1>3. g = To(Local(c), found') /\ Searches(c)
  <2>1. CASE Poll
    <3>1. FindServer(c, g)
      BY <1>2, <2>1
    <3>2. To(Local(c), found') = found'[seen[c] + 1] /\ Finds(Local(c))
      BY <1>1, <2>1, LocalIs DEF To, Finds
    <3>3. g = To(Local(c), found')
      BY <1>1, <3>1, <3>2, FoundMoves
    <3> QED BY <3>1, <3>2, <3>3 DEF Searches, FindServer
  <2>2. CASE ~Poll
    <3>1. To(Local(c), found') = exited[c] + 1
      BY <1>1, <2>2, LocalIs DEF To
    <3> QED BY <1>2, <2>2, <3>1 DEF Searches, Finds, pollVars
  <2> QED BY <2>1, <2>2
<1>4. Calls(Local(c)) = 1 /\ Size(Local(c)) = ExitSize
  BY <1>1, LocalIs DEF Calls, Size
<1>5. /\ a \in Messages /\ a.kind = "reduce" /\ a.size = Share(c, ExitSize)
      /\ a.h = OnMonitor(c, Subject(Local(c)).h, 0)
  <2>3. OnMonitor(c, Subject(Local(c)).h, 0) = 0
    BY <1>1, LocalIs DEF Subject, About, OnMonitor
  <2>1. <<>> \in Seq(Records) /\ 0 \in 0 .. NH
    BY EmptySeq, ClientConstants
  <2>2. ExitShare(c) \in Int
    BY DEF ExitShare, ExitSize
  <2> QED BY <2>1, <2>2, <2>3 DEF Reduce, Messages, Share
<1> HIDE DEF a
<1>6. Speaks(c)
  BY <1>2, <1>3, <1>4, <1>5, SpeaksOnce
<1>7. Locks(c)
  BY <1>1, <1>3, <1>4 DEF Locks
<1> QED BY <1>3, <1>6, <1>7 DEF Says

LEMMA SilentSays ==
  ASSUME IInv, NEW c \in Clients,
         BeginOutput(c) \/ BeginShutdown(c) \/ ShutdownStream(c) \/ PackField(c)
  PROVE  Says(c)
<1>1. stage[c] \in {"idle", "shutdown", "write"}
  BY FieldStage DEF BeginOutput, BeginShutdown, ShutdownStream, PackField
<1>2. UNCHANGED <<chan, idle, server>>
  <2>1. CASE PackField(c)
    <3>1. inUse[c][Handle(c)] /\ Handle(c) \in Handles
      BY <2>1, <1>1, CallHandle DEF Writing, PackField
    <3>2. PICK g \in Groups : ServerId(c, Handle(c), g) /\ LockOnto(c, Handle(c), g)
      BY <2>1 DEF PackField
    <3> QED BY <2>1, <3>1, <3>2, LockedCallTable DEF PackField, pollVars
  <2>2. CASE BeginOutput(c) \/ BeginShutdown(c) \/ ShutdownStream(c)
    BY <2>2 DEF BeginOutput, BeginShutdown, ShutdownStream, pollVars, tableVars
  <2> QED BY <2>1, <2>2
<1>3. Calls(Local(c)) = 0 /\ ~Finds(Local(c))
  BY <1>1, LocalIs DEF Calls, Finds
<1>4. Speaks(c)
  BY <1>2, <1>3, SpeaksNot
<1>5. Searches(c) /\ Locks(c)
  BY <1>1, <1>2, <1>3 DEF Searches, Locks
<1> QED BY <1>4, <1>5 DEF Says

LEMMA ClientStepSays ==
  ASSUME IInv, Within, NEW c \in Clients, ClientStep(c)
  PROVE  Says(c)
BY OpenSays, MetaSays, TrainSays, CommitSays, SyncSays, CloseSays, ExitSays, SilentSays
   DEF ClientStep

-----------------------------------------------------------------------------
(* The script of each group: at[i][g] collectives of ms[g] have been begun   *)
(* by a client in the i-th state, and server r of g has completed got[g][r]. *)

\* What follows the first k collectives m of a script.
Expects(m, k) ==
  IF k = 0 \/ m[k].kind = "gather" \/ m[k].size = 0 THEN "reduce"
  ELSE IF m[k].size = ExitSize THEN "nothing" ELSE "gather"
\* The last of them closed a file, or belongs to one that is open.
Closed(m, k) == k = 0 \/ (m[k].kind = "reduce" /\ m[k].size = 0)
InFile(m, k) == k > 0 /\ m[k].kind = "gather"

Scripted(tr, n, at, ms) ==
  /\ \A i \in 1 .. n, g \in Groups : at[i][g] \in Nat /\ at[i][g] <= at[n][g]
  /\ \A i \in 1 .. n - 1, g \in Groups :
       /\ at[i + 1][g] = at[i][g] + SaidTo(tr[i], found, g)
       /\ \A j \in 1 .. SaidTo(tr[i], found, g) : ms[g][at[i][g] + j] = Said(tr[i], j)
  /\ \A i \in 1 .. n : tr[i].seen <= tr[n].seen
Spelled(n, at, ms) ==
  \A g \in Groups :
    /\ \A k \in 0 .. at[n][g] - 1 :
         /\ ms[g][k + 1].kind = Expects(ms[g], k) /\ ms[g][k + 1].kind # "nothing"
         /\ ms[g][k + 1].size \in Nat \cup {ExitSize}
    /\ Expects(ms[g], at[n][g]) # "gather"

\* What client c has begun and its server not completed.
Pending(c, g, l, m, k) ==
  /\ Len(chan[c][g]) = l - k
  /\ \A j \in 1 .. Len(chan[c][g]) : Fits(c, chan[c][g][j], m[k + j])
Heard(tr, n, at, ms, got) ==
  \A c \in Clients : \E i \in 1 .. n :
    /\ tr[i] = Local(c)
    /\ \A g \in Groups : Pending(c, g, at[i][g], ms[g], got[g][ServerOf[c]])
Completed(n, at, ms, got) ==
  \A g \in Groups, r \in Ranks :
    /\ got[g][r] \in Nat /\ got[g][r] <= at[n][g]
    /\ phase[g][r] = "gather" <=> Expects(ms[g], got[g][r]) = "gather"
    /\ phase[g][r] = "exited" <=> Expects(ms[g], got[g][r]) = "nothing"

\* Without polling, groups are told to exit one after the other.
InTurn(tr, n, at, ms) ==
  ~Poll => \A g \in Groups : Expects(ms[g], at[n][g]) = "nothing" =>
             tr[n].stage \in {"exit", "gone"} /\ g <= tr[n].exited
\* A group to be announced has completed its script, to the close of its file;
\* nothing is said to a group after a close before it has heard that;
\* a group serves one handle of a client, whose file is still open.
Announced(n, at, ms, got) ==
  Poll =>
    /\ \A g \in Groups, r \in Ranks : callReady[g][r] =>
         got[g][r] = at[n][g] /\ Closed(ms[g], at[n][g])
    /\ \A g \in idle, r \in Ranks :
         ~callReady[g][r] /\ got[g][r] = at[n][g] /\ Closed(ms[g], at[n][g])
    /\ \A g \in Groups, r \in Ranks : \A k \in 1 .. at[n][g] - 1 :
         Closed(ms[g], k) => k <= got[g][r]
Reserved(tr, n, at, ms) ==
  Poll =>
    \A i \in 1 .. n, h \in Handles : tr[i].server[h] \in Groups =>
      /\ InFile(ms[tr[i].server[h]], at[i][tr[i].server[h]])
      /\ \A k \in Handles : tr[i].server[k] = tr[i].server[h] => k = h

Joint(tr, n, at, ms, got) ==
  /\ Passed(tr, n) /\ Scripted(tr, n, at, ms) /\ Spelled(n, at, ms)
  /\ Heard(tr, n, at, ms, got) /\ Completed(n, at, ms, got)
  /\ InTurn(tr, n, at, ms) /\ Announced(n, at, ms, got) /\ Reserved(tr, n, at, ms)
Matched ==
  \E n \in Nat \ {0} : \E tr, at, ms, got : Joint(tr, n, at, ms, got)

LEMMA ExpectsIs ==
  ASSUME NEW m, NEW k
  PROVE  Expects(m, k) \in {"reduce", "gather", "nothing"}
BY DEF Expects

\* The beginning: no client has said anything.
LEMMA InitJoint ==
  ASSUME QuiltInit
  PROVE  \E tr, at, ms, got :
           /\ Joint(tr, 1, at, ms, got)
           /\ \A g \in Groups : at[1][g] = 0 /\ \A r \in Ranks : got[g][r] = 0
<1>0. Init
  BY DEF QuiltInit
<1>1. Len(plan) = 0 /\ Len(found) = 0 /\ Monitor \in Clients
  BY <1>0, ClientConstants DEF Init, Monitor, Clients
<1>2. Within
  BY <1>0, <1>1 DEF Init, Within
<1>3. PICK x : x = Local(Monitor)
  OBVIOUS
<1>4. \A c \in Clients : Local(c) = x
  BY <1>0, <1>1, <1>3 DEF Init, Local
<1>5. Good(x, plan, found)
  BY <1>0, <1>1, <1>2, <1>3, InitIInv, WithinGood
<1>6. \A h \in Handles : x.server[h] = 0
  BY <1>0, <1>1, <1>3, LocalIs DEF Init
<1>7. PICK tr : tr[1] = x
  <2> WITNESS [i \in 1 .. 1 |-> x]
  <2> QED OBVIOUS
<1>8. PICK at : \A g \in Groups : at[1][g] = 0
  <2> WITNESS [i \in 1 .. 1 |-> [g \in Groups |-> 0]]
  <2> QED OBVIOUS
<1>9. PICK got : \A g \in Groups, r \in Ranks : got[g][r] = 0
  <2> WITNESS [g \in Groups |-> [r \in Ranks |-> 0]]
  <2> QED OBVIOUS
<1>10. PICK ms : ms = [g \in Groups |-> 0]
  OBVIOUS
<1>11. Passed(tr, 1)
  BY <1>5, <1>7 DEF Passed
<1>12. Scripted(tr, 1, at, ms)
  <2>1. x.seen <= x.seen
    BY <1>5 DEF Good
  <2> QED BY <1>7, <1>8, <2>1 DEF Scripted
<1>13. \A g \in Groups : Expects(ms[g], 0) = "reduce" /\ Closed(ms[g], 0)
  BY DEF Expects, Closed
<1>14. Spelled(1, at, ms)
  BY <1>8, <1>13 DEF Spelled
<1>15. Heard(tr, 1, at, ms, got)
  <2>1. ASSUME NEW c \in Clients, NEW g \in Groups
        PROVE  Pending(c, g, at[1][g], ms[g], got[g][ServerOf[c]])
    <3>1. chan[c][g] = <<>> /\ Len(chan[c][g]) = 0
      BY <1>0, EmptySeq DEF Init
    <3>2. at[1][g] = 0 /\ got[g][ServerOf[c]] = 0
      BY <1>8, <1>9, RanksOf
    <3> QED BY <3>1, <3>2 DEF Pending
  <2> QED BY <1>4, <1>7, <2>1 DEF Heard
<1>16. Completed(1, at, ms, got)
  <2>1. ASSUME NEW g \in Groups, NEW r \in Ranks
        PROVE  phase[g][r] # "gather" /\ phase[g][r] # "exited"
    BY DEF QuiltInit
  <2> QED BY <1>8, <1>9, <1>13, <2>1 DEF Completed
<1>17. InTurn(tr, 1, at, ms)
  BY <1>8, <1>13 DEF InTurn
<1>18. Announced(1, at, ms, got)
  BY <1>0, <1>8, <1>9, <1>13 DEF Announced, Init
<1>19. Reserved(tr, 1, at, ms)
  BY <1>6, <1>7 DEF Reserved, Groups
<1> QED BY <1>8, <1>9, <1>11, <1>12, <1>14, <1>15, <1>16, <1>17, <1>18, <1>19 DEF Joint

LEMMA InitMatched == QuiltInit => Matched
BY InitJoint DEF Matched

-----------------------------------------------------------------------------
(* Steps in which no collective is begun or completed.                       *)

\* The clients stand still, but for what is in their channels.
LEMMA Standing ==
  ASSUME UNCHANGED <<mediationVars, tableVars, found, seen>>, NEW tr, NEW n, NEW at, NEW ms,
         Passed(tr, n), Scripted(tr, n, at, ms), Reserved(tr, n, at, ms)
  PROVE  /\ Passed(tr, n)' /\ Scripted(tr, n, at, ms)' /\ Reserved(tr, n, at, ms)'
         /\ \A c \in Clients : Local(c)' = Local(c)
<1>1. UNCHANGED <<plan, pos, stage, cur, fld, outs, oid, frames, exited,
                  inUse, okw, bytes, server, prev>> /\ UNCHANGED <<found, seen>>
  BY DEF mediationVars, tableVars
<1>2. \A c \in Clients : Local(c)' = Local(c)
  BY <1>1, LocalStays
<1>3. Passed(tr, n)' /\ Scripted(tr, n, at, ms)'
  BY <1>1 DEF Passed, Scripted
<1> QED BY <1>2, <1>3 DEF Reserved

LEMMA QuietMatched ==
  ASSUME UNCHANGED <<mediationVars, tableVars, found, seen, chan>>, NEW n \in Nat, NEW tr,
         NEW at, NEW ms, NEW got, Joint(tr, n, at, ms, got),
         \A g \in Groups, r \in Ranks :
           /\ phase'[g][r] = "gather" <=> phase[g][r] = "gather"
           /\ phase'[g][r] = "exited" <=> phase[g][r] = "exited",
         Announced(n, at, ms, got)'
  PROVE  Joint(tr, n, at, ms, got)'
<1>1. /\ Passed(tr, n)' /\ Scripted(tr, n, at, ms)' /\ Reserved(tr, n, at, ms)'
      /\ \A c \in Clients : Local(c)' = Local(c)
  BY Standing DEF Joint
<1>2. Heard(tr, n, at, ms, got)'
  BY <1>1 DEF Joint, Heard, Pending
<1>3. Completed(n, at, ms, got)'
  <2>1. ASSUME NEW g \in Groups, NEW r \in Ranks
        PROVE  /\ got[g][r] \in Nat /\ got[g][r] <= at[n][g]
               /\ phase[g][r] = "gather" <=> Expects(ms[g], got[g][r]) = "gather"
               /\ phase[g][r] = "exited" <=> Expects(ms[g], got[g][r]) = "nothing"
    BY DEF Joint, Completed
  <2> QED BY <2>1 DEF Completed
<1>4. InTurn(tr, n, at, ms)' /\ Spelled(n, at, ms)'
  BY DEF Joint, InTurn, Spelled
<1> QED BY <1>1, <1>2, <1>3, <1>4 DEF Joint

LEMMA StepsWithin ==
  ASSUME LoopInv, NEW n \in Nat, NEW tr, NEW at, NEW ms, NEW got, Joint(tr, n, at, ms, got),
         GroupStep \/ UNCHANGED vars
  PROVE  Joint(tr, n, at, ms, got)'
<1>1. UNCHANGED <<clientVars, callReady>>
  BY DEF GroupStep, vars, serverVars, taskVars
<1>2. ASSUME NEW g \in Groups, NEW r \in Ranks
      PROVE  /\ phase'[g][r] = "gather" <=> phase[g][r] = "gather"
             /\ phase'[g][r] = "exited" <=> phase[g][r] = "exited"
  <2>1. CASE phase' = phase
    BY <2>1
  <2>2. ASSUME NEW h \in Groups, NEW s \in Ranks, Returns(h, s)
        PROVE  /\ phase'[g][r] = "gather" <=> phase[g][r] = "gather"
               /\ phase'[g][r] = "exited" <=> phase[g][r] = "exited"
    <3>1. phase \in [Groups -> [Ranks -> Phases]]
      BY DEF LoopInv, ServersTypeOK
    <3>2. PICK p \in {"ready", "reduce", "aborted"} :
            phase[h][s] \in {"forward", "aborted"} /\ phase' = [phase EXCEPT ![h][s] = p]
      BY <2>2 DEF Returns
    <3>3. CASE g = h /\ r = s
      <4>1. phase'[g][r] = p
        BY <3>1, <3>2, <3>3
      <4> QED BY <3>2, <3>3, <4>1
    <3>4. CASE ~(g = h /\ r = s)
      <4>1. phase'[g][r] = phase[g][r]
        BY <3>1, <3>2, <3>4
      <4> QED BY <4>1
    <3> QED BY <3>3, <3>4
  <2> QED BY <2>1, <2>2 DEF GroupStep, vars, serverVars, taskVars
<1>3. Announced(n, at, ms, got)'
  BY <1>1 DEF Joint, Announced, clientVars, pollVars
<1> QED BY <1>1, <1>2, <1>3, QuietMatched DEF clientVars, pollVars

LEMMA FoundMatched ==
  ASSUME LoopInv, NEW n \in Nat, NEW tr, NEW at, NEW ms, NEW got, Joint(tr, n, at, ms, got),
         NEW g \in Groups, GroupFound(g)
  PROVE  Joint(tr, n, at, ms, got)'
<1>1. /\ UNCHANGED <<clientVars, callReady>>
      /\ \A r \in Ranks : phase[g][r] = "offering"
      /\ phase' = [phase EXCEPT ![g] = [r \in Ranks |-> "reduce"]]
  BY DEF GroupFound
<1>2. ASSUME NEW h \in Groups, NEW r \in Ranks
      PROVE  /\ phase'[h][r] = "gather" <=> phase[h][r] = "gather"
             /\ phase'[h][r] = "exited" <=> phase[h][r] = "exited"
  BY <1>1 DEF LoopInv, ServersTypeOK
<1>3. Announced(n, at, ms, got)'
  BY <1>1 DEF Joint, Announced, clientVars, pollVars
<1> QED BY <1>1, <1>2, <1>3, QuietMatched DEF clientVars, pollVars

\* A group that announces itself has completed its script.
LEMMA OfferMatched ==
  ASSUME LoopInv, IInv, NEW n \in Nat, NEW tr, NEW at, NEW ms, NEW got, Joint(tr, n, at, ms, got),
         NEW g \in Groups, OfferGroup(g)
  PROVE  Joint(tr, n, at, ms, got)'
<1>1. /\ UNCHANGED <<mediationVars, tableVars, chan, found, seen>>
      /\ \A r \in Ranks : phase[g][r] = "ready"
      /\ phase' = [phase EXCEPT ![g] = [r \in Ranks |-> "offering"]]
      /\ callReady' = [callReady EXCEPT ![g] = [r \in Ranks |-> FALSE]]
      /\ idle' = idle \cup {g}
  BY DEF OfferGroup
<1>2. ASSUME NEW h \in Groups, NEW r \in Ranks
      PROVE  /\ phase'[h][r] = "gather" <=> phase[h][r] = "gather"
             /\ phase'[h][r] = "exited" <=> phase[h][r] = "exited"
  BY <1>1 DEF LoopInv, ServersTypeOK
<1>3. /\ \A r \in Ranks : ~callReady'[g][r]
      /\ \A h \in Groups, r \in Ranks : h # g => callReady'[h][r] = callReady[h][r]
  BY <1>1 DEF LoopInv, ServersTypeOK
<1>4. \A r \in Ranks : callReady[g][r]
  BY <1>1 DEF LoopInv
<1>5. ASSUME Poll PROVE Announced(n, at, ms, got)'
  <2>1. /\ \A h \in Groups, r \in Ranks : callReady[h][r] =>
             got[h][r] = at[n][h] /\ Closed(ms[h], at[n][h])
        /\ \A h \in idle, r \in Ranks :
             ~callReady[h][r] /\ got[h][r] = at[n][h] /\ Closed(ms[h], at[n][h])
        /\ \A h \in Groups, r \in Ranks : \A k \in 1 .. at[n][h] - 1 :
             Closed(ms[h], k) => k <= got[h][r]
    BY <1>5 DEF Joint, Announced
  <2>2. \A h \in Groups, r \in Ranks : callReady'[h][r] =>
             got[h][r] = at[n][h] /\ Closed(ms[h], at[n][h])
    BY <1>3, <2>1
  <2>3. ASSUME NEW h \in idle', NEW r \in Ranks
        PROVE  ~callReady'[h][r] /\ got[h][r] = at[n][h] /\ Closed(ms[h], at[n][h])
    <3>1. CASE h = g
      BY <1>3, <1>4, <2>1, <3>1
    <3>2. CASE h # g
      <4>1. h \in idle /\ h \in Groups
        BY <1>1, <3>2 DEF IInv, ClientTypeOK, MessagesTypeOK
      <4> QED BY <1>3, <2>1, <3>2, <4>1
    <3> QED BY <3>1, <3>2
  <2> QED BY <2>1, <2>2, <2>3 DEF Announced
<1>6. Announced(n, at, ms, got)'
  BY <1>5 DEF Announced
<1> QED BY <1>1, <1>2, <1>6, QuietMatched

-----------------------------------------------------------------------------
(* A server completes a collective.                                          *)

\* All its clients have begun it, as the script says; then it is gone from
\* their channels.
LEMMA NextOfScript ==
  ASSUME IInv, NEW n \in Nat, NEW tr, NEW at, NEW ms, NEW got, Joint(tr, n, at, ms, got),
         NEW g \in Groups, NEW r \in Ranks,
         \A c \in Served(r) : chan[c][g] # <<>>
  PROVE  /\ got[g][r] \in Nat /\ at[n][g] \in Nat /\ got[g][r] + 1 <= at[n][g]
         /\ \A c \in Served(r) : Fits(c, Head(chan[c][g]), ms[g][got[g][r] + 1])
         /\ ms[g][got[g][r] + 1].kind = Expects(ms[g], got[g][r])
         /\ ms[g][got[g][r] + 1].size \in Nat \cup {ExitSize}
<1> DEFINE k == got[g][r]
<1>1. k \in Nat /\ k <= at[n][g]
  BY DEF Joint, Completed
<1>2. ASSUME NEW c \in Served(r)
      PROVE  /\ k + 1 <= at[n][g] /\ at[n][g] \in Nat
             /\ Fits(c, Head(chan[c][g]), ms[g][k + 1])
  <2>1. c \in Clients /\ ServerOf[c] = r
    BY DEF Served
  <2>2. PICK i \in 1 .. n : Pending(c, g, at[i][g], ms[g], k)
    BY <2>1 DEF Joint, Heard
  <2>3. at[i][g] \in Nat /\ at[i][g] <= at[n][g] /\ at[n][g] \in Nat
    <3>1. n \in 1 .. n
      OBVIOUS
    <3> QED BY <3>1 DEF Joint, Scripted
  <2>4. chan[c][g] \in Seq(Messages) /\ chan[c][g] # <<>>
    BY <2>1, <1>2 DEF IInv, ClientTypeOK, MessagesTypeOK
  <2>5. Len(chan[c][g]) \in Nat /\ Len(chan[c][g]) > 0 /\ Head(chan[c][g]) = chan[c][g][1]
    BY <2>4, EmptySeq, LenProperties
  <2>6. Len(chan[c][g]) = at[i][g] - k /\ Fits(c, chan[c][g][1], ms[g][k + 1])
    BY <2>2, <2>5 DEF Pending
  <2> QED BY <1>1, <2>3, <2>5, <2>6
<1>3. PICK c \in Served(r) : TRUE
  BY RanksOf
<1>4. k + 1 <= at[n][g] /\ at[n][g] \in Nat
  BY <1>2, <1>3
<1>5. k \in 0 .. at[n][g] - 1
  BY <1>1, <1>4
<1>6. ms[g][k + 1].kind = Expects(ms[g], k) /\ ms[g][k + 1].size \in Nat \cup {ExitSize}
  BY <1>5 DEF Joint, Spelled
<1> QED BY <1>1, <1>2, <1>4, <1>6

LEMMA HeardNext ==
  ASSUME IInv, NEW n \in Nat, NEW tr, NEW at, NEW ms, NEW got, Joint(tr, n, at, ms, got),
         NEW g \in Groups, NEW r \in Ranks,
         \A c \in Served(r) : chan[c][g] # <<>>,
         TakeHeads(g, r), \A c \in Clients : Local(c)' = Local(c),
         NEW gat, \A h \in Groups, s \in Ranks :
                    gat[h][s] = IF h = g /\ s = r THEN got[g][r] + 1 ELSE got[h][s]
  PROVE  Heard(tr, n, at, ms, gat)'
<1> SUFFICES ASSUME NEW c \in Clients
             PROVE  \E i \in 1 .. n :
                      /\ tr[i] = Local(c)'
                      /\ \A h \in Groups : Pending(c, h, at[i][h], ms[h], gat[h][ServerOf[c]])'
  BY DEF Heard
<1>1. PICK i \in 1 .. n :
        /\ tr[i] = Local(c)
        /\ \A h \in Groups : Pending(c, h, at[i][h], ms[h], got[h][ServerOf[c]])
  BY DEF Joint, Heard
<1>2. ServerOf[c] \in Ranks /\ chan[c] \in [Groups -> Seq(Messages)]
  BY RanksOf DEF IInv, ClientTypeOK, MessagesTypeOK
<1>3. chan'[c] = IF c \in Served(r) THEN [chan[c] EXCEPT ![g] = Tail(chan[c][g])] ELSE chan[c]
  BY DEF TakeHeads
<1>4. ASSUME NEW h \in Groups
      PROVE  Pending(c, h, at[i][h], ms[h], gat[h][ServerOf[c]])'
  <2>1. Pending(c, h, at[i][h], ms[h], got[h][ServerOf[c]])
    BY <1>1
  <2>2. CASE h = g /\ ServerOf[c] = r
    <3>1. c \in Served(r) /\ chan[c][g] # <<>>
      BY <2>2 DEF Served
    <3>2. chan[c][g] \in Seq(Messages) /\ chan'[c][g] = Tail(chan[c][g])
      BY <1>2, <1>3, <3>1
    <3>3. /\ Len(chan[c][g]) \in Nat /\ Len(chan'[c][g]) = Len(chan[c][g]) - 1
          /\ \A j \in 1 .. Len(chan[c][g]) - 1 : chan'[c][g][j] = chan[c][g][j + 1]
      BY <3>1, <3>2, HeadTailProperties, LenProperties
    <3>4. got[g][r] \in Nat /\ at[i][g] \in Nat /\ gat[g][r] = got[g][r] + 1
      <4>1. i \in 1 .. n
        OBVIOUS
      <4> QED BY <4>1 DEF Joint, Completed, Scripted
    <3>5. Len(chan[c][g]) = at[i][g] - got[g][r]
      BY <2>1, <2>2 DEF Pending
    <3>6. ASSUME NEW j \in 1 .. Len(chan'[c][g])
          PROVE  Fits(c, chan'[c][g][j], ms[g][gat[g][r] + j])
      <4>1. j + 1 \in 1 .. Len(chan[c][g]) /\ chan'[c][g][j] = chan[c][g][j + 1]
        BY <3>3
      <4>2. Fits(c, chan[c][g][j + 1], ms[g][got[g][r] + (j + 1)])
        BY <2>1, <2>2, <4>1 DEF Pending
      <4>3. got[g][r] + (j + 1) = gat[g][r] + j
        BY <3>4
      <4> QED BY <4>1, <4>2, <4>3
    <3>7. Len(chan'[c][g]) = at[i][g] - gat[g][r]
      BY <3>3, <3>4, <3>5
    <3> QED BY <2>2, <3>6, <3>7 DEF Pending, Fits
  <2>3. CASE ~(h = g /\ ServerOf[c] = r)
    <3>1. chan'[c][h] = chan[c][h]
      BY <1>2, <1>3, <2>3 DEF Served
    <3>2. gat[h][ServerOf[c]] = got[h][ServerOf[c]]
      BY <1>2, <2>3
    <3> QED BY <2>1, <3>1, <3>2 DEF Pending
  <2> QED BY <2>2, <2>3
<1> QED BY <1>1, <1>4

-----------------------------------------------------------------------------
(* MPI_SUM of one of the two words.                                          *)

HeadSum(it, g, r, w) ==
  it = [s \in SUBSET Served(r) |->
          IF s = {} THEN 0 ELSE Head(chan[Pick(s)][g])[w] + it[s \ {Pick(s)}]]
Words(g, r, w) == [c \in Served(r) |-> Head(chan[c][g])[w]]

LEMMA ServedFinite ==
  ASSUME NEW r
  PROVE  IsFiniteSet(Served(r))
<1>1. IsFiniteSet(Clients)
  BY FS_Interval, ClientConstants DEF Clients
<1> QED BY <1>1, FS_Subset DEF Served

LEMMA HeadSumIs ==
  ASSUME NEW g, NEW r, NEW w, NEW it
  PROVE  HeadSum(it, g, r, w) <=> IsSum(it, Served(r), Words(g, r, w))
<1>1. ASSUME NEW s \in SUBSET Served(r)
      PROVE  (IF s = {} THEN 0 ELSE Head(chan[Pick(s)][g])[w] + it[s \ {Pick(s)}])
               = Added(Words(g, r, w), it, s)
  <2>1. CASE s = {}
    BY <2>1 DEF Added
  <2>2. CASE s # {}
    <3>1. Pick(s) \in Served(r)
      BY <2>2, PickIs
    <3>2. Words(g, r, w)[Pick(s)] = Head(chan[Pick(s)][g])[w]
      BY <3>1 DEF Words
    <3> QED BY <2>2, <3>2 DEF Added
  <2> QED BY <2>1, <2>2
<1>2. [s \in SUBSET Served(r) |->
         IF s = {} THEN 0 ELSE Head(chan[Pick(s)][g])[w] + it[s \ {Pick(s)}]]
        = [s \in SUBSET Served(r) |-> Added(Words(g, r, w), it, s)]
  BY <1>1
<1> QED BY <1>2 DEF HeadSum, IsSum

LEMMA ReducedIs ==
  ASSUME NEW g, NEW r, NEW w
  PROVE  Reduced(g, r, w) = SumOf(Words(g, r, w), Served(r))
<1> DEFINE it == CHOOSE h : HeadSum(h, g, r, w)
<1>1. Reduced(g, r, w) = it[Served(r)]
  BY DEF Reduced, MapThenSumSet, MapThenFoldSet, HeadSum, Pick
<1>2. \E h : HeadSum(h, g, r, w)
  BY ServedFinite, SumExists, HeadSumIs
<1>3. HeadSum(it, g, r, w)
  BY <1>2
<1>4. IsSum(it, Served(r), Words(g, r, w))
  BY <1>3, HeadSumIs
<1> HIDE DEF it
<1>5. PICK jt : IsSum(jt, Served(r), Words(g, r, w)) /\ SumOf(Words(g, r, w), Served(r)) = jt[Served(r)]
  BY ServedFinite, SumOfIs
<1>6. it[Served(r)] = jt[Served(r)]
  BY <1>4, <1>5, ServedFinite, SumOfSubset
<1> QED BY <1>1, <1>5, <1>6

\* The lowest client of a server sends the exit size, the others zero.
LEMMA ExitShares ==
  ASSUME NEW r \in Ranks
  PROVE  \E c \in Served(r) :
           ExitShare(c) = ExitSize /\ \A d \in Served(r) : d # c => ExitShare(d) = 0
<1>1. Served(r) # {} /\ Served(r) \subseteq Nat
  <2>1. Clients \subseteq Nat
    BY ClientConstants DEF Clients
  <2> QED BY <2>1, RanksOf
<1>2. PICK c \in Served(r) : \A d \in Served(r) : c <= d
  BY <1>1, LeastNat
<1>3. ExitShare(c) = ExitSize
  BY <1>1, <1>2, ClientConstants DEF ExitShare, Served, Clients
<1>4. ASSUME NEW d \in Served(r), d # c PROVE ExitShare(d) = 0
  <2>1. c < d /\ c \in Clients /\ ServerOf[c] = ServerOf[d]
    BY <1>1, <1>2, <1>4 DEF Served
  <2> QED BY <2>1 DEF ExitShare
<1> QED BY <1>3, <1>4

\* What the server makes of the sizes is what its clients mean.
LEMMA ReducedSize ==
  ASSUME NEW g \in Groups, NEW r \in Ranks, NEW s, s.kind = "reduce",
         s.size \in Nat \cup {ExitSize},
         \A c \in Served(r) : Fits(c, Head(chan[c][g]), s)
  PROVE  /\ s.size = 0 => Reduced(g, r, "size") = 0
         /\ s.size = ExitSize => Reduced(g, r, "size") = ExitSize
         /\ s.size \in Nat \ {0} => Reduced(g, r, "size") \in Nat \ {0}
<1> DEFINE F == Words(g, r, "size")
<1>1. \A c \in Served(r) : F[c] = Share(c, s.size)
  BY DEF Fits, Words
<1> HIDE DEF F
<1>2. IsFiniteSet(Served(r)) /\ Served(r) # {}
  BY ServedFinite, RanksOf
<1>3. ASSUME s.size = 0 PROVE SumOf(F, Served(r)) = 0
  <2>1. \A c \in Served(r) : F[c] = 0
    BY <1>1, <1>3 DEF Share, ExitSize
  <2> QED BY <1>2, <2>1, SumOfZeros
<1>4. ASSUME s.size = ExitSize PROVE SumOf(F, Served(r)) = ExitSize
  <2>1. PICK c \in Served(r) :
          ExitShare(c) = ExitSize /\ \A d \in Served(r) : d # c => ExitShare(d) = 0
    BY ExitShares
  <2>2. F[c] = ExitSize /\ \A d \in Served(r) : d # c => F[d] = 0
    BY <1>1, <1>4, <2>1 DEF Share
  <2>3. F[c] \in Int
    BY <2>2 DEF ExitSize
  <2> QED BY <1>2, <2>2, <2>3, SumOfOne
<1>5. ASSUME s.size \in Nat \ {0} PROVE SumOf(F, Served(r)) \in Nat \ {0}
  <2>1. \A c \in Served(r) : F[c] \in Nat \ {0}
    BY <1>1, <1>5 DEF Share, ExitSize
  <2> QED BY <1>2, <2>1, SumOfPositive
<1> QED BY <1>3, <1>4, <1>5, ReducedIs DEF F

\* The handle of a close is the monitor's.
LEMMA ReducedHandle ==
  ASSUME NEW g \in Groups, NEW r \in Ranks, NEW s, s.kind = "reduce", s.about.h \in 0 .. NH,
         \A c \in Served(r) : Fits(c, Head(chan[c][g]), s)
  PROVE  Reduced(g, r, "h") = IF Monitor \in Served(r) THEN s.about.h ELSE 0
<1> DEFINE F == Words(g, r, "h")
<1>1. \A c \in Served(r) : F[c] = IF c = Monitor THEN s.about.h ELSE 0
  BY DEF Fits, Words, OnMonitor
<1> HIDE DEF F
<1>2. CASE Monitor \in Served(r)
  <2>1. F[Monitor] = s.about.h /\ F[Monitor] \in Int
    BY <1>1, <1>2
  <2>2. \A y \in Served(r) : y # Monitor => F[y] = 0
    BY <1>1
  <2>3. SumOf(F, Served(r)) = s.about.h
    BY <1>2, <2>1, <2>2, ServedFinite, SumOfOne
  <2> QED BY <1>2, <2>3, ReducedIs DEF F
<1>3. CASE Monitor \notin Served(r)
  <2>1. \A y \in Served(r) : F[y] = 0
    BY <1>1, <1>3
  <2>2. SumOf(F, Served(r)) = 0
    BY <2>1, ServedFinite, SumOfZeros
  <2> QED BY <1>3, <2>2, ReducedIs DEF F
<1> QED BY <1>2, <1>3

-----------------------------------------------------------------------------
(* A server completes a collective.                                          *)

\* got, with one more collective of group g completed by server r.
OneMore(gat, got, g, r) ==
  \A h \in Groups, s \in Ranks :
    gat[h][s] = IF h = g /\ s = r THEN got[g][r] + 1 ELSE got[h][s]

LEMMA CompletesOne ==
  ASSUME LoopInv, IInv, NEW n \in Nat, NEW tr, NEW at, NEW ms, NEW got,
         Joint(tr, n, at, ms, got), NEW g \in Groups, NEW r \in Ranks, NEW p, NEW gat,
         OneMore(gat, got, g, r),
         \A c \in Served(r) : chan[c][g] # <<>>,
         TakeHeads(g, r), UNCHANGED <<mediationVars, tableVars, found, seen, idle>>,
         phase[g][r] \in {"reduce", "gather"},
         phase' = [phase EXCEPT ![g][r] = p],
         p = "gather" <=> Expects(ms[g], got[g][r] + 1) = "gather",
         p = "exited" <=> Expects(ms[g], got[g][r] + 1) = "nothing",
         Poll => \A h \in Groups, s \in Ranks : callReady'[h][s] =>
                   \/ callReady[h][s]
                   \/ h = g /\ s = r /\ Closed(ms[g], got[g][r] + 1)
  PROVE  Joint(tr, n, at, ms, gat)'
<1>1. /\ Passed(tr, n)' /\ Scripted(tr, n, at, ms)' /\ Reserved(tr, n, at, ms)'
      /\ \A c \in Clients : Local(c)' = Local(c)
  BY Standing DEF Joint
<1>2. \A h \in Groups, s \in Ranks :
        gat[h][s] = IF h = g /\ s = r THEN got[g][r] + 1 ELSE got[h][s]
  BY DEF OneMore
<1>3. Heard(tr, n, at, ms, gat)'
  BY <1>1, <1>2, HeardNext
<1>4. InTurn(tr, n, at, ms)' /\ Spelled(n, at, ms)'
  BY DEF Joint, InTurn, Spelled
<1>5. /\ got[g][r] \in Nat /\ at[n][g] \in Nat /\ got[g][r] + 1 <= at[n][g]
      /\ phase \in [Groups -> [Ranks -> Phases]]
  BY NextOfScript DEF LoopInv, ServersTypeOK
<1>6. Completed(n, at, ms, gat)'
  <2>1. ASSUME NEW h \in Groups, NEW s \in Ranks
        PROVE  /\ gat[h][s] \in Nat /\ gat[h][s] <= at[n][h]
               /\ phase'[h][s] = "gather" <=> Expects(ms[h], gat[h][s]) = "gather"
               /\ phase'[h][s] = "exited" <=> Expects(ms[h], gat[h][s]) = "nothing"
    <3>1. CASE h = g /\ s = r
      <4>1. gat[h][s] = got[g][r] + 1 /\ phase'[h][s] = p
        BY <1>2, <1>5, <3>1
      <4> QED BY <1>5, <3>1, <4>1
    <3>2. CASE ~(h = g /\ s = r)
      <4>1. gat[h][s] = got[h][s] /\ phase'[h][s] = phase[h][s]
        BY <1>2, <1>5, <3>2
      <4> QED BY <4>1 DEF Joint, Completed
    <3> QED BY <3>1, <3>2
  <2> QED BY <2>1 DEF Completed
<1>7. ASSUME Poll PROVE Announced(n, at, ms, gat)'
  <2>1. /\ \A h \in Groups, s \in Ranks : callReady[h][s] =>
             got[h][s] = at[n][h] /\ Closed(ms[h], at[n][h])
        /\ \A h \in idle, s \in Ranks :
             ~callReady[h][s] /\ got[h][s] = at[n][h] /\ Closed(ms[h], at[n][h])
        /\ \A h \in Groups, s \in Ranks : \A k \in 1 .. at[n][h] - 1 :
             Closed(ms[h], k) => k <= got[h][s]
    BY <1>7 DEF Joint, Announced
  <2>2. ~callReady[g][r]
    BY <1>5, <2>1
  <2>3. g \notin idle
    BY DEF LoopInv
  <2>4. ASSUME NEW h \in Groups, NEW s \in Ranks, callReady'[h][s]
        PROVE  gat[h][s] = at[n][h] /\ Closed(ms[h], at[n][h])
    <3>1. CASE h = g /\ s = r
      <4>1. Closed(ms[g], got[g][r] + 1)
        BY <1>7, <2>2, <2>4, <3>1
      <4>2. ~(got[g][r] + 1 \in 1 .. at[n][g] - 1)
        BY <1>5, <2>1, <4>1
      <4>3. got[g][r] + 1 = at[n][g]
        BY <1>5, <4>2
      <4> QED BY <1>2, <3>1, <4>1, <4>3
    <3>2. CASE ~(h = g /\ s = r)
      BY <1>2, <1>7, <2>1, <2>4, <3>2
    <3> QED BY <3>1, <3>2
  <2>5. ASSUME NEW h \in idle', NEW s \in Ranks
        PROVE  ~callReady'[h][s] /\ gat[h][s] = at[n][h] /\ Closed(ms[h], at[n][h])
    <3>1. h \in idle /\ h # g /\ h \in Groups
      BY <2>3 DEF IInv, ClientTypeOK, MessagesTypeOK
    <3> QED BY <1>2, <1>7, <2>1, <3>1
  <2>6. ASSUME NEW h \in Groups, NEW s \in Ranks, NEW k \in 1 .. at[n][h] - 1,
               Closed(ms[h], k)
        PROVE  k <= gat[h][s]
    <3>1. k <= got[h][s] /\ got[h][s] \in Nat
      BY <2>1, <2>6 DEF Joint, Completed
    <3>2. got[h][s] <= gat[h][s] /\ gat[h][s] \in Nat
      BY <1>2, <3>1
    <3>3. k \in Nat
      BY <2>6
    <3> QED BY <3>1, <3>2, <3>3
  <2> QED BY <2>4, <2>5, <2>6 DEF Announced
<1>8. Announced(n, at, ms, gat)'
  BY <1>7 DEF Announced
<1> QED BY <1>1, <1>3, <1>4, <1>6, <1>8 DEF Joint

LEMMA GatherMatched ==
  ASSUME LoopInv, IInv, NEW n \in Nat, NEW tr, NEW at, NEW ms, NEW got,
         Joint(tr, n, at, ms, got), NEW g \in Groups, NEW r \in Ranks, ServerGather(g, r)
  PROVE  \E gat : OneMore(gat, got, g, r) /\ Joint(tr, n, at, ms, gat)'
<1>1. /\ phase[g][r] = "gather"
      /\ \A c \in Served(r) : chan[c][g] # <<>> /\ Head(chan[c][g]).kind = "gather"
      /\ TakeHeads(g, r)
      /\ UNCHANGED <<mediationVars, tableVars, found, seen, idle, callReady>>
  BY DEF ServerGather, Joined, pollVars
<1>2. PICK p \in {"forward", "aborted"} : phase' = [phase EXCEPT ![g][r] = p]
  BY DEF ServerGather
<1>3. PICK gat : OneMore(gat, got, g, r)
  <2> WITNESS [h \in Groups |-> [s \in Ranks |->
                 IF h = g /\ s = r THEN got[g][r] + 1 ELSE got[h][s]]]
  <2> QED BY DEF OneMore
<1>4. PICK c \in Served(r) : TRUE
  BY RanksOf
<1>5. Fits(c, Head(chan[c][g]), ms[g][got[g][r] + 1])
  BY <1>1, <1>4, NextOfScript
<1>6. Expects(ms[g], got[g][r] + 1) = "reduce"
  BY <1>1, <1>4, <1>5 DEF Fits, Expects
<1>7. Joint(tr, n, at, ms, gat)'
  BY <1>1, <1>2, <1>3, <1>6, CompletesOne
<1> QED BY <1>3, <1>7

LEMMA ReduceMatched ==
  ASSUME LoopInv, IInv, NEW n \in Nat, NEW tr, NEW at, NEW ms, NEW got,
         Joint(tr, n, at, ms, got), NEW g \in Groups, NEW r \in Ranks, ServerReduce(g, r)
  PROVE  \E gat : OneMore(gat, got, g, r) /\ Joint(tr, n, at, ms, gat)'
<1> DEFINE size == Reduced(g, r, "size")
           k    == got[g][r]
           s    == ms[g][k + 1]
           p    == IF size = ExitSize THEN "exited"
                   ELSE IF size < 0 THEN "aborted"
                   ELSE IF size > 0 THEN "gather" ELSE "forward"
<1>1. /\ phase[g][r] = "reduce"
      /\ \A c \in Served(r) : chan[c][g] # <<>> /\ Head(chan[c][g]).kind = "reduce"
      /\ TakeHeads(g, r)
      /\ UNCHANGED <<mediationVars, tableVars, found, seen, idle>>
      /\ phase' = [phase EXCEPT ![g][r] = p]
      /\ size = 0 => callReady' = [callReady EXCEPT ![g][r] = Poll]
      /\ size # 0 => callReady' = callReady
  BY DEF ServerReduce, Joined, pollVars
<1>2. PICK gat : OneMore(gat, got, g, r)
  <2> WITNESS [h \in Groups |-> [t \in Ranks |->
                 IF h = g /\ t = r THEN got[g][r] + 1 ELSE got[h][t]]]
  <2> QED BY DEF OneMore
<1>3. PICK c \in Served(r) : TRUE
  BY RanksOf
<1>4. /\ k \in Nat /\ s.size \in Nat \cup {ExitSize}
      /\ \A d \in Served(r) : Fits(d, Head(chan[d][g]), s)
  BY <1>1, NextOfScript
<1>5. s.kind = "reduce"
  BY <1>1, <1>3, <1>4 DEF Fits
<1>6. /\ s.size = 0 => size = 0
      /\ s.size = ExitSize => size = ExitSize
      /\ s.size \in Nat \ {0} => size \in Nat \ {0}
  BY <1>4, <1>5, ReducedSize
<1>7. /\ Closed(ms[g], k + 1) <=> s.size = 0
      /\ Expects(ms[g], k + 1) = IF s.size = 0 THEN "reduce"
                                 ELSE IF s.size = ExitSize THEN "nothing" ELSE "gather"
  BY <1>4, <1>5 DEF Closed, Expects
<1> HIDE DEF size, k, s
<1>8. /\ p = "gather" <=> Expects(ms[g], k + 1) = "gather"
      /\ p = "exited" <=> Expects(ms[g], k + 1) = "nothing"
      /\ size = 0 <=> Closed(ms[g], k + 1)
  BY <1>4, <1>6, <1>7 DEF ExitSize
<1> HIDE DEF p
<1>9. ASSUME NEW h \in Groups, NEW t \in Ranks, callReady'[h][t]
      PROVE  callReady[h][t] \/ (h = g /\ t = r /\ Closed(ms[g], k + 1))
  <2>1. callReady \in [Groups -> [Ranks -> BOOLEAN]]
    BY DEF LoopInv, ServersTypeOK
  <2>2. CASE size = 0
    <3>1. CASE h = g /\ t = r
      BY <1>8, <2>2, <3>1
    <3>2. CASE ~(h = g /\ t = r)
      <4>1. callReady'[h][t] = callReady[h][t]
        BY <1>1, <2>1, <2>2, <3>2
      <4> QED BY <1>9, <4>1
    <3> QED BY <3>1, <3>2
  <2>3. CASE size # 0
    BY <1>1, <1>9, <2>3
  <2> QED BY <2>2, <2>3
<1>10. Joint(tr, n, at, ms, gat)'
  BY <1>1, <1>2, <1>8, <1>9, CompletesOne DEF k
<1> QED BY <1>2, <1>10

-----------------------------------------------------------------------------
(* A client begins what it has to say next.                                  *)

\* To whom is settled once the group is found.
LEMMA SaidToSettled ==
  ASSUME NEW p, NEW f, NEW k, NEW x, Extends(k, f), Len(f) \in Nat,
         Good(x, p, f), Ready(x, p, f)
  PROVE  \A g \in Groups : SaidTo(x, k, g) = SaidTo(x, f, g)
<1>1. Poll /\ x.stage \in {"open", "exit"} => k[x.seen + 1] = f[x.seen + 1]
  BY DEF Good, Ready, Extends
<1>2. To(x, k) = To(x, f)
  <2>1. CASE x.stage = "open"
    <3>1. Group(x, k) = Group(x, f)
      BY <1>1, <2>1 DEF Group
    <3> QED BY <2>1, <3>1 DEF To
  <2>2. CASE x.stage = "exit"
    BY <1>1, <2>2 DEF To
  <2>3. CASE x.stage \notin {"open", "exit"}
    BY <2>3 DEF To
  <2> QED BY <2>1, <2>2, <2>3
<1> QED BY <1>2 DEF SaidTo

LEMMA ScriptedStays ==
  ASSUME IInv, NEW tr, NEW n \in Nat \ {0}, NEW at, NEW ms, Passed(tr, n),
         Scripted(tr, n, at, ms), Extends(found', found)
  PROVE  Scripted(tr, n, at, ms)'
<1>1. ASSUME NEW i \in 1 .. n - 1, NEW g \in Groups
      PROVE  SaidTo(tr[i], found', g) = SaidTo(tr[i], found, g)
  <2>1. i \in 1 .. n /\ Len(found) \in Nat
    BY LenProperties DEF IInv, ClientTypeOK, MessagesTypeOK
  <2>2. Good(tr[i], plan, found) /\ Ready(tr[i], plan, found)
    BY <2>1 DEF Passed
  <2> QED BY <2>1, <2>2, SaidToSettled
<1>2. ASSUME NEW i \in 1 .. n - 1, NEW g \in Groups
      PROVE  /\ at[i + 1][g] = at[i][g] + SaidTo(tr[i], found', g)
             /\ \A j \in 1 .. SaidTo(tr[i], found', g) : ms[g][at[i][g] + j] = Said(tr[i], j)
  BY <1>1 DEF Scripted
<1> QED BY <1>2 DEF Scripted

LEMMA CallsIs ==
  ASSUME NEW x
  PROVE  /\ Calls(x) \in {0, 1, 2}
         /\ Calls(x) = 2 <=>
              x.stage \in {"open", "trainMeta", "putMeta", "train", "commit", "sync"}
         /\ Calls(x) = 1 <=> x.stage \in {"close", "lastClose", "exit"}
         /\ \A f : \A g \in Groups : /\ SaidTo(x, f, g) \in {0, 1, 2}
                                     /\ SaidTo(x, f, g) # 0 =>
                                          g = To(x, f) /\ SaidTo(x, f, g) = Calls(x)
<1>1. /\ Calls(x) \in {0, 1, 2}
      /\ Calls(x) = 2 <=>
           x.stage \in {"open", "trainMeta", "putMeta", "train", "commit", "sync"}
      /\ Calls(x) = 1 <=> x.stage \in {"close", "lastClose", "exit"}
  BY DEF Calls
<1> QED BY <1>1 DEF SaidTo

LEMMA SizeIs ==
  ASSUME NEW x
  PROVE  /\ Size(x) \in Nat \cup {ExitSize}
         /\ Calls(x) = 2 => Size(x) # 0 /\ Size(x) # ExitSize
         /\ Calls(x) = 1 => Size(x) = IF x.stage = "exit" THEN ExitSize ELSE 0
<1>1. Size(x) \in Nat \cup {ExitSize}
  BY ClientConstants DEF Size
<1>2. ASSUME Calls(x) = 2 PROVE Size(x) # 0 /\ Size(x) # ExitSize
  <2>1. x.stage \in {"open", "trainMeta", "putMeta", "train", "commit", "sync"}
    BY <1>2, CallsIs
  <2>2. Size(x) = NF \/ Size(x) = 1
    BY <2>1 DEF Size
  <2> QED BY <2>2, ClientConstants DEF ExitSize
<1>3. ASSUME Calls(x) = 1 PROVE Size(x) = IF x.stage = "exit" THEN ExitSize ELSE 0
  <2>1. x.stage \in {"close", "lastClose", "exit"}
    BY <1>3, CallsIs
  <2> QED BY <2>1 DEF Size
<1> QED BY <1>1, <1>2, <1>3

\* What is pending for a channel that grows, and for one that does not.
LEMMA SpokenPending ==
  ASSUME IInv, NEW c \in Clients, Speaks(c), NEW g \in Groups, NEW l \in Nat, NEW k \in Nat,
         NEW m, Pending(c, g, l, m, k), NEW t, t = SaidTo(Local(c), found', g),
         \A j \in 1 .. t : m[l + j] = Said(Local(c), j)
  PROVE  Pending(c, g, l + t, m, k)'
<1> DEFINE s == Len(chan[c][g])
<1>1. t \in {0, 1, 2}
  BY CallsIs
<1>2. s \in Nat /\ s = l - k /\ \A j \in 1 .. s : Fits(c, chan[c][g][j], m[k + j])
  BY LenProperties DEF Pending, IInv, ClientTypeOK, MessagesTypeOK
<1>3. /\ Len(chan'[c][g]) = s + t
      /\ \A j \in 1 .. s : chan'[c][g][j] = chan[c][g][j]
      /\ \A j \in 1 .. t : Fits(c, chan'[c][g][s + j], Said(Local(c), j))
  BY DEF Speaks
<1>4. \A j \in 1 .. t : m[l + j] = Said(Local(c), j)
  OBVIOUS
<1> HIDE DEF s
<1>5. ASSUME NEW j \in 1 .. s + t PROVE Fits(c, chan'[c][g][j], m[k + j])
  <2>1. CASE j <= s
    BY <1>1, <1>2, <1>3, <2>1
  <2>2. CASE j > s
    <3> DEFINE i == j - s
    <3>1. i \in 1 .. t /\ s + i = j /\ l + i = k + j
      BY <1>1, <1>2, <2>2
    <3> HIDE DEF i
    <3>2. Fits(c, chan'[c][g][s + i], m[l + i])
      BY <1>3, <1>4, <3>1
    <3> QED BY <3>1, <3>2
  <2> QED BY <1>1, <1>2, <2>1, <2>2
<1>6. Len(chan'[c][g]) = (l + t) - k /\ \A j \in 1 .. Len(chan'[c][g]) : Fits(c, chan'[c][g][j], m[k + j])
  BY <1>1, <1>2, <1>3, <1>5
<1> QED BY <1>6 DEF Pending, Fits

LEMMA PendingSame ==
  ASSUME NEW c, NEW g, NEW l \in Nat, NEW k \in Nat, NEW m, NEW mm,
         \A j \in 1 .. l : mm[j] = m[j], Pending(c, g, l, m, k)
  PROVE  Pending(c, g, l, mm, k)
<1>1. ASSUME NEW j \in 1 .. Len(chan[c][g]) PROVE Fits(c, chan[c][g][j], mm[k + j])
  <2>1. k + j \in 1 .. l
    BY DEF Pending
  <2> QED BY <2>1 DEF Pending
<1> QED BY <1>1 DEF Pending

LEMMA SilentPending ==
  ASSUME NEW c, NEW d \in Clients, d # c, Speaks(c), NEW g \in Groups, NEW l, NEW m, NEW k,
         Pending(d, g, l, m, k)
  PROVE  Pending(d, g, l, m, k)'
BY DEF Pending, Speaks, Fits

\* A client that is not the furthest moves along the script.
LEMMA FollowsMatched ==
  ASSUME IInv, IInv', Within, NEW n \in Nat \ {0}, NEW tr, NEW at, NEW ms, NEW got,
         Joint(tr, n, at, ms, got), NEW c \in Clients, ClientStep(c),
         UNCHANGED <<phase, callReady>>,
         NEW i \in 1 .. n, tr[i] = Local(c), i < n,
         \A g \in Groups : Pending(c, g, at[i][g], ms[g], got[g][ServerOf[c]])
  PROVE  Joint(tr, n, at, ms, got)'
<1>1. Moved(c) /\ Speaks(c) /\ idle' \subseteq idle
  BY ClientStepMoves, ClientStepSays, ClientsIdle DEF Says
<1>2. /\ Ready(Local(c), plan', found')
      /\ Local(c)' = After(Local(c), plan', found')
      /\ \A d \in Clients : d # c => Local(d)' = Local(d)
      /\ Extends(plan', plan) /\ Extends(found', found)
  BY <1>1 DEF Moved
<1>3. Passed(tr, n)' /\ Scripted(tr, n, at, ms)'
  BY <1>2, PassedStays, ScriptedStays DEF Joint
<1>4. i \in 1 .. n - 1 /\ i + 1 \in 1 .. n
  OBVIOUS
<1>5. tr[i + 1] = Local(c)'
  BY <1>2, <1>3, <1>4 DEF Passed
<1>6. ASSUME NEW g \in Groups
      PROVE  Pending(c, g, at[i + 1][g], ms[g], got[g][ServerOf[c]])'
  <2>1. PICK t : t = SaidTo(Local(c), found', g)
    OBVIOUS
  <2>2. /\ at[i + 1][g] = at[i][g] + t
        /\ \A j \in 1 .. t : ms[g][at[i][g] + j] = Said(Local(c), j)
    BY <1>3, <1>4, <2>1 DEF Scripted
  <2>3. at[i][g] \in Nat /\ got[g][ServerOf[c]] \in Nat
    BY RanksOf DEF Joint, Scripted, Completed
  <2> QED BY <1>1, <2>1, <2>2, <2>3, SpokenPending
<1>7. Heard(tr, n, at, ms, got)'
  <2>1. ASSUME NEW d \in Clients
        PROVE  \E j \in 1 .. n :
                 /\ tr[j] = Local(d)'
                 /\ \A g \in Groups : Pending(d, g, at[j][g], ms[g], got[g][ServerOf[d]])'
    <3>1. CASE d = c
      BY <1>4, <1>5, <1>6, <3>1
    <3>2. CASE d # c
      <4>1. PICK j \in 1 .. n :
              /\ tr[j] = Local(d)
              /\ \A g \in Groups : Pending(d, g, at[j][g], ms[g], got[g][ServerOf[d]])
        BY DEF Joint, Heard
      <4>2. \A g \in Groups : Pending(d, g, at[j][g], ms[g], got[g][ServerOf[d]])'
        BY <1>1, <3>2, <4>1, SilentPending
      <4> QED BY <1>2, <3>2, <4>1, <4>2
    <3> QED BY <3>1, <3>2
  <2> QED BY <2>1 DEF Heard
<1>8. Completed(n, at, ms, got)' /\ Announced(n, at, ms, got)'
  <2>1. Completed(n, at, ms, got)'
    BY DEF Joint, Completed
  <2>2. Announced(n, at, ms, got)'
    BY <1>1 DEF Joint, Announced
  <2> QED BY <2>1, <2>2
<1>9. Spelled(n, at, ms)' /\ InTurn(tr, n, at, ms)' /\ Reserved(tr, n, at, ms)'
  BY DEF Joint, Spelled, InTurn, Reserved
<1> QED BY <1>3, <1>7, <1>8, <1>9 DEF Joint

-----------------------------------------------------------------------------
(* The client furthest ahead adds to the script.                             *)

\* Scripts with a common beginning agree about it.
LEMMA SameScript ==
  ASSUME NEW m, NEW mm, NEW l \in Nat, \A k \in 1 .. l : mm[k] = m[k], NEW k \in 0 .. l
  PROVE  /\ Expects(mm, k) = Expects(m, k)
         /\ Closed(mm, k) <=> Closed(m, k)
         /\ InFile(mm, k) <=> InFile(m, k)
<1>1. k = 0 \/ mm[k] = m[k]
  OBVIOUS
<1> QED BY <1>1 DEF Expects, Closed, InFile

\* What a script expects after one more call.
LEMMA OneCall ==
  ASSUME NEW m, NEW l \in Nat, NEW x, Calls(x) = 1, m[l + 1] = Said(x, 1)
  PROVE  /\ m[l + 1].kind = "reduce" /\ m[l + 1].size \in Nat \cup {ExitSize}
         /\ Expects(m, l + 1) = IF x.stage = "exit" THEN "nothing" ELSE "reduce"
<1>1. m[l + 1].kind = "reduce" /\ m[l + 1].size = Size(x)
  BY DEF Said, Call
<1> QED BY <1>1, SizeIs DEF Expects, ExitSize

LEMMA TwoCalls ==
  ASSUME NEW m, NEW l \in Nat, NEW x, Calls(x) = 2,
         \A j \in 1 .. 2 : m[l + j] = Said(x, j)
  PROVE  /\ m[l + 1].kind = "reduce" /\ m[l + 1].size \in Nat \cup {ExitSize}
         /\ m[l + 2].kind = "gather" /\ m[l + 2].size \in Nat \cup {ExitSize}
         /\ Expects(m, l + 1) = "gather" /\ ~Closed(m, l + 1)
         /\ Expects(m, l + 2) = "reduce" /\ InFile(m, l + 2)
<1>1. m[l + 1].kind = "reduce" /\ m[l + 1].size = Size(x)
  BY DEF Said, Call
<1>2. m[l + 2].kind = "gather" /\ m[l + 2].size = Size(x)
  BY DEF Said, Call
<1> QED BY <1>1, <1>2, SizeIs DEF Expects, Closed, InFile

\* A group that is spoken to is ready to listen: it was found idle, after the
\* close of its last file, or serves a file that is open.
LEMMA Listening ==
  ASSUME IInv, Within, NEW n \in Nat \ {0}, NEW tr, NEW at, NEW ms, NEW got,
         Joint(tr, n, at, ms, got), NEW c \in Clients, Says(c), tr[n] = Local(c),
         NEW g \in Groups, SaidTo(Local(c), found', g) # 0
  PROVE  /\ Expects(ms[g], at[n][g]) = "reduce"
         /\ Poll => \/ /\ Finds(Local(c)) /\ g \notin idle'
                       /\ Closed(ms[g], at[n][g])
                       /\ \A r \in Ranks : got[g][r] = at[n][g] /\ ~callReady[g][r]
                    \/ /\ ~Finds(Local(c)) /\ InFile(ms[g], at[n][g])
<1> DEFINE x == Local(c)
<1>1. g = To(x, found') /\ Calls(x) \in {1, 2}
  BY CallsIs
<1>2. x.stage = stage[c] /\ x.server = server[c] /\ x.exited = exited[c] /\ x.seen = seen[c]
  BY LocalIs
<1>3. ~Finds(x) /\ Poll => InFile(ms[g], at[n][g])
  <2> SUFFICES ASSUME ~Finds(x), Poll PROVE InFile(ms[g], at[n][g])
    OBVIOUS
  <2>1. stage[c] # "open" /\ stage[c] # "exit"
    BY <1>2 DEF Finds
  <2>2. \E h \in Handles : server[c][h] = g
    <3>1. CASE Calls(x) = 1
      <4>1. stage[c] \in {"close", "lastClose"}
        BY <1>2, <2>1, <3>1, CallsIs
      <4> QED BY <1>1, <2>1, <4>1 DEF Says, Locks
    <3>2. CASE Calls(x) = 2
      <4>1. stage[c] \notin {"close", "lastClose"}
        BY <1>2, <3>2, CallsIs
      <4> QED BY <1>1, <2>1, <3>2, <4>1 DEF Says, Locks
    <3> QED BY <1>1, <3>1, <3>2
  <2>3. PICK h \in Handles : tr[n].server[h] = g
    BY <1>2, <2>2
  <2>4. n \in 1 .. n
    OBVIOUS
  <2> QED BY <2>3, <2>4 DEF Joint, Reserved
<1>4. Finds(x) => /\ g \in idle /\ g \notin idle' /\ Poll
  <2> SUFFICES ASSUME Finds(x) PROVE g \in idle /\ g \notin idle' /\ Poll
    OBVIOUS
  <2>1. c = Monitor
    <3> SUFFICES ASSUME c # Monitor PROVE FALSE
      OBVIOUS
    <3>1. seen[c] < Len(found) /\ Monitor \in Clients
      BY ClientConstants DEF Says, Searches, Monitor, Clients
    <3>2. PICK i \in 1 .. n : tr[i] = Local(Monitor)
      BY <3>1 DEF Joint, Heard
    <3>3. tr[i].seen <= tr[n].seen
      BY <3>2 DEF Joint, Scripted
    <3>4. seen[Monitor] <= seen[c] /\ seen[Monitor] = Len(found)
      BY <1>2, <3>2, <3>3, LocalIs DEF Within
    <3>5. seen[c] \in Nat /\ Len(found) \in Nat
      BY <3>1, LenProperties DEF IInv, ClientTypeOK, MessagesTypeOK
    <3> QED BY <3>1, <3>4, <3>5
  <2>2. g \in idle /\ idle' = idle \ {g}
    BY <1>1, <2>1 DEF Says, Searches
  <2> QED BY <2>2 DEF Finds
<1>5. Finds(x) => /\ Closed(ms[g], at[n][g])
                  /\ \A r \in Ranks : got[g][r] = at[n][g] /\ ~callReady[g][r]
  BY <1>4, RanksOf DEF Joint, Announced
<1>6. Poll => Expects(ms[g], at[n][g]) = "reduce"
  BY <1>3, <1>5 DEF Closed, InFile, Expects
<1>7. ~Poll => Expects(ms[g], at[n][g]) = "reduce"
  <2> SUFFICES ASSUME ~Poll, Expects(ms[g], at[n][g]) = "nothing" PROVE FALSE
    BY ExpectsIs DEF Joint, Spelled
  <2>1. stage[c] \in {"exit", "gone"} /\ g <= exited[c]
    BY <1>2 DEF Joint, InTurn
  <2>2. stage[c] = "exit"
    BY <1>1, <1>2, <2>1, CallsIs
  <2>3. g = exited[c] + 1
    BY <1>1, <1>2, <2>2 DEF To
  <2>4. exited[c] \in Nat
    BY ClientConstants DEF IInv, ClientTypeOK, MediationTypeOK
  <2> QED BY <2>1, <2>3, <2>4
<1> QED BY <1>3, <1>4, <1>5, <1>6, <1>7

LEMMA SeenGrows ==
  ASSUME NEW x, NEW p, NEW f, x.stage \in Stages, x.stage # "gone", x.seen \in Nat
  PROVE  x.seen <= After(x, p, f).seen
<1>1. Seen(x) = x.seen \/ Seen(x) = x.seen + 1
  BY DEF Seen
<1>2. CASE x.stage = "idle"
  BY <1>2 DEF After, AfterIdle, State
<1>3. CASE x.stage = "open"
  BY <1>1, <1>3 DEF After, AfterOpen, State
<1>4. CASE x.stage \in {"trainMeta", "putMeta"}
  BY <1>4 DEF After, AfterMeta, State
<1>5. CASE x.stage = "train"
  BY <1>5 DEF After, AfterTrain, State
<1>6. CASE x.stage = "write"
  BY <1>6 DEF After, AfterPack, State
<1>7. CASE x.stage = "commit"
  BY <1>7 DEF After, AfterCommit, State
<1>8. CASE x.stage = "sync"
  BY <1>8 DEF After, AfterSync, State
<1>9. CASE x.stage \in {"close", "lastClose"}
  BY <1>9 DEF After, AfterClose, State
<1>10. CASE x.stage = "shutdown"
  BY <1>10 DEF After, AfterShutdown, State
<1>11. CASE x.stage = "exit"
  BY <1>1, <1>11 DEF After, AfterExit, State
<1> QED BY <1>2, <1>3, <1>4, <1>5, <1>6, <1>7, <1>8, <1>9, <1>10, <1>11 DEF Stages

LEMMA ExitsNext ==
  ASSUME NEW x, NEW p, NEW f, x.stage = "exit"
  PROVE  After(x, p, f).stage \in {"exit", "gone"} /\ After(x, p, f).exited = x.exited + 1
BY DEF After, AfterExit, State

\* tr, at and ms with one more state y, after what x has to say with groups f.
Longer(ts, bt, mz, tr, n, at, ms, x, f, y) ==
  /\ ts[n + 1] = y /\ \A i \in 1 .. n : ts[i] = tr[i]
  /\ \A i \in 1 .. n, g \in Groups : bt[i][g] = at[i][g]
  /\ \A g \in Groups :
       /\ bt[n + 1][g] = at[n][g] + SaidTo(x, f, g)
       /\ \A k \in 1 .. at[n][g] : mz[g][k] = ms[g][k]
       /\ \A j \in 1 .. SaidTo(x, f, g) : mz[g][at[n][g] + j] = Said(x, j)
\* What this means for one group.
Grown(m, mm, l, t, x) ==
  /\ l \in Nat /\ t \in {0, 1, 2}
  /\ \A k \in 1 .. l : mm[k] = m[k]
  /\ \A k \in 0 .. l : /\ Expects(mm, k) = Expects(m, k)
                       /\ Closed(mm, k) <=> Closed(m, k)
                       /\ InFile(mm, k) <=> InFile(m, k)
  /\ t = 1 =>
       /\ x.stage \in {"close", "lastClose", "exit"}
       /\ mm[l + 1].kind = "reduce" /\ mm[l + 1].size \in Nat \cup {ExitSize}
       /\ Expects(mm, l + 1) = IF x.stage = "exit" THEN "nothing" ELSE "reduce"
  /\ t = 2 =>
       /\ x.stage \in {"open", "trainMeta", "putMeta", "train", "commit", "sync"}
       /\ mm[l + 1].kind = "reduce" /\ mm[l + 1].size \in Nat \cup {ExitSize}
       /\ mm[l + 2].kind = "gather" /\ mm[l + 2].size \in Nat \cup {ExitSize}
       /\ Expects(mm, l + 1) = "gather" /\ ~Closed(mm, l + 1)
       /\ Expects(mm, l + 2) = "reduce" /\ InFile(mm, l + 2)

LEMMA LongerExists ==
  ASSUME NEW tr, NEW n \in Nat \ {0}, NEW at, NEW ms, NEW x, NEW f, NEW y,
         \A g \in Groups : at[n][g] \in Nat
  PROVE  \E ts, bt, mz : Longer(ts, bt, mz, tr, n, at, ms, x, f, y)
<1>1. PICK ts : ts[n + 1] = y /\ \A i \in 1 .. n : ts[i] = tr[i]
  <2> WITNESS [i \in 1 .. n + 1 |-> IF i = n + 1 THEN y ELSE tr[i]]
  <2> QED OBVIOUS
<1>2. PICK bt : /\ \A i \in 1 .. n, g \in Groups : bt[i][g] = at[i][g]
                /\ \A g \in Groups : bt[n + 1][g] = at[n][g] + SaidTo(x, f, g)
  <2> WITNESS [i \in 1 .. n + 1 |-> [g \in Groups |->
                 IF i = n + 1 THEN at[n][g] + SaidTo(x, f, g) ELSE at[i][g]]]
  <2> QED OBVIOUS
<1>3. PICK mz : \A g \in Groups :
                  /\ \A k \in 1 .. at[n][g] : mz[g][k] = ms[g][k]
                  /\ \A j \in 1 .. SaidTo(x, f, g) : mz[g][at[n][g] + j] = Said(x, j)
  <2> DEFINE m == [g \in Groups |-> [k \in Nat |->
                     IF k <= at[n][g] THEN ms[g][k] ELSE Said(x, k - at[n][g])]]
  <2>1. ASSUME NEW g \in Groups, NEW k \in 1 .. at[n][g] PROVE m[g][k] = ms[g][k]
    BY <2>1
  <2>2. ASSUME NEW g \in Groups, NEW j \in 1 .. SaidTo(x, f, g)
        PROVE  m[g][at[n][g] + j] = Said(x, j)
    <3>1. at[n][g] \in Nat /\ j \in Nat /\ j > 0
      BY CallsIs
    <3>2. at[n][g] + j \in Nat /\ ~(at[n][g] + j <= at[n][g]) /\ (at[n][g] + j) - at[n][g] = j
      BY <3>1
    <3> QED BY <3>2
  <2> HIDE DEF m
  <2> WITNESS m
  <2> QED BY <2>1, <2>2
<1>4. Longer(ts, bt, mz, tr, n, at, ms, x, f, y)
  BY <1>1, <1>2, <1>3 DEF Longer
<1> QED BY <1>4

LEMMA LongerGrows ==
  ASSUME NEW n \in Nat \ {0}, NEW tr, NEW at, NEW ms, NEW x, NEW f, NEW y,
         NEW ts, NEW bt, NEW mz, Longer(ts, bt, mz, tr, n, at, ms, x, f, y),
         NEW g \in Groups, at[n][g] \in Nat
  PROVE  Grown(ms[g], mz[g], at[n][g], SaidTo(x, f, g), x)
<1>1. PICK l, t : l = at[n][g] /\ t = SaidTo(x, f, g)
  OBVIOUS
<1>2. l \in Nat /\ t \in {0, 1, 2} /\ (t # 0 => t = Calls(x))
  BY <1>1, CallsIs
<1>3. /\ \A k \in 1 .. l : mz[g][k] = ms[g][k]
      /\ \A j \in 1 .. t : mz[g][l + j] = Said(x, j)
  BY <1>1 DEF Longer
<1>4. \A k \in 0 .. l : /\ Expects(mz[g], k) = Expects(ms[g], k)
                        /\ Closed(mz[g], k) <=> Closed(ms[g], k)
                        /\ InFile(mz[g], k) <=> InFile(ms[g], k)
  BY <1>2, <1>3, SameScript
<1>5. ASSUME t = 1
      PROVE  /\ x.stage \in {"close", "lastClose", "exit"}
             /\ mz[g][l + 1].kind = "reduce" /\ mz[g][l + 1].size \in Nat \cup {ExitSize}
             /\ Expects(mz[g], l + 1) = IF x.stage = "exit" THEN "nothing" ELSE "reduce"
  <2>1. Calls(x) = 1 /\ mz[g][l + 1] = Said(x, 1)
    BY <1>2, <1>3, <1>5
  <2> QED BY <1>2, <2>1, CallsIs, OneCall
<1>6. ASSUME t = 2
      PROVE  /\ x.stage \in {"open", "trainMeta", "putMeta", "train", "commit", "sync"}
             /\ mz[g][l + 1].kind = "reduce" /\ mz[g][l + 1].size \in Nat \cup {ExitSize}
             /\ mz[g][l + 2].kind = "gather" /\ mz[g][l + 2].size \in Nat \cup {ExitSize}
             /\ Expects(mz[g], l + 1) = "gather" /\ ~Closed(mz[g], l + 1)
             /\ Expects(mz[g], l + 2) = "reduce" /\ InFile(mz[g], l + 2)
  <2>1. Calls(x) = 2 /\ \A j \in 1 .. 2 : mz[g][l + j] = Said(x, j)
    BY <1>2, <1>3, <1>6
  <2> QED BY <1>2, <2>1, CallsIs, TwoCalls
<1>7. Grown(ms[g], mz[g], l, t, x)
  BY <1>2, <1>3, <1>4, <1>5, <1>6 DEF Grown
<1> QED BY <1>1, <1>7

\* What is assumed of the step of the client furthest ahead.
FrontStep(tr, n, at, ms, got, c, x, f, y, ts, bt, mz) ==
  /\ Joint(tr, n, at, ms, got) /\ Says(c)
  /\ x = Local(c) /\ tr[n] = x /\ f = found'
  /\ Ready(x, plan', f) /\ y = Local(c)' /\ y = After(x, plan', f) /\ Before(x, y)
  /\ Good(y, plan', f)
  /\ \A d \in Clients : d # c => Local(d)' = Local(d)
  /\ Passed(tr, n)' /\ Scripted(tr, n, at, ms)'
  /\ idle' \subseteq idle /\ UNCHANGED <<phase, callReady>>
  /\ Longer(ts, bt, mz, tr, n, at, ms, x, f, y)

\* What is said to group g, the t collectives after the first l, finds it listening.
Heeded(g, l, t, m, mm, got, x, f) ==
  /\ l \in Nat /\ t \in {0, 1, 2} /\ t = SaidTo(x, f, g) /\ Grown(m, mm, l, t, x)
  /\ t # 0 =>
       /\ Expects(m, l) = "reduce" /\ g = To(x, f) /\ t = Calls(x)
       /\ Poll => \/ /\ Finds(x) /\ g \notin idle' /\ Closed(m, l)
                     /\ \A r \in Ranks : got[g][r] = l /\ ~callReady[g][r]
                  \/ ~Finds(x) /\ InFile(m, l)

Heeds(g, t, n, at, ms, bt, mz, got, x, f) ==
  \E l \in Nat : /\ l = at[n][g] /\ bt[n + 1][g] = l + t
                 /\ Heeded(g, l, t, ms[g], mz[g], got, x, f)

LEMMA FrontIs ==
  ASSUME IInv, Within, NEW n \in Nat \ {0}, NEW tr, NEW at, NEW ms, NEW got,
         NEW c \in Clients, NEW x, NEW f, NEW y, NEW ts, NEW bt, NEW mz,
         FrontStep(tr, n, at, ms, got, c, x, f, y, ts, bt, mz)
  PROVE  \A g \in Groups : \E t \in {0, 1, 2} : Heeds(g, t, n, at, ms, bt, mz, got, x, f)
<1> SUFFICES ASSUME NEW g \in Groups
             PROVE  \E t \in {0, 1, 2} : Heeds(g, t, n, at, ms, bt, mz, got, x, f)
  OBVIOUS
<1>1. at[n][g] \in Nat
  <2>1. n \in 1 .. n
    OBVIOUS
  <2> QED BY <2>1 DEF FrontStep, Joint, Scripted
<1>2. PICK t \in {0, 1, 2} : t = SaidTo(x, f, g) /\ (t # 0 => g = To(x, f) /\ t = Calls(x))
  BY CallsIs
<1>3. Longer(ts, bt, mz, tr, n, at, ms, x, f, y)
  BY DEF FrontStep
<1>4. Grown(ms[g], mz[g], at[n][g], t, x)
  BY <1>1, <1>2, <1>3, LongerGrows
<1>5. bt[n + 1][g] = at[n][g] + t
  BY <1>2, <1>3 DEF Longer
<1>6. ASSUME t # 0
      PROVE  /\ Expects(ms[g], at[n][g]) = "reduce"
             /\ Poll => \/ /\ Finds(x) /\ g \notin idle' /\ Closed(ms[g], at[n][g])
                           /\ \A r \in Ranks : got[g][r] = at[n][g] /\ ~callReady[g][r]
                        \/ ~Finds(x) /\ InFile(ms[g], at[n][g])
  <2>1. SaidTo(Local(c), found', g) # 0 /\ x = Local(c)
    BY <1>2, <1>6 DEF FrontStep
  <2> QED BY <2>1, Listening DEF FrontStep
<1>7. Heeded(g, at[n][g], t, ms[g], mz[g], got, x, f)
  BY <1>1, <1>2, <1>4, <1>6 DEF Heeded
<1>8. Heeds(g, t, n, at, ms, bt, mz, got, x, f)
  BY <1>1, <1>5, <1>7 DEF Heeds
<1> QED BY <1>8

LEMMA FrontPassed ==
  ASSUME NEW n \in Nat \ {0}, NEW tr, NEW at, NEW ms, NEW got,
         NEW c \in Clients, NEW x, NEW f, NEW y, NEW ts, NEW bt, NEW mz, NEW m, m = n + 1,
         FrontStep(tr, n, at, ms, got, c, x, f, y, ts, bt, mz)
  PROVE  Passed(ts, m)'
<1>1. /\ ts[m] = y /\ ts[n] = tr[n] /\ m \in 1 .. m /\ n \in 1 .. n
      /\ \A j \in 1 .. n : ts[j] = tr[j] /\ j \in 1 .. m
  BY DEF FrontStep, Longer
<1>2. \A j \in 1 .. m : Good(ts[j], plan', found')
  BY <1>1 DEF Passed, FrontStep
<1>3. ASSUME NEW j \in 1 .. m - 1
      PROVE  Ready(ts[j], plan', found') /\ ts[j + 1] = After(ts[j], plan', found')
  <2>1. CASE j = n
    BY <1>1, <2>1 DEF FrontStep
  <2>2. CASE j # n
    <3>1. j \in 1 .. n - 1 /\ j \in 1 .. n /\ j + 1 \in 1 .. n
      BY <2>2
    <3>2. Ready(tr[j], plan', found') /\ tr[j + 1] = After(tr[j], plan', found')
      BY <3>1 DEF Passed, FrontStep
    <3> QED BY <1>1, <3>1, <3>2
  <2> QED BY <2>1, <2>2
<1>4. ASSUME NEW j \in 1 .. m, NEW k \in 1 .. m, j < k PROVE Before(ts[j], ts[k])
  <2>1. CASE k # m
    <3>1. j \in 1 .. n /\ k \in 1 .. n
      BY <1>4, <2>1
    <3> QED BY <1>1, <1>4, <3>1 DEF Passed, FrontStep
  <2>2. CASE k = m
    <3>1. j \in 1 .. n
      BY <1>4, <2>2
    <3>2. Before(tr[n], y)
      BY DEF FrontStep
    <3>3. CASE j = n
      BY <1>1, <2>2, <3>2, <3>3
    <3>4. CASE j # n
      <4>1. Before(tr[j], tr[n])
        BY <1>1, <3>1, <3>4 DEF Passed, FrontStep
      <4>2. Good(tr[j], plan', found') /\ Good(tr[n], plan', found') /\ Good(y, plan', found')
        BY <1>1, <3>1 DEF Passed, FrontStep
      <4>3. Before(tr[j], y)
        BY <3>2, <4>1, <4>2, BeforeTransitive
      <4> QED BY <1>1, <2>2, <3>1, <4>3
    <3> QED BY <3>3, <3>4
  <2> QED BY <2>1, <2>2
<1> QED BY <1>2, <1>3, <1>4 DEF Passed

LEMMA FrontScripted ==
  ASSUME IInv, Within, NEW n \in Nat \ {0}, NEW tr, NEW at, NEW ms, NEW got,
         NEW c \in Clients, NEW x, NEW f, NEW y, NEW ts, NEW bt, NEW mz, NEW m, m = n + 1,
         FrontStep(tr, n, at, ms, got, c, x, f, y, ts, bt, mz)
  PROVE  Scripted(ts, m, bt, mz)'
<1>a. Longer(ts, bt, mz, tr, n, at, ms, x, f, y) /\ tr[n] = x
  BY DEF FrontStep
<1>b. m \in 1 .. m /\ n \in 1 .. n /\ n = m - 1
  OBVIOUS
<1>1. /\ ts[m] = y /\ ts[n] = x
      /\ \A j \in 1 .. n : ts[j] = tr[j]
      /\ \A j \in 1 .. n, g \in Groups : bt[j][g] = at[j][g]
  BY <1>a, <1>b DEF Longer
<1>2. ASSUME NEW i \in 1 .. m, NEW g \in Groups
      PROVE  bt[i][g] \in Nat /\ bt[i][g] <= bt[m][g]
  <2>a. PICK t \in {0, 1, 2} : Heeds(g, t, n, at, ms, bt, mz, got, x, f)
    BY FrontIs
  <2>1. PICK l \in Nat : l = at[n][g] /\ bt[m][g] = l + t
    BY <2>a DEF Heeds
  <2>2. CASE i = m
    <3>1. bt[i][g] = l + t /\ bt[m][g] = l + t
      BY <2>1, <2>2
    <3>2. l + t \in Nat /\ l + t <= l + t
      OBVIOUS
    <3> QED BY <3>1, <3>2
  <2>3. CASE i # m
    <3>a. i \in 1 .. n
      BY <2>3
    <3>1. i \in 1 .. n /\ bt[i][g] = at[i][g]
      BY <1>1, <3>a
    <3>2. at[i][g] \in Nat /\ at[i][g] <= l
      BY <2>1, <3>1 DEF FrontStep, Joint, Scripted
    <3> QED BY <2>1, <3>1, <3>2
  <2> QED BY <2>2, <2>3
<1>3. ASSUME NEW i \in 1 .. m - 1, NEW g \in Groups
      PROVE  /\ bt[i + 1][g] = bt[i][g] + SaidTo(ts[i], found', g)
             /\ \A j \in 1 .. SaidTo(ts[i], found', g) : mz[g][bt[i][g] + j] = Said(ts[i], j)
  <2>1. CASE i = n
    BY <1>1, <1>b, <2>1 DEF FrontStep, Longer
  <2>2. CASE i # n
    <3>1. i \in 1 .. n - 1 /\ i \in 1 .. n /\ i + 1 \in 1 .. n
      BY <2>2
    <3>2. /\ at[i + 1][g] = at[i][g] + SaidTo(tr[i], found', g)
          /\ \A j \in 1 .. SaidTo(tr[i], found', g) : ms[g][at[i][g] + j] = Said(tr[i], j)
      BY <3>1 DEF FrontStep, Scripted
    <3>3. at[i][g] \in Nat /\ at[i + 1][g] \in Nat /\ at[n][g] \in Nat /\ at[i + 1][g] <= at[n][g]
      BY <1>1, <1>b, <3>1 DEF FrontStep, Joint, Scripted
    <3>4. SaidTo(tr[i], found', g) \in {0, 1, 2}
      BY CallsIs
    <3>5. ASSUME NEW j \in 1 .. SaidTo(tr[i], found', g) PROVE mz[g][at[i][g] + j] = Said(tr[i], j)
      <4>1. at[i][g] + j \in 1 .. at[n][g]
        BY <3>2, <3>3, <3>4
      <4>2. mz[g][at[i][g] + j] = ms[g][at[i][g] + j]
        BY <4>1 DEF FrontStep, Longer
      <4> QED BY <3>2, <4>2
    <3> QED BY <1>1, <1>b, <3>1, <3>2, <3>5
  <2> QED BY <2>1, <2>2
<1>4. ASSUME NEW i \in 1 .. m PROVE ts[i].seen <= ts[m].seen
  <2>1. x.seen \in Nat /\ x.stage \in Stages /\ x.stage # "gone" /\ y.seen \in Nat
    BY <1>1, <1>b DEF FrontStep, Joint, Passed, Good, Ready
  <2>2. x.seen <= y.seen
    BY <2>1, SeenGrows DEF FrontStep
  <2>3. CASE i = m
    BY <1>1, <1>b, <2>1, <2>3
  <2>4. CASE i # m
    <3>1. i \in 1 .. n
      BY <2>4
    <3>2. tr[i].seen <= x.seen /\ tr[i].seen \in Nat
      BY <3>1 DEF FrontStep, Joint, Scripted, Passed, Good
    <3> QED BY <1>1, <1>b, <2>1, <2>2, <3>1, <3>2
  <2> QED BY <2>3, <2>4
<1> QED BY <1>2, <1>3, <1>4 DEF Scripted

LEMMA FrontSpelled ==
  ASSUME IInv, Within, NEW n \in Nat \ {0}, NEW tr, NEW at, NEW ms, NEW got,
         NEW c \in Clients, NEW x, NEW f, NEW y, NEW ts, NEW bt, NEW mz, NEW m, m = n + 1,
         FrontStep(tr, n, at, ms, got, c, x, f, y, ts, bt, mz)
  PROVE  Spelled(m, bt, mz)
<1> SUFFICES ASSUME NEW g \in Groups
             PROVE  /\ \A k \in 0 .. bt[m][g] - 1 :
                         /\ mz[g][k + 1].kind = Expects(mz[g], k)
                         /\ mz[g][k + 1].kind # "nothing"
                         /\ mz[g][k + 1].size \in Nat \cup {ExitSize}
                    /\ Expects(mz[g], bt[m][g]) # "gather"
  BY DEF Spelled
<1>1. PICK t \in {0, 1, 2} : Heeds(g, t, n, at, ms, bt, mz, got, x, f)
  BY FrontIs
<1>2. PICK l \in Nat : /\ l = at[n][g] /\ bt[m][g] = l + t
                       /\ Heeded(g, l, t, ms[g], mz[g], got, x, f)
  BY <1>1 DEF Heeds
<1>3. PICK w, v : w = ms[g] /\ v = mz[g]
  OBVIOUS
<1>4. Grown(w, v, l, t, x) /\ (t # 0 => Expects(w, l) = "reduce")
  BY <1>2, <1>3 DEF Heeded
<1>5. /\ \A k \in 0 .. l - 1 : /\ w[k + 1].kind = Expects(w, k) /\ w[k + 1].kind # "nothing"
                               /\ w[k + 1].size \in Nat \cup {ExitSize}
      /\ Expects(w, l) # "gather"
  BY <1>2, <1>3 DEF FrontStep, Joint, Spelled
<1>6. ASSUME NEW k \in 0 .. l + t - 1
      PROVE  /\ v[k + 1].kind = Expects(v, k) /\ v[k + 1].kind # "nothing"
             /\ v[k + 1].size \in Nat \cup {ExitSize}
  <2>1. CASE k < l
    <3>1. k \in 0 .. l - 1 /\ k + 1 \in 1 .. l /\ k \in 0 .. l
      BY <2>1
    <3>2. v[k + 1] = w[k + 1] /\ Expects(v, k) = Expects(w, k)
      BY <1>4, <3>1 DEF Grown
    <3> QED BY <1>5, <3>1, <3>2
  <2>2. CASE k = l
    <3>1. t \in {1, 2} /\ l \in 0 .. l
      BY <2>2
    <3>2. Expects(v, l) = "reduce"
      BY <1>4, <3>1 DEF Grown
    <3>3. v[l + 1].kind = "reduce" /\ v[l + 1].size \in Nat \cup {ExitSize}
      BY <1>4, <3>1 DEF Grown
    <3> QED BY <2>2, <3>2, <3>3
  <2>3. CASE k > l
    <3>1. t = 2 /\ k = l + 1 /\ k + 1 = l + 2
      BY <2>3
    <3>2. /\ Expects(v, l + 1) = "gather" /\ v[l + 2].kind = "gather"
          /\ v[l + 2].size \in Nat \cup {ExitSize}
      BY <1>4, <3>1 DEF Grown
    <3> QED BY <3>1, <3>2
  <2> QED BY <2>1, <2>2, <2>3
<1>7. Expects(v, l + t) # "gather"
  <2>1. CASE t = 0
    <3>1. l + t = l /\ l \in 0 .. l
      BY <2>1
    <3> QED BY <1>4, <1>5, <3>1 DEF Grown
  <2>2. CASE t = 1
    BY <1>4, <2>2 DEF Grown
  <2>3. CASE t = 2
    BY <1>4, <2>3 DEF Grown
  <2> QED BY <2>1, <2>2, <2>3
<1> QED BY <1>2, <1>3, <1>6, <1>7

LEMMA FrontHeard ==
  ASSUME IInv, Within, NEW n \in Nat \ {0}, NEW tr, NEW at, NEW ms, NEW got,
         NEW c \in Clients, NEW x, NEW f, NEW y, NEW ts, NEW bt, NEW mz, NEW m, m = n + 1,
         FrontStep(tr, n, at, ms, got, c, x, f, y, ts, bt, mz),
         \A g \in Groups : Pending(c, g, at[n][g], ms[g], got[g][ServerOf[c]])
  PROVE  Heard(ts, m, bt, mz, got)'
<1>1. /\ Longer(ts, bt, mz, tr, n, at, ms, x, f, y) /\ Speaks(c)
      /\ x = Local(c) /\ f = found' /\ y = Local(c)'
      /\ \A d \in Clients : d # c => Local(d)' = Local(d)
  BY DEF FrontStep, Says
<1>2. n \in 1 .. n /\ m \in 1 .. m /\ \A j \in 1 .. n : j \in 1 .. m
  OBVIOUS
<1>3. ASSUME NEW g \in Groups, NEW d \in Clients, NEW j \in 1 .. n,
             Pending(d, g, at[j][g], ms[g], got[g][ServerOf[d]])
      PROVE  /\ at[j][g] \in Nat /\ got[g][ServerOf[d]] \in Nat
             /\ Pending(d, g, at[j][g], mz[g], got[g][ServerOf[d]])
  <2>1. at[j][g] \in Nat /\ at[j][g] <= at[n][g] /\ at[n][g] \in Nat
    BY <1>2 DEF FrontStep, Joint, Scripted
  <2>2. got[g][ServerOf[d]] \in Nat
    BY RanksOf DEF FrontStep, Joint, Completed
  <2>3. \A k \in 1 .. at[j][g] : mz[g][k] = ms[g][k]
    BY <1>1, <2>1 DEF Longer
  <2> QED BY <1>3, <2>1, <2>2, <2>3, PendingSame
<1>4. ASSUME NEW g \in Groups
      PROVE  Pending(c, g, bt[m][g], mz[g], got[g][ServerOf[c]])'
  <2>1. /\ at[n][g] \in Nat /\ got[g][ServerOf[c]] \in Nat
        /\ Pending(c, g, at[n][g], mz[g], got[g][ServerOf[c]])
    BY <1>2, <1>3
  <2>2. PICK t : t = SaidTo(Local(c), found', g)
    OBVIOUS
  <2>3. /\ bt[m][g] = at[n][g] + t
        /\ \A j \in 1 .. t : mz[g][at[n][g] + j] = Said(Local(c), j)
    BY <1>1, <2>2 DEF Longer
  <2>4. Pending(c, g, at[n][g] + t, mz[g], got[g][ServerOf[c]])'
    BY <1>1, <2>1, <2>2, <2>3, SpokenPending
  <2> QED BY <2>3, <2>4
<1>5. ASSUME NEW d \in Clients
      PROVE  \E j \in 1 .. m :
               /\ ts[j] = Local(d)'
               /\ \A g \in Groups : Pending(d, g, bt[j][g], mz[g], got[g][ServerOf[d]])'
  <2>1. CASE d = c
    <3>1. ts[m] = Local(c)'
      BY <1>1 DEF Longer
    <3> QED BY <1>2, <1>4, <2>1, <3>1
  <2>2. CASE d # c
    <3>1. PICK j \in 1 .. n :
            /\ tr[j] = Local(d)
            /\ \A g \in Groups : Pending(d, g, at[j][g], ms[g], got[g][ServerOf[d]])
      BY DEF FrontStep, Joint, Heard
    <3>2. ts[j] = Local(d)' /\ \A g \in Groups : bt[j][g] = at[j][g]
      BY <1>1, <2>2, <3>1 DEF Longer
    <3>3. ASSUME NEW g \in Groups
          PROVE  Pending(d, g, bt[j][g], mz[g], got[g][ServerOf[d]])'
      <4>1. Pending(d, g, at[j][g], mz[g], got[g][ServerOf[d]])
        BY <1>3, <3>1
      <4>2. Pending(d, g, at[j][g], mz[g], got[g][ServerOf[d]])'
        BY <1>1, <2>2, <4>1, SilentPending
      <4> QED BY <3>2, <4>2
    <3> QED BY <1>2, <3>2, <3>3
  <2> QED BY <2>1, <2>2
<1> QED BY <1>5 DEF Heard

LEMMA FrontCompleted ==
  ASSUME IInv, Within, NEW n \in Nat \ {0}, NEW tr, NEW at, NEW ms, NEW got,
         NEW c \in Clients, NEW x, NEW f, NEW y, NEW ts, NEW bt, NEW mz, NEW m, m = n + 1,
         FrontStep(tr, n, at, ms, got, c, x, f, y, ts, bt, mz)
  PROVE  Completed(m, bt, mz, got)'
<1>1. UNCHANGED phase
  BY DEF FrontStep
<1>2. ASSUME NEW g \in Groups, NEW r \in Ranks
      PROVE  /\ got[g][r] \in Nat /\ got[g][r] <= bt[m][g]
             /\ phase[g][r] = "gather" <=> Expects(mz[g], got[g][r]) = "gather"
             /\ phase[g][r] = "exited" <=> Expects(mz[g], got[g][r]) = "nothing"
  <2>1. PICK t \in {0, 1, 2} : Heeds(g, t, n, at, ms, bt, mz, got, x, f)
    BY FrontIs
  <2>2. PICK l \in Nat : /\ l = at[n][g] /\ bt[m][g] = l + t
                         /\ Grown(ms[g], mz[g], l, t, x)
    BY <2>1 DEF Heeds, Heeded
  <2>3. PICK k : k = got[g][r]
    OBVIOUS
  <2>4. /\ k \in Nat /\ k <= l
        /\ phase[g][r] = "gather" <=> Expects(ms[g], k) = "gather"
        /\ phase[g][r] = "exited" <=> Expects(ms[g], k) = "nothing"
    BY <2>2, <2>3 DEF FrontStep, Joint, Completed
  <2>5. k \in 0 .. l
    BY <2>4
  <2>6. Expects(mz[g], k) = Expects(ms[g], k)
    BY <2>2, <2>5 DEF Grown
  <2>7. k <= l + t
    BY <2>4
  <2> QED BY <2>2, <2>3, <2>4, <2>6, <2>7
<1> QED BY <1>1, <1>2 DEF Completed

LEMMA FrontInTurn ==
  ASSUME IInv, Within, NEW n \in Nat \ {0}, NEW tr, NEW at, NEW ms, NEW got,
         NEW c \in Clients, NEW x, NEW f, NEW y, NEW ts, NEW bt, NEW mz, NEW m, m = n + 1,
         FrontStep(tr, n, at, ms, got, c, x, f, y, ts, bt, mz)
  PROVE  InTurn(ts, m, bt, mz)
<1> SUFFICES ASSUME ~Poll, NEW g \in Groups, Expects(mz[g], bt[m][g]) = "nothing"
             PROVE  ts[m].stage \in {"exit", "gone"} /\ g <= ts[m].exited
  BY DEF InTurn
<1>1. PICK t \in {0, 1, 2} : Heeds(g, t, n, at, ms, bt, mz, got, x, f)
  BY FrontIs
<1>2. PICK l \in Nat : /\ l = at[n][g] /\ bt[m][g] = l + t
                       /\ Heeded(g, l, t, ms[g], mz[g], got, x, f)
  BY <1>1 DEF Heeds
<1>3. Grown(ms[g], mz[g], l, t, x) /\ (t # 0 => g = To(x, f))
  BY <1>2 DEF Heeded
<1>4. ts[m] = y /\ tr[n] = x /\ y = After(x, plan', f) /\ x.stage # "gone"
  BY DEF FrontStep, Longer, Ready
<1>5. Expects(mz[g], l + t) = "nothing"
  BY <1>2
<1>6. x.exited \in Nat
  <2>1. n \in 1 .. n
    OBVIOUS
  <2> QED BY <1>4, <2>1 DEF FrontStep, Joint, Passed, Good
<1>7. x.stage = "exit" /\ g <= x.exited + 1
  <2>1. CASE t = 0
    <3>1. l + t = l /\ l \in 0 .. l
      BY <2>1
    <3>2. Expects(ms[g], l) = "nothing"
      BY <1>3, <1>5, <3>1 DEF Grown
    <3>3. Expects(ms[g], at[n][g]) = "nothing"
      BY <1>2, <3>2
    <3>4. x.stage \in {"exit", "gone"} /\ g <= x.exited
      BY <1>4, <3>3 DEF FrontStep, Joint, InTurn
    <3> QED BY <1>4, <1>6, <3>4 DEF Groups
  <2>2. CASE t = 1
    <3>1. x.stage = "exit"
      BY <1>3, <1>5, <2>2 DEF Grown
    <3>2. g = x.exited + 1
      BY <1>3, <2>2, <3>1 DEF To
    <3> QED BY <1>6, <3>1, <3>2
  <2>3. CASE t = 2
    BY <1>3, <1>5, <2>3 DEF Grown
  <2> QED BY <2>1, <2>2, <2>3
<1> QED BY <1>4, <1>7, ExitsNext

LEMMA FrontAnnounced ==
  ASSUME IInv, Within, NEW n \in Nat \ {0}, NEW tr, NEW at, NEW ms, NEW got,
         NEW c \in Clients, NEW x, NEW f, NEW y, NEW ts, NEW bt, NEW mz, NEW m, m = n + 1,
         FrontStep(tr, n, at, ms, got, c, x, f, y, ts, bt, mz)
  PROVE  Announced(m, bt, mz, got)'
<1> SUFFICES ASSUME Poll
             PROVE  /\ \A g \in Groups, r \in Ranks : callReady'[g][r] =>
                         got[g][r] = bt[m][g] /\ Closed(mz[g], bt[m][g])
                    /\ \A g \in idle', r \in Ranks :
                         ~callReady'[g][r] /\ got[g][r] = bt[m][g] /\ Closed(mz[g], bt[m][g])
                    /\ \A g \in Groups, r \in Ranks : \A k \in 1 .. bt[m][g] - 1 :
                         Closed(mz[g], k) => k <= got[g][r]
  BY DEF Announced
<1>1. UNCHANGED callReady /\ idle' \subseteq idle /\ idle \subseteq Groups
  BY DEF FrontStep, IInv, ClientTypeOK, MessagesTypeOK
<1>2. ASSUME NEW g \in Groups, NEW r \in Ranks
      PROVE  /\ callReady[g][r] => got[g][r] = bt[m][g] /\ Closed(mz[g], bt[m][g])
             /\ g \in idle' =>
                  ~callReady[g][r] /\ got[g][r] = bt[m][g] /\ Closed(mz[g], bt[m][g])
             /\ \A k \in 1 .. bt[m][g] - 1 : Closed(mz[g], k) => k <= got[g][r]
  <2>1. PICK t \in {0, 1, 2} : Heeds(g, t, n, at, ms, bt, mz, got, x, f)
    BY FrontIs
  <2>2. PICK l \in Nat : /\ l = at[n][g] /\ bt[m][g] = l + t
                         /\ Heeded(g, l, t, ms[g], mz[g], got, x, f)
    BY <2>1 DEF Heeds
  <2>3. PICK w, v, k : w = ms[g] /\ v = mz[g] /\ k = got[g][r]
    OBVIOUS
  <2>4. /\ callReady[g][r] => k = l /\ Closed(w, l)
        /\ g \in idle => ~callReady[g][r] /\ k = l /\ Closed(w, l)
        /\ \A i \in 1 .. l - 1 : Closed(w, i) => i <= k
    BY <2>2, <2>3 DEF FrontStep, Joint, Announced
  <2>5. /\ Grown(w, v, l, t, x)
        /\ t # 0 => \/ g \notin idle' /\ k = l /\ ~callReady[g][r]
                    \/ InFile(w, l)
    BY <2>2, <2>3 DEF Heeded
  <2>6. Closed(w, l) => ~InFile(w, l)
    BY DEF Closed, InFile
  <2>7. l \in 0 .. l /\ (t = 0 => l + t = l)
    OBVIOUS
  <2>8. Closed(v, l) <=> Closed(w, l)
    BY <2>5, <2>7 DEF Grown
  <2>9. callReady[g][r] \/ g \in idle' => t = 0
    BY <1>1, <2>4, <2>5, <2>6
  <2>10. /\ callReady[g][r] => k = l + t /\ Closed(v, l + t)
         /\ g \in idle' => ~callReady[g][r] /\ k = l + t /\ Closed(v, l + t)
    BY <1>1, <2>4, <2>7, <2>8, <2>9
  <2>11. ASSUME NEW i \in 1 .. l + t - 1, Closed(v, i) PROVE i <= k
    <3>1. k \in Nat
      BY <2>3 DEF FrontStep, Joint, Completed
    <3>2. CASE i < l
      <4>1. i \in 0 .. l /\ i \in 1 .. l - 1
        BY <3>2
      <4>2. Closed(w, i)
        BY <2>5, <2>11, <4>1 DEF Grown
      <4> QED BY <2>4, <4>1, <4>2
    <3>3. CASE i = l
      <4>1. t # 0 /\ ~InFile(w, l)
        BY <2>6, <2>8, <2>11, <3>3
      <4> QED BY <2>5, <3>1, <3>3, <4>1
    <3>4. CASE i > l
      <4>1. t = 2 /\ i = l + 1
        BY <3>4
      <4> QED BY <2>5, <2>11, <4>1 DEF Grown
    <3> QED BY <3>2, <3>3, <3>4
  <2> QED BY <2>2, <2>3, <2>10, <2>11
<1> QED BY <1>1, <1>2

\* A group that serves a file is in the file still, or hears of its close.
LEMMA FrontInFile ==
  ASSUME IInv, Within, NEW n \in Nat \ {0}, NEW tr, NEW at, NEW ms, NEW got,
         NEW c \in Clients, NEW x, NEW f, NEW y, NEW ts, NEW bt, NEW mz, NEW m, m = n + 1,
         FrontStep(tr, n, at, ms, got, c, x, f, y, ts, bt, mz), Poll, NEW g \in Groups
  PROVE  /\ SaidTo(x, f, g) = 2 => InFile(mz[g], bt[m][g])
         /\ \A k \in Handles : x.server[k] = g =>
              /\ SaidTo(x, f, g) # 0 => ~Finds(x)
              /\ SaidTo(x, f, g) = 0 => InFile(mz[g], bt[m][g])
<1>1. PICK t \in {0, 1, 2} : Heeds(g, t, n, at, ms, bt, mz, got, x, f)
  BY FrontIs
<1>2. PICK l \in Nat : /\ l = at[n][g] /\ bt[m][g] = l + t
                       /\ Heeded(g, l, t, ms[g], mz[g], got, x, f)
  BY <1>1 DEF Heeds
<1>3. /\ Grown(ms[g], mz[g], l, t, x) /\ t = SaidTo(x, f, g)
      /\ t # 0 => \/ Closed(ms[g], l)
                  \/ ~Finds(x)
  BY <1>2 DEF Heeded
<1>4. t = 2 => InFile(mz[g], l + t)
  BY <1>3 DEF Grown
<1>5. ASSUME NEW k \in Handles, x.server[k] = g
      PROVE  /\ t # 0 => ~Finds(x)
             /\ t = 0 => InFile(mz[g], l + t)
  <2>1. InFile(ms[g], l)
    <3>1. n \in 1 .. n /\ tr[n] = x
      BY DEF FrontStep
    <3>2. InFile(ms[g], at[n][g])
      BY <1>5, <3>1 DEF FrontStep, Joint, Reserved
    <3> QED BY <1>2, <3>2
  <2>2. ~Closed(ms[g], l)
    BY <2>1 DEF Closed, InFile
  <2>3. t = 0 => InFile(mz[g], l + t)
    <3>1. l \in 0 .. l /\ l + 0 = l
      OBVIOUS
    <3>2. InFile(mz[g], l)
      BY <1>3, <2>1, <3>1 DEF Grown
    <3> QED BY <3>1, <3>2
  <2> QED BY <1>3, <2>2, <2>3
<1> QED BY <1>2, <1>3, <1>4, <1>5

LEMMA FrontReserved ==
  ASSUME IInv, Within, NEW n \in Nat \ {0}, NEW tr, NEW at, NEW ms, NEW got,
         NEW c \in Clients, NEW x, NEW f, NEW y, NEW ts, NEW bt, NEW mz, NEW m, m = n + 1,
         FrontStep(tr, n, at, ms, got, c, x, f, y, ts, bt, mz)
  PROVE  Reserved(ts, m, bt, mz)
<1> SUFFICES ASSUME Poll, NEW i \in 1 .. m, NEW h \in Handles, NEW g \in Groups,
                    ts[i].server[h] = g
             PROVE  /\ InFile(mz[g], bt[i][g])
                    /\ \A k \in Handles : ts[i].server[k] = g => k = h
  BY DEF Reserved
<1>1. /\ Longer(ts, bt, mz, tr, n, at, ms, x, f, y) /\ Locks(c)
      /\ x = Local(c) /\ tr[n] = x /\ f = found' /\ y = Local(c)'
  BY DEF FrontStep, Says
<1>2. n \in 1 .. n /\ ts[m] = y
  BY <1>1 DEF Longer
<1>3. CASE i # m
  <2>1. i \in 1 .. n
    BY <1>3
  <2>2. ts[i] = tr[i] /\ bt[i][g] = at[i][g]
    BY <1>1, <2>1 DEF Longer
  <2>3. InFile(ms[g], at[i][g]) /\ \A k \in Handles : tr[i].server[k] = g => k = h
    BY <2>1, <2>2 DEF FrontStep, Joint, Reserved
  <2>4. at[i][g] \in Nat /\ at[n][g] \in Nat /\ at[i][g] <= at[n][g]
    BY <1>2, <2>1 DEF FrontStep, Joint, Scripted
  <2>5. at[i][g] \in 0 .. at[n][g]
    BY <2>4
  <2>6. \A k \in 1 .. at[n][g] : mz[g][k] = ms[g][k]
    BY <1>1 DEF Longer
  <2>7. InFile(mz[g], at[i][g])
    BY <2>3, <2>4, <2>5, <2>6, SameScript
  <2> QED BY <2>2, <2>3, <2>7
<1>4. CASE i = m
  <2>1. x.server = server[c] /\ x.stage = stage[c] /\ y.server = server'[c]
    <3>1. Local(c)'.server = server'[c]
      BY StateIs DEF Local
    <3> QED BY <1>1, <3>1, LocalIs
  <2>2. server[c] \in [Handles -> 0 .. NG] /\ server'[c][h] = g
    BY <1>2, <1>4, <2>1 DEF IInv, ClientTypeOK, TablesTypeOK
  <2>3. ASSUME NEW a \in Groups, NEW k \in Handles, server[c][k] = a
        PROVE  /\ \A j \in Handles : server[c][j] = a => j = k
               /\ SaidTo(x, f, a) # 0 => ~Finds(x)
               /\ SaidTo(x, f, a) = 0 => InFile(mz[a], bt[m][a])
    <3>1. x.server[k] = a /\ tr[n].server[k] = a
      BY <1>1, <2>1, <2>3
    <3>2. \A j \in Handles : tr[n].server[j] = a => j = k
      BY <1>2, <3>1 DEF FrontStep, Joint, Reserved
    <3>3. \A j \in Handles : server[c][j] = a => j = k
      BY <1>1, <2>1, <3>2
    <3>4. /\ SaidTo(x, f, a) # 0 => ~Finds(x)
          /\ SaidTo(x, f, a) = 0 => InFile(mz[a], bt[m][a])
      BY <2>3, <3>1, FrontInFile
    <3> QED BY <3>3, <3>4
  <2>4. SaidTo(x, f, g) = 2 => InFile(mz[g], bt[m][g])
    BY FrontInFile
  <2>5. CASE stage[c] = "open"
    <3>1. PICK k \in Handles, a \in Groups :
            a = To(x, f) /\ server'[c] = [server[c] EXCEPT ![k] = a]
      BY <1>1, <2>5 DEF Locks
    <3>2. SaidTo(x, f, a) = 2 /\ Finds(x)
      BY <2>1, <2>5, <3>1, CallsIs DEF SaidTo, Finds
    <3>3. \A j \in Handles : server[c][j] # a
      BY <2>3, <3>2
    <3>4. \A j \in Handles : server'[c][j] = IF j = k THEN a ELSE server[c][j]
      BY <2>2, <3>1
    <3>5. CASE h = k
      <4>1. g = a
        BY <2>2, <3>4, <3>5
      <4>2. \A j \in Handles : server'[c][j] = g => j = h
        BY <3>3, <3>4, <3>5, <4>1
      <4> QED BY <1>2, <1>4, <2>1, <2>4, <3>2, <4>1, <4>2
    <3>6. CASE h # k
      <4>1. server[c][h] = g /\ g # a
        BY <2>2, <3>3, <3>4, <3>6
      <4>2. SaidTo(x, f, g) = 0
        BY <3>1, <4>1 DEF SaidTo
      <4>3. InFile(mz[g], bt[m][g]) /\ \A j \in Handles : server[c][j] = g => j = h
        BY <2>3, <4>1, <4>2
      <4>4. \A j \in Handles : server'[c][j] = g => j = h
        BY <3>4, <4>1, <4>3
      <4> QED BY <1>2, <1>4, <2>1, <4>3, <4>4
    <3> QED BY <3>5, <3>6
  <2>6. CASE stage[c] \in {"close", "lastClose"}
    <3>0. stage[c] # "open"
      BY <2>6
    <3>1. PICK k \in Handles :
            /\ server[c][k] = To(x, f) /\ server[c][k] \in Groups
            /\ server'[c] = [server[c] EXCEPT ![k] = 0]
      BY <1>1, <2>6, <3>0 DEF Locks
    <3>2. \A j \in Handles : server'[c][j] = IF j = k THEN 0 ELSE server[c][j]
      BY <2>2, <3>1
    <3>3. h # k /\ server[c][h] = g
      BY <2>2, <3>2 DEF Groups
    <3>4. \A j \in Handles : server[c][j] = g => j = h
      BY <2>3, <3>3
    <3>5. g # To(x, f)
      BY <3>1, <3>3, <3>4
    <3>6. SaidTo(x, f, g) = 0
      BY <3>5 DEF SaidTo
    <3>7. InFile(mz[g], bt[m][g])
      BY <2>3, <3>3, <3>6
    <3>8. \A j \in Handles : server'[c][j] = g => j = h
      BY <3>2, <3>4 DEF Groups
    <3> QED BY <1>2, <1>4, <2>1, <3>7, <3>8
  <2>7. CASE stage[c] \notin {"open", "close", "lastClose"}
    <3>1. server'[c] = server[c]
      BY <1>1, <2>7 DEF Locks
    <3>2. server[c][h] = g
      BY <2>2, <3>1
    <3>3. SaidTo(x, f, g) # 1
      <4> SUFFICES ASSUME SaidTo(x, f, g) = 1 PROVE FALSE
        OBVIOUS
      <4>1. Calls(x) = 1
        BY CallsIs
      <4>2. stage[c] = "exit"
        BY <2>1, <2>7, <4>1, CallsIs
      <4>3. Finds(x)
        BY <2>1, <4>2 DEF Finds
      <4> QED BY <2>3, <3>2, <4>3
    <3>4. SaidTo(x, f, g) \in {0, 2}
      BY <3>3, CallsIs
    <3>5. InFile(mz[g], bt[m][g])
      BY <2>3, <2>4, <3>2, <3>4
    <3>6. \A j \in Handles : server[c][j] = g => j = h
      BY <2>3, <3>2
    <3> QED BY <1>2, <1>4, <2>1, <3>1, <3>5, <3>6
  <2> QED BY <2>5, <2>6, <2>7
<1> QED BY <1>3, <1>4

LEMMA FrontMatched ==
  ASSUME IInv, IInv', Within, NEW n \in Nat \ {0}, NEW tr, NEW at, NEW ms, NEW got,
         Joint(tr, n, at, ms, got), NEW c \in Clients, ClientStep(c),
         UNCHANGED <<phase, callReady>>, tr[n] = Local(c),
         \A g \in Groups : Pending(c, g, at[n][g], ms[g], got[g][ServerOf[c]])
  PROVE  \E ts, bt, mz :
           /\ Longer(ts, bt, mz, tr, n, at, ms, Local(c), found', Local(c)')
           /\ Joint(ts, n + 1, bt, mz, got)'
<1>1. Moved(c) /\ Says(c) /\ idle' \subseteq idle
  BY ClientStepMoves, ClientStepSays, ClientsIdle
<1>2. /\ Ready(Local(c), plan', found')
      /\ Local(c)' = After(Local(c), plan', found')
      /\ Before(Local(c), Local(c)')
      /\ \A d \in Clients : d # c => Local(d)' = Local(d)
      /\ Extends(plan', plan) /\ Extends(found', found) /\ Within'
  BY <1>1 DEF Moved
<1>3. Passed(tr, n)' /\ Scripted(tr, n, at, ms)'
  BY <1>2, PassedStays, ScriptedStays DEF Joint
<1>4. Good(Local(c)', plan', found')
  BY <1>2, WithinGoodNext
<1>5. PICK x, f, y, m : x = Local(c) /\ f = found' /\ y = Local(c)' /\ m = n + 1
  OBVIOUS
<1>6. \A g \in Groups : at[n][g] \in Nat
  <2>1. n \in 1 .. n
    OBVIOUS
  <2> QED BY <2>1 DEF Joint, Scripted
<1>a. \E ts, bt, mz : Longer(ts, bt, mz, tr, n, at, ms, x, f, y)
  BY <1>6, LongerExists
<1>7. PICK ts, bt, mz : Longer(ts, bt, mz, tr, n, at, ms, x, f, y)
  BY <1>a
<1>8. FrontStep(tr, n, at, ms, got, c, x, f, y, ts, bt, mz)
  BY <1>1, <1>2, <1>3, <1>4, <1>5, <1>7 DEF FrontStep
<1>9. Passed(ts, m)' /\ Scripted(ts, m, bt, mz)'
  BY <1>5, <1>8, FrontPassed, FrontScripted
<1>10. Heard(ts, m, bt, mz, got)' /\ Completed(m, bt, mz, got)'
  BY <1>5, <1>8, FrontHeard, FrontCompleted
<1>11. Announced(m, bt, mz, got)'
  BY <1>5, <1>8, FrontAnnounced
<1>12. Spelled(m, bt, mz) /\ InTurn(ts, m, bt, mz) /\ Reserved(ts, m, bt, mz)
  BY <1>5, <1>8, FrontSpelled, FrontInTurn, FrontReserved
<1>13. Spelled(m, bt, mz)' /\ InTurn(ts, m, bt, mz)' /\ Reserved(ts, m, bt, mz)'
  BY <1>12 DEF Spelled, InTurn, Reserved
<1>14. Joint(ts, m, bt, mz, got)'
  BY <1>9, <1>10, <1>11, <1>13 DEF Joint
<1> QED BY <1>5, <1>7, <1>14

LEMMA ClientMatched ==
  ASSUME IInv, IInv', Within, Matched, NEW c \in Clients, ClientStep(c),
         UNCHANGED <<phase, callReady>>
  PROVE  Matched'
<1>a. PICK n \in Nat \ {0} : \E tr, at, ms, got : Joint(tr, n, at, ms, got)
  BY DEF Matched
<1>1. PICK tr, at, ms, got : Joint(tr, n, at, ms, got)
  BY <1>a
<1>2. PICK i \in 1 .. n :
        /\ tr[i] = Local(c)
        /\ \A g \in Groups : Pending(c, g, at[i][g], ms[g], got[g][ServerOf[c]])
  BY <1>1 DEF Joint, Heard
<1>3. CASE i < n
  BY <1>1, <1>2, <1>3, FollowsMatched DEF Matched
<1>4. CASE i = n
  <2>1. n + 1 \in Nat \ {0}
    OBVIOUS
  <2> QED BY <1>1, <1>2, <1>4, <2>1, FrontMatched DEF Matched
<1> QED BY <1>3, <1>4

-----------------------------------------------------------------------------
(* The theorems.                                                             *)

\* Groups are announced only where they are polled for.
IdlePolled == idle # {} => Poll

LEMMA StepPolled ==
  ASSUME IdlePolled, [ClientNext]_clientVars
  PROVE  IdlePolled'
<1>1. ASSUME NEW c \in Clients, ClientStep(c) PROVE idle' \subseteq idle
  BY <1>1, ClientsIdle
<1> QED BY <1>1 DEF IdlePolled, ClientNext, Received, Offered, clientVars, pollVars

LEMMA NextMatched ==
  ASSUME LoopInv, IInv, IInv', Within, Matched, [Next]_vars
  PROVE  Matched'
<1>1. ASSUME NEW c \in Clients, ClientStep(c), UNCHANGED serverVars PROVE Matched'
  BY <1>1, ClientMatched DEF serverVars, taskVars
<1>a. PICK n \in Nat \ {0} : \E tr, at, ms, got : Joint(tr, n, at, ms, got)
  BY DEF Matched
<1>2. PICK tr, at, ms, got : Joint(tr, n, at, ms, got)
  BY <1>a
<1>3. ASSUME NEW g \in Groups, OfferGroup(g) PROVE Matched'
  BY <1>2, <1>3, OfferMatched DEF Matched
<1>4. ASSUME NEW g \in Groups, GroupFound(g) PROVE Matched'
  BY <1>2, <1>4, FoundMatched DEF Matched
<1>5. ASSUME NEW g \in Groups, NEW r \in Ranks, ServerReduce(g, r) PROVE Matched'
  BY <1>2, <1>5, ReduceMatched DEF Matched
<1>6. ASSUME NEW g \in Groups, NEW r \in Ranks, ServerGather(g, r) PROVE Matched'
  BY <1>2, <1>6, GatherMatched DEF Matched
<1>7. ASSUME NEW g \in Groups, NEW r \in Others, Forward(g, r) PROVE Matched'
  BY <1>2, <1>7, ForwardLoop, StepsWithin DEF Matched
<1>8. ASSUME NEW g \in Groups, RootStep(g) PROVE Matched'
  BY <1>2, <1>8, RootLoop, StepsWithin DEF Matched
<1>9. CASE UNCHANGED vars
  BY <1>2, <1>9, StepsWithin DEF Matched
<1> QED BY <1>1, <1>3, <1>4, <1>5, <1>6, <1>7, <1>8, <1>9
        DEF Next, ServersNext, PollStep, ServerStep, Over

LEMMA MatchedHolds == QuiltSpec => [](LoopInv /\ IInv /\ IdlePolled /\ Matched)
<1>1. QuiltInit => Agree /\ IdlePolled /\ Matched
  BY InitAgree, InitMatched DEF QuiltInit, Init, IdlePolled
<1>2. /\ LoopInv /\ IInv /\ IInv' /\ Agree /\ IdlePolled /\ Matched /\ [Next]_vars
      => Agree' /\ IdlePolled' /\ Matched'
  <2> SUFFICES ASSUME LoopInv, IInv, IInv', Agree, IdlePolled, Matched, [Next]_vars
               PROVE  Agree' /\ IdlePolled' /\ Matched'
    OBVIOUS
  <2>1. [ClientNext]_clientVars
    BY StepMaps
  <2>2. Agree' /\ IdlePolled'
    BY <2>1, StepAgrees, StepPolled
  <2>3. Within
    BY DEF Agree
  <2> QED BY <2>2, <2>3, NextMatched
<1> QED BY <1>1, <1>2, LoopInvHolds, PTL DEF QuiltSpec

\* What a client still has in its channel is the script from where its server
\* has come to, to where the client has.
LEMMA WhereIs ==
  ASSUME IInv, NEW n \in Nat \ {0}, NEW tr, NEW at, NEW ms, NEW got,
         Joint(tr, n, at, ms, got), NEW c \in Clients, NEW g \in Groups
  PROVE  \E i \in 1 .. n :
           /\ tr[i] = Local(c) /\ at[i][g] \in Nat /\ at[n][g] \in Nat
           /\ got[g][ServerOf[c]] \in Nat /\ got[g][ServerOf[c]] <= at[i][g]
           /\ at[i][g] <= at[n][g]
           /\ chan[c][g] # <<>> =>
                /\ got[g][ServerOf[c]] < at[i][g]
                /\ Fits(c, Head(chan[c][g]), ms[g][got[g][ServerOf[c]] + 1])
<1> DEFINE k == got[g][ServerOf[c]]
<1>1. PICK i \in 1 .. n : tr[i] = Local(c) /\ Pending(c, g, at[i][g], ms[g], k)
  BY DEF Joint, Heard
<1>2. at[i][g] \in Nat /\ at[n][g] \in Nat /\ at[i][g] <= at[n][g]
  <2>1. i \in 1 .. n /\ n \in 1 .. n
    OBVIOUS
  <2> QED BY <2>1 DEF Joint, Scripted
<1>3. k \in Nat
  BY RanksOf DEF Joint, Completed
<1>4. chan[c][g] \in Seq(Messages) /\ Len(chan[c][g]) \in Nat
  BY LenProperties DEF IInv, ClientTypeOK, MessagesTypeOK
<1>5. /\ Len(chan[c][g]) = at[i][g] - k
      /\ \A j \in 1 .. Len(chan[c][g]) : Fits(c, chan[c][g][j], ms[g][k + j])
  BY <1>1 DEF Pending
<1>6. ASSUME chan[c][g] # <<>>
      PROVE  k < at[i][g] /\ Fits(c, Head(chan[c][g]), ms[g][k + 1])
  <2>1. Len(chan[c][g]) > 0 /\ Head(chan[c][g]) = chan[c][g][1]
    BY <1>4, <1>6, EmptySeq, LenProperties
  <2>2. 1 \in 1 .. Len(chan[c][g])
    BY <1>4, <2>1
  <2>3. Fits(c, chan[c][g][1], ms[g][k + 1])
    BY <1>5, <2>2
  <2>4. k < at[i][g]
    BY <1>2, <1>3, <1>4, <1>5, <2>1
  <2> QED BY <2>1, <2>3, <2>4
<1>7. k <= at[i][g]
  BY <1>2, <1>3, <1>4, <1>5
<1> QED BY <1>1, <1>2, <1>3, <1>6, <1>7

\* Clients and servers are coupled only by collectives, counted by nobody: what
\* a client has begun is always the collective its server waits for next, a
\* size or records, and never goes to a server that has left its loop.
THEOREM ClientsAndServersMatch == QuiltSpec => []CollectivesMatch
<1>1. IInv /\ Matched => CollectivesMatch
  <2> SUFFICES ASSUME IInv, Matched, NEW c \in Clients, NEW g \in Groups, chan[c][g] # <<>>
               PROVE  /\ phase[g][ServerOf[c]] # "exited"
                      /\ Head(chan[c][g]).kind =
                           IF phase[g][ServerOf[c]] = "gather" THEN "gather" ELSE "reduce"
    BY DEF CollectivesMatch
  <2>a. PICK n \in Nat \ {0} : \E tr, at, ms, got : Joint(tr, n, at, ms, got)
    BY DEF Matched
  <2>1. PICK tr, at, ms, got : Joint(tr, n, at, ms, got)
    BY <2>a
  <2>2. PICK k : k = got[g][ServerOf[c]]
    OBVIOUS
  <2>3. k \in 0 .. at[n][g] - 1 /\ Fits(c, Head(chan[c][g]), ms[g][k + 1])
    BY <2>1, <2>2, WhereIs
  <2>4. ms[g][k + 1].kind = Expects(ms[g], k) /\ ms[g][k + 1].kind # "nothing"
    BY <2>1, <2>3 DEF Joint, Spelled
  <2>5. /\ phase[g][ServerOf[c]] = "gather" <=> Expects(ms[g], k) = "gather"
        /\ phase[g][ServerOf[c]] = "exited" <=> Expects(ms[g], k) = "nothing"
    BY <2>1, <2>2, RanksOf DEF Joint, Completed
  <2> QED BY <2>3, <2>4, <2>5, ExpectsIs DEF Fits
<1> QED BY <1>1, MatchedHolds, PTL

\* With polling a group announces itself as idle to the monitor alone, on the
\* word of its own servers: no client still holds a file there.
THEOREM IdleGroupsAreFree == QuiltSpec => []IdleGroupServesNoFile
<1>1. IInv /\ IdlePolled /\ Matched => IdleGroupServesNoFile
  <2> SUFFICES ASSUME IInv, IdlePolled, Matched, NEW g \in idle, NEW c \in Clients,
                      NEW h \in Handles, server[c][h] = g
               PROVE  FALSE
    BY DEF IdleGroupServesNoFile
  <2>0. Poll /\ g \in Groups
    BY DEF IdlePolled, IInv, ClientTypeOK, MessagesTypeOK
  <2>a. PICK n \in Nat \ {0} : \E tr, at, ms, got : Joint(tr, n, at, ms, got)
    BY DEF Matched
  <2>1. PICK tr, at, ms, got : Joint(tr, n, at, ms, got)
    BY <2>a
  <2>2. PICK i \in 1 .. n : /\ tr[i] = Local(c) /\ at[i][g] \in Nat /\ at[n][g] \in Nat
                            /\ got[g][ServerOf[c]] <= at[i][g] /\ at[i][g] <= at[n][g]
                            /\ got[g][ServerOf[c]] \in Nat
    BY <2>0, <2>1, WhereIs
  <2>3. got[g][ServerOf[c]] = at[n][g] /\ Closed(ms[g], at[n][g])
    BY <2>0, <2>1, RanksOf DEF Joint, Announced
  <2>4. at[i][g] = at[n][g]
    BY <2>2, <2>3
  <2>5. tr[i].server[h] = g
    BY <2>2, LocalIs
  <2>6. InFile(ms[g], at[i][g])
    BY <2>0, <2>1, <2>5 DEF Joint, Reserved
  <2> QED BY <2>3, <2>4, <2>6 DEF InFile, Closed
<1> QED BY <1>1, MatchedHolds, PTL
=============================================================================
