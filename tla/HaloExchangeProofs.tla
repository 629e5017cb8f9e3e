------------------------- MODULE HaloExchangeProofs -------------------------
(***************************************************************************)
(* Proofs about the decomposition of domains (TaskForPoint) and about the  *)
(* exchange of halos (HaloExchange), for domains, meshes, stencils and     *)
(* sequences of exchanges of any size.                                     *)
(*                                                                         *)
(* What TASK_FOR_POINT promises the loops that find a task's patch and     *)
(* rsl_comm_iter, which trust it without a message, comes first: for any   *)
(* number of points and of tasks, the owners it computes divide the points *)
(* into intervals, one for each task that is used, in the order of the     *)
(* tasks.                                                                  *)
(*                                                                         *)
(* The exchange then rests on one observation: what passes the boundary    *)
(* between two places of the mesh in iteration k + 1 is a function of the  *)
(* owners of the points alone (Cov), so that both sides of the boundary    *)
(* work out the same.  The invariant says for each task where its pointers *)
(* are (Tracked) and what its memory holds (Remembers), and for each link  *)
(* that it holds the messages that are due, in order, between the next of  *)
(* the sender and the next of the receiver, each with the words of its box *)
(* (OnLink, Flow, Fits).                                                   *)
(***************************************************************************)
EXTENDS HaloExchange, SumLemmas, TLAPS

\* The first point (counted from 0) of task q, of u tasks that share n points.
FirstOf(q, n, u) ==
  LET h == Extra(n, u) \div 2
      m == u - Extra(n, u)
  IN  IF q <= h THEN q * Large(n, u)
      ELSE IF q <= h + m THEN h * Large(n, u) + (q - h) * Small(n, u)
      ELSE h * Large(n, u) + m * Small(n, u) + (q - h - m) * Large(n, u)

-----------------------------------------------------------------------------
(* Arithmetic *)

\* Quotient and remainder.
LEMMA Division ==
  ASSUME NEW x \in Int, NEW d \in Nat \ {0}
  PROVE  /\ x \div d \in Int
         /\ x % d \in 0 .. d - 1
         /\ x = d * (x \div d) + (x % d)
<1>1. x \div d \in Int
  OBVIOUS
<1>2. x % d \in 0 .. d - 1
  OBVIOUS
<1>3. x = d * (x \div d) + (x % d)
  OBVIOUS
<1> QED BY <1>1, <1>2, <1>3

\* Multiplication is monotone.
LEMMA Times ==
  ASSUME NEW p \in Int, NEW q \in Int, p <= q, NEW d \in Nat
  PROVE  d * p <= d * q
OBVIOUS

\* A quotient is what lies between two multiples.
LEMMA Quotient ==
  ASSUME NEW x \in Int, NEW d \in Nat \ {0}, NEW q \in Int,
         d * q <= x, x < d * q + d
  PROVE  x \div d = q
<1> DEFINE y == x \div d
<1>1. y \in Int /\ d * y <= x /\ x < d * y + d
  BY Division
<1> HIDE DEF y
<1>2. ASSUME y < q PROVE FALSE
  <2>1. d * (y + 1) <= d * q
    BY <1>1, <1>2, Times
  <2> QED BY <2>1, <1>1
<1>3. ASSUME q < y PROVE FALSE
  <2>1. d * (q + 1) <= d * y
    BY <1>1, <1>3, Times
  <2> QED BY <2>1, <1>1
<1>4. y = q
  BY <1>1, <1>2, <1>3
<1> QED BY <1>4 DEF y

-----------------------------------------------------------------------------
(* The three stretches of tasks: large patches, small ones, large ones *)

\* n points for u tasks that all get one: the sizes, and where the middle lies.
LEMMA Division3 ==
  ASSUME NEW n \in Nat \ {0}, NEW u \in 1 .. n
  PROVE  /\ Small(n, u) \in Nat \ {0} /\ Large(n, u) = Small(n, u) + 1
         /\ Extra(n, u) \in 0 .. u - 1
         /\ Extra(n, u) \div 2 \in 0 .. Extra(n, u)
         /\ n = u * Small(n, u) + Extra(n, u)
<1>1. /\ n \div u \in Int /\ n % u \in 0 .. u - 1
      /\ n = u * (n \div u) + (n % u)
  BY Division
<1>2. ASSUME n \div u <= 0 PROVE FALSE
  <2>1. u * (n \div u) <= u * 0
    BY <1>1, <1>2, Times
  <2> QED BY <2>1, <1>1
<1>3. n \div u \in Nat \ {0}
  BY <1>1, <1>2
<1>4. (n % u) \div 2 \in 0 .. (n % u)
  BY <1>1
<1> QED BY <1>1, <1>3, <1>4 DEF Small, Large, Extra

\* The divisions of the code give the number of tasks before the middle, and
\* the size of a patch in it.
LEMMA Middle ==
  ASSUME NEW n \in Nat \ {0}, NEW u \in 1 .. n,
         NEW S, NEW L, NEW e, NEW h, NEW m, NEW a, NEW b,
         S = Small(n, u), L = Large(n, u), e = Extra(n, u), h = e \div 2, m = u - e,
         a = MiddleFrom(n, u), b = MiddleTo(n, u)
  PROVE  /\ S \in Nat \ {0} /\ L = S + 1 /\ e \in Nat /\ h \in 0 .. e /\ m \in Nat \ {0}
         /\ a = h * L /\ b = a + m * S /\ n = b + (e - h) * L /\ u = e + m
         /\ a \div L = h /\ (b - a) \div m = S /\ (b - a) \div S = m
<1>1. /\ S \in Nat \ {0} /\ L = S + 1 /\ e \in 0 .. u - 1 /\ h \in 0 .. e
      /\ n = u * S + e
  BY Division3
<1>2. m \in Nat \ {0} /\ u = e + m
  BY <1>1
<1>3. a = h * L /\ b = a + m * S
  BY DEF MiddleFrom, MiddleTo
<1>4. n = b + (e - h) * L
  <2>1. u * S = e * S + m * S
    BY <1>1, <1>2
  <2>2. (e - h) * L = e * L - h * L /\ e * L = e * S + e
    BY <1>1
  <2>3. e * S \in Int /\ m * S \in Int /\ h * L \in Int /\ u * S \in Int
    BY <1>1, <1>2
  <2> QED BY <1>1, <1>3, <2>1, <2>2, <2>3
<1>5. L * h = a /\ L \in Nat \ {0} /\ a \in Int
  BY <1>1, <1>3
<1>6. a \div L = h
  BY <1>1, <1>5, Quotient
<1>7. b - a = m * S /\ m * S = S * m /\ m * S \in Int /\ b - a \in Int
  BY <1>1, <1>2, <1>3, <1>5
<1>8. (b - a) \div m = S
  BY <1>1, <1>2, <1>7, Quotient
<1>9. (b - a) \div S = m
  <2>1. S * m <= b - a /\ b - a < S * m + S
    BY <1>1, <1>2, <1>7
  <2> QED BY <1>1, <1>2, <1>7, <2>1, Quotient
<1> QED BY <1>1, <1>2, <1>3, <1>4, <1>6, <1>8, <1>9

\* Where the tasks of the three stretches begin.
LEMMA FirstOfIs ==
  ASSUME NEW n \in Nat \ {0}, NEW u \in 1 .. n,
         NEW S, NEW L, NEW e, NEW h, NEW m, NEW a, NEW b,
         S = Small(n, u), L = Large(n, u), e = Extra(n, u), h = e \div 2, m = u - e,
         a = MiddleFrom(n, u), b = MiddleTo(n, u)
  PROVE  /\ \A q \in 0 .. h : FirstOf(q, n, u) = L * q
         /\ \A k \in 0 .. m : FirstOf(h + k, n, u) = a + S * k
         /\ \A k \in 0 .. e - h : FirstOf(h + m + k, n, u) = b + L * k
<1>1. /\ S \in Nat \ {0} /\ L = S + 1 /\ e \in Nat /\ h \in 0 .. e /\ m \in Nat \ {0}
      /\ a = h * L /\ b = a + m * S
  BY Middle
<1>2. L \in Nat \ {0} /\ a \in Int /\ b \in Int /\ a = L * h
  BY <1>1
<1>3. ASSUME NEW q \in Int
      PROVE  FirstOf(q, n, u) = IF q <= h THEN q * L
                                ELSE IF q <= h + m THEN a + (q - h) * S
                                ELSE b + (q - h - m) * L
  BY <1>1 DEF FirstOf
<1>4. ASSUME NEW q \in 0 .. h PROVE FirstOf(q, n, u) = L * q
  BY <1>1, <1>2, <1>3
<1>5. ASSUME NEW k \in 0 .. m PROVE FirstOf(h + k, n, u) = a + S * k
  <2>1. CASE k = 0
    <3>1. FirstOf(h + k, n, u) = h * L
      BY <1>1, <1>3, <2>1
    <3> QED BY <1>1, <1>2, <3>1, <2>1
  <2>2. CASE k # 0
    <3>1. FirstOf(h + k, n, u) = a + (h + k - h) * S
      BY <1>1, <1>3, <2>2
    <3>2. h + k - h = k
      BY <1>1
    <3>3. k * S = S * k
      BY <1>1
    <3> QED BY <3>1, <3>2, <3>3
  <2> QED BY <2>1, <2>2
<1>6. ASSUME NEW k \in 0 .. e - h PROVE FirstOf(h + m + k, n, u) = b + L * k
  <2>1. CASE k = 0
    <3>1. FirstOf(h + m, n, u) = a + S * m
      BY <1>1, <1>5
    <3>2. h + m + k = h + m /\ S * m = m * S /\ L * k = 0
      BY <1>1, <1>2, <2>1
    <3> QED BY <1>1, <1>2, <3>1, <3>2
  <2>2. CASE k # 0
    <3>1. FirstOf(h + m + k, n, u) = b + (h + m + k - h - m) * L
      <4>1. h + m + k \in Int /\ ~(h + m + k <= h) /\ ~(h + m + k <= h + m)
        BY <1>1, <2>2
      <4> QED BY <1>3, <4>1
    <3>2. h + m + k - h - m = k
      BY <1>1
    <3>3. k * L = L * k
      BY <1>1, <1>2
    <3> QED BY <3>1, <3>2, <3>3
  <2> QED BY <2>1, <2>2
<1> QED BY <1>4, <1>5, <1>6

-----------------------------------------------------------------------------
(* The owner of a point *)

\* A point lies in the patch of the task the code computes for it.
LEMMA OwnersPatch ==
  ASSUME NEW n \in Nat \ {0}, NEW u \in 1 .. n, NEW i \in 0 .. n - 1,
         NEW q, q = OwnerAmongUsed(i, n, u)
  PROVE  /\ q \in 0 .. u - 1
         /\ FirstOf(q, n, u) <= i /\ i < FirstOf(q + 1, n, u)
<1> DEFINE S == Small(n, u)
           L == Large(n, u)
           e == Extra(n, u)
           h == e \div 2
           m == u - e
           a == MiddleFrom(n, u)
           b == MiddleTo(n, u)
<1>1. /\ S \in Nat \ {0} /\ L = S + 1 /\ e \in Nat /\ h \in 0 .. e /\ m \in Nat \ {0}
      /\ a = h * L /\ b = a + m * S /\ n = b + (e - h) * L /\ u = e + m
      /\ a \div L = h /\ (b - a) \div m = S /\ (b - a) \div S = m
  BY Middle
<1>2. /\ \A p \in 0 .. h : FirstOf(p, n, u) = L * p
      /\ \A k \in 0 .. m : FirstOf(h + k, n, u) = a + S * k
      /\ \A k \in 0 .. e - h : FirstOf(h + m + k, n, u) = b + L * k
  BY FirstOfIs
<1>3. q = IF i < a THEN i \div L
          ELSE IF i < b THEN h + (i - a) \div S
          ELSE h + m + (i - b) \div L
  BY <1>1 DEF OwnerAmongUsed
<1> HIDE DEF S, L, e, h, m, a, b
<1>4. L \in Nat \ {0} /\ a \in Int /\ b \in Int
  BY <1>1
<1>5. CASE i < a
  <2>1. q \in Int /\ L * q <= i /\ i < L * q + L
    BY <1>3, <1>4, <1>5, Division
  <2>2. ASSUME q < 0 PROVE FALSE
    <3>1. L * (q + 1) <= L * 0
      BY <1>4, <2>1, <2>2, Times
    <3> QED BY <1>4, <2>1, <3>1
  <2>3. ASSUME h <= q PROVE FALSE
    <3>1. L * h <= L * q
      BY <1>1, <1>4, <2>1, <2>3, Times
    <3> QED BY <1>1, <1>4, <1>5, <2>1, <3>1
  <2>4. q \in 0 .. h /\ q + 1 \in 0 .. h
    BY <1>1, <2>1, <2>2, <2>3
  <2>5. FirstOf(q, n, u) = L * q /\ FirstOf(q + 1, n, u) = L * (q + 1)
    BY <1>2, <2>4
  <2> QED BY <1>1, <1>4, <2>1, <2>4, <2>5
<1>6. CASE a <= i /\ i < b
  <2> DEFINE k == (i - a) \div S
  <2>1. k \in Int /\ S * k <= i - a /\ i - a < S * k + S
    <3>1. i - a \in Int /\ S \in Nat \ {0}
      BY <1>1, <1>4
    <3>2. /\ k \in Int /\ (i - a) % S \in 0 .. S - 1
          /\ i - a = S * k + ((i - a) % S)
      BY <3>1, Division
    <3> HIDE DEF k
    <3> QED BY <3>1, <3>2
  <2>2. q = h + k
    BY <1>3, <1>4, <1>6
  <2> HIDE DEF k
  <2>3. ASSUME k < 0 PROVE FALSE
    <3>1. S * (k + 1) <= S * 0
      BY <1>1, <2>1, <2>3, Times
    <3> QED BY <1>1, <1>4, <1>6, <2>1, <3>1
  <2>4. ASSUME m <= k PROVE FALSE
    <3>1. S * m <= S * k
      BY <1>1, <2>1, <2>4, Times
    <3> QED BY <1>1, <1>4, <1>6, <2>1, <3>1
  <2>5. k \in 0 .. m /\ k + 1 \in 0 .. m
    BY <1>1, <2>1, <2>3, <2>4
  <2>6. FirstOf(h + k, n, u) = a + S * k /\ FirstOf(h + (k + 1), n, u) = a + S * (k + 1)
    BY <1>2, <2>5
  <2>7. q + 1 = h + (k + 1)
    BY <1>1, <2>1, <2>2
  <2> QED BY <1>1, <1>4, <2>1, <2>2, <2>5, <2>6, <2>7
<1>7. CASE b <= i
  <2> DEFINE k == (i - b) \div L
  <2>1. k \in Int /\ L * k <= i - b /\ i - b < L * k + L
    <3>1. i - b \in Int /\ L \in Nat \ {0}
      BY <1>4
    <3>2. /\ k \in Int /\ (i - b) % L \in 0 .. L - 1
          /\ i - b = L * k + ((i - b) % L)
      BY <3>1, Division
    <3> HIDE DEF k
    <3> QED BY <3>1, <3>2
  <2>2. q = h + m + k
    <3>1. a <= b
      BY <1>1, <1>4
    <3> QED BY <1>3, <1>4, <1>7, <3>1
  <2> HIDE DEF k
  <2>3. ASSUME k < 0 PROVE FALSE
    <3>1. L * (k + 1) <= L * 0
      BY <1>4, <2>1, <2>3, Times
    <3> QED BY <1>4, <1>7, <2>1, <3>1
  <2>4. ASSUME e - h <= k PROVE FALSE
    <3>1. L * (e - h) <= L * k
      BY <1>1, <1>4, <2>1, <2>4, Times
    <3> QED BY <1>1, <1>4, <2>1, <3>1
  <2>5. k \in 0 .. e - h /\ k + 1 \in 0 .. e - h
    BY <1>1, <2>1, <2>3, <2>4
  <2>6. FirstOf(h + m + k, n, u) = b + L * k /\ FirstOf(h + m + (k + 1), n, u) = b + L * (k + 1)
    BY <1>2, <2>5
  <2>7. q + 1 = h + m + (k + 1)
    BY <1>1, <2>1, <2>2
  <2> QED BY <1>1, <1>4, <2>1, <2>2, <2>5, <2>6, <2>7
<1> QED BY <1>4, <1>5, <1>6, <1>7

\* The patches are next to each other and none is empty: that of a task has
\* Small or Large points, and the middle ones are the small ones.
LEMMA PatchSize ==
  ASSUME NEW n \in Nat \ {0}, NEW u \in 1 .. n, NEW q \in 0 .. u - 1
  PROVE  /\ FirstOf(q, n, u) \in Nat
         /\ FirstOf(q + 1, n, u) = FirstOf(q, n, u) +
              (IF q < Extra(n, u) \div 2 \/ q >= (Extra(n, u) \div 2) + (u - Extra(n, u))
               THEN Large(n, u) ELSE Small(n, u))
<1> DEFINE S == Small(n, u)
           L == Large(n, u)
           e == Extra(n, u)
           h == e \div 2
           m == u - e
           a == MiddleFrom(n, u)
           b == MiddleTo(n, u)
<1>1. /\ S \in Nat \ {0} /\ L = S + 1 /\ e \in Nat /\ h \in 0 .. e /\ m \in Nat \ {0}
      /\ a = h * L /\ b = a + m * S /\ u = e + m
  BY Middle
<1>2. /\ \A p \in 0 .. h : FirstOf(p, n, u) = L * p
      /\ \A k \in 0 .. m : FirstOf(h + k, n, u) = a + S * k
      /\ \A k \in 0 .. e - h : FirstOf(h + m + k, n, u) = b + L * k
  BY FirstOfIs
<1>3. L \in Nat \ {0} /\ a \in Nat /\ b \in Nat
  BY <1>1
<1> HIDE DEF S, L, e, h, m, a, b
<1>4. SUFFICES /\ FirstOf(q, n, u) \in Nat
               /\ FirstOf(q + 1, n, u) = FirstOf(q, n, u) + (IF q < h \/ q >= h + m THEN L ELSE S)
  BY DEF S, L, e, h, m
<1>5. CASE q < h
  <2>1. FirstOf(q, n, u) = L * q /\ FirstOf(q + 1, n, u) = L * (q + 1)
    BY <1>1, <1>2, <1>5
  <2> QED BY <1>1, <1>3, <1>5, <2>1
<1>6. CASE h <= q /\ q < h + m
  <2>1. PICK k \in 0 .. m : q = h + k /\ k + 1 \in 0 .. m
    <3>1. q - h \in 0 .. m /\ q = h + (q - h) /\ (q - h) + 1 \in 0 .. m
      BY <1>1, <1>6
    <3> QED BY <3>1
  <2>2. FirstOf(h + k, n, u) = a + S * k /\ FirstOf(h + (k + 1), n, u) = a + S * (k + 1)
    BY <1>2, <2>1
  <2>3. q + 1 = h + (k + 1) /\ S * (k + 1) = S * k + S /\ S * k \in Nat
    BY <1>1, <2>1
  <2> QED BY <1>1, <1>3, <1>6, <2>1, <2>2, <2>3
<1>7. CASE h + m <= q
  <2>1. PICK k \in 0 .. e - h : q = h + m + k /\ k + 1 \in 0 .. e - h
    <3>1. q - h - m \in 0 .. e - h /\ q = h + m + (q - h - m) /\ (q - h - m) + 1 \in 0 .. e - h
      BY <1>1, <1>7
    <3> QED BY <3>1
  <2>2. FirstOf(h + m + k, n, u) = b + L * k /\ FirstOf(h + m + (k + 1), n, u) = b + L * (k + 1)
    BY <1>2, <2>1
  <2>3. q + 1 = h + m + (k + 1) /\ L * (k + 1) = L * k + L /\ L * k \in Nat
    BY <1>1, <1>3, <2>1
  <2> QED BY <1>1, <1>3, <1>7, <2>1, <2>2, <2>3
<1> QED BY <1>1, <1>5, <1>6, <1>7

\* The tasks begin in the order of their numbers; the first at the first point,
\* and after the last there is none.
LEMMA FirstOfMonotone ==
  ASSUME NEW n \in Nat \ {0}, NEW u \in 1 .. n
  PROVE  /\ FirstOf(0, n, u) = 0 /\ FirstOf(u, n, u) = n
         /\ \A p, q \in 0 .. u : p <= q => FirstOf(p, n, u) <= FirstOf(q, n, u)
<1> DEFINE S == Small(n, u)
           L == Large(n, u)
           e == Extra(n, u)
           h == e \div 2
           m == u - e
           a == MiddleFrom(n, u)
           b == MiddleTo(n, u)
           F(q) == FirstOf(q, n, u)
<1>1. /\ S \in Nat \ {0} /\ L = S + 1 /\ e \in Nat /\ h \in 0 .. e /\ m \in Nat \ {0}
      /\ a = h * L /\ b = a + m * S /\ n = b + (e - h) * L /\ u = e + m
  BY Middle
<1>2. /\ \A p \in 0 .. h : F(p) = L * p
      /\ \A k \in 0 .. m : F(h + k) = a + S * k
      /\ \A k \in 0 .. e - h : F(h + m + k) = b + L * k
  BY FirstOfIs
<1>3. F(0) = FirstOf(0, n, u) /\ F(u) = FirstOf(u, n, u)
  OBVIOUS
<1> HIDE DEF S, L, e, h, m, a, b
<1>4. L \in Nat \ {0} /\ a \in Nat /\ b \in Nat
  BY <1>1
<1> SUFFICES /\ F(0) = 0 /\ F(u) = n
             /\ \A p, q \in 0 .. u : p <= q => F(p) <= F(q)
  OBVIOUS
<1> HIDE DEF F
<1>5. F(0) = 0
  <2>1. 0 \in 0 .. h
    BY <1>1
  <2>2. F(0) = L * 0
    BY <1>2, <2>1
  <2> QED BY <1>4, <2>2
<1>6. F(u) = n
  <2>1. e - h \in 0 .. e - h /\ u = h + m + (e - h)
    BY <1>1
  <2>2. F(h + m + (e - h)) = b + L * (e - h)
    BY <1>2, <2>1
  <2> QED BY <1>1, <1>4, <2>1, <2>2
<1>7. ASSUME NEW p \in 0 .. h
      PROVE  F(p) = L * p /\ F(p) <= a /\ F(p) \in Int
  <2>1. F(p) = L * p
    BY <1>2
  <2>2. L * p <= L * h
    BY <1>1, <1>4, Times
  <2> QED BY <1>1, <1>4, <2>1, <2>2
<1>8. ASSUME NEW p \in h .. h + m
      PROVE  F(p) = a + S * (p - h) /\ a <= F(p) /\ F(p) <= b /\ F(p) \in Int
  <2>1. p - h \in 0 .. m /\ p = h + (p - h)
    BY <1>1
  <2>2. F(h + (p - h)) = a + S * (p - h)
    BY <1>2, <2>1
  <2>3. S * 0 <= S * (p - h) /\ S * (p - h) <= S * m
    BY <1>1, <2>1, Times
  <2> QED BY <1>1, <1>4, <2>1, <2>2, <2>3
<1>9. ASSUME NEW p \in h + m .. u
      PROVE  F(p) = b + L * (p - h - m) /\ b <= F(p) /\ F(p) \in Int
  <2>1. p - h - m \in 0 .. e - h /\ p = h + m + (p - h - m)
    BY <1>1
  <2>2. F(h + m + (p - h - m)) = b + L * (p - h - m)
    BY <1>2, <2>1
  <2>3. L * 0 <= L * (p - h - m)
    BY <1>1, <1>4, <2>1, Times
  <2> QED BY <1>1, <1>4, <2>1, <2>2, <2>3
<1>10. ASSUME NEW p \in 0 .. u, NEW q \in 0 .. u, p <= q PROVE F(p) <= F(q)
  <2>1. CASE q <= h
    <3>1. L * p <= L * q
      BY <1>4, <1>10, Times
    <3>2. p \in 0 .. h /\ q \in 0 .. h
      BY <1>1, <1>10, <2>1
    <3> QED BY <1>7, <3>1, <3>2
  <2>2. CASE h <= p /\ q <= h + m
    <3>1. p - h \in Int /\ q - h \in Int /\ p - h <= q - h
      BY <1>1, <1>10
    <3>2. S * (p - h) <= S * (q - h)
      BY <1>1, <3>1, Times
    <3>3. p \in h .. h + m /\ q \in h .. h + m
      BY <1>1, <1>10, <2>2
    <3>4. F(p) = a + S * (p - h) /\ F(q) = a + S * (q - h) /\ F(p) \in Int /\ F(q) \in Int
      BY <1>8, <3>3
    <3> QED BY <1>1, <1>4, <3>1, <3>2, <3>4
  <2>3. CASE h + m <= p
    <3>1. p - h - m \in Int /\ q - h - m \in Int /\ p - h - m <= q - h - m
      BY <1>1, <1>10
    <3>2. L * (p - h - m) <= L * (q - h - m)
      BY <1>4, <3>1, Times
    <3>3. p \in h + m .. u /\ q \in h + m .. u
      BY <1>1, <1>10, <2>3
    <3>4. F(p) = b + L * (p - h - m) /\ F(q) = b + L * (q - h - m)
      BY <1>9, <3>3
    <3> QED BY <1>1, <1>4, <3>1, <3>2, <3>4
  <2>4. CASE p <= h /\ h <= q /\ q <= h + m
    <3>1. p \in 0 .. h /\ q \in h .. h + m
      BY <1>1, <1>10, <2>4
    <3> QED BY <1>4, <1>7, <1>8, <3>1
  <2>5. CASE p <= h /\ h + m <= q
    <3>1. p \in 0 .. h /\ q \in h + m .. u /\ h + m \in h .. h + m
      BY <1>1, <1>10, <2>5
    <3>2. a <= b
      BY <1>4, <1>8, <3>1
    <3> QED BY <1>4, <1>7, <1>9, <3>1, <3>2
  <2>6. CASE h <= p /\ p <= h + m /\ h + m <= q
    <3>1. p \in h .. h + m /\ q \in h + m .. u
      BY <1>1, <1>10, <2>6
    <3> QED BY <1>4, <1>8, <1>9, <3>1
  <2> QED BY <1>1, <1>10, <2>1, <2>2, <2>3, <2>4, <2>5, <2>6
<1> QED BY <1>5, <1>6, <1>10

-----------------------------------------------------------------------------
(* The theorems *)

\* The tasks that are used.
LEMMA Used ==
  ASSUME NEW n \in Nat \ {0}, NEW np \in Nat \ {0}
  PROVE  TasksUsed(n, np) \in 1 .. n /\ TasksUsed(n, np) <= np
BY DEF TasksUsed

\* Wherever a point is, the task that owns it is one of those used.
LEMMA OwnersPatchClipped ==
  ASSUME NEW n \in Nat \ {0}, NEW np \in Nat \ {0}, NEW k \in Int,
         NEW q, q = TaskOf(k, n, np)
  PROVE  /\ Clipped(k, n) \in 0 .. n - 1
         /\ q \in 0 .. TasksUsed(n, np) - 1
         /\ FirstOf(q, n, TasksUsed(n, np)) <= Clipped(k, n)
         /\ Clipped(k, n) < FirstOf(q + 1, n, TasksUsed(n, np))
<1>1. Clipped(k, n) \in 0 .. n - 1
  BY DEF Clipped
<1>2. TasksUsed(n, np) \in 1 .. n
  BY Used
<1>3. q = OwnerAmongUsed(Clipped(k, n), n, TasksUsed(n, np))
  BY DEF TaskOf
<1> QED BY <1>1, <1>2, <1>3, OwnersPatch

\* A point of the domain or beyond its ends has an owner, which is a task of
\* the mesh (TASK_FOR_POINT never leaves the range of its caller's tables).
THEOREM OwnerIsATask ==
  \A n, np \in Nat \ {0}, k \in Int : TaskOf(k, n, np) \in 0 .. np - 1
<1> TAKE n, np \in Nat \ {0}, k \in Int
<1>1. TaskOf(k, n, np) \in 0 .. TasksUsed(n, np) - 1
  BY OwnersPatchClipped
<1>2. TasksUsed(n, np) \in 1 .. n /\ TasksUsed(n, np) <= np
  BY Used
<1> QED BY <1>1, <1>2

\* Owners are in the order of the points, whatever the direction rsl_comm_iter
\* walks them in: it may stop at the first point of another task.
THEOREM OwnersInOrder ==
  \A n, np \in Nat \ {0}, j, k \in Int : j <= k => TaskOf(j, n, np) <= TaskOf(k, n, np)
<1> TAKE n, np \in Nat \ {0}, j, k \in Int
<1> HAVE j <= k
<1> DEFINE p == TaskOf(j, n, np)
           q == TaskOf(k, n, np)
           u == TasksUsed(n, np)
           F(t) == FirstOf(t, n, u)
<1>1. /\ p \in 0 .. u - 1 /\ F(p) <= Clipped(j, n) /\ Clipped(j, n) \in 0 .. n - 1
      /\ q \in 0 .. u - 1 /\ Clipped(k, n) < F(q + 1) /\ Clipped(k, n) \in 0 .. n - 1
  BY OwnersPatchClipped
<1>2. u \in 1 .. n
  BY Used
<1>3. \A s, t \in 0 .. u : s <= t => F(s) <= F(t)
  BY <1>2, FirstOfMonotone
<1>4. \A t \in 0 .. u - 1 : F(t) \in Nat
  BY <1>2, PatchSize
<1>5. Clipped(j, n) <= Clipped(k, n)
  BY DEF Clipped
<1> HIDE DEF p, q, u, F
<1>6. ASSUME q < p PROVE FALSE
  <2>1. q + 1 \in 0 .. u - 1 /\ p \in 0 .. u - 1 /\ q + 1 <= p
    BY <1>1, <1>2, <1>6
  <2>2. F(q + 1) <= F(p) /\ F(q + 1) \in Nat /\ F(p) \in Nat
    BY <1>2, <1>3, <1>4, <2>1
  <2> QED BY <1>1, <1>5, <2>2
<1>7. p <= q
  BY <1>1, <1>2, <1>6
<1> QED BY <1>7 DEF p, q

\* The patch a task finds by asking for the owner of every point (the loops of
\* patch_domain_rsl_lite) is an interval, whose ends are FirstOf.
THEOREM PatchesAreIntervals ==
  \A n, np \in Nat \ {0}, q \in Nat :
    q < TasksUsed(n, np) =>
      \A k \in 1 .. n :
        TaskOf(k, n, np) = q <=> /\ FirstOf(q, n, TasksUsed(n, np)) < k
                                 /\ k <= FirstOf(q + 1, n, TasksUsed(n, np))
<1> TAKE n, np \in Nat \ {0}, q \in Nat
<1> HAVE q < TasksUsed(n, np)
<1> TAKE k \in 1 .. n
<1> DEFINE p == TaskOf(k, n, np)
           u == TasksUsed(n, np)
           F(t) == FirstOf(t, n, u)
<1>1. p \in 0 .. u - 1 /\ F(p) <= Clipped(k, n) /\ Clipped(k, n) < F(p + 1)
  <2>1. k \in Int /\ n \in Nat \ {0} /\ np \in Nat \ {0}
    OBVIOUS
  <2> QED BY <2>1, OwnersPatchClipped
<1>2. Clipped(k, n) = k - 1
  BY DEF Clipped
<1>3. u \in 1 .. n /\ q < u
  BY Used
<1>4. \A s, t \in 0 .. u : s <= t => F(s) <= F(t)
  BY <1>3, FirstOfMonotone
<1>5. \A t \in 0 .. u - 1 : F(t) \in Int /\ F(t + 1) \in Int
  <2>1. Large(n, u) \in Int /\ Small(n, u) \in Int
    BY <1>3, Division3
  <2>2. ASSUME NEW t \in 0 .. u - 1
        PROVE  F(t) \in Nat /\ (F(t + 1) = F(t) + Large(n, u) \/ F(t + 1) = F(t) + Small(n, u))
    BY <1>3, PatchSize
  <2> QED BY <2>1, <2>2
<1> HIDE DEF p, u, F
<1>6. F(p) \in Int /\ F(p + 1) \in Int /\ F(q) \in Int /\ F(q + 1) \in Int
  BY <1>1, <1>3, <1>5
<1>7. ASSUME p = q PROVE F(q) < k /\ k <= F(q + 1)
  BY <1>1, <1>2, <1>6, <1>7
<1>8. ASSUME F(q) < k, k <= F(q + 1) PROVE p = q
  <2>1. ASSUME p < q PROVE FALSE
    <3>1. p + 1 \in 0 .. u /\ q \in 0 .. u /\ p + 1 <= q
      BY <1>1, <1>3, <2>1
    <3>2. F(p + 1) <= F(q)
      BY <1>4, <3>1
    <3> QED BY <1>1, <1>2, <1>6, <1>8, <3>2
  <2>2. ASSUME q < p PROVE FALSE
    <3>1. q + 1 \in 0 .. u /\ p \in 0 .. u /\ q + 1 <= p
      BY <1>1, <1>3, <2>2
    <3>2. F(q + 1) <= F(p)
      BY <1>4, <3>1
    <3> QED BY <1>1, <1>2, <1>6, <1>8, <3>2
  <2> QED BY <1>1, <1>3, <2>1, <2>2
<1>9. p = q <=> F(q) < k /\ k <= F(q + 1)
  BY <1>7, <1>8
<1> QED BY <1>9 DEF p, u, F

\* No task that is used is without a point, and none has more than one point
\* more than another: np tasks share n points as evenly as they can.
THEOREM PatchesBalanced ==
  \A n, np \in Nat \ {0}, q \in Nat :
    q < TasksUsed(n, np) =>
      FirstOf(q + 1, n, TasksUsed(n, np)) - FirstOf(q, n, TasksUsed(n, np))
        \in {n \div TasksUsed(n, np), (n \div TasksUsed(n, np)) + 1} \ {0}
<1> TAKE n, np \in Nat \ {0}, q \in Nat
<1> HAVE q < TasksUsed(n, np)
<1> DEFINE u == TasksUsed(n, np)
           F(t) == FirstOf(t, n, u)
<1>1. u \in 1 .. n /\ q \in 0 .. u - 1
  BY Used
<1>2. Small(n, u) \in Nat \ {0} /\ Large(n, u) = Small(n, u) + 1
  BY <1>1, Division3
<1>3. F(q) \in Nat /\ (F(q + 1) = F(q) + Large(n, u) \/ F(q + 1) = F(q) + Small(n, u))
  BY <1>1, PatchSize
<1>4. Small(n, u) = n \div u
  BY DEF Small
<1> HIDE DEF u, F
<1>5. F(q + 1) - F(q) \in {n \div u, (n \div u) + 1} \ {0}
  BY <1>2, <1>3, <1>4
<1> QED BY <1>5 DEF u, F

-----------------------------------------------------------------------------
(* Domains and patches                                                     *)

-----------------------------------------------------------------------------
(* The halo exchange.  Domains and their decomposition                       *)

\* The owner of point k of domain g along an axis
At(g, ax, k) == Owner[g][ax][k]
Places(g, ax) == 0 .. Count(g, ax) - 1
Around(g, ax) == 1 - 2 * MaxHalo(g) .. LastPoint(g, ax) + 2 * MaxHalo(g)
FirstOn(g, ax, p) == Patch[g][ax][p].first
LastOn(g, ax, p) == Patch[g][ax][p].last

\* A non-empty set of integers between two has a greatest and a least element.
LEMMA Extremes ==
  ASSUME NEW S, S \subseteq Int, S # {}, NEW a \in Int, NEW b \in Int, \A x \in S : a <= x /\ x <= b
  PROVE  /\ Max(S) \in S /\ \A x \in S : x <= Max(S)
         /\ Min(S) \in S /\ \A x \in S : Min(S) <= x
<1> DEFINE U == {n \in Nat : b - n \in S}
           L == {n \in Nat : a + n \in S}
<1>1. PICK s : s \in S
  OBVIOUS
<1>2. U # {} /\ L # {}
  <2>1. b - s \in Nat /\ b - (b - s) = s /\ s - a \in Nat /\ a + (s - a) = s
    BY <1>1
  <2> QED BY <1>1, <2>1
<1>3. PICK m \in U : \A n \in U : m <= n
  BY <1>2, LeastNat
<1>4. PICK l \in L : \A n \in L : l <= n
  BY <1>2, LeastNat
<1>5. ASSUME NEW x \in S PROVE x <= b - m /\ a + l <= x
  <2>1. b - x \in Nat /\ b - (b - x) = x /\ x - a \in Nat /\ a + (x - a) = x
    OBVIOUS
  <2>2. b - x \in U /\ x - a \in L
    BY <2>1
  <2>3. m <= b - x /\ l <= x - a /\ m \in Nat /\ l \in Nat
    BY <1>3, <1>4, <2>2
  <2> QED BY <2>3
<1>6. b - m \in S /\ a + l \in S
  BY <1>3, <1>4
<1>7. \E x \in S : \A y \in S : x >= y
  BY <1>5, <1>6
<1>8. \E x \in S : \A y \in S : x =< y
  BY <1>5, <1>6
<1>9. Max(S) \in S /\ \A y \in S : Max(S) >= y
  BY <1>7 DEF Max
<1>10. Min(S) \in S /\ \A y \in S : Min(S) =< y
  BY <1>8 DEF Min
<1> QED BY <1>9, <1>10

\* An element above all others is the greatest.
LEMMA MaxIs ==
  ASSUME NEW S, S \subseteq Int, NEW m \in S, \A x \in S : x <= m
  PROVE  Max(S) = m
<1>1. \E x \in S : \A y \in S : x >= y
  OBVIOUS
<1>2. Max(S) \in S /\ \A y \in S : Max(S) >= y
  BY <1>1 DEF Max
<1>3. Max(S) \in Int /\ m \in Int /\ Max(S) >= m /\ Max(S) <= m
  BY <1>2
<1> QED BY <1>3

\* A sequence of numbers has a bound.
LEMMA SeqBound ==
  ASSUME NEW h \in Seq(Nat)
  PROVE  \E b \in Nat : \A i \in 1 .. Len(h) : h[i] <= b
<1> DEFINE P == {n \in Nat : n <= Len(h) => \E b \in Nat : \A i \in 1 .. n : h[i] <= b}
<1>1. Len(h) \in Nat
  OBVIOUS
<1>2. 0 \in P
  OBVIOUS
<1>3. ASSUME NEW n \in 0 .. Len(h) - 1, n \in P PROVE n + 1 \in P
  <2>1. PICK b \in Nat : \A i \in 1 .. n : h[i] <= b
    BY <1>1, <1>3
  <2>2. h[n + 1] \in Nat
    BY <1>1
  <2>3. PICK c \in Nat : c = b + h[n + 1]
    BY <2>2
  <2>4. \A i \in 1 .. n + 1 : h[i] <= c
    <3> SUFFICES ASSUME NEW i \in 1 .. n + 1 PROVE h[i] <= c
      OBVIOUS
    <3>1. h[i] \in Nat
      BY <1>1
    <3>2. i \in 1 .. n \/ i = n + 1
      OBVIOUS
    <3> QED BY <2>1, <2>2, <2>3, <3>1, <3>2
  <2>5. \E x \in Nat : \A i \in 1 .. n + 1 : h[i] <= x
    BY <2>4
  <2>6. n + 1 \in Nat
    OBVIOUS
  <2> QED BY <2>5, <2>6
<1> HIDE DEF P
<1>4. Len(h) \in P
  <2>1. PICK l \in Nat : l = Len(h)
    BY <1>1
  <2>2. \A n \in 0 .. l - 1 : n \in P => n + 1 \in P
    BY <1>3, <2>1
  <2>3. \A n \in 0 .. l : n \in P
    BY <1>2, <2>2, UpTo
  <2> QED BY <2>1, <2>3
<1> QED BY <1>1, <1>4 DEF P

\* What the assumption on the domains says of one of them.
LEMMA GridIs ==
  ASSUME NEW g \in Grids, NEW ax \in Axes
  PROVE  /\ Count(g, ax) \in Nat \ {0} /\ Points(g, ax) \in Nat \ {0}
         /\ g.ratio \in Nat /\ g.nest \in Nat
         /\ Len(g.halos) \in Nat \ {0}
         /\ \A r \in 1 .. Len(g.halos) : g.halos[r] \in Nat \ {0} /\ g.halos[r] <= MaxHalo(g)
         /\ MaxHalo(g) \in Nat /\ g.nest <= MaxHalo(g)
         /\ LastPoint(g, ax) \in Nat \ {0}
<1>1. /\ g.nx \in Nat \ {0} /\ g.ny \in Nat \ {0} /\ g.ni \in Nat \ {0} /\ g.nj \in Nat \ {0}
      /\ g.ratio \in Nat /\ g.nest \in Nat /\ g.halos \in Seq(Nat \ {0}) /\ g.halos # <<>>
  BY GridAssumption
<1>2. Count(g, ax) \in Nat \ {0} /\ Points(g, ax) \in Nat \ {0}
  BY <1>1 DEF Count, Points
<1>3. PICK h : h = g.halos
  OBVIOUS
<1>4. h \in Seq(Nat) /\ Len(h) \in Nat \ {0} /\ DOMAIN h = 1 .. Len(h)
      /\ \A r \in 1 .. Len(h) : h[r] \in Nat \ {0}
  BY <1>1, <1>3
<1>5. PICK b \in Nat : \A i \in 1 .. Len(h) : h[i] <= b
  BY <1>4, SeqBound
<1> DEFINE S == Range(h) \union {g.nest}
<1>0. PICK w \in Nat : w = g.nest
  BY <1>1
<1>6. S = {h[r] : r \in 1 .. Len(h)} \union {w}
  BY <1>0, <1>4 DEF Range
<1> HIDE DEF S
<1>7. /\ S \subseteq Int /\ S # {} /\ w \in S /\ \A r \in 1 .. Len(h) : h[r] \in S
      /\ \A x \in S : 0 <= x /\ x <= b + w
  BY <1>0, <1>4, <1>5, <1>6, SMTT(30)
<1>8. 0 \in Int /\ b + w \in Int
  OBVIOUS
<1>9. Max(S) \in S /\ \A x \in S : x <= Max(S)
  BY <1>7, <1>8, Extremes
<1>10. MaxHalo(g) = Max(S)
  BY <1>3 DEF MaxHalo, S
<1>11. MaxHalo(g) \in Nat /\ g.nest <= MaxHalo(g) /\ \A r \in 1 .. Len(h) : h[r] <= MaxHalo(g)
  <2>1. PICK m : m = MaxHalo(g)
    OBVIOUS
  <2>2. m \in S /\ \A x \in S : x <= m
    BY <1>9, <1>10, <2>1
  <2>3. 0 <= m /\ m \in Int /\ w <= m /\ \A r \in 1 .. Len(h) : h[r] <= m
    BY <1>7, <2>2
  <2> QED BY <1>0, <2>1, <2>3
<1>12. LastPoint(g, ax) \in Nat \ {0}
  <2>1. CASE g.ratio = 0
    BY <1>2, <2>1 DEF LastPoint
  <2>2. CASE g.ratio # 0
    <3>1. g.ratio \in Nat \ {0}
      BY <1>1, <2>2
    <3>2. Points(g, ax) \div g.ratio \in Nat
      <4>1. PICK x \in Nat, d \in Nat \ {0} : x = Points(g, ax) /\ d = g.ratio
        BY <1>2, <3>1
      <4>2. x \div d \in Nat
        <5>1. x \div d \in Int /\ x % d \in 0 .. d - 1 /\ x = d * (x \div d) + (x % d)
          BY Division
        <5>2. ASSUME x \div d <= -1 PROVE FALSE
          <6>1. d * (x \div d) <= d * (-1)
            BY <5>1, <5>2, Times
          <6> QED BY <5>1, <6>1
        <5> QED BY <5>1, <5>2
      <4> QED BY <4>1, <4>2
    <3>3. LastPoint(g, ax) = Points(g, ax) \div g.ratio + 2 + 2 * g.nest
      BY <2>2 DEF LastPoint
    <3>4. PICK q \in Nat, v \in Nat : q = Points(g, ax) \div g.ratio /\ v = g.nest
      BY <1>1, <3>2
    <3> QED BY <3>3, <3>4
  <2> QED BY <2>1, <2>2
<1> QED BY <1>1, <1>2, <1>3, <1>4, <1>11, <1>12

\* Owners are tasks of the mesh, in the order of the points.
LEMMA OwnerIs ==
  ASSUME NEW g \in Grids, NEW ax \in Axes
  PROVE  /\ \A k \in Around(g, ax) : At(g, ax, k) \in Places(g, ax)
         /\ \A j, k \in Around(g, ax) : j <= k => At(g, ax, j) <= At(g, ax, k)
<1>1. PICK n \in Nat \ {0}, np \in Nat \ {0}, d \in Nat, w \in Nat :
        n = Points(g, ax) /\ np = Count(g, ax) /\ d = g.ratio /\ w = g.nest
  BY GridIs
<1> DEFINE F(k) == IF d = 0 THEN k ELSE (k - (w + 1)) * d + 2
<1>2. \A k \in Int : F(k) \in Int
  OBVIOUS
<1>3. ASSUME NEW j \in Int, NEW k \in Int, j <= k PROVE F(j) <= F(k)
  <2>1. PICK y \in Int, z \in Int : y = j - (w + 1) /\ z = k - (w + 1) /\ y <= z
    BY <1>3
  <2>2. d * y <= d * z
    BY <2>1, Times
  <2>3. y * d <= z * d
    BY <2>2
  <2> QED BY <1>3, <2>1, <2>3
<1> DEFINE G == Around(g, ax)
<1>4. G \subseteq Int
  BY GridIs DEF Around
<1>5. \A k \in G : At(g, ax, k) = TaskOf(F(k), n, np)
  BY <1>1 DEF At, Owner, Around
<1> HIDE DEF F, G
<1>6. ASSUME NEW k \in G PROVE At(g, ax, k) \in 0 .. np - 1
  <2>1. F(k) \in Int
    BY <1>2, <1>4
  <2> QED BY <1>5, <2>1, OwnerIsATask
<1>7. ASSUME NEW j \in G, NEW k \in G, j <= k PROVE At(g, ax, j) <= At(g, ax, k)
  <2>1. F(j) \in Int /\ F(k) \in Int /\ F(j) <= F(k)
    BY <1>2, <1>3, <1>4, <1>7
  <2>2. TaskOf(F(j), n, np) <= TaskOf(F(k), n, np)
    BY <2>1, OwnersInOrder
  <2> QED BY <1>5, <2>2
<1> QED BY <1>1, <1>6, <1>7 DEF Places, G

\* The owned points of a place: those between its ends.
LEMMA OwnIs ==
  ASSUME NEW g \in Grids, NEW ax \in Axes, NEW p \in Places(g, ax), NEW S, S = Own[g][ax][p]
  PROVE  /\ S # {} /\ S \subseteq Domain(g, ax)
         /\ \A k \in Domain(g, ax) : k \in S <=> At(g, ax, k) = p
         /\ Min(S) \in S /\ Max(S) \in S /\ \A k \in S : Min(S) <= k /\ k <= Max(S)
<1>1. S = {k \in Domain(g, ax) : At(g, ax, k) = p}
  BY DEF Own, At, Places
<1>2. S # {}
  <2>1. DOMAIN Own[g][ax] = Places(g, ax)
    BY DEF Own, Places
  <2>2. S \in Range(Own[g][ax])
    BY <2>1 DEF Range
  <2> QED BY <2>2, PatchAssumption
<1>3. LastPoint(g, ax) \in Nat
  BY GridIs
<1>4. S \subseteq Int /\ \A x \in S : 1 <= x /\ x <= LastPoint(g, ax)
  BY <1>1, <1>3 DEF Domain
<1>5. PICK a \in Int, b \in Int : a = 1 /\ b = LastPoint(g, ax)
  BY <1>3
<1>6. /\ Max(S) \in S /\ \A x \in S : x <= Max(S)
      /\ Min(S) \in S /\ \A x \in S : Min(S) <= x
  BY <1>2, <1>4, <1>5, Extremes
<1> QED BY <1>1, <1>2, <1>6

\* The points of a domain have owners.
LEMMA DomainAround ==
  ASSUME NEW g \in Grids, NEW ax \in Axes
  PROVE  /\ LastPoint(g, ax) \in Nat \ {0} /\ MaxHalo(g) \in Nat
         /\ \A k \in Domain(g, ax) : k \in Int /\ 1 <= k /\ k <= LastPoint(g, ax) /\ k \in Around(g, ax)
         /\ \A k \in Int : 1 <= k /\ k <= LastPoint(g, ax) => k \in Domain(g, ax)
<1>1. PICK l \in Nat \ {0}, m \in Nat : l = LastPoint(g, ax) /\ m = MaxHalo(g)
  BY GridIs
<1> QED BY <1>1 DEF Domain, Around

\* Patches follow each other, in the order of the places, from the first point
\* of the domain to its last.
LEMMA OwnFollows ==
  ASSUME NEW g \in Grids, NEW ax \in Axes, NEW p \in Places(g, ax), NEW S, S = Own[g][ax][p]
  PROVE  /\ p = 0 => Min(S) = 1
         /\ p = Count(g, ax) - 1 => Max(S) = LastPoint(g, ax)
         /\ \A k \in Domain(g, ax) : k \in S <=> Min(S) <= k /\ k <= Max(S)
         /\ \A q \in Places(g, ax) : q = p + 1 => Min(Own[g][ax][q]) = Max(S) + 1
<1>1. PICK l \in Nat \ {0} : l = LastPoint(g, ax)
  BY GridIs
<1>2. PICK D : D = Domain(g, ax)
  OBVIOUS
<1>3. \A k \in D : k \in Int /\ 1 <= k /\ k <= l /\ k \in Around(g, ax)
  BY <1>1, <1>2, DomainAround
<1>4. \A k \in Int : 1 <= k /\ k <= l => k \in D
  BY <1>1, <1>2, DomainAround
<1>5. PICK O : \A k \in D : O[k] = At(g, ax, k)
  <2>1. \A k \in D : Owner[g][ax][k] = At(g, ax, k)
    BY DEF At
  <2> QED BY <2>1
<1>6. /\ \A k \in D : O[k] \in Places(g, ax)
      /\ \A j, k \in D : j <= k => O[j] <= O[k]
  BY <1>3, <1>5, OwnerIs
<1>7. Places(g, ax) \subseteq Int /\ \A q \in Places(g, ax) : 0 <= q /\ q <= Count(g, ax) - 1 /\ q \in Int
  BY GridIs DEF Places
<1>8. PICK a, b : a = Min(S) /\ b = Max(S)
  OBVIOUS
<1>9. /\ S \subseteq D /\ \A k \in D : k \in S <=> O[k] = p
      /\ a \in S /\ b \in S /\ \A k \in S : a <= k /\ k <= b
  BY <1>2, <1>5, <1>8, OwnIs
<1>10. a \in D /\ b \in D /\ O[a] = p /\ O[b] = p /\ a \in Int /\ b \in Int
  BY <1>3, <1>9
<1>11. \A k \in D : k \in S <=> a <= k /\ k <= b
  <2> SUFFICES ASSUME NEW k \in D, a <= k, k <= b PROVE k \in S
    BY <1>9
  <2>1. O[a] <= O[k] /\ O[k] <= O[b] /\ O[k] \in Int /\ p \in Int
    BY <1>6, <1>7, <1>10
  <2>2. O[k] = p
    BY <1>10, <2>1
  <2> QED BY <1>9, <2>2
<1>12. ASSUME p = 0 PROVE a = 1
  <2>1. 1 \in D /\ 1 <= a
    BY <1>1, <1>3, <1>4, <1>10
  <2>2. O[1] <= O[a] /\ O[1] >= 0 /\ O[1] \in Int
    BY <1>6, <1>7, <1>10, <2>1
  <2>3. 1 \in S
    BY <1>9, <1>10, <1>12, <2>1, <2>2
  <2> QED BY <1>9, <1>10, <2>1, <2>3
<1>13. ASSUME p = Count(g, ax) - 1 PROVE b = l
  <2>1. l \in D /\ b <= l
    BY <1>1, <1>3, <1>4, <1>10
  <2>2. O[b] <= O[l] /\ O[l] <= Count(g, ax) - 1 /\ O[l] \in Int /\ p \in Int
    BY <1>6, <1>7, <1>10, <2>1
  <2>3. l \in S
    BY <1>9, <1>10, <1>13, <2>1, <2>2
  <2> QED BY <1>9, <1>10, <2>1, <2>3
<1>14. ASSUME NEW q \in Places(g, ax), q = p + 1, NEW c, c = Min(Own[g][ax][q]) PROVE c = b + 1
  <2>1. PICK T : T = Own[g][ax][q]
    OBVIOUS
  <2>2. /\ T \subseteq D /\ \A k \in D : k \in T <=> O[k] = q
        /\ c \in T /\ \A k \in T : c <= k
    <3>1. /\ T \subseteq Domain(g, ax) /\ \A k \in Domain(g, ax) : k \in T <=> At(g, ax, k) = q
          /\ Min(T) \in T /\ \A k \in T : Min(T) <= k
      BY <2>1, OwnIs
    <3>2. c = Min(T)
      BY <1>14, <2>1
    <3> QED BY <1>2, <1>5, <3>1, <3>2
  <2>3. c \in D /\ c \in Int /\ O[c] = q /\ p \in Int /\ q \in Int
    BY <1>3, <1>7, <2>2
  <2>4. b < c
    <3>1. ASSUME c <= b PROVE FALSE
      <4>1. O[c] <= O[b]
        BY <1>6, <1>10, <2>3, <3>1
      <4> QED BY <1>10, <1>14, <2>3, <4>1
    <3> QED BY <1>10, <2>3, <3>1
  <2>5. b + 1 \in D
    BY <1>3, <1>4, <1>10, <2>3, <2>4
  <2>6. O[b] <= O[b + 1] /\ O[b + 1] <= O[c] /\ O[b + 1] \in Int
    BY <1>6, <1>7, <1>10, <2>3, <2>4, <2>5
  <2>7. O[b + 1] = p \/ O[b + 1] = q
    BY <1>10, <1>14, <2>3, <2>6
  <2>8. O[b + 1] # p
    BY <1>9, <1>10, <2>5
  <2>9. b + 1 \in T
    BY <2>2, <2>5, <2>7, <2>8
  <2>10. c <= b + 1
    BY <2>2, <2>9
  <2> QED BY <1>10, <2>3, <2>4, <2>10
<1> QED BY <1>1, <1>2, <1>8, <1>11, <1>12, <1>13, <1>14

\* The ends of a patch.
LEMMA PatchIs ==
  ASSUME NEW g \in Grids, NEW ax \in Axes, NEW p \in Places(g, ax),
         NEW a, a = FirstOn(g, ax, p), NEW b, b = LastOn(g, ax, p), NEW l, l = LastPoint(g, ax),
         NEW N, N = Count(g, ax), NEW m, m = MaxHalo(g)
  PROVE  /\ a \in Int /\ b \in Int /\ a <= b /\ l \in Nat /\ N \in Nat \ {0} /\ m \in Nat
         /\ 1 - m <= a /\ a <= l /\ 1 <= b /\ b <= l + m
         /\ \A k \in Int : k \in Own[g][ax][p] <=> 1 <= k /\ k <= l /\ a <= k /\ k <= b
         /\ p = 0 => a <= 1
         /\ p = N - 1 => l <= b
         /\ p > 0 => 1 <= a /\ At(g, ax, a) = p
         /\ p < N - 1 => b <= l /\ At(g, ax, b) = p
         /\ \A q \in Places(g, ax) : q = p + 1 => FirstOn(g, ax, q) = b + 1
<1>1. PICK S : S = Own[g][ax][p]
  OBVIOUS
<1>2. PICK w \in Nat, z \in Nat : w = Edge(g) /\ z = g.nest /\ w <= z
  BY GridIs DEF Edge
<1>3. l \in Nat \ {0} /\ N \in Nat \ {0} /\ m \in Nat /\ w <= m /\ p \in 0 .. N - 1
  BY <1>2, GridIs DEF Places
<1>4. PICK c \in Int, d \in Int : c = Min(S) /\ d = Max(S)
  <2>1. Min(S) \in S /\ Max(S) \in S /\ S \subseteq Domain(g, ax)
    BY <1>1, OwnIs
  <2> QED BY <2>1, DomainAround
<1>5. /\ c \in S /\ d \in S /\ (\A k \in S : c <= k /\ k <= d) /\ S \subseteq Domain(g, ax)
      /\ \A k \in Domain(g, ax) : k \in S <=> At(g, ax, k) = p
  BY <1>1, <1>4, OwnIs
<1>6. /\ p = 0 => c = 1
      /\ p = N - 1 => d = l
      /\ \A k \in Domain(g, ax) : k \in S <=> c <= k /\ k <= d
      /\ \A q \in Places(g, ax) : q = p + 1 => Min(Own[g][ax][q]) = d + 1
  BY <1>1, <1>4, OwnFollows
<1>7. /\ \A k \in Domain(g, ax) : k \in Int /\ 1 <= k /\ k <= l
      /\ \A k \in Int : 1 <= k /\ k <= l => k \in Domain(g, ax)
  BY DomainAround
<1>8. /\ a = c - (IF p = 0 THEN w ELSE 0) /\ b = d + (IF p = N - 1 THEN w ELSE 0)
  BY <1>1, <1>2, <1>4 DEF FirstOn, LastOn, Patch, Places
<1>9. 1 <= c /\ c <= d /\ d <= l
  BY <1>5, <1>7
<1>10. a \in Int /\ b \in Int /\ a <= c /\ d <= b /\ 1 - m <= a /\ b <= l + m
  <2>1. CASE p = 0
    BY <1>3, <1>8, <1>9, <2>1
  <2>2. CASE p # 0
    BY <1>3, <1>8, <1>9, <2>2
  <2> QED BY <2>1, <2>2
<1>11. p = 0 \/ a = c
  BY <1>8
<1>12. p = N - 1 \/ b = d
  BY <1>8
<1>13. ASSUME NEW k \in Int PROVE k \in S <=> 1 <= k /\ k <= l /\ a <= k /\ k <= b
  <2>1. ASSUME k \in S PROVE 1 <= k /\ k <= l /\ a <= k /\ k <= b
    BY <1>5, <1>7, <1>10, <2>1
  <2>2. ASSUME 1 <= k, k <= l, a <= k, k <= b PROVE k \in S
    <3>1. k \in Domain(g, ax)
      BY <1>7, <2>2
    <3>2. c <= k
      BY <1>6, <1>11, <2>2
    <3>3. k <= d
      BY <1>6, <1>12, <2>2
    <3> QED BY <1>6, <3>1, <3>2, <3>3
  <2> QED BY <2>1, <2>2
<1>14. p = 0 => a <= 1
  BY <1>6, <1>10
<1>15. p = N - 1 => l <= b
  BY <1>6, <1>10
<1>16. p > 0 => 1 <= a /\ At(g, ax, a) = p
  <2> SUFFICES ASSUME p > 0 PROVE 1 <= a /\ At(g, ax, a) = p
    OBVIOUS
  <2>1. a = c
    BY <1>3, <1>11
  <2> QED BY <1>5, <1>9, <2>1
<1>17. p < N - 1 => b <= l /\ At(g, ax, b) = p
  <2> SUFFICES ASSUME p < N - 1 PROVE b <= l /\ At(g, ax, b) = p
    OBVIOUS
  <2>1. b = d
    BY <1>3, <1>12
  <2> QED BY <1>5, <1>9, <2>1
<1>18. ASSUME NEW q \in Places(g, ax), q = p + 1 PROVE FirstOn(g, ax, q) = b + 1
  <2>1. Min(Own[g][ax][q]) = d + 1
    BY <1>6, <1>18
  <2>2. q \in 0 .. N - 1
    BY <1>3, <1>18 DEF Places
  <2>3. q # 0 /\ p # N - 1
    BY <1>3, <1>18, <2>2
  <2>4. FirstOn(g, ax, q) = Min(Own[g][ax][q]) - (IF q = 0 THEN Edge(g) ELSE 0)
    BY <1>18 DEF FirstOn, Patch, Places
  <2>5. b = d
    BY <1>12, <2>3
  <2> QED BY <2>1, <2>3, <2>4, <2>5
<1> QED BY <1>1, <1>3, <1>9, <1>10, <1>13, <1>14, <1>15, <1>16, <1>17, <1>18

-----------------------------------------------------------------------------
(* Along one axis, in one direction                                          *)

\* How many of the first elements of z lie below k
Below(z, s, k) == {n \in 0 .. s : \A e \in 0 .. n - 1 : z[e] < k}
Upto(z, s, k) == Max(Below(z, s, k))
Orderly(z, s) == /\ s \in Nat /\ \A e \in 0 .. s - 1 : z[e] \in Nat
                 /\ \A e, f \in 0 .. s - 1 : e <= f => z[e] <= z[f]

\* The elements of an orderly row below k are its first ones.
LEMMA UptoIs ==
  ASSUME NEW z, NEW s, Orderly(z, s), NEW k \in Nat, NEW y, y = Upto(z, s, k)
  PROVE  y \in 0 .. s /\ \A e \in 0 .. s - 1 : e < y <=> z[e] < k
<1>0. s \in Nat /\ (\A e \in 0 .. s - 1 : z[e] \in Nat)
      /\ (\A e, f \in 0 .. s - 1 : e <= f => z[e] <= z[f])
  BY DEF Orderly
<1>1. PICK S : S = Below(z, s, k)
  OBVIOUS
<1>2. 0 \in S /\ S \subseteq Int /\ \A x \in S : 0 <= x /\ x <= s
  BY <1>0, <1>1 DEF Below
<1>3. S # {} /\ 0 \in Int /\ s \in Int
  BY <1>0, <1>2
<1>4. Max(S) \in S /\ \A x \in S : x <= Max(S)
  BY <1>2, <1>3, Extremes
<1>5. y \in S /\ \A x \in S : x <= y
  BY <1>1, <1>4 DEF Upto
<1>6. y \in 0 .. s /\ \A e \in 0 .. y - 1 : z[e] < k
  BY <1>1, <1>5 DEF Below
<1>7. ASSUME NEW e \in 0 .. s - 1, z[e] < k PROVE e < y
  <2>1. \A f \in 0 .. e : z[f] < k
    <3> SUFFICES ASSUME NEW f \in 0 .. e PROVE z[f] < k
      OBVIOUS
    <3>1. z[f] <= z[e] /\ z[f] \in Nat /\ z[e] \in Nat
      BY <1>0
    <3> QED BY <1>7, <3>1
  <2>2. e + 1 \in 0 .. s /\ (e + 1) - 1 = e
    BY <1>0
  <2>3. e + 1 \in S
    BY <1>1, <2>1, <2>2 DEF Below
  <2> QED BY <1>5, <1>6, <2>2, <2>3
<1>8. ASSUME NEW e \in 0 .. s - 1, e < y PROVE z[e] < k
  BY <1>6, <1>8
<1> QED BY <1>6, <1>7, <1>8

\* One iteration takes the elements that equal k.
LEMMA UptoStep ==
  ASSUME NEW z, NEW s, Orderly(z, s), NEW k \in Nat, NEW y, y = Upto(z, s, k),
         NEW y2, y2 = Upto(z, s, k + 1), NEW S,
         S = {n \in 0 .. s - y : \A e \in 0 .. n - 1 : z[y + e] = k} \union {0}
  PROVE  Max(S) = y2 - y /\ y <= y2
<1>0. s \in Nat /\ (\A e \in 0 .. s - 1 : z[e] \in Nat)
  BY DEF Orderly
<1>1. y \in 0 .. s /\ \A e \in 0 .. s - 1 : e < y <=> z[e] < k
  BY UptoIs
<1>2. k + 1 \in Nat
  OBVIOUS
<1>3. y2 \in 0 .. s /\ \A e \in 0 .. s - 1 : e < y2 <=> z[e] < k + 1
  BY <1>2, UptoIs
<1>4. y <= y2
  <2>1. ASSUME y2 < y PROVE FALSE
    <3>1. y2 \in 0 .. s - 1
      BY <1>0, <1>1, <1>3, <2>1
    <3>2. z[y2] < k /\ z[y2] \in Nat
      BY <1>0, <1>1, <2>1, <3>1
    <3>3. z[y2] < k + 1
      BY <3>2
    <3> QED BY <1>3, <3>1, <3>3
  <2> QED BY <1>1, <1>3, <2>1
<1>5. y2 - y \in S
  <2>1. y2 - y \in 0 .. s - y
    BY <1>0, <1>1, <1>3, <1>4
  <2>2. ASSUME NEW e \in 0 .. (y2 - y) - 1 PROVE z[y + e] = k
    <3>1. y + e \in 0 .. s - 1 /\ y + e < y2 /\ ~(y + e < y)
      BY <1>0, <1>1, <1>3
    <3>2. z[y + e] < k + 1 /\ ~(z[y + e] < k) /\ z[y + e] \in Nat
      BY <1>0, <1>1, <1>3, <3>1
    <3> QED BY <3>2
  <2> QED BY <2>1, <2>2
<1>6. ASSUME NEW n \in S PROVE n <= y2 - y
  <2>1. CASE n = 0
    BY <1>1, <1>3, <1>4, <2>1
  <2>2. CASE n # 0
    <3>1. n \in 0 .. s - y /\ \A e \in 0 .. n - 1 : z[y + e] = k
      BY <1>6, <2>2
    <3>2. ASSUME n > y2 - y PROVE FALSE
      <4>1. y2 - y \in 0 .. n - 1 /\ y + (y2 - y) = y2 /\ y2 \in 0 .. s - 1
        BY <1>0, <1>1, <1>3, <1>4, <3>1, <3>2
      <4>2. z[y2] = k
        BY <3>1, <4>1
      <4>3. ~(z[y2] < k + 1)
        BY <1>3, <4>1
      <4> QED BY <4>2, <4>3
    <3> QED BY <1>1, <1>3, <3>1, <3>2
  <2> QED BY <2>1, <2>2
<1>7. S \subseteq Int
  BY <1>0, <1>1
<1> QED BY <1>4, <1>5, <1>6, <1>7, MaxIs

-----------------------------------------------------------------------------
(* What passes a boundary in each iteration                                *)

\* The points at places p and p + d are neighbours.
Linked(g, ax, p, d) == p \in Places(g, ax) /\ p + d \in Places(g, ax)
\* How many tasks before p in direction d the owner of a point is: the points
\* p sends in direction d, from its edge on
Dist(g, ax, p, d, s) ==
  [e \in 0 .. s - 1 |-> IF d = 1 THEN p - At(g, ax, LastOn(g, ax, p) - e)
                                 ELSE At(g, ax, FirstOn(g, ax, p) + e) - p]
\* How many of them are sent in the first k iterations
Cov(g, ax, p, d, s, k) == IF Linked(g, ax, p, d) THEN Upto(Dist(g, ax, p, d, s), s, k) ELSE 0

\* Away from the edge of a patch, the tasks that own the points lie ever further
\* away, and there are no more than the mesh has.
LEMMA DistIs ==
  ASSUME NEW g \in Grids, NEW ax \in Axes, NEW p, NEW d \in {-1, 1}, Linked(g, ax, p, d),
         NEW s \in Nat \ {0}, s <= MaxHalo(g), NEW z, z = Dist(g, ax, p, d, s)
  PROVE  Orderly(z, s) /\ \A e \in 0 .. s - 1 : z[e] < Count(g, ax)
<1>1. p \in Places(g, ax) /\ p + d \in Places(g, ax)
  BY DEF Linked
<1>2. PICK a \in Int, b \in Int, l \in Nat, N \in Nat \ {0}, m \in Nat :
        /\ a = FirstOn(g, ax, p) /\ b = LastOn(g, ax, p) /\ l = LastPoint(g, ax)
        /\ N = Count(g, ax) /\ m = MaxHalo(g)
  BY <1>1, PatchIs
<1>3. /\ 1 - m <= a /\ a <= l /\ 1 <= b /\ b <= l + m
      /\ p > 0 => 1 <= a /\ At(g, ax, a) = p
      /\ p < N - 1 => b <= l /\ At(g, ax, b) = p
  BY <1>1, <1>2, PatchIs
<1>4. p \in 0 .. N - 1 /\ p + d \in 0 .. N - 1
  BY <1>1, <1>2 DEF Places
<1>5. \A k \in Int : k \in Around(g, ax) <=> 1 - 2 * m <= k /\ k <= l + 2 * m
  BY <1>2 DEF Around
<1>6. PICK O : \A k \in Around(g, ax) : O[k] = At(g, ax, k)
  <2>1. \A k \in Around(g, ax) : Owner[g][ax][k] = At(g, ax, k)
    BY DEF At
  <2> QED BY <2>1
<1>7. /\ \A k \in Around(g, ax) : O[k] \in 0 .. N - 1
      /\ \A j, k \in Around(g, ax) : j <= k => O[j] <= O[k]
  BY <1>2, <1>6, OwnerIs DEF Places
<1>8. CASE d = 1
  <2>1. p < N - 1 /\ b <= l /\ At(g, ax, b) = p
    BY <1>3, <1>4, <1>8
  <2>2. ASSUME NEW e \in 0 .. s - 1 PROVE b - e \in Around(g, ax)
    BY <1>2, <1>3, <1>5, <2>1
  <2>3. ASSUME NEW e \in 0 .. s - 1 PROVE z[e] = p - O[b - e]
    <3>1. z[e] = p - At(g, ax, b - e)
      BY <1>2, <1>8 DEF Dist
    <3> QED BY <1>6, <2>2, <3>1
  <2>4. b \in Around(g, ax) /\ O[b] = p
    <3>1. b \in Around(g, ax)
      BY <1>2, <1>3, <1>5, <2>1
    <3> QED BY <1>6, <2>1, <3>1
  <2>5. ASSUME NEW e \in 0 .. s - 1 PROVE z[e] \in Nat /\ z[e] < N
    <3>1. O[b - e] <= O[b] /\ O[b - e] \in 0 .. N - 1
      BY <1>7, <2>2, <2>4
    <3> QED BY <1>4, <2>3, <2>4, <3>1
  <2>6. ASSUME NEW e \in 0 .. s - 1, NEW f \in 0 .. s - 1, e <= f PROVE z[e] <= z[f]
    <3>1. b - e \in Int /\ b - f \in Int /\ b - f <= b - e
      BY <2>6
    <3>2. O[b - f] <= O[b - e] /\ O[b - f] \in 0 .. N - 1 /\ O[b - e] \in 0 .. N - 1
      BY <1>7, <2>2, <3>1
    <3> QED BY <1>4, <2>3, <3>2
  <2> QED BY <1>2, <2>5, <2>6 DEF Orderly
<1>9. CASE d = -1
  <2>1. p > 0 /\ 1 <= a /\ At(g, ax, a) = p
    BY <1>3, <1>4, <1>9
  <2>2. ASSUME NEW e \in 0 .. s - 1 PROVE a + e \in Around(g, ax)
    BY <1>2, <1>3, <1>5, <2>1
  <2>3. ASSUME NEW e \in 0 .. s - 1 PROVE z[e] = O[a + e] - p
    <3>1. z[e] = At(g, ax, a + e) - p
      BY <1>2, <1>9 DEF Dist
    <3> QED BY <1>6, <2>2, <3>1
  <2>4. a \in Around(g, ax) /\ O[a] = p
    <3>1. a \in Around(g, ax)
      BY <1>2, <1>3, <1>5, <2>1
    <3> QED BY <1>6, <2>1, <3>1
  <2>5. ASSUME NEW e \in 0 .. s - 1 PROVE z[e] \in Nat /\ z[e] < N
    <3>1. O[a] <= O[a + e] /\ O[a + e] \in 0 .. N - 1
      BY <1>7, <2>2, <2>4
    <3> QED BY <1>4, <2>3, <2>4, <3>1
  <2>6. ASSUME NEW e \in 0 .. s - 1, NEW f \in 0 .. s - 1, e <= f PROVE z[e] <= z[f]
    <3>1. a + e \in Int /\ a + f \in Int /\ a + e <= a + f
      BY <2>6
    <3>2. O[a + e] <= O[a + f] /\ O[a + e] \in 0 .. N - 1 /\ O[a + f] \in 0 .. N - 1
      BY <1>7, <2>2, <3>1
    <3> QED BY <1>4, <2>3, <3>2
  <2> QED BY <1>2, <2>5, <2>6 DEF Orderly
<1> QED BY <1>8, <1>9

\* What the first k iterations send: the points of the next k tasks, no more than
\* the stencil asks for, and after as many iterations as there are tasks, all.
LEMMA CovIs ==
  ASSUME NEW g \in Grids, NEW ax \in Axes, NEW p, NEW d \in {-1, 1}, Linked(g, ax, p, d),
         NEW s \in Nat \ {0}, s <= MaxHalo(g), NEW z, z = Dist(g, ax, p, d, s),
         NEW k \in Nat, NEW y, y = Cov(g, ax, p, d, s, k)
  PROVE  /\ y \in 0 .. s
         /\ \A e \in 0 .. s - 1 : e < y <=> z[e] < k
         /\ k >= Count(g, ax) => y = s
         /\ k = 0 => y = 0
<1>1. Orderly(z, s) /\ \A e \in 0 .. s - 1 : z[e] < Count(g, ax)
  BY DistIs
<1>2. y = Upto(z, s, k)
  BY DEF Cov
<1>3. y \in 0 .. s /\ \A e \in 0 .. s - 1 : e < y <=> z[e] < k
  BY <1>1, <1>2, UptoIs
<1>4. PICK N \in Nat \ {0} : N = Count(g, ax)
  BY GridIs
<1>5. \A e \in 0 .. s - 1 : z[e] \in Nat
  BY <1>1 DEF Orderly
<1>6. ASSUME k >= N PROVE y = s
  <2>1. ASSUME y # s PROVE FALSE
    <3>1. y \in 0 .. s - 1
      BY <1>3, <2>1
    <3>2. z[y] < N /\ z[y] \in Nat
      BY <1>1, <1>4, <1>5, <3>1
    <3>3. z[y] < k
      BY <1>6, <3>2
    <3> QED BY <1>3, <3>1, <3>3
  <2> QED BY <2>1
<1>7. ASSUME k = 0 PROVE y = 0
  <2>1. ASSUME y # 0 PROVE FALSE
    <3>1. 0 \in 0 .. s - 1 /\ 0 < y
      BY <1>3, <2>1
    <3>2. z[0] < k /\ z[0] \in Nat
      BY <1>3, <1>5, <3>1
    <3> QED BY <1>7, <3>2
  <2> QED BY <2>1
<1> QED BY <1>3, <1>4, <1>6, <1>7

\* Iteration k + 1 takes the points of the task k before p.
LEMMA CovStep ==
  ASSUME NEW g \in Grids, NEW ax \in Axes, NEW p, NEW d \in {-1, 1}, Linked(g, ax, p, d),
         NEW s \in Nat \ {0}, s <= MaxHalo(g), NEW z, z = Dist(g, ax, p, d, s),
         NEW k \in Nat, NEW y, y = Cov(g, ax, p, d, s, k), NEW S,
         S = {n \in 0 .. s - y : \A e \in 0 .. n - 1 : z[y + e] = k} \union {0}
  PROVE  Max(S) = Cov(g, ax, p, d, s, k + 1) - y /\ y <= Cov(g, ax, p, d, s, k + 1)
<1>1. Orderly(z, s)
  BY DistIs
<1>2. PICK y2 : y2 = Upto(z, s, k + 1)
  OBVIOUS
<1>3. y = Upto(z, s, k) /\ y2 = Cov(g, ax, p, d, s, k + 1)
  BY <1>2 DEF Cov
<1>4. Max(S) = y2 - y /\ y <= y2
  BY <1>1, <1>2, <1>3, UptoStep
<1> QED BY <1>3, <1>4

\* With or without a neighbour
LEMMA CovType ==
  ASSUME NEW g \in Grids, NEW ax \in Axes, NEW p \in Int, NEW d \in {-1, 1},
         NEW s \in Nat \ {0}, s <= MaxHalo(g), NEW k \in Nat
  PROVE  /\ Cov(g, ax, p, d, s, k) \in 0 .. s
         /\ Cov(g, ax, p, d, s, k + 1) \in 0 .. s
         /\ Cov(g, ax, p, d, s, k) <= Cov(g, ax, p, d, s, k + 1)
         /\ ~Linked(g, ax, p, d) => Cov(g, ax, p, d, s, k) = 0
         /\ Cov(g, ax, p, d, s, 0) = 0
         /\ k >= Count(g, ax) /\ Linked(g, ax, p, d) => Cov(g, ax, p, d, s, k) = s
<1>1. CASE ~Linked(g, ax, p, d)
  <2>1. /\ Cov(g, ax, p, d, s, k) = 0 /\ Cov(g, ax, p, d, s, k + 1) = 0
        /\ Cov(g, ax, p, d, s, 0) = 0
    BY <1>1 DEF Cov
  <2> QED BY <1>1, <2>1
<1>2. CASE Linked(g, ax, p, d)
  <2>1. k + 1 \in Nat /\ 0 \in Nat
    OBVIOUS
  <2>2. Cov(g, ax, p, d, s, k) \in 0 .. s /\ (k >= Count(g, ax) => Cov(g, ax, p, d, s, k) = s)
    BY <1>2, CovIs
  <2>3. Cov(g, ax, p, d, s, k + 1) \in 0 .. s
    BY <1>2, <2>1, CovIs
  <2>4. Cov(g, ax, p, d, s, 0) = 0
    BY <1>2, <2>1, CovIs
  <2>5. Cov(g, ax, p, d, s, k) <= Cov(g, ax, p, d, s, k + 1)
    BY <1>2, CovStep
  <2> QED BY <1>2, <2>2, <2>3, <2>4, <2>5
<1> QED BY <1>1, <1>2

\* Once all of them are through, they stay so.
LEMMA CovEnds ==
  ASSUME NEW g \in Grids, NEW ax \in Axes, NEW p \in Int, NEW d \in {-1, 1},
         NEW s \in Nat \ {0}, s <= MaxHalo(g), NEW k \in Nat, NEW j \in Nat, k <= j,
         Linked(g, ax, p, d) => Cov(g, ax, p, d, s, k) = s
  PROVE  Cov(g, ax, p, d, s, j) = Cov(g, ax, p, d, s, k)
<1>1. CASE ~Linked(g, ax, p, d)
  BY <1>1 DEF Cov
<1>2. CASE Linked(g, ax, p, d)
  <2>1. PICK z : z = Dist(g, ax, p, d, s)
    OBVIOUS
  <2>2. PICK y : y = Cov(g, ax, p, d, s, j)
    OBVIOUS
  <2>3. y \in 0 .. s /\ \A e \in 0 .. s - 1 : e < y <=> z[e] < j
    BY <1>2, <2>1, <2>2, CovIs
  <2>4. PICK x : x = Cov(g, ax, p, d, s, k)
    OBVIOUS
  <2>5. x \in 0 .. s /\ \A e \in 0 .. s - 1 : e < x <=> z[e] < k
    BY <1>2, <2>1, <2>4, CovIs
  <2>6. x = s
    BY <1>2, <2>4
  <2>7. \A e \in 0 .. s - 1 : z[e] \in Nat
    BY <1>2, <2>1, DistIs DEF Orderly
  <2>8. ASSUME y # s PROVE FALSE
    <3>1. y \in 0 .. s - 1 /\ y < x
      BY <2>3, <2>6, <2>8
    <3>2. z[y] < k /\ z[y] \in Nat
      BY <2>5, <2>7, <3>1
    <3>3. z[y] < j
      BY <3>2
    <3> QED BY <2>3, <3>1, <3>3
  <2> QED BY <2>2, <2>4, <2>6, <2>8
<1> QED BY <1>1, <1>2

\* The pointers of the task at place p after k iterations, the widths of the
\* next iteration, and whether every loop has come to its end
Ptr(g, ax, p, s, k) ==
  [sm |-> FirstOn(g, ax, p) + Cov(g, ax, p, -1, s, k),
   rm |-> FirstOn(g, ax, p) - 1 - Cov(g, ax, p - 1, 1, s, k),
   sp |-> LastOn(g, ax, p) - Cov(g, ax, p, 1, s, k),
   rp |-> LastOn(g, ax, p) + 1 + Cov(g, ax, p + 1, -1, s, k)]
Taken(g, ax, p, d, s, k) == Cov(g, ax, p, d, s, k + 1) - Cov(g, ax, p, d, s, k)
Gap(g, ax, p, s, k) ==
  [sm |-> Taken(g, ax, p, -1, s, k), rm |-> Taken(g, ax, p - 1, 1, s, k),
   sp |-> Taken(g, ax, p, 1, s, k), rp |-> Taken(g, ax, p + 1, -1, s, k)]
Ended(g, ax, p, d, s, k) == Linked(g, ax, p, d) => Cov(g, ax, p, d, s, k) = s
Full(g, ax, p, s, k) ==
  /\ Ended(g, ax, p, -1, s, k) /\ Ended(g, ax, p - 1, 1, s, k)
  /\ Ended(g, ax, p, 1, s, k) /\ Ended(g, ax, p + 1, -1, s, k)
Quads == [sm : Int, rm : Int, sp : Int, rp : Int]

\* The loop that takes points of place p going down, and of p going up
WideDown(g, ax, p, s, k) ==
  Max({m \in 0 .. s - Cov(g, ax, p, 1, s, k) :
         \A e \in 0 .. m - 1 : Owner[g][ax][LastOn(g, ax, p) - Cov(g, ax, p, 1, s, k) + (-1) * e] = p - k}
      \union {0})
WideUp(g, ax, p, s, k) ==
  Max({m \in 0 .. s - Cov(g, ax, p, -1, s, k) :
         \A e \in 0 .. m - 1 : Owner[g][ax][FirstOn(g, ax, p) + Cov(g, ax, p, -1, s, k) + 1 * e] = p + k}
      \union {0})

\* The loop of the sends to plus takes what iteration k + 1 is to take.
LEMMA WideDownIs ==
  ASSUME NEW g \in Grids, NEW ax \in Axes, NEW p \in Int, Linked(g, ax, p, 1),
         NEW s \in Nat \ {0}, s <= MaxHalo(g), NEW k \in Nat
  PROVE  WideDown(g, ax, p, s, k) = Taken(g, ax, p, 1, s, k)
<1>1. PICK z : z = Dist(g, ax, p, 1, s)
  OBVIOUS
<1>2. PICK y \in 0 .. s : y = Cov(g, ax, p, 1, s, k)
  BY CovType
<1>3. PICK b \in Int : b = LastOn(g, ax, p)
  BY PatchIs DEF Linked
<1>4. \A e \in 0 .. s - 1 : z[e] = p - Owner[g][ax][b - e]
  BY <1>1, <1>3 DEF Dist, At
<1>5. PICK O : O = Owner[g][ax]
  OBVIOUS
<1>6. \A j \in Around(g, ax) : O[j] \in Int
  <2>1. \A j \in Around(g, ax) : At(g, ax, j) \in Int
    BY OwnerIs, GridIs DEF Places
  <2> QED BY <1>5, <2>1 DEF At
<1>7. ASSUME NEW e \in 0 .. s - 1 PROVE b - e \in Around(g, ax)
  <2>1. PICK l \in Nat, m \in Nat : l = LastPoint(g, ax) /\ m = MaxHalo(g)
    BY GridIs
  <2>2. 1 <= b /\ b <= l + m
    BY <1>3, <2>1, PatchIs DEF Linked
  <2> QED BY <2>1, <2>2 DEF Around
<1> DEFINE S == {n \in 0 .. s - y : \A e \in 0 .. n - 1 : z[y + e] = k} \union {0}
           T == {n \in 0 .. s - y : \A e \in 0 .. n - 1 : O[b - y + (-1) * e] = p - k} \union {0}
<1>8. ASSUME NEW n \in 0 .. s - y, NEW e \in 0 .. n - 1
      PROVE z[y + e] = k <=> O[b - y + (-1) * e] = p - k
  <2>1. y + e \in 0 .. s - 1 /\ b - y + (-1) * e = b - (y + e)
    OBVIOUS
  <2>2. z[y + e] = p - O[b - (y + e)] /\ O[b - (y + e)] \in Int
    BY <1>4, <1>5, <1>6, <1>7, <2>1
  <2> QED BY <2>1, <2>2
<1>9. S = T
  BY <1>8
<1> HIDE DEF S, T
<1>10. Max(S) = Cov(g, ax, p, 1, s, k + 1) - y
  BY <1>1, <1>2, CovStep DEF S
<1>11. WideDown(g, ax, p, s, k) = Max(T)
  BY <1>2, <1>3, <1>5 DEF WideDown, T
<1> QED BY <1>2, <1>9, <1>10, <1>11 DEF Taken

\* So does the loop of the sends to minus.
LEMMA WideUpIs ==
  ASSUME NEW g \in Grids, NEW ax \in Axes, NEW p \in Int, Linked(g, ax, p, -1),
         NEW s \in Nat \ {0}, s <= MaxHalo(g), NEW k \in Nat
  PROVE  WideUp(g, ax, p, s, k) = Taken(g, ax, p, -1, s, k)
<1>1. PICK z : z = Dist(g, ax, p, -1, s)
  OBVIOUS
<1>2. PICK y \in 0 .. s : y = Cov(g, ax, p, -1, s, k)
  BY CovType
<1>3. PICK a \in Int : a = FirstOn(g, ax, p)
  BY PatchIs DEF Linked
<1>4. \A e \in 0 .. s - 1 : z[e] = Owner[g][ax][a + e] - p
  BY <1>1, <1>3 DEF Dist, At
<1>5. PICK O : O = Owner[g][ax]
  OBVIOUS
<1>6. \A j \in Around(g, ax) : O[j] \in Int
  <2>1. \A j \in Around(g, ax) : At(g, ax, j) \in Int
    BY OwnerIs, GridIs DEF Places
  <2> QED BY <1>5, <2>1 DEF At
<1>7. ASSUME NEW e \in 0 .. s - 1 PROVE a + e \in Around(g, ax)
  <2>1. PICK l \in Nat, m \in Nat : l = LastPoint(g, ax) /\ m = MaxHalo(g)
    BY GridIs
  <2>2. 1 - m <= a /\ a <= l
    BY <1>3, <2>1, PatchIs DEF Linked
  <2> QED BY <2>1, <2>2 DEF Around
<1> DEFINE S == {n \in 0 .. s - y : \A e \in 0 .. n - 1 : z[y + e] = k} \union {0}
           T == {n \in 0 .. s - y : \A e \in 0 .. n - 1 : O[a + y + 1 * e] = p + k} \union {0}
<1>8. ASSUME NEW n \in 0 .. s - y, NEW e \in 0 .. n - 1
      PROVE z[y + e] = k <=> O[a + y + 1 * e] = p + k
  <2>1. y + e \in 0 .. s - 1 /\ a + y + 1 * e = a + (y + e)
    OBVIOUS
  <2>2. z[y + e] = O[a + (y + e)] - p /\ O[a + (y + e)] \in Int
    BY <1>4, <1>5, <1>6, <1>7, <2>1
  <2> QED BY <2>1, <2>2
<1>9. S = T
  BY <1>8
<1> HIDE DEF S, T
<1>10. Max(S) = Cov(g, ax, p, -1, s, k + 1) - y
  BY <1>1, <1>2, CovStep DEF S
<1>11. WideUp(g, ax, p, s, k) = Max(T)
  BY <1>2, <1>3, <1>5 DEF WideUp, T
<1> QED BY <1>2, <1>9, <1>10, <1>11 DEF Taken

-----------------------------------------------------------------------------
(* rsl_comm_iter                                                           *)

\* A loop without room takes nothing.
LEMMA NoRoom ==
  ASSUME NEW ax, NEW x, NEW d, NEW q
  PROVE  Stretch(ax, x, d, 0, q) = 0
<1> DEFINE S == {m \in 0 .. 0 : \A e \in 0 .. m - 1 : Owner[grid][ax][x + d * e] = q} \union {0}
<1>1. 0 \in S /\ S \subseteq Int /\ \A n \in S : n <= 0
  OBVIOUS
<1>2. Stretch(ax, x, d, 0, q) = Max(S)
  BY DEF Stretch
<1> HIDE DEF S
<1> QED BY <1>1, <1>2, MaxIs

\* The neighbours of a task
LEMMA MeshIs ==
  ASSUME NEW g \in Grids, NEW ax \in Axes, NEW t \in Mesh(g)
  PROVE  /\ Place(t, ax) \in Places(g, ax) /\ Place(t, ax) \in Int
         /\ \A d \in {-1, 1} :
              /\ Linked(g, ax, Place(t, ax), d) <=> Neighbour(t, ax, d) \in Mesh(g)
              /\ Linked(g, ax, Place(t, ax) + d, -d) <=> Neighbour(t, ax, d) \in Mesh(g)
              /\ Place(Neighbour(t, ax, d), ax) = Place(t, ax) + d
              /\ Place(Neighbour(t, ax, d), Other(ax)) = Place(t, Other(ax))
              /\ Neighbour(Neighbour(t, ax, d), ax, -d) = t
              /\ Neighbour(t, ax, d) # t
<1>1. g.nx \in Nat \ {0} /\ g.ny \in Nat \ {0}
  BY GridAssumption
<1>2. PICK i \in 0 .. g.nx - 1, j \in 0 .. g.ny - 1 : t = <<i, j>>
  BY DEF Mesh
<1>3. i \in Int /\ j \in Int /\ t[1] = i /\ t[2] = j
  BY <1>1, <1>2
<1>4. CASE ax = "x"
  <2>1. /\ Place(t, ax) = i /\ Places(g, ax) = 0 .. g.nx - 1 /\ Place(t, Other(ax)) = j
    BY <1>3, <1>4 DEF Place, Places, Count, Other
  <2>2. ASSUME NEW d \in {-1, 1} PROVE
          /\ Linked(g, ax, i, d) <=> Neighbour(t, ax, d) \in Mesh(g)
          /\ Linked(g, ax, i + d, -d) <=> Neighbour(t, ax, d) \in Mesh(g)
          /\ Place(Neighbour(t, ax, d), ax) = i + d
          /\ Place(Neighbour(t, ax, d), Other(ax)) = j
          /\ Neighbour(Neighbour(t, ax, d), ax, -d) = t
          /\ Neighbour(t, ax, d) # t
    <3>1. PICK u : u = <<i + d, j>>
      OBVIOUS
    <3>2. Neighbour(t, ax, d) = u /\ u[1] = i + d /\ u[2] = j
      BY <1>3, <1>4, <3>1 DEF Neighbour
    <3>3. u \in Mesh(g) <=> i + d \in 0 .. g.nx - 1
      BY <1>2, <3>1 DEF Mesh
    <3>4. Linked(g, ax, i, d) <=> i + d \in 0 .. g.nx - 1
      BY <1>2, <2>1 DEF Linked
    <3>5. i + d + (-d) = i
      BY <1>3
    <3>6. Linked(g, ax, i + d, -d) <=> i + d \in 0 .. g.nx - 1
      BY <1>2, <2>1, <3>5 DEF Linked
    <3>7. Place(u, ax) = i + d /\ Place(u, Other(ax)) = j
      BY <1>4, <3>2 DEF Place, Other
    <3>8. Neighbour(u, ax, -d) = t
      BY <1>2, <1>4, <3>2, <3>5 DEF Neighbour
    <3>9. u # t
      BY <1>3, <3>2
    <3> QED BY <3>2, <3>3, <3>4, <3>6, <3>7, <3>8, <3>9
  <2> QED BY <1>2, <1>3, <2>1, <2>2
<1>5. CASE ax = "y"
  <2>1. /\ Place(t, ax) = j /\ Places(g, ax) = 0 .. g.ny - 1 /\ Place(t, Other(ax)) = i
    BY <1>3, <1>5 DEF Place, Places, Count, Other
  <2>2. ASSUME NEW d \in {-1, 1} PROVE
          /\ Linked(g, ax, j, d) <=> Neighbour(t, ax, d) \in Mesh(g)
          /\ Linked(g, ax, j + d, -d) <=> Neighbour(t, ax, d) \in Mesh(g)
          /\ Place(Neighbour(t, ax, d), ax) = j + d
          /\ Place(Neighbour(t, ax, d), Other(ax)) = i
          /\ Neighbour(Neighbour(t, ax, d), ax, -d) = t
          /\ Neighbour(t, ax, d) # t
    <3>1. PICK u : u = <<i, j + d>>
      OBVIOUS
    <3>2. Neighbour(t, ax, d) = u /\ u[1] = i /\ u[2] = j + d
      BY <1>3, <1>5, <3>1 DEF Neighbour
    <3>3. u \in Mesh(g) <=> j + d \in 0 .. g.ny - 1
      BY <1>2, <3>1 DEF Mesh
    <3>4. Linked(g, ax, j, d) <=> j + d \in 0 .. g.ny - 1
      BY <1>2, <2>1 DEF Linked
    <3>5. j + d + (-d) = j
      BY <1>3
    <3>6. Linked(g, ax, j + d, -d) <=> j + d \in 0 .. g.ny - 1
      BY <1>2, <2>1, <3>5 DEF Linked
    <3>7. Place(u, ax) = j + d /\ Place(u, Other(ax)) = i
      BY <1>5, <3>2 DEF Place, Other
    <3>8. Neighbour(u, ax, -d) = t
      BY <1>2, <1>5, <3>2, <3>5 DEF Neighbour
    <3>9. u # t
      BY <1>3, <3>2
    <3> QED BY <3>2, <3>3, <3>4, <3>6, <3>7, <3>8, <3>9
  <2> QED BY <1>2, <1>3, <2>1, <2>2
<1> QED BY <1>4, <1>5 DEF Axes

\* What rsl_comm_iter works out, in terms of what passes each boundary.
LEMMA PointersAre ==
  ASSUME NEW g \in Grids, grid = g, NEW ax \in Axes, NEW t \in Mesh(g), NEW p, p = Place(t, ax),
         NEW s \in Nat \ {0}, s <= MaxHalo(g), NEW k \in Nat,
         NEW f, f = Ptr(g, ax, p, s, k)
  PROVE  /\ Widths(t, ax, s, f, k + 1) = Gap(g, ax, p, s, k)
         /\ Went(t, ax, s, f) <=> ~Full(g, ax, p, s, k)
<1>1. p \in Places(g, ax) /\ p \in Int
  BY MeshIs
<1>2. PICK a \in Int, b \in Int, N \in Nat \ {0} :
        a = FirstOn(g, ax, p) /\ b = LastOn(g, ax, p) /\ N = Count(g, ax)
  BY <1>1, PatchIs
<1>3. Places(g, ax) = 0 .. N - 1
  BY <1>2 DEF Places
<1>4. First(t, ax) = a /\ Final(t, ax) = b
  BY <1>2 DEF First, Final, FirstOn, LastOn
<1>5. p - 1 \in Int /\ p + 1 \in Int
  BY <1>1
<1>6. PICK c1 \in 0 .. s, c2 \in 0 .. s, c3 \in 0 .. s, c4 \in 0 .. s :
        /\ c1 = Cov(g, ax, p, -1, s, k) /\ c2 = Cov(g, ax, p - 1, 1, s, k)
        /\ c3 = Cov(g, ax, p, 1, s, k) /\ c4 = Cov(g, ax, p + 1, -1, s, k)
  <2>1. Cov(g, ax, p, -1, s, k) \in 0 .. s
    BY <1>1, CovType
  <2>2. Cov(g, ax, p - 1, 1, s, k) \in 0 .. s
    BY <1>5, CovType
  <2>3. Cov(g, ax, p, 1, s, k) \in 0 .. s
    BY <1>1, CovType
  <2>4. Cov(g, ax, p + 1, -1, s, k) \in 0 .. s
    BY <1>5, CovType
  <2> QED BY <2>1, <2>2, <2>3, <2>4
<1>7. f.sm = a + c1 /\ f.rm = a - 1 - c2 /\ f.sp = b - c3 /\ f.rp = b + 1 + c4
  BY <1>2, <1>6 DEF Ptr
<1>8. PICK dn \in BOOLEAN, up \in BOOLEAN : (dn <=> p > 0) /\ (up <=> p < N - 1)
  <2>1. (p > 0) \in BOOLEAN /\ (p < N - 1) \in BOOLEAN
    BY <1>1
  <2> QED BY <2>1
<1>9. PICK r : r = Rooms(t, ax, s, f)
  OBVIOUS
<1>10. /\ r.sm = IF dn THEN s - c1 ELSE 0
       /\ r.rm = IF dn THEN s - c2 ELSE 0
       /\ r.sp = IF up THEN s - c3 ELSE 0
       /\ r.rp = IF up THEN s - c4 ELSE 0
  <2>1. /\ a + s - (a + c1) = s - c1 /\ (a - 1 - c2) - (a - s) + 1 = s - c2
        /\ b - c3 - (b - s) = s - c3 /\ b + s - (b + 1 + c4) + 1 = s - c4
    OBVIOUS
  <2>2. r = [sm |-> IF p > 0 THEN First(t, ax) + s - f.sm ELSE 0,
             rm |-> IF p > 0 THEN f.rm - (First(t, ax) - s) + 1 ELSE 0,
             sp |-> IF p < N - 1 THEN f.sp - (Final(t, ax) - s) ELSE 0,
             rp |-> IF p < N - 1 THEN Final(t, ax) + s - f.rp + 1 ELSE 0]
    BY <1>2, <1>9 DEF Rooms
  <2> QED BY <1>4, <1>7, <1>8, <2>1, <2>2
<1>11. DOMAIN r = {"sm", "rm", "sp", "rp"}
  BY <1>9 DEF Rooms
<1>12. /\ Linked(g, ax, p, -1) <=> dn
       /\ Linked(g, ax, p - 1, 1) <=> dn
       /\ Linked(g, ax, p, 1) <=> up
       /\ Linked(g, ax, p + 1, -1) <=> up
  BY <1>1, <1>3, <1>8 DEF Linked
<1>13. /\ dn => LastOn(g, ax, p - 1) = a - 1
       /\ up => FirstOn(g, ax, p + 1) = b + 1
  <2>1. ASSUME dn PROVE LastOn(g, ax, p - 1) = a - 1
    <3>1. PICK q : q = p - 1
      OBVIOUS
    <3>2. q \in Places(g, ax) /\ p = q + 1
      BY <1>1, <1>3, <1>8, <2>1, <3>1
    <3>3. FirstOn(g, ax, p) = LastOn(g, ax, q) + 1 /\ LastOn(g, ax, q) \in Int
      BY <1>1, <3>2, PatchIs
    <3> QED BY <1>2, <3>1, <3>3
  <2>2. ASSUME up PROVE FirstOn(g, ax, p + 1) = b + 1
    <3>1. PICK q : q = p + 1
      OBVIOUS
    <3>2. q \in Places(g, ax) /\ q = p + 1
      BY <1>1, <1>3, <1>8, <2>2, <3>1
    <3>3. FirstOn(g, ax, q) = b + 1
      BY <1>1, <1>2, <3>2, PatchIs
    <3> QED BY <3>1, <3>3
  <2> QED BY <2>1, <2>2
<1>14. Went(t, ax, s, f) <=> ~Full(g, ax, p, s, k)
  <2>1. Range(r) = {r.sm, r.rm, r.sp, r.rp}
    BY <1>11 DEF Range
  <2>2. Went(t, ax, s, f) <=> r.sm > 0 \/ r.rm > 0 \/ r.sp > 0 \/ r.rp > 0
    BY <1>9, <2>1 DEF Went
  <2>3. (dn => c1 = s) <=> ~(r.sm > 0)
    BY <1>10
  <2>4. (dn => c2 = s) <=> ~(r.rm > 0)
    BY <1>10
  <2>5. (up => c3 = s) <=> ~(r.sp > 0)
    BY <1>10
  <2>6. (up => c4 = s) <=> ~(r.rp > 0)
    BY <1>10
  <2>7. Ended(g, ax, p, -1, s, k) <=> (dn => c1 = s)
    BY <1>6, <1>12 DEF Ended
  <2>8. Ended(g, ax, p - 1, 1, s, k) <=> (dn => c2 = s)
    BY <1>6, <1>12 DEF Ended
  <2>9. Ended(g, ax, p, 1, s, k) <=> (up => c3 = s)
    BY <1>6, <1>12 DEF Ended
  <2>10. Ended(g, ax, p + 1, -1, s, k) <=> (up => c4 = s)
    BY <1>6, <1>12 DEF Ended
  <2> QED BY <2>2, <2>3, <2>4, <2>5, <2>6, <2>7, <2>8, <2>9, <2>10 DEF Full
<1>15. Widths(t, ax, s, f, k + 1) =
         [sm |-> Stretch(ax, f.sm, 1, r.sm, p + k), rm |-> Stretch(ax, f.rm, -1, r.rm, p - (k + 1)),
          sp |-> Stretch(ax, f.sp, -1, r.sp, p - k), rp |-> Stretch(ax, f.rp, 1, r.rp, p + (k + 1))]
  <2>1. (k + 1) - 1 = k
    OBVIOUS
  <2> QED BY <1>9, <2>1 DEF Widths, Source
<1>16. Stretch(ax, f.sm, 1, r.sm, p + k) = Taken(g, ax, p, -1, s, k)
  <2>1. CASE ~dn
    <3>1. r.sm = 0
      BY <1>10, <2>1
    <3>2. Taken(g, ax, p, -1, s, k) = 0
      BY <1>12, <2>1 DEF Cov, Taken
    <3> QED BY <3>1, <3>2, NoRoom
  <2>2. CASE dn
    <3>1. r.sm = s - c1
      BY <1>10, <2>2
    <3>2. Stretch(ax, f.sm, 1, r.sm, p + k) = WideUp(g, ax, p, s, k)
      BY <1>2, <1>6, <1>7, <3>1 DEF Stretch, WideUp
    <3> QED BY <1>1, <1>12, <2>2, <3>2, WideUpIs
  <2> QED BY <2>1, <2>2
<1>17. Stretch(ax, f.sp, -1, r.sp, p - k) = Taken(g, ax, p, 1, s, k)
  <2>1. CASE ~up
    <3>1. r.sp = 0
      BY <1>10, <2>1
    <3>2. Taken(g, ax, p, 1, s, k) = 0
      BY <1>12, <2>1 DEF Cov, Taken
    <3> QED BY <3>1, <3>2, NoRoom
  <2>2. CASE up
    <3>1. r.sp = s - c3
      BY <1>10, <2>2
    <3>2. Stretch(ax, f.sp, -1, r.sp, p - k) = WideDown(g, ax, p, s, k)
      BY <1>2, <1>6, <1>7, <3>1 DEF Stretch, WideDown
    <3> QED BY <1>1, <1>12, <2>2, <3>2, WideDownIs
  <2> QED BY <2>1, <2>2
<1>18. Stretch(ax, f.rm, -1, r.rm, p - (k + 1)) = Taken(g, ax, p - 1, 1, s, k)
  <2>0. PICK q \in Int : q = p - 1
    BY <1>5
  <2>1. CASE ~dn
    <3>1. r.rm = 0
      BY <1>10, <2>1
    <3>2. Taken(g, ax, q, 1, s, k) = 0
      BY <1>12, <2>0, <2>1 DEF Cov, Taken
    <3> QED BY <2>0, <3>1, <3>2, NoRoom
  <2>2. CASE dn
    <3>1. r.rm = s - c2
      BY <1>10, <2>2
    <3>2. f.rm = LastOn(g, ax, q) - c2 /\ p - (k + 1) = q - k
      BY <1>1, <1>7, <1>13, <2>0, <2>2
    <3>3. Stretch(ax, f.rm, -1, r.rm, q - k) = WideDown(g, ax, q, s, k)
      BY <1>6, <2>0, <3>1, <3>2 DEF Stretch, WideDown
    <3> QED BY <1>12, <2>0, <2>2, <3>2, <3>3, WideDownIs
  <2> QED BY <2>1, <2>2
<1>19. Stretch(ax, f.rp, 1, r.rp, p + (k + 1)) = Taken(g, ax, p + 1, -1, s, k)
  <2>0. PICK q \in Int : q = p + 1
    BY <1>5
  <2>1. CASE ~up
    <3>1. r.rp = 0
      BY <1>10, <2>1
    <3>2. Taken(g, ax, q, -1, s, k) = 0
      BY <1>12, <2>0, <2>1 DEF Cov, Taken
    <3> QED BY <2>0, <3>1, <3>2, NoRoom
  <2>2. CASE up
    <3>1. r.rp = s - c4
      BY <1>10, <2>2
    <3>2. f.rp = FirstOn(g, ax, q) + c4 /\ p + (k + 1) = q + k
      BY <1>1, <1>7, <1>13, <2>0, <2>2
    <3>3. Stretch(ax, f.rp, 1, r.rp, q + k) = WideUp(g, ax, q, s, k)
      BY <1>6, <2>0, <3>1, <3>2 DEF Stretch, WideUp
    <3> QED BY <1>12, <2>0, <2>2, <3>2, <3>3, WideUpIs
  <2> QED BY <2>1, <2>2
<1> QED BY <1>14, <1>15, <1>16, <1>17, <1>18, <1>19 DEF Gap

-----------------------------------------------------------------------------
(* Links: messages in the order of their keys                              *)

-----------------------------------------------------------------------------
(* The messages on a link.  A message is known by its round and iteration.   *)

Keys == Nat \X Nat
Lt(x, y) == x[1] < y[1] \/ (x[1] = y[1] /\ x[2] < y[2])
After(x) == <<x[1], x[2] + 1>>

\* The keys of messages are ordered.
LEMMA LtIs ==
  ASSUME NEW x \in Keys, NEW y \in Keys
  PROVE  /\ x = <<x[1], x[2]>> /\ x[1] \in Nat /\ x[2] \in Nat
         /\ After(x) \in Keys
         /\ Lt(y, After(x)) <=> Lt(y, x) \/ y = x
         /\ ~Lt(x, x)
         /\ ~(Lt(x, y) /\ Lt(y, x))
         /\ Lt(x, y) \/ Lt(y, x) \/ x = y
         /\ \A z \in Keys : Lt(x, y) /\ Lt(y, z) => Lt(x, z)
<1>1. PICK a \in Nat, b \in Nat : x = <<a, b>>
  BY DEF Keys
<1>2. PICK c \in Nat, d \in Nat : y = <<c, d>>
  BY DEF Keys
<1>3. x[1] = a /\ x[2] = b /\ y[1] = c /\ y[2] = d
  BY <1>1, <1>2
<1>4. x = y <=> a = c /\ b = d
  BY <1>1, <1>2, <1>3
<1>5. After(x) = <<a, b + 1>> /\ After(x) \in Keys
  BY <1>3 DEF After, Keys
<1>6. PICK u : u = After(x)
  OBVIOUS
<1>7. u[1] = a /\ u[2] = b + 1
  BY <1>5, <1>6
<1>8. Lt(y, u) <=> c < a \/ (c = a /\ d < b + 1)
  BY <1>3, <1>7 DEF Lt
<1>9. Lt(y, x) <=> c < a \/ (c = a /\ d < b)
  BY <1>3 DEF Lt
<1>10. Lt(x, y) <=> a < c \/ (a = c /\ b < d)
  BY <1>3 DEF Lt
<1>11. ~Lt(x, x)
  BY <1>3 DEF Lt
<1>12. ASSUME NEW z \in Keys, Lt(x, y), Lt(y, z) PROVE Lt(x, z)
  <2>1. PICK e \in Nat, f \in Nat : z[1] = e /\ z[2] = f
    BY DEF Keys
  <2>2. Lt(y, z) <=> c < e \/ (c = e /\ d < f)
    BY <1>3, <2>1 DEF Lt
  <2>3. Lt(x, z) <=> a < e \/ (a = e /\ b < f)
    BY <1>3, <2>1 DEF Lt
  <2> QED BY <1>10, <1>12, <2>2, <2>3
<1>13. Lt(y, u) <=> Lt(y, x) \/ y = x
  BY <1>4, <1>8, <1>9
<1>14. ~(Lt(x, y) /\ Lt(y, x)) /\ (Lt(x, y) \/ Lt(y, x) \/ x = y)
  BY <1>4, <1>9, <1>10
<1> QED BY <1>1, <1>3, <1>5, <1>6, <1>11, <1>12, <1>13, <1>14

\* Messages c on a link hold, in order, the keys of D before S, the next of
\* the sender, and not before R, the next of the receiver; M says what a message
\* of each key may be.
InOrder(f) == \A i, j \in 1 .. Len(f) : i < j => Lt(f[i], f[j])
Holds(f, x) == \E i \in 1 .. Len(f) : f[i] = x
Under(D, S, R, x) == x \in D /\ Lt(x, S) /\ ~Lt(x, R)
Labels(f, D, M, S, R, c) ==
  /\ f \in Seq(Keys) /\ Len(f) = Len(c)
  /\ InOrder(f)
  /\ \A x \in Keys : Holds(f, x) <=> Under(D, S, R, x)
  /\ \A i \in 1 .. Len(f) : <<f[i], c[i]>> \in M
Flow(D, M, S, R, c) ==
  /\ \E f : Labels(f, D, M, S, R, c)
  /\ \A x \in D : Lt(x, R) => Lt(x, S)

\* Progress past keys that carry nothing changes nothing.
LEMMA FlowSkips ==
  ASSUME NEW D, D \subseteq Keys, NEW M, NEW S, NEW R, NEW S2, NEW R2, NEW c, Flow(D, M, S, R, c),
         \A x \in D : (Lt(x, S2) <=> Lt(x, S)) /\ (Lt(x, R2) <=> Lt(x, R))
  PROVE  Flow(D, M, S2, R2, c)
<1>1. PICK f : Labels(f, D, M, S, R, c)
  BY DEF Flow
<1>2. \A x \in Keys : Under(D, S, R, x) <=> Under(D, S2, R2, x)
  BY DEF Under
<1>3. Labels(f, D, M, S2, R2, c)
  BY <1>1, <1>2 DEF Labels
<1>4. \A x \in D : Lt(x, R2) => Lt(x, S2)
  BY DEF Flow
<1> QED BY <1>3, <1>4 DEF Flow

\* A message sent under the next key goes to the end of the link.
LEMMA FlowSends ==
  ASSUME NEW D, D \subseteq Keys, NEW M, NEW S \in D, NEW R \in Keys, NEW C, NEW c \in Seq(C), NEW m \in C,
         Flow(D, M, S, R, c), <<S, m>> \in M
  PROVE  Flow(D, M, After(S), R, Append(c, m))
<1>1. PICK f : Labels(f, D, M, S, R, c)
  BY DEF Flow
<1>2. f \in Seq(Keys) /\ Len(f) = Len(c) /\ InOrder(f)
      /\ (\A x \in Keys : Holds(f, x) <=> Under(D, S, R, x))
      /\ \A i \in 1 .. Len(f) : <<f[i], c[i]>> \in M
  BY <1>1 DEF Labels
<1>3. S \in Keys
  OBVIOUS
<1>4. ~Lt(S, R)
  BY <1>3, LtIs DEF Flow
<1>5. PICK n \in Nat : n = Len(f)
  BY <1>2
<1>6. PICK f2, c2 : f2 = Append(f, S) /\ c2 = Append(c, m)
  OBVIOUS
<1>7. /\ f2 \in Seq(Keys) /\ Len(f2) = n + 1 /\ Len(c2) = n + 1
      /\ \A i \in 1 .. n : f2[i] = f[i] /\ c2[i] = c[i]
      /\ f2[n + 1] = S /\ c2[n + 1] = m
  BY <1>2, <1>3, <1>5, <1>6
<1>8. ASSUME NEW i \in 1 .. n PROVE f[i] \in Keys /\ Lt(f[i], S)
  <2>1. f[i] \in Keys
    BY <1>2, <1>5
  <2>2. Holds(f, f[i])
    BY <1>5 DEF Holds
  <2> QED BY <1>2, <2>1, <2>2 DEF Under
<1>9. InOrder(f2)
  <2>1. ASSUME NEW i \in 1 .. n + 1, NEW j \in 1 .. n + 1, i < j PROVE Lt(f2[i], f2[j])
    <3>1. i \in 1 .. n
      BY <1>5, <2>1
    <3>2. CASE j \in 1 .. n
      BY <1>2, <1>5, <1>7, <2>1, <3>1, <3>2 DEF InOrder
    <3>3. CASE j = n + 1
      BY <1>7, <1>8, <3>1, <3>3
    <3> QED BY <1>5, <3>2, <3>3
  <2> QED BY <1>7, <2>1 DEF InOrder
<1>10. ASSUME NEW x \in Keys PROVE Holds(f2, x) <=> Under(D, After(S), R, x)
  <2>1. Holds(f2, x) <=> Holds(f, x) \/ x = S
    <3>1. ASSUME Holds(f2, x) PROVE Holds(f, x) \/ x = S
      <4>1. PICK i \in 1 .. n + 1 : f2[i] = x
        BY <1>7, <3>1 DEF Holds
      <4>2. i \in 1 .. n \/ i = n + 1
        BY <1>5
      <4> QED BY <1>5, <1>7, <4>1, <4>2 DEF Holds
    <3>2. ASSUME Holds(f, x) PROVE Holds(f2, x)
      <4>1. PICK i \in 1 .. n : f[i] = x
        BY <1>5, <3>2 DEF Holds
      <4>2. i \in 1 .. n + 1 /\ f2[i] = x
        BY <1>5, <1>7, <4>1
      <4> QED BY <1>7, <4>2 DEF Holds
    <3>3. ASSUME x = S PROVE Holds(f2, x)
      <4>1. n + 1 \in 1 .. n + 1
        BY <1>5
      <4> QED BY <1>7, <3>3, <4>1 DEF Holds
    <3> QED BY <3>1, <3>2, <3>3
  <2>2. Lt(x, After(S)) <=> Lt(x, S) \/ x = S
    BY <1>3, LtIs
  <2> QED BY <1>2, <1>4, <2>1, <2>2 DEF Under
<1>11. ASSUME NEW i \in 1 .. n + 1 PROVE <<f2[i], c2[i]>> \in M
  <2>1. CASE i \in 1 .. n
    <3>1. f2[i] = f[i] /\ c2[i] = c[i] /\ i \in 1 .. Len(f)
      BY <1>5, <1>7, <2>1
    <3> QED BY <1>2, <3>1
  <2>2. CASE i = n + 1
    BY <1>7, <2>2
  <2> QED BY <1>5, <2>1, <2>2
<1>12. Labels(f2, D, M, After(S), R, c2)
  BY <1>7, <1>9, <1>10, <1>11 DEF Labels
<1>13. ASSUME NEW x \in D, Lt(x, R) PROVE Lt(x, After(S))
  BY <1>3, <1>13, LtIs DEF Flow
<1> QED BY <1>6, <1>12, <1>13 DEF Flow

\* What arrives first is what the receiver expects.
LEMMA FlowTakes ==
  ASSUME NEW D, D \subseteq Keys, NEW M, NEW S \in Keys, NEW R \in D, NEW C, NEW c \in Seq(C),
         c # <<>>, Flow(D, M, S, R, c)
  PROVE  <<R, Head(c)>> \in M /\ Flow(D, M, S, After(R), Tail(c)) /\ Head(c) \in C /\ Tail(c) \in Seq(C)
<1>1. PICK f : Labels(f, D, M, S, R, c)
  BY DEF Flow
<1>2. f \in Seq(Keys) /\ Len(f) = Len(c) /\ InOrder(f)
      /\ (\A x \in Keys : Holds(f, x) <=> Under(D, S, R, x))
      /\ \A i \in 1 .. Len(f) : <<f[i], c[i]>> \in M
  BY <1>1 DEF Labels
<1>3. R \in Keys
  OBVIOUS
<1>4. PICK n \in Nat : n + 1 = Len(f) /\ n + 1 = Len(c)
  <2>1. Len(c) \in Nat /\ Len(c) # 0
    OBVIOUS
  <2>2. Len(c) - 1 \in Nat /\ (Len(c) - 1) + 1 = Len(c)
    BY <2>1
  <2> QED BY <1>2, <2>2
<1>5. 1 \in 1 .. n + 1 /\ f[1] \in Keys
  BY <1>2, <1>4
<1>6. Under(D, S, R, f[1])
  BY <1>2, <1>4, <1>5 DEF Holds
<1>7. f[1] = R
  <2>1. ASSUME Lt(R, f[1]) PROVE FALSE
    <3>1. Lt(R, S)
      BY <1>3, <1>5, <1>6, <2>1, LtIs DEF Under
    <3>2. Under(D, S, R, R)
      BY <1>3, <3>1, LtIs DEF Under
    <3>3. PICK i \in 1 .. n + 1 : f[i] = R
      BY <1>2, <1>3, <1>4, <3>2 DEF Holds
    <3>4. CASE i = 1
      BY <1>3, <2>1, <3>3, <3>4, LtIs
    <3>5. CASE i # 1
      <4>1. Lt(f[1], f[i])
        BY <1>2, <1>4, <1>5, <3>5 DEF InOrder
      <4> QED BY <1>3, <1>5, <2>1, <3>3, <4>1, LtIs
    <3> QED BY <3>4, <3>5
  <2>2. ~Lt(f[1], R)
    BY <1>6 DEF Under
  <2> QED BY <1>3, <1>5, <2>1, <2>2, LtIs
<1>8. Head(c) = c[1] /\ Head(c) \in C /\ Tail(c) \in Seq(C)
  BY <1>4
<1>9. <<R, Head(c)>> \in M
  BY <1>2, <1>4, <1>5, <1>7, <1>8
<1>10. PICK f2, c2 : f2 = Tail(f) /\ c2 = Tail(c)
  OBVIOUS
<1>11. /\ f2 \in Seq(Keys) /\ Len(f2) = n /\ Len(c2) = n
       /\ \A i \in 1 .. n : f2[i] = f[i + 1] /\ c2[i] = c[i + 1] /\ i + 1 \in 1 .. n + 1
  BY <1>2, <1>4, <1>10
<1>12. InOrder(f2)
  <2>1. ASSUME NEW i \in 1 .. n, NEW j \in 1 .. n, i < j PROVE Lt(f2[i], f2[j])
    <3>1. i + 1 \in 1 .. n + 1 /\ j + 1 \in 1 .. n + 1 /\ i + 1 < j + 1
      BY <1>4, <2>1
    <3>2. Lt(f[i + 1], f[j + 1])
      BY <1>2, <1>4, <3>1 DEF InOrder
    <3> QED BY <1>11, <3>2
  <2> QED BY <1>11, <2>1 DEF InOrder
<1>13. ASSUME NEW x \in Keys PROVE Holds(f2, x) <=> Under(D, S, After(R), x)
  <2>1. Holds(f2, x) <=> Holds(f, x) /\ x # R
    <3>1. ASSUME Holds(f2, x) PROVE Holds(f, x) /\ x # R
      <4>1. PICK i \in 1 .. n : f2[i] = x
        BY <1>11, <3>1 DEF Holds
      <4>2. f[i + 1] = x /\ i + 1 \in 1 .. n + 1 /\ 1 < i + 1
        BY <1>4, <1>11, <4>1
      <4>3. Lt(f[1], f[i + 1])
        BY <1>2, <1>4, <1>5, <4>2 DEF InOrder
      <4> QED BY <1>3, <1>4, <1>7, <4>2, <4>3, LtIs DEF Holds
    <3>2. ASSUME Holds(f, x), x # R PROVE Holds(f2, x)
      <4>1. PICK i \in 1 .. n + 1 : f[i] = x
        BY <1>4, <3>2 DEF Holds
      <4>2. i # 1
        BY <1>7, <3>2, <4>1
      <4>3. i - 1 \in 1 .. n /\ (i - 1) + 1 = i
        BY <1>4, <4>2
      <4>4. f2[i - 1] = x
        BY <1>11, <4>1, <4>3
      <4> QED BY <1>11, <4>3, <4>4 DEF Holds
    <3> QED BY <3>1, <3>2
  <2>2. Lt(x, After(R)) <=> Lt(x, R) \/ x = R
    BY <1>3, LtIs
  <2> QED BY <1>2, <2>1, <2>2 DEF Under
<1>14. ASSUME NEW i \in 1 .. n PROVE <<f2[i], c2[i]>> \in M
  BY <1>2, <1>4, <1>11
<1>15. Labels(f2, D, M, S, After(R), c2)
  BY <1>11, <1>12, <1>13, <1>14 DEF Labels
<1>16. ASSUME NEW x \in D, Lt(x, After(R)) PROVE Lt(x, S)
  <2>1. Lt(x, R) \/ x = R
    BY <1>3, <1>16, LtIs
  <2> QED BY <1>6, <1>7, <2>1 DEF Under, Flow
<1> QED BY <1>8, <1>9, <1>10, <1>15, <1>16 DEF Flow

\* When the receiver is where the sender is, nothing is on its way.
LEMMA FlowEmpty ==
  ASSUME NEW D, D \subseteq Keys, NEW M, NEW S, NEW C, NEW c \in Seq(C), Flow(D, M, S, S, c)
  PROVE  c = <<>>
<1>1. PICK f : Labels(f, D, M, S, S, c)
  BY DEF Flow
<1>2. f \in Seq(Keys) /\ Len(f) = Len(c) /\ \A x \in Keys : ~Holds(f, x)
  BY <1>1 DEF Labels, Under
<1>3. ASSUME Len(c) # 0 PROVE FALSE
  <2>1. 1 \in 1 .. Len(f) /\ f[1] \in Keys
    BY <1>2, <1>3
  <2> QED BY <1>2, <2>1 DEF Holds
<1> QED BY <1>3

-----------------------------------------------------------------------------
(* The inductive invariant                                                   *)

Words == ((Int \X Int) \X Nat) \union {Junk}
Exchange(g) ==
  [pc : {"ready", "wait", "done"}, axis : Axes, round : 1 .. Len(g.halos), it : Nat,
   from : Quads, w : Quads]

\* Iterations a task has completed
Passed(s) == IF s.pc = "wait" THEN s.it - 1 ELSE s.it

\* The pointers of a task follow from its iterations, and it goes on with the
\* next axis when every loop has come to its end.
Tracked(g, t, s) ==
  LET p == Place(t, s.axis)
      h == g.halos[s.round]
  IN  /\ s.it <= Count(g, s.axis)
      /\ s.from = Ptr(g, s.axis, p, h, Passed(s))
      /\ s.pc = "wait" => s.it >= 1 /\ s.w = Gap(g, s.axis, p, h, s.it - 1)
      /\ s.pc = "done" => s.axis = "x" /\ Full(g, s.axis, p, h, s.it)

\* The next message of a task along ax when it is in iteration n + 1
Progress(s, ax, n) ==
  IF s.axis = ax /\ s.pc # "done" THEN <<s.round, n + 1>>
  ELSE IF ax = "x" /\ s.axis = "y" THEN <<s.round, 1>>
  ELSE <<s.round + 1, 1>>
NextSent(s, ax) == Progress(s, ax, s.it)
NextTaken(s, ax) == Progress(s, ax, Passed(s))

\* The messages place p sends in direction d, by round and iteration
Due(g, ax, p, d) ==
  {x \in Keys : /\ x[1] \in 1 .. Len(g.halos) /\ x[2] >= 1
                /\ Taken(g, ax, p, d, g.halos[x[1]], x[2] - 1) > 0}

\* The box of a message
ReachOf(g, t, ax, s) ==
  (FirstOn(g, ax, Place(t, ax)) - s .. LastOn(g, ax, Place(t, ax)) + s) \intersect Domain(g, ax)
AlongOf(g, ax, p, d, s, k) ==
  IF d = 1 THEN LastOn(g, ax, p) - Cov(g, ax, p, d, s, k + 1) + 1 .. LastOn(g, ax, p) - Cov(g, ax, p, d, s, k)
           ELSE FirstOn(g, ax, p) + Cov(g, ax, p, d, s, k) .. FirstOn(g, ax, p) + Cov(g, ax, p, d, s, k + 1) - 1
LinkBox(g, t, ax, d, s, k) ==
  Box(AlongOf(g, ax, Place(t, ax), d, s, k), ReachOf(g, t, Other(ax), s))

\* Across the axis a task knows its own columns, or the rows brought before.
Side(g, t, ax, s) == IF ax = "x" THEN ReachOf(g, t, "y", s) ELSE Own[g]["x"][t[1]]
\* The cells of a band along an axis that are known
Lies(g, t, ax, s, lo, hi, cell) ==
  LET z == CellAt(ax, cell[1], cell[2]) IN
  /\ z[1] \in Domain(g, ax) /\ lo <= z[1] /\ z[1] <= hi
  /\ z[2] \in Side(g, t, ax, s)

\* A message fills its box, with right words for the cells the sender knows.
Right(g, t, ax, r, box, m) ==
  \A cell \in Int \X Int :
    InBox(ax, box, cell) /\ CellAt(ax, cell[1], cell[2])[1] \in Domain(g, ax)
      /\ CellAt(ax, cell[1], cell[2])[2] \in Side(g, t, ax, g.halos[r])
    => m[PlaceOf(ax, box, cell)] = <<cell, r>>
Fits(g, t, ax, d, x, m) ==
  LET box == LinkBox(g, t, ax, d, g.halos[x[1]], x[2] - 1) IN
  Len(m) = Size(box) /\ Right(g, t, ax, x[1], box, m)
Messages(g, t, ax, d) == {y \in Keys \X Seq(Words) : Fits(g, t, ax, d, y[1], y[2])}

Known(g, t, s, cell) ==
  Lies(g, t, s.axis, g.halos[s.round], s.from.rm + 1, s.from.rp - 1, cell)
Remembers(g, t, s, m) ==
  /\ m \in [Cells[g][t] -> Words]
  /\ \A cell \in Int \X Int : Known(g, t, s, cell) => cell \in Cells[g][t] /\ m[cell] = <<cell, s.round>>

LinksOf(g) == {l \in Mesh(g) \X Mesh(g) :
  \E ax \in Axes, d \in {-1, 1} : l[2] = Neighbour(l[1], ax, d)}
OnLink(g, t, u, ax, d) ==
  Flow(Due(g, ax, Place(t, ax), d), Messages(g, t, ax, d),
       NextSent(st[t], ax), NextTaken(st[u], ax), chan[<<t, u>>])

TaskParts(g) ==
  /\ st \in [Mesh(g) -> Exchange(g)]
  /\ \A t \in Mesh(g) : Tracked(g, t, st[t])
MemoryParts(g) ==
  /\ DOMAIN mem = Mesh(g)
  /\ \A t \in Mesh(g) : Remembers(g, t, st[t], mem[t])
LinkParts(g) ==
  /\ chan \in [LinksOf(g) -> Seq(Seq(Words))]
  /\ \A t, u \in Mesh(g), ax \in Axes, d \in {-1, 1} :
       u = Neighbour(t, ax, d) => OnLink(g, t, u, ax, d)
Parts(g) == grid = g /\ TaskParts(g) /\ MemoryParts(g) /\ LinkParts(g)
IInv == \E g \in Grids : Parts(g)

-----------------------------------------------------------------------------
(* Boxes of cells                                                          *)

-----------------------------------------------------------------------------
(* Boxes                                                                     *)

\* An element below all others is the least.
LEMMA MinIs ==
  ASSUME NEW S, S \subseteq Int, NEW m \in S, \A x \in S : m <= x
  PROVE  Min(S) = m
<1>1. \E x \in S : \A y \in S : x =< y
  OBVIOUS
<1>2. Min(S) \in S /\ \A y \in S : Min(S) =< y
  BY <1>1 DEF Min
<1>3. Min(S) \in Int /\ m \in Int /\ Min(S) >= m /\ Min(S) <= m
  BY <1>2
<1> QED BY <1>3

\* The coordinates along and across an axis
LEMMA CoordsAre ==
  ASSUME NEW ax \in Axes, NEW cell \in Int \X Int, NEW z, z = CellAt(ax, cell[1], cell[2])
  PROVE  z \in Int \X Int /\ z[1] \in Int /\ z[2] \in Int /\ CellAt(ax, z[1], z[2]) = cell
<1>1. PICK i \in Int, j \in Int : cell = <<i, j>>
  OBVIOUS
<1>2. cell[1] = i /\ cell[2] = j
  BY <1>1
<1>3. CASE ax = "x"
  <2>1. z = <<i, j>>
    BY <1>2, <1>3 DEF CellAt
  <2>2. z[1] = i /\ z[2] = j /\ z \in Int \X Int
    BY <2>1
  <2> QED BY <1>1, <1>3, <2>2 DEF CellAt
<1>4. CASE ax = "y"
  <2>1. z = <<j, i>>
    BY <1>2, <1>4 DEF CellAt
  <2>2. z[1] = j /\ z[2] = i /\ z \in Int \X Int
    BY <2>1
  <2> QED BY <1>1, <1>4, <2>2 DEF CellAt
<1> QED BY <1>3, <1>4 DEF Axes

\* The cells of a box are numbered, and found again by their numbers.
Numbered(ax, box) ==
  /\ Size(box) \in Nat
  /\ \A cell \in Int \X Int : InBox(ax, box, cell) =>
       /\ PlaceOf(ax, box, cell) \in 1 .. Size(box)
       /\ CellOf(ax, box, PlaceOf(ax, box, cell)) = cell

\* Packing and unpacking visit the cells of a box in one order.
LEMMA BoxOrder ==
  ASSUME NEW ax \in Axes, NEW a \in Int, NEW b \in Int, NEW c \in Int, NEW e \in Int,
         NEW box, box = Box(a .. b, c .. e)
  PROVE  Numbered(ax, box)
<1>1. box.along = a .. b /\ box.across = c .. e
  BY DEF Box
<1>2. PICK w \in Nat : w = Cardinality(a .. b) /\ (a <= b => w = b - a + 1)
  <2>1. Cardinality(a .. b) = IF a > b THEN 0 ELSE b - a + 1
    BY FS_Interval
  <2> QED BY <2>1
<1>3. PICK h \in Nat : h = Cardinality(c .. e) /\ (c <= e => h = e - c + 1)
  <2>1. Cardinality(c .. e) = IF c > e THEN 0 ELSE e - c + 1
    BY FS_Interval
  <2> QED BY <2>1
<1>4. Size(box) = w * h
  BY <1>1, <1>2, <1>3 DEF Size
<1>5. w * h \in Nat
  OBVIOUS
<1>6. ASSUME NEW cell \in Int \X Int, InBox(ax, box, cell)
      PROVE  /\ PlaceOf(ax, box, cell) \in 1 .. Size(box)
             /\ CellOf(ax, box, PlaceOf(ax, box, cell)) = cell
  <2>1. PICK z : z = CellAt(ax, cell[1], cell[2])
    OBVIOUS
  <2>0. z[1] \in Int /\ z[2] \in Int
    BY <2>1, CoordsAre
  <2>2. z[1] \in a .. b /\ z[2] \in c .. e /\ CellAt(ax, z[1], z[2]) = cell
    BY <1>1, <1>6, <2>1, CoordsAre DEF InBox
  <2>3. PICK i \in Nat, j \in Nat : i = z[1] - a /\ j = z[2] - c
    BY <2>2
  <2>4. Min(a .. b) = a /\ Min(c .. e) = c
    <3>1. a .. b \subseteq Int /\ a \in a .. b /\ \A x \in a .. b : a <= x
      BY <2>2
    <3>2. c .. e \subseteq Int /\ c \in c .. e /\ \A x \in c .. e : c <= x
      BY <2>2
    <3> QED BY <3>1, <3>2, MinIs
  <2>5. w \in Nat \ {0} /\ i <= w - 1 /\ j <= h - 1
    <3>1. a <= z[1] /\ z[1] <= b /\ c <= z[2] /\ z[2] <= e
      BY <2>0, <2>2
    <3>2. w = b - a + 1 /\ h = e - c + 1
      BY <1>2, <1>3, <2>0, <3>1
    <3>3. PICK p \in Int : p = z[1]
      BY <2>0
    <3>4. PICK q \in Int : q = z[2]
      BY <2>0
    <3>5. a <= p /\ p <= b /\ i = p - a
      BY <2>3, <3>1, <3>3
    <3>6. c <= q /\ q <= e /\ j = q - c
      BY <2>3, <3>1, <3>4
    <3>7. w \in Nat \ {0} /\ i <= w - 1
      BY <3>2, <3>5
    <3>8. j <= h - 1
      BY <3>2, <3>6
    <3> QED BY <3>7, <3>8
  <2>6. PICK q \in Nat : q = PlaceOf(ax, box, cell) /\ q = 1 + i + j * w
    <3>1. PlaceOf(ax, box, cell) = 1 + i + j * w
      BY <1>1, <1>2, <2>1, <2>3, <2>4 DEF PlaceOf
    <3>2. 1 + i + j * w \in Nat
      OBVIOUS
    <3> QED BY <3>1, <3>2
  <2>7. q \in 1 .. w * h
    <3>1. w * j <= w * (h - 1)
      BY <2>5, Times
    <3>2. w * j = j * w /\ w * (h - 1) = w * h - w
      BY <1>3
    <3>3. j * w \in Nat /\ w * h \in Nat
      OBVIOUS
    <3>4. PICK x \in Nat, y \in Nat : x = j * w /\ y = w * h
      BY <3>3
    <3> QED BY <2>5, <2>6, <3>1, <3>2, <3>4
  <2>8. (q - 1) % w = i /\ (q - 1) \div w = j
    <3>1. q - 1 \in Int /\ q - 1 = w * j + i
      BY <2>6
    <3>2. PICK y \in Int, x \in Int : y = q - 1 /\ x = w * j /\ y = x + i
      BY <3>1
    <3>3. w * j <= y /\ y < w * j + w
      BY <2>5, <3>2
    <3>4. y \div w = j
      BY <2>5, <3>3, Quotient
    <3>5. y = w * (y \div w) + (y % w) /\ y % w \in Int
      <4>1. y = w * (y \div w) + (y % w) /\ y % w \in 0 .. w - 1
        BY <2>5, Division
      <4> QED BY <2>5, <4>1
    <3>6. y % w = i
      BY <3>2, <3>4, <3>5
    <3> QED BY <3>2, <3>4, <3>6
  <2>9. CellOf(ax, box, q) = CellAt(ax, a + i, c + j)
    BY <1>1, <1>2, <2>4, <2>8 DEF CellOf
  <2>10. a + i = z[1] /\ c + j = z[2]
    <3>1. PICK x \in Int, y \in Int : x = z[1] /\ y = z[2]
      BY <2>0
    <3>2. i = x - a /\ j = y - c
      BY <2>3, <3>1
    <3>3. a + i = x /\ c + j = y
      BY <3>2
    <3> QED BY <3>1, <3>3
  <2> QED BY <1>4, <2>2, <2>6, <2>7, <2>9, <2>10
<1> QED BY <1>4, <1>5, <1>6 DEF Numbered

\* The points a stencil reads are an interval.
LEMMA ReachIs ==
  ASSUME NEW g \in Grids, NEW ax \in Axes, NEW t \in Mesh(g), NEW s \in Nat \ {0}
  PROVE  \E c, e \in Int : ReachOf(g, t, ax, s) = c .. e
<1>1. Place(t, ax) \in Places(g, ax)
  BY MeshIs
<1>2. PICK a \in Int, b \in Int, l \in Nat :
        a = FirstOn(g, ax, Place(t, ax)) /\ b = LastOn(g, ax, Place(t, ax)) /\ l = LastPoint(g, ax)
  BY <1>1, PatchIs
<1>3. PICK c \in Int : c = IF a - s < 1 THEN 1 ELSE a - s
  OBVIOUS
<1>4. PICK e \in Int : e = IF b + s > l THEN l ELSE b + s
  OBVIOUS
<1>5. ReachOf(g, t, ax, s) = (a - s .. b + s) \intersect (1 .. l)
  BY <1>2 DEF ReachOf, Domain
<1>6. (a - s .. b + s) \intersect (1 .. l) = c .. e
  BY <1>3, <1>4
<1> QED BY <1>5, <1>6

\* There are two axes.
LEMMA OtherIs ==
  ASSUME NEW ax \in Axes
  PROVE  Other(ax) \in Axes
BY DEF Other, Axes

\* Neighbours along an axis have the same place across it.
LEMMA SameAcross ==
  ASSUME NEW g \in Grids, NEW ax \in Axes, NEW t \in Mesh(g), NEW d \in {-1, 1},
         NEW u, u = Neighbour(t, ax, d), NEW s
  PROVE  /\ ReachOf(g, u, Other(ax), s) = ReachOf(g, t, Other(ax), s)
         /\ Side(g, u, ax, s) = Side(g, t, ax, s)
<1>1. Place(u, Other(ax)) = Place(t, Other(ax))
  BY MeshIs
<1>2. ReachOf(g, u, Other(ax), s) = ReachOf(g, t, Other(ax), s)
  BY <1>1 DEF ReachOf
<1>3. CASE ax = "x"
  <2>1. Other(ax) = "y"
    BY <1>3 DEF Other
  <2>2. Side(g, u, ax, s) = ReachOf(g, u, "y", s) /\ Side(g, t, ax, s) = ReachOf(g, t, "y", s)
    BY <1>3 DEF Side
  <2> QED BY <1>2, <2>1, <2>2
<1>4. CASE ax = "y"
  <2>1. u[1] = t[1]
    BY <1>1, <1>4 DEF Place, Other
  <2>2. Side(g, u, ax, s) = Own[g]["x"][u[1]] /\ Side(g, t, ax, s) = Own[g]["x"][t[1]]
    BY <1>4 DEF Side
  <2> QED BY <1>2, <2>1, <2>2
<1> QED BY <1>2, <1>3, <1>4 DEF Axes

\* What a task knows across an axis, it passes on.
LEMMA SideIs ==
  ASSUME NEW g \in Grids, NEW ax \in Axes, NEW t \in Mesh(g), NEW s \in Nat \ {0}
  PROVE  Side(g, t, ax, s) \subseteq ReachOf(g, t, Other(ax), s)
<1>1. CASE ax = "x"
  BY <1>1 DEF Side, Other
<1>2. CASE ax = "y"
  <2>1. "x" \in Axes /\ Place(t, "x") = t[1] /\ Other(ax) = "x"
    BY <1>2 DEF Axes, Place, Other
  <2>2. t[1] \in Places(g, "x")
    BY <2>1, MeshIs
  <2>3. PICK a \in Int, b \in Int, l \in Nat :
          a = FirstOn(g, "x", t[1]) /\ b = LastOn(g, "x", t[1]) /\ l = LastPoint(g, "x")
    BY <2>1, <2>2, PatchIs
  <2>4. \A k \in Int : k \in Own[g]["x"][t[1]] <=> 1 <= k /\ k <= l /\ a <= k /\ k <= b
    BY <2>1, <2>2, <2>3, PatchIs
  <2>5. Own[g]["x"][t[1]] \subseteq Int
    <3>1. Own[g]["x"][t[1]] \subseteq Domain(g, "x")
      BY <2>1, <2>2, OwnIs
    <3> QED BY <2>1, <3>1, DomainAround
  <2>6. ReachOf(g, t, "x", s) = (a - s .. b + s) \intersect (1 .. l)
    BY <2>1, <2>3 DEF ReachOf, Domain
  <2>7. ASSUME NEW k \in Own[g]["x"][t[1]] PROVE k \in ReachOf(g, t, "x", s)
    <3>1. k \in Int /\ 1 <= k /\ k <= l /\ a <= k /\ k <= b
      BY <2>4, <2>5
    <3> QED BY <2>3, <2>6, <3>1
  <2>8. Side(g, t, ax, s) = Own[g]["x"][t[1]]
    BY <1>2 DEF Side
  <2> QED BY <2>1, <2>7, <2>8
<1> QED BY <1>1, <1>2 DEF Axes

\* The memory of a task: the widest halo, in the domain and its boundary, and
\* one point more.
LEMMA MemoryIs ==
  ASSUME NEW g \in Grids, NEW ax \in Axes, NEW t \in Mesh(g), NEW k \in Int,
         FirstOn(g, ax, Place(t, ax)) - MaxHalo(g) - 1 <= k, k <= LastOn(g, ax, Place(t, ax)) + MaxHalo(g) + 1,
         0 - Bdy <= k, k <= LastPoint(g, ax) + Bdy + 1
  PROVE  k \in Memory[g][t][ax]
<1>0. PICK p : p = Place(t, ax)
  OBVIOUS
<1>1. p \in Places(g, ax)
  BY <1>0, MeshIs
<1>2. PICK a \in Int, b \in Int, l \in Nat, m \in Nat :
        a = FirstOn(g, ax, p) /\ b = LastOn(g, ax, p) /\ l = LastPoint(g, ax) /\ m = MaxHalo(g)
  BY <1>1, PatchIs
<1>3. Memory[g][t][ax] = Max({a - m, 1 - Bdy}) - 1 .. Min({b + m, l + Bdy}) + 1
  <2>1. Patch[g][ax][p].first = a /\ Patch[g][ax][p].last = b
    BY <1>2 DEF FirstOn, LastOn
  <2> QED BY <1>0, <1>2, <2>1 DEF Memory
<1>4. PICK y \in Nat : y = Bdy
  BY BdyAssumption
<1>5. PICK lo \in Int : lo = Max({a - m, 1 - Bdy}) /\ (lo = a - m \/ lo = 1 - y)
  <2>1. CASE a - m <= 1 - y
    <3>1. Max({a - m, 1 - y}) = 1 - y
      <4>1. {a - m, 1 - y} \subseteq Int /\ 1 - y \in {a - m, 1 - y} /\ \A x \in {a - m, 1 - y} : x <= 1 - y
        BY <2>1
      <4> QED BY <4>1, MaxIs
    <3> QED BY <1>4, <3>1
  <2>2. CASE ~(a - m <= 1 - y)
    <3>1. Max({a - m, 1 - y}) = a - m
      <4>1. {a - m, 1 - y} \subseteq Int /\ a - m \in {a - m, 1 - y} /\ \A x \in {a - m, 1 - y} : x <= a - m
        BY <2>2
      <4> QED BY <4>1, MaxIs
    <3> QED BY <1>4, <3>1
  <2> QED BY <2>1, <2>2
<1>6. PICK hi \in Int : hi = Min({b + m, l + Bdy}) /\ (hi = b + m \/ hi = l + y)
  <2>1. CASE b + m <= l + y
    <3>1. Min({b + m, l + y}) = b + m
      <4>1. {b + m, l + y} \subseteq Int /\ b + m \in {b + m, l + y} /\ \A x \in {b + m, l + y} : b + m <= x
        BY <2>1
      <4> QED BY <4>1, MinIs
    <3> QED BY <1>4, <3>1
  <2>2. CASE ~(b + m <= l + y)
    <3>1. Min({b + m, l + y}) = l + y
      <4>1. {b + m, l + y} \subseteq Int /\ l + y \in {b + m, l + y} /\ \A x \in {b + m, l + y} : l + y <= x
        BY <2>2
      <4> QED BY <4>1, MinIs
    <3> QED BY <1>4, <3>1
  <2> QED BY <2>1, <2>2
<1>7. a - m - 1 <= k /\ k <= b + m + 1 /\ 0 - y <= k /\ k <= l + y + 1
  BY <1>0, <1>2, <1>4
<1>8. lo - 1 <= k
  BY <1>5, <1>7
<1>9. k <= hi + 1
  BY <1>6, <1>7
<1> QED BY <1>3, <1>5, <1>6, <1>8, <1>9

\* It spans the halo.
LEMMA MemorySpans ==
  ASSUME NEW g \in Grids, NEW ax \in Axes, NEW t \in Mesh(g), NEW s \in Nat \ {0}, s <= MaxHalo(g)
  PROVE  ReachOf(g, t, ax, s) \subseteq Memory[g][t][ax]
<1>1. PICK p : p = Place(t, ax)
  OBVIOUS
<1>2. p \in Places(g, ax)
  BY <1>1, MeshIs
<1>3. PICK a \in Int, b \in Int, l \in Nat, m \in Nat, y \in Nat :
        a = FirstOn(g, ax, p) /\ b = LastOn(g, ax, p) /\ l = LastPoint(g, ax) /\ m = MaxHalo(g) /\ y = Bdy
  BY <1>2, PatchIs, BdyAssumption
<1>4. ReachOf(g, t, ax, s) = (a - s .. b + s) \intersect (1 .. l)
  BY <1>1, <1>3 DEF ReachOf, Domain
<1>5. ASSUME NEW k \in (a - s .. b + s) \intersect (1 .. l) PROVE k \in Memory[g][t][ax]
  <2>1. s <= m /\ k \in Int /\ a - s <= k /\ k <= b + s /\ 1 <= k /\ k <= l
    BY <1>3
  <2>2. a - m - 1 <= k /\ k <= b + m + 1 /\ 0 - y <= k /\ k <= l + y + 1
    BY <2>1
  <2>3. /\ FirstOn(g, ax, Place(t, ax)) - MaxHalo(g) - 1 <= k /\ k <= LastOn(g, ax, Place(t, ax)) + MaxHalo(g) + 1
        /\ 0 - Bdy <= k /\ k <= LastPoint(g, ax) + Bdy + 1
    BY <1>1, <1>3, <2>2
  <2> QED BY <2>1, <2>3, MemoryIs
<1> QED BY <1>4, <1>5

\* A cell of the halo, by its coordinates along and across an axis
LEMMA HaloCells ==
  ASSUME NEW g \in Grids, NEW ax \in Axes, NEW t \in Mesh(g), NEW s \in Nat \ {0}, s <= MaxHalo(g),
         NEW cell \in Int \X Int, NEW z, z = CellAt(ax, cell[1], cell[2]),
         z[1] \in ReachOf(g, t, ax, s), z[2] \in ReachOf(g, t, Other(ax), s)
  PROVE  cell \in Cells[g][t]
<1>1. /\ z[1] \in Memory[g][t][ax] /\ z[2] \in Memory[g][t][Other(ax)]
  BY MemorySpans, OtherIs
<1>2. PICK i \in Int, j \in Int : cell = <<i, j>>
  OBVIOUS
<1>3. Cells[g][t] = Memory[g][t]["x"] \X Memory[g][t]["y"]
  BY DEF Cells
<1>4. cell[1] = i /\ cell[2] = j
  BY <1>2
<1>5. CASE ax = "x"
  <2>1. z = <<i, j>>
    BY <1>4, <1>5 DEF CellAt
  <2>2. z[1] = i /\ z[2] = j
    BY <2>1
  <2> QED BY <1>1, <1>2, <1>3, <1>5, <2>2 DEF Other
<1>6. CASE ax = "y"
  <2>1. z = <<j, i>>
    BY <1>4, <1>6 DEF CellAt
  <2>2. z[1] = j /\ z[2] = i
    BY <2>1
  <2> QED BY <1>1, <1>2, <1>3, <1>6, <2>2 DEF Other
<1> QED BY <1>5, <1>6 DEF Axes

\* Cells are pairs of points.
LEMMA CellsAre ==
  ASSUME NEW g \in Grids, NEW t \in Mesh(g)
  PROVE  Cells[g][t] \subseteq Int \X Int /\ OwnCells[g][t] \subseteq Int \X Int
<1>1. Cells[g][t] = Memory[g][t]["x"] \X Memory[g][t]["y"]
  BY DEF Cells
<1>2. ASSUME NEW ax \in Axes PROVE Memory[g][t][ax] \subseteq Int
  <2>1. Memory[g][t][ax] =
          Max({Patch[g][ax][Place(t, ax)].first - MaxHalo(g), 1 - Bdy}) - 1
          .. Min({Patch[g][ax][Place(t, ax)].last + MaxHalo(g), LastPoint(g, ax) + Bdy}) + 1
    BY DEF Memory
  <2> QED BY <2>1
<1>3. "x" \in Axes /\ "y" \in Axes
  BY DEF Axes
<1>4. OwnCells[g][t] = Own[g]["x"][t[1]] \X Own[g]["y"][t[2]]
  BY DEF OwnCells
<1>5. Place(t, "x") = t[1] /\ Place(t, "y") = t[2]
  BY DEF Place
<1>6. t[1] \in Places(g, "x") /\ t[2] \in Places(g, "y")
  BY <1>3, <1>5, MeshIs
<1>7. Own[g]["x"][t[1]] \subseteq Domain(g, "x") /\ Own[g]["y"][t[2]] \subseteq Domain(g, "y")
  BY <1>3, <1>6, OwnIs
<1>8. Domain(g, "x") \subseteq Int /\ Domain(g, "y") \subseteq Int
  BY DEF Domain
<1> QED BY <1>1, <1>2, <1>3, <1>4, <1>7, <1>8

-----------------------------------------------------------------------------
(* The state of a task                                                       *)

\* The stencil of an exchange.
LEMMA RoundIs ==
  ASSUME NEW g \in Grids, NEW r \in 1 .. Len(g.halos), NEW h, h = g.halos[r]
  PROVE  h \in Nat \ {0} /\ h <= MaxHalo(g)
<1>1. "x" \in Axes
  BY DEF Axes
<1> QED BY <1>1, GridIs

\* The patch of the next place begins where one ends.
LEMMA PatchesMeet ==
  ASSUME NEW g \in Grids, NEW ax \in Axes, NEW p \in Places(g, ax), NEW q \in Places(g, ax), q = p + 1
  PROVE  FirstOn(g, ax, q) = LastOn(g, ax, p) + 1 /\ LastOn(g, ax, p) \in Int
<1>1. PICK a \in Int, b \in Int, N \in Nat \ {0} :
        a = FirstOn(g, ax, p) /\ b = LastOn(g, ax, p) /\ N = Count(g, ax)
  BY PatchIs
<1>2. p \in Int /\ q \in Int
  BY <1>1 DEF Places
<1>3. FirstOn(g, ax, q) = b + 1
  BY <1>1, <1>2, PatchIs
<1> QED BY <1>1, <1>3

\* What the pointers and widths are made of: the ends of the patch, what passes
\* each boundary before an iteration, and after it
Shape(g, ax, p, h, k, a, b, c1, c2, c3, c4, e1, e2, e3, e4) ==
  /\ a = FirstOn(g, ax, p) /\ b = LastOn(g, ax, p)
  /\ c1 = Cov(g, ax, p, -1, h, k) /\ c2 = Cov(g, ax, p - 1, 1, h, k)
  /\ c3 = Cov(g, ax, p, 1, h, k) /\ c4 = Cov(g, ax, p + 1, -1, h, k)
  /\ e1 = Cov(g, ax, p, -1, h, k + 1) /\ e2 = Cov(g, ax, p - 1, 1, h, k + 1)
  /\ e3 = Cov(g, ax, p, 1, h, k + 1) /\ e4 = Cov(g, ax, p + 1, -1, h, k + 1)
  /\ 0 <= c1 /\ c1 <= e1 /\ e1 <= h /\ 0 <= c2 /\ c2 <= e2 /\ e2 <= h
  /\ 0 <= c3 /\ c3 <= e3 /\ e3 <= h /\ 0 <= c4 /\ c4 <= e4 /\ e4 <= h
  /\ Ptr(g, ax, p, h, k) = [sm |-> a + c1, rm |-> a - 1 - c2, sp |-> b - c3, rp |-> b + 1 + c4]
  /\ Ptr(g, ax, p, h, k + 1) = [sm |-> a + e1, rm |-> a - 1 - e2, sp |-> b - e3, rp |-> b + 1 + e4]
  /\ Gap(g, ax, p, h, k) = [sm |-> e1 - c1, rm |-> e2 - c2, sp |-> e3 - c3, rp |-> e4 - c4]

\* There are such numbers for every place and iteration.
LEMMA PtrIs ==
  ASSUME NEW g \in Grids, NEW ax \in Axes, NEW p \in Places(g, ax),
         NEW h \in Nat \ {0}, h <= MaxHalo(g), NEW k \in Nat
  PROVE  \E a, b, c1, c2, c3, c4, e1, e2, e3, e4 \in Int :
           Shape(g, ax, p, h, k, a, b, c1, c2, c3, c4, e1, e2, e3, e4)
<1>1. PICK a \in Int, b \in Int : a = FirstOn(g, ax, p) /\ b = LastOn(g, ax, p)
  BY PatchIs
<1>2. p \in Int /\ p - 1 \in Int /\ p + 1 \in Int
  BY GridIs DEF Places
<1>3. PICK c1 \in Int, e1 \in Int : c1 = Cov(g, ax, p, -1, h, k) /\ e1 = Cov(g, ax, p, -1, h, k + 1)
                                    /\ 0 <= c1 /\ c1 <= e1 /\ e1 <= h
  <2>1. /\ Cov(g, ax, p, -1, h, k) \in 0 .. h /\ Cov(g, ax, p, -1, h, k + 1) \in 0 .. h
        /\ Cov(g, ax, p, -1, h, k) <= Cov(g, ax, p, -1, h, k + 1)
    BY <1>2, CovType
  <2> QED BY <2>1
<1>4. PICK c2 \in Int, e2 \in Int : c2 = Cov(g, ax, p - 1, 1, h, k) /\ e2 = Cov(g, ax, p - 1, 1, h, k + 1)
                                    /\ 0 <= c2 /\ c2 <= e2 /\ e2 <= h
  <2>1. /\ Cov(g, ax, p - 1, 1, h, k) \in 0 .. h /\ Cov(g, ax, p - 1, 1, h, k + 1) \in 0 .. h
        /\ Cov(g, ax, p - 1, 1, h, k) <= Cov(g, ax, p - 1, 1, h, k + 1)
    BY <1>2, CovType
  <2> QED BY <2>1
<1>5. PICK c3 \in Int, e3 \in Int : c3 = Cov(g, ax, p, 1, h, k) /\ e3 = Cov(g, ax, p, 1, h, k + 1)
                                    /\ 0 <= c3 /\ c3 <= e3 /\ e3 <= h
  <2>1. /\ Cov(g, ax, p, 1, h, k) \in 0 .. h /\ Cov(g, ax, p, 1, h, k + 1) \in 0 .. h
        /\ Cov(g, ax, p, 1, h, k) <= Cov(g, ax, p, 1, h, k + 1)
    BY <1>2, CovType
  <2> QED BY <2>1
<1>6. PICK c4 \in Int, e4 \in Int : c4 = Cov(g, ax, p + 1, -1, h, k) /\ e4 = Cov(g, ax, p + 1, -1, h, k + 1)
                                    /\ 0 <= c4 /\ c4 <= e4 /\ e4 <= h
  <2>1. /\ Cov(g, ax, p + 1, -1, h, k) \in 0 .. h /\ Cov(g, ax, p + 1, -1, h, k + 1) \in 0 .. h
        /\ Cov(g, ax, p + 1, -1, h, k) <= Cov(g, ax, p + 1, -1, h, k + 1)
    BY <1>2, CovType
  <2> QED BY <2>1
<1>7. /\ Ptr(g, ax, p, h, k) = [sm |-> a + c1, rm |-> a - 1 - c2, sp |-> b - c3, rp |-> b + 1 + c4]
      /\ Ptr(g, ax, p, h, k + 1) = [sm |-> a + e1, rm |-> a - 1 - e2, sp |-> b - e3, rp |-> b + 1 + e4]
  BY <1>1, <1>3, <1>4, <1>5, <1>6 DEF Ptr
<1>8. Gap(g, ax, p, h, k) = [sm |-> e1 - c1, rm |-> e2 - c2, sp |-> e3 - c3, rp |-> e4 - c4]
  BY <1>3, <1>4, <1>5, <1>6 DEF Gap, Taken
<1>9. Shape(g, ax, p, h, k, a, b, c1, c2, c3, c4, e1, e2, e3, e4)
  BY <1>1, <1>3, <1>4, <1>5, <1>6, <1>7, <1>8 DEF Shape
<1> QED BY <1>9

\* The pointers advance by the widths.
LEMMA QuadsAre ==
  ASSUME NEW g \in Grids, NEW ax \in Axes, NEW p \in Places(g, ax),
         NEW h \in Nat \ {0}, h <= MaxHalo(g), NEW k \in Nat
  PROVE  /\ Ptr(g, ax, p, h, k) \in Quads /\ Gap(g, ax, p, h, k) \in Quads
         /\ Advance(Ptr(g, ax, p, h, k), Gap(g, ax, p, h, k)) = Ptr(g, ax, p, h, k + 1)
<1>0. PICK a, b, c1, c2, c3, c4, e1, e2, e3, e4 \in Int :
        Shape(g, ax, p, h, k, a, b, c1, c2, c3, c4, e1, e2, e3, e4)
  BY PtrIs
<1>1. /\ Ptr(g, ax, p, h, k) = [sm |-> a + c1, rm |-> a - 1 - c2, sp |-> b - c3, rp |-> b + 1 + c4]
      /\ Ptr(g, ax, p, h, k + 1) = [sm |-> a + e1, rm |-> a - 1 - e2, sp |-> b - e3, rp |-> b + 1 + e4]
      /\ Gap(g, ax, p, h, k) = [sm |-> e1 - c1, rm |-> e2 - c2, sp |-> e3 - c3, rp |-> e4 - c4]
  BY <1>0 DEF Shape
<1>2. PICK f, w : f = Ptr(g, ax, p, h, k) /\ w = Gap(g, ax, p, h, k)
  OBVIOUS
<1>3. f \in Quads /\ w \in Quads
  BY <1>1, <1>2 DEF Quads
<1>4. /\ f.sm = a + c1 /\ f.rm = a - 1 - c2 /\ f.sp = b - c3 /\ f.rp = b + 1 + c4
      /\ w.sm = e1 - c1 /\ w.rm = e2 - c2 /\ w.sp = e3 - c3 /\ w.rp = e4 - c4
  BY <1>1, <1>2
<1>5. /\ f.sm + w.sm = a + e1 /\ f.rm - w.rm = a - 1 - e2
      /\ f.sp - w.sp = b - e3 /\ f.rp + w.rp = b + 1 + e4
  BY <1>4
<1>6. Advance(f, w) = [sm |-> a + e1, rm |-> a - 1 - e2, sp |-> b - e3, rp |-> b + 1 + e4]
  BY <1>5 DEF Advance
<1> QED BY <1>1, <1>2, <1>3, <1>6

\* An exchange begins at the ends of the patch.
LEMMA StartsAre ==
  ASSUME NEW g \in Grids, grid = g, NEW ax \in Axes, NEW t \in Mesh(g),
         NEW h \in Nat \ {0}, h <= MaxHalo(g)
  PROVE  Starts(t, ax) = Ptr(g, ax, Place(t, ax), h, 0) /\ Starts(t, ax) \in Quads
<1>1. PICK p : p = Place(t, ax)
  OBVIOUS
<1>2. p \in Places(g, ax) /\ p \in Int /\ p - 1 \in Int /\ p + 1 \in Int
  BY <1>1, MeshIs
<1>3. PICK a \in Int, b \in Int : a = FirstOn(g, ax, p) /\ b = LastOn(g, ax, p)
  BY <1>2, PatchIs
<1>4. Cov(g, ax, p, -1, h, 0) = 0 /\ Cov(g, ax, p, 1, h, 0) = 0
  BY <1>2, CovType
<1>5. Cov(g, ax, p - 1, 1, h, 0) = 0
  BY <1>2, CovType
<1>6. Cov(g, ax, p + 1, -1, h, 0) = 0
  BY <1>2, CovType
<1>7. First(t, ax) = a /\ Final(t, ax) = b
  BY <1>1, <1>3 DEF First, Final, FirstOn, LastOn
<1>8. Starts(t, ax) = [sm |-> a, rm |-> a - 1, sp |-> b, rp |-> b + 1]
  BY <1>7 DEF Starts
<1>9. /\ a + 0 = a /\ a - 1 - 0 = a - 1 /\ b - 0 = b /\ b + 1 + 0 = b + 1
  OBVIOUS
<1>10. Ptr(g, ax, p, h, 0) = [sm |-> a + 0, rm |-> a - 1 - 0, sp |-> b - 0, rp |-> b + 1 + 0]
  BY <1>3, <1>4, <1>5, <1>6 DEF Ptr
<1>11. Starts(t, ax) \in Quads
  BY <1>8 DEF Quads
<1> QED BY <1>1, <1>8, <1>9, <1>10, <1>11

\* The boxes of an iteration are those of the messages on the links.
LEMMA BoxesAre ==
  ASSUME NEW g \in Grids, grid = g, NEW t \in Mesh(g), NEW s \in Exchange(g),
         NEW ax, ax = s.axis, NEW h, h = g.halos[s.round], NEW k \in Nat,
         s.from = Ptr(g, ax, Place(t, ax), h, k), s.w = Gap(g, ax, Place(t, ax), h, k)
  PROVE  /\ BoxOf(t, s, "sm") = LinkBox(g, t, ax, -1, h, k)
         /\ BoxOf(t, s, "sp") = LinkBox(g, t, ax, 1, h, k)
         /\ Neighbour(t, ax, -1) \in Mesh(g) => BoxOf(t, s, "rm") = LinkBox(g, Neighbour(t, ax, -1), ax, 1, h, k)
         /\ Neighbour(t, ax, 1) \in Mesh(g) => BoxOf(t, s, "rp") = LinkBox(g, Neighbour(t, ax, 1), ax, -1, h, k)
<1>0. ax \in Axes /\ s.round \in 1 .. Len(g.halos)
  BY DEF Exchange
<1>1. h \in Nat \ {0} /\ h <= MaxHalo(g)
  BY <1>0, RoundIs
<1>2. PICK p : p = Place(t, ax)
  OBVIOUS
<1>3. p \in Places(g, ax) /\ p \in Int
  BY <1>0, <1>2, MeshIs
<1>35. PICK a, b, c1, c2, c3, c4, e1, e2, e3, e4 \in Int :
         Shape(g, ax, p, h, k, a, b, c1, c2, c3, c4, e1, e2, e3, e4)
  BY <1>0, <1>1, <1>3, PtrIs
<1>4. /\ a = FirstOn(g, ax, p) /\ b = LastOn(g, ax, p)
      /\ c1 = Cov(g, ax, p, -1, h, k) /\ c2 = Cov(g, ax, p - 1, 1, h, k)
      /\ c3 = Cov(g, ax, p, 1, h, k) /\ c4 = Cov(g, ax, p + 1, -1, h, k)
      /\ e1 = Cov(g, ax, p, -1, h, k + 1) /\ e2 = Cov(g, ax, p - 1, 1, h, k + 1)
      /\ e3 = Cov(g, ax, p, 1, h, k + 1) /\ e4 = Cov(g, ax, p + 1, -1, h, k + 1)
      /\ Ptr(g, ax, p, h, k) = [sm |-> a + c1, rm |-> a - 1 - c2, sp |-> b - c3, rp |-> b + 1 + c4]
      /\ Gap(g, ax, p, h, k) = [sm |-> e1 - c1, rm |-> e2 - c2, sp |-> e3 - c3, rp |-> e4 - c4]
  BY <1>35 DEF Shape
<1>5. PICK f, w : f = s.from /\ w = s.w
  OBVIOUS
<1>6. /\ f.sm = a + c1 /\ f.rm = a - 1 - c2 /\ f.sp = b - c3 /\ f.rp = b + 1 + c4
      /\ w.sm = e1 - c1 /\ w.rm = e2 - c2 /\ w.sp = e3 - c3 /\ w.rp = e4 - c4
  BY <1>2, <1>4, <1>5
<1>7. PICK C : C = ReachOf(g, t, Other(ax), h)
  OBVIOUS
<1>8. Across(t, s.axis, grid.halos[s.round]) = C
  BY <1>7 DEF Across, Reach, ReachOf, First, Final, FirstOn, LastOn
<1>9. /\ BoxOf(t, s, "sm") = Box(f.sm .. f.sm + w.sm - 1, C)
      /\ BoxOf(t, s, "rm") = Box(f.rm - w.rm + 1 .. f.rm, C)
      /\ BoxOf(t, s, "sp") = Box(f.sp - w.sp + 1 .. f.sp, C)
      /\ BoxOf(t, s, "rp") = Box(f.rp .. f.rp + w.rp - 1, C)
  BY <1>5, <1>8 DEF BoxOf
<1>10. /\ f.sm + w.sm - 1 = a + e1 - 1 /\ f.rm - w.rm + 1 = a - 1 - e2 + 1
       /\ f.sp - w.sp + 1 = b - e3 + 1 /\ f.rp + w.rp - 1 = b + 1 + e4 - 1
  BY <1>6
<1>11. LinkBox(g, t, ax, -1, h, k) = Box(a + c1 .. a + e1 - 1, C)
  BY <1>2, <1>4, <1>7 DEF LinkBox, AlongOf
<1>12. LinkBox(g, t, ax, 1, h, k) = Box(b - e3 + 1 .. b - c3, C)
  BY <1>2, <1>4, <1>7 DEF LinkBox, AlongOf
<1>13. ASSUME NEW u \in Mesh(g), u = Neighbour(t, ax, -1)
       PROVE  LinkBox(g, u, ax, 1, h, k) = Box(a - 1 - e2 + 1 .. a - 1 - c2, C)
  <2>1. PICK q \in Int : q = p - 1 /\ q = Place(u, ax) /\ q \in Places(g, ax) /\ p = q + 1
    <3>1. Place(u, ax) = p + (-1) /\ Place(u, ax) \in Places(g, ax)
      BY <1>0, <1>2, <1>13, MeshIs
    <3> QED BY <1>3, <3>1
  <2>2. LastOn(g, ax, q) = a - 1
    <3>1. a = LastOn(g, ax, q) + 1 /\ LastOn(g, ax, q) \in Int
      BY <1>0, <1>3, <1>4, <2>1, PatchesMeet
    <3> QED BY <3>1
  <2>3. ReachOf(g, u, Other(ax), h) = C
    BY <1>0, <1>7, <1>13, SameAcross
  <2> QED BY <1>4, <2>1, <2>2, <2>3 DEF LinkBox, AlongOf
<1>14. ASSUME NEW u \in Mesh(g), u = Neighbour(t, ax, 1)
       PROVE  LinkBox(g, u, ax, -1, h, k) = Box(b + 1 + c4 .. b + 1 + e4 - 1, C)
  <2>1. PICK q \in Int : q = p + 1 /\ q = Place(u, ax) /\ q \in Places(g, ax)
    <3>1. Place(u, ax) = p + 1 /\ Place(u, ax) \in Places(g, ax)
      BY <1>0, <1>2, <1>14, MeshIs
    <3> QED BY <1>3, <3>1
  <2>2. FirstOn(g, ax, q) = b + 1
    BY <1>0, <1>3, <1>4, <2>1, PatchesMeet
  <2>3. ReachOf(g, u, Other(ax), h) = C
    BY <1>0, <1>7, <1>14, SameAcross
  <2> QED BY <1>4, <2>1, <2>2, <2>3 DEF LinkBox, AlongOf
<1>15. BoxOf(t, s, "sm") = LinkBox(g, t, ax, -1, h, k) /\ BoxOf(t, s, "sp") = LinkBox(g, t, ax, 1, h, k)
  BY <1>6, <1>9, <1>10, <1>11, <1>12
<1>16. Neighbour(t, ax, -1) \in Mesh(g) => BoxOf(t, s, "rm") = LinkBox(g, Neighbour(t, ax, -1), ax, 1, h, k)
  BY <1>6, <1>9, <1>10, <1>13
<1>17. Neighbour(t, ax, 1) \in Mesh(g) => BoxOf(t, s, "rp") = LinkBox(g, Neighbour(t, ax, 1), ax, -1, h, k)
  BY <1>6, <1>9, <1>10, <1>14
<1> QED BY <1>15, <1>16, <1>17

-----------------------------------------------------------------------------
(* The exchange of a task                                                  *)

-----------------------------------------------------------------------------
(* The steps of a task, one by one                                           *)

\* The parts of a tracked exchange
LEMMA TrackedIs ==
  ASSUME NEW g \in Grids, NEW t \in Mesh(g), NEW s \in Exchange(g), Tracked(g, t, s),
         NEW ax, ax = s.axis, NEW p, p = Place(t, ax), NEW h, h = g.halos[s.round]
  PROVE  /\ ax \in Axes /\ p \in Places(g, ax) /\ p \in Int /\ h \in Nat \ {0} /\ h <= MaxHalo(g)
         /\ s.round \in 1 .. Len(g.halos) /\ s.it \in Nat /\ s.from \in Quads /\ s.w \in Quads
         /\ Passed(s) \in Nat
         /\ s.it <= Count(g, ax)
         /\ s.from = Ptr(g, ax, p, h, Passed(s))
         /\ s.pc = "wait" => s.it = Passed(s) + 1 /\ s.w = Gap(g, ax, p, h, Passed(s))
         /\ s.pc # "wait" => Passed(s) = s.it
         /\ s.pc = "done" => ax = "x" /\ Full(g, ax, p, h, s.it)
<1>1. ax \in Axes /\ s.round \in 1 .. Len(g.halos) /\ s.it \in Nat /\ s.from \in Quads /\ s.w \in Quads
  BY DEF Exchange
<1>2. h \in Nat \ {0} /\ h <= MaxHalo(g)
  BY <1>1, RoundIs
<1>3. p \in Places(g, ax) /\ p \in Int
  BY <1>1, MeshIs
<1>4. /\ s.it <= Count(g, ax)
      /\ s.from = Ptr(g, ax, p, h, Passed(s))
      /\ s.pc = "wait" => s.it >= 1 /\ s.w = Gap(g, ax, p, h, s.it - 1)
      /\ s.pc = "done" => ax = "x" /\ Full(g, ax, p, h, s.it)
  BY DEF Tracked
<1>5. CASE s.pc = "wait"
  <2>1. Passed(s) = s.it - 1 /\ s.it - 1 \in Nat /\ s.it = (s.it - 1) + 1
    BY <1>1, <1>4, <1>5 DEF Passed
  <2> QED BY <1>1, <1>2, <1>3, <1>4, <1>5, <2>1
<1>6. CASE s.pc # "wait"
  <2>1. Passed(s) = s.it
    BY <1>6 DEF Passed
  <2> QED BY <1>1, <1>2, <1>3, <1>4, <1>6, <2>1
<1> QED BY <1>5, <1>6

\* After as many iterations as there are tasks along an axis, nothing is left.
LEMMA FullAtLast ==
  ASSUME NEW g \in Grids, NEW ax \in Axes, NEW p \in Int, NEW h \in Nat \ {0}, h <= MaxHalo(g),
         NEW k \in Nat, ~Full(g, ax, p, h, k)
  PROVE  k + 1 <= Count(g, ax)
<1>1. PICK N \in Nat : N = Count(g, ax)
  BY GridIs
<1>2. ASSUME k >= N PROVE FALSE
  <2>1. p - 1 \in Int /\ p + 1 \in Int
    OBVIOUS
  <2>2. Ended(g, ax, p, -1, h, k)
    BY <1>1, <1>2, CovType DEF Ended
  <2>3. Ended(g, ax, p, 1, h, k)
    BY <1>1, <1>2, CovType DEF Ended
  <2>4. Ended(g, ax, p - 1, 1, h, k)
    BY <1>1, <1>2, <2>1, CovType DEF Ended
  <2>5. Ended(g, ax, p + 1, -1, h, k)
    BY <1>1, <1>2, <2>1, CovType DEF Ended
  <2> QED BY <2>2, <2>3, <2>4, <2>5 DEF Full
<1> QED BY <1>1, <1>2

\* The exchange of a task in its next iteration, and after it
Iterated(t, s, h) ==
  [s EXCEPT !.pc = "wait", !.it = @ + 1, !.w = Widths(t, s.axis, h, s.from, s.it + 1)]
Completed(s) == [s EXCEPT !.pc = "ready", !.from = Advance(@, s.w)]

\* A task that goes on is in iteration it + 1, with the widths of that iteration.
LEMMA IterateNow ==
  ASSUME NEW g \in Grids, grid = g, NEW t \in Mesh(g), NEW s \in Exchange(g), Tracked(g, t, s),
         NEW h, h = g.halos[s.round], s.pc = "ready", Went(t, s.axis, h, s.from),
         NEW now, now = Iterated(t, s, h)
  PROVE  /\ now \in Exchange(g) /\ Tracked(g, t, now)
         /\ now.pc = "wait" /\ now.axis = s.axis /\ now.round = s.round /\ now.it = s.it + 1
         /\ now.from = s.from /\ now.w = Gap(g, s.axis, Place(t, s.axis), h, s.it)
         /\ Passed(now) = s.it /\ Passed(s) = s.it
<1>1. PICK ax, p, k : ax = s.axis /\ p = Place(t, ax) /\ k = s.it
  OBVIOUS
<1>2. /\ ax \in Axes /\ p \in Places(g, ax) /\ p \in Int /\ h \in Nat \ {0} /\ h <= MaxHalo(g)
      /\ s.round \in 1 .. Len(g.halos) /\ k \in Nat /\ s.from \in Quads /\ s.w \in Quads
      /\ s.from = Ptr(g, ax, p, h, k) /\ Passed(s) = k
  BY <1>1, TrackedIs
<1>3. Widths(t, ax, h, s.from, k + 1) = Gap(g, ax, p, h, k) /\ ~Full(g, ax, p, h, k)
  <2>1. PICK f : f = s.from
    OBVIOUS
  <2>2. f = Ptr(g, ax, p, h, k) /\ p = Place(t, ax) /\ Went(t, ax, h, f)
    BY <1>1, <1>2, <2>1
  <2>3. ax \in Axes /\ h \in Nat \ {0} /\ h <= MaxHalo(g) /\ k \in Nat
    BY <1>2
  <2>4. Widths(t, ax, h, f, k + 1) = Gap(g, ax, p, h, k) /\ (Went(t, ax, h, f) <=> ~Full(g, ax, p, h, k))
    BY <2>2, <2>3, PointersAre
  <2> QED BY <2>1, <2>2, <2>4
<1>4. PICK w : w = Gap(g, ax, p, h, k)
  OBVIOUS
<1>5. w \in Quads
  BY <1>2, <1>4, QuadsAre
<1>6. now = [s EXCEPT !.pc = "wait", !.it = k + 1, !.w = w]
  BY <1>1, <1>3, <1>4 DEF Iterated
<1>7. /\ now.pc = "wait" /\ now.axis = ax /\ now.round = s.round /\ now.it = k + 1
      /\ now.from = s.from /\ now.w = w /\ now \in Exchange(g)
  <2>1. PICK i \in Nat : i = k + 1
    BY <1>2
  <2>2. now = [s EXCEPT !.pc = "wait", !.it = i, !.w = w]
    BY <1>6, <2>1
  <2>3. /\ now.pc = "wait" /\ now.axis = s.axis /\ now.round = s.round /\ now.it = i
        /\ now.from = s.from /\ now.w = w
    BY <2>2 DEF Exchange
  <2>4. now \in Exchange(g)
    BY <1>5, <2>2 DEF Exchange
  <2> QED BY <1>1, <2>1, <2>3, <2>4
<1>8. k + 1 <= Count(g, ax)
  BY <1>2, <1>3, FullAtLast
<1>9. Passed(now) = k /\ (k + 1) - 1 = k /\ k + 1 >= 1
  BY <1>2, <1>7 DEF Passed
<1>10. Tracked(g, t, now)
  BY <1>1, <1>2, <1>4, <1>7, <1>8, <1>9 DEF Tracked
<1> QED BY <1>1, <1>2, <1>4, <1>7, <1>9, <1>10

\* A task that has completed an iteration has its pointers advanced.
LEMMA CompleteNow ==
  ASSUME NEW g \in Grids, NEW t \in Mesh(g), NEW s \in Exchange(g), Tracked(g, t, s),
         NEW h, h = g.halos[s.round], s.pc = "wait",
         NEW now, now = Completed(s)
  PROVE  /\ now \in Exchange(g) /\ Tracked(g, t, now)
         /\ now.pc = "ready" /\ now.axis = s.axis /\ now.round = s.round /\ now.it = s.it
         /\ now.from = Ptr(g, s.axis, Place(t, s.axis), h, s.it)
         /\ Passed(now) = s.it /\ s.it = Passed(s) + 1
<1>1. PICK ax, p, k : ax = s.axis /\ p = Place(t, ax) /\ k = Passed(s)
  OBVIOUS
<1>2. /\ ax \in Axes /\ p \in Places(g, ax) /\ p \in Int /\ h \in Nat \ {0} /\ h <= MaxHalo(g)
      /\ s.round \in 1 .. Len(g.halos) /\ k \in Nat /\ s.it \in Nat /\ s.from \in Quads /\ s.w \in Quads
      /\ s.from = Ptr(g, ax, p, h, k) /\ s.it = k + 1 /\ s.w = Gap(g, ax, p, h, k)
      /\ s.it <= Count(g, ax)
  BY <1>1, TrackedIs
<1>3. PICK f : f = Ptr(g, ax, p, h, k + 1)
  OBVIOUS
<1>4. k + 1 \in Nat
  BY <1>2
<1>5. f \in Quads
  BY <1>2, <1>3, <1>4, QuadsAre
<1>6. Advance(s.from, s.w) = f
  BY <1>2, <1>3, QuadsAre
<1>7. now = [s EXCEPT !.pc = "ready", !.from = f]
  BY <1>6 DEF Completed
<1>8. /\ now.pc = "ready" /\ now.axis = ax /\ now.round = s.round /\ now.it = s.it
      /\ now.from = f /\ now \in Exchange(g)
  BY <1>1, <1>2, <1>5, <1>7 DEF Exchange
<1>9. Passed(now) = s.it
  BY <1>8 DEF Passed
<1>10. Tracked(g, t, now)
  BY <1>1, <1>2, <1>3, <1>8, <1>9 DEF Tracked
<1> QED BY <1>1, <1>2, <1>3, <1>8, <1>9, <1>10

\* A task that begins an axis has done no iteration of it.
LEMMA ReadyNow ==
  ASSUME NEW g \in Grids, grid = g, NEW t \in Mesh(g), NEW ax \in Axes, NEW r \in 1 .. Len(g.halos),
         NEW now, now = Ready(t, ax, r)
  PROVE  /\ now \in Exchange(g) /\ Tracked(g, t, now)
         /\ now.pc = "ready" /\ now.axis = ax /\ now.round = r /\ now.it = 0
         /\ now.from = Ptr(g, ax, Place(t, ax), g.halos[r], 0)
         /\ Passed(now) = 0
<1>1. PICK h : h = g.halos[r]
  OBVIOUS
<1>2. h \in Nat \ {0} /\ h <= MaxHalo(g)
  BY <1>1, RoundIs
<1>3. Starts(t, ax) = Ptr(g, ax, Place(t, ax), h, 0) /\ Starts(t, ax) \in Quads
  BY <1>2, StartsAre
<1>4. now = [pc |-> "ready", axis |-> ax, round |-> r, it |-> 0, from |-> Starts(t, ax), w |-> NoWidths]
  BY DEF Ready
<1>5. NoWidths \in Quads
  BY DEF NoWidths, Quads
<1>6. /\ now.pc = "ready" /\ now.axis = ax /\ now.round = r /\ now.it = 0 /\ now.from = Starts(t, ax)
      /\ now \in Exchange(g)
  BY <1>3, <1>4, <1>5 DEF Exchange
<1>7. Passed(now) = 0
  BY <1>6 DEF Passed
<1>8. 0 <= Count(g, ax)
  BY GridIs
<1>9. Tracked(g, t, now)
  BY <1>1, <1>3, <1>6, <1>7, <1>8 DEF Tracked
<1> QED BY <1>1, <1>3, <1>6, <1>7, <1>9

\* When no loop went on, every loop is at its end.
LEMMA NothingWent ==
  ASSUME NEW g \in Grids, grid = g, NEW t \in Mesh(g), NEW s \in Exchange(g), Tracked(g, t, s),
         s.pc = "ready", NEW ax, ax = s.axis, NEW h, h = g.halos[s.round], ~Went(t, ax, h, s.from)
  PROVE  Full(g, ax, Place(t, ax), h, s.it)
<1>1. PICK p, k, f : p = Place(t, ax) /\ k = s.it /\ f = s.from
  OBVIOUS
<1>2. /\ ax \in Axes /\ h \in Nat \ {0} /\ h <= MaxHalo(g) /\ k \in Nat
      /\ f = Ptr(g, ax, p, h, k)
  BY <1>1, TrackedIs
<1>3. Went(t, ax, h, f) <=> ~Full(g, ax, p, h, k)
  BY <1>1, <1>2, PointersAre
<1> QED BY <1>1, <1>3

Through(s) == [s EXCEPT !.pc = "done"]

\* A task that leaves the exchange has every loop at its end.
LEMMA FinishNow ==
  ASSUME NEW g \in Grids, grid = g, NEW t \in Mesh(g), NEW s \in Exchange(g), Tracked(g, t, s),
         s.pc = "ready", s.axis = "x", ~Went(t, "x", g.halos[s.round], s.from),
         NEW now, now = Through(s)
  PROVE  /\ now \in Exchange(g) /\ Tracked(g, t, now)
         /\ now.pc = "done" /\ now.axis = "x" /\ now.round = s.round /\ now.it = s.it /\ now.from = s.from
         /\ Passed(now) = s.it /\ Passed(s) = s.it
<1>1. PICK ax, p, k, h : ax = s.axis /\ p = Place(t, ax) /\ k = s.it /\ h = g.halos[s.round]
  OBVIOUS
<1>2. /\ ax \in Axes /\ p \in Places(g, ax) /\ p \in Int /\ h \in Nat \ {0} /\ h <= MaxHalo(g)
      /\ s.round \in 1 .. Len(g.halos) /\ k \in Nat /\ s.from \in Quads /\ s.w \in Quads
      /\ s.from = Ptr(g, ax, p, h, k) /\ Passed(s) = k /\ k <= Count(g, ax)
  BY <1>1, TrackedIs
<1>3. Full(g, ax, p, h, k)
  BY <1>1, NothingWent
<1>4. /\ now.pc = "done" /\ now.axis = ax /\ now.round = s.round /\ now.it = k
      /\ now.from = s.from /\ now.w = s.w /\ now \in Exchange(g)
  BY <1>1, <1>2 DEF Exchange, Through
<1>5. Passed(now) = k
  BY <1>4 DEF Passed
<1>6. Tracked(g, t, now)
  BY <1>1, <1>2, <1>3, <1>4, <1>5 DEF Tracked
<1> QED BY <1>1, <1>2, <1>4, <1>5, <1>6

\* A step of one task leaves the others as they are.
LEMMA TasksGoOn ==
  ASSUME NEW g \in Grids, TaskParts(g), NEW t \in Mesh(g), NEW now \in Exchange(g), Tracked(g, t, now),
         st' = [st EXCEPT ![t] = now]
  PROVE  TaskParts(g)' /\ st'[t] = now /\ \A u \in Mesh(g) : u # t => st'[u] = st[u]
<1>1. st \in [Mesh(g) -> Exchange(g)] /\ \A u \in Mesh(g) : Tracked(g, u, st[u])
  BY DEF TaskParts
<1>2. st' \in [Mesh(g) -> Exchange(g)] /\ st'[t] = now /\ \A u \in Mesh(g) : u # t => st'[u] = st[u]
  BY <1>1
<1>3. ASSUME NEW u \in Mesh(g) PROVE Tracked(g, u, st'[u])
  <2>1. CASE u = t
    BY <1>2, <2>1
  <2>2. CASE u # t
    <3>1. st'[u] = st[u] /\ Tracked(g, u, st[u])
      BY <1>1, <1>2, <2>2
    <3> QED BY <3>1
  <2> QED BY <2>1, <2>2
<1> QED BY <1>2, <1>3 DEF TaskParts

-----------------------------------------------------------------------------
(* What a task packs                                                       *)

-----------------------------------------------------------------------------
(* What is sent                                                              *)

\* A task sends only what it knows: what reached it in the iterations before.
LEMMA SendsKnownDown ==
  ASSUME NEW g \in Grids, NEW ax \in Axes, NEW p \in Places(g, ax), Linked(g, ax, p, 1),
         NEW h \in Nat \ {0}, h <= MaxHalo(g), NEW k \in Nat,
         NEW f, f = Ptr(g, ax, p, h, k),
         NEW z \in Domain(g, ax), z \in AlongOf(g, ax, p, 1, h, k)
  PROVE  f.rm + 1 <= z /\ z <= f.rp - 1
<1>1. PICK a, b, c1, c2, c3, c4, e1, e2, e3, e4 \in Int :
        Shape(g, ax, p, h, k, a, b, c1, c2, c3, c4, e1, e2, e3, e4)
  BY PtrIs
<1>2. /\ a = FirstOn(g, ax, p) /\ b = LastOn(g, ax, p)
      /\ c2 = Cov(g, ax, p - 1, 1, h, k)
      /\ c3 = Cov(g, ax, p, 1, h, k) /\ e3 = Cov(g, ax, p, 1, h, k + 1)
      /\ 0 <= c2 /\ c2 <= h /\ 0 <= c3 /\ c3 <= e3 /\ e3 <= h /\ 0 <= c4
      /\ f = [sm |-> a + c1, rm |-> a - 1 - c2, sp |-> b - c3, rp |-> b + 1 + c4]
  BY <1>1 DEF Shape
<1>3. f.rm = a - 1 - c2 /\ f.rp = b + 1 + c4
  BY <1>2
<1>4. z \in Int /\ 1 <= z
  BY DomainAround
<1>5. b - e3 + 1 <= z /\ z <= b - c3
  <2>1. AlongOf(g, ax, p, 1, h, k) = b - e3 + 1 .. b - c3
    BY <1>2 DEF AlongOf
  <2> QED BY <1>4, <2>1
<1>6. PICK N \in Nat \ {0} : N = Count(g, ax)
  BY GridIs
<1>7. p \in Int /\ 0 <= p /\ p <= N - 1
  BY <1>6 DEF Places
<1>8. PICK y : y = Dist(g, ax, p, 1, h)
  OBVIOUS
<1>9. PICK e \in 0 .. h - 1 : e = b - z
  BY <1>2, <1>4, <1>5
<1>10. y[e] = p - At(g, ax, b - e)
  BY <1>2, <1>8 DEF Dist
<1>11. y[e] \in Nat
  BY <1>8, DistIs DEF Orderly
<1>12. \A i \in 0 .. h - 1 : i < c3 <=> y[i] < k
  BY <1>2, <1>8, CovIs
<1>13. \A i \in 0 .. h - 1 : i < e3 <=> y[i] < k + 1
  <2>1. k + 1 \in Nat
    OBVIOUS
  <2> QED BY <1>2, <1>8, <2>1, CovIs
<1>14. y[e] = k
  <2>1. e < e3 /\ ~(e < c3)
    BY <1>4, <1>5, <1>9
  <2>2. y[e] < k + 1 /\ ~(y[e] < k)
    BY <1>12, <1>13, <2>1
  <2> QED BY <1>11, <2>2
<1>15. b - e = z
  BY <1>4, <1>9
<1>16. PICK o \in Int : o = At(g, ax, z) /\ o = p - k
  <2>1. z \in Around(g, ax)
    BY DomainAround
  <2>2. At(g, ax, z) \in Places(g, ax)
    BY <2>1, OwnerIs
  <2>3. At(g, ax, z) \in Int
    BY <1>6, <2>2 DEF Places
  <2> QED BY <1>7, <1>10, <1>14, <1>15, <2>3
<1>17. CASE a <= z
  BY <1>2, <1>3, <1>4, <1>5, <1>17
<1>18. CASE z < a
  <2>1. p # 0
    <3>1. p = 0 => a <= 1
      BY <1>2, PatchIs
    <3> QED BY <1>4, <1>18, <3>1
  <2>2. PICK q \in Int : q = p - 1 /\ p = q + 1
    BY <1>7
  <2>3. q \in Places(g, ax)
    BY <1>6, <1>7, <2>1, <2>2 DEF Places
  <2>4. a = LastOn(g, ax, q) + 1 /\ LastOn(g, ax, q) \in Int
    BY <1>2, <2>2, <2>3, PatchesMeet
  <2>5. PICK l \in Int : l = LastOn(g, ax, q) /\ l = a - 1
    BY <2>4
  <2>6. Linked(g, ax, q, 1)
    BY <2>2, <2>3 DEF Linked
  <2>7. PICK x : x = Dist(g, ax, q, 1, h)
    OBVIOUS
  <2>8. a <= b
    BY <1>2, PatchIs
  <2>9. PICK i \in 0 .. h - 1 : i = l - z
    BY <1>2, <1>4, <1>5, <1>18, <2>5, <2>8
  <2>10. x[i] = q - At(g, ax, l - i)
    BY <2>5, <2>7 DEF Dist
  <2>11. l - i = z
    BY <1>4, <2>9
  <2>12. x[i] = k - 1
    <3>1. x[i] = q - o
      BY <1>16, <2>10, <2>11
    <3> QED BY <1>7, <1>16, <2>2, <3>1
  <2>13. \A j \in 0 .. h - 1 : j < c2 <=> x[j] < k
    BY <1>2, <2>2, <2>6, <2>7, CovIs
  <2>14. i < c2
    BY <2>12, <2>13
  <2>15. f.rm + 1 <= z
    BY <1>3, <1>4, <2>5, <2>9, <2>14
  <2> QED BY <1>2, <1>3, <1>4, <1>18, <2>8, <2>15
<1> QED BY <1>4, <1>17, <1>18

\* So it does in the other direction.
LEMMA SendsKnownUp ==
  ASSUME NEW g \in Grids, NEW ax \in Axes, NEW p \in Places(g, ax), Linked(g, ax, p, -1),
         NEW h \in Nat \ {0}, h <= MaxHalo(g), NEW k \in Nat,
         NEW f, f = Ptr(g, ax, p, h, k),
         NEW z \in Domain(g, ax), z \in AlongOf(g, ax, p, -1, h, k)
  PROVE  f.rm + 1 <= z /\ z <= f.rp - 1
<1>1. PICK a, b, c1, c2, c3, c4, e1, e2, e3, e4 \in Int :
        Shape(g, ax, p, h, k, a, b, c1, c2, c3, c4, e1, e2, e3, e4)
  BY PtrIs
<1>2. /\ a = FirstOn(g, ax, p) /\ b = LastOn(g, ax, p)
      /\ c4 = Cov(g, ax, p + 1, -1, h, k)
      /\ c1 = Cov(g, ax, p, -1, h, k) /\ e1 = Cov(g, ax, p, -1, h, k + 1)
      /\ 0 <= c4 /\ c4 <= h /\ 0 <= c1 /\ c1 <= e1 /\ e1 <= h /\ 0 <= c2
      /\ f = [sm |-> a + c1, rm |-> a - 1 - c2, sp |-> b - c3, rp |-> b + 1 + c4]
  BY <1>1 DEF Shape
<1>3. f.rm = a - 1 - c2 /\ f.rp = b + 1 + c4
  BY <1>2
<1>4. z \in Int /\ 1 <= z /\ z <= LastPoint(g, ax) /\ LastPoint(g, ax) \in Int
  BY DomainAround
<1>5. a + c1 <= z /\ z <= a + e1 - 1
  <2>1. AlongOf(g, ax, p, -1, h, k) = a + c1 .. a + e1 - 1
    BY <1>2 DEF AlongOf
  <2> QED BY <1>4, <2>1
<1>6. PICK N \in Nat \ {0} : N = Count(g, ax)
  BY GridIs
<1>7. p \in Int /\ 0 <= p /\ p <= N - 1
  BY <1>6 DEF Places
<1>8. PICK y : y = Dist(g, ax, p, -1, h)
  OBVIOUS
<1>9. PICK e \in 0 .. h - 1 : e = z - a
  BY <1>2, <1>4, <1>5
<1>10. y[e] = At(g, ax, a + e) - p
  BY <1>2, <1>8 DEF Dist
<1>11. y[e] \in Nat
  BY <1>8, DistIs DEF Orderly
<1>12. \A i \in 0 .. h - 1 : i < c1 <=> y[i] < k
  BY <1>2, <1>8, CovIs
<1>13. \A i \in 0 .. h - 1 : i < e1 <=> y[i] < k + 1
  <2>1. k + 1 \in Nat
    OBVIOUS
  <2> QED BY <1>2, <1>8, <2>1, CovIs
<1>14. y[e] = k
  <2>1. e < e1 /\ ~(e < c1)
    BY <1>4, <1>5, <1>9
  <2>2. y[e] < k + 1 /\ ~(y[e] < k)
    BY <1>12, <1>13, <2>1
  <2> QED BY <1>11, <2>2
<1>15. a + e = z
  BY <1>4, <1>9
<1>16. PICK o \in Int : o = At(g, ax, z) /\ o = p + k
  <2>1. z \in Around(g, ax)
    BY DomainAround
  <2>2. At(g, ax, z) \in Places(g, ax)
    BY <2>1, OwnerIs
  <2>3. At(g, ax, z) \in Int
    BY <1>6, <2>2 DEF Places
  <2> QED BY <1>7, <1>10, <1>14, <1>15, <2>3
<1>17. CASE z <= b
  BY <1>2, <1>3, <1>4, <1>5, <1>17
<1>18. CASE b < z
  <2>1. p # N - 1
    <3>1. p = N - 1 => LastPoint(g, ax) <= b
      BY <1>2, <1>6, PatchIs
    <3> QED BY <1>4, <1>18, <3>1
  <2>2. PICK q \in Int : q = p + 1
    BY <1>7
  <2>3. q \in Places(g, ax)
    BY <1>6, <1>7, <2>1, <2>2 DEF Places
  <2>4. FirstOn(g, ax, q) = b + 1
    BY <1>2, <2>2, <2>3, PatchesMeet
  <2>5. PICK l \in Int : l = FirstOn(g, ax, q) /\ l = b + 1
    BY <2>4
  <2>6. Linked(g, ax, q, -1)
    <3>1. q + (-1) = p
      BY <1>7, <2>2
    <3> QED BY <2>3, <3>1 DEF Linked
  <2>7. PICK x : x = Dist(g, ax, q, -1, h)
    OBVIOUS
  <2>8. a <= b
    BY <1>2, PatchIs
  <2>9. PICK i \in 0 .. h - 1 : i = z - l
    BY <1>2, <1>4, <1>5, <1>18, <2>5, <2>8
  <2>10. x[i] = At(g, ax, l + i) - q
    <3>1. l = FirstOn(g, ax, q)
      BY <2>5
    <3>2. x[i] = At(g, ax, FirstOn(g, ax, q) + i) - q
      BY <2>7 DEF Dist
    <3> QED BY <3>1, <3>2
  <2>11. l + i = z
    BY <1>4, <2>9
  <2>12. x[i] = k - 1
    <3>1. x[i] = o - q
      BY <1>16, <2>10, <2>11
    <3> QED BY <1>7, <1>16, <2>2, <3>1
  <2>13. \A j \in 0 .. h - 1 : j < c4 <=> x[j] < k
    BY <1>2, <2>2, <2>6, <2>7, CovIs
  <2>14. i < c4
    BY <2>12, <2>13
  <2>15. z <= f.rp - 1
    BY <1>3, <1>4, <2>5, <2>9, <2>14
  <2> QED BY <1>2, <1>3, <1>4, <1>18, <2>8, <2>15
<1> QED BY <1>4, <1>17, <1>18

\* A message holds the words of its box, and those of known cells are right.
LEMMA PackedFits ==
  ASSUME NEW g \in Grids, grid = g, NEW t \in Mesh(g), NEW s \in Exchange(g), Tracked(g, t, s),
         s.pc = "ready", NEW m, m = mem[t], Remembers(g, t, s, m),
         NEW h, h = g.halos[s.round], NEW ax, ax = s.axis,
         NEW now \in Exchange(g), now.axis = ax, now.round = s.round, now.from = s.from,
         now.w = Gap(g, ax, Place(t, ax), h, s.it),
         NEW d \in {-1, 1}, Linked(g, ax, Place(t, ax), d),
         NEW side, side = IF d = 1 THEN "sp" ELSE "sm",
         NEW msg, msg = Packed(t, now, side)
  PROVE  msg \in Seq(Words) /\ Fits(g, t, ax, d, <<s.round, s.it + 1>>, msg)
<1>1. PICK p, k : p = Place(t, ax) /\ k = s.it
  OBVIOUS
<1>2. /\ ax \in Axes /\ p \in Places(g, ax) /\ p \in Int /\ h \in Nat \ {0} /\ h <= MaxHalo(g)
      /\ k \in Nat /\ s.from = Ptr(g, ax, p, h, k) /\ s.round \in 1 .. Len(g.halos)
  BY <1>1, TrackedIs
<1>3. PICK box : box = LinkBox(g, t, ax, d, h, k)
  OBVIOUS
<1>4. BoxOf(t, now, side) = box
  <2>1. now.from = Ptr(g, ax, Place(t, ax), h, k) /\ now.w = Gap(g, ax, Place(t, ax), h, k)
    BY <1>1, <1>2
  <2>2. BoxOf(t, now, "sm") = LinkBox(g, t, ax, -1, h, k) /\ BoxOf(t, now, "sp") = LinkBox(g, t, ax, 1, h, k)
    BY <1>2, <2>1, BoxesAre
  <2>3. CASE d = 1
    BY <1>3, <2>2, <2>3
  <2>4. CASE d = -1
    BY <1>3, <2>2, <2>4
  <2> QED BY <2>3, <2>4
<1>5. PICK c \in Int, e \in Int : ReachOf(g, t, Other(ax), h) = c .. e
  <2>1. Other(ax) \in Axes
    BY <1>2, OtherIs
  <2>2. \E c, e \in Int : ReachOf(g, t, Other(ax), h) = c .. e
    BY <1>2, <2>1, ReachIs, ZenonT(40)
  <2> QED BY <2>2
<1>6. PICK a \in Int, b \in Int : AlongOf(g, ax, p, d, h, k) = a .. b
  <2>1. FirstOn(g, ax, p) \in Int /\ LastOn(g, ax, p) \in Int
    BY <1>2, PatchIs
  <2>2. Cov(g, ax, p, d, h, k) \in Int /\ Cov(g, ax, p, d, h, k + 1) \in Int
    <3>1. Cov(g, ax, p, d, h, k) \in 0 .. h /\ Cov(g, ax, p, d, h, k + 1) \in 0 .. h
      BY <1>2, CovType
    <3> QED BY <3>1
  <2>3. CASE d = 1
    <3>1. AlongOf(g, ax, p, d, h, k) =
            LastOn(g, ax, p) - Cov(g, ax, p, d, h, k + 1) + 1 .. LastOn(g, ax, p) - Cov(g, ax, p, d, h, k)
      BY <2>3 DEF AlongOf
    <3> QED BY <2>1, <2>2, <3>1
  <2>4. CASE d = -1
    <3>1. AlongOf(g, ax, p, d, h, k) =
            FirstOn(g, ax, p) + Cov(g, ax, p, d, h, k) .. FirstOn(g, ax, p) + Cov(g, ax, p, d, h, k + 1) - 1
      BY <2>4 DEF AlongOf
    <3> QED BY <2>1, <2>2, <3>1
  <2> QED BY <2>3, <2>4
<1>7. box = Box(a .. b, c .. e)
  BY <1>1, <1>3, <1>5, <1>6 DEF LinkBox
<1>8. Numbered(ax, box)
  <2>1. ax \in Axes
    BY <1>2
  <2> QED BY <1>7, <2>1, BoxOrder
<1>9. m \in [Cells[g][t] -> Words]
  BY DEF Remembers
<1>10. PICK n \in Nat : n = Size(box)
  BY <1>8 DEF Numbered
<1> DEFINE V(q) == IF CellOf(ax, box, q) \in Cells[g][t] THEN m[CellOf(ax, box, q)] ELSE Junk
<1>11. msg = [q \in 1 .. n |-> V(q)]
  BY <1>4, <1>10 DEF Packed
<1>12. \A q : V(q) \in Words
  <2> SUFFICES ASSUME NEW q PROVE V(q) \in Words
    OBVIOUS
  <2>1. Junk \in Words
    BY DEF Words
  <2> QED BY <1>9, <2>1
<1> HIDE DEF V
<1>13. msg \in [1 .. n -> Words]
  BY <1>11, <1>12
<1>14. msg \in Seq(Words) /\ Len(msg) = n
  BY <1>13
<1>15. ASSUME NEW cell \in Int \X Int, InBox(ax, box, cell), NEW z, z = CellAt(ax, cell[1], cell[2]),
              z[1] \in Domain(g, ax), z[2] \in Side(g, t, ax, h)
       PROVE  msg[PlaceOf(ax, box, cell)] = <<cell, s.round>>
  <2>1. PICK q \in 1 .. n : q = PlaceOf(ax, box, cell) /\ CellOf(ax, box, q) = cell
    BY <1>8, <1>10, <1>15 DEF Numbered
  <2>2. z[1] \in AlongOf(g, ax, p, d, h, k)
    BY <1>1, <1>3, <1>15 DEF InBox, LinkBox, Box
  <2>3. PICK f, y : f = s.from /\ y = z[1]
    OBVIOUS
  <2>4. f.rm + 1 <= y /\ y <= f.rp - 1
    <3>1. y \in Domain(g, ax) /\ y \in AlongOf(g, ax, p, d, h, k) /\ f = Ptr(g, ax, p, h, k)
      BY <1>2, <1>15, <2>2, <2>3
    <3>2. CASE d = 1
      <4>1. Linked(g, ax, p, 1) /\ y \in AlongOf(g, ax, p, 1, h, k)
        BY <1>1, <3>1, <3>2
      <4> QED BY <1>2, <3>1, <4>1, SendsKnownDown
    <3>3. CASE d = -1
      <4>1. Linked(g, ax, p, -1) /\ y \in AlongOf(g, ax, p, -1, h, k)
        BY <1>1, <3>1, <3>3
      <4> QED BY <1>2, <3>1, <4>1, SendsKnownUp
    <3> QED BY <3>2, <3>3
  <2>5. Known(g, t, s, cell)
    BY <1>15, <2>3, <2>4 DEF Known, Lies
  <2>6. cell \in Cells[g][t] /\ m[cell] = <<cell, s.round>>
    BY <2>5 DEF Remembers
  <2>7. msg[q] = V(q)
    BY <1>11
  <2> QED BY <2>1, <2>6, <2>7 DEF V
<1>16. Right(g, t, ax, s.round, box, msg)
  BY <1>15 DEF Right
<1>17. PICK x : x = <<s.round, k + 1>>
  OBVIOUS
<1>18. x[1] = s.round /\ x[2] - 1 = k
  BY <1>2, <1>17
<1>19. Fits(g, t, ax, d, x, msg)
  BY <1>3, <1>10, <1>14, <1>16, <1>18 DEF Fits
<1> QED BY <1>1, <1>14, <1>17, <1>19

-----------------------------------------------------------------------------
(* Steps that send and take nothing                                        *)

-----------------------------------------------------------------------------
(* Progress on the links                                                     *)

\* A message is due when its iteration takes a point.
LEMMA DueIs ==
  ASSUME NEW g \in Grids, NEW ax \in Axes, NEW p, NEW d \in {-1, 1},
         NEW r \in 1 .. Len(g.halos), NEW k \in Nat, NEW x, x = <<r, k + 1>>
  PROVE  /\ Due(g, ax, p, d) \subseteq Keys /\ x \in Keys
         /\ x \in Due(g, ax, p, d) <=> Taken(g, ax, p, d, g.halos[r], k) > 0
         /\ Taken(g, ax, p, d, g.halos[r], k) > 0 => Linked(g, ax, p, d)
<1>1. Len(g.halos) \in Nat
  BY GridIs
<1>2. r \in Nat /\ r \in 1 .. Len(g.halos) /\ k + 1 \in Nat /\ k + 1 >= 1 /\ (k + 1) - 1 = k
  BY <1>1
<1>3. x[1] = r /\ x[2] = k + 1 /\ x[2] - 1 = k
  BY <1>2
<1>4. x \in Keys
  BY <1>2 DEF Keys
<1>5. x \in Due(g, ax, p, d) <=> Taken(g, ax, p, d, g.halos[r], k) > 0
  BY <1>2, <1>3, <1>4 DEF Due
<1>6. ASSUME ~Linked(g, ax, p, d) PROVE ~(Taken(g, ax, p, d, g.halos[r], k) > 0)
  <2>1. Cov(g, ax, p, d, g.halos[r], k) = 0 /\ Cov(g, ax, p, d, g.halos[r], k + 1) = 0
    BY <1>6 DEF Cov
  <2>2. Taken(g, ax, p, d, g.halos[r], k) = 0
    BY <2>1 DEF Taken
  <2> QED BY <2>2
<1>7. Due(g, ax, p, d) \subseteq Keys
  BY DEF Due
<1> QED BY <1>4, <1>5, <1>6, <1>7

\* When a loop has come to its end, nothing is due before the next round.
LEMMA DueEnds ==
  ASSUME NEW g \in Grids, NEW ax \in Axes, NEW p \in Int, NEW d \in {-1, 1},
         NEW r \in 1 .. Len(g.halos), NEW k \in Nat, Ended(g, ax, p, d, g.halos[r], k),
         NEW x \in Due(g, ax, p, d)
  PROVE  Lt(x, <<r + 1, 1>>) <=> Lt(x, <<r, k + 1>>)
<1>1. PICK h : h = g.halos[r]
  OBVIOUS
<1>2. h \in Nat \ {0} /\ h <= MaxHalo(g)
  BY <1>1, RoundIs
<1>3. PICK a \in Nat, b \in Nat : x[1] = a /\ x[2] = b /\ b >= 1
  BY DEF Due, Keys
<1>4. Taken(g, ax, p, d, g.halos[a], b - 1) > 0
  BY <1>3 DEF Due
<1>5. PICK n \in Nat : n = r
  BY GridIs
<1>6. Lt(x, <<n + 1, 1>>) <=> a <= n
  BY <1>3 DEF Lt
<1>7. Lt(x, <<n, k + 1>>) <=> a < n \/ (a = n /\ b < k + 1)
  BY <1>3 DEF Lt
<1>8. ASSUME a = n, b >= k + 1 PROVE FALSE
  <2>1. PICK j \in Nat : j = b - 1 /\ k <= j /\ k <= j + 1 /\ j + 1 \in Nat
    BY <1>3, <1>8
  <2>2. PICK c \in 0 .. h : c = Cov(g, ax, p, d, h, k)
    BY <1>2, CovType
  <2>3. Linked(g, ax, p, d) => Cov(g, ax, p, d, h, k) = h
    BY <1>1 DEF Ended
  <2>4. Cov(g, ax, p, d, h, j) = c
    BY <1>2, <2>1, <2>2, <2>3, CovEnds
  <2>5. PICK i \in Nat : i = j + 1 /\ k <= i
    BY <2>1
  <2>6. Cov(g, ax, p, d, h, i) = c
    BY <1>2, <2>2, <2>3, <2>5, CovEnds
  <2>7. Taken(g, ax, p, d, h, j) = 0
    BY <2>2, <2>4, <2>5, <2>6 DEF Taken
  <2>8. Taken(g, ax, p, d, h, j) > 0
    BY <1>1, <1>4, <1>5, <1>8, <2>1
  <2> QED BY <2>7, <2>8
<1>9. a <= n <=> a < n \/ (a = n /\ b < k + 1)
  BY <1>8
<1> QED BY <1>5, <1>6, <1>7, <1>9

\* An iteration without a message is passed over.
LEMMA DuePasses ==
  ASSUME NEW D, D \subseteq Keys, NEW S \in Keys, S \notin D, NEW x \in D
  PROVE  Lt(x, After(S)) <=> Lt(x, S)
BY LtIs

\* Where a task is, on each axis
LEMMA ProgressIs ==
  ASSUME NEW s, s.axis \in Axes, NEW r, r = s.round
  PROVE  /\ s.pc # "done" => /\ NextSent(s, s.axis) = <<r, s.it + 1>>
                             /\ NextTaken(s, s.axis) = <<r, Passed(s) + 1>>
         /\ s.axis = "y" => NextSent(s, "x") = <<r, 1>> /\ NextTaken(s, "x") = <<r, 1>>
         /\ s.axis = "x" => NextSent(s, "y") = <<r + 1, 1>> /\ NextTaken(s, "y") = <<r + 1, 1>>
         /\ s.axis = "x" /\ s.pc = "done" =>
              NextSent(s, "x") = <<r + 1, 1>> /\ NextTaken(s, "x") = <<r + 1, 1>>
<1>1. "x" # "y"
  OBVIOUS
<1>2. s.pc # "done" => NextSent(s, s.axis) = <<r, s.it + 1>> /\ NextTaken(s, s.axis) = <<r, Passed(s) + 1>>
  BY DEF NextSent, NextTaken, Progress
<1>3. s.axis = "y" => NextSent(s, "x") = <<r, 1>> /\ NextTaken(s, "x") = <<r, 1>>
  BY <1>1 DEF NextSent, NextTaken, Progress
<1>4. s.axis = "x" => NextSent(s, "y") = <<r + 1, 1>> /\ NextTaken(s, "y") = <<r + 1, 1>>
  BY <1>1 DEF NextSent, NextTaken, Progress
<1>5. s.axis = "x" /\ s.pc = "done" => NextSent(s, "x") = <<r + 1, 1>> /\ NextTaken(s, "x") = <<r + 1, 1>>
  BY <1>1 DEF NextSent, NextTaken, Progress
<1> QED BY <1>2, <1>3, <1>4, <1>5

\* A step that sends and takes nothing leaves the due messages where they are.
Still(g, t, s, now) ==
  \A ax \in Axes, d \in {-1, 1} :
    /\ \A x \in Due(g, ax, Place(t, ax), d) : Lt(x, NextSent(now, ax)) <=> Lt(x, NextSent(s, ax))
    /\ \A x \in Due(g, ax, Place(t, ax) - d, d) : Lt(x, NextTaken(now, ax)) <=> Lt(x, NextTaken(s, ax))

\* Along an axis where every loop is at its end, the next round begins.
LEMMA EndsStill ==
  ASSUME NEW g \in Grids, NEW ax \in Axes, NEW p \in Int, NEW r \in 1 .. Len(g.halos), NEW k \in Nat,
         Full(g, ax, p, g.halos[r], k), NEW d \in {-1, 1}
  PROVE  /\ \A x \in Due(g, ax, p, d) : Lt(x, <<r + 1, 1>>) <=> Lt(x, <<r, k + 1>>)
         /\ \A x \in Due(g, ax, p - d, d) : Lt(x, <<r + 1, 1>>) <=> Lt(x, <<r, k + 1>>)
<1>1. Ended(g, ax, p, d, g.halos[r], k)
  BY DEF Full
<1>2. p - d \in Int /\ Ended(g, ax, p - d, d, g.halos[r], k)
  <2>1. CASE d = 1
    BY <2>1 DEF Full
  <2>2. CASE d = -1
    <3>1. p - d = p + 1
      BY <2>2
    <3> QED BY <2>2, <3>1 DEF Full
  <2> QED BY <2>1, <2>2
<1> QED BY <1>1, <1>2, DueEnds

\* When a task turns to x, nothing was due along y any more.
LEMMA TurnStill ==
  ASSUME NEW g \in Grids, NEW t \in Mesh(g), NEW s \in Exchange(g), Tracked(g, t, s),
         s.pc = "ready", s.axis = "y", Full(g, "y", Place(t, "y"), g.halos[s.round], s.it),
         NEW now \in Exchange(g), now.axis = "x", now.pc = "ready", now.round = s.round,
         now.it = 0, Passed(now) = 0
  PROVE  Still(g, t, s, now)
<1>1. PICK r \in 1 .. Len(g.halos), k \in Nat : r = s.round /\ k = s.it
  BY DEF Exchange
<1>2. Passed(s) = k
  BY <1>1, TrackedIs
<1>3. "x" \in Axes /\ "y" \in Axes
  BY DEF Axes
<1>4. /\ NextSent(s, "y") = <<r, k + 1>> /\ NextTaken(s, "y") = <<r, k + 1>>
      /\ NextSent(s, "x") = <<r, 1>> /\ NextTaken(s, "x") = <<r, 1>>
  BY <1>1, <1>2, <1>3, ProgressIs
<1>5. /\ NextSent(now, "x") = <<r, 1>> /\ NextTaken(now, "x") = <<r, 1>>
      /\ NextSent(now, "y") = <<r + 1, 1>> /\ NextTaken(now, "y") = <<r + 1, 1>>
  <2>1. 0 + 1 = 1
    OBVIOUS
  <2> QED BY <1>1, <1>3, <2>1, ProgressIs
<1>6. PICK p \in Int : p = Place(t, "y")
  BY <1>3, MeshIs
<1>7. Full(g, "y", p, g.halos[r], k)
  BY <1>1, <1>6
<1>8. ASSUME NEW d \in {-1, 1}
      PROVE  /\ \A x \in Due(g, "y", p, d) : Lt(x, NextSent(now, "y")) <=> Lt(x, NextSent(s, "y"))
             /\ \A x \in Due(g, "y", p - d, d) : Lt(x, NextTaken(now, "y")) <=> Lt(x, NextTaken(s, "y"))
  <2>1. /\ \A x \in Due(g, "y", p, d) : Lt(x, <<r + 1, 1>>) <=> Lt(x, <<r, k + 1>>)
        /\ \A x \in Due(g, "y", p - d, d) : Lt(x, <<r + 1, 1>>) <=> Lt(x, <<r, k + 1>>)
    BY <1>3, <1>7, EndsStill
  <2> QED BY <1>4, <1>5, <2>1
<1>9. NextSent(now, "x") = NextSent(s, "x") /\ NextTaken(now, "x") = NextTaken(s, "x")
  BY <1>4, <1>5
<1> QED BY <1>6, <1>8, <1>9 DEF Still, Axes

\* When a task leaves the exchange, nothing was due along x any more.
LEMMA FinishStill ==
  ASSUME NEW g \in Grids, NEW t \in Mesh(g), NEW s \in Exchange(g), Tracked(g, t, s),
         s.pc = "ready", s.axis = "x", Full(g, "x", Place(t, "x"), g.halos[s.round], s.it),
         NEW now \in Exchange(g), now.axis = "x", now.pc = "done", now.round = s.round
  PROVE  Still(g, t, s, now)
<1>1. PICK r \in 1 .. Len(g.halos), k \in Nat : r = s.round /\ k = s.it
  BY DEF Exchange
<1>2. Passed(s) = k
  BY <1>1, TrackedIs
<1>3. "x" \in Axes /\ "y" \in Axes
  BY DEF Axes
<1>4. /\ NextSent(s, "x") = <<r, k + 1>> /\ NextTaken(s, "x") = <<r, k + 1>>
      /\ NextSent(s, "y") = <<r + 1, 1>> /\ NextTaken(s, "y") = <<r + 1, 1>>
  BY <1>1, <1>2, <1>3, ProgressIs
<1>5. /\ NextSent(now, "x") = <<r + 1, 1>> /\ NextTaken(now, "x") = <<r + 1, 1>>
      /\ NextSent(now, "y") = <<r + 1, 1>> /\ NextTaken(now, "y") = <<r + 1, 1>>
  BY <1>1, <1>3, ProgressIs
<1>6. PICK p \in Int : p = Place(t, "x")
  BY <1>3, MeshIs
<1>7. Full(g, "x", p, g.halos[r], k)
  BY <1>1, <1>6
<1>8. ASSUME NEW d \in {-1, 1}
      PROVE  /\ \A x \in Due(g, "x", p, d) : Lt(x, NextSent(now, "x")) <=> Lt(x, NextSent(s, "x"))
             /\ \A x \in Due(g, "x", p - d, d) : Lt(x, NextTaken(now, "x")) <=> Lt(x, NextTaken(s, "x"))
  <2>1. /\ \A x \in Due(g, "x", p, d) : Lt(x, <<r + 1, 1>>) <=> Lt(x, <<r, k + 1>>)
        /\ \A x \in Due(g, "x", p - d, d) : Lt(x, <<r + 1, 1>>) <=> Lt(x, <<r, k + 1>>)
    BY <1>3, <1>7, EndsStill
  <2> QED BY <1>4, <1>5, <2>1
<1>9. NextSent(now, "y") = NextSent(s, "y") /\ NextTaken(now, "y") = NextTaken(s, "y")
  BY <1>4, <1>5
<1> QED BY <1>6, <1>8, <1>9 DEF Still, Axes

\* When a task begins the next exchange, it has passed all messages of the last.
LEMMA ComputeStill ==
  ASSUME NEW g \in Grids, NEW t \in Mesh(g), NEW s \in Exchange(g), Tracked(g, t, s), s.pc = "done",
         NEW now \in Exchange(g), now.axis = "y", now.pc = "ready", now.round = s.round + 1,
         now.it = 0, Passed(now) = 0
  PROVE  Still(g, t, s, now)
<1>1. PICK r : r = s.round
  OBVIOUS
<1>2. s.axis = "x"
  BY TrackedIs
<1>3. "x" \in Axes /\ "y" \in Axes
  BY DEF Axes
<1>4. /\ NextSent(s, "x") = <<r + 1, 1>> /\ NextTaken(s, "x") = <<r + 1, 1>>
      /\ NextSent(s, "y") = <<r + 1, 1>> /\ NextTaken(s, "y") = <<r + 1, 1>>
  BY <1>1, <1>2, <1>3, ProgressIs
<1>5. /\ NextSent(now, "x") = <<r + 1, 1>> /\ NextTaken(now, "x") = <<r + 1, 1>>
      /\ NextSent(now, "y") = <<r + 1, 1>> /\ NextTaken(now, "y") = <<r + 1, 1>>
  <2>1. 0 + 1 = 1
    OBVIOUS
  <2> QED BY <1>1, <1>3, <2>1, ProgressIs
<1>6. ASSUME NEW ax \in Axes
      PROVE  NextSent(now, ax) = NextSent(s, ax) /\ NextTaken(now, ax) = NextTaken(s, ax)
  BY <1>4, <1>5 DEF Axes
<1> QED BY <1>6 DEF Still

\* Such a step keeps the links as they are.
LEMMA QuietStep ==
  ASSUME NEW g \in Grids, TaskParts(g), LinkParts(g), NEW t \in Mesh(g), NEW now \in Exchange(g),
         Still(g, t, st[t], now), st' = [st EXCEPT ![t] = now], chan' = chan
  PROVE  LinkParts(g)'
<1>1. st'[t] = now /\ \A u \in Mesh(g) : u # t => st'[u] = st[u]
  BY DEF TaskParts
<1>2. chan' \in [LinksOf(g) -> Seq(Seq(Words))]
  BY DEF LinkParts
<1>3. ASSUME NEW v \in Mesh(g), NEW u \in Mesh(g), NEW ax \in Axes, NEW d \in {-1, 1}, u = Neighbour(v, ax, d)
      PROVE  OnLink(g, v, u, ax, d)'
  <2>1. PICK D, M : D = Due(g, ax, Place(v, ax), d) /\ M = Messages(g, v, ax, d)
    OBVIOUS
  <2>2. D \subseteq Keys
    BY <2>1 DEF Due
  <2>3. Flow(D, M, NextSent(st[v], ax), NextTaken(st[u], ax), chan[<<v, u>>])
    BY <1>3, <2>1 DEF LinkParts, OnLink
  <2>4. PICK p \in Int : p = Place(v, ax) /\ Place(u, ax) = p + d /\ (p + d) - d = p /\ u # v
    <3>1. Place(v, ax) \in Int /\ Place(u, ax) = Place(v, ax) + d /\ u # v
      BY <1>3, MeshIs
    <3> QED BY <3>1
  <2>5. \A x \in D : Lt(x, NextSent(st'[v], ax)) <=> Lt(x, NextSent(st[v], ax))
    <3>1. CASE v = t
      BY <1>1, <2>1, <3>1 DEF Still
    <3>2. CASE v # t
      BY <1>1, <3>2
    <3> QED BY <3>1, <3>2
  <2>6. \A x \in D : Lt(x, NextTaken(st'[u], ax)) <=> Lt(x, NextTaken(st[u], ax))
    <3>1. CASE u = t
      <4>1. Due(g, ax, Place(t, ax) - d, d) = D
        BY <2>1, <2>4, <3>1
      <4>2. \A x \in Due(g, ax, Place(t, ax) - d, d) : Lt(x, NextTaken(now, ax)) <=> Lt(x, NextTaken(st[t], ax))
        BY DEF Still
      <4> QED BY <1>1, <3>1, <4>1, <4>2
    <3>2. CASE u # t
      BY <1>1, <3>2
    <3> QED BY <3>1, <3>2
  <2>7. PICK S, R, S2, R2, c : /\ S = NextSent(st[v], ax) /\ R = NextTaken(st[u], ax) /\ c = chan[<<v, u>>]
                               /\ S2 = NextSent(st'[v], ax) /\ R2 = NextTaken(st'[u], ax)
    OBVIOUS
  <2>8. Flow(D, M, S2, R2, c)
    <3>1. Flow(D, M, S, R, c)
      BY <2>3, <2>7
    <3>2. \A x \in D : (Lt(x, S2) <=> Lt(x, S)) /\ (Lt(x, R2) <=> Lt(x, R))
      BY <2>5, <2>6, <2>7
    <3> QED BY <2>2, <3>1, <3>2, FlowSkips
  <2>9. Flow(D, M, NextSent(st'[v], ax), NextTaken(st'[u], ax), chan'[<<v, u>>])
    BY <2>7, <2>8
  <2> QED BY <2>1, <2>9 DEF OnLink
<1> QED BY <1>2, <1>3 DEF LinkParts

-----------------------------------------------------------------------------
(* What an iteration sends                                                 *)

\* The sides of a message that goes in direction d
SideTo(d) == IF d = 1 THEN "sp" ELSE "sm"
SideFrom(d) == IF d = 1 THEN "rm" ELSE "rp"

\* A task has four neighbours, all different.
LEMMA LinksDiffer ==
  ASSUME NEW g \in Grids, NEW t \in Mesh(g), NEW ax \in Axes, NEW a \in Axes,
         NEW d \in {-1, 1}, NEW e \in {-1, 1}, Neighbour(t, ax, d) = Neighbour(t, a, e)
  PROVE  ax = a /\ d = e
<1>1. PICK i \in Int, j \in Int : t[1] = i /\ t[2] = j
  BY GridAssumption DEF Mesh
<1>2. /\ Neighbour(t, "x", d) = <<i + d, j>> /\ Neighbour(t, "y", d) = <<i, j + d>>
      /\ Neighbour(t, "x", e) = <<i + e, j>> /\ Neighbour(t, "y", e) = <<i, j + e>>
  BY <1>1 DEF Neighbour
<1>3. /\ <<i + d, j>> = <<i + e, j>> => d = e
      /\ <<i, j + d>> = <<i, j + e>> => d = e
      /\ <<i + d, j>> # <<i, j + e>> /\ <<i, j + d>> # <<i + e, j>>
  OBVIOUS
<1> QED BY <1>2, <1>3 DEF Axes

\* The links of the domain.
LEMMA LinksAre ==
  ASSUME NEW g \in Grids, grid = g
  PROVE  /\ Links = LinksOf(g) /\ Tasks = Mesh(g)
         /\ \A t, u \in Mesh(g), ax \in Axes, d \in {-1, 1} :
              u = Neighbour(t, ax, d) => <<t, u>> \in LinksOf(g)
<1>1. Links = LinksOf(g) /\ Tasks = Mesh(g)
  BY DEF Links, Tasks, LinksOf
<1>2. ASSUME NEW t \in Mesh(g), NEW u \in Mesh(g), NEW ax \in Axes, NEW d \in {-1, 1}, u = Neighbour(t, ax, d)
      PROVE  <<t, u>> \in LinksOf(g)
  <2>1. PICK l : l = <<t, u>>
    OBVIOUS
  <2>2. l \in Mesh(g) \X Mesh(g) /\ l[1] = t /\ l[2] = u
    BY <2>1
  <2>3. l \in LinksOf(g)
    BY <1>2, <2>2 DEF LinksOf
  <2> QED BY <2>1, <2>3
<1> QED BY <1>1, <1>2

\* Each side has a link of its own.
LEMMA PartnersAre ==
  ASSUME NEW t, NEW s, NEW a, a = s.axis
  PROVE  /\ Partner(t, s, "sm") = Neighbour(t, a, -1) /\ Partner(t, s, "rm") = Neighbour(t, a, -1)
         /\ Partner(t, s, "sp") = Neighbour(t, a, 1) /\ Partner(t, s, "rp") = Neighbour(t, a, 1)
<1>1. "sp" \notin {"sm", "rm"} /\ "rp" \notin {"sm", "rm"}
  OBVIOUS
<1> QED BY <1>1 DEF Partner, Minus, Plus

\* What an iteration of a task, now, does to the links
Puts(g, t, now, before, after) ==
  /\ after \in [LinksOf(g) -> Seq(Seq(Words))]
  /\ \A d \in {-1, 1}, u \in Mesh(g) : u = Neighbour(t, now.axis, d) =>
       /\ SideTo(d) \in Sends(now) =>
            \E m \in Seq(Words) : /\ after[<<t, u>>] = Append(before[<<t, u>>], m)
                                  /\ Fits(g, t, now.axis, d, <<now.round, now.it>>, m)
       /\ SideTo(d) \notin Sends(now) => after[<<t, u>>] = before[<<t, u>>]
  /\ \A l \in LinksOf(g) : (\A d \in {-1, 1} : l # <<t, Neighbour(t, now.axis, d)>>) => after[l] = before[l]

\* What the sends of an iteration put on the links
Emits(t, now, out) ==
  chan' = [l \in Links |->
    chan[l] \o (IF \E side \in Sends(now) : l = <<t, Partner(t, now, side)>>
               THEN <<out[CHOOSE side \in Sends(now) : l = <<t, Partner(t, now, side)>>]>>
               ELSE <<>>)]

\* The sends of an iteration put one message on the link of each side with a width.
LEMMA Sent ==
  ASSUME NEW g \in Grids, grid = g, NEW t \in Mesh(g), NEW now \in Exchange(g), NEW a, a = now.axis,
         chan \in [LinksOf(g) -> Seq(Seq(Words))],
         NEW out, out = [side \in Sends(now) |-> Packed(t, now, side)],
         \A side \in Sends(now) : Packed(t, now, side) \in Seq(Words),
         \A d \in {-1, 1} : SideTo(d) \in Sends(now) =>
           Fits(g, t, a, d, <<now.round, now.it>>, Packed(t, now, SideTo(d))),
         Emits(t, now, out)
  PROVE  Puts(g, t, now, chan, chan')
<1> DEFINE P(l, side) == l = <<t, Partner(t, now, side)>>
           X(l) == CHOOSE side \in Sends(now) : P(l, side)
<1>0. a \in Axes
  BY DEF Exchange
<1>1. PICK B : B = LinksOf(g)
  OBVIOUS
<1>2. Links = B
  BY <1>1, LinksAre
<1>3. PICK M : M = Seq(Words)
  OBVIOUS
<1>4. chan \in [B -> Seq(M)] /\ \A side \in Sends(now) : out[side] \in M
  BY <1>1, <1>3
<1>5. \A l \in B : chan'[l] = chan[l] \o (IF \E side \in Sends(now) : P(l, side) THEN <<out[X(l)]>> ELSE <<>>)
  BY <1>2 DEF Emits
<1>6. DOMAIN chan' = B /\ chan' = [l \in B |-> chan'[l]]
  BY <1>2 DEF Emits
<1>7. ASSUME NEW l \in B, \A side \in Sends(now) : ~P(l, side) PROVE chan'[l] = chan[l]
  <2>1. chan[l] \in Seq(M) /\ chan'[l] = chan[l] \o <<>>
    BY <1>4, <1>5, <1>7
  <2> QED BY <2>1
<1>8. ASSUME NEW l \in B, NEW side \in Sends(now), P(l, side),
             \A e \in Sends(now) : P(l, e) => e = side
      PROVE  chan'[l] = Append(chan[l], out[side])
  <2>1. X(l) = side
    <3>1. X(l) \in Sends(now) /\ P(l, X(l))
      BY <1>8
    <3> QED BY <1>8, <3>1
  <2>2. chan'[l] = chan[l] \o <<out[side]>>
    BY <1>5, <1>8, <2>1
  <2>3. PICK q \in Seq(M), m \in M : q = chan[l] /\ m = out[side]
    BY <1>4
  <2>4. q \o <<m>> = Append(q, m)
    OBVIOUS
  <2> QED BY <2>2, <2>3, <2>4
<1>9. /\ Sends(now) \subseteq {"sm", "sp"}
      /\ \A l : P(l, "sm") <=> l = <<t, Neighbour(t, a, -1)>>
      /\ \A l : P(l, "sp") <=> l = <<t, Neighbour(t, a, 1)>>
      /\ \A l : ~(P(l, "sm") /\ P(l, "sp"))
  <2>1. Sends(now) \subseteq {"sm", "sp"}
    BY DEF Sends
  <2>2. Neighbour(t, a, -1) # Neighbour(t, a, 1)
    BY <1>0, LinksDiffer
  <2>3. Partner(t, now, "sm") = Neighbour(t, a, -1) /\ Partner(t, now, "sp") = Neighbour(t, a, 1)
    BY PartnersAre
  <2> QED BY <2>1, <2>2, <2>3
<1> HIDE DEF X
<1>10. ASSUME NEW l \in B, NEW d \in {-1, 1}, l = <<t, Neighbour(t, a, d)>>
       PROVE  /\ P(l, SideTo(d))
              /\ \A e \in Sends(now) : P(l, e) => e = SideTo(d)
  <2>1. CASE d = 1
    <3>1. SideTo(d) = "sp"
      BY <2>1 DEF SideTo
    <3>2. P(l, "sp")
      BY <1>9, <1>10, <2>1
    <3>3. \A e \in Sends(now) : P(l, e) => e = "sp"
      BY <1>9, <3>2
    <3> QED BY <3>1, <3>2, <3>3
  <2>2. CASE d = -1
    <3>1. SideTo(d) = "sm"
      BY <2>2 DEF SideTo
    <3>2. P(l, "sm")
      BY <1>9, <1>10, <2>2
    <3>3. \A e \in Sends(now) : P(l, e) => e = "sm"
      BY <1>9, <3>2
    <3> QED BY <3>1, <3>2, <3>3
  <2> QED BY <2>1, <2>2
<1>11. ASSUME NEW l \in B, \A d \in {-1, 1} : l # <<t, Neighbour(t, a, d)>>
       PROVE  \A side \in Sends(now) : ~P(l, side)
  BY <1>9, <1>11
<1> HIDE DEF P
<1>12. ASSUME NEW d \in {-1, 1}, NEW u \in Mesh(g), u = Neighbour(t, a, d)
       PROVE  /\ SideTo(d) \in Sends(now) =>
                   chan'[<<t, u>>] = Append(chan[<<t, u>>], Packed(t, now, SideTo(d)))
              /\ SideTo(d) \notin Sends(now) => chan'[<<t, u>>] = chan[<<t, u>>]
  <2>1. PICK l \in B : l = <<t, u>>
    BY <1>0, <1>1, <1>12, LinksAre
  <2>2. P(l, SideTo(d)) /\ \A e \in Sends(now) : P(l, e) => e = SideTo(d)
    BY <1>10, <1>12, <2>1
  <2>3. SideTo(d) \in Sends(now) => chan'[l] = Append(chan[l], out[SideTo(d)])
    BY <1>8, <2>2
  <2>4. SideTo(d) \notin Sends(now) => chan'[l] = chan[l]
    BY <1>7, <2>2
  <2>5. SideTo(d) \in Sends(now) => out[SideTo(d)] = Packed(t, now, SideTo(d))
    OBVIOUS
  <2> QED BY <2>1, <2>3, <2>4, <2>5
<1>13. \A l \in B : (\A d \in {-1, 1} : l # <<t, Neighbour(t, a, d)>>) => chan'[l] = chan[l]
  BY <1>7, <1>11
<1>14. ASSUME NEW l \in B PROVE chan'[l] \in Seq(M)
  <2>1. chan[l] \in Seq(M)
    BY <1>4
  <2>2. CASE \A d \in {-1, 1} : l # <<t, Neighbour(t, a, d)>>
    BY <1>13, <2>1, <2>2
  <2>3. ASSUME NEW d \in {-1, 1}, l = <<t, Neighbour(t, a, d)>> PROVE chan'[l] \in Seq(M)
    <3>1. P(l, SideTo(d)) /\ \A e \in Sends(now) : P(l, e) => e = SideTo(d)
      BY <1>10, <2>3
    <3>2. CASE SideTo(d) \in Sends(now)
      <4>1. chan'[l] = Append(chan[l], out[SideTo(d)])
        BY <1>8, <3>1, <3>2
      <4>2. PICK q \in Seq(M), m \in M : q = chan[l] /\ m = out[SideTo(d)]
        BY <1>4, <2>1, <3>2
      <4>3. Append(q, m) \in Seq(M)
        OBVIOUS
      <4> QED BY <4>1, <4>2, <4>3
    <3>3. CASE SideTo(d) \notin Sends(now)
      BY <1>7, <2>1, <3>1, <3>3
    <3> QED BY <3>2, <3>3
  <2> QED BY <2>2, <2>3
<1>15. chan' \in [B -> Seq(M)]
  BY <1>6, <1>14
<1>16. ASSUME NEW d \in {-1, 1}, NEW u \in Mesh(g), u = Neighbour(t, a, d), SideTo(d) \in Sends(now)
       PROVE  \E m \in Seq(Words) : /\ chan'[<<t, u>>] = Append(chan[<<t, u>>], m)
                                   /\ Fits(g, t, a, d, <<now.round, now.it>>, m)
  BY <1>12, <1>16
<1> QED BY <1>1, <1>3, <1>12, <1>13, <1>15, <1>16 DEF Puts

\* Where a task is follows from its axis, its round and its iterations.
LEMMA SameProgress ==
  ASSUME NEW s, NEW now, now.axis = s.axis, now.round = s.round, s.pc # "done", now.pc # "done", NEW ax
  PROVE  /\ now.it = s.it \/ ax # s.axis => NextSent(now, ax) = NextSent(s, ax)
         /\ Passed(now) = Passed(s) \/ ax # s.axis => NextTaken(now, ax) = NextTaken(s, ax)
BY DEF NextSent, NextTaken, Progress

\* An iteration sends what is due in it.
LEMMA SendsAreDue ==
  ASSUME NEW now, NEW g, NEW ax, NEW p, NEW h, NEW k, now.w = Gap(g, ax, p, h, k), NEW d \in {-1, 1}
  PROVE  SideTo(d) \in Sends(now) <=> Taken(g, ax, p, d, h, k) > 0
<1>1. PICK w : w = now.w
  OBVIOUS
<1>2. w["sm"] = Taken(g, ax, p, -1, h, k) /\ w["sp"] = Taken(g, ax, p, 1, h, k)
  BY <1>1 DEF Gap
<1>3. CASE d = 1
  <2>1. SideTo(d) = "sp"
    BY <1>3 DEF SideTo
  <2> QED BY <1>1, <1>2, <1>3, <2>1 DEF Sends
<1>4. CASE d = -1
  <2>1. SideTo(d) = "sm"
    BY <1>4 DEF SideTo
  <2> QED BY <1>1, <1>2, <1>4, <2>1 DEF Sends
<1> QED BY <1>3, <1>4

\* What an iteration sends fits the boxes its receivers will unpack.
LEMMA IteratePuts ==
  ASSUME NEW g \in Grids, grid = g, NEW t \in Mesh(g), NEW s \in Exchange(g), Tracked(g, t, s),
         Remembers(g, t, s, mem[t]), chan \in [LinksOf(g) -> Seq(Seq(Words))],
         s.pc = "ready", NEW a, a = s.axis,
         NEW now \in Exchange(g), now.axis = a, now.round = s.round, now.it = s.it + 1,
         now.from = s.from, now.w = Gap(g, a, Place(t, a), g.halos[s.round], s.it),
         NEW out, out = [side \in Sends(now) |-> Packed(t, now, side)],
         Emits(t, now, out)
  PROVE  Puts(g, t, now, chan, chan')
<1>1. PICK p, k, h, r : p = Place(t, a) /\ k = s.it /\ h = g.halos[r] /\ r = s.round
  OBVIOUS
<1>2. a \in Axes /\ k \in Nat /\ r \in 1 .. Len(g.halos)
  BY <1>1, TrackedIs
<1>3. ASSUME NEW d \in {-1, 1}, SideTo(d) \in Sends(now)
      PROVE  /\ Packed(t, now, SideTo(d)) \in Seq(Words)
             /\ Fits(g, t, a, d, <<s.round, s.it + 1>>, Packed(t, now, SideTo(d)))
  <2>1. Taken(g, a, p, d, h, k) > 0
    BY <1>1, <1>3, SendsAreDue
  <2>2. Linked(g, a, p, d)
    <3>1. PICK x : x = <<r, k + 1>>
      OBVIOUS
    <3> QED BY <1>1, <1>2, <2>1, <3>1, DueIs
  <2>3. PICK m, y, msg : m = mem[t] /\ y = SideTo(d) /\ msg = Packed(t, now, y)
    OBVIOUS
  <2>4. y = IF d = 1 THEN "sp" ELSE "sm"
    BY <2>3 DEF SideTo
  <2>5. msg \in Seq(Words) /\ Fits(g, t, a, d, <<s.round, s.it + 1>>, msg)
    BY <1>1, <2>2, <2>3, <2>4, PackedFits
  <2> QED BY <2>3, <2>5
<1>4. ASSUME NEW side \in Sends(now) PROVE Packed(t, now, side) \in Seq(Words)
  <2>1. side = "sm" \/ side = "sp"
    BY DEF Sends
  <2>2. SideTo(-1) = "sm" /\ SideTo(1) = "sp"
    BY DEF SideTo
  <2>3. \E d \in {-1, 1} : side = SideTo(d)
    BY <2>1, <2>2
  <2> QED BY <1>3, <2>3
<1>5. a = now.axis
  OBVIOUS
<1>6. \A d \in {-1, 1} : SideTo(d) \in Sends(now) =>
        Fits(g, t, a, d, <<now.round, now.it>>, Packed(t, now, SideTo(d)))
  BY <1>3
<1> QED BY <1>4, <1>5, <1>6, Sent

\* Where a task may be
LEMMA NextIsAKey ==
  ASSUME NEW g \in Grids, NEW t \in Mesh(g), NEW s \in Exchange(g), Tracked(g, t, s), NEW ax
  PROVE  NextSent(s, ax) \in Keys /\ NextTaken(s, ax) \in Keys
<1>1. PICK r \in Nat, k \in Nat, n \in Nat : r = s.round /\ k = s.it /\ n = Passed(s)
  <2>1. s.round \in 1 .. Len(g.halos) /\ s.it \in Nat /\ Passed(s) \in Nat
    BY TrackedIs
  <2>2. "x" \in Axes
    BY DEF Axes
  <2>3. Len(g.halos) \in Nat
    BY <2>2, GridIs
  <2> QED BY <2>1, <2>3
<1>2. /\ NextSent(s, ax) = <<r, k + 1>> \/ NextSent(s, ax) = <<r, 1>> \/ NextSent(s, ax) = <<r + 1, 1>>
      /\ NextTaken(s, ax) = <<r, n + 1>> \/ NextTaken(s, ax) = <<r, 1>> \/ NextTaken(s, ax) = <<r + 1, 1>>
  BY <1>1 DEF NextSent, NextTaken, Progress
<1>3. <<r, k + 1>> \in Keys /\ <<r, n + 1>> \in Keys /\ <<r, 1>> \in Keys /\ <<r + 1, 1>> \in Keys
  BY DEF Keys
<1> QED BY <1>2, <1>3

\* A link whose sender begins an iteration still holds what is due, in order.
LEMMA IterateLinks ==
  ASSUME NEW g \in Grids, TaskParts(g), LinkParts(g), NEW t \in Mesh(g),
         NEW s \in Exchange(g), s = st[t], Tracked(g, t, s), s.pc = "ready",
         NEW now \in Exchange(g), now.pc = "wait", now.axis = s.axis, now.round = s.round,
         now.it = s.it + 1, Passed(now) = Passed(s),
         now.w = Gap(g, s.axis, Place(t, s.axis), g.halos[s.round], s.it),
         Puts(g, t, now, chan, chan'), st' = [st EXCEPT ![t] = now]
  PROVE  LinkParts(g)'
<1>2. PICK a, p, k, h, r : a = s.axis /\ p = Place(t, a) /\ k = s.it /\ h = g.halos[r] /\ r = s.round
  OBVIOUS
<1>3. a \in Axes /\ k \in Nat /\ r \in 1 .. Len(g.halos) /\ p \in Int
  BY <1>2, TrackedIs
<1>4. /\ chan' \in [LinksOf(g) -> Seq(Seq(Words))]
      /\ \A d \in {-1, 1}, u \in Mesh(g) : u = Neighbour(t, a, d) =>
           /\ SideTo(d) \in Sends(now) =>
                \E m \in Seq(Words) : /\ chan'[<<t, u>>] = Append(chan[<<t, u>>], m)
                                      /\ Fits(g, t, a, d, <<r, k + 1>>, m)
           /\ SideTo(d) \notin Sends(now) => chan'[<<t, u>>] = chan[<<t, u>>]
      /\ \A l \in LinksOf(g) : (\A d \in {-1, 1} : l # <<t, Neighbour(t, a, d)>>) => chan'[l] = chan[l]
  BY <1>2 DEF Puts
<1>5. ASSUME NEW d \in {-1, 1}
      PROVE  SideTo(d) \in Sends(now) <=> Taken(g, a, p, d, h, k) > 0
  BY <1>2, SendsAreDue
<1>9. st'[t] = now /\ \A u \in Mesh(g) : u # t => st'[u] = st[u]
  BY DEF TaskParts
<1>10. ASSUME NEW u \in Mesh(g), NEW ax \in Axes
       PROVE  /\ NextTaken(st'[u], ax) = NextTaken(st[u], ax)
              /\ u # t \/ ax # a => NextSent(st'[u], ax) = NextSent(st[u], ax)
  <2>1. CASE u = t
    <3>1. s.pc # "done" /\ now.pc # "done"
      OBVIOUS
    <3>2. NextTaken(now, ax) = NextTaken(s, ax) /\ (ax # a => NextSent(now, ax) = NextSent(s, ax))
      BY <1>2, <3>1, SameProgress
    <3> QED BY <1>9, <2>1, <3>2
  <2>2. CASE u # t
    BY <1>9, <2>2
  <2> QED BY <2>1, <2>2
<1>11. PICK S : S = <<r, k + 1>>
  OBVIOUS
<1>12. NextSent(s, a) = S /\ NextSent(now, a) = After(S)
  <2>1. s.pc # "done" /\ now.pc # "done"
    OBVIOUS
  <2>2. NextSent(s, a) = <<r, k + 1>> /\ NextSent(now, a) = <<r, (k + 1) + 1>>
    BY <1>2, <1>3, <2>1, ProgressIs
  <2>3. After(S) = <<r, (k + 1) + 1>>
    BY <1>11 DEF After
  <2> QED BY <1>11, <2>2, <2>3
<1>13. ASSUME NEW v \in Mesh(g), NEW u \in Mesh(g), NEW ax \in Axes, NEW d \in {-1, 1}, u = Neighbour(v, ax, d)
       PROVE  OnLink(g, v, u, ax, d)'
  <2>1. PICK D, M : D = Due(g, ax, Place(v, ax), d) /\ M = Messages(g, v, ax, d)
    OBVIOUS
  <2>2. D \subseteq Keys
    BY <2>1 DEF Due
  <2>3. PICK S1, R, c : S1 = NextSent(st[v], ax) /\ R = NextTaken(st[u], ax) /\ c = chan[<<v, u>>]
    OBVIOUS
  <2>4. Flow(D, M, S1, R, c)
    BY <1>13, <2>1, <2>3 DEF LinkParts, OnLink
  <2>5. u # v /\ <<v, u>> \in LinksOf(g)
    BY <1>13, MeshIs DEF LinksOf
  <2>6. CASE v = t /\ ax = a
    <3>1. D = Due(g, a, p, d) /\ S1 = S /\ u = Neighbour(t, a, d)
      BY <1>2, <1>12, <1>13, <2>1, <2>3, <2>6
    <3>2. S \in Keys /\ (S \in D <=> Taken(g, a, p, d, h, k) > 0)
      <4>1. S \in Keys /\ (S \in Due(g, a, p, d) <=> Taken(g, a, p, d, g.halos[r], k) > 0)
        BY <1>3, <1>11, DueIs
      <4> QED BY <1>2, <3>1, <4>1
    <3>3. NextSent(st'[v], ax) = After(S) /\ NextTaken(st'[u], ax) = R
      BY <1>9, <1>10, <1>12, <2>3, <2>6
    <3>4. CASE S \in D
      <4>1. SideTo(d) \in Sends(now)
        BY <1>5, <3>2, <3>4
      <4>2. PICK msg \in Seq(Words) : chan'[<<t, u>>] = Append(chan[<<t, u>>], msg) /\ Fits(g, t, a, d, S, msg)
        BY <1>4, <1>11, <3>1, <4>1
      <4>3. chan'[<<v, u>>] = Append(c, msg)
        BY <2>3, <2>6, <4>2
      <4>4. <<S, msg>> \in M
        <5>1. PICK y : y = <<S, msg>>
          OBVIOUS
        <5>2. y \in Keys \X Seq(Words) /\ y[1] = S /\ y[2] = msg
          BY <3>2, <5>1
        <5>3. y \in Messages(g, t, a, d)
          BY <4>2, <5>2 DEF Messages
        <5> QED BY <2>1, <2>6, <5>1, <5>3
      <4>5. c \in Seq(Seq(Words))
        BY <2>3, <2>5 DEF LinkParts
      <4>6. R \in Keys
        <5>1. st[u] \in Exchange(g) /\ Tracked(g, u, st[u])
          BY DEF TaskParts
        <5> QED BY <2>3, <5>1, NextIsAKey
      <4>7. Flow(D, M, After(S), R, Append(c, msg))
        BY <2>2, <2>4, <3>1, <3>4, <4>2, <4>4, <4>5, <4>6, FlowSends
      <4>8. Flow(D, M, NextSent(st'[v], ax), NextTaken(st'[u], ax), chan'[<<v, u>>])
        BY <3>3, <4>3, <4>7
      <4> QED BY <2>1, <4>8 DEF OnLink
    <3>5. CASE S \notin D
      <4>1. SideTo(d) \notin Sends(now)
        BY <1>5, <3>2, <3>5
      <4>2. chan'[<<v, u>>] = c
        BY <1>4, <2>3, <2>6, <3>1, <4>1
      <4>3. PICK S2 : S2 = After(S)
        OBVIOUS
      <4>4. \A x \in D : Lt(x, S2) <=> Lt(x, S)
        BY <2>2, <3>2, <3>5, <4>3, DuePasses
      <4>5. Flow(D, M, S2, R, c)
        BY <2>2, <2>4, <3>1, <4>4, FlowSkips
      <4>6. Flow(D, M, NextSent(st'[v], ax), NextTaken(st'[u], ax), chan'[<<v, u>>])
        BY <3>3, <4>2, <4>3, <4>5
      <4> QED BY <2>1, <4>6 DEF OnLink
    <3> QED BY <3>4, <3>5
  <2>7. CASE ~(v = t /\ ax = a)
    <3>1. NextSent(st'[v], ax) = S1 /\ NextTaken(st'[u], ax) = R
      BY <1>10, <2>3, <2>7
    <3>2. \A e \in {-1, 1} : <<v, u>> # <<t, Neighbour(t, a, e)>>
      <4> SUFFICES ASSUME NEW e \in {-1, 1}, v = t, u = Neighbour(t, a, e) PROVE FALSE
        OBVIOUS
      <4>1. Neighbour(t, ax, d) = Neighbour(t, a, e)
        BY <1>13
      <4>2. ax = a
        BY <1>3, <4>1, LinksDiffer
      <4> QED BY <2>7, <4>2
    <3>3. chan'[<<v, u>>] = c
      BY <1>4, <2>3, <2>5, <3>2
    <3>4. Flow(D, M, NextSent(st'[v], ax), NextTaken(st'[u], ax), chan'[<<v, u>>])
      BY <2>4, <3>1, <3>3
    <3> QED BY <2>1, <3>4 DEF OnLink
  <2> QED BY <2>6, <2>7
<1> QED BY <1>4, <1>13 DEF LinkParts

-----------------------------------------------------------------------------
(* What an iteration receives                                              *)

\* An iteration receives what is due to it.
LEMMA RecvsAreDue ==
  ASSUME NEW s, NEW g, NEW ax, NEW p \in Int, NEW h, NEW k, s.w = Gap(g, ax, p, h, k), NEW d \in {-1, 1}
  PROVE  SideFrom(d) \in Recvs(s) <=> Taken(g, ax, p - d, d, h, k) > 0
<1>1. PICK w : w = s.w
  OBVIOUS
<1>2. w["rm"] = Taken(g, ax, p - 1, 1, h, k) /\ w["rp"] = Taken(g, ax, p + 1, -1, h, k)
  BY <1>1 DEF Gap
<1>3. CASE d = 1
  <2>1. SideFrom(d) = "rm"
    BY <1>3 DEF SideFrom
  <2> QED BY <1>1, <1>2, <1>3, <2>1 DEF Recvs
<1>4. CASE d = -1
  <2>1. SideFrom(d) = "rp" /\ p - d = p + 1
    BY <1>4 DEF SideFrom
  <2> QED BY <1>1, <1>2, <1>4, <2>1 DEF Recvs
<1> QED BY <1>3, <1>4

\* The state of a task in its iteration k + 1
Waiting(g, t, s, k) ==
  /\ s.axis \in Axes /\ s.round \in 1 .. Len(g.halos) /\ Place(t, s.axis) \in Int
  /\ Passed(s) = k /\ s.it = k + 1
  /\ s.from = Ptr(g, s.axis, Place(t, s.axis), g.halos[s.round], k)
  /\ s.w = Gap(g, s.axis, Place(t, s.axis), g.halos[s.round], k)

\* A task that waits is in an iteration.
LEMMA WaitingIs ==
  ASSUME NEW g \in Grids, NEW t \in Mesh(g), NEW s \in Exchange(g), Tracked(g, t, s), s.pc = "wait"
  PROVE  \E k \in Nat : Waiting(g, t, s, k)
<1>1. PICK a, p, h : a = s.axis /\ p = Place(t, a) /\ h = g.halos[s.round]
  OBVIOUS
<1>2. /\ a \in Axes /\ p \in Int /\ s.round \in 1 .. Len(g.halos)
      /\ Passed(s) \in Nat /\ s.it = Passed(s) + 1 /\ s.w = Gap(g, a, p, h, Passed(s))
      /\ s.from = Ptr(g, a, p, h, Passed(s))
  BY <1>1, TrackedIs
<1> QED BY <1>1, <1>2 DEF Waiting

\* A message goes from one place to the next.
LEMMA PlaceBefore ==
  ASSUME NEW g \in Grids, NEW a \in Axes, NEW d \in {-1, 1}, NEW u \in Mesh(g), NEW t, t = Neighbour(u, a, d)
  PROVE  Place(u, a) = Place(t, a) - d
<1>1. PICK q \in Int : q = Place(u, a)
  BY MeshIs
<1>2. PICK p \in Int : p = Place(t, a) /\ p = q + d
  <2>1. Place(t, a) = q + d /\ q + d \in Int
    BY <1>1, MeshIs
  <2> QED BY <2>1
<1>3. CASE d = 1
  BY <1>1, <1>2, <1>3
<1>4. CASE d = -1
  BY <1>1, <1>2, <1>4, SMTT(30)
<1> QED BY <1>3, <1>4

\* The first message on a link is the one the receiver waits for.
LEMMA TakesFit ==
  ASSUME NEW g \in Grids, TaskParts(g), LinkParts(g), NEW t \in Mesh(g), NEW s, s = st[t], s.pc = "wait",
         NEW a, a = s.axis, NEW d \in {-1, 1}, NEW u \in Mesh(g), t = Neighbour(u, a, d),
         SideFrom(d) \in Recvs(s), NEW c, c = chan[<<u, t>>], c # <<>>,
         NEW D, D = Due(g, a, Place(u, a), d), NEW M, M = Messages(g, u, a, d)
  PROVE  /\ Head(c) \in Seq(Words) /\ Tail(c) \in Seq(Seq(Words))
         /\ Fits(g, u, a, d, <<s.round, s.it>>, Head(c))
         /\ Flow(D, M, NextSent(st[u], a), After(NextTaken(s, a)), Tail(c))
<1>0. s \in Exchange(g) /\ Tracked(g, t, s)
  BY DEF TaskParts
<1>1. st[u] \in Exchange(g) /\ Tracked(g, u, st[u])
  BY DEF TaskParts
<1>2. PICK k \in Nat : Waiting(g, t, s, k)
  BY <1>0, WaitingIs
<1>25. PICK p, h, r : p = Place(t, a) /\ h = g.halos[r] /\ r = s.round
  OBVIOUS
<1>3. /\ a \in Axes /\ s.it = k + 1 /\ Passed(s) = k /\ s.w = Gap(g, a, p, h, k) /\ r \in 1 .. Len(g.halos)
      /\ p \in Int
  BY <1>2, <1>25 DEF Waiting
<1>4. Place(u, a) = p - d
  <2>1. a \in Axes
    BY <1>3
  <2>2. Place(u, a) = Place(t, a) - d
    BY <2>1, PlaceBefore
  <2> QED BY <1>25, <2>2
<1>5. PICK S, R : S = NextSent(st[u], a) /\ R = NextTaken(s, a)
  OBVIOUS
<1>6. R = <<r, k + 1>>
  BY <1>25, <1>3, <1>5, ProgressIs
<1>7. Taken(g, a, p - d, d, h, k) > 0
  BY <1>3, RecvsAreDue
<1>8. R \in D
  BY <1>2, <1>25, <1>3, <1>4, <1>6, <1>7, DueIs
<1>9. Flow(D, M, S, R, c)
  BY <1>3, <1>5 DEF LinkParts, OnLink
<1>10. S \in Keys
  BY <1>1, <1>5, NextIsAKey
<1>11. c \in Seq(Seq(Words))
  BY <1>3 DEF LinkParts, LinksOf
<1>12. D \subseteq Keys
  BY DEF Due
<1>13. /\ <<R, Head(c)>> \in M /\ Flow(D, M, S, After(R), Tail(c))
       /\ Head(c) \in Seq(Words) /\ Tail(c) \in Seq(Seq(Words))
  BY <1>8, <1>9, <1>10, <1>11, <1>12, FlowTakes
<1>14. Fits(g, u, a, d, R, Head(c))
  <2>1. PICK y : y = <<R, Head(c)>>
    OBVIOUS
  <2>2. y \in M /\ y[1] = R /\ y[2] = Head(c)
    BY <1>13, <2>1
  <2> QED BY <2>2 DEF Messages
<1> QED BY <1>25, <1>3, <1>5, <1>6, <1>13, <1>14

\* What a task that has completed its iteration takes from the links
Takes(g, t, s, before, after) ==
  /\ DOMAIN after = LinksOf(g)
  /\ after = [l \in LinksOf(g) |-> after[l]]
  /\ \A d \in {-1, 1}, u \in Mesh(g) : t = Neighbour(u, s.axis, d) =>
       /\ SideFrom(d) \in Recvs(s) => /\ before[<<u, t>>] # <<>>
                                      /\ after[<<u, t>>] = Tail(before[<<u, t>>])
       /\ SideFrom(d) \notin Recvs(s) => after[<<u, t>>] = before[<<u, t>>]
  /\ \A l \in LinksOf(g) :
       (\A d \in {-1, 1}, u \in Mesh(g) : ~(t = Neighbour(u, s.axis, d) /\ l = <<u, t>>)) => after[l] = before[l]

Absorbs(t, s) ==
  chan' = [l \in Links |-> IF \E side \in Recvs(s) : l = <<Partner(t, s, side), t>> THEN Tail(chan[l]) ELSE chan[l]]

\* A completed iteration has taken one message from the link of each side with a width.
LEMMA Received ==
  ASSUME NEW g \in Grids, grid = g, NEW t \in Mesh(g), NEW s, NEW a \in Axes, a = s.axis,
         \A side \in Recvs(s) : chan[<<Partner(t, s, side), t>>] # <<>>,
         Absorbs(t, s)
  PROVE  Takes(g, t, s, chan, chan')
<1>1. PICK B : B = LinksOf(g)
  OBVIOUS
<1>2. Links = B
  BY <1>1, LinksAre
<1> DEFINE P(l, side) == l = <<Partner(t, s, side), t>>
<1>3. DOMAIN chan' = B /\ chan' = [l \in B |-> chan'[l]]
  BY <1>2 DEF Absorbs
<1>4. \A l \in B : chan'[l] = IF \E side \in Recvs(s) : P(l, side) THEN Tail(chan[l]) ELSE chan[l]
  BY <1>2 DEF Absorbs
<1>5. Recvs(s) \subseteq {"rm", "rp"}
  BY DEF Recvs
<1>6. Partner(t, s, "rm") = Neighbour(t, a, -1) /\ Partner(t, s, "rp") = Neighbour(t, a, 1)
  BY PartnersAre
<1>7. SideFrom(1) = "rm" /\ SideFrom(-1) = "rp"
  BY DEF SideFrom
<1>8. Neighbour(t, a, -1) # Neighbour(t, a, 1)
  BY LinksDiffer
<1>9. ASSUME NEW d \in {-1, 1}, NEW u \in Mesh(g), t = Neighbour(u, a, d), NEW l \in B, l = <<u, t>>
      PROVE  /\ (\E side \in Recvs(s) : P(l, side)) <=> SideFrom(d) \in Recvs(s)
             /\ SideFrom(d) \in Recvs(s) => chan[l] # <<>>
  <2>1. u = Neighbour(t, a, -d)
    BY <1>9, MeshIs
  <2>2. CASE d = 1
    <3>1. u = Neighbour(t, a, -1)
      BY <2>1, <2>2
    <3>2. P(l, "rm") /\ ~P(l, "rp")
      BY <1>6, <1>8, <1>9, <3>1
    <3> QED BY <1>5, <1>7, <2>2, <3>2
  <2>3. CASE d = -1
    <3>1. PICK e \in {-1, 1} : e = -d /\ e # d
      OBVIOUS
    <3>2. u = Neighbour(t, a, 1)
      BY <2>1, <2>3, <3>1
    <3>3. P(l, "rp") /\ ~P(l, "rm")
      BY <1>6, <1>8, <1>9, <3>2
    <3> QED BY <1>5, <1>7, <2>3, <3>3
  <2> QED BY <2>2, <2>3
<1>10. ASSUME NEW l \in B,
              \A d \in {-1, 1}, u \in Mesh(g) : ~(t = Neighbour(u, a, d) /\ l = <<u, t>>)
       PROVE  \A side \in Recvs(s) : ~P(l, side)
  <2> SUFFICES ASSUME NEW side \in Recvs(s), P(l, side) PROVE FALSE
    OBVIOUS
  <2>1. PICK e \in {-1, 1} : Partner(t, s, side) = Neighbour(t, a, e)
    BY <1>5, <1>6
  <2>2. PICK d \in {-1, 1} : -e = d
    OBVIOUS
  <2>3. PICK u : u = Neighbour(t, a, e)
    OBVIOUS
  <2>4. l = <<u, t>> /\ u \in Mesh(g)
    BY <1>1, <1>10, <2>1, <2>3 DEF LinksOf, P
  <2>5. t = Neighbour(u, a, d)
    <3>1. Neighbour(Neighbour(t, a, e), a, -e) = t
      BY MeshIs
    <3> QED BY <2>2, <2>3, <3>1
  <2> QED BY <1>10, <2>4, <2>5
<1> HIDE DEF P
<1>11. ASSUME NEW d \in {-1, 1}, NEW u \in Mesh(g), t = Neighbour(u, a, d)
       PROVE  /\ SideFrom(d) \in Recvs(s) => /\ chan[<<u, t>>] # <<>>
                                             /\ chan'[<<u, t>>] = Tail(chan[<<u, t>>])
              /\ SideFrom(d) \notin Recvs(s) => chan'[<<u, t>>] = chan[<<u, t>>]
  <2>1. PICK l \in B : l = <<u, t>>
    BY <1>1, <1>11, LinksAre
  <2> QED BY <1>4, <1>9, <1>11, <2>1
<1>12. ASSUME NEW l \in B,
              \A d \in {-1, 1}, u \in Mesh(g) : ~(t = Neighbour(u, a, d) /\ l = <<u, t>>)
       PROVE  chan'[l] = chan[l]
  BY <1>4, <1>10, <1>12
<1> QED BY <1>1, <1>3, <1>11, <1>12 DEF Takes

\* A link whose receiver completes an iteration still holds what is due, in order.
LEMMA CompleteLinks ==
  ASSUME NEW g \in Grids, TaskParts(g), LinkParts(g), NEW t \in Mesh(g),
         NEW s \in Exchange(g), s = st[t], Tracked(g, t, s), s.pc = "wait",
         NEW now \in Exchange(g), now.pc = "ready", now.axis = s.axis, now.round = s.round,
         now.it = s.it, Passed(now) = s.it,
         Takes(g, t, s, chan, chan'), st' = [st EXCEPT ![t] = now]
  PROVE  LinkParts(g)'
<1>1. PICK k \in Nat : Waiting(g, t, s, k)
  BY WaitingIs
<1>2. PICK a, p, h, r : a = s.axis /\ p = Place(t, a) /\ h = g.halos[r] /\ r = s.round
  OBVIOUS
<1>3. /\ a \in Axes /\ r \in 1 .. Len(g.halos) /\ p \in Int
      /\ Passed(s) = k /\ s.it = k + 1 /\ s.w = Gap(g, a, p, h, k)
  BY <1>1, <1>2 DEF Waiting
<1>4. /\ chan' = [l \in LinksOf(g) |-> chan'[l]]
      /\ \A d \in {-1, 1}, u \in Mesh(g) : t = Neighbour(u, a, d) =>
           /\ SideFrom(d) \in Recvs(s) => /\ chan[<<u, t>>] # <<>>
                                          /\ chan'[<<u, t>>] = Tail(chan[<<u, t>>])
           /\ SideFrom(d) \notin Recvs(s) => chan'[<<u, t>>] = chan[<<u, t>>]
      /\ \A l \in LinksOf(g) :
           (\A d \in {-1, 1}, u \in Mesh(g) : ~(t = Neighbour(u, a, d) /\ l = <<u, t>>)) => chan'[l] = chan[l]
  BY <1>2 DEF Takes
<1>5. chan \in [LinksOf(g) -> Seq(Seq(Words))]
  BY DEF LinkParts
<1>6. ASSUME NEW d \in {-1, 1}
      PROVE  SideFrom(d) \in Recvs(s) <=> Taken(g, a, p - d, d, h, k) > 0
  BY <1>3, RecvsAreDue
<1>9. st'[t] = now /\ \A u \in Mesh(g) : u # t => st'[u] = st[u]
  BY DEF TaskParts
<1>10. ASSUME NEW u \in Mesh(g), NEW ax \in Axes
       PROVE  /\ NextSent(st'[u], ax) = NextSent(st[u], ax)
              /\ u # t \/ ax # a => NextTaken(st'[u], ax) = NextTaken(st[u], ax)
  <2>1. CASE u = t
    <3>1. s.pc # "done" /\ now.pc # "done"
      OBVIOUS
    <3>2. NextSent(now, ax) = NextSent(s, ax) /\ (ax # a => NextTaken(now, ax) = NextTaken(s, ax))
      BY <1>2, <3>1, SameProgress
    <3> QED BY <1>9, <2>1, <3>2
  <2>2. CASE u # t
    BY <1>9, <2>2
  <2> QED BY <2>1, <2>2
<1>11. PICK R : R = <<r, k + 1>>
  OBVIOUS
<1>12. NextTaken(s, a) = R /\ NextTaken(now, a) = After(R)
  <2>1. s.pc # "done" /\ now.pc # "done"
    OBVIOUS
  <2>2. NextTaken(s, a) = <<r, k + 1>> /\ NextTaken(now, a) = <<r, (k + 1) + 1>>
    BY <1>2, <1>3, <2>1, ProgressIs
  <2>3. After(R) = <<r, (k + 1) + 1>>
    BY <1>11 DEF After
  <2> QED BY <1>11, <2>2, <2>3
<1>13. ASSUME NEW v \in Mesh(g), NEW u \in Mesh(g), NEW ax \in Axes, NEW d \in {-1, 1}, u = Neighbour(v, ax, d)
       PROVE  OnLink(g, v, u, ax, d)' /\ chan'[<<v, u>>] \in Seq(Seq(Words))
  <2>1. PICK D, M : D = Due(g, ax, Place(v, ax), d) /\ M = Messages(g, v, ax, d)
    OBVIOUS
  <2>2. D \subseteq Keys
    BY <2>1 DEF Due
  <2>3. PICK S, R1, c : S = NextSent(st[v], ax) /\ R1 = NextTaken(st[u], ax) /\ c = chan[<<v, u>>]
    OBVIOUS
  <2>4. Flow(D, M, S, R1, c)
    BY <1>13, <2>1, <2>3 DEF LinkParts, OnLink
  <2>5. u # v /\ <<v, u>> \in LinksOf(g) /\ c \in Seq(Seq(Words))
    <3>1. u # v /\ <<v, u>> \in LinksOf(g)
      BY <1>13, MeshIs DEF LinksOf
    <3> QED BY <1>5, <2>3, <3>1
  <2>6. CASE u = t /\ ax = a
    <3>1. Place(v, a) = p - d
      <4>1. t = Neighbour(v, a, d)
        BY <1>13, <2>6
      <4>2. Place(v, a) = Place(t, a) - d
        BY <1>3, <4>1, PlaceBefore
      <4> QED BY <1>2, <4>2
    <3>2. D = Due(g, a, p - d, d) /\ R1 = R /\ t = Neighbour(v, a, d) /\ c = chan[<<v, t>>]
      BY <1>2, <1>12, <1>13, <2>1, <2>3, <2>6, <3>1
    <3>3. R \in Keys /\ (R \in D <=> Taken(g, a, p - d, d, h, k) > 0)
      <4>1. R \in Keys /\ (R \in Due(g, a, p - d, d) <=> Taken(g, a, p - d, d, g.halos[r], k) > 0)
        BY <1>3, <1>11, DueIs
      <4> QED BY <1>2, <3>2, <4>1
    <3>4. NextTaken(st'[u], ax) = After(R) /\ NextSent(st'[v], ax) = S
      BY <1>9, <1>10, <1>12, <2>3, <2>6
    <3>5. CASE R \in D
      <4>1. SideFrom(d) \in Recvs(s)
        BY <1>6, <3>3, <3>5
      <4>2. c # <<>> /\ chan'[<<v, u>>] = Tail(c)
        BY <1>4, <2>6, <3>2, <4>1
      <4>3. Tail(c) \in Seq(Seq(Words)) /\ Flow(D, M, NextSent(st[v], a), After(NextTaken(s, a)), Tail(c))
        <5>1. D = Due(g, a, Place(v, a), d) /\ M = Messages(g, v, a, d) /\ c = chan[<<v, t>>]
          BY <2>1, <2>6, <3>2
        <5>2. t = Neighbour(v, a, d)
          BY <3>2
        <5> QED BY <1>2, <4>1, <4>2, <5>1, <5>2, TakesFit
      <4>4. Flow(D, M, NextSent(st'[v], ax), NextTaken(st'[u], ax), chan'[<<v, u>>])
        BY <1>12, <2>3, <2>6, <3>4, <4>2, <4>3
      <4> QED BY <2>1, <4>2, <4>3, <4>4 DEF OnLink
    <3>6. CASE R \notin D
      <4>1. SideFrom(d) \notin Recvs(s)
        BY <1>6, <3>3, <3>6
      <4>2. chan'[<<v, u>>] = c
        BY <1>4, <2>6, <3>2, <4>1
      <4>3. PICK R2 : R2 = After(R)
        OBVIOUS
      <4>4. \A x \in D : Lt(x, R2) <=> Lt(x, R)
        BY <2>2, <3>3, <3>6, <4>3, DuePasses
      <4>5. Flow(D, M, S, R2, c)
        BY <2>2, <2>4, <3>2, <4>4, FlowSkips
      <4>6. Flow(D, M, NextSent(st'[v], ax), NextTaken(st'[u], ax), chan'[<<v, u>>])
        BY <3>4, <4>2, <4>3, <4>5
      <4> QED BY <2>1, <2>5, <4>2, <4>6 DEF OnLink
    <3> QED BY <3>5, <3>6
  <2>7. CASE ~(u = t /\ ax = a)
    <3>1. NextSent(st'[v], ax) = S /\ NextTaken(st'[u], ax) = R1
      BY <1>10, <2>3, <2>7
    <3>2. ASSUME NEW e \in {-1, 1}, NEW w \in Mesh(g), t = Neighbour(w, a, e), <<v, u>> = <<w, t>> PROVE FALSE
      <4>1. v = w /\ u = t
        BY <3>2
      <4>2. Neighbour(v, ax, d) = Neighbour(v, a, e)
        BY <1>13, <3>2, <4>1
      <4>3. ax = a
        BY <1>3, <4>2, LinksDiffer
      <4> QED BY <2>7, <4>1, <4>3
    <3>3. chan'[<<v, u>>] = c
      BY <1>4, <2>3, <2>5, <3>2
    <3>4. Flow(D, M, NextSent(st'[v], ax), NextTaken(st'[u], ax), chan'[<<v, u>>])
      BY <2>4, <3>1, <3>3
    <3> QED BY <2>1, <2>5, <3>3, <3>4 DEF OnLink
  <2> QED BY <2>6, <2>7
<1>14. chan' \in [LinksOf(g) -> Seq(Seq(Words))]
  <2>1. ASSUME NEW l \in LinksOf(g) PROVE chan'[l] \in Seq(Seq(Words))
    <3>1. PICK v \in Mesh(g), u \in Mesh(g), ax \in Axes, d \in {-1, 1} : l = <<v, u>> /\ u = Neighbour(v, ax, d)
      <4>1. l \in Mesh(g) \X Mesh(g) /\ \E ax \in Axes, d \in {-1, 1} : l[2] = Neighbour(l[1], ax, d)
        BY DEF LinksOf
      <4>2. PICK ax \in Axes, d \in {-1, 1} : l[2] = Neighbour(l[1], ax, d)
        BY <4>1
      <4>3. l[1] \in Mesh(g) /\ l[2] \in Mesh(g) /\ l = <<l[1], l[2]>>
        BY <4>1
      <4> QED BY <4>2, <4>3
    <3> QED BY <1>13, <3>1
  <2> QED BY <1>4, <2>1
<1> QED BY <1>13, <1>14 DEF LinkParts

-----------------------------------------------------------------------------
(* What a task remembers                                                   *)

-----------------------------------------------------------------------------
(* The memory                                                                *)

\* When every loop is at its end, what is known spans the halo.
LEMMA ReachCovered ==
  ASSUME NEW g \in Grids, NEW ax \in Axes, NEW t \in Mesh(g), NEW h \in Nat \ {0}, h <= MaxHalo(g),
         NEW k \in Nat, Full(g, ax, Place(t, ax), h, k), NEW f, f = Ptr(g, ax, Place(t, ax), h, k),
         NEW j \in ReachOf(g, t, ax, h)
  PROVE  j \in Domain(g, ax) /\ j \in Int /\ f.rm + 1 <= j /\ j <= f.rp - 1
<1>1. PICK p : p = Place(t, ax)
  OBVIOUS
<1>2. p \in Places(g, ax)
  BY <1>1, MeshIs
<1>3. PICK a, b, c1, c2, c3, c4, e1, e2, e3, e4 \in Int :
        Shape(g, ax, p, h, k, a, b, c1, c2, c3, c4, e1, e2, e3, e4)
  BY <1>2, PtrIs
<1>4. /\ a = FirstOn(g, ax, p) /\ b = LastOn(g, ax, p)
      /\ c2 = Cov(g, ax, p - 1, 1, h, k) /\ c4 = Cov(g, ax, p + 1, -1, h, k)
      /\ 0 <= c2 /\ 0 <= c4
      /\ f = [sm |-> a + c1, rm |-> a - 1 - c2, sp |-> b - c3, rp |-> b + 1 + c4]
  BY <1>1, <1>3 DEF Shape
<1>5. f.rm = a - 1 - c2 /\ f.rp = b + 1 + c4
  BY <1>4
<1>6. PICK N \in Nat \ {0}, l \in Int : N = Count(g, ax) /\ l = LastPoint(g, ax)
  BY GridIs
<1>7. p \in Int /\ 0 <= p /\ p <= N - 1
  BY <1>2, <1>6 DEF Places
<1>8. j \in Domain(g, ax) /\ j \in Int /\ 1 <= j /\ j <= l
  <2>1. j \in Domain(g, ax)
    BY DEF ReachOf
  <2> QED BY <1>6, <2>1, DomainAround
<1>9. a - h <= j /\ j <= b + h
  <2>1. j \in a - h .. b + h
    BY <1>1, <1>4 DEF ReachOf
  <2> QED BY <1>8, <2>1
<1>10. f.rm + 1 <= j
  <2>1. CASE p = 0
    <3>1. a <= 1
      BY <1>2, <1>4, <2>1, PatchIs
    <3> QED BY <1>4, <1>5, <1>8, <3>1
  <2>2. CASE p # 0
    <3>1. PICK q \in Int : q = p - 1 /\ q + 1 = p
      BY <1>7
    <3>2. q \in Places(g, ax)
      BY <1>6, <1>7, <2>2, <3>1 DEF Places
    <3>3. Linked(g, ax, q, 1)
      BY <1>2, <3>1, <3>2 DEF Linked
    <3>4. c2 = h
      BY <1>1, <1>4, <3>1, <3>3 DEF Full, Ended
    <3> QED BY <1>5, <1>8, <1>9, <3>4
  <2> QED BY <2>1, <2>2
<1>11. j <= f.rp - 1
  <2>1. CASE p = N - 1
    <3>1. l <= b
      BY <1>2, <1>4, <1>6, <2>1, PatchIs
    <3> QED BY <1>4, <1>5, <1>8, <3>1
  <2>2. CASE p # N - 1
    <3>1. PICK q \in Int : q = p + 1
      BY <1>7
    <3>2. q \in Places(g, ax)
      BY <1>6, <1>7, <2>2, <3>1 DEF Places
    <3>3. Linked(g, ax, q, -1)
      <4>1. q + (-1) = p
        BY <1>7, <3>1
      <4> QED BY <1>2, <3>2, <4>1 DEF Linked
    <3>4. c4 = h
      BY <1>1, <1>4, <3>1, <3>3 DEF Full, Ended
    <3> QED BY <1>5, <1>8, <1>9, <3>4
  <2> QED BY <2>1, <2>2
<1> QED BY <1>8, <1>10, <1>11

\* At first, a task knows its patch along the axis.
LEMMA FirstKnown ==
  ASSUME NEW g \in Grids, NEW ax \in Axes, NEW p \in Places(g, ax), NEW h \in Nat \ {0}, h <= MaxHalo(g),
         NEW f, f = Ptr(g, ax, p, h, 0), NEW j \in Domain(g, ax), f.rm + 1 <= j, j <= f.rp - 1
  PROVE  j \in Own[g][ax][p]
<1>1. PICK a, b, c1, c2, c3, c4, e1, e2, e3, e4 \in Int :
        Shape(g, ax, p, h, 0, a, b, c1, c2, c3, c4, e1, e2, e3, e4)
  <2>1. 0 \in Nat
    OBVIOUS
  <2> QED BY <2>1, PtrIs
<1>2. /\ a = FirstOn(g, ax, p) /\ b = LastOn(g, ax, p)
      /\ c2 = Cov(g, ax, p - 1, 1, h, 0) /\ c4 = Cov(g, ax, p + 1, -1, h, 0)
      /\ f = [sm |-> a + c1, rm |-> a - 1 - c2, sp |-> b - c3, rp |-> b + 1 + c4]
  BY <1>1 DEF Shape
<1>3. p - 1 \in Int /\ p + 1 \in Int
  BY GridIs DEF Places
<1>4. c2 = 0 /\ c4 = 0
  BY <1>2, <1>3, CovType
<1>5. f.rm = a - 1 - c2 /\ f.rp = b + 1 + c4
  BY <1>2
<1>6. PICK l \in Int : l = LastPoint(g, ax)
  BY GridIs
<1>7. j \in Int /\ 1 <= j /\ j <= l
  BY <1>6, DomainAround
<1>8. a <= j /\ j <= b
  BY <1>4, <1>5, <1>7
<1> QED BY <1>2, <1>6, <1>7, <1>8, PatchIs

\* Cells of the patch are in memory.
LEMMA OwnInMemory ==
  ASSUME NEW g \in Grids, NEW t \in Mesh(g), NEW i \in Own[g]["x"][t[1]], NEW j \in Own[g]["y"][t[2]]
  PROVE  <<i, j>> \in Cells[g][t] /\ <<i, j>> \in OwnCells[g][t]
<1>1. "x" \in Axes /\ "y" \in Axes /\ Other("x") = "y" /\ Other("y") = "x"
  BY DEF Axes, Other
<1>2. Place(t, "x") = t[1] /\ Place(t, "y") = t[2]
  BY DEF Place
<1>3. t[1] \in Places(g, "x") /\ t[2] \in Places(g, "y")
  BY <1>1, <1>2, MeshIs
<1>4. PICK r \in 1 .. Len(g.halos) : r = 1
  BY <1>1, GridIs
<1>5. PICK h \in Nat \ {0} : h = g.halos[r] /\ h <= MaxHalo(g)
  BY RoundIs
<1>6. i \in ReachOf(g, t, "x", h)
  <2>1. Side(g, t, "y", h) = Own[g]["x"][t[1]]
    BY DEF Side
  <2>2. Side(g, t, "y", h) \subseteq ReachOf(g, t, Other("y"), h)
    BY <1>1, SideIs
  <2> QED BY <1>1, <2>1, <2>2
<1>7. j \in ReachOf(g, t, "y", h)
  <2>1. PICK a \in Int, b \in Int, l \in Nat :
          a = FirstOn(g, "y", t[2]) /\ b = LastOn(g, "y", t[2]) /\ l = LastPoint(g, "y")
    BY <1>1, <1>3, PatchIs
  <2>2. \A k \in Int : k \in Own[g]["y"][t[2]] <=> 1 <= k /\ k <= l /\ a <= k /\ k <= b
    BY <1>1, <1>3, <2>1, PatchIs
  <2>3. j \in Int
    <3>1. Own[g]["y"][t[2]] \subseteq Domain(g, "y")
      BY <1>1, <1>3, OwnIs
    <3> QED BY <1>1, <3>1, DomainAround
  <2>4. 1 <= j /\ j <= l /\ a <= j /\ j <= b
    BY <2>2, <2>3
  <2>5. ReachOf(g, t, "y", h) = (a - h .. b + h) \intersect (1 .. l)
    BY <1>2, <2>1 DEF ReachOf, Domain
  <2> QED BY <2>1, <2>3, <2>4, <2>5
<1>8. i \in Memory[g][t]["x"] /\ j \in Memory[g][t]["y"]
  BY <1>1, <1>5, <1>6, <1>7, MemorySpans
<1> QED BY <1>8 DEF Cells, OwnCells

\* What a task remembers depends on its pointers, not on its step.
LEMMA SameRemembers ==
  ASSUME NEW g, NEW t, NEW s, NEW now, NEW m, Remembers(g, t, s, m),
         now.axis = s.axis, now.round = s.round, now.from = s.from
  PROVE  Remembers(g, t, now, m)
<1>1. \A cell : Known(g, t, now, cell) <=> Known(g, t, s, cell)
  BY DEF Known
<1> QED BY <1>1 DEF Remembers

\* On the turn to x, the rows that came along y are what a task knows across x.
LEMMA TurnRemembers ==
  ASSUME NEW g \in Grids, NEW t \in Mesh(g), NEW s \in Exchange(g), Tracked(g, t, s), s.axis = "y",
         NEW m, Remembers(g, t, s, m), s.pc = "ready",
         Full(g, "y", Place(t, "y"), g.halos[s.round], s.it),
         NEW now, now.axis = "x", now.round = s.round,
         now.from = Ptr(g, "x", Place(t, "x"), g.halos[s.round], 0)
  PROVE  Remembers(g, t, now, m)
<1>1. PICK k, h, r : k = s.it /\ h = g.halos[r] /\ r = s.round
  OBVIOUS
<1>2. "x" \in Axes /\ "y" \in Axes /\ "x" # "y"
  BY DEF Axes
<1>3. PICK py, px : py = Place(t, "y") /\ px = Place(t, "x")
  OBVIOUS
<1>4. px = t[1] /\ px \in Places(g, "x")
  BY <1>2, <1>3, MeshIs DEF Place
<1>5. /\ h \in Nat \ {0} /\ h <= MaxHalo(g) /\ k \in Nat
      /\ s.from = Ptr(g, "y", py, h, k)
  <2>1. h = g.halos[s.round]
    BY <1>1
  <2>2. /\ h \in Nat \ {0} /\ h <= MaxHalo(g) /\ s.it \in Nat
        /\ s.from = Ptr(g, "y", py, h, Passed(s)) /\ Passed(s) = s.it
    BY <1>3, <2>1, TrackedIs
  <2> QED BY <1>1, <2>2
<1>6. PICK f, e : f = s.from /\ e = now.from
  OBVIOUS
<1>7. Full(g, "y", py, h, k) /\ e = Ptr(g, "x", px, h, 0)
  BY <1>1, <1>3, <1>6
<1>8. ASSUME NEW cell \in Int \X Int, Known(g, t, now, cell)
      PROVE  Known(g, t, s, cell)
  <2>1. PICK i \in Int, j \in Int : cell = <<i, j>>
    OBVIOUS
  <2>2. cell[1] = i /\ cell[2] = j
    BY <2>1
  <2>3. PICK z, y : z = CellAt("x", i, j) /\ y = CellAt("y", i, j)
    OBVIOUS
  <2>4. z[1] = i /\ z[2] = j /\ y[1] = j /\ y[2] = i
    BY <1>2, <2>3 DEF CellAt
  <2>5. i \in Domain(g, "x") /\ e.rm + 1 <= i /\ i <= e.rp - 1 /\ j \in Side(g, t, "x", h)
    BY <1>1, <1>6, <1>8, <2>2, <2>3, <2>4 DEF Known, Lies
  <2>6. j \in ReachOf(g, t, "y", h)
    BY <2>5 DEF Side
  <2>7. j \in Domain(g, "y") /\ f.rm + 1 <= j /\ j <= f.rp - 1
    BY <1>2, <1>3, <1>5, <1>6, <1>7, <2>6, ReachCovered
  <2>8. i \in Own[g]["x"][px]
    BY <1>2, <1>4, <1>5, <1>7, <2>5, FirstKnown
  <2>9. i \in Side(g, t, "y", h)
    BY <1>2, <1>4, <2>8 DEF Side
  <2>10. Lies(g, t, "y", h, f.rm + 1, f.rp - 1, cell)
    BY <2>2, <2>3, <2>4, <2>7, <2>9 DEF Lies
  <2> QED BY <1>1, <1>6, <2>10 DEF Known
<1> QED BY <1>8 DEF Remembers

\* What a task computes is known to it.
LEMMA ComputeRemembers ==
  ASSUME NEW g \in Grids, grid = g, NEW t \in Mesh(g), NEW r \in 1 .. Len(g.halos),
         NEW old \in [Cells[g][t] -> Words], NEW m, m = Computed(t, old, r),
         NEW now, now.axis = "y", now.round = r, now.from = Ptr(g, "y", Place(t, "y"), g.halos[r], 0)
  PROVE  Remembers(g, t, now, m)
<1>1. PICK h : h = g.halos[r]
  OBVIOUS
<1>2. "x" \in Axes /\ "y" \in Axes /\ "x" # "y"
  BY DEF Axes
<1>3. h \in Nat \ {0} /\ h <= MaxHalo(g)
  BY <1>1, RoundIs
<1>4. PICK n \in Nat : n = r
  BY <1>2, GridIs
<1>5. PICK C, O : C = Cells[g][t] /\ O = OwnCells[g][t]
  OBVIOUS
<1>6. m = [c \in C |-> IF c \in O THEN <<c, n>> ELSE old[c]]
  BY <1>4, <1>5 DEF Computed
<1>7. C \subseteq Int \X Int
  BY <1>5, CellsAre
<1>8. m \in [C -> Words]
  <2>1. ASSUME NEW c \in C PROVE (IF c \in O THEN <<c, n>> ELSE old[c]) \in Words
    <3>1. <<c, n>> \in Words
      BY <1>7 DEF Words
    <3>2. old[c] \in Words
      BY <1>5
    <3> QED BY <3>1, <3>2
  <2> QED BY <1>6, <2>1
<1>9. PICK e, p : e = now.from /\ p = Place(t, "y")
  OBVIOUS
<1>10. e = Ptr(g, "y", p, h, 0) /\ p = t[2] /\ p \in Places(g, "y")
  <2>1. p = t[2]
    BY <1>2, <1>9 DEF Place
  <2>2. p \in Places(g, "y")
    BY <1>2, <1>9, MeshIs
  <2> QED BY <1>1, <1>9, <2>1, <2>2
<1>11. ASSUME NEW cell \in Int \X Int, Known(g, t, now, cell)
       PROVE  cell \in C /\ m[cell] = <<cell, n>>
  <2>1. PICK i \in Int, j \in Int : cell = <<i, j>>
    OBVIOUS
  <2>2. cell[1] = i /\ cell[2] = j
    BY <2>1
  <2>3. PICK y : y = CellAt("y", i, j)
    OBVIOUS
  <2>4. y[1] = j /\ y[2] = i
    BY <1>2, <2>3 DEF CellAt
  <2>5. j \in Domain(g, "y") /\ e.rm + 1 <= j /\ j <= e.rp - 1 /\ i \in Side(g, t, "y", h)
    BY <1>1, <1>9, <1>11, <2>2, <2>3, <2>4 DEF Known, Lies
  <2>6. i \in Own[g]["x"][t[1]]
    BY <1>2, <2>5 DEF Side
  <2>7. j \in Own[g]["y"][t[2]]
    BY <1>2, <1>3, <1>10, <2>5, FirstKnown
  <2>8. cell \in C /\ cell \in O
    BY <1>5, <2>1, <2>6, <2>7, OwnInMemory
  <2> QED BY <1>6, <2>8
<1> QED BY <1>4, <1>5, <1>8, <1>11 DEF Remembers

\* A step of one task leaves the memory of the others as it is.
LEMMA MemoryGoesOn ==
  ASSUME NEW g, TaskParts(g), MemoryParts(g), NEW t \in Mesh(g), NEW now, NEW m,
         st' = [st EXCEPT ![t] = now], DOMAIN mem' = DOMAIN mem, mem'[t] = m,
         \A u \in Mesh(g) : u # t => mem'[u] = mem[u], Remembers(g, t, now, m)
  PROVE  MemoryParts(g)'
<1>1. st'[t] = now /\ \A u \in Mesh(g) : u # t => st'[u] = st[u]
  BY DEF TaskParts
<1>2. DOMAIN mem' = Mesh(g)
  BY DEF MemoryParts
<1>3. ASSUME NEW u \in Mesh(g) PROVE Remembers(g, u, st'[u], mem'[u])
  <2>1. CASE u = t
    BY <1>1, <2>1
  <2>2. CASE u # t
    <3>1. Remembers(g, u, st[u], mem[u])
      BY DEF MemoryParts
    <3>2. st'[u] = st[u] /\ mem'[u] = mem[u]
      BY <1>1, <2>2
    <3> QED BY <3>1, <3>2
  <2> QED BY <2>1, <2>2
<1> QED BY <1>2, <1>3 DEF MemoryParts

-----------------------------------------------------------------------------
(* What arrives                                                            *)

\* The cells of the box of a message are numbered.
LEMMA LinkBoxNumbered ==
  ASSUME NEW g \in Grids, NEW ax \in Axes, NEW u \in Mesh(g), NEW d \in {-1, 1},
         NEW h \in Nat \ {0}, h <= MaxHalo(g), NEW k \in Nat
  PROVE  Numbered(ax, LinkBox(g, u, ax, d, h, k))
<1>a. PICK q : q = Place(u, ax)
  OBVIOUS
<1>1. PICK B : B = AlongOf(g, ax, q, d, h, k)
  OBVIOUS
<1>2. \E a, b \in Int : B = a .. b
  <2>2. q \in Places(g, ax) /\ q \in Int
    BY <1>a, MeshIs
  <2>3. PICK x \in Int, y \in Int : x = FirstOn(g, ax, q) /\ y = LastOn(g, ax, q)
    BY <2>2, PatchIs
  <2>4. Cov(g, ax, q, d, h, k) \in 0 .. h /\ Cov(g, ax, q, d, h, k + 1) \in 0 .. h
    BY <2>2, CovType
  <2>5. PICK v \in Int, w \in Int : v = Cov(g, ax, q, d, h, k) /\ w = Cov(g, ax, q, d, h, k + 1)
    BY <2>4
  <2>6. CASE d = 1
    <3>1. B = y - w + 1 .. y - v
      BY <1>1, <2>3, <2>5, <2>6 DEF AlongOf
    <3> QED BY <3>1
  <2>7. CASE d = -1
    <3>1. B = x + v .. x + w - 1
      BY <1>1, <2>3, <2>5, <2>7 DEF AlongOf
    <3> QED BY <3>1
  <2> QED BY <2>6, <2>7
<1>3. PICK o : o = Other(ax)
  OBVIOUS
<1>4. o \in Axes
  BY <1>3, OtherIs
<1>5. \E c, e \in Int : ReachOf(g, u, o, h) = c .. e
  BY <1>4, ReachIs
<1>6. PICK a \in Int, b \in Int : B = a .. b
  BY <1>2
<1>7. PICK c \in Int, e \in Int : ReachOf(g, u, o, h) = c .. e
  BY <1>5
<1>8. LinkBox(g, u, ax, d, h, k) = Box(a .. b, c .. e)
  BY <1>a, <1>1, <1>3, <1>6, <1>7 DEF LinkBox
<1> QED BY <1>8, BoxOrder

\* A message fills band B of the memory, with right words where they are known.
Arrived(g, t, ax, h, r, box, msg, B) ==
  /\ \A cell \in Int \X Int : InBox(ax, box, cell) => CellAt(ax, cell[1], cell[2])[1] \in B
  /\ \A cell \in Int \X Int :
       /\ CellAt(ax, cell[1], cell[2])[1] \in Domain(g, ax) /\ CellAt(ax, cell[1], cell[2])[1] \in B
       /\ CellAt(ax, cell[1], cell[2])[2] \in Side(g, t, ax, h)
       => InBox(ax, box, cell) /\ Word(ax, box, cell, msg) = <<cell, r>>
  /\ \A cell : Word(ax, box, cell, msg) \in Words

\* A message that fits its box fills the band of the neighbour.
LEMMA ArrivedIs ==
  ASSUME NEW g \in Grids, NEW ax \in Axes, NEW t \in Mesh(g), NEW d \in {-1, 1}, NEW u \in Mesh(g),
         t = Neighbour(u, ax, d), NEW r \in 1 .. Len(g.halos), NEW h, h = g.halos[r], NEW k \in Nat,
         NEW B, B = AlongOf(g, ax, Place(u, ax), d, h, k),
         NEW box, box = LinkBox(g, u, ax, d, h, k),
         NEW msg \in Seq(Words), Fits(g, u, ax, d, <<r, k + 1>>, msg)
  PROVE  Arrived(g, t, ax, h, r, box, msg, B)
<1>1. h \in Nat \ {0} /\ h <= MaxHalo(g)
  BY RoundIs
<1>2. box.along = B /\ box.across = ReachOf(g, u, Other(ax), h)
  BY DEF LinkBox, Box
<1>3. /\ ReachOf(g, t, Other(ax), h) = ReachOf(g, u, Other(ax), h)
      /\ Side(g, t, ax, h) = Side(g, u, ax, h)
  BY SameAcross
<1>4. Side(g, t, ax, h) \subseteq box.across
  <2>1. Side(g, t, ax, h) \subseteq ReachOf(g, t, Other(ax), h)
    BY <1>1, SideIs
  <2> QED BY <1>2, <1>3, <2>1
<1>5. Numbered(ax, box)
  BY <1>1, LinkBoxNumbered
<1>7. Len(msg) = Size(box) /\ Right(g, u, ax, r, box, msg)
  <2>1. PICK x : x = <<r, k + 1>>
    OBVIOUS
  <2>2. x[1] = r /\ x[2] - 1 = k
    BY <2>1
  <2>3. Fits(g, u, ax, d, x, msg)
    BY <2>1
  <2> QED BY <2>2, <2>3 DEF Fits
<1>8. ASSUME NEW cell \in Int \X Int, InBox(ax, box, cell) PROVE CellAt(ax, cell[1], cell[2])[1] \in B
  BY <1>2, <1>8 DEF InBox
<1>9. ASSUME NEW cell \in Int \X Int, NEW z, z = CellAt(ax, cell[1], cell[2]),
             z[1] \in Domain(g, ax), z[1] \in B, z[2] \in Side(g, t, ax, h)
      PROVE  InBox(ax, box, cell) /\ Word(ax, box, cell, msg) = <<cell, r>>
  <2>1. InBox(ax, box, cell)
    BY <1>2, <1>4, <1>9 DEF InBox
  <2>2. PICK q : q = PlaceOf(ax, box, cell)
    OBVIOUS
  <2>3. q \in 1 .. Size(box)
    BY <1>5, <2>1, <2>2 DEF Numbered
  <2>4. q \in DOMAIN msg
    BY <1>7, <2>3
  <2>5. msg[q] = <<cell, r>>
    BY <1>3, <1>7, <1>9, <2>1, <2>2 DEF Right
  <2>6. Word(ax, box, cell, msg) = msg[q]
    BY <2>2, <2>4 DEF Word
  <2> QED BY <2>1, <2>5, <2>6
<1>10. ASSUME NEW cell PROVE Word(ax, box, cell, msg) \in Words
  <2>1. PICK q : q = PlaceOf(ax, box, cell)
    OBVIOUS
  <2>2. Word(ax, box, cell, msg) = IF q \in DOMAIN msg THEN msg[q] ELSE Junk
    BY <2>1 DEF Word
  <2>3. q \in DOMAIN msg => msg[q] \in Words
    OBVIOUS
  <2>4. Junk \in Words
    BY DEF Words
  <2> QED BY <2>2, <2>3, <2>4
<1> QED BY <1>8, <1>9, <1>10 DEF Arrived

\* The bands that an iteration adds to what is known, on either side
Low(g, ax, p, h, k) ==
  FirstOn(g, ax, p) - Cov(g, ax, p - 1, 1, h, k + 1) .. FirstOn(g, ax, p) - 1 - Cov(g, ax, p - 1, 1, h, k)
High(g, ax, p, h, k) ==
  LastOn(g, ax, p) + 1 + Cov(g, ax, p + 1, -1, h, k) .. LastOn(g, ax, p) + Cov(g, ax, p + 1, -1, h, k + 1)

\* They are what the neighbours send.
LEMMA BandsAre ==
  ASSUME NEW g \in Grids, NEW ax \in Axes, NEW t \in Mesh(g), NEW p, p = Place(t, ax),
         NEW h \in Nat \ {0}, h <= MaxHalo(g), NEW k \in Nat, NEW u \in Mesh(g)
  PROVE  /\ t = Neighbour(u, ax, 1) => AlongOf(g, ax, Place(u, ax), 1, h, k) = Low(g, ax, p, h, k)
         /\ t = Neighbour(u, ax, -1) => AlongOf(g, ax, Place(u, ax), -1, h, k) = High(g, ax, p, h, k)
<1>a. p \in Places(g, ax)
  BY MeshIs
<1>b. \E a, b, c1, c2, c3, c4, e1, e2, e3, e4 \in Int :
        Shape(g, ax, p, h, k, a, b, c1, c2, c3, c4, e1, e2, e3, e4)
  BY <1>a, PtrIs
<1>c. PICK a, b, c1, c2, c3, c4, e1, e2, e3, e4 \in Int :
        Shape(g, ax, p, h, k, a, b, c1, c2, c3, c4, e1, e2, e3, e4)
  BY <1>b
<1>1. /\ a = FirstOn(g, ax, p) /\ b = LastOn(g, ax, p)
      /\ c2 = Cov(g, ax, p - 1, 1, h, k) /\ c4 = Cov(g, ax, p + 1, -1, h, k)
      /\ e2 = Cov(g, ax, p - 1, 1, h, k + 1) /\ e4 = Cov(g, ax, p + 1, -1, h, k + 1)
  BY <1>c DEF Shape
<1>2. p \in Places(g, ax) /\ p \in Int
  BY MeshIs
<1>3. PICK q : q = Place(u, ax)
  OBVIOUS
<1>4. q \in Places(g, ax) /\ q \in Int
  BY <1>3, MeshIs
<1>5. ASSUME t = Neighbour(u, ax, 1) PROVE AlongOf(g, ax, q, 1, h, k) = a - e2 .. a - 1 - c2
  <2>1. q = p - 1 /\ p = q + 1
    <3>1. Place(u, ax) = Place(t, ax) - 1
      BY <1>5, PlaceBefore
    <3> QED BY <1>2, <1>3, <3>1
  <2>2. PICK l \in Int : l = LastOn(g, ax, q) /\ a = l + 1
    BY <1>1, <1>2, <1>4, <2>1, PatchesMeet
  <2>3. AlongOf(g, ax, q, 1, h, k) = l - e2 + 1 .. l - c2
    BY <1>1, <2>1, <2>2 DEF AlongOf
  <2>4. l - e2 + 1 = a - e2 /\ l - c2 = a - 1 - c2
    BY <2>2
  <2> QED BY <2>3, <2>4
<1>6. ASSUME t = Neighbour(u, ax, -1) PROVE AlongOf(g, ax, q, -1, h, k) = b + 1 + c4 .. b + e4
  <2>1. q = p + 1
    <3>1. Place(u, ax) = Place(t, ax) - (-1)
      BY <1>6, PlaceBefore
    <3> QED BY <1>2, <1>3, <3>1
  <2>2. FirstOn(g, ax, q) = b + 1
    BY <1>1, <1>2, <1>4, <2>1, PatchesMeet
  <2>3. AlongOf(g, ax, q, -1, h, k) = b + 1 + c4 .. b + 1 + e4 - 1
    BY <1>1, <2>1, <2>2 DEF AlongOf
  <2>4. b + 1 + e4 - 1 = b + e4
    OBVIOUS
  <2> QED BY <2>3, <2>4
<1>7. Low(g, ax, p, h, k) = a - e2 .. a - 1 - c2 /\ High(g, ax, p, h, k) = b + 1 + c4 .. b + e4
  BY <1>1 DEF Low, High
<1> QED BY <1>3, <1>5, <1>6, <1>7

\* The memory after the unpacks of what came in
Unpacked(g, t, ax, in, old) ==
  [c \in Cells[g][t] |->
     IF \E side \in DOMAIN in : InBox(ax, in[side].box, c)
     THEN LET x == in[CHOOSE side \in DOMAIN in : InBox(ax, in[side].box, c)]
          IN  Word(ax, x.box, c, x.m)
     ELSE old[c]]

\* A cell is in memory already, or in the band of one side.
LEMMA BandsPart ==
  ASSUME NEW a \in Int, NEW b \in Int, a <= b, NEW c2 \in Int, NEW c4 \in Int, NEW e2 \in Int, NEW e4 \in Int,
         0 <= c2, c2 <= e2, 0 <= c4, c4 <= e4, NEW i \in Int, a - e2 <= i, i <= b + e4
  PROVE  \/ /\ a - c2 <= i /\ i <= b + c4
            /\ i \notin a - e2 .. a - 1 - c2 /\ i \notin b + 1 + c4 .. b + e4
         \/ i \in a - e2 .. a - 1 - c2 /\ e2 > c2 /\ i \notin b + 1 + c4 .. b + e4
         \/ i \in b + 1 + c4 .. b + e4 /\ e4 > c4 /\ i \notin a - e2 .. a - 1 - c2
OBVIOUS

\* The numbers of an iteration
LEMMA ShapeIs ==
  ASSUME NEW g \in Grids, NEW ax \in Axes, NEW t \in Mesh(g), NEW p, p = Place(t, ax), NEW h, NEW k \in Nat,
         NEW a \in Int, NEW b \in Int, NEW c1 \in Int, NEW c2 \in Int, NEW c3 \in Int, NEW c4 \in Int,
         NEW e1 \in Int, NEW e2 \in Int, NEW e3 \in Int, NEW e4 \in Int,
         Shape(g, ax, p, h, k, a, b, c1, c2, c3, c4, e1, e2, e3, e4)
  PROVE  /\ a <= b /\ 0 <= c2 /\ c2 <= e2 /\ 0 <= c4 /\ c4 <= e4
         /\ Ptr(g, ax, p, h, k).rm = (a - c2) - 1 /\ Ptr(g, ax, p, h, k).rp = b + c4 + 1
         /\ Ptr(g, ax, p, h, k + 1).rm = (a - e2) - 1 /\ Ptr(g, ax, p, h, k + 1).rp = b + e4 + 1
         /\ Gap(g, ax, p, h, k).rm = e2 - c2 /\ Gap(g, ax, p, h, k).rp = e4 - c4
<1>1. p \in Places(g, ax)
  BY MeshIs
<1>2. a = FirstOn(g, ax, p) /\ b = LastOn(g, ax, p)
  BY DEF Shape
<1>3. a <= b
  BY <1>1, <1>2, PatchIs
<1>4. 0 <= c2 /\ c2 <= e2 /\ 0 <= c4 /\ c4 <= e4
  BY DEF Shape
<1>5. PICK P, Q, G : P = Ptr(g, ax, p, h, k) /\ Q = Ptr(g, ax, p, h, k + 1) /\ G = Gap(g, ax, p, h, k)
  OBVIOUS
<1>6. /\ P = [sm |-> a + c1, rm |-> a - 1 - c2, sp |-> b - c3, rp |-> b + 1 + c4]
      /\ Q = [sm |-> a + e1, rm |-> a - 1 - e2, sp |-> b - e3, rp |-> b + 1 + e4]
      /\ G = [sm |-> e1 - c1, rm |-> e2 - c2, sp |-> e3 - c3, rp |-> e4 - c4]
  BY <1>5 DEF Shape
<1>7. P.rm = a - 1 - c2 /\ P.rp = b + 1 + c4 /\ Q.rm = a - 1 - e2 /\ Q.rp = b + 1 + e4
  BY <1>6
<1>8. G.rm = e2 - c2 /\ G.rp = e4 - c4
  BY <1>6
<1>9. a - 1 - c2 = (a - c2) - 1 /\ b + 1 + c4 = b + c4 + 1 /\ a - 1 - e2 = (a - e2) - 1 /\ b + 1 + e4 = b + e4 + 1
  OBVIOUS
<1> QED BY <1>3, <1>4, <1>5, <1>7, <1>8, <1>9

\* Points between the ends of the two bands are in the halo.
LEMMA BandsInReach ==
  ASSUME NEW g \in Grids, NEW ax \in Axes, NEW t \in Mesh(g), NEW p, p = Place(t, ax),
         NEW h \in Nat, NEW k \in Nat,
         NEW a \in Int, NEW b \in Int, NEW c1 \in Int, NEW c2 \in Int, NEW c3 \in Int, NEW c4 \in Int,
         NEW e1 \in Int, NEW e2 \in Int, NEW e3 \in Int, NEW e4 \in Int,
         Shape(g, ax, p, h, k, a, b, c1, c2, c3, c4, e1, e2, e3, e4),
         NEW i \in Int, i \in Domain(g, ax), a - e2 <= i, i <= b + e4
  PROVE  i \in ReachOf(g, t, ax, h)
<1>1. a = FirstOn(g, ax, p) /\ b = LastOn(g, ax, p) /\ e2 <= h /\ e4 <= h
  BY DEF Shape
<1>2. i \in a - h .. b + h
  BY <1>1
<1> QED BY <1>1, <1>2 DEF ReachOf

\* Every cell known after an iteration was known before, or came from one side.
LEMMA CompleteRemembers ==
  ASSUME NEW g \in Grids, NEW t \in Mesh(g), NEW s, NEW k \in Nat, Waiting(g, t, s, k),
         NEW ax, ax = s.axis, NEW p, p = Place(t, ax), NEW r, r = s.round, NEW h, h = g.halos[r],
         NEW old, Remembers(g, t, s, old),
         NEW in, DOMAIN in = Recvs(s),
         "rm" \in Recvs(s) => Arrived(g, t, ax, h, r, in["rm"].box, in["rm"].m, Low(g, ax, p, h, k)),
         "rp" \in Recvs(s) => Arrived(g, t, ax, h, r, in["rp"].box, in["rp"].m, High(g, ax, p, h, k)),
         NEW new, new = Unpacked(g, t, ax, in, old),
         NEW now, now.axis = ax, now.round = r, now.from = Ptr(g, ax, p, h, k + 1)
  PROVE  Remembers(g, t, now, new)
<1>1. /\ ax \in Axes /\ r \in 1 .. Len(g.halos) /\ p \in Int
      /\ s.from = Ptr(g, ax, p, h, k) /\ s.w = Gap(g, ax, p, h, k)
  BY DEF Waiting
<1>2. h \in Nat \ {0} /\ h <= MaxHalo(g)
  BY <1>1, RoundIs
<1>a. \E a, b, c1, c2, c3, c4, e1, e2, e3, e4 \in Int :
        Shape(g, ax, p, h, k, a, b, c1, c2, c3, c4, e1, e2, e3, e4)
  <2>1. p \in Places(g, ax)
    BY <1>1, MeshIs
  <2> QED BY <1>1, <1>2, <2>1, PtrIs
<1>b. PICK a, b, c1, c2, c3, c4, e1, e2, e3, e4 \in Int :
        Shape(g, ax, p, h, k, a, b, c1, c2, c3, c4, e1, e2, e3, e4)
  BY <1>a
<1>c. /\ Low(g, ax, p, h, k) = a - e2 .. a - 1 - c2
      /\ High(g, ax, p, h, k) = b + 1 + c4 .. b + e4
  <2>1. /\ a = FirstOn(g, ax, p) /\ b = LastOn(g, ax, p)
        /\ c2 = Cov(g, ax, p - 1, 1, h, k) /\ c4 = Cov(g, ax, p + 1, -1, h, k)
        /\ e2 = Cov(g, ax, p - 1, 1, h, k + 1) /\ e4 = Cov(g, ax, p + 1, -1, h, k + 1)
    BY <1>b DEF Shape
  <2> QED BY <2>1 DEF Low, High
<1>d. /\ "rm" \in Recvs(s) => Arrived(g, t, ax, h, r, in["rm"].box, in["rm"].m, a - e2 .. a - 1 - c2)
      /\ "rp" \in Recvs(s) => Arrived(g, t, ax, h, r, in["rp"].box, in["rp"].m, b + 1 + c4 .. b + e4)
  BY <1>c
<1>3. /\ a <= b /\ 0 <= c2 /\ c2 <= e2 /\ 0 <= c4 /\ c4 <= e4
      /\ s.from.rm = (a - c2) - 1 /\ s.from.rp = b + c4 + 1
      /\ now.from.rm = (a - e2) - 1 /\ now.from.rp = b + e4 + 1
      /\ s.w.rm = e2 - c2 /\ s.w.rp = e4 - c4
  <2>1. t \in Mesh(g) /\ ax \in Axes
    BY <1>1
  <2>2. PICK P, Q, G : P = Ptr(g, ax, p, h, k) /\ Q = Ptr(g, ax, p, h, k + 1) /\ G = Gap(g, ax, p, h, k)
    OBVIOUS
  <2>3. /\ a <= b /\ 0 <= c2 /\ c2 <= e2 /\ 0 <= c4 /\ c4 <= e4
        /\ P.rm = (a - c2) - 1 /\ P.rp = b + c4 + 1
        /\ Q.rm = (a - e2) - 1 /\ Q.rp = b + e4 + 1
        /\ G.rm = e2 - c2 /\ G.rp = e4 - c4
    BY <1>b, <2>1, <2>2, ShapeIs
  <2> QED BY <1>1, <2>2, <2>3
<1>4. /\ "rm" \in Recvs(s) <=> e2 > c2
      /\ "rp" \in Recvs(s) <=> e4 > c4
  <2>1. PICK w : w = s.w
    OBVIOUS
  <2>2. Recvs(s) = {side \in {"rm", "rp"} : w[side] > 0}
    BY <2>1 DEF Recvs
  <2>3. w["rm"] = e2 - c2 /\ w["rp"] = e4 - c4
    BY <1>3, <2>1
  <2>4. (e2 - c2 > 0 <=> e2 > c2) /\ (e4 - c4 > 0 <=> e4 > c4)
    OBVIOUS
  <2> QED BY <2>2, <2>3, <2>4
<1>5. \A side \in Recvs(s) : side = "rm" \/ side = "rp"
  BY DEF Recvs
<1>6. PICK C : C = Cells[g][t]
  OBVIOUS
<1>7. old \in [C -> Words]
  BY <1>6 DEF Remembers
<1> DEFINE P(c, side) == InBox(ax, in[side].box, c)
           X(c) == CHOOSE side \in DOMAIN in : P(c, side)
<1>8. new = [c \in C |-> IF \E side \in DOMAIN in : P(c, side)
                         THEN Word(ax, in[X(c)].box, c, in[X(c)].m) ELSE old[c]]
  BY <1>6 DEF Unpacked
<1>9. \A c : (\E side \in DOMAIN in : P(c, side)) => X(c) \in DOMAIN in /\ P(c, X(c))
  OBVIOUS
<1> HIDE DEF X
<1>10. ASSUME NEW side \in DOMAIN in, NEW c PROVE Word(ax, in[side].box, c, in[side].m) \in Words
  <2>1. side = "rm" \/ side = "rp"
    BY <1>5
  <2>2. CASE side = "rm"
    BY <1>d, <2>2 DEF Arrived
  <2>3. CASE side = "rp"
    BY <1>d, <2>3 DEF Arrived
  <2> QED BY <2>1, <2>2, <2>3
<1>11. new \in [C -> Words]
  <2>1. ASSUME NEW c \in C
        PROVE  (IF \E side \in DOMAIN in : P(c, side)
                THEN Word(ax, in[X(c)].box, c, in[X(c)].m) ELSE old[c]) \in Words
    BY <1>7, <1>9, <1>10
  <2> QED BY <1>8, <2>1
<1>12. ASSUME NEW cell \in Int \X Int, Known(g, t, now, cell)
       PROVE  cell \in C /\ new[cell] = <<cell, r>>
  <2>1. PICK z : z = CellAt(ax, cell[1], cell[2])
    OBVIOUS
  <2>2. PICK i \in Int : i = z[1]
    BY <1>1, <2>1, CoordsAre
  <2>3. i \in Domain(g, ax) /\ z[2] \in Side(g, t, ax, h) /\ a - e2 <= i /\ i <= b + e4
    <3>1. PICK lo \in Int, hi \in Int : lo = a - e2 /\ hi = b + e4
      OBVIOUS
    <3>2. now.from.rm = lo - 1 /\ now.from.rp = hi + 1
      BY <1>3, <3>1
    <3>3. now.from.rm + 1 = lo /\ now.from.rp - 1 = hi
      <4>1. PICK u, v : u = now.from.rm /\ v = now.from.rp
        OBVIOUS
      <4>2. u = lo - 1 /\ v = hi + 1
        BY <3>2, <4>1
      <4>3. u + 1 = lo /\ v - 1 = hi
        BY <4>2
      <4> QED BY <4>1, <4>3
    <3>4. Lies(g, t, ax, h, lo, hi, cell)
      BY <1>12, <3>3 DEF Known
    <3>5. z[1] \in Domain(g, ax) /\ z[2] \in Side(g, t, ax, h) /\ lo <= z[1] /\ z[1] <= hi
      BY <2>1, <3>4 DEF Lies
    <3> QED BY <2>2, <3>1, <3>5
  <2>4. "rm" \in Recvs(s) /\ P(cell, "rm") => i \in a - e2 .. a - 1 - c2
    BY <1>d, <2>1, <2>2 DEF Arrived
  <2>5. "rp" \in Recvs(s) /\ P(cell, "rp") => i \in b + 1 + c4 .. b + e4
    BY <1>d, <2>1, <2>2 DEF Arrived
  <2>6. cell \in C
    <3>1. i \in ReachOf(g, t, ax, h)
      BY <1>1, <1>2, <1>b, <2>3, BandsInReach
    <3>2. z[2] \in ReachOf(g, t, Other(ax), h)
      BY <1>1, <1>2, <2>3, SideIs
    <3>3. z[1] \in ReachOf(g, t, ax, h)
      BY <2>2, <3>1
    <3> QED BY <1>1, <1>2, <1>6, <2>1, <3>2, <3>3, HaloCells
  <2>7. new[cell] = IF \E side \in DOMAIN in : P(cell, side)
                    THEN Word(ax, in[X(cell)].box, cell, in[X(cell)].m) ELSE old[cell]
    BY <1>8, <2>6
  <2>8. CASE /\ a - c2 <= i /\ i <= b + c4
             /\ i \notin a - e2 .. a - 1 - c2 /\ i \notin b + 1 + c4 .. b + e4
    <3>1. ~P(cell, "rm") \/ "rm" \notin Recvs(s)
      BY <2>4, <2>8
    <3>2. ~P(cell, "rp") \/ "rp" \notin Recvs(s)
      BY <2>5, <2>8
    <3>3. \A side \in DOMAIN in : ~P(cell, side)
      BY <1>5, <3>1, <3>2
    <3>4. Known(g, t, s, cell)
      <4>1. a - c2 \in Int /\ b + c4 \in Int
        OBVIOUS
      <4>2. PICK lo \in Int, hi \in Int : lo = a - c2 /\ hi = b + c4
        BY <4>1
      <4>3. s.from.rm = lo - 1 /\ s.from.rp = hi + 1 /\ lo <= z[1] /\ z[1] <= hi
        BY <1>3, <2>2, <2>8, <4>2
      <4>4. z[1] \in Domain(g, ax)
        BY <2>2, <2>3
      <4>5. s.from.rm + 1 = lo /\ s.from.rp - 1 = hi
        BY <4>3
      <4>6. Lies(g, t, ax, h, lo, hi, cell)
        BY <2>1, <2>3, <4>3, <4>4 DEF Lies
      <4> QED BY <4>5, <4>6 DEF Known
    <3>5. old[cell] = <<cell, r>>
      BY <3>4 DEF Remembers
    <3> QED BY <2>6, <2>7, <3>3, <3>5
  <2>9. CASE i \in a - e2 .. a - 1 - c2 /\ e2 > c2 /\ i \notin b + 1 + c4 .. b + e4
    <3>1. "rm" \in Recvs(s)
      BY <1>4, <2>9
    <3>2. P(cell, "rm") /\ Word(ax, in["rm"].box, cell, in["rm"].m) = <<cell, r>>
      BY <1>d, <2>1, <2>2, <2>3, <2>9, <3>1 DEF Arrived
    <3>3. \A side \in DOMAIN in : P(cell, side) => side = "rm"
      BY <1>5, <2>5, <2>9
    <3>4. X(cell) = "rm" /\ \E side \in DOMAIN in : P(cell, side)
      BY <1>9, <3>1, <3>2, <3>3
    <3> QED BY <2>6, <2>7, <3>2, <3>4
  <2>10. CASE i \in b + 1 + c4 .. b + e4 /\ e4 > c4 /\ i \notin a - e2 .. a - 1 - c2
    <3>1. "rp" \in Recvs(s)
      BY <1>4, <2>10
    <3>2. P(cell, "rp") /\ Word(ax, in["rp"].box, cell, in["rp"].m) = <<cell, r>>
      BY <1>d, <2>1, <2>2, <2>3, <2>10, <3>1 DEF Arrived
    <3>3. \A side \in DOMAIN in : P(cell, side) => side = "rp"
      BY <1>5, <2>4, <2>10
    <3>4. X(cell) = "rp" /\ \E side \in DOMAIN in : P(cell, side)
      BY <1>9, <3>1, <3>2, <3>3
    <3> QED BY <2>6, <2>7, <3>2, <3>4
  <2>11. \/ /\ a - c2 <= i /\ i <= b + c4
            /\ i \notin a - e2 .. a - 1 - c2 /\ i \notin b + 1 + c4 .. b + e4
         \/ i \in a - e2 .. a - 1 - c2 /\ e2 > c2 /\ i \notin b + 1 + c4 .. b + e4
         \/ i \in b + 1 + c4 .. b + e4 /\ e4 > c4 /\ i \notin a - e2 .. a - 1 - c2
    BY <1>3, <2>3, BandsPart
  <2> QED BY <2>8, <2>9, <2>10, <2>11
<1> QED BY <1>6, <1>11, <1>12 DEF Remembers

\* A task receives from its neighbour, into the box that the neighbour fills.
LEMMA PartnerIs ==
  ASSUME NEW g \in Grids, grid = g, NEW t \in Mesh(g), NEW s \in Exchange(g), NEW k \in Nat, Waiting(g, t, s, k),
         NEW ax, ax = s.axis, NEW r, r = s.round, NEW h, h = g.halos[r],
         NEW d \in {-1, 1}, NEW side, side = SideFrom(d), side \in Recvs(s),
         NEW u, u = Partner(t, s, side)
  PROVE  /\ u \in Mesh(g) /\ t = Neighbour(u, ax, d)
         /\ BoxOf(t, s, side) = LinkBox(g, u, ax, d, h, k)
<1>1. /\ ax \in Axes /\ r \in 1 .. Len(g.halos) /\ Place(t, ax) \in Int
      /\ s.from = Ptr(g, ax, Place(t, ax), h, k) /\ s.w = Gap(g, ax, Place(t, ax), h, k)
  BY DEF Waiting
<1>2. PICK p \in Int : p = Place(t, ax)
  BY <1>1
<1>3. Linked(g, ax, p - d, d)
  <2>1. Taken(g, ax, p - d, d, h, k) > 0
    BY <1>1, <1>2, RecvsAreDue
  <2>2. PICK q : q = p - d
    OBVIOUS
  <2>3. Taken(g, ax, q, d, g.halos[r], k) > 0
    BY <2>1, <2>2
  <2>4. PICK x : x = <<r, k + 1>>
    OBVIOUS
  <2>5. ax \in Axes /\ r \in 1 .. Len(g.halos)
    BY <1>1
  <2>6. Taken(g, ax, q, d, g.halos[r], k) > 0 => Linked(g, ax, q, d)
    BY <2>4, <2>5, DueIs
  <2> QED BY <2>2, <2>3, <2>6
<1>4. PICK e \in {-1, 1} : e = -d /\ d = -e /\ e # d
  OBVIOUS
<1>5. PICK v : v = Neighbour(t, ax, e)
  OBVIOUS
<1>6. v \in Mesh(g) /\ Neighbour(v, ax, d) = t
  <2>1. Linked(g, ax, p + e, -e)
    <3>1. p + e = p - d
      BY <1>4
    <3> QED BY <1>3, <1>4, <3>1
  <2>2. Linked(g, ax, Place(t, ax) + e, -e) <=> Neighbour(t, ax, e) \in Mesh(g)
    BY <1>1, MeshIs
  <2>3. Neighbour(Neighbour(t, ax, e), ax, -e) = t
    BY <1>1, MeshIs
  <2> QED BY <1>2, <1>4, <1>5, <2>1, <2>2, <2>3
<1>7. /\ Neighbour(t, ax, -1) \in Mesh(g) => BoxOf(t, s, "rm") = LinkBox(g, Neighbour(t, ax, -1), ax, 1, h, k)
      /\ Neighbour(t, ax, 1) \in Mesh(g) => BoxOf(t, s, "rp") = LinkBox(g, Neighbour(t, ax, 1), ax, -1, h, k)
  BY <1>1, BoxesAre
<1>8. CASE d = 1
  <2>1. side = "rm" /\ e = -1
    BY <1>4, <1>8 DEF SideFrom
  <2>2. u = Neighbour(t, ax, -1)
    BY <2>1, PartnersAre
  <2> QED BY <1>5, <1>6, <1>7, <1>8, <2>1, <2>2
<1>9. CASE d = -1
  <2>1. side = "rp" /\ e = 1
    BY <1>4, <1>9 DEF SideFrom
  <2>2. u = Neighbour(t, ax, 1)
    BY <2>1, PartnersAre, SMTT(30)
  <2> QED BY <1>5, <1>6, <1>7, <1>9, <2>1, <2>2
<1> QED BY <1>8, <1>9

\* A task that waits, and the first message of a link it waits on
Awaits(g, t, s, k, d, u, m) ==
  /\ u \in Mesh(g) /\ t = Neighbour(u, s.axis, d)
  /\ BoxOf(t, s, SideFrom(d)) = LinkBox(g, u, s.axis, d, g.halos[s.round], k)
  /\ m \in Seq(Words) /\ Fits(g, u, s.axis, d, <<s.round, k + 1>>, m)

\* The first message of a link is the one its receiver waits for.
LEMMA AwaitsIs ==
  ASSUME NEW g \in Grids, grid = g, TaskParts(g), LinkParts(g), NEW t \in Mesh(g),
         NEW s \in Exchange(g), s = st[t], s.pc = "wait", NEW k \in Nat, Waiting(g, t, s, k),
         NEW d \in {-1, 1}, NEW side, side = SideFrom(d), side \in Recvs(s),
         NEW u, u = Partner(t, s, side), NEW c, c = chan[<<u, t>>], c # <<>>
  PROVE  Awaits(g, t, s, k, d, u, Head(c))
<1>1. PICK a, r, h : a = s.axis /\ r = s.round /\ h = g.halos[r]
  OBVIOUS
<1>2. /\ u \in Mesh(g) /\ t = Neighbour(u, a, d)
      /\ BoxOf(t, s, side) = LinkBox(g, u, a, d, h, k)
  BY <1>1, PartnerIs
<1>3. PICK D, M : D = Due(g, a, Place(u, a), d) /\ M = Messages(g, u, a, d)
  OBVIOUS
<1>4. s.it = k + 1
  BY DEF Waiting
<1>5. Head(c) \in Seq(Words) /\ Fits(g, u, a, d, <<s.round, s.it>>, Head(c))
  BY <1>1, <1>2, <1>3, TakesFit
<1> QED BY <1>1, <1>2, <1>4, <1>5 DEF Awaits

\* It fills the band of the neighbour.
LEMMA AwaitedArrives ==
  ASSUME NEW g \in Grids, NEW t \in Mesh(g), NEW s \in Exchange(g), NEW k \in Nat,
         NEW d \in {-1, 1}, NEW u, NEW m, Awaits(g, t, s, k, d, u, m), NEW ax \in Axes, ax = s.axis,
         NEW r \in 1 .. Len(g.halos), r = s.round, NEW h, h = g.halos[r],
         NEW B, B = AlongOf(g, ax, Place(u, ax), d, h, k)
  PROVE  Arrived(g, t, ax, h, r, BoxOf(t, s, SideFrom(d)), m, B)
<1>1. /\ u \in Mesh(g) /\ t = Neighbour(u, ax, d)
      /\ BoxOf(t, s, SideFrom(d)) = LinkBox(g, u, ax, d, h, k)
      /\ m \in Seq(Words) /\ Fits(g, u, ax, d, <<r, k + 1>>, m)
  BY DEF Awaits
<1>2. PICK box : box = LinkBox(g, u, ax, d, h, k)
  OBVIOUS
<1>3. Arrived(g, t, ax, h, r, box, m, B)
  BY <1>1, <1>2, ArrivedIs
<1> QED BY <1>1, <1>2, <1>3

\* What a task unpacks: for each side, its box and the first message of the link
Incoming(t, s) ==
  [side \in Recvs(s) |-> [box |-> BoxOf(t, s, side), m |-> Head(chan[<<Partner(t, s, side), t>>])]]

\* After the unpacks, a task knows the bands of this iteration too.
LEMMA CompleteMemory ==
  ASSUME NEW g \in Grids, grid = g, TaskParts(g), LinkParts(g), NEW t \in Mesh(g),
         NEW s \in Exchange(g), s = st[t], Tracked(g, t, s), s.pc = "wait",
         NEW old, Remembers(g, t, s, old),
         \A side \in Recvs(s) : chan[<<Partner(t, s, side), t>>] # <<>>,
         NEW ax, ax = s.axis, NEW r, r = s.round,
         NEW new, new = Unpacked(g, t, ax, Incoming(t, s), old),
         NEW now, now.axis = ax, now.round = r, now.from = Ptr(g, ax, Place(t, ax), g.halos[r], s.it)
  PROVE  Remembers(g, t, now, new)
<1>1. PICK k \in Nat : Waiting(g, t, s, k)
  BY WaitingIs
<1>2. ax \in Axes /\ r \in 1 .. Len(g.halos) /\ s.it = k + 1
  BY <1>1 DEF Waiting
<1>3. PICK h : h = g.halos[r]
  OBVIOUS
<1>4. h \in Nat \ {0} /\ h <= MaxHalo(g)
  BY <1>2, <1>3, RoundIs
<1>5. PICK p : p = Place(t, ax)
  OBVIOUS
<1>6. p \in Places(g, ax)
  BY <1>2, <1>5, MeshIs
<1>9. PICK in : in = Incoming(t, s)
  OBVIOUS
<1>10. DOMAIN in = Recvs(s)
  BY <1>9, SMTT(30) DEF Incoming
<1>11. ASSUME NEW d \in {-1, 1}, NEW side, side = SideFrom(d), side \in Recvs(s)
       PROVE  \E u \in Mesh(g) : /\ t = Neighbour(u, ax, d)
                /\ Arrived(g, t, ax, h, r, in[side].box, in[side].m, AlongOf(g, ax, Place(u, ax), d, h, k))
  <2>1. PICK u : u = Partner(t, s, side)
    OBVIOUS
  <2>2. PICK c : c = chan[<<u, t>>]
    OBVIOUS
  <2>3. c # <<>>
    BY <1>11, <2>1, <2>2
  <2>4. Awaits(g, t, s, k, d, u, Head(c))
    BY <1>1, <1>11, <2>1, <2>2, <2>3, AwaitsIs
  <2>5. u \in Mesh(g) /\ t = Neighbour(u, ax, d)
    BY <2>4 DEF Awaits
  <2>6. PICK B, m : B = AlongOf(g, ax, Place(u, ax), d, h, k) /\ m = Head(c)
    OBVIOUS
  <2>7. Arrived(g, t, ax, h, r, BoxOf(t, s, SideFrom(d)), m, B)
    BY <1>2, <1>3, <2>4, <2>6, AwaitedArrives
  <2>8. in[side].box = BoxOf(t, s, side) /\ in[side].m = m
    BY <1>9, <1>11, <2>1, <2>2, <2>6 DEF Incoming
  <2> QED BY <1>11, <2>5, <2>6, <2>7, <2>8
<1>12. "rm" \in Recvs(s) => Arrived(g, t, ax, h, r, in["rm"].box, in["rm"].m, Low(g, ax, p, h, k))
  <2> SUFFICES ASSUME "rm" \in Recvs(s)
               PROVE  Arrived(g, t, ax, h, r, in["rm"].box, in["rm"].m, Low(g, ax, p, h, k))
    OBVIOUS
  <2>1. PICK d \in {-1, 1} : d = 1
    OBVIOUS
  <2>2. SideFrom(d) = "rm"
    BY <2>1 DEF SideFrom
  <2>3. PICK u \in Mesh(g) : /\ t = Neighbour(u, ax, d)
          /\ Arrived(g, t, ax, h, r, in["rm"].box, in["rm"].m, AlongOf(g, ax, Place(u, ax), d, h, k))
    BY <1>11, <2>2
  <2>4. AlongOf(g, ax, Place(u, ax), 1, h, k) = Low(g, ax, p, h, k)
    BY <1>2, <1>4, <1>5, <2>1, <2>3, BandsAre
  <2> QED BY <2>1, <2>3, <2>4
<1>13. "rp" \in Recvs(s) => Arrived(g, t, ax, h, r, in["rp"].box, in["rp"].m, High(g, ax, p, h, k))
  <2> SUFFICES ASSUME "rp" \in Recvs(s)
               PROVE  Arrived(g, t, ax, h, r, in["rp"].box, in["rp"].m, High(g, ax, p, h, k))
    OBVIOUS
  <2>1. PICK d \in {-1, 1} : d = -1
    OBVIOUS
  <2>2. SideFrom(d) = "rp"
    BY <2>1 DEF SideFrom
  <2>3. PICK u \in Mesh(g) : /\ t = Neighbour(u, ax, d)
          /\ Arrived(g, t, ax, h, r, in["rp"].box, in["rp"].m, AlongOf(g, ax, Place(u, ax), d, h, k))
    BY <1>11, <2>2
  <2>4. t = Neighbour(u, ax, -1)
    BY <2>1, <2>3
  <2>5. AlongOf(g, ax, Place(u, ax), -1, h, k) = High(g, ax, p, h, k)
    BY <1>2, <1>4, <1>5, <2>4, BandsAre
  <2> QED BY <2>1, <2>3, <2>5
<1>14. new = Unpacked(g, t, ax, in, old) /\ now.from = Ptr(g, ax, p, h, k + 1)
  BY <1>2, <1>3, <1>5, <1>9
<1> QED BY <1>1, <1>3, <1>5, <1>10, <1>12, <1>13, <1>14, CompleteRemembers

-----------------------------------------------------------------------------
(* The actions                                                             *)

\* What the parts say of one task
LEMMA PartsAre ==
  ASSUME NEW g \in Grids, Parts(g), NEW t \in Mesh(g), NEW s, s = st[t]
  PROVE  /\ grid = g /\ TaskParts(g) /\ MemoryParts(g) /\ LinkParts(g)
         /\ s \in Exchange(g) /\ Tracked(g, t, s) /\ Remembers(g, t, s, mem[t])
         /\ s.axis \in Axes /\ s.round \in 1 .. Len(g.halos) /\ s.it \in Nat
         /\ st \in [Mesh(g) -> Exchange(g)] /\ DOMAIN mem = Mesh(g)
         /\ chan \in [LinksOf(g) -> Seq(Seq(Words))]
         /\ Links = LinksOf(g) /\ Tasks = Mesh(g)
<1>1. grid = g /\ TaskParts(g) /\ MemoryParts(g) /\ LinkParts(g)
  BY DEF Parts
<1>2. s \in Exchange(g) /\ Tracked(g, t, s) /\ st \in [Mesh(g) -> Exchange(g)]
  BY <1>1 DEF TaskParts
<1>3. Remembers(g, t, s, mem[t]) /\ DOMAIN mem = Mesh(g)
  BY <1>1 DEF MemoryParts
<1>4. chan \in [LinksOf(g) -> Seq(Seq(Words))]
  BY <1>1 DEF LinkParts
<1>5. Links = LinksOf(g) /\ Tasks = Mesh(g)
  BY <1>1, LinksAre
<1>6. s.axis \in Axes /\ s.round \in 1 .. Len(g.halos) /\ s.it \in Nat
  BY <1>2 DEF Exchange
<1> QED BY <1>1, <1>2, <1>3, <1>4, <1>5, <1>6

\* Iterate preserves the invariant.
LEMMA IterateParts ==
  ASSUME NEW g \in Grids, Parts(g), NEW t \in Mesh(g), Iterate(t)
  PROVE  Parts(g)'
<1>1. PICK s : s = st[t]
  OBVIOUS
<1>2. /\ grid = g /\ TaskParts(g) /\ MemoryParts(g) /\ LinkParts(g)
      /\ s \in Exchange(g) /\ Tracked(g, t, s) /\ Remembers(g, t, s, mem[t])
      /\ chan \in [LinksOf(g) -> Seq(Seq(Words))] /\ DOMAIN mem = Mesh(g)
  BY <1>1, PartsAre
<1>3. PICK h, a : h = g.halos[s.round] /\ a = s.axis
  OBVIOUS
<1>4. PICK now : now = Iterated(t, s, h)
  OBVIOUS
<1>5. PICK out : out = [side \in Sends(now) |-> Packed(t, now, side)]
  OBVIOUS
<1>6. /\ s.pc = "ready" /\ Went(t, s.axis, h, s.from)
      /\ st' = [st EXCEPT ![t] = now]
      /\ Emits(t, now, out)
      /\ grid' = grid /\ mem' = mem
  <2>1. grid = g
    BY <1>2, Zenon
  <2>2. /\ s.pc = "ready" /\ Went(t, s.axis, h, s.from)
        /\ grid' = grid /\ mem' = mem
    BY <1>1, <1>3, <2>1, ZenonT(40) DEF Iterate
  <2>3. PICK x \in {[st[t] EXCEPT !.pc = "wait", !.it = @ + 1,
                     !.w = Widths(t, st[t].axis, grid.halos[st[t].round], st[t].from, st[t].it + 1)]} :
          /\ st' = [st EXCEPT ![t] = x]
          /\ \E o \in {[side \in Sends(x) |-> Packed(t, x, side)]} : Emits(t, x, o)
    BY DEF Iterate, Emits
  <2>4. x = now
    BY <1>1, <1>3, <1>4, <2>1 DEF Iterated
  <2>5. \E o \in {out} : Emits(t, now, o)
    BY <1>5, <2>3, <2>4
  <2> QED BY <2>2, <2>3, <2>4, <2>5
<1>7. /\ now \in Exchange(g) /\ Tracked(g, t, now)
      /\ now.pc = "wait" /\ now.axis = s.axis /\ now.round = s.round /\ now.it = s.it + 1
      /\ now.from = s.from /\ now.w = Gap(g, s.axis, Place(t, s.axis), h, s.it)
      /\ Passed(now) = s.it /\ Passed(s) = s.it
  <2>1. grid = g /\ s \in Exchange(g) /\ Tracked(g, t, s)
    BY <1>2
  <2>2. s.pc = "ready" /\ Went(t, s.axis, h, s.from)
    BY <1>6
  <2>3. h = g.halos[s.round]
    BY <1>3
  <2> QED BY <1>4, <2>1, <2>2, <2>3, IterateNow
<1>8. TaskParts(g)'
  BY <1>2, <1>6, <1>7, TasksGoOn
<1>9. MemoryParts(g)'
  <2>1. Remembers(g, t, now, mem[t])
    BY <1>2, <1>7, SameRemembers
  <2>2. PICK m : m = mem[t]
    OBVIOUS
  <2>3. DOMAIN mem' = DOMAIN mem /\ mem'[t] = m /\ \A u \in Mesh(g) : u # t => mem'[u] = mem[u]
    BY <1>6, <2>2
  <2> QED BY <1>2, <1>6, <2>1, <2>2, <2>3, MemoryGoesOn
<1>10. LinkParts(g)'
  <2>1. Puts(g, t, now, chan, chan')
    BY <1>2, <1>3, <1>5, <1>6, <1>7, IteratePuts
  <2>2. Passed(now) = Passed(s) /\ now.w = Gap(g, s.axis, Place(t, s.axis), g.halos[s.round], s.it)
    BY <1>3, <1>7
  <2> QED BY <1>1, <1>2, <1>6, <1>7, <2>1, <2>2, IterateLinks
<1> QED BY <1>2, <1>6, <1>8, <1>9, <1>10 DEF Parts

\* Complete preserves the invariant.
LEMMA CompleteParts ==
  ASSUME NEW g \in Grids, Parts(g), NEW t \in Mesh(g), Complete(t)
  PROVE  Parts(g)'
<1>1. PICK s : s = st[t]
  OBVIOUS
<1>2. /\ grid = g /\ TaskParts(g) /\ MemoryParts(g) /\ LinkParts(g)
      /\ s \in Exchange(g) /\ Tracked(g, t, s) /\ Remembers(g, t, s, mem[t])
      /\ chan \in [LinksOf(g) -> Seq(Seq(Words))] /\ DOMAIN mem = Mesh(g) /\ s.axis \in Axes
  BY <1>1, PartsAre
<1>3. PICK h, a, old : h = g.halos[s.round] /\ a = s.axis /\ old = mem[t]
  OBVIOUS
<1>4. PICK now : now = Completed(s)
  OBVIOUS
<1>5. PICK new : new = Unpacked(g, t, a, Incoming(t, s), old)
  OBVIOUS
<1>6. /\ s.pc = "wait" /\ \A side \in Recvs(s) : chan[<<Partner(t, s, side), t>>] # <<>>
      /\ Absorbs(t, s)
      /\ st' = [st EXCEPT ![t] = now]
      /\ grid' = grid
  BY <1>1, <1>4 DEF Complete, Absorbs, Completed
<1>7. mem' = [mem EXCEPT ![t] = new]
  <2>1. grid = g
    BY <1>2, ZenonT(40)
  <2>2. PICK in \in {[side \in Recvs(st[t]) |->
                      [box |-> BoxOf(t, st[t], side), m |-> Head(chan[<<Partner(t, st[t], side), t>>])]]} :
       mem' = [mem EXCEPT ![t] =
         [c \in Cells[grid][t] |->
            IF \E side \in DOMAIN in : InBox(st[t].axis, in[side].box, c)
            THEN LET x == in[CHOOSE side \in DOMAIN in : InBox(st[t].axis, in[side].box, c)]
                 IN  Word(st[t].axis, x.box, c, x.m)
            ELSE @[c]]]
    BY DEF Complete
  <2>3. in = Incoming(t, s)
    BY <1>1, <2>2 DEF Incoming
  <2>4. mem' = [mem EXCEPT ![t] =
         [c \in Cells[grid][t] |->
            IF \E side \in DOMAIN in : InBox(s.axis, in[side].box, c)
            THEN LET x == in[CHOOSE side \in DOMAIN in : InBox(s.axis, in[side].box, c)]
                 IN  Word(s.axis, x.box, c, x.m)
            ELSE mem[t][c]]]
    BY <1>1, <2>2
  <2>5. new = [c \in Cells[grid][t] |->
            IF \E side \in DOMAIN in : InBox(s.axis, in[side].box, c)
            THEN LET x == in[CHOOSE side \in DOMAIN in : InBox(s.axis, in[side].box, c)]
                 IN  Word(s.axis, x.box, c, x.m)
            ELSE mem[t][c]]
    BY <1>3, <1>5, <2>1, <2>3 DEF Unpacked
  <2> QED BY <2>4, <2>5
<1>8. /\ now \in Exchange(g) /\ Tracked(g, t, now)
      /\ now.pc = "ready" /\ now.axis = s.axis /\ now.round = s.round /\ now.it = s.it
      /\ now.from = Ptr(g, s.axis, Place(t, s.axis), h, s.it)
      /\ Passed(now) = s.it /\ s.it = Passed(s) + 1
  <2>1. s \in Exchange(g) /\ Tracked(g, t, s)
    BY <1>2
  <2>2. s.pc = "wait"
    BY <1>6
  <2>3. h = g.halos[s.round]
    BY <1>3
  <2> QED BY <1>4, <2>1, <2>2, <2>3, CompleteNow
<1>9. TaskParts(g)'
  BY <1>2, <1>6, <1>8, TasksGoOn
<1>10. MemoryParts(g)'
  <2>1. Remembers(g, t, now, new)
    <3>1. PICK r : r = s.round
      OBVIOUS
    <3>2. now.axis = a /\ now.round = r /\ now.from = Ptr(g, a, Place(t, a), g.halos[r], s.it)
      BY <1>3, <1>8, <3>1
    <3>3. Remembers(g, t, s, old)
      BY <1>2, <1>3
    <3> QED BY <1>1, <1>2, <1>3, <1>5, <1>6, <3>1, <3>2, <3>3, CompleteMemory
  <2>2. DOMAIN mem' = DOMAIN mem /\ mem'[t] = new /\ \A u \in Mesh(g) : u # t => mem'[u] = mem[u]
    BY <1>2, <1>7
  <2> QED BY <1>2, <1>6, <2>1, <2>2, MemoryGoesOn
<1>11. LinkParts(g)'
  <2>1. Takes(g, t, s, chan, chan')
    BY <1>2, <1>6, Received
  <2> QED BY <1>1, <1>2, <1>6, <1>8, <2>1, CompleteLinks
<1> QED BY <1>2, <1>6, <1>9, <1>10, <1>11 DEF Parts

\* Turn preserves the invariant.
LEMMA TurnParts ==
  ASSUME NEW g \in Grids, Parts(g), NEW t \in Mesh(g), Turn(t)
  PROVE  Parts(g)'
<1>1. PICK s : s = st[t]
  OBVIOUS
<1>2. /\ grid = g /\ TaskParts(g) /\ MemoryParts(g) /\ LinkParts(g)
      /\ s \in Exchange(g) /\ Tracked(g, t, s) /\ Remembers(g, t, s, mem[t])
      /\ s.round \in 1 .. Len(g.halos)
  BY <1>1, PartsAre
<1>3. PICK r, h, m : r = s.round /\ h = g.halos[s.round] /\ m = mem[t]
  OBVIOUS
<1>4. PICK now : now = Ready(t, "x", r)
  OBVIOUS
<1>5. /\ s.pc = "ready" /\ s.axis = "y" /\ ~Went(t, "y", h, s.from)
      /\ st' = [st EXCEPT ![t] = now]
      /\ grid' = grid /\ mem' = mem /\ chan' = chan
  <2>1. grid = g
    BY <1>2
  <2>2. s.pc = "ready" /\ s.axis = "y" /\ ~Went(t, "y", h, s.from)
    BY <1>1, <1>3, <2>1 DEF Turn
  <2>3. st' = [st EXCEPT ![t] = now]
    BY <1>1, <1>3, <1>4 DEF Turn
  <2> QED BY <2>2, <2>3 DEF Turn
<1>6. /\ now \in Exchange(g) /\ Tracked(g, t, now)
      /\ now.pc = "ready" /\ now.axis = "x" /\ now.round = r /\ now.it = 0
      /\ now.from = Ptr(g, "x", Place(t, "x"), g.halos[r], 0)
      /\ Passed(now) = 0
  <2>1. "x" \in Axes
    BY DEF Axes
  <2>2. grid = g /\ r \in 1 .. Len(g.halos)
    BY <1>2, <1>3
  <2> QED BY <1>4, <2>1, <2>2, ReadyNow
<1>7. Full(g, "y", Place(t, "y"), h, s.it)
  <2>1. grid = g /\ s \in Exchange(g) /\ Tracked(g, t, s)
    BY <1>2
  <2>2. PICK ax : ax = s.axis
    OBVIOUS
  <2>3. ax = "y" /\ ~Went(t, ax, h, s.from)
    BY <1>5, <2>2
  <2>4. Full(g, ax, Place(t, ax), h, s.it)
    BY <1>3, <1>5, <2>1, <2>2, <2>3, NothingWent
  <2> QED BY <2>3, <2>4
<1>8. TaskParts(g)'
  BY <1>2, <1>5, <1>6, TasksGoOn
<1>9. MemoryParts(g)'
  <2>1. Remembers(g, t, s, m)
    BY <1>2, <1>3
  <2>2. now.round = s.round /\ now.from = Ptr(g, "x", Place(t, "x"), g.halos[s.round], 0)
    BY <1>3, <1>6
  <2>3. Full(g, "y", Place(t, "y"), g.halos[s.round], s.it)
    BY <1>3, <1>7
  <2>4. Remembers(g, t, now, m)
    BY <1>2, <1>5, <1>6, <2>1, <2>2, <2>3, TurnRemembers
  <2>5. DOMAIN mem' = DOMAIN mem /\ mem'[t] = m /\ \A u \in Mesh(g) : u # t => mem'[u] = mem[u]
    BY <1>3, <1>5
  <2> QED BY <1>2, <1>5, <2>4, <2>5, MemoryGoesOn
<1>10. LinkParts(g)'
  <2>1. Full(g, "y", Place(t, "y"), g.halos[s.round], s.it) /\ now.round = s.round
    BY <1>3, <1>6, <1>7
  <2>2. Still(g, t, s, now)
    BY <1>2, <1>5, <1>6, <2>1, TurnStill
  <2>3. Still(g, t, st[t], now)
    BY <1>1, <2>2
  <2> QED BY <1>2, <1>5, <1>6, <2>3, QuietStep
<1> QED BY <1>2, <1>5, <1>8, <1>9, <1>10 DEF Parts

\* Finish preserves the invariant.
LEMMA FinishParts ==
  ASSUME NEW g \in Grids, Parts(g), NEW t \in Mesh(g), Finish(t)
  PROVE  Parts(g)'
<1>1. PICK s : s = st[t]
  OBVIOUS
<1>2. /\ grid = g /\ TaskParts(g) /\ MemoryParts(g) /\ LinkParts(g)
      /\ s \in Exchange(g) /\ Tracked(g, t, s) /\ Remembers(g, t, s, mem[t])
  BY <1>1, PartsAre
<1>3. PICK h, m : h = g.halos[s.round] /\ m = mem[t]
  OBVIOUS
<1>4. PICK now : now = Through(s)
  OBVIOUS
<1>5. /\ s.pc = "ready" /\ s.axis = "x" /\ ~Went(t, "x", h, s.from)
      /\ st' = [st EXCEPT ![t] = now]
      /\ grid' = grid /\ mem' = mem /\ chan' = chan
  <2>1. grid = g
    BY <1>2
  <2>2. s.pc = "ready" /\ s.axis = "x" /\ ~Went(t, "x", h, s.from)
    BY <1>1, <1>3, <2>1 DEF Finish
  <2>3. st' = [st EXCEPT ![t] = now]
    BY <1>1, <1>4 DEF Finish, Through
  <2> QED BY <2>2, <2>3 DEF Finish
<1>6. /\ now \in Exchange(g) /\ Tracked(g, t, now)
      /\ now.pc = "done" /\ now.axis = "x" /\ now.round = s.round /\ now.it = s.it /\ now.from = s.from
  <2>1. grid = g /\ s \in Exchange(g) /\ Tracked(g, t, s) /\ ~Went(t, "x", g.halos[s.round], s.from)
    BY <1>2, <1>3, <1>5
  <2> QED BY <1>4, <1>5, <2>1, FinishNow
<1>7. Full(g, "x", Place(t, "x"), g.halos[s.round], s.it)
  <2>1. grid = g /\ s \in Exchange(g) /\ Tracked(g, t, s)
    BY <1>2
  <2>2. PICK ax : ax = s.axis
    OBVIOUS
  <2>3. ax = "x" /\ ~Went(t, ax, h, s.from)
    BY <1>5, <2>2
  <2>4. Full(g, ax, Place(t, ax), h, s.it)
    BY <1>3, <1>5, <2>1, <2>2, <2>3, NothingWent
  <2> QED BY <1>3, <2>3, <2>4
<1>8. TaskParts(g)'
  BY <1>2, <1>5, <1>6, TasksGoOn
<1>9. MemoryParts(g)'
  <2>1. Remembers(g, t, now, m)
    BY <1>2, <1>3, <1>5, <1>6, SameRemembers
  <2>2. DOMAIN mem' = DOMAIN mem /\ mem'[t] = m /\ \A u \in Mesh(g) : u # t => mem'[u] = mem[u]
    BY <1>3, <1>5
  <2> QED BY <1>2, <1>5, <2>1, <2>2, MemoryGoesOn
<1>10. LinkParts(g)'
  <2>1. Still(g, t, s, now)
    BY <1>2, <1>5, <1>6, <1>7, FinishStill
  <2>2. Still(g, t, st[t], now)
    BY <1>1, <2>1
  <2> QED BY <1>2, <1>5, <1>6, <2>2, QuietStep
<1> QED BY <1>2, <1>5, <1>8, <1>9, <1>10 DEF Parts

\* Compute preserves the invariant.
LEMMA ComputeParts ==
  ASSUME NEW g \in Grids, Parts(g), NEW t \in Mesh(g), Compute(t)
  PROVE  Parts(g)'
<1>1. PICK s : s = st[t]
  OBVIOUS
<1>2. /\ grid = g /\ TaskParts(g) /\ MemoryParts(g) /\ LinkParts(g)
      /\ s \in Exchange(g) /\ Tracked(g, t, s) /\ Remembers(g, t, s, mem[t])
      /\ s.round \in 1 .. Len(g.halos) /\ DOMAIN mem = Mesh(g)
  BY <1>1, PartsAre
<1>3. PICK r, old : r = s.round + 1 /\ old = mem[t]
  OBVIOUS
<1>4. PICK now, m : now = Ready(t, "y", r) /\ m = Computed(t, old, r)
  OBVIOUS
<1>5. /\ s.pc = "done" /\ s.round < Len(g.halos)
      /\ st' = [st EXCEPT ![t] = now]
      /\ mem' = [mem EXCEPT ![t] = m]
      /\ grid' = grid /\ chan' = chan
  <2>1. grid = g
    BY <1>2
  <2>2. s.pc = "done" /\ s.round < Len(g.halos)
    BY <1>1, <2>1 DEF Compute
  <2>3. st' = [st EXCEPT ![t] = now] /\ mem' = [mem EXCEPT ![t] = m]
    BY <1>1, <1>3, <1>4 DEF Compute
  <2> QED BY <2>2, <2>3 DEF Compute
<1>6. r \in 1 .. Len(g.halos)
  <2>1. PICK L \in Nat : L = Len(g.halos)
    BY GridIs DEF Axes
  <2>2. s.round \in 1 .. L /\ s.round < L
    BY <1>2, <1>5, <2>1
  <2>3. s.round + 1 \in 1 .. L
    BY <2>2
  <2> QED BY <1>3, <2>1, <2>3
<1>7. "y" \in Axes
  BY DEF Axes
<1>8. /\ now \in Exchange(g) /\ Tracked(g, t, now)
      /\ now.pc = "ready" /\ now.axis = "y" /\ now.round = r /\ now.it = 0
      /\ now.from = Ptr(g, "y", Place(t, "y"), g.halos[r], 0)
      /\ Passed(now) = 0
  <2>1. grid = g
    BY <1>2
  <2> QED BY <1>4, <1>6, <1>7, <2>1, ReadyNow
<1>9. TaskParts(g)'
  BY <1>2, <1>5, <1>8, TasksGoOn
<1>10. MemoryParts(g)'
  <2>1. old \in [Cells[g][t] -> Words]
    BY <1>2, <1>3 DEF Remembers
  <2>2. grid = g
    BY <1>2
  <2>3. Remembers(g, t, now, m)
    BY <1>4, <1>6, <1>8, <2>1, <2>2, ComputeRemembers
  <2>4. DOMAIN mem' = DOMAIN mem /\ mem'[t] = m /\ \A u \in Mesh(g) : u # t => mem'[u] = mem[u]
    BY <1>2, <1>5
  <2> QED BY <1>2, <1>5, <2>3, <2>4, MemoryGoesOn
<1>11. LinkParts(g)'
  <2>1. now.round = s.round + 1
    BY <1>3, <1>8
  <2>2. Still(g, t, s, now)
    BY <1>2, <1>5, <1>8, <2>1, ComputeStill
  <2>3. Still(g, t, st[t], now)
    BY <1>1, <2>2
  <2> QED BY <1>2, <1>5, <1>8, <2>3, QuietStep
<1> QED BY <1>2, <1>5, <1>9, <1>10, <1>11 DEF Parts

-----------------------------------------------------------------------------
(* The invariant                                                           *)

\* At first nothing is on its way.
LEMMA FlowStarts ==
  ASSUME NEW D, D \subseteq Keys, NEW M, NEW S \in Keys, \A x \in D : ~Lt(x, S)
  PROVE  Flow(D, M, S, S, <<>>)
<1>1. PICK f : f = << >>
  OBVIOUS
<1>2. f \in Seq(Keys) /\ Len(f) = 0 /\ Len(<<>>) = 0
  BY <1>1
<1>3. InOrder(f)
  BY <1>2 DEF InOrder
<1>4. ASSUME NEW x \in Keys PROVE Holds(f, x) <=> Under(D, S, S, x)
  <2>1. ~Holds(f, x)
    BY <1>2 DEF Holds
  <2>2. ~Under(D, S, S, x)
    BY DEF Under
  <2> QED BY <2>1, <2>2
<1>5. Labels(f, D, M, S, S, <<>>)
  BY <1>2, <1>3, <1>4 DEF Labels
<1> QED BY <1>5 DEF Flow

\* No message is due before the first.
LEMMA DueLater ==
  ASSUME NEW g, NEW ax, NEW p, NEW d, NEW x \in Due(g, ax, p, d)
  PROVE  x \in Keys /\ <<1, 1>> \in Keys /\ ~Lt(x, <<1, 1>>)
<1>1. x \in Keys /\ x[1] \in 1 .. Len(g.halos) /\ x[2] >= 1
  BY DEF Due
<1>2. x[1] \in Nat /\ x[2] \in Nat
  BY <1>1 DEF Keys
<1>3. x[1] >= 1
  BY <1>1, <1>2
<1>4. <<1, 1>> \in Keys
  BY DEF Keys
<1>5. ~(x[1] < 1) /\ ~(x[2] < 1)
  BY <1>1, <1>2, <1>3
<1>6. PICK y : y = <<1, 1>>
  OBVIOUS
<1>7. y[1] = 1 /\ y[2] = 1
  BY <1>6
<1>8. ~Lt(x, y)
  BY <1>5, <1>7 DEF Lt
<1> QED BY <1>1, <1>4, <1>6, <1>8

\* A task before its first exchange
Fresh(g, t, s) ==
  /\ s \in Exchange(g) /\ Tracked(g, t, s) /\ s.pc = "ready" /\ s.axis = "y" /\ s.round = 1 /\ s.it = 0
  /\ s.from = Ptr(g, "y", Place(t, "y"), g.halos[1], 0)

\* At first a task is to send and to take the first message of each link.
LEMMA FreshStarts ==
  ASSUME NEW g, NEW t, NEW s, Fresh(g, t, s), NEW ax \in Axes
  PROVE  NextSent(s, ax) = <<1, 1>> /\ NextTaken(s, ax) = <<1, 1>>
<1>1. s.pc = "ready" /\ s.axis = "y" /\ s.round = 1 /\ s.it = 0
  BY DEF Fresh
<1>2. Passed(s) = 0
  BY <1>1 DEF Passed
<1>3. ASSUME NEW n, n = 0 PROVE Progress(s, ax, n) = <<1, 1>>
  <2>1. n + 1 = 1
    BY <1>3
  <2>2. CASE ax = "y"
    BY <1>1, <2>1, <2>2 DEF Progress
  <2>3. CASE ax = "x"
    BY <1>1, <2>1, <2>3 DEF Progress
  <2> QED BY <2>2, <2>3 DEF Axes
<1> QED BY <1>1, <1>2, <1>3 DEF NextSent, NextTaken

\* The invariant holds at first, in each of the domains.
LEMMA FirstParts ==
  ASSUME NEW g \in Grids, grid = g, Init
  PROVE  Parts(g)
<1>1. Links = LinksOf(g) /\ Tasks = Mesh(g)
  BY LinksAre
<1>2. /\ st = [t \in Mesh(g) |-> Ready(t, "y", 1)]
      /\ mem = [t \in Mesh(g) |-> Computed(t, [c \in Cells[g][t] |-> Junk], 1)]
      /\ chan = [c \in LinksOf(g) |-> <<>>]
  BY <1>1 DEF Init
<1>3. 1 \in 1 .. Len(g.halos) /\ "y" \in Axes
  <2>1. "y" \in Axes
    BY DEF Axes
  <2>2. PICK L \in Nat \ {0} : L = Len(g.halos)
    BY <2>1, GridIs
  <2>3. 1 \in 1 .. L
    OBVIOUS
  <2> QED BY <2>1, <2>2, <2>3
<1>4. ASSUME NEW t \in Mesh(g), NEW s, s = Ready(t, "y", 1)
      PROVE  Fresh(g, t, s)
  <2>1. /\ s \in Exchange(g) /\ Tracked(g, t, s)
        /\ s.pc = "ready" /\ s.axis = "y" /\ s.round = 1 /\ s.it = 0
        /\ s.from = Ptr(g, "y", Place(t, "y"), g.halos[1], 0)
        /\ Passed(s) = 0
    BY <1>3, <1>4, ReadyNow
  <2> QED BY <2>1 DEF Fresh
<1>5. \A t \in Mesh(g) : Fresh(g, t, st[t])
  BY <1>2, <1>4
<1>6. TaskParts(g)
  <2>1. \A t \in Mesh(g) : st[t] \in Exchange(g) /\ Tracked(g, t, st[t])
    BY <1>5 DEF Fresh
  <2>2. st \in [Mesh(g) -> Exchange(g)]
    BY <1>2, <2>1
  <2> QED BY <2>1, <2>2 DEF TaskParts
<1>7. MemoryParts(g)
  <2>1. ASSUME NEW t \in Mesh(g) PROVE Remembers(g, t, st[t], mem[t])
    <3>1. PICK s, m, old : s = st[t] /\ m = mem[t] /\ old = [c \in Cells[g][t] |-> Junk]
      OBVIOUS
    <3>2. m = Computed(t, old, 1)
      BY <1>2, <3>1
    <3>3. old \in [Cells[g][t] -> Words]
      BY <3>1 DEF Words
    <3>4. s.axis = "y" /\ s.round = 1 /\ s.from = Ptr(g, "y", Place(t, "y"), g.halos[1], 0)
      BY <1>5, <3>1 DEF Fresh
    <3>5. Remembers(g, t, s, m)
      BY <1>3, <3>2, <3>3, <3>4, ComputeRemembers
    <3> QED BY <3>1, <3>5
  <2>2. DOMAIN mem = Mesh(g)
    BY <1>2
  <2> QED BY <2>1, <2>2 DEF MemoryParts
<1>8. LinkParts(g)
  <2>1. chan \in [LinksOf(g) -> Seq(Seq(Words))]
    BY <1>2
  <2>2. ASSUME NEW t \in Mesh(g), NEW u \in Mesh(g), NEW ax \in Axes, NEW d \in {-1, 1},
               u = Neighbour(t, ax, d)
        PROVE  OnLink(g, t, u, ax, d)
    <3>1. PICK D, M : D = Due(g, ax, Place(t, ax), d) /\ M = Messages(g, t, ax, d)
      OBVIOUS
    <3>2. <<t, u>> \in LinksOf(g)
      BY <2>2, LinksAre
    <3>3. chan[<<t, u>>] = <<>>
      BY <1>2, <3>2
    <3>4. NextSent(st[t], ax) = <<1, 1>> /\ NextTaken(st[u], ax) = <<1, 1>>
      <4>1. Fresh(g, t, st[t]) /\ Fresh(g, u, st[u])
        BY <1>5
      <4> QED BY <4>1, FreshStarts
    <3>5. D \subseteq Keys /\ \A x \in D : ~Lt(x, <<1, 1>>)
      BY <3>1, DueLater
    <3>6. <<1, 1>> \in Keys
      BY DEF Keys
    <3>7. PICK S \in Keys : S = <<1, 1>>
      BY <3>6
    <3>8. Flow(D, M, S, S, <<>>)
      BY <3>5, <3>7, FlowStarts
    <3> QED BY <3>1, <3>3, <3>4, <3>7, <3>8 DEF OnLink
  <2> QED BY <2>1, <2>2 DEF LinkParts
<1> QED BY <1>6, <1>7, <1>8 DEF Parts

\* The invariant holds in every initial state.
LEMMA InitIInv == Init => IInv
<1>1. SUFFICES ASSUME Init PROVE IInv
  OBVIOUS
<1>2. PICK g \in Grids : grid = g
  BY <1>1 DEF Init
<1>3. Parts(g)
  BY <1>1, <1>2, FirstParts
<1> QED BY <1>3 DEF IInv

\* Every step preserves the invariant.
LEMMA NextIInv == IInv /\ [Next]_vars => IInv'
<1>1. SUFFICES ASSUME IInv, [Next]_vars PROVE IInv'
  OBVIOUS
<1>2. PICK g \in Grids : Parts(g)
  BY <1>1 DEF IInv
<1>3. Tasks = Mesh(g)
  BY <1>2, LinksAre DEF Parts
<1>4. CASE UNCHANGED vars
  <2>1. Parts(g)'
    BY <1>2, <1>4 DEF Parts, TaskParts, MemoryParts, LinkParts, OnLink, vars
  <2> QED BY <2>1 DEF IInv
<1>5. ASSUME NEW t \in Mesh(g), Step(t) PROVE Parts(g)'
  <2>1. CASE Iterate(t)
    BY <1>2, <2>1, IterateParts
  <2>2. CASE Complete(t)
    BY <1>2, <2>2, CompleteParts
  <2>3. CASE Turn(t)
    BY <1>2, <2>3, TurnParts
  <2>4. CASE Finish(t)
    BY <1>2, <2>4, FinishParts
  <2>5. CASE Compute(t)
    BY <1>2, <2>5, ComputeParts
  <2> QED BY <1>5, <2>1, <2>2, <2>3, <2>4, <2>5 DEF Step
<1>6. CASE Next
  <2>1. PICK t \in Mesh(g) : Step(t)
    BY <1>3, <1>6 DEF Next
  <2>2. Parts(g)'
    BY <1>5, <2>1
  <2> QED BY <2>2 DEF IInv
<1> QED BY <1>1, <1>4, <1>6

\* The invariant holds in every state the exchange reaches.
LEMMA AlwaysIInv == Spec => []IInv
BY InitIInv, NextIInv, PTL DEF Spec

-----------------------------------------------------------------------------
(* What follows                                                              *)

\* The first message of a link fills the box of its receiver.
LEMMA SizesFollow == IInv => SizesAgree
<1>1. SUFFICES ASSUME IInv PROVE SizesAgree
  OBVIOUS
<1>2. PICK g \in Grids : Parts(g)
  BY <1>1 DEF IInv
<1>3. grid = g /\ TaskParts(g) /\ LinkParts(g) /\ Tasks = Mesh(g)
  BY <1>2, LinksAre DEF Parts
<1>4. ASSUME NEW t \in Mesh(g), NEW s, s = st[t], s.pc = "wait", NEW side \in Recvs(s),
             NEW u, u = Partner(t, s, side), NEW c, c = chan[<<u, t>>], c # <<>>
      PROVE  Len(Head(c)) = Size(BoxOf(t, s, side))
  <2>1. s \in Exchange(g) /\ Tracked(g, t, s)
    BY <1>2, <1>4, PartsAre
  <2>2. PICK k \in Nat : Waiting(g, t, s, k)
    BY <1>4, <2>1, WaitingIs
  <2>3. side = "rm" \/ side = "rp"
    BY DEF Recvs
  <2>4. PICK d \in {-1, 1} : side = SideFrom(d)
    <3>1. SideFrom(1) = "rm" /\ SideFrom(-1) = "rp"
      BY DEF SideFrom
    <3> QED BY <2>3, <3>1
  <2>5. PICK m : m = Head(c)
    OBVIOUS
  <2>6. Awaits(g, t, s, k, d, u, m)
    BY <1>3, <1>4, <2>1, <2>2, <2>4, <2>5, AwaitsIs
  <2>7. PICK h, x, box : h = g.halos[s.round] /\ x = <<s.round, k + 1>> /\ box = LinkBox(g, u, s.axis, d, h, k)
    OBVIOUS
  <2>8. BoxOf(t, s, side) = box /\ Fits(g, u, s.axis, d, x, m)
    BY <2>4, <2>6, <2>7 DEF Awaits
  <2>9. x[1] = s.round /\ x[2] - 1 = k
    BY <2>7
  <2>10. Len(m) = Size(box)
    BY <2>7, <2>8, <2>9 DEF Fits
  <2> QED BY <2>5, <2>8, <2>10
<1>5. ASSUME NEW t \in Tasks, st[t].pc = "wait", NEW side \in Recvs(st[t]),
             chan[<<Partner(t, st[t], side), t>>] # <<>>
      PROVE  Len(Head(chan[<<Partner(t, st[t], side), t>>])) = Size(BoxOf(t, st[t], side))
  <2>1. PICK s : s = st[t]
    OBVIOUS
  <2>2. PICK u : u = Partner(t, s, side)
    OBVIOUS
  <2>3. PICK c : c = chan[<<u, t>>]
    OBVIOUS
  <2>4. Len(Head(c)) = Size(BoxOf(t, s, side))
    BY <1>3, <1>4, <1>5, <2>1, <2>2, <2>3
  <2> QED BY <2>1, <2>2, <2>3, <2>4
<1> QED BY <1>5 DEF SizesAgree

\* On every domain and mesh, for stencils of any width and in however many
\* iterations: a message has exactly the words its receiver unpacks (the ia, ja
\* counters of RSL_LITE_PACK agree between neighbours), though each task works out
\* its widths alone from TASK_FOR_POINT.
THEOREM MessagesFit == Spec => []SizesAgree
BY AlwaysIInv, SizesFollow, PTL

\* When all are through, sender and receiver of a link are at the same message.
LEMMA EmptyFollows == IInv => NothingLeftBehind
<1>1. SUFFICES ASSUME IInv, Finished PROVE \A l \in DOMAIN chan : chan[l] = <<>>
  BY DEF NothingLeftBehind
<1>2. PICK g \in Grids : Parts(g)
  BY <1>1 DEF IInv
<1>3. grid = g /\ LinkParts(g) /\ Tasks = Mesh(g)
  BY <1>2, LinksAre DEF Parts
<1>4. /\ chan \in [LinksOf(g) -> Seq(Seq(Words))]
      /\ \A t, u \in Mesh(g), ax \in Axes, d \in {-1, 1} : u = Neighbour(t, ax, d) => OnLink(g, t, u, ax, d)
  BY <1>3 DEF LinkParts
<1>5. PICK R : R = Len(g.halos)
  OBVIOUS
<1>6. ASSUME NEW t \in Mesh(g), NEW ax \in Axes
      PROVE  NextSent(st[t], ax) = <<R + 1, 1>> /\ NextTaken(st[t], ax) = <<R + 1, 1>>
  <2>1. PICK s : s = st[t]
    OBVIOUS
  <2>2. s.pc = "done" /\ s.round = R
    BY <1>1, <1>3, <1>5, <2>1 DEF Finished
  <2>3. s \in Exchange(g) /\ Tracked(g, t, s)
    BY <1>2, <2>1, PartsAre
  <2>4. s.axis = "x"
    BY <2>2, <2>3 DEF Tracked
  <2> QED BY <2>1, <2>2, <2>4 DEF NextSent, NextTaken, Progress
<1>7. ASSUME NEW l \in LinksOf(g) PROVE chan[l] = <<>>
  <2>1. PICK t \in Mesh(g), u \in Mesh(g) : l = <<t, u>>
    BY DEF LinksOf
  <2>2. PICK ax \in Axes, d \in {-1, 1} : u = Neighbour(t, ax, d)
    BY <2>1 DEF LinksOf
  <2>3. OnLink(g, t, u, ax, d)
    BY <1>4, <2>2
  <2>4. PICK D, M, S, c : /\ D = Due(g, ax, Place(t, ax), d) /\ M = Messages(g, t, ax, d)
                          /\ S = <<R + 1, 1>> /\ c = chan[<<t, u>>]
    OBVIOUS
  <2>5. Flow(D, M, S, S, c)
    BY <1>6, <2>3, <2>4 DEF OnLink
  <2>6. D \subseteq Keys
    BY <2>4 DEF Due
  <2>7. c \in Seq(Seq(Words))
    BY <1>4, <2>1, <2>4
  <2> QED BY <2>1, <2>4, <2>5, <2>6, <2>7, FlowEmpty
<1> QED BY <1>4, <1>7

\* When all tasks are through their exchanges, no link holds a message, so that
\* none is taken for a message of a later exchange.
THEOREM NothingIsLeft == Spec => []NothingLeftBehind
BY AlwaysIInv, EmptyFollows, PTL

\* When every loop is at its end, the known cells are those of the halo.
LEMMA GhostsFollow == IInv => GhostsRight
<1>1. SUFFICES ASSUME IInv PROVE GhostsRight
  OBVIOUS
<1>2. PICK g \in Grids : Parts(g)
  BY <1>1 DEF IInv
<1>3. grid = g /\ Tasks = Mesh(g)
  BY <1>2, LinksAre DEF Parts
<1>4. ASSUME NEW t \in Mesh(g), NEW s, s = st[t], s.pc = "done", NEW h, h = g.halos[s.round],
             NEW i \in ReachOf(g, t, "x", h), NEW j \in ReachOf(g, t, "y", h)
      PROVE  mem[t][<<i, j>>] = <<<<i, j>>, s.round>>
  <2>1. s \in Exchange(g) /\ Tracked(g, t, s) /\ Remembers(g, t, s, mem[t]) /\ s.round \in 1 .. Len(g.halos)
    BY <1>2, <1>4, PartsAre
  <2>2. h \in Nat \ {0} /\ h <= MaxHalo(g)
    BY <1>4, <2>1, RoundIs
  <2>3. PICK ax, p, k : ax = s.axis /\ p = Place(t, ax) /\ k = s.it
    OBVIOUS
  <2>4. /\ ax \in Axes /\ k \in Nat /\ ax = "x" /\ Full(g, ax, p, h, k)
        /\ s.from = Ptr(g, ax, p, h, Passed(s)) /\ Passed(s) = k
    BY <1>4, <2>1, <2>3, TrackedIs
  <2>5. PICK f : f = Ptr(g, ax, p, h, k)
    OBVIOUS
  <2>6. i \in Domain(g, ax) /\ i \in Int /\ f.rm + 1 <= i /\ i <= f.rp - 1
    BY <2>2, <2>3, <2>4, <2>5, ReachCovered
  <2>7. j \in Int
    <3>1. "y" \in Axes
      BY DEF Axes
    <3>2. j \in Domain(g, "y")
      BY DEF ReachOf
    <3> QED BY <3>1, <3>2, DomainAround
  <2>8. PICK cell \in Int \X Int : cell = <<i, j>>
    BY <2>6, <2>7
  <2>9. CellAt(ax, cell[1], cell[2]) = <<i, j>>
    BY <2>4, <2>8 DEF CellAt
  <2>10. j \in Side(g, t, ax, h)
    BY <2>4 DEF Side
  <2>11. Lies(g, t, ax, h, f.rm + 1, f.rp - 1, cell)
    BY <2>6, <2>9, <2>10 DEF Lies
  <2>12. Known(g, t, s, cell)
    BY <1>4, <2>3, <2>4, <2>5, <2>11 DEF Known
  <2> QED BY <2>1, <2>8, <2>12 DEF Remembers
<1>5. ASSUME NEW t \in Mesh(g), NEW ax \in Axes, NEW h PROVE Reach(t, ax, h) = ReachOf(g, t, ax, h)
  BY <1>3 DEF Reach, ReachOf, First, Final, FirstOn, LastOn
<1>6. ASSUME NEW t \in Tasks, st[t].pc = "done", NEW i \in Reach(t, "x", grid.halos[st[t].round]),
             NEW j \in Reach(t, "y", grid.halos[st[t].round])
      PROVE  mem[t][<<i, j>>] = <<<<i, j>>, st[t].round>>
  <2>1. PICK s : s = st[t]
    OBVIOUS
  <2>2. PICK h : h = g.halos[s.round]
    OBVIOUS
  <2>3. i \in ReachOf(g, t, "x", h) /\ j \in ReachOf(g, t, "y", h)
    BY <1>3, <1>5, <1>6, <2>1, <2>2 DEF Axes
  <2> QED BY <1>3, <1>4, <1>6, <2>1, <2>2, <2>3
<1> QED BY <1>6 DEF GhostsRight

\* A task that leaves an exchange has, in every point of its halo inside the domain,
\* the value its owner computed in this round, the corners included: on every mesh,
\* for patches narrower than the stencil, and though no task waits for the others
\* between exchanges.
THEOREM HalosArrive == Spec => []GhostsRight
BY AlwaysIInv, GhostsFollow, PTL

\* With a neighbour before, a patch begins inside the domain, and with one
\* behind it ends inside.
LEMMA InnerEnds ==
  ASSUME NEW g \in Grids, NEW ax \in Axes, NEW p \in Places(g, ax)
  PROVE  /\ p - 1 \in Places(g, ax) => 2 <= FirstOn(g, ax, p)
         /\ p + 1 \in Places(g, ax) => LastOn(g, ax, p) + 1 <= LastPoint(g, ax)
<1>1. p \in Int
  BY GridIs DEF Places
<1>2. ASSUME p - 1 \in Places(g, ax) PROVE 2 <= FirstOn(g, ax, p)
  <2>1. PICK q \in Places(g, ax) : q = p - 1
    BY <1>2
  <2>2. p = q + 1
    BY <1>1, <2>1
  <2>3. PICK b \in Int : b = LastOn(g, ax, q) /\ 1 <= b
    BY <2>1, PatchIs
  <2>4. FirstOn(g, ax, p) = b + 1
    BY <2>2, <2>3, PatchesMeet
  <2> QED BY <2>3, <2>4
<1>3. ASSUME p + 1 \in Places(g, ax) PROVE LastOn(g, ax, p) + 1 <= LastPoint(g, ax)
  <2>1. PICK q \in Places(g, ax) : q = p + 1
    BY <1>3
  <2>2. FirstOn(g, ax, q) = LastOn(g, ax, p) + 1
    BY <2>1, PatchesMeet
  <2>3. FirstOn(g, ax, q) <= LastPoint(g, ax)
    BY <2>1, PatchIs
  <2> QED BY <2>2, <2>3
<1> QED BY <1>2, <1>3

\* Points within a stencil of an end of the patch that has a neighbour are in
\* memory, when the boundary is wide enough for the stencil.
LEMMA EndsInMemory ==
  ASSUME NEW g \in Grids, NEW ax \in Axes, NEW t \in Mesh(g), NEW p, p = Place(t, ax),
         NEW a, a = FirstOn(g, ax, p), NEW b, b = LastOn(g, ax, p),
         NEW h \in Nat \ {0}, h <= MaxHalo(g), h <= Bdy + 2, NEW k \in Int,
         \/ p - 1 \in Places(g, ax) /\ a - h <= k /\ k <= a + h - 1
         \/ p + 1 \in Places(g, ax) /\ b - h + 1 <= k /\ k <= b + h
  PROVE  k \in Memory[g][t][ax]
<1>1. p \in Places(g, ax)
  BY MeshIs
<1>2. PICK l \in Nat, m \in Nat, y \in Nat : l = LastPoint(g, ax) /\ m = MaxHalo(g) /\ y = Bdy
  BY <1>1, PatchIs, BdyAssumption
<1>3. a \in Int /\ b \in Int /\ a <= b /\ a <= l /\ 1 <= b
  BY <1>1, <1>2, PatchIs
<1>4. h <= m /\ h <= y + 2
  BY <1>2
<1>5. a - m - 1 <= k /\ k <= b + m + 1 /\ 0 - y <= k /\ k <= l + y + 1
  <2>1. CASE p - 1 \in Places(g, ax) /\ a - h <= k /\ k <= a + h - 1
    <3>1. 2 <= a
      BY <1>1, <2>1, InnerEnds
    <3> QED BY <1>3, <1>4, <2>1, <3>1
  <2>2. CASE p + 1 \in Places(g, ax) /\ b - h + 1 <= k /\ k <= b + h
    <3>1. b + 1 <= l
      BY <1>1, <1>2, <2>2, InnerEnds
    <3> QED BY <1>3, <1>4, <2>2, <3>1
  <2> QED BY <2>1, <2>2
<1>6. /\ FirstOn(g, ax, Place(t, ax)) - MaxHalo(g) - 1 <= k /\ k <= LastOn(g, ax, Place(t, ax)) + MaxHalo(g) + 1
      /\ 0 - Bdy <= k /\ k <= LastPoint(g, ax) + Bdy + 1
  BY <1>2, <1>5
<1> QED BY <1>6, MemoryIs

\* A loop that takes a point runs towards a neighbour.
LEMMA TakenLinks ==
  ASSUME NEW g \in Grids, NEW ax \in Axes, NEW p \in Places(g, ax), NEW h \in Nat \ {0}, h <= MaxHalo(g), NEW k \in Nat
  PROVE  /\ Taken(g, ax, p, -1, h, k) > 0 => p - 1 \in Places(g, ax)
         /\ Taken(g, ax, p - 1, 1, h, k) > 0 => p - 1 \in Places(g, ax)
         /\ Taken(g, ax, p, 1, h, k) > 0 => p + 1 \in Places(g, ax)
         /\ Taken(g, ax, p + 1, -1, h, k) > 0 => p + 1 \in Places(g, ax)
<1>1. p \in Int /\ p - 1 \in Int /\ p + 1 \in Int
  BY GridIs DEF Places
<1>2. ASSUME NEW q \in Int, NEW d \in {-1, 1}, Taken(g, ax, q, d, h, k) > 0 PROVE Linked(g, ax, q, d)
  <2>1. SUFFICES ASSUME ~Linked(g, ax, q, d) PROVE FALSE
    OBVIOUS
  <2>2. Cov(g, ax, q, d, h, k) = 0
    BY <2>1 DEF Cov
  <2>3. PICK j \in Nat : j = k + 1
    OBVIOUS
  <2>4. Cov(g, ax, q, d, h, j) = 0
    BY <2>1 DEF Cov
  <2>5. Taken(g, ax, q, d, h, k) = 0 - 0
    BY <2>2, <2>3, <2>4 DEF Taken
  <2> QED BY <1>2, <2>5
<1>3. PICK e \in {-1, 1} : e = -1
  OBVIOUS
<1>4. PICK f \in {-1, 1} : f = 1
  OBVIOUS
<1>5. Taken(g, ax, p, -1, h, k) > 0 => p - 1 \in Places(g, ax)
  <2>1. Taken(g, ax, p, e, h, k) > 0 => Linked(g, ax, p, e)
    BY <1>1, <1>2
  <2>2. Linked(g, ax, p, e) => p - 1 \in Places(g, ax)
    <3>1. p + e = p - 1
      BY <1>1, <1>3
    <3> QED BY <3>1 DEF Linked
  <2> QED BY <1>3, <2>1, <2>2
<1>6. Taken(g, ax, p - 1, 1, h, k) > 0 => p - 1 \in Places(g, ax)
  <2>1. Taken(g, ax, p - 1, f, h, k) > 0 => Linked(g, ax, p - 1, f)
    BY <1>1, <1>2
  <2> QED BY <1>4, <2>1 DEF Linked
<1>7. Taken(g, ax, p, 1, h, k) > 0 => p + 1 \in Places(g, ax)
  <2>1. Taken(g, ax, p, f, h, k) > 0 => Linked(g, ax, p, f)
    BY <1>1, <1>2
  <2> QED BY <1>4, <2>1 DEF Linked
<1>8. Taken(g, ax, p + 1, -1, h, k) > 0 => p + 1 \in Places(g, ax)
  <2>1. Taken(g, ax, p + 1, e, h, k) > 0 => Linked(g, ax, p + 1, e)
    BY <1>1, <1>2
  <2> QED BY <1>3, <2>1 DEF Linked
<1> QED BY <1>5, <1>6, <1>7, <1>8

\* The cells a task packs and unpacks are in its memory.
LEMMA BoxesInMemory ==
  ASSUME NEW g \in Grids, grid = g, NEW t \in Mesh(g), NEW s \in Exchange(g), Tracked(g, t, s), s.pc = "wait",
         NEW h, h = g.halos[s.round], h <= Bdy + 2, NEW ax, ax = s.axis,
         NEW side \in Sends(s) \union Recvs(s)
  PROVE  BoxOf(t, s, side).along \subseteq Memory[g][t][ax]
<1>1. PICK p, k : p = Place(t, ax) /\ k = Passed(s)
  OBVIOUS
<1>2. /\ ax \in Axes /\ p \in Places(g, ax) /\ p \in Int /\ h \in Nat \ {0} /\ h <= MaxHalo(g) /\ k \in Nat
      /\ s.from = Ptr(g, ax, p, h, k) /\ s.w = Gap(g, ax, p, h, k)
  BY <1>1, TrackedIs
<1>3. \E a, b, c1, c2, c3, c4, e1, e2, e3, e4 \in Int :
        Shape(g, ax, p, h, k, a, b, c1, c2, c3, c4, e1, e2, e3, e4)
  BY <1>2, PtrIs
<1>4. PICK a, b, c1, c2, c3, c4, e1, e2, e3, e4 \in Int :
        Shape(g, ax, p, h, k, a, b, c1, c2, c3, c4, e1, e2, e3, e4)
  BY <1>3
<1>5. /\ a = FirstOn(g, ax, p) /\ b = LastOn(g, ax, p)
      /\ 0 <= c1 /\ c1 <= e1 /\ e1 <= h /\ 0 <= c2 /\ c2 <= e2 /\ e2 <= h
      /\ 0 <= c3 /\ c3 <= e3 /\ e3 <= h /\ 0 <= c4 /\ c4 <= e4 /\ e4 <= h
  BY <1>4 DEF Shape
<1>6. /\ s.from = [sm |-> a + c1, rm |-> a - 1 - c2, sp |-> b - c3, rp |-> b + 1 + c4]
      /\ s.w = [sm |-> e1 - c1, rm |-> e2 - c2, sp |-> e3 - c3, rp |-> e4 - c4]
  BY <1>2, <1>4 DEF Shape
<1>7. /\ s.w.sm > 0 => p - 1 \in Places(g, ax)
      /\ s.w.rm > 0 => p - 1 \in Places(g, ax)
      /\ s.w.sp > 0 => p + 1 \in Places(g, ax)
      /\ s.w.rp > 0 => p + 1 \in Places(g, ax)
  <2>1. /\ Taken(g, ax, p, -1, h, k) > 0 => p - 1 \in Places(g, ax)
        /\ Taken(g, ax, p - 1, 1, h, k) > 0 => p - 1 \in Places(g, ax)
        /\ Taken(g, ax, p, 1, h, k) > 0 => p + 1 \in Places(g, ax)
        /\ Taken(g, ax, p + 1, -1, h, k) > 0 => p + 1 \in Places(g, ax)
    BY <1>2, TakenLinks
  <2> QED BY <1>2, <2>1 DEF Gap
<1>8. ASSUME NEW n \in Int,
             \/ p - 1 \in Places(g, ax) /\ a - h <= n /\ n <= a + h - 1
             \/ p + 1 \in Places(g, ax) /\ b - h + 1 <= n /\ n <= b + h
      PROVE  n \in Memory[g][t][ax]
  BY <1>1, <1>2, <1>5, <1>8, EndsInMemory
<1>9. CASE side = "sm"
  <2>1. p - 1 \in Places(g, ax)
    BY <1>7, <1>9 DEF Sends, Recvs
  <2>2. BoxOf(t, s, side).along = a + c1 .. a + c1 + (e1 - c1) - 1
    BY <1>6, <1>9 DEF BoxOf, Box
  <2>3. ASSUME NEW n \in a + c1 .. a + c1 + (e1 - c1) - 1
        PROVE  n \in Int /\ a - h <= n /\ n <= a + h - 1
    BY <1>2, <1>5
  <2> QED BY <1>8, <2>1, <2>2, <2>3
<1>10. CASE side = "rm"
  <2>1. p - 1 \in Places(g, ax)
    BY <1>7, <1>10 DEF Sends, Recvs
  <2>2. BoxOf(t, s, side).along = a - 1 - c2 - (e2 - c2) + 1 .. a - 1 - c2
    BY <1>6, <1>10 DEF BoxOf, Box
  <2>3. ASSUME NEW n \in a - 1 - c2 - (e2 - c2) + 1 .. a - 1 - c2
        PROVE  n \in Int /\ a - h <= n /\ n <= a + h - 1
    BY <1>2, <1>5
  <2> QED BY <1>8, <2>1, <2>2, <2>3
<1>11. CASE side = "sp"
  <2>1. p + 1 \in Places(g, ax)
    BY <1>7, <1>11 DEF Sends, Recvs
  <2>2. BoxOf(t, s, side).along = b - c3 - (e3 - c3) + 1 .. b - c3
    BY <1>6, <1>11 DEF BoxOf, Box
  <2>3. ASSUME NEW n \in b - c3 - (e3 - c3) + 1 .. b - c3
        PROVE  n \in Int /\ b - h + 1 <= n /\ n <= b + h
    BY <1>2, <1>5
  <2> QED BY <1>8, <2>1, <2>2, <2>3
<1>12. CASE side = "rp"
  <2>1. p + 1 \in Places(g, ax)
    BY <1>7, <1>12 DEF Sends, Recvs
  <2>2. BoxOf(t, s, side).along = b + 1 + c4 .. b + 1 + c4 + (e4 - c4) - 1
    BY <1>6, <1>12 DEF BoxOf, Box
  <2>3. ASSUME NEW n \in b + 1 + c4 .. b + 1 + c4 + (e4 - c4) - 1
        PROVE  n \in Int /\ b - h + 1 <= n /\ n <= b + h
    BY <1>2, <1>5
  <2> QED BY <1>8, <2>1, <2>2, <2>3
<1> QED BY <1>9, <1>10, <1>11, <1>12 DEF Sends, Recvs

\* No stencil of an exchange is wider than the boundary in memory and two points.
Roomy == \A g \in Grids : \A r \in 1 .. Len(g.halos) : g.halos[r] <= Bdy + 2

\* The parts of the type invariant.
LEMMA TypesFollow == ASSUME Roomy PROVE IInv => TypeOK
<1>1. SUFFICES ASSUME IInv PROVE TypeOK
  OBVIOUS
<1>2. PICK g \in Grids : Parts(g)
  BY <1>1 DEF IInv
<1>3. grid = g /\ Tasks = Mesh(g)
  BY <1>2, LinksAre DEF Parts
<1>4. ASSUME NEW t \in Mesh(g), NEW s, s = st[t]
      PROVE  /\ s.pc \in {"ready", "wait", "done"} /\ s.axis \in Axes
             /\ s.round \in DOMAIN g.halos
             /\ s.it \in 0 .. Max({g.nx, g.ny})
             /\ DOMAIN mem[t] = Cells[g][t]
             /\ s.pc = "wait" =>
                  \A side \in Sends(s) \union Recvs(s) :
                    BoxOf(t, s, side).along \subseteq Memory[g][t][s.axis]
  <2>1. /\ s \in Exchange(g) /\ Tracked(g, t, s) /\ Remembers(g, t, s, mem[t]) /\ s.axis \in Axes
        /\ s.round \in 1 .. Len(g.halos)
    BY <1>2, <1>4, PartsAre
  <2>2. s.pc \in {"ready", "wait", "done"}
    BY <2>1 DEF Exchange
  <2>3. DOMAIN g.halos = 1 .. Len(g.halos)
    BY GridAssumption
  <2>4. s.it \in 0 .. Max({g.nx, g.ny})
    <3>1. PICK n : n = Count(g, s.axis)
      OBVIOUS
    <3>2. s.it \in Nat /\ s.it <= n
      BY <2>1, <3>1, TrackedIs
    <3>3. PICK S : S = {g.nx, g.ny}
      OBVIOUS
    <3>4. PICK x \in Nat, y \in Nat : x = g.nx /\ y = g.ny
      BY GridAssumption
    <3>5. S \subseteq Int /\ S # {} /\ n \in S /\ \A i \in S : 0 <= i /\ i <= x + y
      BY <3>1, <3>3, <3>4 DEF Count
    <3>6. PICK o \in Int, z \in Int : o = 0 /\ z = x + y
      OBVIOUS
    <3>7. Max(S) \in S /\ n <= Max(S)
      <4>1. S \subseteq Int /\ S # {} /\ \A i \in S : o <= i /\ i <= z
        BY <3>5, <3>6
      <4>2. Max(S) \in S /\ \A i \in S : i <= Max(S)
        BY <4>1, Extremes
      <4> QED BY <3>5, <4>2
    <3>8. Max(S) \in Int /\ n \in Int
      BY <3>5, <3>7
    <3> QED BY <3>2, <3>3, <3>7, <3>8
  <2>5. DOMAIN mem[t] = Cells[g][t]
    BY <2>1 DEF Remembers
  <2>6. ASSUME s.pc = "wait", NEW side \in Sends(s) \union Recvs(s)
        PROVE  BoxOf(t, s, side).along \subseteq Memory[g][t][s.axis]
    <3>1. PICK h : h = g.halos[s.round]
      OBVIOUS
    <3>2. h <= Bdy + 2
      BY <2>1, <3>1 DEF Roomy
    <3> QED BY <1>3, <2>1, <2>6, <3>1, <3>2, BoxesInMemory
  <2> QED BY <2>1, <2>2, <2>3, <2>4, <2>5, <2>6
<1>5. ASSUME NEW t \in Tasks
      PROVE  /\ st[t].pc \in {"ready", "wait", "done"} /\ st[t].axis \in Axes
             /\ st[t].round \in DOMAIN grid.halos
             /\ st[t].it \in 0 .. Max({grid.nx, grid.ny})
             /\ DOMAIN mem[t] = Cells[grid][t]
             /\ st[t].pc = "wait" =>
                  \A side \in Sends(st[t]) \union Recvs(st[t]) :
                    BoxOf(t, st[t], side).along \subseteq Memory[grid][t][st[t].axis]
  BY <1>3, <1>4
<1> QED BY <1>5 DEF TypeOK

\* The type invariant: in particular every point a task packs or unpacks lies
\* within its memory, when no stencil is wider than the boundary and two points
\* (the boundary is bdyzone = 4, the widest stencil 6).
THEOREM PackedFromMemory == ASSUME Roomy PROVE Spec => []TypeOK
BY AlwaysIInv, TypesFollow, PTL
=============================================================================
