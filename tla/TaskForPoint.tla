---------------------------- MODULE TaskForPoint ----------------------------
(***************************************************************************)
(* The task that owns a point, in one dimension: TASK_FOR_POINT, which     *)
(* treats x and y alike.  n points numbered from 1 are divided over np     *)
(* tasks numbered from 0; when np does not divide n the tasks at both ends *)
(* get the extra points ("processes on the ends have less work because     *)
(* they're boundary processes").  The split over host and accelerator      *)
(* (minx = -99) is left out, and with minx = miny = 1 the code never sets  *)
(* ierr: it uses fewer tasks than there are when the points do not suffice.*)
(***************************************************************************)
EXTENDS Integers

\* A point outside the dimension belongs to the task at its end.
Clipped(k, n) == IF k < 1 THEN 0 ELSE IF k > n THEN n - 1 ELSE k - 1

TasksUsed(n, np) == IF np > n THEN n ELSE np

Small(n, np) == n \div np      \* the points of a task in the middle
Large(n, np) == n \div np + 1  \* and of a task at either end
Extra(n, np) == n % np         \* how many tasks are large

\* a and b: the first point of the middle tasks, of the large ones after them
MiddleFrom(n, np) == (Extra(n, np) \div 2) * Large(n, np)
MiddleTo(n, np)   == MiddleFrom(n, np) + (np - Extra(n, np)) * Small(n, np)

\* Px and Py
OwnerAmongUsed(i, n, np) ==
  LET a == MiddleFrom(n, np)
      b == MiddleTo(n, np)
      low == a \div Large(n, np)
      mid == (b - a) \div (np - Extra(n, np))
  IN  IF i < a THEN i \div Large(n, np)
      ELSE IF i < b THEN low + (i - a) \div mid
      ELSE low + (b - a) \div mid + (i - b) \div Large(n, np)

TaskOf(k, n, np) == OwnerAmongUsed(Clipped(k, n), n, TasksUsed(n, np))
=============================================================================
