--------------------------- MODULE MCHaloExchange ---------------------------
EXTENDS HaloExchange

domain(nx, ny, ni, nj, halos, rendezvous) ==
  [nx |-> nx, ny |-> ny, ni |-> ni, nj |-> nj, ratio |-> 0, nest |-> 0,
   halos |-> halos, rendezvous |-> rendezvous]

\* Stencils wider than the patches, with buffered sends and without; a narrow
\* stencil after a wide one; the intermediate domain of a nest of ratio 3
MCGrids ==
  {domain(3, 2, 4, 3, <<3>>, FALSE), domain(3, 2, 4, 3, <<2>>, TRUE),
   domain(2, 2, 3, 2, <<3, 1>>, FALSE),
   [domain(3, 1, 12, 4, <<3>>, FALSE) EXCEPT !.ratio = 3, !.nest = 1]}
=============================================================================
