---------------------------- MODULE MCQuiltGroups ----------------------------
(* Quilt with two server groups, which are polled for an idle one (Poll is   *)
(* TRUE), or take turns (InTurn).                                            *)
EXTENDS Quilt
VARIABLE polled

OneEach == [c \in {0, 1} |-> c]
TwoFramesThenOne == <<2, 1>>

InTurn == INSTANCE Quilt WITH Poll <- FALSE

GroupsInit == polled \in BOOLEAN /\ IF polled THEN QuiltInit ELSE InTurn!QuiltInit
GroupsNext ==
  \/ polled /\ Next /\ UNCHANGED polled
  \/ ~polled /\ InTurn!Next /\ UNCHANGED polled
GroupsSpec == GroupsInit /\ [][GroupsNext]_<<polled, vars>>
=============================================================================
