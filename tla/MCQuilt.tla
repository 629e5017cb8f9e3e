------------------------------- MODULE MCQuilt -------------------------------
(* Quilt with servers in pairs.  Servers take contiguous blocks of clients,  *)
(* the larger ones first, as setup_quilt_servers divides them; a file of the *)
(* first stream holds two frames, one of the second a single one.            *)
EXTENDS Quilt
TwoFramesThenOne == <<2, 1>>
OneEach == [c \in {0, 1} |-> c]
TwoFrames == <<2>>
TwoAndOne == [c \in {0, 1, 2} |-> c \div 2]
=============================================================================
