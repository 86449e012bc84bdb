---------------------------- MODULE MCFlexSocket ----------------------------
(***************************************************************************)
(* A small instance of FlexSocket: two file descriptors, two CPUs.         *)
(***************************************************************************)
EXTENDS FlexSocket, TLC

CONSTANTS s1, s2, c1, c2

MCSockets == {s1, s2}
MCCPUs    == {c1, c2}

=============================================================================
