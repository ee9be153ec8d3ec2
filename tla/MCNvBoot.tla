------------------------------ MODULE MCNvBoot ------------------------------
(***************************************************************************)
(* Instances of NvBoot for TLC.                                            *)
(***************************************************************************)
EXTENDS NvBoot

MCMain  == [p \in Part |-> TRUE]          \* rand() chose the main image
MCMixed == [p \in Part |-> p % 2 = 0]    \* main for fixnv, backup for runtimenv
=============================================================================
