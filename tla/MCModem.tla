------------------------------ MODULE MCModem ------------------------------
(***************************************************************************)
(* Instances of Modem for TLC.                                             *)
(***************************************************************************)
EXTENDS Modem

MCBounds == {[deaths |-> 5, exits |-> 2]}
MCDeaths == {[deaths |-> 2, exits |-> 0]}
=============================================================================
