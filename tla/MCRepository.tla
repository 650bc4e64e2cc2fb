---------------------------- MODULE MCRepository ----------------------------
(***************************************************************************)
(* Instances of Repository for TLC.                                        *)
(***************************************************************************)
EXTENDS Repository

CONSTANTS w1, w2, w3
ThreeWriters == {w1, w2, w3}
=============================================================================
