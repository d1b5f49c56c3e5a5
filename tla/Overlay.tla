------------------------------ MODULE Overlay ------------------------------
(* The nodes of an overlay: a membership protocol and the broadcast protocol *)
(* over it run on the same ones.                                             *)
EXTENDS FiniteSets

CONSTANT Node

ASSUME NodeAssumption == IsFiniteSet(Node)
=============================================================================
