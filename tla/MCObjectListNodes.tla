-------------------------- MODULE MCObjectListNodes --------------------------
(* A small instance of ObjectListNodes; the configuration names its values. *)
EXTENDS ObjectListNodes
=============================================================================
