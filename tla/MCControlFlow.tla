--------------------------- MODULE MCControlFlow ---------------------------
(* Bounds for ControlFlow: every program whose blocks start no statement    *)
(* once MaxTokens tokens have been met.                                     *)
EXTENDS ControlFlow

AllLeaves == LeafTokens
=============================================================================
