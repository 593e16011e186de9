-------------------------- MODULE MCStatementFlow --------------------------
(* Bounds for StatementFlow: every program up to the bound.                 *)
EXTENDS StatementFlow

FlowLeaves == {"effect", "empty", "return_value", "break", "continue"}
=============================================================================
