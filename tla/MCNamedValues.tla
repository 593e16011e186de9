--------------------------- MODULE MCNamedValues ---------------------------
(* Bounds for NamedValues: two identifiers, of which one is the other with a *)
(* number behind it.                                                         *)
EXTENDS NamedValues, TLC

CONSTANTS a, a1

TwoIdents == {a, a1}
TwoNumbered == a :> {a1} @@ a1 :> {}
=============================================================================
