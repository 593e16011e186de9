---------------------------- MODULE LexicalScope ----------------------------
(***************************************************************************)
(* What the identifiers of an l24 program denote: block scoping, stated    *)
(* without a search.  Every scope knows what each identifier denotes in it.*)
(* A scope starts out with what its parent sees, a declaration changes     *)
(* what one identifier denotes in the innermost scope, and leaving a scope *)
(* brings back what the outer one saw.                                     *)
(*                                                                         *)
(* A step is what the program says next, its item, and what comes of it    *)
(* is determined by the item.                                              *)
(***************************************************************************)
EXTENDS Naturals, Sequences

CONSTANT Ident   \* the identifiers of variables, constants and parameters

VARIABLES
  scopes,    \* the open scopes, the file scope first
  places,    \* how many places (variables, constants) have been declared
  consts,    \* those that may not be assigned to
  item,      \* <<"open">>, <<"close">>, <<"close function">>,
             \* <<"declare", x, const>>, <<"use", x>> or <<"assign", x>>
  touched,   \* the places that the item reads or assigns to
  assigned,  \* those it assigns to
  rejected   \* "no", or why the program has been rejected

scopeVars == <<scopes, places, consts, item, touched, assigned, rejected>>

Unbound == 0

Inner == scopes[Len(scopes)]

Init ==
  /\ scopes = <<[visible |-> [x \in Ident |-> Unbound], own |-> {}]>>
  /\ places = 0
  /\ consts = {}
  /\ item = << >>
  /\ touched = {} /\ assigned = {}
  /\ rejected = "no"

KeepScopes == UNCHANGED scopes
KeepPlaces == UNCHANGED <<places, consts>>
NoAccess == touched' = {} /\ assigned' = {} /\ UNCHANGED rejected

Reject(why) ==
  /\ rejected' = why
  /\ touched' = {} /\ assigned' = {}
  /\ KeepScopes /\ KeepPlaces

-----------------------------------------------------------------------------
(* Scopes *)

\* A function's parameters and every block are a scope.
Open ==
  /\ item' = <<"open">>
  /\ scopes' = Append(scopes, [visible |-> Inner.visible, own |-> {}])
  /\ KeepPlaces /\ NoAccess

Close ==
  /\ item' = <<"close">> /\ Len(scopes) > 1
  /\ scopes' = SubSeq(scopes, 1, Len(scopes) - 1)
  /\ KeepPlaces /\ NoAccess

\* The function's body and its parameters.
CloseFunction ==
  /\ item' = <<"close function">>
  /\ scopes' = SubSeq(scopes, 1, 1)
  /\ KeepPlaces /\ NoAccess

-----------------------------------------------------------------------------
(* Declarations and occurrences of an identifier *)

NewPlace(const) ==
  /\ places' = places + 1
  /\ consts' = IF const THEN consts \cup {places + 1} ELSE consts

\* x denotes a new place in the innermost scope.
Bind(x, const) ==
  /\ NewPlace(const)
  /\ scopes' = [scopes EXCEPT ![Len(scopes)] =
                  [visible |-> [@.visible EXCEPT ![x] = places + 1],
                   own |-> @.own \cup {x}]]

\* Only the constants of functions are kept from being assigned to.
Declare(x, const) ==
  /\ item' = <<"declare", x, const>>
  /\ \/ x \in Inner.own /\ Reject("redefined")
     \/ x \notin Inner.own /\ Bind(x, const /\ Len(scopes) > 1) /\ NoAccess

Use(x) ==
  /\ item' = <<"use", x>>
  /\ \/ Inner.visible[x] = Unbound /\ Reject("undeclared")
     \/ /\ Inner.visible[x] # Unbound
        /\ touched' = {Inner.visible[x]} /\ assigned' = {}
        /\ KeepScopes /\ KeepPlaces /\ UNCHANGED rejected

Assign(x) ==
  /\ item' = <<"assign", x>>
  /\ \/ Inner.visible[x] = Unbound /\ Reject("undeclared")
     \/ Inner.visible[x] \in consts /\ Reject("const")
     \/ /\ Inner.visible[x] \notin {Unbound} \cup consts
        /\ touched' = {Inner.visible[x]} /\ assigned' = {Inner.visible[x]}
        /\ KeepScopes /\ KeepPlaces /\ UNCHANGED rejected

Next ==
  /\ rejected = "no"
  /\ \/ Open \/ Close \/ CloseFunction
     \/ \E x \in Ident : Use(x) \/ Assign(x) \/ \E const \in BOOLEAN : Declare(x, const)

Spec == Init /\ [][Next]_scopeVars
=============================================================================
