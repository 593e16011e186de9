------------------------------ MODULE MCDriver ------------------------------
(* Files of one and three definitions, with and without errors of the lexer *)
(* and of the parser.                                                      *)
EXTENDS Driver

Source(given, readable, lexed, parsed, definitions) ==
  [given |-> given, readable |-> readable, lexed |-> lexed, parsed |-> parsed,
   definitions |-> definitions]

MCSources ==
  {Source(TRUE, TRUE, l, p, n) : l \in BOOLEAN, p \in BOOLEAN, n \in {1, 3}}
  \cup {Source(FALSE, FALSE, TRUE, TRUE, 1), Source(TRUE, FALSE, TRUE, TRUE, 1)}
=============================================================================
