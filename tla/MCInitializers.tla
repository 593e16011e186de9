--------------------------- MODULE MCInitializers ---------------------------
(* Up to three definitions, the second one any of a large set. *)
EXTENDS Initializers

Number(n) == [kind |-> "number", n |-> n, name |-> "a"]
Name(x) == [kind |-> "name", n |-> 0, name |-> x]
CallF == [kind |-> "call", n |-> 0, name |-> "a"]
Definition(scope, name, n, items, chars) ==
  [scope |-> scope, name |-> name, size |-> n, items |-> items, chars |-> chars]

Initials ==
  {<< >>, <<Number(5)>>, <<Name("a")>>, <<CallF>>, <<Number(5), Name("b"), CallF>>,
   <<CallF, Name("a"), Number(6)>>, <<Name("b"), CallF>>, <<Name("a"), Name("b")>>}
Sizes == {NoExp, Number(2), Number(3), Number(0), Number(-1), Name("a"), CallF}

Any ==
  {Definition(s, n, z, i, << >>) : s \in {"file", "f"}, n \in {"a", "b"}, z \in Sizes, i \in Initials}
  \cup {Definition(s, "a", z, << >>, <<7, 8>>) : s \in {"file", "f"}, z \in Sizes}

First ==
  {Definition("file", "a", NoExp, <<Number(2)>>, << >>),
   Definition("file", "a", NoExp, << >>, << >>),
   Definition("file", "b", Number(2), <<Number(1)>>, << >>),
   Definition("f", "a", NoExp, <<CallF>>, << >>),
   Definition("f", "b", Number(2), <<CallF, CallF, CallF>>, << >>),
   Definition("g", "a", NoExp, << >>, << >>)}

Last ==
  {Definition("file", "a", NoExp, <<CallF>>, << >>),
   Definition("file", "b", Name("a"), <<Name("a"), Number(4)>>, << >>),
   Definition("f", "b", NoExp, <<Name("b")>>, << >>),
   Definition("f", "a", Number(2), <<Name("a"), CallF>>, << >>),
   Definition("g", "b", NoExp, <<Name("a")>>, << >>)}

Contiguous(p) ==
  \A i, k \in 1..Len(p) : \A j \in i..k :
    p[i].scope = p[k].scope /\ p[i].scope # "file" => p[j].scope = p[i].scope
MCPrograms ==
  {p \in {<<d, e, l>> : d \in First, e \in Any, l \in Last} : Contiguous(p)}
  \cup {<<d, e>> : d \in First, e \in Any} \cup {<<e>> : e \in Any}
=============================================================================
