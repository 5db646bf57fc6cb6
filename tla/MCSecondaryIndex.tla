-------------------------- MODULE MCSecondaryIndex --------------------------
(* Values of every kind for TLC: few for the documents, more for the order. *)
EXTENDS SecondaryIndex, ValueOrder

Null == <<"null", 0>>
Num(n) == <<"int", n>>
Float(bits) == <<"float", bits>>

\* Two floats that compare equal by ==, one that does not equal itself, an
\* int with the bits of a float, a string and its prefix, two objects.
SomeValues ==
  { Null, Num(0), Float(0), Float(4), Float(3),
    <<"str", <<1>> >>, <<"str", <<1, 0>> >>, <<"array", <<Null>> >>,
    <<"object", << <<<<1>>, Null>> >> >> }

SomeScalars ==
  {Null} \cup { <<"bool", x>> : x \in 0..1 } \cup { Num(n) : n \in -1..1 }
  \cup { Float(bits) : bits \in 0..7 }
  \cup { <<k, s>> : k \in {"str", "bytes"}, s \in { << >>, <<0>>, <<1>>, <<0, 1>> } }

Few == {Null, Num(0), Float(4)}
Lists == { << >> } \cup { <<x>> : x \in Few } \cup { <<x, y>> : x, y \in Few }
Names == { <<0>>, <<0, 1>> }
Fields == { << >> } \cup { << <<n, x>> >> : n \in Names, x \in Few }
          \cup { << <<<<0>>, x>>, <<<<1>>, Null>> >> : x \in Few }

AllValues ==
  SomeScalars \cup { <<"array", s>> : s \in Lists } \cup { <<"object", d>> : d \in Fields }
          \cup { <<"array", << <<"array", s>> >> >> : s \in Lists }
=============================================================================
