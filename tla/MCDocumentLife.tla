--------------------------- MODULE MCDocumentLife ---------------------------
(***************************************************************************)
(* Documents for TLC: bytes of four bits, lengths and integers of two such *)
(* bytes, so that an integer is in -128..127 and a length at most 255.     *)
(***************************************************************************)
EXTENDS DocumentLife

\* Two names that one damaged byte makes equal, and a character of two bytes.
TwoNames == { <<0>>, <<1>> }
wide     == <<Lead, Cont>>
inner    == << <<wide, <<"bool", 1>> >> >>

\* A missing Option, the ends of the integers, a NaN with a payload, -0.0,
\* strings and bytes, a string too long for its length field, nested values.
SomeInputs ==
  { <<"i64", None>>, <<"bool", Some(1)>>, <<"i64", Some(-128)>>, <<"u32", Some(127)>>,
    <<"f64", Some(121)>>, <<"f64", Some(128)>>, <<"str", Some(wide)>>,
    <<"Vec_u8", Some(<<0, Cont>>)>>, <<"String", Some([i \in 1..256 |-> 0])>>,
    <<"Vec_Value", Some(<< <<"int", -1>>, Null >>)>>, <<"Document", Some(inner)>> }

\* The empty name, repeated around another one.
SomeIterables ==
  { << << << >>, Null>>, <<wide, <<"int", 1>> >>, << << >>, <<"object", inner>> >> >> }

\* A map that repeats a name, inside another one; an integer only u64 can
\* hold; options; and no map at all.
SomeTexts ==
  { <<"map", << << << >>, <<"map", << <<wide, <<"u64", 1>> >>,
                                      <<wide, <<"some", <<"none", 0>> >> >> >> >> >> >> >>,
    <<"map", << << << >>, <<"seq", << <<"u64", 128>> >> >> >> >> >>,
    <<"seq", << >> >> }
=============================================================================
