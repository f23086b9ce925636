----------------------------- MODULE MCGenerators -----------------------------
(* Instances of Generators for TLC: the bound MaxWork is never reached by   *)
(* a body of these that is resumed as it should be.                        *)
EXTENDS Generators

CONSTANTS g, h, u, v, undef

TwoGenerators == {g, h}
TwoValues == {u, v}
FourBodies ==
    {<<"work", "yield", "ask", "work", "yield">>, <<"ask", "yield", "return">>,
     <<"yield", "work", "throw">>, <<"work", "yield", "fail">>}
=============================================================================
