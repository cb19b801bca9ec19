--------------------------- MODULE MCDispatchFrame --------------------------
(* Methods with long, array and object parameters in different orders, and *)
(* a stack of four frames of which the last two lie far apart.  Of the     *)
(* numbers, 2 is too large for a signed byte and 77 for an int.            *)
EXTENDS DispatchFrame

MCMethod ==
    {[static |-> TRUE, params |-> <<<<"J">>, <<"I">>>>],
     [static |-> TRUE, params |-> <<<<"[", "J">>, <<"L">>, <<"J">>>>],
     [static |-> FALSE, params |-> <<<<"J">>, <<"L">>>>],
     [static |-> FALSE, params |-> <<<<"[", "[", "I">>, <<"I">>>>]}
MCBases == <<3, 4, 5, 8>>
MCWordValue == {-1, 2}
MCLongValue == {-3, 77}
=============================================================================
