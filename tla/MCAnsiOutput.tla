--------------------------- MODULE MCAnsiOutput ---------------------------
(***************************************************************************)
(* Strings for TLC: up to three pieces of text and of sequences, whole and *)
(* broken ones.                                                            *)
(***************************************************************************)
EXTENDS AnsiOutput, TLC

CONSTANT Long  \* are there three pieces, or two

Pieces ==
    {<<>>, <<"x">>, <<"tab">>, <<"[">>, <<"m">>,
     <<"esc", "c">>, <<"esc", "x">>, <<"esc", "esc">>, <<"esc", "[">>,
     <<"esc", "[", "m">>, <<"esc", "[", "33", "m">>,
     <<"esc", "[", "97", ";", "42", "m">>,
     <<"esc", "[", "107", ";", "0", ";", "39", "m">>,
     <<"esc", "[", "H">>, <<"esc", "[", "2", ";", "3", "H">>,
     <<"esc", "[", "A">>, <<"esc", "[", "2", "B">>, <<"esc", "[", "3", "C">>,
     <<"esc", "[", "D">>}

Tails ==
    IF Long THEN {<<>>, <<"tab", "x">>, <<"esc", "[", "33", "m", "x">>}
    ELSE {<<>>}

MCNumbers ==
    ("0" :> 0) @@ ("2" :> 2) @@ ("3" :> 3) @@ ("33" :> 33) @@ ("39" :> 39)
    @@ ("97" :> 97) @@ ("42" :> 42) @@ ("107" :> 107)

MCCursors == {<<0, 0>>, <<Columns - 2, Rows - 1>>}

MCStrings == {p \o q \o r : p, q \in Pieces, r \in Tails}
===========================================================================
