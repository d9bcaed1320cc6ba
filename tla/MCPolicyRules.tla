---------------------------- MODULE MCPolicyRules ----------------------------
(***************************************************************************)
(* A small instance of PolicyRules.                                        *)
(***************************************************************************)
EXTENDS PolicyRules

ThreeStrings == {1, 2, 3}

\* Nil, empty, and slices of two and three strings that are sorted, reversed,
\* rotated or repeat a string.
MCSlices ==
    {NilSlice, <<>>, <<2, 1>>, <<1, 2, 3>>, <<3, 2, 1>>, <<2, 3, 1>>,
     <<2, 1, 2>>, <<1, 2, 1>>}
=============================================================================
