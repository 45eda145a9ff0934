--------------------------- MODULE MCDependencies ---------------------------
(* Instance of Dependencies for TLC: names of which one begins the others,  *)
(* which part at the second letter.                                        *)
EXTENDS Dependencies

MCName == {<<"a">>, <<"a", "b">>, <<"a", "_">>}
MCNumber == {<<"1">>, <<"2">>}
=============================================================================
