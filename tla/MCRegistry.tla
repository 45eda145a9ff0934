---------------------------- MODULE MCRegistry ----------------------------
(* Five package files on two devices: two of one package, two whose ids    *)
(* extend one another, one with an id that is not valid.                   *)
EXTENDS Registry

CONSTANTS foo, foobar, baz, baz2, bad, d1, d2, wfoo, wbar, wbaz, wbad, wapp, tool, game

MCFile == {foo, foobar, baz, baz2, bad}
MCDevice == {d1, d2}
MCWord == {wfoo, wbar, wbaz, wbad, wapp}
MCExecutable == {tool, game}

MCId == [f \in MCFile |->
  CASE f = foo -> <<wfoo>>
    [] f = foobar -> <<wfoo, wbar>>
    [] f \in {baz, baz2} -> <<wbaz>>
    [] f = bad -> <<wbad>>]

MCDeviceOf == [f \in MCFile |-> IF f \in {foo, baz} THEN d1 ELSE d2]

\* The launcher foo_bar_app belongs to foo or to foo_bar
MCLaunchers == [f \in MCFile |->
  IF f = foo THEN {<<wapp>>, <<wbar, wapp>>} ELSE {<<wapp>>}]

MCExecutables == [f \in MCFile |-> [n \in MCLaunchers[f] |->
  IF f \in {foo, baz} \/ n # <<wapp>> THEN {tool} ELSE {tool, game}]]

MCLegalId == {<<wfoo>>, <<wfoo, wbar>>, <<wbaz>>}
=============================================================================
