---------------------------- MODULE MCFileSystem ----------------------------
(* Values of Paths for model checking FileCalls. *)
EXTENDS FileCalls

\* Two ordinary paths.
AAndB == {<<"/", "a">>, <<"/", "b">>}

\* "." and "..", and an ordinary path.
DotsAndA == {<<".">>, <<"..">>, <<"/", "a">>}
=============================================================================
