----------------------------- MODULE MCConsole -----------------------------
(* Texts and the command table for model checking Console.  The user types *)
(* the letter c, code 99, and blanks.                                      *)
EXTENDS Console, TLC

\* Three commands, and "cccc" is not found.
MCCommands == (<<99>> :> "clear") @@ (<<99, 99>> :> "cd") @@ (<<99, 99, 99>> :> "print")

\* Nothing, an unfinished row, and more than a row, with a backspace and a tab.
MCOutputs == {<<>>, <<8, 120>>, <<120, 8, 10, 9, 120, 120, 120, 120, 120, 120, 10>>}

MCBootText == <<120, 120, 120, 120, 120, 120, 120, 10>>
MCNotFoundText == <<63, 63>>
=============================================================================
