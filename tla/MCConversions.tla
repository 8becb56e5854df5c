--------------------------- MODULE MCConversions ---------------------------
(***************************************************************************)
(* The conversions between what is stored and what is meant, in one run:   *)
(* the text algorithms on all small inputs, and the packed allocation      *)
(* table under all sequences of writes.  They share no variable, so each   *)
(* is explored with the other at rest in its initial state.                *)
(***************************************************************************)
EXTENDS Texts, Fat12

ConversionsInit == Init /\ FatInit

ConversionsNext ==
  \/ Next /\ FatInit /\ UNCHANGED fat_table
  \/ FatNext /\ Init /\ UNCHANGED vars

ConversionsSpec == ConversionsInit /\ [][ConversionsNext]_<<vars, fat_table>>
=============================================================================
