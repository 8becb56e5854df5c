------------------------------ MODULE MCPaging ------------------------------
(* The bound for model checking Paging. *)
EXTENDS Paging

\* Once a client has a frame of the tables, what it and map_page can make of
\* memory is bounded: states in which a table holds anything but what it was
\* created with or filled with are checked, and not continued.
Bounded ==
  exposed => \A f \in Frames \ {DIRECTORY} : memory[f] \in Contents \cup {FirstTable}
=============================================================================
