---------------------------- MODULE AddressSpace ----------------------------
(***************************************************************************)
(* What map_page and unmap_page promise: an address space is a map from    *)
(* virtual pages to physical addresses, and a call changes the page it     *)
(* names.                                                                  *)
(***************************************************************************)
CONSTANTS
  Unmapped,   \* what an unmapped page translates to
  First       \* the map the kernel starts with

VARIABLE space

Init == space = First

Map(v, p) == space' = [space EXCEPT ![v] = p]
Unmap(v) == space' = [space EXCEPT ![v] = Unmapped]
Keep == UNCHANGED space
=============================================================================
