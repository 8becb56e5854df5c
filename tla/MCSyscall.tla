----------------------------- MODULE MCSyscall -----------------------------
(* The symmetry and the view for model checking Syscall. *)
EXTENDS Syscall, TLC

\* Stacks are only handed out and given back: they are interchangeable.
StackSymmetry == Permutations(Stacks)

\* No call looks at what the one before it returned: states that differ in
\* eax alone behave alike.
ManagerView == <<vars, syscall_table, syscall_count>>
=============================================================================
