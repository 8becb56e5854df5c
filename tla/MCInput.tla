------------------------------ MODULE MCInput ------------------------------
(***************************************************************************)
(* The two halves of the keyboard's way into the kernel in one run:        *)
(* Interrupts brings a byte to its handler, Keyboard has the handler and   *)
(* the reader.  They share no variable, so each is explored with the other *)
(* at rest in its initial state.                                           *)
(***************************************************************************)
EXTENDS Interrupts, Keyboard

InputInit == IrqInit /\ Init

IrqPart(A) == Init /\ A /\ UNCHANGED vars
KeyboardPart(A) == IrqInit /\ A /\ UNCHANGED irqVars

InputNext == IrqPart(IrqNext) \/ KeyboardPart(Next)

(* The fairness of IrqSpec and of Spec. *)
InputSpec ==
  /\ InputInit /\ [][InputNext]_<<irqVars, vars>>
  /\ WF_irqVars(IrqPart(Boot)) /\ WF_irqVars(IrqPart(Deliver)) /\ WF_irqVars(IrqPart(Handlers))
  /\ WF_vars(KeyboardPart(Reader))
=============================================================================
