------------------------------ MODULE MCDebugger ------------------------------
(***************************************************************************)
(* Instances of Debugger for TLC.                                          *)
(***************************************************************************)
EXTENDS Debugger

Nop == 144

\* Plain code everywhere.
PlainCode == [c \in Cell |-> Nop]

\* Plain code, but for one int3 of the guest's own in the second process.
CodeWithInt3 == [c \in Cell |-> IF c = <<2, 1>> THEN BREAKPOINT_INSN ELSE Nop]

\* One cell that faults, is refused or is modified by the guest.
PagedCell   == {<<1, 1>>}
RefusedCell == {<<2, 1>>}
=============================================================================
