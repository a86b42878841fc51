----------------------------- MODULE MCHardBreak -----------------------------
(***************************************************************************)
(* Values of the constants of HardBreak for TLC.                           *)
(***************************************************************************)
EXTENDS HardBreak

\* The guest arms its first register for execution, sets general detect, or
\* clears all.
SomeDr7 ==
  { Dr7Off,
    [slot |-> [n \in Slot |-> IF n = 0 THEN "X" ELSE "off"], gd |-> FALSE],
    [slot |-> [n \in Slot |-> "off"], gd |-> TRUE] }

\* Two processes that leave the registers to the debugger, at one address, or
\* one process that uses them, at two: the filter is about who runs, and the
\* registers are the machine's, the same for every process.
OneProcess ==
  /\ cr3 = Space0 /\ filter = [on |-> FALSE, cr3 |-> Space0, keep |-> FALSE]
  /\ \A s \in Space \ {Space0} :
       rip[s] = Addr0 /\ rflags[s] = [tf |-> FALSE, rf |-> FALSE]
OneAddress ==
  /\ \A s \in Space : rip[s] = Addr0
  /\ own = Regs0 /\ dr = own.dr /\ shadow.dr = own.dr /\ evt.addr = Addr0
Apart == OneProcess \/ OneAddress
=============================================================================
