------------------------------ MODULE SoftBreak ------------------------------
(***************************************************************************)
(* The table of software breakpoints of the VMM (vmm/src/control/          *)
(* dbg_soft.c): a fixed array of slots, each of which stands for one int3  *)
(* opcode (0xcc) that the VMM writes over a byte of guest code, and the    *)
(* byte it has saved.                                                      *)
(*                                                                         *)
(* Every service of dbg_soft.c is one visit of the slots in index order    *)
(* (dbg_soft_for_each) whose handler reads or writes one guest byte per    *)
(* slot.  The operators below give the table and the guest memory after    *)
(* such a visit, as functions of the ones before it; the state machine     *)
(* that calls them is Debugger.                                            *)
(*                                                                         *)
(* A guest byte is named by its cell, <<cr3, address>>.  `acc[c]' is what  *)
(* a one byte access of the VMM to cell c returns.                         *)
(***************************************************************************)
EXTENDS Naturals

CONSTANTS
  Space,       \* the address spaces of the guest (values of cr3)
  Addr,        \* the code addresses under study, in every address space
  DBG_SOFT_NR, \* number of slots of the table (1024 in the code)
  Byte         \* the opcode bytes that may be found in memory

BREAKPOINT_INSN == 204          \* 0xcc
ClearByte       == 0            \* contents of a slot never written to

Slot == 0 .. DBG_SOFT_NR - 1
Cell == Space \X Addr

\* What ctrl_vmem_{read,write}_with returns: done, the page is not present,
\* or the page tables cannot be walked / the byte belongs to the VMM.
AccessCode == {"DONE", "PARTIAL", "FAIL"}

ASSUME SoftBreakAssumption ==
  /\ DBG_SOFT_NR \in Nat \ {0}
  /\ Byte \subseteq 0 .. 255
  /\ {BREAKPOINT_INSN, ClearByte} \subseteq Byte
  /\ Space # {} /\ Addr # {}

\* One dbg_soft_bp_t: on = "still active", st = "installed (0xcc)".
Bp == [on : BOOLEAN, st : BOOLEAN, addr : Addr, byte : Byte, cr3 : Space]

FreeBp == [on   |-> FALSE,      st  |-> FALSE,
           addr |-> CHOOSE a \in Addr : TRUE,
           byte |-> ClearByte,  cr3 |-> CHOOSE s \in Space : TRUE]

CellOf(b) == <<b.cr3, b.addr>>

-----------------------------------------------------------------------------
(***************************************************************************)
(* Visits that write guest memory.  S is the set of slots a visit selects; *)
(* the visit stops after the first selected slot whose access returns      *)
(* VM_FAIL, and leaves the slots it could not write untouched.             *)
(***************************************************************************)
Reached(bp, acc, S) ==
  {i \in S : \A j \in S : j < i => acc[CellOf(bp[j])] # "FAIL"}

Written(bp, acc, S) ==
  {i \in Reached(bp, acc, S) : acc[CellOf(bp[i])] = "DONE"}

Failed(bp, acc, S) == \E i \in S : acc[CellOf(bp[i])] = "FAIL"

\* __dbg_soft_restore_bp on the slots of W: the trap byte is written.
TrapBytes(bp, mem, W) ==
  [c \in Cell |-> IF \E i \in W : CellOf(bp[i]) = c
                    THEN BREAKPOINT_INSN ELSE mem[c]]

\* __dbg_soft_restore_insn on the slots of W: the saved bytes are written
\* back, in slot order, so that the last slot of a cell decides.
SavedBytes(bp, mem, W) ==
  [c \in Cell |->
     LET Of == {i \in W : CellOf(bp[i]) = c}
     IN  IF Of = {} THEN mem[c]
         ELSE bp[CHOOSE i \in Of : \A j \in Of : j <= i].byte]

SetSt(bp, W, st) ==
  [i \in Slot |-> IF i \in W THEN [bp[i] EXCEPT !.st = st] ELSE bp[i]]

-----------------------------------------------------------------------------
(***************************************************************************)
(* dbg_soft_rearm: write the trap byte of every active slot that has none. *)
(* While a breakpoint is being stepped over (rs), the slots at its address *)
(* are skipped.                                                            *)
(***************************************************************************)
RearmSet_AnySlot(bp, rs, at) ==   \* mutant: released slots are rearmed too
  {i \in Slot : ~bp[i].st /\ ~(rs /\ bp[i].addr = at)}

RearmSet(bp, rs, at) ==
  {i \in Slot : bp[i].on /\ ~bp[i].st /\ ~(rs /\ bp[i].addr = at)}

\* dbg_soft_disarm: give the guest its own byte back in every trapped slot.
DisarmSet(bp) == {i \in Slot : bp[i].on /\ bp[i].st}

(***************************************************************************)
(* dbg_soft_del_all: every active slot is released and its byte restored.  *)
(* __dbg_soft_del_bp tests a return code that is never 0, hence never      *)
(* reports the failure and the visit goes to the end.                      *)
(***************************************************************************)
ActiveSet(bp) == {i \in Slot : bp[i].on}

Restorable(bp, acc, S) == {i \in S : acc[CellOf(bp[i])] = "DONE"}

Release_KeepsSt(bp, acc, S) ==    \* mutant: a released slot stays installed
  [i \in Slot |-> IF i \in S THEN [bp[i] EXCEPT !.on = FALSE] ELSE bp[i]]

Release(bp, acc, S) ==
  [i \in Slot |->
     IF i \notin S THEN bp[i]
     ELSE [bp[i] EXCEPT !.on = FALSE,
                        !.st = IF acc[CellOf(bp[i])] = "DONE"
                                 THEN FALSE ELSE bp[i].st]]

-----------------------------------------------------------------------------
(***************************************************************************)
(* dbg_soft_set_bp under dbg_soft_for_each(DONE|FAIL).  A slot accepts the *)
(* address when it is free or already active for that address; an active   *)
(* one ends the visit, a free one is claimed first and then its guest byte *)
(* read.  The visit goes on to the next accepting slot when the page is    *)
(* absent, which leaves the claimed slot active.                           *)
(***************************************************************************)
Accepting(bp, a) == {i \in Slot : bp[i].on => bp[i].addr = a}

\* the slots claimed by dbg_soft_set(a) when the access code is rc
Claimed(bp, a, rc) ==
  {i \in Slot :
     /\ ~bp[i].on
     /\ \A j \in Accepting(bp, a) :
          j < i => rc = "PARTIAL" /\ ~bp[j].on}

\* the slot dbg_soft_set(a) returns VM_DONE with
Installed(bp, a, rc) ==
  {i \in Accepting(bp, a) :
     /\ bp[i].on \/ rc = "DONE"
     /\ \A j \in Accepting(bp, a) : j < i => ~bp[j].on /\ rc = "PARTIAL"}

Claim(bp, mem, a, s, rc) ==
  [i \in Slot |->
     IF i \notin Claimed(bp, a, rc) THEN bp[i]
     ELSE [bp[i] EXCEPT !.on = TRUE, !.addr = a, !.cr3 = s,
                        !.byte = IF rc = "DONE" THEN mem[<<s, a>>]
                                 ELSE bp[i].byte]]

\* dbg_soft_del_bp: the first active slot of that address.
FirstAt(bp, a) ==
  {i \in Slot : /\ bp[i].on /\ bp[i].addr = a
                /\ \A j \in Slot : j < i => ~(bp[j].on /\ bp[j].addr = a)}
=============================================================================
