------------------------------ MODULE MCClient ------------------------------
(* Client with one hardware slot and two software ones, so that the tables *)
(* fill up, and one automatic name.                                        *)
(*                                                                         *)
(* A behaviour has one of two topics.  The session has, at a time, register*)
(* values at hand or events filtered, and the cr3 filter they are delayed  *)
(* by; a ^C races the stops of steps and events.  The breakpoints are used *)
(* from the console of one loop without a ^C that crosses a stop; what they*)
(* share with registers and events is pc and dr6, which are there in both. *)
(* Steps go with an empty list, and the second address without the filter  *)
(* and without an entry set twice.                                         *)
EXTENDS Client

MCHard == {[type |-> 2, addr |-> 1, size |-> 4]}
MCAutos == <<"1">>

VARIABLE topic

NoBreaks == list = [n \in Names |-> Free] /\ unread = {}
Session ==
  /\ NoBreaks
  /\ \/ handlers = {} /\ ~filter
     \/ ~cache["cr3"].rd /\ ~cache["pc"].wr /\ regs["cr3"] = 1
Crosses ==
  \/ at = "wait" /\ ~intr /\ intr' /\ Outstanding > 0
  \/ intr /\ intr' /\ lock # lock'
Console ==
  /\ handlers = {} /\ session = "dispatch" /\ ~request
  /\ ~cache["cr3"].rd /\ ~cache["pc"].wr /\ regs["cr3"] = 1

Second ==
  SoftAt(2) \in {soft[k] : k \in SoftSlot} \cup {list[n].break : n \in Names}
BreakSession ==
  /\ at = "gone" \/ from = "run" \/ Console
  /\ step => list = [n \in Names |-> Free]
  /\ Second => ~filter /\ \A n \in Names : list[n].count < 2

MCInit == Init /\ topic \in {"session", "breaks"}
MCNext ==
  /\ Next /\ topic' = topic
  /\ \/ topic = "session" /\ Session'
     \/ topic = "breaks" /\ BreakSession' /\ ~Crosses
MCSpec ==
  /\ MCInit /\ [][MCNext]_<<vars, topic>>
  /\ WF_vars(StubInt) /\ WF_vars(RecvStop) /\ WF_vars(Returns)
=============================================================================
