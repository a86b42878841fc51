--------------------------- MODULE CtrlEventsProofs ---------------------------
(***************************************************************************)
(* Proofs about the controller: types, the exception bitmap for every      *)
(* client, and the sessions of an orderly client without a cr3 filter.     *)
(***************************************************************************)
EXTENDS CtrlEvents, TLAPS

-----------------------------------------------------------------------------
(***************************************************************************)
(* Type correctness.                                                       *)
(***************************************************************************)

\* Setting a Boolean field of the two-field records traps and stub.
LEMMA SetUp ==
  ASSUME NEW t \in [on : BOOLEAN, up : BOOLEAN], NEW b \in BOOLEAN
  PROVE  [t EXCEPT !.up = b] \in [on : BOOLEAN, up : BOOLEAN]
OBVIOUS

\* A client command keeps the types.
LEMMA ClientTypes == TypeOK /\ ClientCommand => TypeOK'
<1> SUFFICES ASSUME TypeOK, ClientCommand PROVE TypeOK'
    OBVIOUS
<1> USE CtrlEventsAssumption
<1>1. ASSUME NEW E \in SUBSET UsrVec, WrExcpMask(E) PROVE TypeOK'
  <2>1. usr' \in [excp : SUBSET UsrVec, crRd : SUBSET Cr, crWr : SUBSET Cr,
                  mask : SUBSET Kinds, cpuid : Leaf \cup {CTRL_CPUID_ALL}]
        BY <1>1 DEF WrExcpMask, TypeOK
  <2>2. bitmap' \subseteq Vec
        BY <1>1, <2>1 DEF WrExcpMask, TypeOK, ExceptionMask, Vec, RmodeExcp, PmodeExcp
  <2>3. UNCHANGED <<filter, dbgExcp, hole, dflt, traps, event, stub, cnt, link, run,
                    cr3, cpl>>
        BY <1>1 DEF WrExcpMask, guestVars
  <2> QED  BY <2>1, <2>2, <2>3 DEF TypeOK
<1>2. ASSUME NEW S \in SUBSET Cr, WrCrRdMask(S) \/ WrCrWrMask(S) PROVE TypeOK'
  <2>1. usr' \in [excp : SUBSET UsrVec, crRd : SUBSET Cr, crWr : SUBSET Cr,
                  mask : SUBSET Kinds, cpuid : Leaf \cup {CTRL_CPUID_ALL}]
        BY <1>2 DEF WrCrRdMask, WrCrWrMask, TypeOK
  <2>2. UNCHANGED <<filter, dbgExcp, hole, dflt, bitmap, traps, event, stub, cnt, link,
                    run, cr3, cpl>>
        BY <1>2 DEF WrCrRdMask, WrCrWrMask, guestVars
  <2> QED  BY <2>1, <2>2 DEF TypeOK
<1>3. ASSUME NEW M \in SUBSET Kinds, WrFilterMask(M) PROVE TypeOK'
  <2>1. usr' \in [excp : SUBSET UsrVec, crRd : SUBSET Cr, crWr : SUBSET Cr,
                  mask : SUBSET Kinds, cpuid : Leaf \cup {CTRL_CPUID_ALL}]
        BY <1>3 DEF WrFilterMask, TypeOK
  <2>2. UNCHANGED <<filter, dbgExcp, hole, dflt, bitmap, traps, event, stub, cnt, link,
                    run, cr3, cpl>>
        BY <1>3 DEF WrFilterMask, guestVars
  <2> QED  BY <2>1, <2>2 DEF TypeOK
<1>4. ASSUME NEW i \in Leaf \cup {CTRL_CPUID_ALL}, FilterCpuid(i) PROVE TypeOK'
  <2>1. usr' \in [excp : SUBSET UsrVec, crRd : SUBSET Cr, crWr : SUBSET Cr,
                  mask : SUBSET Kinds, cpuid : Leaf \cup {CTRL_CPUID_ALL}]
        BY <1>4 DEF FilterCpuid, TypeOK
  <2>2. UNCHANGED <<filter, dbgExcp, hole, dflt, bitmap, traps, event, stub, cnt, link,
                    run, cr3, cpl>>
        BY <1>4 DEF FilterCpuid, guestVars
  <2> QED  BY <2>1, <2>2 DEF TypeOK
<1>5. ASSUME NEW h \in BOOLEAN, SetMapping(h) PROVE TypeOK'
  <2>1. UNCHANGED <<filter, usr, dbgExcp, dflt, bitmap, traps, event, stub, cnt, link,
                    run, cr3, cpl>>
        BY <1>5 DEF SetMapping, guestVars
  <2>2. hole' \in BOOLEAN
        BY <1>5, Zenon DEF SetMapping
  <2> QED  BY <2>1, <2>2 DEF TypeOK
<1>6. ASSUME NEW X \in SUBSET DbgVec, SetTraps(X) PROVE TypeOK'
  <2>1. traps' \in [on : BOOLEAN, up : BOOLEAN]
    <3>1. PICK again \in BOOLEAN :
               traps' = [traps EXCEPT !.up = X # dbgExcp \/ again \/ traps.up]
          BY <1>6 DEF SetTraps
    <3> DEFINE b == X # dbgExcp \/ again \/ traps.up
    <3>2. b \in BOOLEAN
          OBVIOUS
    <3>3. traps' = [traps EXCEPT !.up = b]
          BY <3>1
    <3> HIDE DEF b
    <3> QED  BY <3>2, <3>3, SetUp DEF TypeOK
  <2>2. UNCHANGED <<filter, usr, hole, dflt, bitmap, event, stub, cnt, link, run,
                    cr3, cpl>> /\ dbgExcp' = X
        BY <1>6 DEF SetTraps, guestVars
  <2> QED  BY <2>1, <2>2 DEF TypeOK
<1>7. ASSUME NEW s \in Filters, SetFilter(s) PROVE TypeOK'
  <2>1. filter' \in [on : BOOLEAN, cr3 : Space, keep : BOOLEAN]
    <3> DEFINE k == ~filter.on /\ filter.keep
    <3>1. k \in BOOLEAN
          OBVIOUS
    <3>2. filter' = [on |-> TRUE, cr3 |-> s, keep |-> k]
          BY <1>7 DEF SetFilter
    <3> HIDE DEF k
    <3> QED  BY <3>1, <3>2
  <2>2. traps' \in [on : BOOLEAN, up : BOOLEAN]
        BY <1>7, SetUp DEF SetFilter, TypeOK
  <2>3. UNCHANGED <<usr, hole, dflt, bitmap, event, stub, cnt, link, run, cr3, cpl>>
        BY <1>7 DEF SetFilter, guestVars
  <2>4. dbgExcp' \subseteq DbgVec
        BY <1>7 DEF SetFilter, TypeOK
  <2> QED  BY <2>1, <2>2, <2>3, <2>4 DEF TypeOK
<1>8. ASSUME DelFilter PROVE TypeOK'
  <2>1. filter' \in [on : BOOLEAN, cr3 : Space, keep : BOOLEAN]
        BY <1>8 DEF DelFilter, TypeOK
  <2>2. traps' \in [on : BOOLEAN, up : BOOLEAN]
        BY <1>8, SetUp DEF DelFilter, TypeOK
  <2>3. UNCHANGED <<usr, hole, dflt, bitmap, event, stub, cnt, link, run, cr3, cpl>>
        BY <1>8 DEF DelFilter, guestVars
  <2>4. dbgExcp' \subseteq DbgVec
        BY <1>8 DEF DelFilter, TypeOK
  <2> QED  BY <2>1, <2>2, <2>3, <2>4 DEF TypeOK
<1>9. ASSUME KeepFilter PROVE TypeOK'
  <2>1. filter' \in [on : BOOLEAN, cr3 : Space, keep : BOOLEAN]
        BY <1>9 DEF KeepFilter, TypeOK
  <2>2. UNCHANGED <<usr, dbgExcp, hole, dflt, bitmap, traps, event, stub, cnt, link, run,
                    cr3, cpl>>
        BY <1>9 DEF KeepFilter, guestVars
  <2> QED  BY <2>1, <2>2 DEF TypeOK
<1>10. ASSUME NEW stp \in BOOLEAN, Resume(stp) PROVE TypeOK'
  <2>1. traps' \in [on : BOOLEAN, up : BOOLEAN]
    <3> DEFINE b == dbgExcp' # dbgExcp \/ traps.up
    <3>1. b \in BOOLEAN
          OBVIOUS
    <3>2. traps' = [traps EXCEPT !.up = b]
          BY <1>10 DEF Resume
    <3> HIDE DEF b
    <3> QED  BY <3>1, <3>2, SetUp DEF TypeOK
  <2>2. stub' \in [on : BOOLEAN, lock : BOOLEAN]
        BY <1>10 DEF Resume, TypeOK
  <2>3. UNCHANGED <<filter, usr, hole, dflt, bitmap, event, cnt, link, cr3, cpl>>
        BY <1>10 DEF Resume, guestVars
  <2>4. dbgExcp' \subseteq DbgVec /\ run' = "traps"
        BY <1>10 DEF Resume, TypeOK
  <2> QED  BY <2>1, <2>2, <2>3, <2>4 DEF TypeOK
<1>11. ASSUME Detach PROVE TypeOK'
  <2>1. filter' \in [on : BOOLEAN, cr3 : Space, keep : BOOLEAN]
        BY <1>11 DEF Detach, TypeOK
  <2>2. usr' \in [excp : SUBSET UsrVec, crRd : SUBSET Cr, crWr : SUBSET Cr,
                  mask : SUBSET Kinds, cpuid : Leaf \cup {CTRL_CPUID_ALL}]
        BY <1>11 DEF Detach, TypeOK
  <2>3. bitmap' \subseteq Vec
        BY <1>11, <2>2 DEF Detach, TypeOK, ExceptionMask, Vec, RmodeExcp, PmodeExcp
  <2>4. traps' \in [on : BOOLEAN, up : BOOLEAN]
        BY <1>11, SetUp DEF Detach, TypeOK
  <2>5. stub' \in [on : BOOLEAN, lock : BOOLEAN] /\ dbgExcp' = {} /\ run' = "traps"
        BY <1>11 DEF Detach
  <2>6. UNCHANGED <<hole, dflt, event, cnt, link, cr3, cpl>>
        BY <1>11 DEF Detach, guestVars
  <2> QED  BY <2>1, <2>2, <2>3, <2>4, <2>5, <2>6 DEF TypeOK
<1> QED  BY <1>1, <1>2, <1>3, <1>4, <1>5, <1>6, <1>7, <1>8, <1>9, <1>10, <1>11
         DEF ClientCommand

\* So does the controller, ...
LEMMA ControllerTypes == TypeOK /\ (Controller \/ ClientSends) => TypeOK'
<1> SUFFICES ASSUME TypeOK, Controller \/ ClientSends PROVE TypeOK'
    OBVIOUS
<1> USE CtrlEventsAssumption
<1>0. Space0 \in Space
      BY DEF Space0
<1>1. ASSUME DeliverEvent PROVE TypeOK'
  <2>1. stub' \in [on : BOOLEAN, lock : BOOLEAN]
        BY <1>1 DEF DeliverEvent, TypeOK
  <2>2. event' = "none" /\ run' \in {"poll", "traps"}
        BY <1>0, <1>1 DEF DeliverEvent, AfterEvent
  <2>3. UNCHANGED <<filter, usr, dbgExcp, hole, dflt, bitmap, traps, cnt, link, cr3, cpl>>
        BY <1>1 DEF DeliverEvent, usrVars, guestVars
  <2> QED  BY <2>1, <2>2, <2>3 DEF TypeOK
<1>2. ASSUME NoEvent \/ NothingRead PROVE TypeOK'
  <2>1. run' \in {"poll", "traps"}
        BY <1>2 DEF NoEvent, NothingRead, AfterEvent
  <2>2. UNCHANGED <<filter, usr, dbgExcp, hole, dflt, bitmap, traps, event, stub, cnt, link,
                    cr3, cpl>>
        BY <1>2 DEF NoEvent, NothingRead, usrVars, guestVars
  <2> QED  BY <2>1, <2>2 DEF TypeOK
<1>3. ASSUME ReadLink \/ ClientSends PROVE TypeOK'
  <2>1. stub' \in [on : BOOLEAN, lock : BOOLEAN]
    <3>1. stub' = stub \/ stub' = [on |-> TRUE, lock |-> TRUE]
          BY <1>3 DEF ReadLink, ClientSends
    <3>2. stub \in [on : BOOLEAN, lock : BOOLEAN]
          BY DEF TypeOK
    <3>3. [on |-> TRUE, lock |-> TRUE] \in [on : BOOLEAN, lock : BOOLEAN]
          OBVIOUS
    <3> QED  BY <3>1, <3>2, <3>3, Zenon
  <2>2. link' \in {"none", "ack", "int"}
        BY <1>3 DEF ReadLink, ClientSends
  <2>3. UNCHANGED <<filter, usr, dbgExcp, hole, dflt, bitmap, traps, event, cnt, run,
                    cr3, cpl>>
        BY <1>3 DEF ReadLink, ClientSends, usrVars, guestVars
  <2> QED  BY <2>1, <2>2, <2>3 DEF TypeOK
<1>4. ASSUME CtrlTraps PROVE TypeOK'
  <2>1. traps' \in [on : BOOLEAN, up : BOOLEAN]
    <3>1. \/ traps' = [on |-> TRUE, up |-> FALSE]
          \/ traps' = [on |-> FALSE, up |-> FALSE]
          \/ traps' = traps
          BY <1>4 DEF CtrlTraps
    <3>2. traps \in [on : BOOLEAN, up : BOOLEAN]
          BY DEF TypeOK
    <3>3. /\ [on |-> TRUE, up |-> FALSE] \in [on : BOOLEAN, up : BOOLEAN]
          /\ [on |-> FALSE, up |-> FALSE] \in [on : BOOLEAN, up : BOOLEAN]
          OBVIOUS
    <3> QED  BY <3>1, <3>2, <3>3, Zenon
  <2>2. bitmap' \subseteq Vec
        BY <1>4 DEF CtrlTraps, TypeOK, ExceptionMask, Vec, RmodeExcp, PmodeExcp
  <2>3. cnt' \in 0 .. Rate - 1
        BY <1>4 DEF CtrlTraps, TypeOK
  <2>4. UNCHANGED <<filter, usr, dbgExcp, hole, dflt, event, stub, link, cr3, cpl>>
        /\ run' = "guest"
        BY <1>4 DEF CtrlTraps, usrVars, guestVars
  <2> QED  BY <2>1, <2>2, <2>3, <2>4 DEF TypeOK
<1> QED  BY <1>1, <1>2, <1>3, <1>4 DEF Controller

\* ... and the guest.
LEMMA GuestTypes == TypeOK /\ (GuestExit \/ SwitchCpl) => TypeOK'
<1> SUFFICES ASSUME TypeOK, GuestExit \/ SwitchCpl PROVE TypeOK'
    OBVIOUS
<1> USE CtrlEventsAssumption
<1>1. ASSUME OtherExit \/ SwitchCpl PROVE TypeOK'
  <2>1. cpl' \in {0, 3} /\ run' \in {"guest", "exit"}
        BY <1>1 DEF OtherExit, SwitchCpl, TypeOK, guestVars
  <2>2. UNCHANGED <<filter, usr, dbgExcp, hole, dflt, bitmap, traps, event, stub, cnt, link,
                    cr3>>
        BY <1>1 DEF OtherExit, SwitchCpl, usrVars, guestVars
  <2> QED  BY <2>1, <2>2 DEF TypeOK
<1>2. ASSUME NEW v \in Vec, Exception(v) PROVE TypeOK'
  <2>1. event' \in EvtType \cup {"none"}
        BY <1>2 DEF Exception, Raise, RaiseIf, EvtType, TypeOK
  <2>2. dbgExcp' \subseteq DbgVec
        BY <1>2 DEF Exception, StepDone, TypeOK
  <2>3. traps' \in [on : BOOLEAN, up : BOOLEAN]
        BY <1>2, SetUp DEF Exception, StepDone, TypeOK
  <2>4. UNCHANGED <<filter, usr, hole, dflt, bitmap, stub, cnt, link, cr3, cpl>>
        /\ run' = "exit"
        BY <1>2 DEF Exception, guestVars
  <2> QED  BY <2>1, <2>2, <2>3, <2>4 DEF TypeOK
<1>3. ASSUME NEW n \in Cr, NEW s \in Space, NEW d \in {RmodeExcp, PmodeExcp},
             CrWrite(n, s, d)
      PROVE TypeOK'
  <2>1. cr3' \in Space
        BY <1>3 DEF CrWrite, TypeOK
  <2>2. dflt' \in {RmodeExcp, PmodeExcp} /\ bitmap' \subseteq Vec
        BY <1>3 DEF CrWrite, TypeOK, ExceptionMask, Vec, RmodeExcp, PmodeExcp
  <2>3. event' \in EvtType \cup {"none"}
        BY <1>3, <2>1 DEF CrWrite, Raise, RaiseIf, EvtType, TypeOK
  <2>4. UNCHANGED <<filter, usr, dbgExcp, hole, traps, stub, cnt, link, cpl>>
        /\ run' = "exit"
        BY <1>3 DEF CrWrite, usrVars
  <2> QED  BY <2>1, <2>2, <2>3, <2>4 DEF TypeOK
<1>4. ASSUME CrRead \/ Hypercall \/ Npf \/ \E i \in Leaf : Cpuid(i) PROVE TypeOK'
  <2>1. event' \in EvtType \cup {"none"}
        BY <1>4 DEF CrRead, Hypercall, Npf, Cpuid, Raise, RaiseIf, EvtType, TypeOK
  <2>2. run' \in {"exit", "failed"}
        BY <1>4 DEF CrRead, Hypercall, Npf, Cpuid
  <2>3. UNCHANGED <<filter, usr, dbgExcp, hole, dflt, bitmap, traps, stub, cnt, link,
                    cr3, cpl>>
        BY <1>4 DEF CrRead, Hypercall, Npf, Cpuid, usrVars, guestVars
  <2> QED  BY <2>1, <2>2, <2>3 DEF TypeOK
<1>5. ASSUME Suspend PROVE TypeOK'
  <2>1. event' \in EvtType \cup {"none"}
        BY <1>5 DEF Suspend, Raise, RaiseIf, EvtType, TypeOK
  <2>2. dflt' = RmodeExcp /\ bitmap' \subseteq Vec
        BY <1>5 DEF Suspend, TypeOK, ExceptionMask, Vec, RmodeExcp, PmodeExcp
  <2>3. UNCHANGED <<filter, usr, dbgExcp, hole, traps, stub, cnt, link, cr3, cpl>>
        /\ run' = "exit"
        BY <1>5 DEF Suspend, usrVars, guestVars
  <2> QED  BY <2>1, <2>2, <2>3 DEF TypeOK
<1> QED  BY <1>1, <1>2, <1>3, <1>4, <1>5 DEF GuestExit

\* A step that changes nothing keeps every state predicate used here.
LEMMA NothingChanges ==
  UNCHANGED vars => UNCHANGED <<filter, usr, dbgExcp, hole, dflt, bitmap, traps, event,
                                stub, cnt, link, run, cr3, cpl>>
BY DEF vars, usrVars, guestVars

\* The state of the controller keeps its types (vmm_ctrl_t, gdb_stub_t):
\* the counter of exits wraps at gdb_rate, the bitmap holds vectors only.
THEOREM EventsTypeCorrect == Spec => []TypeOK
<1>1. Init => TypeOK
  <2> SUFFICES ASSUME Init PROVE TypeOK
      OBVIOUS
  <2>1. Space0 \in Space
        BY CtrlEventsAssumption DEF Space0
  <2>2. filter \in [on : BOOLEAN, cr3 : Space, keep : BOOLEAN]
        BY <2>1 DEF Init
  <2>3. usr \in [excp : SUBSET UsrVec, crRd : SUBSET Cr, crWr : SUBSET Cr,
                 mask : SUBSET Kinds, cpuid : Leaf \cup {CTRL_CPUID_ALL}]
        BY DEF Init, NoUsr
  <2>4. traps \in [on : BOOLEAN, up : BOOLEAN] /\ stub \in [on : BOOLEAN, lock : BOOLEAN]
        BY DEF Init
  <2>5. cnt \in 0 .. Rate - 1
        BY CtrlEventsAssumption DEF Init
  <2>6. bitmap \subseteq Vec
        BY DEF Init, Vec
  <2>7. hole \in BOOLEAN
        BY DEF Init
  <2> QED  BY <2>1, <2>2, <2>3, <2>4, <2>5, <2>6, <2>7 DEF Init, TypeOK
<1>2. TypeOK /\ [Next]_vars => TypeOK'
  <2>1. TypeOK /\ UNCHANGED vars => TypeOK'
        BY NothingChanges DEF TypeOK
  <2> QED  BY <2>1, ClientTypes, ControllerTypes, GuestTypes DEF Next
<1> QED  BY <1>1, <1>2, PTL DEF Spec

-----------------------------------------------------------------------------
(***************************************************************************)
(* The exception bitmap.                                                   *)
(***************************************************************************)

\* Every privilege passes the check at privilege 0, so that the traps follow
\* the address space alone.
LEMMA ActiveAtZero == TypeOK => (ActiveAt(0) <=> (filter.on => cr3 = filter.cr3))
BY DEF TypeOK, ActiveAt

\* While the client commands, the bitmap is behind only if an update is due.
LEMMA ClientBitmap == TypeOK /\ BitmapInv /\ ClientCommand => BitmapInv'
<1> SUFFICES ASSUME TypeOK, BitmapInv, ClientCommand PROVE BitmapInv'
    OBVIOUS
<1> USE DEF ExceptionMask
<1>1. ASSUME NEW E \in SUBSET UsrVec, WrExcpMask(E) PROVE BitmapInv'
      BY <1>1 DEF WrExcpMask, Stopped, BitmapInv
<1>2. ASSUME UNCHANGED <<dflt, bitmap, traps, dbgExcp, run>>, usr'.excp = usr.excp,
             run # "guest"
      PROVE  BitmapInv'
      BY <1>2 DEF BitmapInv
<1>3. ASSUME NEW S \in SUBSET Cr, WrCrRdMask(S) \/ WrCrWrMask(S) PROVE BitmapInv'
      BY <1>2, <1>3 DEF WrCrRdMask, WrCrWrMask, Stopped, TypeOK
<1>4. ASSUME NEW M \in SUBSET Kinds, WrFilterMask(M) PROVE BitmapInv'
      BY <1>2, <1>4 DEF WrFilterMask, Stopped, TypeOK
<1>5. ASSUME NEW i \in Leaf \cup {CTRL_CPUID_ALL}, FilterCpuid(i) PROVE BitmapInv'
      BY <1>2, <1>5 DEF FilterCpuid, Stopped, TypeOK
<1>6. ASSUME (\E h \in BOOLEAN : SetMapping(h)) \/ KeepFilter PROVE BitmapInv'
      BY <1>2, <1>6 DEF SetMapping, KeepFilter, Stopped
<1>7. ASSUME UNCHANGED <<usr, dflt, bitmap>>, run' # "guest",
             traps'.up \/ (UNCHANGED <<traps, dbgExcp>>)
      PROVE  BitmapInv'
      BY <1>7 DEF BitmapInv
<1>8. ASSUME NEW X \in SUBSET DbgVec, SetTraps(X) PROVE BitmapInv'
  <2>1. UNCHANGED <<usr, dflt, bitmap>> /\ run' # "guest" /\ dbgExcp' = X
        BY <1>8 DEF SetTraps, Stopped
  <2>2. PICK again \in BOOLEAN :
             traps' = [traps EXCEPT !.up = X # dbgExcp \/ again \/ traps.up]
        BY <1>8 DEF SetTraps
  <2>3. traps \in [on : BOOLEAN, up : BOOLEAN]
        BY DEF TypeOK
  <2>4. traps'.on = traps.on /\ (traps'.up <=> X # dbgExcp \/ again \/ traps.up)
        BY <2>2, <2>3
  <2> QED  BY <2>1, <2>4 DEF BitmapInv
<1>9. ASSUME (\E s \in Filters : SetFilter(s)) \/ DelFilter PROVE BitmapInv'
      BY <1>7, <1>9 DEF SetFilter, DelFilter, Stopped, TypeOK
<1>10. ASSUME NEW stp \in BOOLEAN, Resume(stp) PROVE BitmapInv'
  <2>1. UNCHANGED <<usr, dflt, bitmap>> /\ run' # "guest"
        BY <1>10 DEF Resume
  <2>2. traps' = [traps EXCEPT !.up = dbgExcp' # dbgExcp \/ traps.up]
        BY <1>10 DEF Resume
  <2>3. traps \in [on : BOOLEAN, up : BOOLEAN]
        BY DEF TypeOK
  <2>4. traps'.on = traps.on /\ (traps'.up <=> dbgExcp' # dbgExcp \/ traps.up)
        BY <2>2, <2>3
  <2> QED  BY <2>1, <2>4 DEF BitmapInv
<1>11. ASSUME Detach PROVE BitmapInv'
  <2>1. traps'.up
        BY <1>11 DEF Detach, TypeOK
  <2>2. dflt' \subseteq bitmap' /\ run' # "guest"
        BY <1>11 DEF Detach
  <2> QED  BY <2>1, <2>2 DEF BitmapInv
<1> QED  BY <1>1, <1>3, <1>4, <1>5, <1>6, <1>8, <1>9, <1>10, <1>11 DEF ClientCommand

\* ctrl_traps brings it up to date before the guest runs again.
LEMMA ControllerBitmap == TypeOK /\ BitmapInv /\ (Controller \/ ClientSends) => BitmapInv'
<1> SUFFICES ASSUME TypeOK, BitmapInv, Controller \/ ClientSends PROVE BitmapInv'
    OBVIOUS
<1>1. ASSUME DeliverEvent \/ NoEvent \/ ReadLink \/ NothingRead PROVE BitmapInv'
  <2>1. UNCHANGED <<usr, dbgExcp, dflt, bitmap, traps>>
        BY <1>1 DEF DeliverEvent, NoEvent, ReadLink, NothingRead, usrVars
  <2>2. run' # "guest"
        BY <1>1 DEF DeliverEvent, NoEvent, ReadLink, NothingRead, AfterEvent
  <2> QED  BY <2>1, <2>2 DEF BitmapInv, ExceptionMask
<1>2. ASSUME ClientSends PROVE BitmapInv'
  <2>1. UNCHANGED <<filter, usr, dbgExcp, dflt, bitmap, traps, run, cr3, cpl>>
        BY <1>2 DEF ClientSends, usrVars, guestVars
  <2> QED  BY <2>1 DEF BitmapInv, ExceptionMask, ActiveAt
<1>3. ASSUME CtrlTraps PROVE BitmapInv'
  <2> DEFINE all == ExceptionMask(usr, dflt, dbgExcp)
  <2>1. UNCHANGED <<filter, usr, dbgExcp, dflt, cr3, cpl>>
        BY <1>3 DEF CtrlTraps, usrVars, guestVars
  <2>2. ActiveAt(0)' <=> ActiveAt(0)
        BY <2>1 DEF ActiveAt
  <2>3. ExceptionMask(usr, dflt, dbgExcp)' = all
        BY <2>1 DEF ExceptionMask
  <2>4. dflt \subseteq all
        BY DEF ExceptionMask
  <2>5. CASE ActiveAt(0) /\ (~traps.on \/ traps.up)
    <3>1. bitmap' = all /\ ~traps'.up
          BY <1>3, <2>5 DEF CtrlTraps
    <3> QED  BY <2>1, <2>3, <2>4, <3>1 DEF BitmapInv
  <2>6. CASE ~ActiveAt(0) /\ (traps.on \/ traps.up)
    <3>1. bitmap' = dflt /\ ~traps'.up /\ ~traps'.on
          BY <1>3, <2>6 DEF CtrlTraps
    <3> QED  BY <2>1, <2>2, <2>3, <2>4, <2>6, <3>1 DEF BitmapInv
  <2>7. CASE ActiveAt(0) /\ traps.on /\ ~traps.up
    <3>1. UNCHANGED <<bitmap, traps>>
          BY <1>3, <2>7 DEF CtrlTraps
    <3> QED  BY <2>1, <2>3, <2>7, <3>1 DEF BitmapInv
  <2>8. CASE ~ActiveAt(0) /\ ~traps.on /\ ~traps.up
    <3>1. UNCHANGED <<bitmap, traps>>
          BY <1>3, <2>8 DEF CtrlTraps
    <3> QED  BY <2>1, <2>2, <2>3, <2>8, <3>1 DEF BitmapInv
  <2> QED  BY <2>5, <2>6, <2>7, <2>8
<1> QED  BY <1>1, <1>2, <1>3 DEF Controller

\* The guest's exits change what is needed only with an update due, or with
\* the bitmap written at once.
LEMMA GuestBitmap == TypeOK /\ BitmapInv /\ (GuestExit \/ SwitchCpl) => BitmapInv'
<1> SUFFICES ASSUME TypeOK, BitmapInv, GuestExit \/ SwitchCpl PROVE BitmapInv'
    OBVIOUS
<1>1. ASSUME UNCHANGED <<usr, dbgExcp, dflt, bitmap, traps>>, run' # "guest"
      PROVE  BitmapInv'
      BY <1>1 DEF BitmapInv, ExceptionMask
<1>2. ASSUME OtherExit \/ CrRead \/ Hypercall \/ Npf \/ \E i \in Leaf : Cpuid(i)
      PROVE  BitmapInv'
      BY <1>1, <1>2 DEF OtherExit, CrRead, Hypercall, Npf, Cpuid, usrVars
<1>3. ASSUME SwitchCpl PROVE BitmapInv'
  <2>1. UNCHANGED <<filter, usr, dbgExcp, dflt, bitmap, traps, run, cr3>>
        BY <1>3 DEF SwitchCpl, usrVars
  <2>2. ActiveAt(0)' => ActiveAt(0)
        BY <2>1, ActiveAtZero DEF ActiveAt
  <2>3. ExceptionMask(usr, dflt, dbgExcp)' = ExceptionMask(usr, dflt, dbgExcp)
        BY <2>1 DEF ExceptionMask
  <2> QED  BY <2>1, <2>2, <2>3 DEF BitmapInv
<1>4. ASSUME NEW v \in Vec, Exception(v) PROVE BitmapInv'
  <2>1. UNCHANGED <<usr, dflt, bitmap>> /\ run' = "exit"
        BY <1>4 DEF Exception
  <2>2. traps'.up \/ UNCHANGED <<dbgExcp, traps>>
        BY <1>4 DEF Exception, StepDone, TypeOK
  <2> QED  BY <2>1, <2>2 DEF BitmapInv, ExceptionMask
<1>5. ASSUME NEW n \in Cr, NEW s \in Space, NEW d \in {RmodeExcp, PmodeExcp},
             CrWrite(n, s, d)
      PROVE BitmapInv'
  <2>1. UNCHANGED <<usr, dbgExcp, traps>> /\ run' = "exit"
        BY <1>5 DEF CrWrite, usrVars
  <2>2. UNCHANGED <<dflt, bitmap>> \/ bitmap' = ExceptionMask(usr, dflt', dbgExcp)
        BY <1>5 DEF CrWrite
  <2> QED  BY <2>1, <2>2 DEF BitmapInv, ExceptionMask
<1>6. ASSUME Suspend PROVE BitmapInv'
  <2>1. UNCHANGED <<usr, dbgExcp, traps>> /\ run' = "exit"
        BY <1>6 DEF Suspend, usrVars
  <2>2. UNCHANGED <<dflt, bitmap>> \/ bitmap' = ExceptionMask(usr, dflt', dbgExcp)
        BY <1>6 DEF Suspend
  <2> QED  BY <2>1, <2>2 DEF BitmapInv, ExceptionMask
<1> QED  BY <1>2, <1>3, <1>4, <1>5, <1>6 DEF GuestExit

\* The guest runs with the exceptions intercepted that the VMM, the client
\* and the debugger ask for, and no others, whatever the order in which
\* masks, cr3 filter, breakpoints and modes change
\* (__update_exception_mask, ctrl_traps).
THEOREM BitmapSafe == Spec => []BitmapAsAsked
<1>1. Init => BitmapInv
      BY DEF Init, BitmapInv, ExceptionMask, NoUsr
<1>2. TypeOK /\ BitmapInv /\ [Next]_vars => BitmapInv'
  <2>1. BitmapInv /\ UNCHANGED vars => BitmapInv'
        BY NothingChanges DEF BitmapInv, ExceptionMask, ActiveAt
  <2> QED  BY <2>1, ClientBitmap, ControllerBitmap, GuestBitmap DEF Next
<1>3. BitmapInv => BitmapAsAsked
      BY DEF BitmapInv, BitmapAsAsked
<1> QED  BY <1>1, <1>2, <1>3, EventsTypeCorrect, PTL DEF Spec

-----------------------------------------------------------------------------
(***************************************************************************)
(* Sessions of an orderly client.                                          *)
(***************************************************************************)

\* Without a filter every check lets the event by.
LEMMA UnfilteredActive == ~filter.on => ActiveAt(3)
BY DEF ActiveAt

\* Commands are taken in a session and with no event pending; only detach
\* ends the session.
LEMMA ClientSession ==
  TypeOK /\ Orderly /\ SessionInv /\ ClientCommand => SessionInv'
<1> SUFFICES ASSUME TypeOK, Orderly, SessionInv, ClientCommand PROVE SessionInv'
    OBVIOUS
<1>1. run = "poll" /\ stub.on
      BY DEF ClientCommand, Stopped, WrExcpMask, WrCrRdMask, WrCrWrMask, WrFilterMask,
             FilterCpuid, SetMapping, SetTraps, SetFilter, DelFilter, KeepFilter, Resume,
             Detach
<1>2. event = "none" /\ ~filter.on
      BY <1>1 DEF SessionInv
<1>3. ASSUME ~filter'.on, stub'.on, event' = event, run' # "exit" PROVE SessionInv'
      BY <1>2, <1>3 DEF SessionInv
<1>4. ASSUME \/ \E E \in SUBSET UsrVec : WrExcpMask(E)
             \/ \E S \in SUBSET Cr : WrCrRdMask(S) \/ WrCrWrMask(S)
             \/ \E M \in SUBSET Kinds : WrFilterMask(M)
             \/ \E i \in Leaf \cup {CTRL_CPUID_ALL} : FilterCpuid(i)
             \/ \E h \in BOOLEAN : SetMapping(h)
             \/ \E X \in SUBSET DbgVec : SetTraps(X)
      PROVE  SessionInv'
  <2>1. UNCHANGED <<filter, stub, event, run>>
        BY <1>4 DEF WrExcpMask, WrCrRdMask, WrCrWrMask, WrFilterMask, FilterCpuid,
                    SetMapping, SetTraps
  <2> QED  BY <1>1, <1>2, <1>3, <2>1
<1>5. ~ \E s \in Filters : SetFilter(s)
      BY DEF Orderly
<1>6. ~ KeepFilter
      BY <1>2 DEF KeepFilter
<1>7. ASSUME DelFilter PROVE SessionInv'
  <2>1. UNCHANGED <<stub, event, run>> /\ ~filter'.on
        BY <1>7 DEF DelFilter, TypeOK
  <2> QED  BY <1>1, <1>3, <2>1
<1>8. ASSUME NEW stp \in BOOLEAN, Resume(stp) PROVE SessionInv'
  <2>1. UNCHANGED <<filter, event>> /\ run' = "traps" /\ stub'.on = stub.on
        BY <1>8 DEF Resume, TypeOK
  <2> QED  BY <1>1, <1>2, <1>3, <2>1
<1>9. ASSUME Detach PROVE SessionInv'
  <2>1. ~filter'.on
        BY <1>2, <1>9 DEF Detach, TypeOK
  <2>2. event' = "none" /\ run' = "traps" /\ ~stub'.on /\ ~stub'.lock /\ dbgExcp' = {}
        BY <1>2, <1>9 DEF Detach
  <2>3. usr'.excp = {} /\ usr'.crRd = {} /\ usr'.crWr = {} /\ usr'.mask = {}
        BY <1>9 DEF Detach, Orderly, TypeOK
  <2> QED  BY <2>1, <2>2, <2>3 DEF SessionInv
<1> QED  BY <1>4, <1>5, <1>6, <1>7, <1>8, <1>9 DEF ClientCommand

\* The event goes before the stub is polled; a report needs a session.
LEMMA ControllerSession ==
  TypeOK /\ SessionInv /\ (Controller \/ ClientSends) => SessionInv'
<1> SUFFICES ASSUME TypeOK, SessionInv, Controller \/ ClientSends PROVE SessionInv'
    OBVIOUS
<1>1. UNCHANGED <<filter, usr, dbgExcp>>
      BY DEF Controller, ClientSends, DeliverEvent, NoEvent, ReadLink, NothingRead,
             CtrlTraps, usrVars
<1>2. ASSUME DeliverEvent PROVE SessionInv'
  <2>1. stub.on /\ stub'.on
        BY <1>2 DEF DeliverEvent, SessionInv, TypeOK
  <2>2. event' = "none"
        BY <1>2 DEF DeliverEvent
  <2> QED  BY <1>1, <2>1, <2>2 DEF SessionInv
<1>3. ASSUME NoEvent PROVE SessionInv'
  <2>1. event = "none" /\ event' = "none" /\ UNCHANGED stub
        BY <1>3, UnfilteredActive DEF NoEvent, SessionInv
  <2> QED  BY <1>1, <2>1 DEF SessionInv
<1>4. ASSUME ReadLink PROVE SessionInv'
  <2>1. stub'.on /\ event' = "none"
        BY <1>4 DEF ReadLink, SessionInv
  <2> QED  BY <1>1, <2>1 DEF SessionInv
<1>5. ASSUME NothingRead \/ CtrlTraps PROVE SessionInv'
  <2>1. event' = "none" /\ UNCHANGED stub
        BY <1>5 DEF NothingRead, CtrlTraps, SessionInv
  <2> QED  BY <1>1, <2>1 DEF SessionInv
<1>6. ASSUME ClientSends PROVE SessionInv'
  <2>1. UNCHANGED <<event, stub, run>>
        BY <1>6 DEF ClientSends
  <2> QED  BY <1>1, <2>1 DEF SessionInv, Wanted
<1> QED  BY <1>2, <1>3, <1>4, <1>5, <1>6 DEF Controller

\* An exit raises an event only for something the client or the debugger
\* asked for, which makes it an exit during a session.
LEMMA GuestSession ==
  TypeOK /\ SessionInv /\ (GuestExit \/ SwitchCpl) => SessionInv'
<1> SUFFICES ASSUME TypeOK, SessionInv, GuestExit \/ SwitchCpl PROVE SessionInv'
    OBVIOUS
<1>1. UNCHANGED <<filter, usr, stub>> /\ run = "guest"
      BY DEF GuestExit, OtherExit, Exception, CrWrite, CrRead, Cpuid, Hypercall, Npf,
             Suspend, SwitchCpl, usrVars
<1>2. event = "none"
      BY <1>1 DEF SessionInv
<1>3. dbgExcp' \subseteq dbgExcp
      BY DEF GuestExit, OtherExit, Exception, StepDone, CrWrite, CrRead, Cpuid, Hypercall,
             Npf, Suspend, SwitchCpl, usrVars
<1>4. ASSUME event' = "none" PROVE SessionInv'
      BY <1>1, <1>3, <1>4 DEF SessionInv
<1>5. ASSUME event' # "none", run' \in {"exit", "failed"}, stub.on, Wanted(event')
      PROVE SessionInv'
  <2>1. Wanted(event)'
        BY <1>1, <1>5 DEF Wanted
  <2> QED  BY <1>1, <1>5, <2>1 DEF SessionInv
<1>6. ASSUME OtherExit \/ SwitchCpl PROVE SessionInv'
      BY <1>2, <1>4, <1>6 DEF OtherExit, SwitchCpl
<1>7. ASSUME NEW v \in Vec, Exception(v) PROVE SessionInv'
  <2>1. CASE event' = "EXCP" /\ v \in usr.excp
        BY <1>5, <1>7, <2>1 DEF Exception, Wanted, SessionInv
  <2>2. CASE event' \in {"BRK", "SSTEP"} /\ v \in dbgExcp
        BY <1>5, <1>7, <2>2 DEF Exception, Wanted, SessionInv
  <2>3. CASE event' = event
        BY <1>2, <1>4, <2>3
  <2> QED  BY <1>7, <2>1, <2>2, <2>3 DEF Exception, Raise, RaiseIf
<1>8. ASSUME NEW n \in Cr, NEW s \in Space, NEW d \in {RmodeExcp, PmodeExcp},
             CrWrite(n, s, d)
      PROVE SessionInv'
  <2>1. CASE n \in usr.crWr
        BY <1>5, <1>8, <2>1 DEF CrWrite, Raise, RaiseIf, Wanted, SessionInv
  <2>2. CASE n \notin usr.crWr
        BY <1>2, <1>4, <1>8, <2>2 DEF CrWrite, Raise, RaiseIf
  <2> QED  BY <2>1, <2>2
<1>9. ASSUME CrRead PROVE SessionInv'
      BY <1>5, <1>9 DEF CrRead, Raise, Wanted, SessionInv
<1>10. ASSUME NEW t \in {"NPF", "HYP", "CPUID", "S3"}, t \in usr.mask, event' = t,
              run' \in {"exit", "failed"}
       PROVE  SessionInv'
  <2>1. Wanted(event')
        BY <1>10 DEF Wanted
  <2>2. stub.on
        BY <1>10 DEF SessionInv
  <2> QED  BY <1>5, <1>10, <2>1, <2>2
<1>11. ASSUME Hypercall \/ Npf \/ Suspend \/ \E i \in Leaf : Cpuid(i) PROVE SessionInv'
  <2>1. \/ event' = event
        \/ \E t \in {"NPF", "HYP", "CPUID", "S3"} : t \in usr.mask /\ event' = t
        BY <1>11 DEF Hypercall, Npf, Suspend, Cpuid, RaiseIf, Raise
  <2>2. run' \in {"exit", "failed"}
        BY <1>11 DEF Hypercall, Npf, Suspend, Cpuid
  <2> QED  BY <1>2, <1>4, <1>10, <2>1, <2>2
<1> QED  BY <1>6, <1>7, <1>8, <1>9, <1>11 DEF GuestExit

\* With an orderly client and no cr3 filter no event outlives its exit, and
\* between sessions nothing is asked for (gdb_disable, CPU._quit).
THEOREM SessionInvariant == Orderly => (Spec => []SessionInv)
<1> SUFFICES ASSUME Orderly PROVE Spec => []SessionInv
    OBVIOUS
<1>1. Init => SessionInv
      BY DEF Init, SessionInv, NoUsr
<1>2. TypeOK /\ SessionInv /\ [Next]_vars => SessionInv'
  <2>1. SessionInv /\ UNCHANGED vars => SessionInv'
        BY NothingChanges DEF SessionInv, Wanted
  <2> QED  BY <2>1, ClientSession, ControllerSession, GuestSession DEF Next
<1> QED  BY <1>1, <1>2, EventsTypeCorrect, PTL DEF Spec

\* The VM never stands still for a client that left (gdb_disable).
THEOREM DetachedRuns == Orderly => (Spec => []DetachedUnlocked)
<1> SUFFICES ASSUME Orderly PROVE Spec => []DetachedUnlocked
    OBVIOUS
<1>1. SessionInv => DetachedUnlocked
      BY DEF SessionInv, DetachedUnlocked
<1> QED  BY <1>1, SessionInvariant, PTL

\* A reported stop is one the client asks for (ctrl_event).
THEOREM StopsAsked == Orderly => (Spec => StopsWanted)
<1> SUFFICES ASSUME Orderly PROVE Spec => StopsWanted
    OBVIOUS
<1>1. SessionInv /\ [Next]_vars => [DeliverEvent => Wanted(event)]_vars
      BY DEF SessionInv, DeliverEvent
<1> QED  BY <1>1, SessionInvariant, PTL DEF Spec, StopsWanted
=============================================================================
