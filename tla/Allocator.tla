----------------------------- MODULE Allocator ------------------------------
(***************************************************************************)
(* What the VMM's memory services promise their callers, whatever lists    *)
(* they keep: memory is handed out in blocks that never overlap one in     *)
(* use, and only what was handed out comes back.  A block is a page, an    *)
(* offset in it and a length.                                              *)
(***************************************************************************)
EXTENDS Integers

CONSTANTS PoolPages, PageSize, Null

VARIABLES live, \* the blocks in use
          ret   \* what the last request was answered

Block == [page : PoolPages, off : 0..(PageSize - 1), len : 1..PageSize]
Bytes(b) == {<<b.page, o>> : o \in b.off..(b.off + b.len - 1)}

AInit == live = {} /\ ret = Null

Grant(b) ==
  /\ b.off + b.len <= PageSize
  /\ \A c \in live : Bytes(b) \cap Bytes(c) = {}
  /\ live' = live \cup {b} /\ ret' = b
Refuse == live' = live /\ ret' = Null
TakeBack(b) == b \in live /\ live' = live \ {b} /\ ret' = Null

ANext == Refuse \/ \E b \in Block : Grant(b) \/ TakeBack(b)
ASpec == AInit /\ [][ANext]_<<live, ret>>
=============================================================================
