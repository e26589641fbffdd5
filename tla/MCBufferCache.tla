---------------------------- MODULE MCBufferCache ----------------------------
(* Small instances of BufferCache. *)
EXTENDS BufferCache, TLC

CONSTANTS k1, k2, k3, d1, d2

OneDevice == [k \in Block |-> d1]
TwoDevices == [k \in Block |-> IF k = k1 THEN d1 ELSE d2]

TheCall(o, k, s, h) == [op |-> o, blk |-> k, second |-> s, how |-> h]

Plain(o, k) == TheCall(o, k, NoBlock, "bwrite")

(* The block bmap() allocates under an indirect block, and transfers that fail. *)
FailingCalls ==
    {TheCall("breada", k1, k2, "bwrite"), TheCall("pair", k1, k2, "bdwrite"),
     TheCall("write", k2, NoBlock, "bawrite"), TheCall("write", k2, NoBlock, "bwrite"),
     Plain("bdflush", k1)}

WindowCalls == {TheCall("breada", k1, k2, "bwrite"), Plain("read", k2)}

(* A last close of the device of k1, shutdown and the flusher, against      *)
(* read-ahead and writers that leave every free buffer dirty.               *)
CloseCalls ==
    {TheCall("write", k1, NoBlock, "bdwrite"), TheCall("modify", k2, NoBlock, "bdwrite"),
     TheCall("breada", k2, k3, "bwrite"), Plain("read", k3),
     Plain("umount", k1), Plain("shutdown", k1), Plain("bdflush", k1),
     Plain("update", k1), Plain("eblk", k1)}

(* Processes that wait for a buffer, for the free list and for the writes. *)
LiveCalls ==
    {TheCall("modify", k1, NoBlock, "bdwrite"), TheCall("write", k2, NoBlock, "bawrite"),
     TheCall("breada", k3, k2, "bwrite"), Plain("shutdown", k1)}

Symm == Permutations(Buf) \cup Permutations(Proc) \cup Permutations(Value)
=============================================================================
