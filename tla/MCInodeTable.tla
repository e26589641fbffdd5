---------------------------- MODULE MCInodeTable ----------------------------
(* Small instances of InodeTable. *)
EXTENDS InodeTable, TLC

CONSTANTS n1, n2

TheCall(o, n, m) == [op |-> o, name |-> n, new |-> m]
Plain(o, n) == TheCall(o, n, NoName)

OneFile == [n \in Name |-> IF n = n1 THEN 3 ELSE NoIno]
NoSpecial == {}
OneSpecial == {3}
NoBadBlocks == [iread |-> {}, ialloc |-> {}, iupdat |-> {}, wdir |-> {}]
BadDisk == [iread |-> {4}, ialloc |-> {4}, iupdat |-> {3}, wdir |-> {2}]

(* Three processes race over one name. *)
FileCalls == {Plain("open", n1), Plain("creat", n1), Plain("unlink", n1),
              Plain("close", n1), Plain("sync", n1)}

(* Links to a device, which is opened and closed while they come and go. *)
DeviceCalls == {Plain("open", n1), Plain("close", n1), TheCall("link", n1, n2),
                Plain("unlink", n2), Plain("pipe", n1)}

(* A link to a file that is being removed. *)
LinkCalls == {Plain("open", n1), Plain("unlink", n1), TheCall("link", n1, n2),
              Plain("close", n1)}

(* A pipe made while a file is opened and removed. *)
PipeCalls == {Plain("open", n1), Plain("unlink", n1), Plain("pipe", n1), Plain("close", n1)}

Symm == Permutations(Proc)
=============================================================================
