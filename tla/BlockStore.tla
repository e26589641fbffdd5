----------------------------- MODULE BlockStore -----------------------------
(***************************************************************************)
(* What the buffer cache of io/bio.c promises its callers: a block has one *)
(* current content, the last one written to it, and a copy of it that      *)
(* survives on the device.  A content goes to the device at some later     *)
(* time (delayed and asynchronous writes), and it is given up for the      *)
(* older content of the device only where a device may fail a write.       *)
(***************************************************************************)
CONSTANTS Block,     (* block addresses: device and block number            *)
          Value,     (* contents of a block                                 *)
          MayLose    (* whether a device may fail a write                   *)

VARIABLES content,   (* what a read of the block returns                    *)
          durable,   (* what the device holds                               *)
          held       (* the blocks that callers have taken to change them   *)

storeVars == <<content, durable, held>>

StoreInit ==
    /\ durable \in [Block -> Value]
    /\ content = durable
    /\ held = {}

(* A caller gets block k to change it; nobody else has it. *)
Take(k) ==
    /\ k \notin held
    /\ held' = held \cup {k}
    /\ UNCHANGED <<content, durable>>

(* He gives it back with the content v. *)
Write(k, v) ==
    /\ k \in held
    /\ content' = [content EXCEPT ![k] = v]
    /\ held' = held \ {k}
    /\ UNCHANGED durable

(* The device takes the content of block k. *)
Commit(k) ==
    /\ durable' = [durable EXCEPT ![k] = content[k]]
    /\ UNCHANGED <<content, held>>

(* The device refuses block k: its content is the one the device holds. *)
Lose(k) ==
    /\ MayLose
    /\ content' = [content EXCEPT ![k] = durable[k]]
    /\ UNCHANGED <<durable, held>>

StoreNext == \E k \in Block : \/ Take(k) \/ Commit(k) \/ Lose(k)
                              \/ \E v \in Value : Write(k, v)

StoreSpec == StoreInit /\ [][StoreNext]_storeVars
=============================================================================
