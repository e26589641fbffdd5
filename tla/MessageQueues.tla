---------------------------- MODULE MessageQueues ----------------------------
(***************************************************************************)
(* What message queues promise (os/msg.c): messages come in the order they *)
(* were sent, except that a type may be asked for; none is lost but with   *)
(* its queue, and the name of a queue that was removed is not used again.  *)
(***************************************************************************)
EXTENDS Integers, Sequences, SequencesExt

CONSTANTS
    Ids,        (* names of queues                                          *)
    Messages,   (* messages                                                 *)
    Asked       (* what a receiver may ask for                              *)

VARIABLES
    queues,     (* the messages of every queue there is                     *)
    gone        (* names of removed queues                                  *)

(* The indexes of the messages of q that a receiver may get: 0 asks for    *)
(* any, a positive number for that type, a negative one for types up to    *)
(* its absolute value, the lowest first.                                   *)
Eligible(q, typ) == {i \in DOMAIN q : \/ typ = 0
                                      \/ typ > 0 /\ q[i].type = typ
                                      \/ typ < 0 /\ q[i].type <= -typ}

Earlier(q, i, j, typ) == \/ typ < 0 /\ q[i].type < q[j].type
                         \/ (typ >= 0 \/ q[i].type = q[j].type) /\ i <= j

Init == queues = <<>> /\ gone = {}

Create(id) == /\ id \notin DOMAIN queues \cup gone
              /\ queues' = [i \in DOMAIN queues \cup {id} |-> IF i = id THEN <<>> ELSE queues[i]]
              /\ UNCHANGED gone

Destroy(id) == /\ queues' = [i \in DOMAIN queues \ {id} |-> queues[i]]
              /\ gone' = gone \cup {id}

Send(id, m) == queues' = [queues EXCEPT ![id] = Append(@, m)] /\ UNCHANGED gone

Receive(id, typ) ==
    \E i \in Eligible(queues[id], typ) :
        /\ \A j \in Eligible(queues[id], typ) : Earlier(queues[id], i, j, typ)
        /\ queues' = [queues EXCEPT ![id] = RemoveAt(@, i)]
        /\ UNCHANGED gone

Next == \/ \E id \in Ids : Create(id)
        \/ \E id \in DOMAIN queues : \/ Destroy(id)
                                     \/ \E m \in Messages : Send(id, m)
                                     \/ \E typ \in Asked : Receive(id, typ)

Spec == Init /\ [][Next]_<<queues, gone>>
=============================================================================
