------------------------ MODULE IdempotentAdmission -------------------------
(***************************************************************************)
(* What the triggers promise together.  A key, of a workflow and an        *)
(* idempotency key, is accepted at most once, by a client or a scheduler.  *)
(* Every answer refuses its request or names the execution of its key; one *)
(* answer at most says that it is new, the others that they are replays.   *)
(* An accepted execution is published later, never without having been     *)
(* accepted.                                                               *)
(***************************************************************************)
EXTENDS Naturals, Sequences

VARIABLES
    accepted,   \* the keys of the executions, in order
    replies,    \* [key, execution, replayed], in order; execution 0 is none
    published   \* executions that have been handed on

Init == accepted = <<>> /\ replies = <<>> /\ published = {}

Accept ==
    LET key == accepted'[Len(accepted) + 1]
    IN  /\ Len(accepted') = Len(accepted) + 1
        /\ accepted' = Append(accepted, key)
        /\ \A i \in DOMAIN accepted : accepted[i] # key
        /\ UNCHANGED <<replies, published>>

Reply ==
    \E i \in DOMAIN accepted, replayed \in BOOLEAN :
        /\ replayed \/ \A r \in DOMAIN replies :
                           replies[r].execution = i => replies[r].replayed
        /\ replies' = Append(replies, [key |-> accepted[i], execution |-> i,
                                       replayed |-> replayed])
        /\ UNCHANGED <<accepted, published>>

(* A request is refused, whether or not its key has been accepted.         *)
Refuse ==
    LET reply == replies'[Len(replies) + 1]
    IN  /\ Len(replies') = Len(replies) + 1
        /\ replies' = Append(replies, reply)
        /\ reply.execution = 0
        /\ ~reply.replayed
        /\ UNCHANGED <<accepted, published>>

Publish ==
    /\ published \subseteq published'
    /\ published' \subseteq DOMAIN accepted
    /\ UNCHANGED <<accepted, replies>>

Next == Accept \/ Reply \/ Refuse \/ Publish

Spec == Init /\ [][Next]_<<accepted, replies, published>>
=============================================================================
