----------------------------- MODULE RedisQueue -----------------------------
(***************************************************************************)
(* app/infrastructure/queue.py: a Redis list of execution identifiers.     *)
(* RPUSH appends; BLPOP removes the head before the worker has done        *)
(* anything with it, and nothing ever puts it back.                        *)
(***************************************************************************)
EXTENDS Sequences

VARIABLE queue

QueueInit == queue = <<>>

enqueue(e) == queue' = Append(queue, e)

dequeue(e) ==
    /\ queue # <<>>
    /\ e = Head(queue)
    /\ queue' = Tail(queue)
=============================================================================
