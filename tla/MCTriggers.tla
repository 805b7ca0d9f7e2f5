----------------------------- MODULE MCTriggers -----------------------------
(***************************************************************************)
(* Triggers for TLC.  The names have the shortest length that a header may *)
(* have, one less, the longest that fits its column behind "webhook:", and *)
(* the longest that a header may have.                                     *)
(***************************************************************************)
EXTENDS Triggers, TLC

CONSTANTS w1, w2, d1, d2, order17, order7, long, longer

Spelled(role) == [role |-> role, upper |-> role = "operator"]

(* Somebody with a token for one role who claims to be an admin.           *)
Caller(role) ==
    [token |-> "valid", subject |-> TRUE, realm_roles |-> {{Spelled(role)}},
     direct_roles |-> {}, dev_roles |-> {Spelled("admin")}]

Stranger == [Caller("admin") EXCEPT !.token = "invalid"]

ManualBy(caller, w, prefixes, name) ==
    [endpoint |-> "create_execution", workflow |-> w,
     id |-> <<prefixes, name>>, caller |-> caller, flaws |-> {}]

Manual(w, prefixes, name) == ManualBy(Caller("operator"), w, prefixes, name)

EventWith(flaws, w, prefixes, name) ==
    [endpoint |-> "webhook", workflow |-> w, id |-> <<prefixes, name>>,
     caller |-> Stranger, flaws |-> flaws]

Event(w, name) == EventWith({}, w, <<>>, name)

MCNameVersion == [w \in Workflows |-> "onboarding 1"]

(* Two workflows with names of their own.                                  *)
MCNameVersions == [w \in Workflows |-> w]

MCNameLength ==
    [name \in {order17, order7, long, longer, <<d1, 1>>, <<d1, 2>>} |->
        CASE name = order17 -> 8
          [] name = order7  -> 7
          [] name = long    -> 152
          [] name = longer  -> 160
          [] OTHER          -> 62]

MCTarget == [d \in Schedules |-> w1]

MCInterval == [d \in Schedules |-> IF d = d1 THEN 1 ELSE 2]

(* A manual key that a schedule will derive.                               *)
Taken(due_at) == Manual(w1, <<"schedule:">>, <<d1, due_at>>)

(* The longest event that fits, its key as a manual key of another         *)
(* workflow, the key of an interval, and events without the right          *)
(* signature.                                                              *)
MCAdmissionCalls ==
    {Event(w1, long), Manual(w2, <<"webhook:">>, long), Taken(1)} \cup
    {EventWith(flaws, w1, <<>>, long) :
        flaws \in {{"signature"}, {"signature", "json"}, {"non_ascii"}}}

(* Calls by hand with and without the token and the role they need, and    *)
(* events that are too short and too long.                                 *)
MCScheduleCalls ==
    {ManualBy(caller, w1, <<>>, order17) :
        caller \in {Stranger, Caller("viewer"), Caller("operator")}}
        \cup {Event(w1, order7), Event(w1, longer)}

MCTakenKey == {Taken(2)}

MCLongEvent == {Event(w1, longer)}

Symmetry == Permutations(Clients) \cup Permutations(Schedulers)
=============================================================================
