------------------------- MODULE IdempotencyContract -------------------------
(***************************************************************************)
(* What an idempotency key promises for the action it stands for: one run  *)
(* at a time, one effect at most, whose time nobody controls once a run    *)
(* sent it, one result that is final, and the same answer to every caller. *)
(***************************************************************************)
CONSTANTS Keys, Events

VARIABLES state,    \* "free", "running" or "done", per key
          sent,     \* the keys whose action some run sent
          effect,   \* the events the action made: at most one
          result,   \* what was recorded: an event, "refused", or "none"
          told      \* what callers were answered: nothing but the result

vars == <<state, sent, effect, result, told>>

Init ==
    /\ state = [k \in Keys |-> "free"]
    /\ sent = {}
    /\ effect = [k \in Keys |-> {}]
    /\ result = [k \in Keys |-> "none"]
    /\ told = [k \in Keys |-> {}]

Start(k) ==
    /\ state[k] = "free"
    /\ state' = [state EXCEPT ![k] = "running"]
    /\ UNCHANGED <<sent, effect, result, told>>

Send(k) ==
    /\ state[k] = "running"
    /\ sent' = sent \cup {k}
    /\ UNCHANGED <<state, effect, result, told>>

TakeEffect(k, e) ==
    /\ k \in sent /\ effect[k] = {}
    /\ effect' = [effect EXCEPT ![k] = {e}]
    /\ UNCHANGED <<state, sent, result, told>>

\* The run failed: the next one may try again.
Release(k) ==
    /\ state[k] = "running"
    /\ state' = [state EXCEPT ![k] = "free"]
    /\ UNCHANGED <<sent, effect, result, told>>

Finish(k, r) ==
    /\ state[k] = "running" /\ k \in sent
    /\ r \in effect[k] \cup {"refused"}
    /\ state' = [state EXCEPT ![k] = "done"]
    /\ result' = [result EXCEPT ![k] = r]
    /\ UNCHANGED <<sent, effect, told>>

Tell(k) ==
    /\ state[k] = "done"
    /\ told' = [told EXCEPT ![k] = {result[k]}]
    /\ UNCHANGED <<state, sent, effect, result>>

Next ==
    \E k \in Keys :
        \/ Start(k) \/ Send(k) \/ Release(k) \/ Tell(k)
        \/ \E e \in Events : TakeEffect(k, e)
        \/ \E r \in Events \cup {"refused"} : Finish(k, r)

Spec == Init /\ [][Next]_vars
=============================================================================
