------------------------- MODULE AcmeOrderLifecycle -------------------------
(***************************************************************************)
(* What the order client of src/acme/src/lib.rs promises about an order,  *)
(* without nonces, requests or challenges: behind each handle the CA's     *)
(* order moves along the RFC 8555 lifecycle, and the handle's cached       *)
(* OrderState only ever takes the CA's status at the moment of a step.     *)
(* AcmeOrder implements it (AcmeOrder!Lifecycle).                          *)
(***************************************************************************)
CONSTANT Handles

VARIABLES
    order,  \* the CA's order behind each handle
    state   \* the handle's cached status ("none" before new_order returned it)

OrderStatus == {"pending", "ready", "processing", "valid", "invalid"}

\* The CA-side transitions of an existing order (RFC 8555, section 7.1.6)
Advance ==
    {<<"pending", "ready">>, <<"pending", "invalid">>, <<"ready", "processing">>,
     <<"ready", "invalid">>, <<"processing", "valid">>, <<"processing", "invalid">>}

Init ==
    /\ order = [h \in Handles |-> "none"]
    /\ state = [h \in Handles |-> "none"]

\* newOrder: while no handle exists a fresh pending order replaces whatever
\* order an earlier unanswered request created; the handle may come with it
Create(h) ==
    /\ state[h] = "none"
    /\ order' = [order EXCEPT ![h] = "pending"]
    /\ \E s \in {"none", "pending"} : state' = [state EXCEPT ![h] = s]

\* The order of h moves one lifecycle step; the cache of an existing handle
\* may take the new status in the same step
Step(h) ==
    /\ \E s \in OrderStatus :
         /\ <<order[h], s>> \in Advance
         /\ order' = [order EXCEPT ![h] = s]
         /\ \/ state' = state
            \/ state[h] # "none" /\ state' = [state EXCEPT ![h] = s]

\* The cache of an existing handle takes the order's current status
Observe(h) ==
    /\ state[h] # "none"
    /\ state' = [state EXCEPT ![h] = order[h]]
    /\ order' = order

Next == \E h \in Handles : Create(h) \/ Step(h) \/ Observe(h)

Spec == Init /\ [][Next]_<<order, state>>

=============================================================================
