---------------------------- MODULE EventDelivery ----------------------------
(***************************************************************************)
(* What the outbox promises of every order event, however the dispatchers, *)
(* relays and consumers interleave and fail: nothing is delivered that was *)
(* not published and projected, what is delivered stays delivered, and     *)
(* only an event given up on can be taken up again.                        *)
(***************************************************************************)
CONSTANTS
  Events,      \* the events of one order
  Projecting   \* those that credit or give back loyalty benefits

VARIABLES
  life,        \* "NONE", "OPEN", "DELIVERED", "DEAD" or "FORGOTTEN"
  published,   \* events some screen has been told of
  projected    \* events whose effect on loyalty and relationship is stored

vars == <<life, published, projected>>

Become(S, from, to) ==
  /\ S # {} /\ \A e \in S : life[e] = from
  /\ life' = [e \in Events |-> IF e \in S THEN to ELSE life[e]]

(* The transaction that changed the order committed.                       *)
Commit(S) == Become(S, "NONE", "OPEN") /\ UNCHANGED <<published, projected>>

(* An effect shows, possibly again, and possibly after delivery.           *)
Publish(S) ==
  /\ \A e \in S : life[e] # "NONE"
  /\ published' = published \cup S
  /\ UNCHANGED <<life, projected>>

Project(S) ==
  /\ \A e \in S : e \in Projecting /\ life[e] # "NONE"
  /\ projected' = projected \cup S
  /\ UNCHANGED <<life, published>>

Deliver(S) ==
  /\ Become(S, "OPEN", "DELIVERED")
  /\ S \subseteq published /\ S \cap Projecting \subseteq projected
  /\ UNCHANGED <<published, projected>>

GiveUp(S) == Become(S, "OPEN", "DEAD") /\ UNCHANGED <<published, projected>>

Replay(e) == Become({e}, "DEAD", "OPEN") /\ UNCHANGED <<published, projected>>

Forget(e) == Become({e}, "DELIVERED", "FORGOTTEN") /\ UNCHANGED <<published, projected>>

Init ==
  /\ life = [e \in Events |-> "NONE"]
  /\ published = {} /\ projected = {}

Next ==
  \/ \E S \in SUBSET Events :
       Commit(S) \/ Publish(S) \/ Project(S) \/ Deliver(S) \/ GiveUp(S)
  \/ \E e \in Events : Replay(e) \/ Forget(e)

Spec == Init /\ [][Next]_vars

=============================================================================
