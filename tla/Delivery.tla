------------------------------ MODULE Delivery ------------------------------
(***************************************************************************)
(* What MQTT promises for the messages of one sender: at QoS 1 a receiver  *)
(* gets every accepted message at least once, at QoS 2 exactly once, and   *)
(* the sender forgets a message only when the receiver has it.             *)
(***************************************************************************)
EXTENDS Naturals

CONSTANT Messages

VARIABLES level,      \* the QoS a message was offered with, 0 before that
          accepted,   \* messages the sender has taken responsibility for
          got,        \* how often the receiver handed a message on (2: or more)
          confirmed   \* accepted messages the sender has forgotten

deliveryVars == <<level, accepted, got, confirmed>>

Init == /\ level = [m \in Messages |-> 0]
        /\ accepted = {} /\ confirmed = {}
        /\ got = [m \in Messages |-> 0]

Offer(m) == /\ level[m] = 0
            /\ \E q \in 1..2 : level' = [level EXCEPT ![m] = q]
            /\ accepted' \in {accepted, accepted \cup {m}}
            /\ UNCHANGED <<got, confirmed>>

Accept(m) == /\ level[m] > 0 /\ m \notin accepted
             /\ accepted' = accepted \cup {m}
             /\ UNCHANGED <<level, got, confirmed>>

\* A receiver may have a message before the sender has recorded it, and at
\* QoS 1 again after the sender forgot it.  The exchange of a message it is
\* just handing on may be over with this step.
Deliver(m) == /\ level[m] > 0
              /\ level[m] = 2 => got[m] = 0
              /\ got' = [got EXCEPT ![m] = IF @ = 2 THEN 2 ELSE @ + 1]
              /\ confirmed' \in {confirmed, confirmed \cup ({m} \cap accepted)}
              /\ UNCHANGED <<level, accepted>>

Confirm(m) == /\ m \in accepted \ confirmed
              /\ got[m] > 0
              /\ confirmed' = confirmed \cup {m}
              /\ UNCHANGED <<level, accepted, got>>

Next == \E m \in Messages : Offer(m) \/ Accept(m) \/ Deliver(m) \/ Confirm(m)

SafeSpec == Init /\ [][Next]_deliveryVars

\* The first delivery of an accepted message, and the end of its exchange.
Complete(m) == Confirm(m) \/ (m \in accepted /\ got[m] = 0 /\ Deliver(m))

Spec == SafeSpec /\ \A m \in Messages : WF_deliveryVars(Complete(m))
=============================================================================
