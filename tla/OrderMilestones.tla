--------------------------- MODULE OrderMilestones ---------------------------
(* What the saga promises about one order, with requests, messages, queues,  *)
(* retries and races hidden: the milestones an order has passed only grow,   *)
(* and each one comes after those it depends on.  An order's status may move *)
(* back and forth (OrderSaga shows how); its milestones never do.            *)
CONSTANT Orders
VARIABLE reached   \* reached[o]: the milestones order o has passed

Milestones == {"created", "reserved", "cancelled", "released", "confirmed",
               "charged", "settled", "shipped", "delivered"}

\* What must have happened before.
Needs == [m \in Milestones |->
    CASE m = "created"   -> {}
      [] m = "reserved"  -> {"created"}
      [] m = "cancelled" -> {"created"}
      [] m = "released"  -> {"reserved", "cancelled"}
      [] m = "confirmed" -> {"reserved"}
      [] m = "charged"   -> {"confirmed"}
      [] m = "settled"   -> {"charged"}
      [] m = "shipped"   -> {"settled"}
      [] m = "delivered" -> {"shipped"}]

Init == reached = [o \in Orders |-> {}]

Pass(o, m) ==
    /\ m \in Milestones \ reached[o]
    /\ Needs[m] \subseteq reached[o]
    /\ reached' = [reached EXCEPT ![o] = @ \cup {m}]

\* The milestone a step passes is the one that is new.
Next == \E o \in Orders : \E m \in reached'[o] \ reached[o] : Pass(o, m)

Spec == Init /\ [][Next]_reached
=============================================================================
