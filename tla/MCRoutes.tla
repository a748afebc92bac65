------------------------------ MODULE MCRoutes ------------------------------
(* Routes with a partition set and a projector set over two keys.  The     *)
(* workers share the schema job, the auditor reads facts beside the        *)
(* projector set, and the orders set handles job too.                      *)
EXTENDS Routes

CONSTANTS worker1, worker2, auditor, observer, orders, views, k1, k2,
          job, fact, order, s1, s2

TwoWorkersAndMore == {worker1, worker2, auditor, observer}

Declared ==
  (worker1 :> {job}) @@ (worker2 :> {job}) @@ (auditor :> {fact}) @@ (observer :> {})
    @@ (orders :> {order}) @@ (views :> {fact})

Announced ==
  [p \in TwoWorkersAndMore |-> {}] @@ (orders :> {fact}) @@ (views :> {fact})

Msg(id, verb, schema, dest, key, from) ==
  [id |-> id, verb |-> verb, schema |-> schema, dest |-> dest, key |-> key, from |-> from]

Jobs == <<Msg(1, "any", job, worker1, NoKey, Nobody),
          Msg(2, "value", job, worker1, NoKey, Nobody)>>

Orders == <<Msg(3, "tell", order, orders, k1, Nobody),
            Msg(4, "publish", fact, auditor, k1, <<orders, k1>>)>>

Words == <<Msg(5, "tell", job, worker2, NoKey, worker2),
           Msg(6, "publish", fact, auditor, k2, <<views, k1>>),
           Msg(7, "any", fact, worker1, NoKey, Nobody),
           Msg(8, "any", job, worker1, NoKey, auditor)>>

TwoSenders == {s1, s2}
Traffic == (s1 :> Jobs \o Orders) @@ (s2 :> Words)

TwoRules ==
  <<[source |-> Anything, schema |-> Anything, dest |-> orders, kind |-> "tee",
     observer |-> observer],
    [source |-> Anything, schema |-> job, dest |-> worker2, kind |-> "inline",
     observer |-> auditor]>>

Once(changes) == [c \in Changes |-> IF c \in changes THEN 1 ELSE 0]

Some ==
  {Once({"stop"}), Once({"unslot"}), Once({"barrier"}), [Once({"rule"}) EXCEPT !["rule"] = 2]}
=============================================================================
