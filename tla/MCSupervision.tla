--------------------------- MODULE MCSupervision ---------------------------
(* Supervision with small specs.  A budget of two restarts lets one crash  *)
(* restart the child, a second exhaust it in the same window, or a third   *)
(* after it.                                                               *)
EXTENDS Supervision

Child(tier, restart, max, window) ==
  [tier |-> tier, restart |-> restart, max |-> max, window |-> window]

Various ==
  {Child(tier, "Permanent", 2, 1) : tier \in {"es", "service"}}
    \cup {Child("es", "Transient", 3, 1), Child("service", "Never", 2, 1)}

Journaled == {Child("es", "Permanent", 2, 1)}

Stateless == {Child("service", "Permanent", 2, 1)}
============================================================================
