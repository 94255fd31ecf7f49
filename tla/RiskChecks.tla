---- MODULE RiskChecks ----
(***************************************************************************)
(* The risk gate with its two callers, each with the arguments it passes:  *)
(* the order gate (RiskServiceAdapter.authorize) and POST /risk/check,     *)
(* whose amounts are free text and may be negative or zero.                *)
(***************************************************************************)
EXTENDS RiskGate

CONSTANTS OrderNotionals,  \* notional values of orders: positive
          RouteNotionals,  \* notional values of POST /risk/check
          Equities,        \* equity values, zero and less included
          RouteLoss        \* the daily loss POST /risk/check passes

ASSUME AmountsAssumption ==
  /\ OrderNotionals \subseteq Nat \ {0}
  /\ RouteNotionals \subseteq Int
  /\ Equities \subseteq Int
  /\ RouteLoss \in Int

Authorize(c) ==
  \E notional \in OrderNotionals, equity \in Equities :
    BeginCheck(c, PositionShare(notional, equity), 0)

\* Without equity the route takes the share to be zero.
RouteShare(notional, equity) ==
  IF equity = 0 THEN [num |-> 0, den |-> 1] ELSE PositionShare(notional, equity)

RouteCheck(c) ==
  \E notional \in RouteNotionals, equity \in Equities :
    BeginCheck(c, RouteShare(notional, equity), RouteLoss)

GateNext ==
  \/ \E c \in Checks : Authorize(c) \/ RouteCheck(c) \/ ReadSwitch(c) \/ ReadProfile(c) \/ NotifyBreach(c)
  \/ StoreNext

GateSpec == GateInit /\ [][GateNext]_gateVars

====
