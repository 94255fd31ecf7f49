---- MODULE MCRiskChecks ----
EXTENDS RiskChecks, TLC

\* The default profile is the code's with 1/1000 as unit; the others allow
\* leverage, or have a negative limit and do not fail closed.
MCDefault == [max_position_pct |-> 100, max_daily_loss_pct |-> 20, allow_leverage |-> FALSE, failed_closed |-> TRUE]
MCLeveraged == [MCDefault EXCEPT !.max_position_pct = 1100, !.allow_leverage = TRUE]
MCNegative == [MCDefault EXCEPT !.max_position_pct = -1000, !.failed_closed = FALSE]
MCRouteNotionals == {-130, 50}
MCEquities == {-100, 0, 100}
MCSymmetry == Permutations(Checks)
MCProfiles == {MCDefault, MCLeveraged, MCNegative}
====
