---- MODULE Portfolio ----
(***************************************************************************)
(* The arithmetic of a position: Position.empty and Position.apply_fill of *)
(* trading/domain/portfolio.py, with the rounding of the NUMERIC columns   *)
(* the result passes through before the next fill reads it.                *)
(*                                                                         *)
(* Quantities are integers in lots, the last decimal of their column, and  *)
(* prices and money in the last decimal of theirs, so that the worth of a  *)
(* lot at a price is that price divided by Scale.  A quantity is signed:   *)
(* positive is long.                                                       *)
(***************************************************************************)
EXTENDS Integers

CONSTANT Scale   \* lots in one: 10^18 in the program

ASSUME ScaleAssumption == Scale \in Nat \ {0}

Sides == {"buy", "sell"}

Abs(n) == IF n < 0 THEN -n ELSE n

Lesser(a, b) == IF a <= b THEN a ELSE b

SameSign(a, b) == (a > 0 /\ b > 0) \/ (a < 0 /\ b < 0)

\* What a NUMERIC column keeps of the quotient n / d of a natural by a
\* positive number: rounded to the last decimal, halves away from zero.
Rounded(n, d) == (2 * n + d) \div (2 * d)

\* The same of a quotient that may be negative.
RoundedSigned(n, d) == IF n < 0 THEN -Rounded(-n, d) ELSE Rounded(n, d)

Position == [quantity: Int, average: Nat, realized: Int]

EmptyPosition == [quantity |-> 0, average |-> 0, realized |-> 0]

SignedQuantity(side, quantity) == IF side = "buy" THEN quantity ELSE -quantity

----------------------------------------------------------------------------
\* Plausible slips in apply_fill, one for each property that must catch it.

AveragesOnlyWhenFlat(position, signed) == position.quantity = 0

AveragedEntryOfSigned(position, signed, price) ==
  Rounded(position.quantity * position.average + signed * price, Abs(position.quantity + signed))

ClosedProfitOfWholeFill(position, signed, price) ==
  LET perLot == price - position.average IN
  Abs(signed) * (IF position.quantity < 0 THEN -perLot ELSE perLot)

RemainingEntryKeptOnFlip(position, signed, price) ==
  IF position.quantity + signed = 0 THEN 0 ELSE position.average

RemainingEntryKeptWhenFlat(position, signed, price) ==
  IF SameSign(position.quantity, position.quantity + signed) THEN position.average ELSE price

----------------------------------------------------------------------------
\* The fill opens the position or adds to it.
Averages(position, signed) == position.quantity = 0 \/ SameSign(position.quantity, signed)

\* The entry price after adding to a position.
AveragedEntry(position, signed, price) ==
  Rounded(Abs(position.quantity) * position.average + Abs(signed) * price,
          Abs(position.quantity + signed))

\* The profit of the lots a fill in the other direction closes, in parts of
\* 1 / Scale of the last decimal.
ClosedProfit(position, signed, price) ==
  LET perLot == price - position.average IN
  Lesser(Abs(position.quantity), Abs(signed)) * (IF position.quantity < 0 THEN -perLot ELSE perLot)

\* The entry price after a fill in the other direction: none when it closes
\* the position, unchanged when it reduces it, the fill's when it flips it.
RemainingEntry(position, signed, price) ==
  LET remaining == position.quantity + signed IN
  CASE remaining = 0 -> 0
    [] SameSign(position.quantity, remaining) -> position.average
    [] OTHER -> price

ApplyFill(position, side, quantity, price) ==
  LET signed == SignedQuantity(side, quantity) IN
  IF Averages(position, signed)
    THEN [quantity |-> position.quantity + signed,
          average  |-> AveragedEntry(position, signed, price),
          realized |-> position.realized]
    ELSE [quantity |-> position.quantity + signed,
          average  |-> RemainingEntry(position, signed, price),
          realized |-> RoundedSigned(position.realized * Scale + ClosedProfit(position, signed, price), Scale)]

====
