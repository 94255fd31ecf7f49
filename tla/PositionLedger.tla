---- MODULE PositionLedger ----
(***************************************************************************)
(* One position that receives fills one after another, each read from the  *)
(* repository, applied and saved before the next (ApplyFillService, and    *)
(* PlaceOrderService when nothing else runs), beside the books an          *)
(* accountant would keep of the same fills.                                *)
(***************************************************************************)
EXTENDS Portfolio

CONSTANTS Quantities,   \* lots a fill may have
          Prices,       \* prices a fill may have
          MaxFills      \* bound on the number of fills

ASSUME QuantitiesAssumption == Quantities \subseteq Nat \ {0}
ASSUME PricesAssumption == Prices \subseteq Nat \ {0}
ASSUME MaxFillsAssumption == MaxFills \in Nat

VARIABLES position,   \* the row of the positions table
          fills,      \* history: number of fills so far
          cash,       \* history: money received less money paid for the fills, times Scale
          rounding,   \* history: twice what rounding may have cost so far, times Scale
          entries     \* history: prices the position was entered at since it was last flat or flipped

vars == <<position, fills, cash, rounding, entries>>

Init ==
  /\ position = EmptyPosition
  /\ fills = 0
  /\ cash = 0
  /\ rounding = 0
  /\ entries = {}

Fill(side, quantity, price) ==
  LET signed == SignedQuantity(side, quantity)
      held == position.quantity + signed
  IN
  /\ fills < MaxFills
  /\ position' = ApplyFill(position, side, quantity, price)
  /\ fills' = fills + 1
  /\ cash' = cash - signed * price
  /\ rounding' = rounding + (IF Averages(position, signed) THEN Abs(held) ELSE Scale)
  /\ entries' = IF Averages(position, signed) THEN entries \cup {price}
                ELSE CASE held = 0 -> {}
                       [] SameSign(position.quantity, held) -> entries
                       [] OTHER -> {price}

Next == \E side \in Sides, quantity \in Quantities, price \in Prices : Fill(side, quantity, price)

Spec == Init /\ [][Next]_vars

----------------------------------------------------------------------------

TypeOK ==
  /\ position \in Position
  /\ fills \in 0..MaxFills
  /\ cash \in Int
  /\ rounding \in Nat
  /\ entries \subseteq Prices

\* What the books and the position disagree by, times Scale: realized profit
\* against the cash of all fills plus the cost of the lots still held.
Drift == Scale * position.realized - (cash + position.quantity * position.average)

\* The realized profit and the open cost account for all cash that changed
\* hands, up to the rounding of the columns: half a last decimal of the entry
\* price per lot held at each fill that averages, half a last decimal of the
\* profit at each fill that closes (Position.apply_fill, both branches).  No
\* sequence of opening, adding, reducing, closing and flipping fills makes or
\* loses more.
BooksBalance == -rounding <= 2 * Drift /\ 2 * Drift <= rounding

\* The entry price of an open position lies between the lowest and the highest
\* price it was entered at since it was last flat or flipped: neither averaging,
\* nor a partial close, nor a flip may leave a price from an earlier position.
EntryWithinEntries ==
  position.quantity # 0 =>
    /\ \E p \in entries : p <= position.average
    /\ \E p \in entries : position.average <= p

\* A flat position keeps no entry price and an open one always has one, so the
\* cost of the next fill is never averaged with what was closed.
FlatHasNoEntry == position.quantity = 0 <=> position.average = 0

\* Profit is realized by lots that leave the position: a fill that realizes
\* something leaves fewer lots on the side it closed.
ProfitOnlyFromClosing ==
  [][position'.realized # position.realized =>
       /\ position.quantity # 0
       /\ SameSign(position.quantity, position'.quantity) =>
            Abs(position'.quantity) < Abs(position.quantity)]_vars

====
