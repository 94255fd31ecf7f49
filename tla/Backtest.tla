---- MODULE Backtest ----
(***************************************************************************)
(* The account of a backtest: BacktestEngine._simulate of                  *)
(* backtest/application/engine.py, one operator per branch of its loop.    *)
(*                                                                         *)
(* Money and lots are counted in the last digit of a Decimal, so that a    *)
(* division rounds (here: down); the fee is FeeNum / FeeDen.  The profit   *)
(* of a trade is kept times FeeDen, which makes it exact.                  *)
(***************************************************************************)
EXTENDS Integers

CONSTANTS InitialCapital, FeeNum, FeeDen

ASSUME FeeAssumption ==
  /\ InitialCapital \in Nat
  /\ FeeDen \in Nat \ {0} /\ FeeNum \in 0 .. FeeDen

Directions == {"BUY", "SELL", "HOLD"}

\* capital, quantity, entry_price, whether position is BUY; the number of
\* trades and of those with a profit; final_capital of the result.  earned, moved,
\* lost and again are history: the sum of the trades' profits, of what their lots gained
\* in price, what rounding may have cost, and what final_capital counts once more.
Account == [capital : Nat, quantity : Nat, entry : Nat, holding : BOOLEAN, trades : Nat, wins : Nat,
            final : Nat, earned : Int, moved : Int, lost : Nat, again : Nat]

NewAccount == [capital |-> InitialCapital, quantity |-> 0, entry |-> 0, holding |-> FALSE, trades |-> 0,
               wins |-> 0, final |-> InitialCapital, earned |-> 0, moved |-> 0, lost |-> 0, again |-> 0]

Shares(capital, price) == capital \div price

\* Slip: the fee is charged on the way in as well.
GrossChargedTwice(quantity, price) ==
  (quantity * price * (FeeDen - FeeNum) * (FeeDen - FeeNum)) \div (FeeDen * FeeDen)

Gross(quantity, price) == (quantity * price * (FeeDen - FeeNum)) \div FeeDen

\* Profit as a trade reports it: the fee is reckoned from the price of entry.
Profit(a, price) == FeeDen * ((price - a.entry) * a.quantity) - FeeNum * (a.entry * a.quantity)

\* All the capital buys lots at the close of the candle ...
Bought(a, price) ==
  [a EXCEPT !.holding = TRUE, !.entry = price, !.quantity = Shares(a.capital, price), !.capital = 0,
            !.lost = @ + FeeDen * price]

\* ... and all the lots are sold, at a later close.
Sold(a, price) ==
  [a EXCEPT !.holding = FALSE, !.capital = Gross(a.quantity, price), !.quantity = 0,
            !.trades = @ + 1, !.wins = IF Profit(a, price) > 0 THEN @ + 1 ELSE @,
            !.earned = @ + Profit(a, price), !.moved = @ + (price - a.entry) * a.quantity,
            !.lost = @ + FeeDen]

\* A candle: what the strategy says counts only when it changes the position.
Candle(a, price, direction) ==
  IF ~a.holding /\ direction = "BUY" THEN Bought(a, price)
  ELSE IF a.holding /\ direction = "SELL" THEN Sold(a, price)
  ELSE a

\* At the last close what is still held is sold, but neither position nor quantity is reset ...
ClosedOut(a, price) ==
  IF a.holding
    THEN [Sold(a, price) EXCEPT !.holding = TRUE, !.quantity = a.quantity, !.again = a.quantity * price]
    ELSE a

\* ... so that final_capital counts the lots it has sold once more.
FinalCapital(a, price) == IF a.holding THEN a.capital + a.quantity * price ELSE a.capital

Result(a, price) ==
  LET closed == ClosedOut(a, price)
  IN [closed EXCEPT !.final = FinalCapital(closed, price)]

\* win_rate_pct, in whole percent.
WinRate(a) == IF a.trades = 0 THEN 0 ELSE (100 * a.wins) \div a.trades

----------------------------------------------------------------------------
\* The trades account for a capital: what it gained is the profit of the trades
\* less the fee on what their lots gained in price (a trade is charged on its
\* entry, the capital on the exit), up to rounding.
Accounts(a, capital) ==
  LET unexplained == a.earned - FeeNum * a.moved - FeeDen * (capital - InitialCapital)
  IN 0 <= unexplained /\ unexplained <= a.lost

\* While the backtest runs the trades account for the capital that is not invested ...
Explained(a) == IF a.holding THEN a.capital = 0 ELSE a.quantity = 0 /\ Accounts(a, a.capital)

\* ... and for final_capital but for what it counts once more.
Reported(a) == Accounts(a, a.final - a.again)
====
