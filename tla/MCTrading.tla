---- MODULE MCTrading ----
EXTENDS Trading, TLC

CONSTANTS id1, id2, id3

\* Percentages of 1/100.  The strict profile refuses what the default allows.
MCDefault == [max_position_pct |-> 10, max_daily_loss_pct |-> 2, allow_leverage |-> FALSE, failed_closed |-> TRUE]
MCStrict == [MCDefault EXCEPT !.max_position_pct = 3]
MCProfiles == {MCDefault, MCStrict}

Cmd(id, symbol, side, quantity, price, live) ==
  [client_order_id |-> id, symbol |-> symbol, side |-> side, quantity |-> quantity,
   price |-> price, equity |-> 50, live |-> live]

MCUpper == [s \in {"BTC", "btc", "ETH", Blank} |-> IF s = "btc" THEN "BTC" ELSE s]

\* Two client ids on one symbol, so that with three requests one is a retry.
MCContended == {
  Cmd(id1, "BTC", "buy", 1, 4, TRUE),
  Cmd(id2, "btc", "sell", 1, 5, FALSE)}

\* Two symbols, a partial fill, a flip, a blank symbol, a blank client id, a price
\* that rounds to nothing and one that rounds to even.
MCVaried == {
  Cmd(id1, "BTC", "buy", 2, 4, TRUE),
  Cmd(id1, "btc", "buy", 1, 3, FALSE),
  Cmd(id2, "btc", "sell", 1, 5, FALSE),
  Cmd(id2, "ETH", "buy", 1, 1, FALSE),
  Cmd(id3, "ETH", "buy", 1, 4, FALSE),
  Cmd(id3, Blank, "buy", 1, 4, FALSE),
  Cmd(Blank, "ETH", "buy", 1, 4, FALSE)}

MCSymmetry == Permutations(Checks)
====
