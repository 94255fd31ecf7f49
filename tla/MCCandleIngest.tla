---- MODULE MCCandleIngest ----
\* Values for the constants of CandleIngest that a cfg cannot write down.
EXTENDS CandleIngest, TLC

\* Each vendor, and the timeframe one of them does not serve.
MCSources == {<<"binance", "1h">>, <<"kraken", "1h">>, <<"yahoo", "1h">>, <<"yahoo", "4h">>, <<"twelvedata", "1h">>}

\* A limit of the schema's (le=1000) is positive, zero or negative.
MCLimits == {-1, 0, 1}

MCAsked == <<"BTC/USD", "ETH/USD">>
====
