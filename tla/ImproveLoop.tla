---- MODULE ImproveLoop ----
(***************************************************************************)
(* The self-improvement worker: workers/runner.py, with the backtest each  *)
(* of its rounds runs.  main connects, ImproveUntilPlateau.run_forever     *)
(* runs rounds of default_step until the metric plateaus, the configured   *)
(* number is reached or a signal asks it to stop, and main disconnects.    *)
(* Every await of a round may fail, which costs the round and no more.     *)
(***************************************************************************)
EXTENDS Backtest

CONSTANTS Prices,     \* closes of the candles in the store
          MaxCandles, \* bound: candles in a window
          MinCandles, \* fewer are too few for a backtest
          StaleLimit, \* LoopConfig.max_stale_rounds
          Limits,     \* values of LoopConfig.max_rounds
          NoLimit,    \* the one among them that is None
          NoBest,     \* _best before the first round
          Horizon     \* bound: rounds are counted up to this number

ASSUME LoopAssumption ==
  /\ Prices \subseteq Nat \ {0}
  /\ MaxCandles \in Nat \ {0} /\ MinCandles \in Nat \ {0} /\ MinCandles <= MaxCandles
  /\ StaleLimit \in Nat \ {0}
  /\ Limits \subseteq Nat \cup {NoLimit} /\ NoLimit \notin Nat
  /\ NoBest \notin Nat
  /\ Horizon \in Nat \ {0}

VARIABLES limit,   \* LoopConfig.max_rounds
          stop,    \* the event _stop
          best, stale, rounds, \* _best, _stale_rounds, _round_n
          stage,   \* the await the worker is at
          left,    \* candles the backtest has still to go through
          account, \* the backtest's account
          scores   \* history: the metrics of the rounds that did not fail

loop == <<best, stale, rounds>>
backtest == <<left, account>>
vars == <<limit, stop, loop, stage, backtest, scores>>

Round == {"query", "list", "strategy", "candles", "bars", "publish"}
Stages == Round \cup {"connect", "wait", "disconnect", "down"}

Init ==
  /\ limit \in Limits
  /\ stop = FALSE
  /\ best = NoBest /\ stale = 0 /\ rounds = 0
  /\ stage = "connect"
  /\ left = 0 /\ account = NewAccount
  /\ scores = {}

Counted(n) == IF n < Horizon THEN n + 1 ELSE n

MaxRoundsReached == limit # NoLimit /\ rounds >= limit

\* Slip: the wait ends on a stop request, and the loop goes on.
HeadAfterWait == IF MaxRoundsReached THEN stage' = "disconnect" /\ UNCHANGED rounds
                                     ELSE stage' = "query" /\ rounds' = Counted(rounds)

\* The head of run_forever: another round, or none.
Head == IF stop \/ MaxRoundsReached THEN stage' = "disconnect" /\ UNCHANGED rounds
                                    ELSE stage' = "query" /\ rounds' = Counted(rounds)

\* main: connect, then into the loop; if connecting fails nothing is disconnected.
Connect ==
  /\ stage = "connect"
  /\ \/ Head
     \/ stage' = "down" /\ UNCHANGED rounds
  /\ UNCHANGED <<limit, stop, best, stale, backtest, scores>>

\* Slip: a metric as good as the best counts as better.
ImprovesOrEquals(metric) == best = NoBest \/ metric >= best

Improves(metric) == best = NoBest \/ metric > best

\* Slip: the last metric is taken for the best.
RecordLast(metric) ==
  /\ best' = metric
  /\ stale' = IF Improves(metric) THEN 0 ELSE stale + 1
  /\ stage' = IF stale' >= StaleLimit THEN "disconnect" ELSE "wait"
  /\ UNCHANGED rounds

\* Slip: one more round after the plateau.
RecordThenOneMore(metric) ==
  /\ best' = IF Improves(metric) THEN metric ELSE best
  /\ stale' = IF Improves(metric) THEN 0 ELSE stale + 1
  /\ stage' = IF stale' > StaleLimit THEN "disconnect" ELSE "wait"
  /\ UNCHANGED rounds

\* _record, and run_forever up to its next await.
Record(metric) ==
  /\ best' = IF Improves(metric) THEN metric ELSE best
  /\ stale' = IF Improves(metric) THEN 0 ELSE stale + 1
  /\ stage' = IF stale' >= StaleLimit THEN "disconnect" ELSE "wait"
  /\ UNCHANGED rounds

\* A round that returns a metric, and one that raised.
Scores(metric) == Record(metric) /\ scores' = scores \cup {metric}

Fails == Record(IF best = NoBest THEN 0 ELSE best) /\ UNCHANGED scores

\* default_step: the window holds candles ...
QueryCandles ==
  /\ stage = "query"
  /\ \/ stage' = "list" /\ UNCHANGED <<loop, scores>>
     \/ Scores(0)
  /\ UNCHANGED <<limit, stop, backtest>>

\* ... StrategyManager.list names a champion ...
ListStrategies ==
  /\ stage = "list"
  /\ \/ stage' = "strategy" /\ UNCHANGED <<loop, scores>>
     \/ Scores(0)
  /\ UNCHANGED <<limit, stop, backtest>>

\* ... whom BacktestEngine.run looks up: an unknown one raises.
RequireStrategy ==
  /\ stage = "strategy"
  /\ \/ stage' = "candles" /\ UNCHANGED <<loop, scores>>
     \/ Fails
  /\ UNCHANGED <<limit, stop, backtest>>

\* The engine reads the window anew: the candles it finds need not be those of QueryCandles.
ReadCandles ==
  /\ stage = "candles"
  /\ \E n \in 0 .. MaxCandles :
       IF n < MinCandles
         THEN Scores(0) /\ UNCHANGED backtest
         ELSE /\ stage' = "bars" /\ left' = n /\ account' = NewAccount
              /\ UNCHANGED <<loop, scores>>
  /\ UNCHANGED <<limit, stop>>

\* A candle of _simulate, after the strategy was asked; after the last one
\* what is still held is closed out.
Bar ==
  /\ stage = "bars"
  /\ \E price \in Prices, direction \in Directions :
       LET a == Candle(account, price, direction)
       IN IF left > 1
            THEN account' = a /\ left' = left - 1 /\ UNCHANGED stage
            ELSE account' = Result(a, price) /\ left' = 0 /\ stage' = "publish"
  /\ UNCHANGED <<limit, stop, loop, scores>>

\* BacktestCompleted is published; the round's metric is the win rate.
PublishCompleted ==
  /\ stage = "publish"
  /\ Scores(WinRate(account))
  /\ UNCHANGED <<limit, stop, backtest>>

\* A store, the strategy or the bus raises.
RoundFails ==
  /\ stage \in Round
  /\ Fails
  /\ UNCHANGED <<limit, stop, backtest>>

\* _wait_until_next: the interval is over, or the stop event is set.
WaitEnds ==
  /\ stage = "wait"
  /\ Head
  /\ UNCHANGED <<limit, stop, best, stale, backtest, scores>>

Disconnect ==
  /\ stage = "disconnect"
  /\ stage' = "down"
  /\ UNCHANGED <<limit, stop, loop, backtest, scores>>

\* SIGINT or SIGTERM.
RequestStop ==
  /\ ~stop /\ stage # "down"
  /\ stop' = TRUE
  /\ UNCHANGED <<limit, loop, stage, backtest, scores>>

Work ==
  \/ Connect \/ QueryCandles \/ ListStrategies \/ RequireStrategy \/ ReadCandles
  \/ Bar \/ PublishCompleted \/ RoundFails \/ WaitEnds \/ Disconnect

Next == Work \/ RequestStop

Spec == Init /\ [][Next]_vars

\* Whatever the worker awaits is answered, fails or is over some time.  No
\* signal need ever arrive.
Fairness == WF_vars(Work)

FairSpec == Spec /\ Fairness

----------------------------------------------------------------------------
\* Every variable has its type.
TypeOK ==
  /\ limit \in Limits
  /\ stop \in BOOLEAN
  /\ best \in 0 .. 100 \cup {NoBest} /\ stale \in 0 .. StaleLimit /\ rounds \in 0 .. Horizon
  /\ stage \in Stages
  /\ left \in 0 .. MaxCandles /\ account \in Account
  /\ scores \in SUBSET (0 .. 100)

\* best is the greatest metric of the rounds that did not fail, or 0: a failed
\* round, which is scored with the best so far, neither raises nor lowers it.
BestIsGreatest ==
  /\ best = NoBest => scores = {}
  /\ best # NoBest => best \in scores \cup {0} /\ \A s \in scores : s <= best

\* The trades of a backtest account for its capital through any sequence of
\* candles and signals, and for the final capital of its result, but for the lots
\* that were closed out at the end, which it counts once more.
TradesExplainCapital == IF left > 0 THEN Explained(account) ELSE Reported(account)

\* Once a stop was requested no round begins: before connecting, during a round
\* or during the wait, at most the running round is finished.
StopIsPrompt == [][stop => rounds' = rounds]_vars

\* The loop ends by itself, without a stop request and without max_rounds:
\* failed rounds and equal metrics count towards the plateau.
LoopEnds == <>(stage = "down")
====
