---- MODULE CandleIngest ----
(***************************************************************************)
(* Market data: CandleIngestService over a vendor's adapter, the ClickHouse*)
(* table market_candles and the event bus.  A request fetches candles of   *)
(* one symbol (again while the failure is retryable), appends them and     *)
(* announces them, or reads the table, or asks the adapter for the tickers *)
(* of several symbols; requests overlap.                                   *)
(*                                                                         *)
(* Meanwhile the market moves: bar k is open from (k-1)*BarTicks on, and   *)
(* its version is the ticks it has seen.                                   *)
(***************************************************************************)
EXTENDS Vendors, EventStream

CONSTANTS Requests,
          Sources,  \* pairs of the vendor configured and the timeframe asked for
          Limits,   \* limits of a sync
          Retries,  \* RetryPolicy.retries
          BarTicks, \* ticks of a bar
          MaxTicks, \* bound: ticks of the market
          Asked,    \* the symbols of a call of fetch_tickers, in order
          NoRow

ASSUME IngestAssumption ==
  /\ Sources \subseteq {"binance", "kraken", "yahoo", "twelvedata"} \X STRING
  /\ Limits \subseteq Int
  /\ Retries \in Nat \ {0} /\ BarTicks \in Nat \ {0} /\ MaxTicks \in Nat
  /\ Asked \in Seq(STRING) \ {<<>>}

VARIABLES source,
          now,         \* ticks of the market so far
          table,       \* the row of each bar, and which request inserted it
          initialized, \* this process has created the table
          op, stage,
          attempts,    \* attempts of the request's fetch that failed
          fetched,     \* candles the request has in hand, or was answered
          quoted,      \* the symbols it has tickers of
          answer,      \* the HTTP status it is answered with, 0 while it has none
          refused,     \* history: the vendor refused the request
          offered,     \* history: candles the vendor offered to it, until it appended
          passed       \* history: requests that appended after it fetched and before it appended

request == <<op, stage, attempts, fetched, quoted, answer, refused, offered>>
store == <<table, initialized, passed>>
vars == <<source, now, store, request, streamVars>>

Vendor == source[1]
Timeframe == source[2]

Bars == 1 .. (MaxTicks \div BarTicks) + 1
Version(bar) == IF now - (bar - 1) * BarTicks < BarTicks THEN now - (bar - 1) * BarTicks ELSE BarTicks
Opened == {bar \in Bars : (bar - 1) * BarTicks <= now}

Candle == [at : Bars, of : Bars, version : 0 .. BarTicks]
Row == [at : Bars, of : Bars, version : 0 .. BarTicks, by : Requests]

ASSUME NoRowAssumption == NoRow \notin Row

AtVendor == {"fetch", "quote"}
Waiting == AtVendor \cup {"table", "insert", "publish", "read"}

Init ==
  /\ source \in Sources /\ now = 0
  /\ table = [bar \in Bars |-> NoRow] /\ initialized = FALSE
  /\ op = [r \in Requests |-> "none"] /\ stage = [r \in Requests |-> "new"]
  /\ attempts = [r \in Requests |-> 0] /\ fetched = [r \in Requests |-> <<>>]
  /\ quoted = [r \in Requests |-> <<>>]
  /\ answer = [r \in Requests |-> 0] /\ refused = [r \in Requests |-> FALSE]
  /\ offered = [r \in Requests |-> {}] /\ passed = [r \in Requests |-> {}]
  /\ StreamInit

GoTo(r, s) == stage' = [stage EXCEPT ![r] = s] /\ UNCHANGED answer

Ends(r, status) ==
  /\ stage' = [stage EXCEPT ![r] = "done"]
  /\ answer' = [answer EXCEPT ![r] = status]

\* The requests with candles to append.
InHand == {r \in Requests : stage[r] \in {"table", "insert"} /\ op[r] # "query"}

\* The request holds candles, on the way to ClickHouseCandleStore.append.
Holds(r, cs) ==
  /\ fetched' = [fetched EXCEPT ![r] = cs]
  /\ GoTo(r, IF initialized THEN "insert" ELSE "table")

\* What the vendor knows when it replies.
Offer(bar, shape) == [at |-> bar, of |-> bar, version |-> Version(bar), shape |-> shape]

\* The last bars, one row each, in the vendor's order; Binance may repeat itself.
Offers ==
  LET last == Max(Opened)
      bars == {<<last>>} \cup IF last = 1 THEN {<<>>} ELSE
                {CASE Vendor = "twelvedata" -> <<last, last - 1>>
                   [] OTHER -> <<last - 1, last>>}
                \cup IF Vendor = "binance" THEN {<<last, last - 1, last>>} ELSE {}
  IN UNION {{[i \in DOMAIN b |-> Offer(b[i], shape[i])] : shape \in [DOMAIN b -> Shapes(Vendor)]} : b \in bars}

----------------------------------------------------------------------------
\* CandleIngestService.sync, one step per await.

Sync(r) ==
  /\ stage[r] = "new"
  /\ op' = [op EXCEPT ![r] = "sync"]
  /\ IF Serves(Vendor, Timeframe) THEN GoTo(r, "fetch") ELSE Ends(r, HttpStatusFor("unsupported_capability"))
  /\ UNCHANGED <<source, now, store, attempts, fetched, quoted, refused, offered, streamVars>>

\* Slip: one attempt too many.
MayRetryOnceMore(r, code) == Retryable(code) /\ attempts[r] < Retries

MayRetry(r, code) == Retryable(code) /\ attempts[r] + 1 < Retries

\* _dedupe changes nothing: no adapter returns two candles that open together
\* but of the same bar.
Fetch(r) ==
  /\ stage[r] = "fetch"
  /\ \E reply \in Replies(Vendor, Offers), limit \in Limits :
       LET result == Attempted(Vendor, reply, limit)
       IN /\ attempts' = [attempts EXCEPT ![r] = IF result.code = "ok" THEN 0 ELSE @ + 1]
          /\ refused' = [refused EXCEPT ![r] = Refuses(Vendor, reply)]
          /\ \/ /\ result.code = "ok" /\ result.candles # <<>>
                /\ Holds(r, result.candles)
                /\ offered' = [offered EXCEPT ![r] = {CandleOf(row) : row \in {w \in Range(reply.rows) : Whole(w)}}]
             \/ /\ \/ result = Candles(<<>>) /\ Ends(r, 201)
                   \/ MayRetry(r, result.code) /\ UNCHANGED <<stage, answer>>
                   \/ /\ result.code # "ok" /\ ~MayRetry(r, result.code)
                      /\ Ends(r, HttpStatusFor(Wrapped(result.code)))
                /\ UNCHANGED <<fetched, offered>>
  /\ UNCHANGED <<source, now, store, op, quoted, streamVars>>

\* ingest_raw: candles of a recorded feed, as the market stood, unless one lacks
\* its symbol.  It has no route either: its caller is answered here as
\* http_status_for would have it.
IngestRaw(r) ==
  /\ stage[r] = "new"
  /\ op' = [op EXCEPT ![r] = "raw"]
  /\ \/ Ends(r, 200) /\ UNCHANGED <<fetched, offered>>
     \/ Ends(r, HttpStatusFor("malformed_data")) /\ UNCHANGED <<fetched, offered>>
     \/ \E from \in Opened :
          LET cs == [i \in 1 .. Max(Opened) - from + 1 |-> CandleOf(Offer(from + i - 1, "whole"))]
          IN Holds(r, cs) /\ offered' = [offered EXCEPT ![r] = Range(cs)]
  /\ UNCHANGED <<source, now, store, attempts, quoted, refused, streamVars>>

\* _ensure_table.
CreateTable(r) ==
  /\ stage[r] = "table"
  /\ initialized' = TRUE
  /\ GoTo(r, IF op[r] = "query" THEN "read" ELSE "insert")
  /\ UNCHANGED <<source, now, table, passed, op, attempts, fetched, quoted, refused, offered, streamVars>>

\* Slip: of the rows of a bar the first stays.
UpsertOnce(r) == [bar \in Bars |->
  IF table[bar] = NoRow /\ \E c \in Range(fetched[r]) : c.at = bar
    THEN LET c == CHOOSE c \in Range(fetched[r]) : c.at = bar
         IN [at |-> bar, of |-> c.of, version |-> c.version, by |-> r]
    ELSE table[bar]]

\* ReplacingMergeTree, read with FINAL: of the rows of a bar the one inserted last stays.
Upsert(r) == [bar \in Bars |->
  IF \E c \in Range(fetched[r]) : c.at = bar
    THEN LET c == CHOOSE c \in Range(fetched[r]) : c.at = bar
         IN [at |-> bar, of |-> c.of, version |-> c.version, by |-> r]
    ELSE table[bar]]

Inserted(r) ==
  /\ table' = Upsert(r)
  /\ passed' = [q \in Requests |-> IF q # r /\ q \in InHand THEN passed[q] \cup {r} ELSE passed[q]]
  /\ offered' = [offered EXCEPT ![r] = {}]
  /\ UNCHANGED initialized

Insert(r) ==
  /\ stage[r] = "insert"
  /\ Inserted(r)
  /\ GoTo(r, "publish")
  /\ UNCHANGED <<source, now, op, attempts, fetched, quoted, refused, streamVars>>

\* A sync announces all its candles in one event, a feed each in its own.
Event(r) ==
  LET sent == Cardinality({i \in Ids : stream[i].by = r})
  IN [by |-> r, candles |-> IF op[r] = "sync" THEN fetched[r] ELSE <<fetched[r][sent + 1]>>]

Announced(r) ==
  \/ op[r] = "sync"
  \/ Cardinality({i \in Ids : stream[i].by = r}) + 1 = Len(fetched[r])

Publish(r) ==
  /\ stage[r] = "publish"
  /\ XAdd(Event(r))
  /\ IF Announced(r) THEN Ends(r, IF op[r] = "sync" THEN 201 ELSE 200) ELSE UNCHANGED <<stage, answer>>
  /\ UNCHANGED <<source, now, store, op, attempts, fetched, quoted, refused, offered, reading, mishaps>>

----------------------------------------------------------------------------
\* get_candles: CandleQueryService.range over the table.

Query(r) ==
  /\ stage[r] = "new"
  /\ op' = [op EXCEPT ![r] = "query"]
  /\ GoTo(r, IF initialized THEN "read" ELSE "table")
  /\ UNCHANGED <<source, now, store, attempts, fetched, quoted, refused, offered, streamVars>>

StoredCandle(row) == [at |-> row.at, of |-> row.of, version |-> row.version]

\* The rows between two bars, both included, in ascending time.
QueryRange(start, end) ==
  LET found == Ascending({bar \in start .. end : table[bar] # NoRow})
  IN [i \in DOMAIN found |-> StoredCandle(table[found[i]])]

ReadRange(r) ==
  /\ stage[r] = "read"
  /\ \E start, end \in Bars : fetched' = [fetched EXCEPT ![r] = QueryRange(start, end)]
  /\ Ends(r, 200)
  /\ UNCHANGED <<source, now, store, op, attempts, quoted, refused, offered, streamVars>>

----------------------------------------------------------------------------
\* fetch_tickers of the adapter, which has no route: its caller is answered
\* like ingest_raw's.

FetchTickers(r) ==
  /\ stage[r] = "new"
  /\ op' = [op EXCEPT ![r] = "tickers"]
  /\ GoTo(r, "quote")
  /\ UNCHANGED <<source, now, store, attempts, fetched, quoted, refused, offered, streamVars>>

\* A policy run for each symbol.  A symbol that fails ends the call, and with it
\* go the tickers got so far.
Quote(r) ==
  /\ stage[r] = "quote"
  /\ \E reply \in QuoteReplies(Vendor) :
       LET code == Quoted(Vendor, reply)
       IN /\ attempts' = [attempts EXCEPT ![r] = IF code = "ok" THEN 0 ELSE @ + 1]
          /\ refused' = [refused EXCEPT ![r] = Refuses(Vendor, reply)]
          /\ \/ /\ code = "ok"
                /\ \/ Vendor = "binance" /\ Ends(r, 200) /\ UNCHANGED quoted
                   \/ /\ Vendor # "binance"
                      /\ quoted' = [quoted EXCEPT ![r] = Append(@, Asked[Len(@) + 1])]
                      /\ IF Len(quoted'[r]) = Len(Asked) THEN Ends(r, 200) ELSE UNCHANGED <<stage, answer>>
             \/ MayRetry(r, code) /\ UNCHANGED <<stage, answer, quoted>>
             \/ /\ code # "ok" /\ ~MayRetry(r, code)
                /\ quoted' = [quoted EXCEPT ![r] = <<>>]
                /\ Ends(r, IF code = "raised" THEN 500 ELSE HttpStatusFor(Wrapped(code)))
  /\ UNCHANGED <<source, now, store, op, fetched, offered, streamVars>>

----------------------------------------------------------------------------
\* Failures, and the market.

\* The store or the stream raises, without effect ...
CallFails(r) ==
  /\ stage[r] \in Waiting \ AtVendor /\ Mishap
  /\ Ends(r, 500)
  /\ UNCHANGED <<source, now, store, op, attempts, fetched, quoted, refused, offered, stream, reading>>

\* ... or after it took effect.
AnswerLost(r) ==
  /\ Mishap
  /\ Ends(r, 500)
  /\ \/ stage[r] = "insert" /\ Inserted(r) /\ UNCHANGED stream
     \/ stage[r] = "publish" /\ XAdd(Event(r)) /\ UNCHANGED <<store, offered>>
  /\ UNCHANGED <<source, now, op, attempts, fetched, quoted, refused, reading>>

\* The process stops: its requests are never answered.
Crash ==
  /\ Mishap
  /\ \E r \in Requests : stage[r] \in Waiting
  /\ stage' = [r \in Requests |-> IF stage[r] \in Waiting THEN "done" ELSE stage[r]]
  /\ initialized' = FALSE
  /\ UNCHANGED <<source, now, table, passed, op, attempts, fetched, quoted, answer, refused, offered, stream, reading>>

Tick ==
  /\ now < MaxTicks
  /\ now' = now + 1
  /\ UNCHANGED <<source, store, request, streamVars>>

Serve(r) ==
  \/ Fetch(r) \/ CreateTable(r) \/ Insert(r) \/ Publish(r)
  \/ ReadRange(r) \/ Quote(r)

Next ==
  \/ \E r \in Requests : \/ Sync(r) \/ IngestRaw(r) \/ Query(r) \/ FetchTickers(r)
                         \/ Serve(r) \/ CallFails(r) \/ AnswerLost(r)
  \/ Crash \/ Tick
  \/ (StartConsumer \/ Consume \/ RestartConsumer) /\ UNCHANGED <<source, now, store, request>>

Spec == Init /\ [][Next]_vars

\* Nobody need start the consumer; of one that was started, whatever it awaits
\* comes or fails.
FairSpec == Spec /\ WF_vars(Consume /\ UNCHANGED <<source, now, store, request>>)

----------------------------------------------------------------------------
\* Every variable has its type.
TypeOK ==
  /\ source \in Sources /\ now \in 0 .. MaxTicks
  /\ table \in [Bars -> Row \cup {NoRow}] /\ initialized \in BOOLEAN
  /\ op \in [Requests -> {"none", "sync", "raw", "query", "tickers"}] /\ stage \in [Requests -> Waiting \cup {"new", "done"}]
  /\ attempts \in [Requests -> 0 .. Retries]
  /\ fetched \in [Requests -> Seq(Candle)]
  /\ quoted \in [Requests -> Seq(Range(Asked))]
  /\ answer \in [Requests -> {0, 200, 201, 400, 401, 429, 500, 502, 504}]
  /\ refused \in [Requests -> BOOLEAN]
  /\ offered \in [Requests -> SUBSET Candle] /\ passed \in [Requests -> SUBSET Requests]
  /\ StreamTypeOK

\* What a request is about to append are candles the vendor offered it, prices
\* and opening time of one bar, in ascending time without repetition, and none it offered is newer:
\* through nulls, empty rows, repeated rows, reversed series and limits.
CandlesAreNewest ==
  \A r \in InHand :
    LET cs == fetched[r]
    IN /\ Range(cs) \subseteq offered[r]
       /\ \A i, j \in DOMAIN cs : i < j => cs[i].at < cs[j].at
       /\ \A c \in offered[r] : c.at <= Last(cs).at

\* Whoever is answered tickers has one of each symbol asked for, in that order,
\* through failures and retries of any of them (Binance never finds any).
TickersAreWhole ==
  \A r \in Requests :
    op[r] = "tickers" /\ answer[r] = 200 => quoted[r] = IF Vendor = "binance" THEN <<>> ELSE Asked

\* What the adapters return is what the vendor sent: the newest candles, and all
\* tickers or none.
FetchedIsWhole == CandlesAreNewest /\ TickersAreWhole

\* Who hears of a candle by the stream finds its bar in the table, as it was
\* announced or later.  The one exception is a row by a request that had fetched
\* before the announced candle was appended: it goes back to what that request saw.
AnnouncedIsStored ==
  \A i \in Ids : \A c \in Range(stream[i].candles) :
    LET row == table[c.at]
    IN row # NoRow /\ (row.version >= c.version \/ stream[i].by \in passed[row.by])

\* What a vendor other than Binance refuses is not sent again, and the
\* client is told that the request is at fault.
RefusalsAreFinal ==
  [][\A r \in Requests :
       /\ refused[r] /\ Vendor # "binance" => attempts'[r] = attempts[r]
       /\ refused'[r] /\ Vendor # "binance" => answer'[r] \in 400 .. 499]_vars

\* Once a caller has started the consumer, every entry of the stream, those from
\* before included, is acknowledged, unless the consumer had no group or failed
\* while it had the entry.
EntriesAreSettled ==
  \A i \in 1 .. 2 * Cardinality(Requests) :
    i \in Ids /\ consumer # "off" ~> i \in acked \cup dropped \/ ~group
====
