---- MODULE Vendors ----
(***************************************************************************)
(* What the market data adapters make of a vendor's reply: candles in      *)
(* ascending time, or one error of core/exceptions/taxonomy.py.            *)
(*                                                                         *)
(* A candle is named by the bar it opens (at), the bar its prices belong   *)
(* to (of) and how far that bar had come when the vendor replied (version).*)
(***************************************************************************)
EXTENDS Integers, Sequences, SequencesExt, FiniteSetsExt

CONSTANT NoCode \* an error without a numeric code

ASSUME NoCodeAssumption == NoCode \notin Int

----------------------------------------------------------------------------
\* The taxonomy.

ProviderErrors == {"provider_unavailable", "rate_limited", "provider_timeout", "authentication",
                   "provider_validation", "malformed_data", "unsupported_capability"}

\* Slip: a request the vendor refused is sent again.
RetryableOrRefused(code) ==
  code \in {"provider_unavailable", "rate_limited", "provider_timeout", "provider_validation"}

Retryable(code) == code \in {"provider_unavailable", "rate_limited", "provider_timeout"}

HttpStatusFor(code) ==
  CASE code \in {"provider_unavailable", "malformed_data"} -> 502
    [] code = "provider_timeout" -> 504
    [] code = "rate_limited" -> 429
    [] code = "authentication" -> 401
    [] code \in {"provider_validation", "unsupported_capability"} -> 400

\* What is no DomainError leaves RetryPolicy as one, at once.
Wrapped(code) == IF code \in ProviderErrors THEN code ELSE "provider_unavailable"

Candles(cs) == [code |-> "ok", candles |-> cs]
Failed(code) == [code |-> code, candles |-> <<>>]

----------------------------------------------------------------------------
\* Replies.  Binance is reached through ccxt, the others by HTTP.

\* What the exceptions of ccxt derive from.
CcxtBases == [
  RateLimitExceeded |-> {"RateLimitExceeded", "NetworkError"},
  RequestTimeout |-> {"RequestTimeout", "NetworkError"},
  ExchangeNotAvailable |-> {"ExchangeNotAvailable", "NetworkError"},
  AuthenticationError |-> {"AuthenticationError", "ExchangeError"},
  BadSymbol |-> {"BadSymbol", "BadRequest", "ExchangeError"},
  ValueError |-> {"ValueError"}]

HandleBinanceError(exc) ==
  LET Is(class) == class \in CcxtBases[exc]
  IN IF Is("RateLimitExceeded") THEN "rate_limited"
     ELSE IF Is("AuthenticationError") THEN "authentication"
     ELSE IF Is("RequestTimeout") THEN "provider_timeout"
     ELSE IF Is("NetworkError") \/ Is("ExchangeError") THEN "provider_unavailable"
     ELSE IF Is("BadRequest") THEN "provider_validation"
     ELSE IF Is("ValueError") THEN "malformed_data"
     ELSE "provider_unavailable"

MapHttpError(status) ==
  IF status \in {401, 403} THEN "authentication"
  ELSE IF status = 429 THEN "rate_limited"
  ELSE IF status \in {408, 504} THEN "provider_timeout"
  ELSE IF status \in 500 .. 599 THEN "provider_unavailable"
  ELSE "provider_validation"

HandleYahooError(code) ==
  IF code \in {401, 403} THEN "authentication"
  ELSE IF code = 429 THEN "rate_limited"
  ELSE IF code \in {400, 404, 422} THEN "provider_validation"
  ELSE "provider_unavailable"

HandleTwelveDataError(code) ==
  IF code = NoCode THEN "provider_unavailable"
  ELSE IF code \in {401, 403} THEN "authentication"
  ELSE IF code = 429 THEN "rate_limited"
  ELSE IF code >= 500 THEN "provider_unavailable"
  ELSE "provider_validation"

\* Kraken answers with a list of errors; the first that is known decides.
KrakenErrors == [limit |-> "rate_limited", key |-> "authentication", pair |-> "provider_validation"]

HandleKrakenErrors(errors) ==
  LET known == {i \in DOMAIN errors : errors[i] \in DOMAIN KrakenErrors}
  IN IF known = {} THEN "provider_unavailable" ELSE KrakenErrors[errors[Min(known)]]

HandleYahooValidationError == "malformed_data"

\* JsonHttpClient.get_json.
GetJson(reply) ==
  CASE reply.kind = "timeout" -> "provider_timeout"
    [] reply.kind = "transport" -> "provider_unavailable"
    [] reply.kind = "text" -> "malformed_data"
    [] reply.kind = "status" -> MapHttpError(reply.status)
    [] reply.kind \in {"rows", "quote"} -> "ok"

\* The raw clients.  Those over HTTP find a payload without the vendor's schema malformed.
FetchOhlcv(reply) == IF reply.kind = "error" THEN HandleBinanceError(reply.exc) ELSE "ok"

Request(reply) ==
  CASE reply.kind = "schema" -> "malformed_data"
    [] reply.kind = "error" -> HandleKrakenErrors(reply.errors)
    [] OTHER -> GetJson(reply)

FetchChart(reply) ==
  CASE reply.kind = "schema" -> HandleYahooValidationError
    [] reply.kind = "error" -> HandleYahooError(reply.code)
    [] OTHER -> GetJson(reply)

FetchTimeSeries(reply) ==
  CASE reply.kind = "schema" -> "malformed_data"
    [] reply.kind = "error" -> HandleTwelveDataError(reply.code)
    [] OTHER -> GetJson(reply)

----------------------------------------------------------------------------
\* Rows.

\* The numbers of a finite set in ascending order.
Ascending(S) == [k \in 1 .. Cardinality(S) |-> CHOOSE n \in S : Cardinality({m \in S : m <= n}) = k]

\* The entries of a sequence at some of its places, in their order.
Picked(s, places) == LET at == Ascending(places) IN [k \in DOMAIN at |-> s[at[k]]]

CandleOf(row) == [at |-> row.at, of |-> row.of, version |-> row.version]
Whole(row) == row.shape = "whole"
ToCandles(rows) == [i \in DOMAIN rows |-> CandleOf(rows[i])]

\* candles[-limit:]: the last ones; of a limit of 0 Python makes the whole list,
\* and a negative one leaves out the first.
Latest(cs, limit) ==
  LET skipped == IF limit > 0 THEN Len(cs) - limit ELSE -limit
  IN IF skipped <= 0 THEN cs ELSE SubSeq(cs, skipped + 1, Len(cs))

\* _sort_unique: of candles that open together the first stays.
SortUnique(cs) ==
  LET First(at) == cs[Min({i \in DOMAIN cs : cs[i].at = at})]
      ats == Ascending({c.at : c \in Range(cs)})
  IN [i \in DOMAIN ats |-> First(ats[i])]

\* RawKline.of raises ValueError, which the mapping does not catch, for a row with
\* too few columns or an open time that is no number ("untimed").
RawKline(row) == row.shape # "untimed"

KlineFails(row) == ~RawKline(row) \/ ~Whole(row)

\* An empty row is skipped, and the first row that fails decides.
BinanceCandles(rows) ==
  LET present == {i \in DOMAIN rows : rows[i].shape # "empty"}
      bad == {i \in present : KlineFails(rows[i])}
  IN IF bad = {} THEN Candles(SortUnique(ToCandles(Picked(rows, present))))
     ELSE Failed(IF RawKline(rows[Min(bad)]) THEN "malformed_data" ELSE "unexpected")

\* What fetch_candles returns, unless nothing usable is left.
Usable(cs, limit) == IF cs = <<>> THEN Failed("malformed_data") ELSE Candles(Latest(cs, limit))

\* Slip: nulls are dropped column by column.
YahooCandlesByColumn(rows, limit) ==
  LET whole == Picked(rows, {i \in DOMAIN rows : Whole(rows[i])})
  IN Usable([i \in DOMAIN whole |-> [CandleOf(whole[i]) EXCEPT !.at = rows[i].at]], limit)

\* Yahoo pads the series with nulls: a row with one is skipped.
HasCandle(row) == row.shape # "null"

YahooCandles(rows, limit) ==
  IF \E row \in Range(rows) : row.shape = "unreadable" THEN Failed("malformed_data")
  ELSE Usable(ToCandles(Picked(rows, {i \in DOMAIN rows : HasCandle(rows[i])})), limit)

\* Twelve Data sends the newest row first, and every row must be readable.
TwelveDataCandles(rows, limit) ==
  IF \E row \in Range(rows) : ~Whole(row) THEN Failed("malformed_data")
  ELSE Usable(ToCandles(Reverse(rows)), limit)

\* Kraken sends the rows under the name of the pair, and a cursor.
KrakenResult == <<"rows", "cursor">>

\* first_entry: the places of the entries that are mappings.
FirstEntry(result) == {i \in DOMAIN result : result[i] = "mapping"}

\* A row with too few columns is skipped.
KrakenToCandles(rows, limit) ==
  IF \E row \in Range(rows) : row.shape = "unreadable" THEN Failed("malformed_data")
  ELSE Usable(ToCandles(Picked(rows, {i \in DOMAIN rows : Whole(rows[i])})), limit)

\* The adapter asks for the first entry, wanted or not, and of candles there is none.
KrakenCandles(rows, limit) ==
  IF FirstEntry(KrakenResult) = {} THEN Failed("malformed_data") ELSE KrakenToCandles(rows, limit)

----------------------------------------------------------------------------
\* fetch_candles: one attempt of Policy.run and what becomes of its result.

FetchCandles(vendor, rows, limit) ==
  CASE vendor = "binance" -> BinanceCandles(rows)
    [] vendor = "kraken" -> KrakenCandles(rows, limit)
    [] vendor = "yahoo" -> YahooCandles(rows, limit)
    [] vendor = "twelvedata" -> TwelveDataCandles(rows, limit)

Client(vendor, reply) ==
  CASE vendor = "binance" -> FetchOhlcv(reply)
    [] vendor = "kraken" -> Request(reply)
    [] vendor = "yahoo" -> FetchChart(reply)
    [] vendor = "twelvedata" -> FetchTimeSeries(reply)

\* circuit: the breaker is open.  overdue: the policy's timeout, a TimeoutError.
Attempted(vendor, reply, limit) ==
  CASE reply.kind = "circuit" -> Failed("provider_unavailable")
    [] reply.kind = "overdue" -> Failed("unexpected")
    [] reply.kind = "rows" /\ Client(vendor, reply) = "ok" -> FetchCandles(vendor, reply.rows, limit)
    [] OTHER -> Failed(Client(vendor, reply))

\* The timeframes a vendor has a name for; Binance and Kraken have one for each.
YahooIntervals == {"1m", "5m", "1h", "1d"}
TwelveDataIntervals == {"1m", "5m", "1h", "4h", "1d"}

\* Others are refused before anything is sent.
Serves(vendor, timeframe) ==
  /\ vendor = "yahoo" => timeframe \in YahooIntervals
  /\ vendor = "twelvedata" => timeframe \in TwelveDataIntervals

----------------------------------------------------------------------------
\* fetch_tickers: one attempt for a quote of a symbol (Binance: of all of them) and to_ticker.

FetchTickersRaw(reply) == IF reply.kind = "error" THEN HandleBinanceError(reply.exc) ELSE "ok"

FetchQuote(reply) ==
  CASE reply.kind = "schema" -> "malformed_data"
    [] reply.kind = "error" -> HandleTwelveDataError(reply.code)
    [] OTHER -> GetJson(reply)

QuoteClient(vendor, reply) ==
  CASE vendor = "binance" -> FetchTickersRaw(reply)
    [] vendor = "kraken" -> Request(reply)
    [] vendor = "yahoo" -> FetchChart(reply)
    [] vendor = "twelvedata" -> FetchQuote(reply)

\* to_ticker reads the fields Binance sends, ccxt answers with its own: an entry
\* has no closeTime.  Symbols without an entry are left out.
BinanceTickers(quote) == IF quote = "none" THEN "ok" ELSE "malformed_data"

KrakenTicker(quote) == IF quote = "whole" THEN "ok" ELSE "malformed_data"

\* No price, or no time.
YahooTicker(quote) == IF quote = "null" THEN "malformed_data" ELSE "ok"

\* The volume is converted outside the try.
TwelveDataTicker(quote) ==
  CASE quote = "whole" -> "ok"
    [] quote \in {"null", "unreadable"} -> "malformed_data"
    [] quote = "volume" -> "raised"

ToTicker(vendor, quote) ==
  CASE vendor = "binance" -> BinanceTickers(quote)
    [] vendor = "kraken" -> KrakenTicker(quote)
    [] vendor = "yahoo" -> YahooTicker(quote)
    [] vendor = "twelvedata" -> TwelveDataTicker(quote)

Quoted(vendor, reply) ==
  CASE reply.kind = "circuit" -> "provider_unavailable"
    [] reply.kind = "overdue" -> "unexpected"
    [] reply.kind = "quote" /\ QuoteClient(vendor, reply) = "ok" -> ToTicker(vendor, reply.quote)
    [] OTHER -> QuoteClient(vendor, reply)

----------------------------------------------------------------------------
\* The replies a vendor sends when it offers these rows.

HttpReplies ==
  [kind : {"timeout", "transport", "text", "schema"}] \cup [kind : {"status"}, status : {401, 404, 408, 429, 500}]

ErrorReplies(vendor) ==
  CASE vendor = "binance" -> [kind : {"error"}, exc : DOMAIN CcxtBases]
    [] vendor = "kraken" -> [kind : {"error"}, errors : {<<"limit", "pair">>, <<"other", "pair">>, <<"key">>, <<"other">>}]
    [] OTHER -> [kind : {"error"}, code : {400, 401, 429, 500, NoCode}]

Shapes(vendor) ==
  CASE vendor = "binance" -> {"whole", "empty", "untimed", "unreadable"}
    [] vendor = "kraken" -> {"whole", "short", "unreadable"}
    [] OTHER -> {"whole", "null", "unreadable"}

Replies(vendor, offers) ==
  [kind : {"circuit", "overdue"}] \cup ErrorReplies(vendor)
  \cup [kind : {"rows"}, rows : offers]
  \cup IF vendor = "binance" THEN {} ELSE HttpReplies

Quotes(vendor) ==
  CASE vendor = "binance" -> {"none", "entry"}
    [] vendor = "kraken" -> {"whole", "none", "unreadable"}
    [] vendor = "yahoo" -> {"whole", "null"}
    [] vendor = "twelvedata" -> {"whole", "null", "unreadable", "volume"}

QuoteReplies(vendor) ==
  [kind : {"circuit", "overdue"}] \cup ErrorReplies(vendor)
  \cup [kind : {"quote"}, quote : Quotes(vendor)]
  \cup IF vendor = "binance" THEN {} ELSE HttpReplies

\* The vendor will not serve this request however often it is sent.
Refuses(vendor, reply) ==
  \/ reply.kind = "status" /\ reply.status \in {401, 404}
  \/ /\ reply.kind = "error"
     /\ CASE vendor = "binance" -> reply.exc \in {"AuthenticationError", "BadSymbol"}
          [] vendor = "kraken" -> Head(reply.errors) \in {"key", "pair"}
          [] OTHER -> reply.code \in {400, 401}
====
