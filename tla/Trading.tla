---- MODULE Trading ----
(***************************************************************************)
(* The order path: PlaceOrderService.execute over the order repository,    *)
(* the risk gate, the paper or the ccxt gateway, the position repository   *)
(* and the event bus.  Each call of execute is a request; it runs one step *)
(* per await, and other requests, operators and the venue run in between.  *)
(*                                                                         *)
(* The paper and the live endpoint differ in the gateway alone: a command  *)
(* says which it went to, and both write the same tables.                  *)
(*                                                                         *)
(* A request is also the call of check_order it makes (module RiskGate)    *)
(* and the id of the order it creates.                                     *)
(***************************************************************************)
EXTENDS RiskGate, Portfolio, FiniteSetsExt

CONSTANTS Commands,      \* the orders clients may ask for, live or on paper
          Upper,         \* str.upper on symbols: a function
          Blank,         \* a text of blanks only
          VenuePrices,   \* average prices the exchange may report
          Tick,          \* 1E-8 in the last decimal of the columns
          NoCommand, NoOrder, NoRow, NoPrice,
          MaxPerSymbol,  \* bound on requests in flight for a symbol
          MaxFailures    \* bound on failing calls and crashes together

Requests == Checks

ClientIds == {c.client_order_id : c \in Commands}

Symbols == {Upper[c.symbol] : c \in Commands}

ASSUME CommandsAssumption ==
  \A c \in Commands : /\ c.side \in Sides
                      /\ c.quantity \in Nat \ {0}
                      /\ c.price \in Nat \ {0}
                      /\ c.equity \in Nat \ {0}
                      /\ c.live \in BOOLEAN
ASSUME GatewayAssumption == VenuePrices \subseteq Nat \ {0} /\ Tick \in Nat \ {0}
ASSUME MarkersAssumption ==
  /\ NoCommand \notin Commands \cup ClientIds
  /\ NoRow \notin Position
ASSUME LimitsAssumption == MaxPerSymbol \in Nat /\ MaxFailures \in Nat

VARIABLES pc,        \* where each request is
          command,   \* its command
          order,     \* the order it holds: created, submitted or found
          work,      \* the position it is about to save, and the row save loaded
          orders,    \* the table trade_orders
          positions, \* the table positions
          venue,     \* what the exchange did with the order of each request
          published, \* requests whose OrderStateChanged reached the bus
          failures,  \* number of failed calls and crashes so far
          settled,   \* history: the client id had an order when the request arrived
          lineage,   \* history: the orders whose fills a position row adds up
          posted     \* history: requests whose position was committed

asked == <<command, settled>>
held == <<asked, order, work>>
table == <<positions, lineage, posted>>
world == <<orders, table, venue, published>>
tradingVars == <<pc, held, world, failures>>
vars == <<gateVars, tradingVars>>

Awaiting == {"lookup", "gate", "submit", "save", "position", "load", "commit", "publish"}
Ended == {"ok", "err", "raised", "lost"}

InFlight == {r \in Requests : pc[r] \in Awaiting}

SymbolOf(r) == Upper[command[r].symbol]

InFlightFor(symbol) == {r \in InFlight : SymbolOf(r) = symbol}

RowsOf(id) == {o \in orders : o.client_order_id = id}

----------------------------------------------------------------------------
\* Orders and gateways.

OrderRecord ==
  [id: Requests, client_order_id: ClientIds, symbol: Symbols, side: Sides,
   quantity: Nat \ {0}, status: {"pending", "filled"}, executed_price: Nat \cup {NoPrice}]

\* What TradeOrder.create insists on that the request's schema does not.
Creatable(c) == c.symbol # Blank /\ c.client_order_id # Blank

\* Slip: the symbol is kept as the client wrote it.
CreatedInGivenCase(r, c) ==
  [id |-> r, client_order_id |-> c.client_order_id, symbol |-> c.symbol, side |-> c.side,
   quantity |-> c.quantity, status |-> "pending", executed_price |-> NoPrice]

\* TradeOrder.create: the request's id stands for the fresh uuid.
Created(r, c) ==
  [id |-> r, client_order_id |-> c.client_order_id, symbol |-> Upper[c.symbol], side |-> c.side,
   quantity |-> c.quantity, status |-> "pending", executed_price |-> NoPrice]

\* TradeOrder.fill: always of the whole quantity.
Filled(o, price) == [o EXCEPT !.status = "filled", !.executed_price = price]

\* quantize(1E-8), half to even.
Quantized(price) ==
  LET ticks == price \div Tick
      rest == price % Tick
      up == 2 * rest > Tick \/ (2 * rest = Tick /\ ticks % 2 = 1)
  IN  Tick * (IF up THEN ticks + 1 ELSE ticks)

\* CcxtOrderGateway after create_order answered: any fill counts as the whole.
Submitted(o, c, status, filled, average) ==
  IF status = "closed" \/ filled > 0
    THEN Filled(o, IF average = NoPrice THEN c.price ELSE average)
    ELSE o

VenueOrders ==
  [state: {"none", "sent", "accepted", "rejected"}, status: {"open", "closed"}, reported: Nat, filled: Nat]

NoVenueOrder == [state |-> "none", status |-> "open", reported |-> 0, filled |-> 0]

NoWork == [position |-> EmptyPosition, loaded |-> NoRow, lineage |-> {}]

ASSUME NoOrderAssumption == NoOrder \notin OrderRecord

Init ==
  /\ GateInit
  /\ pc = [r \in Requests |-> "idle"]
  /\ command = [r \in Requests |-> NoCommand]
  /\ order = [r \in Requests |-> NoOrder]
  /\ work = [r \in Requests |-> NoWork]
  /\ orders = {}
  /\ positions = [s \in Symbols |-> NoRow]
  /\ venue = [r \in Requests |-> NoVenueOrder]
  /\ published = {}
  /\ failures = 0
  /\ settled = [r \in Requests |-> FALSE]
  /\ lineage = [s \in Symbols |-> {}]
  /\ posted = {}

GoTo(r, stage) == pc' = [pc EXCEPT ![r] = stage]

----------------------------------------------------------------------------
\* PlaceOrderService.execute.

Arrive(r, c) ==
  /\ pc[r] = "idle"
  /\ Cardinality(InFlightFor(Upper[c.symbol])) < MaxPerSymbol
  /\ GoTo(r, "lookup")
  /\ command' = [command EXCEPT ![r] = c]
  /\ settled' = [settled EXCEPT ![r] = RowsOf(c.client_order_id) # {}]
  /\ UNCHANGED <<gateVars, order, work, world, failures>>

\* Slip: the fill of the order found is applied again.
LookupFindsAndApplies(r) ==
  /\ pc[r] = "lookup"
  /\ \E o \in RowsOf(command[r].client_order_id) : order' = [order EXCEPT ![r] = o]
  /\ GoTo(r, IF order'[r].status = "filled" THEN "position" ELSE "ok")
  /\ UNCHANGED <<gateVars, asked, work, world, failures>>

\* An order under the client id answers the request.
LookupFinds(r) ==
  /\ pc[r] = "lookup"
  /\ \E o \in RowsOf(command[r].client_order_id) : order' = [order EXCEPT ![r] = o]
  /\ GoTo(r, "ok")
  /\ UNCHANGED <<gateVars, asked, work, world, failures>>

\* Slip: the gate is asked whatever the lookup found.
LookupIgnored(r) ==
  /\ pc[r] = "lookup"
  /\ BeginCheck(r, PositionShare(command[r].quantity * command[r].price, command[r].equity * Scale), 0)
  /\ GoTo(r, "gate")
  /\ UNCHANGED <<held, world, failures>>

\* None: the risk gate is asked.
LookupMisses(r) ==
  LET c == command[r] IN
  /\ pc[r] = "lookup"
  /\ RowsOf(c.client_order_id) = {}
  /\ BeginCheck(r, PositionShare(c.quantity * c.price, c.equity * Scale), 0)
  /\ GoTo(r, "gate")
  /\ UNCHANGED <<held, world, failures>>

GateReadsSwitch(r) ==
  /\ pc[r] = "gate"
  /\ ReadSwitch(r)
  /\ GoTo(r, IF check'[r].stage = "refused" THEN "err" ELSE "gate")
  /\ UNCHANGED <<held, world, failures>>

\* The order passes no further: refused by the gate, or it cannot be created, or
\* its paper price rounds to nothing.
GateReadsProfileAndStops(r) ==
  LET c == command[r] IN
  /\ pc[r] = "gate"
  /\ ReadProfile(r)
  /\ \/ check'[r].stage = "refused"
     \/ check'[r].stage = "approved" /\ ~Creatable(c)
     \/ check'[r].stage = "approved" /\ ~c.live /\ Quantized(c.price) = 0
  /\ GoTo(r, "err")
  /\ UNCHANGED <<held, world, failures>>

\* The paper gateway fills the order at once, without an await.
GateReadsProfileAndFillsOnPaper(r) ==
  LET c == command[r] IN
  /\ pc[r] = "gate"
  /\ ReadProfile(r)
  /\ check'[r].stage = "approved"
  /\ Creatable(c)
  /\ ~c.live
  /\ Quantized(c.price) > 0
  /\ order' = [order EXCEPT ![r] = Filled(Created(r, c), Quantized(c.price))]
  /\ GoTo(r, "save")
  /\ UNCHANGED <<asked, work, world, failures>>

\* The ccxt gateway sends the order, without its client id.
GateReadsProfileAndSends(r) ==
  LET c == command[r] IN
  /\ pc[r] = "gate"
  /\ ReadProfile(r)
  /\ check'[r].stage = "approved"
  /\ Creatable(c)
  /\ c.live
  /\ order' = [order EXCEPT ![r] = Created(r, c)]
  /\ venue' = [venue EXCEPT ![r].state = "sent"]
  /\ GoTo(r, "submit")
  /\ UNCHANGED <<asked, work, orders, table, published, failures>>

VenueAnswers(r) ==
  /\ pc[r] = "submit"
  /\ venue[r].state = "accepted"
  /\ \E average \in VenuePrices \cup {NoPrice} :
       order' = [order EXCEPT ![r] =
         Submitted(order[r], command[r], venue[r].status, venue[r].reported, average)]
  /\ GoTo(r, "save")
  /\ UNCHANGED <<gateVars, asked, work, world, failures>>

\* Slip: a refused order is sent again.
VenueRefusesAndIsAskedAgain(r) ==
  /\ pc[r] = "submit"
  /\ venue[r].state = "rejected"
  /\ venue' = [venue EXCEPT ![r].state = "sent"]
  /\ UNCHANGED <<gateVars, pc, held, orders, table, published, failures>>

VenueRefuses(r) ==
  /\ pc[r] = "submit"
  /\ venue[r].state = "rejected"
  /\ GoTo(r, "err")
  /\ UNCHANGED <<gateVars, held, world, failures>>

\* The call ends in an exception whatever the exchange did or will do with it.
VenueTimesOut(r) ==
  /\ pc[r] = "submit"
  /\ failures < MaxFailures
  /\ failures' = failures + 1
  /\ GoTo(r, "err")
  /\ UNCHANGED <<gateVars, held, world>>

\* Slip: the column client_order_id is not unique.
InsertableById(r) == \A o \in orders : o.id # order[r].id

\* The row is inserted unless the client id is taken.
Insertable(r) == RowsOf(order[r].client_order_id) = {}

\* Slip: an upsert on the client id.
UpsertOrder(r) ==
  orders' = (orders \ RowsOf(order[r].client_order_id)) \cup {order[r]}

InsertOrder(r) ==
  /\ Insertable(r)
  /\ orders' = orders \cup {order[r]}

\* Slip: the event is published at once, the position is left for later.
SaveThenPublish(r) ==
  /\ pc[r] = "save"
  /\ InsertOrder(r)
  /\ GoTo(r, "publish")
  /\ UNCHANGED <<gateVars, held, table, venue, published, failures>>

Save(r) ==
  /\ pc[r] = "save"
  /\ InsertOrder(r)
  /\ GoTo(r, IF order[r].status = "filled" THEN "position" ELSE "publish")
  /\ UNCHANGED <<gateVars, held, table, venue, published, failures>>

\* Slip: the integrity error is taken for a success.
SaveCollidesUnnoticed(r) ==
  /\ pc[r] = "save"
  /\ ~Insertable(r)
  /\ GoTo(r, "publish")
  /\ UNCHANGED <<gateVars, held, world, failures>>

SaveCollides(r) ==
  /\ pc[r] = "save"
  /\ ~Insertable(r)
  /\ GoTo(r, "raised")
  /\ UNCHANGED <<gateVars, held, world, failures>>

\* Slip: the fill is applied to an empty position.
ReadPositionAfresh(r) ==
  /\ pc[r] = "position"
  /\ work' = [work EXCEPT ![r] =
       [position |-> ApplyFill(EmptyPosition, order[r].side, order[r].quantity, order[r].executed_price),
        loaded   |-> NoRow,
        lineage  |-> {r}]]
  /\ GoTo(r, "load")
  /\ UNCHANGED <<gateVars, asked, order, world, failures>>

\* positions.get, and apply_fill on what it returns.
ReadPosition(r) ==
  LET symbol == order[r].symbol
      row == IF positions[symbol] = NoRow THEN EmptyPosition ELSE positions[symbol]
  IN
  /\ pc[r] = "position"
  /\ work' = [work EXCEPT ![r] =
       [position |-> ApplyFill(row, order[r].side, order[r].quantity, order[r].executed_price),
        loaded   |-> NoRow,
        lineage  |-> lineage[symbol] \cup {r}]]
  /\ GoTo(r, "load")
  /\ UNCHANGED <<gateVars, asked, order, world, failures>>

\* positions.save: the session loads the row ...
LoadRow(r) ==
  /\ pc[r] = "load"
  /\ work' = [work EXCEPT ![r].loaded = positions[order[r].symbol]]
  /\ GoTo(r, "commit")
  /\ UNCHANGED <<gateVars, asked, order, world, failures>>

\* ... and commits: an insert when it found none, else an update of the columns
\* whose new value differs from the loaded one.
Flushed(row, loaded, new) ==
  [quantity |-> IF new.quantity = loaded.quantity THEN row.quantity ELSE new.quantity,
   average  |-> IF new.average = loaded.average THEN row.average ELSE new.average,
   realized |-> IF new.realized = loaded.realized THEN row.realized ELSE new.realized]

RowCollides(r) == work[r].loaded = NoRow /\ positions[order[r].symbol] # NoRow

WriteRow(r) ==
  LET symbol == order[r].symbol
      new == work[r].position
      loaded == work[r].loaded
  IN
  /\ ~RowCollides(r)
  /\ positions' = [positions EXCEPT ![symbol] =
       IF loaded = NoRow THEN new ELSE Flushed(positions[symbol], loaded, new)]
  /\ lineage' = [lineage EXCEPT ![symbol] =
       IF loaded # NoRow /\ new.quantity = loaded.quantity THEN lineage[symbol] ELSE work[r].lineage]
  /\ posted' = posted \cup {r}

CommitPosition(r) ==
  /\ pc[r] = "commit"
  /\ WriteRow(r)
  /\ GoTo(r, "publish")
  /\ UNCHANGED <<gateVars, held, orders, venue, published, failures>>

CommitCollides(r) ==
  /\ pc[r] = "commit"
  /\ RowCollides(r)
  /\ GoTo(r, "raised")
  /\ UNCHANGED <<gateVars, held, world, failures>>

Publish(r) ==
  /\ pc[r] = "publish"
  /\ published' = published \cup {r}
  /\ GoTo(r, "ok")
  /\ UNCHANGED <<gateVars, held, orders, table, venue, failures>>

Serve(r) ==
  \/ LookupFinds(r) \/ LookupMisses(r)
  \/ GateReadsSwitch(r)
  \/ GateReadsProfileAndStops(r) \/ GateReadsProfileAndFillsOnPaper(r) \/ GateReadsProfileAndSends(r)
  \/ VenueAnswers(r) \/ VenueRefuses(r)
  \/ Save(r) \/ SaveCollides(r)
  \/ ReadPosition(r) \/ LoadRow(r) \/ CommitPosition(r) \/ CommitCollides(r)
  \/ Publish(r)

----------------------------------------------------------------------------
\* Failures: execute catches none of them, so the request ends in a 500.

\* A call to Postgres or Redis fails without effect.
CallFails(r) ==
  /\ pc[r] \in Awaiting \ {"submit"}
  /\ failures < MaxFailures
  /\ failures' = failures + 1
  /\ GoTo(r, "raised")
  /\ UNCHANGED <<gateVars, held, world>>

\* A write takes effect and its answer is lost.
AnswerLost(r) ==
  /\ failures < MaxFailures
  /\ failures' = failures + 1
  /\ \/ pc[r] = "save" /\ InsertOrder(r) /\ UNCHANGED <<table, published>>
     \/ pc[r] = "commit" /\ WriteRow(r) /\ UNCHANGED <<orders, published>>
     \/ pc[r] = "publish" /\ published' = published \cup {r} /\ UNCHANGED <<orders, table>>
  /\ GoTo(r, "raised")
  /\ UNCHANGED <<gateVars, held, venue>>

\* The process stops: what the requests hold in memory is gone, what was stored
\* or sent is not.
Crash ==
  /\ failures < MaxFailures
  /\ failures' = failures + 1
  /\ InFlight # {}
  /\ pc' = [r \in Requests |-> IF r \in InFlight THEN "lost" ELSE pc[r]]
  /\ check' = [r \in Requests |-> IF r \in InFlight THEN IdleCheck ELSE check[r]]
  /\ announcing' = 0
  /\ UNCHANGED <<switch, profile, alarms, breaches, commands, damage, intent, window>>
  /\ UNCHANGED <<held, world>>

----------------------------------------------------------------------------
\* The exchange: it takes an order it was sent, fills some of it, and may go on
\* filling it later; the program is told what was filled when it was taken.

VenueAccepts(r) ==
  /\ venue[r].state = "sent"
  /\ \E filled \in 0..command[r].quantity :
       \E status \in {"open"} \cup (IF filled = command[r].quantity THEN {"closed"} ELSE {}) :
         venue' = [venue EXCEPT ![r] = [state |-> "accepted", status |-> status,
                                        reported |-> filled, filled |-> filled]]
  /\ UNCHANGED <<gateVars, pc, held, orders, table, published, failures>>

VenueRejects(r) ==
  /\ venue[r].state = "sent"
  /\ venue' = [venue EXCEPT ![r].state = "rejected"]
  /\ UNCHANGED <<gateVars, pc, held, orders, table, published, failures>>

VenueFills(r) ==
  /\ venue[r].state = "accepted"
  /\ venue[r].status = "open"
  /\ venue[r].filled < command[r].quantity
  /\ venue' = [venue EXCEPT ![r].filled = @ + 1]
  /\ UNCHANGED <<gateVars, pc, held, orders, table, published, failures>>

Operate == StoreNext /\ UNCHANGED tradingVars

Next ==
  \/ \E r \in Requests :
       \/ \E c \in Commands : Arrive(r, c)
       \/ Serve(r)
       \/ VenueTimesOut(r) \/ CallFails(r) \/ AnswerLost(r)
       \/ VenueAccepts(r) \/ VenueRejects(r) \/ VenueFills(r)
  \/ Crash
  \/ Operate

Spec == Init /\ [][Next]_vars

\* Awaits resume, the exchange answers what it was sent, and a published kill
\* switch is published: nothing obliges clients or operators to act.
Fairness ==
  /\ \A r \in Requests : WF_vars(Serve(r)) /\ WF_vars(VenueAccepts(r) \/ VenueRejects(r))
  /\ WF_vars(AnnounceKillSwitch /\ UNCHANGED tradingVars)

FairSpec == Spec /\ Fairness

----------------------------------------------------------------------------

TypeOK ==
  /\ GateTypeOK
  /\ pc \in [Requests -> {"idle"} \cup Awaiting \cup Ended]
  /\ command \in [Requests -> Commands \cup {NoCommand}]
  /\ order \in [Requests -> OrderRecord \cup {NoOrder}]
  /\ work \in [Requests -> [position: Position, loaded: Position \cup {NoRow}, lineage: SUBSET Requests]]
  /\ orders \subseteq OrderRecord
  /\ positions \in [Symbols -> Position \cup {NoRow}]
  /\ venue \in [Requests -> VenueOrders]
  /\ published \subseteq Requests
  /\ failures \in 0..MaxFailures
  /\ settled \in [Requests -> BOOLEAN]
  /\ lineage \in [Symbols -> SUBSET Requests]
  /\ posted \subseteq Requests

\* A client id has one order, however many requests carry it, fail or are lost.
OneOrderPerClientId ==
  \A o1, o2 \in orders : o1.client_order_id = o2.client_order_id => o1 = o2

\* Whoever is answered Ok holds the order the table has under the client id of
\* its command: no acknowledged order is lost, and all answers for an id agree.
AcknowledgedIsStored ==
  \A r \in Requests : pc[r] = "ok" =>
    order[r] \in RowsOf(command[r].client_order_id)

\* A retry sent after the order was recorded is answered from the table: it
\* neither reaches the exchange nor records, fills or publishes an order.
RetriesAreAnswered ==
  \A r \in Requests : settled[r] =>
    /\ venue[r] = NoVenueOrder
    /\ \A o \in orders : o.id # r
    /\ r \notin posted \cup published

\* Nothing reaches the exchange or the table of orders but what the gate
\* approved: at some moment of its check the switch was off, and at some moment
\* the limits in force allowed the order.
OrdersWereApproved ==
  \A r \in Requests :
    venue[r].state # "none" \/ (\E o \in orders : o.id = r) =>
      window[r].live /\ window[r].permitted

\* OrderStateChanged tells of a recorded order, whose fill, if it has one, is in
\* the positions table already.
EventsFollowWrites ==
  \A r \in published : \E o \in orders : o.id = r /\ (o.status = "filled" => r \in posted)

Signed(o) == SignedQuantity(o.side, o.quantity)

\* Whatever requests, crashes and lost answers interleave, a position is the sum
\* of recorded fills of its symbol, each at most once: fills may be missing from
\* it (see BooksMatchOrders), none is invented or applied twice.
PositionsAreSumsOfFills ==
  \A s \in Symbols : positions[s] # NoRow =>
    LET summed == {o \in orders : o.id \in lineage[s]} IN
    /\ lineage[s] = {o.id : o \in summed}
    /\ \A o \in summed : o.symbol = s /\ o.status = "filled"
    /\ positions[s].quantity = MapThenSumSet(Signed, summed)

\* When requests for a symbol do not overlap, no fill is missing: while none is
\* in flight, the position adds up every recorded fill of the symbol.
BooksMatchOrders ==
  \A s \in Symbols : InFlightFor(s) = {} =>
    lineage[s] = {o.id : o \in {o \in orders : o.symbol = s /\ o.status = "filled"}}

\* When requests for a symbol do not overlap, its row is of one piece: it has an
\* entry price exactly when it holds lots.
RowsAreWhole ==
  \A s \in Symbols : positions[s] # NoRow =>
    (positions[s].quantity = 0 <=> positions[s].average = 0)

\* Every request ends: nothing it waits for can wait for it.
RequestsEnd == \A r \in Requests : pc[r] \in Awaiting ~> pc[r] \in Ended

\* The exchange takes at most one order for a client id.
AtMostOneVenueOrder ==
  \A r1, r2 \in Requests :
    /\ venue[r1].state = "accepted"
    /\ venue[r2].state = "accepted"
    /\ command[r1].client_order_id = command[r2].client_order_id
    => r1 = r2

----------------------------------------------------------------------------
\* What a client may rely on: one order per client id, written once.

Registry ==
  [id \in ClientIds |-> IF RowsOf(id) = {} THEN NoOrder ELSE CHOOSE o \in RowsOf(id) : TRUE]

Answers ==
  [r \in Requests |-> CASE pc[r] = "ok" -> [outcome |-> "ok", order |-> order[r]]
                        [] pc[r] \in Ended \ {"ok"} -> [outcome |-> "failed", order |-> NoOrder]
                        [] OTHER -> [outcome |-> "none", order |-> NoOrder]]

AskedFor == [r \in Requests |-> IF command[r] = NoCommand THEN NoCommand ELSE command[r].client_order_id]

Registration == INSTANCE OrderRegistry WITH
  Clients <- Requests, Keys <- ClientIds, Orders <- OrderRecord, NoKey <- NoCommand,
  registry <- Registry, key <- AskedFor, answer <- Answers

RegistrySpec == Registration!Spec

====
