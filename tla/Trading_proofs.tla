---- MODULE Trading_proofs ----
(***************************************************************************)
(* What PlaceOrderService keeps true, for every set of requests, commands  *)
(* and prices, every number of failures, commands and damaged keys, and    *)
(* every interleaving of the awaits.                                       *)
(***************************************************************************)
EXTENDS Trading, RiskGate_proofs, Portfolio_proofs, FiniteSetTheorems

\* Stages of a request that holds the order it created.
Holding == {"submit", "save", "position", "load", "commit", "publish"}

\* Stages of a request whose order is in the table, and of one that wrote nothing yet.
Recorded == {"position", "load", "commit", "publish"}
Unrecorded == {"idle", "lookup", "gate", "submit", "save"}

Untouched(r) ==
  /\ r \notin posted
  /\ r \notin published
  /\ \A o \in orders : o.id # r

\* The order of a request is the one it created for its command.
OwnOrder(r) ==
  /\ order[r] \in OrderRecord
  /\ order[r].id = r
  /\ order[r].client_order_id = command[r].client_order_id
  /\ order[r].status = "filled" => order[r].executed_price \in Nat

\* What ties the stage of a request to what it wrote.
Tracked(r) ==
  /\ pc[r] = "idle" => command[r] = NoCommand
  /\ pc[r] # "idle" => command[r] \in Commands
  /\ pc[r] \in Holding => OwnOrder(r)
  /\ pc[r] \in Recorded => order[r] \in orders
  /\ pc[r] \in {"position", "load", "commit"} => order[r].status = "filled"
  /\ pc[r] = "publish" /\ order[r].status = "filled" => r \in posted
  /\ pc[r] = "ok" => order[r] \in orders /\ order[r].client_order_id = command[r].client_order_id
  /\ pc[r] \in {"idle", "lookup", "gate"} => venue[r] = NoVenueOrder
  /\ pc[r] \in Unrecorded => Untouched(r)

\* A retry of a recorded order never gets past the lookup.
Retried(r) ==
  settled[r] =>
    /\ pc[r] \in {"lookup"} \cup Ended
    /\ \E o \in orders : o.client_order_id = command[r].client_order_id
    /\ venue[r] = NoVenueOrder
    /\ Untouched(r)

\* Nothing passes the gate but what it approved.
Approved(r) ==
  pc[r] \in Holding \/ venue[r].state # "none" \/ (\E o \in orders : o.id = r) =>
    window[r].live /\ window[r].permitted

\* An event tells of a row and its fill.
Announced(r) ==
  r \in published => \E o \in orders : o.id = r /\ (o.status = "filled" => r \in posted)

\* A position row that save loaded is still there when it commits.
Loaded(r) ==
  pc[r] = "commit" /\ work[r].loaded # NoRow => positions[order[r].symbol] # NoRow

RequestInv(r) == Tracked(r) /\ Retried(r) /\ Approved(r) /\ Announced(r) /\ Loaded(r)

TradingInv ==
  /\ GateInv
  /\ TypeOK
  /\ OneOrderPerClientId
  /\ \A r \in Requests : RequestInv(r)

----------------------------------------------------------------------------

\* A step that leaves a request where it is and touches nothing of its own keeps
\* what is known of it: tables grow, windows open wider.
LEMMA OthersKeepTrack ==
  ASSUME NEW r \in Requests, RequestInv(r),
         pc'[r] = pc[r], command'[r] = command[r], order'[r] = order[r],
         work'[r] = work[r], settled'[r] = settled[r], venue'[r] = venue[r],
         \A s \in Symbols : positions[s] # NoRow => positions'[s] # NoRow,
         window[r].live => window'[r].live,
         window[r].permitted => window'[r].permitted,
         orders \subseteq orders', \A o \in orders' : o \in orders \/ o.id # r,
         r \in posted' <=> r \in posted,
         r \in published' <=> r \in published
  PROVE  RequestInv(r)'
<1>1. Untouched(r) => Untouched(r)'
  BY DEF Untouched
<1>2. OwnOrder(r) => OwnOrder(r)'
  BY DEF OwnOrder
<1>3. Tracked(r)'
  BY <1>1, <1>2 DEF RequestInv, Tracked
<1>4. Retried(r)'
  BY <1>1 DEF RequestInv, Retried
<1>5. Approved(r)'
  BY DEF RequestInv, Approved
<1>6. Announced(r)'
  BY DEF RequestInv, Announced
<1>7. Loaded(r)'
  BY DEF RequestInv, Loaded, Tracked, Holding, OwnOrder, OrderRecord
<1>. QED BY <1>3, <1>4, <1>5, <1>6, <1>7 DEF RequestInv

\* The types of what TradingInv adds to the gate's.
LEMMA TradingTypes ==
  ASSUME TypeOK
  PROVE  /\ pc \in [Requests -> {"idle"} \cup Awaiting \cup Ended]
         /\ command \in [Requests -> Commands \cup {NoCommand}]
         /\ order \in [Requests -> OrderRecord \cup {NoOrder}]
         /\ work \in [Requests -> [position: Position, loaded: Position \cup {NoRow}, lineage: SUBSET Requests]]
         /\ venue \in [Requests -> VenueOrders]
         /\ settled \in [Requests -> BOOLEAN]
         /\ orders \subseteq OrderRecord
  BY DEF TypeOK

LEMMA InitTrading == Init => TradingInv
<1> SUFFICES ASSUME Init PROVE TradingInv
  OBVIOUS
<1>1. GateInv
  BY InitGate DEF Init
<1>2. NoVenueOrder \in VenueOrders
  BY DEF NoVenueOrder, VenueOrders
<1>3. NoWork \in [position: Position, loaded: Position \cup {NoRow}, lineage: SUBSET Requests]
  BY DEF NoWork, EmptyPosition, Position
<1>4. TypeOK
  <2>1. 0 \in 0..MaxFailures
    BY LimitsAssumption
  <2>. HIDE DEF NoVenueOrder, NoWork
  <2>. QED BY <1>1, <1>2, <1>3, <2>1 DEF Init, TypeOK, GateInv
<1>5. OneOrderPerClientId
  BY DEF Init, OneOrderPerClientId
<1>6. ASSUME NEW r \in Requests PROVE RequestInv(r)
  <2>1. /\ pc[r] = "idle" /\ venue[r] = NoVenueOrder /\ venue[r].state = "none" /\ ~settled[r]
        /\ command[r] = NoCommand /\ orders = {} /\ posted = {} /\ published = {}
    BY DEF Init, NoVenueOrder
  <2>2. Untouched(r)
    BY <2>1 DEF Untouched
  <2>. QED BY <2>1, <2>2 DEF RequestInv, Tracked, Retried, Approved, Announced, Loaded, Holding, Recorded
<1>. QED BY <1>1, <1>4, <1>5, <1>6 DEF TradingInv

----------------------------------------------------------------------------
\* The steps of a request r.

\* Everything but r is as before, but for the rows and marks r adds.
OnlyFor(r) ==
  /\ \A d \in Requests \ {r} :
       /\ pc'[d] = pc[d] /\ command'[d] = command[d] /\ order'[d] = order[d]
       /\ settled'[d] = settled[d] /\ venue'[d] = venue[d] /\ window'[d] = window[d]
       /\ work'[d] = work[d]
  /\ \A s \in Symbols : positions[s] # NoRow => positions'[s] # NoRow
  /\ orders \subseteq orders' /\ \A o \in orders' : o \in orders \/ o.id = r
  /\ posted \subseteq posted' /\ posted' \subseteq posted \cup {r}
  /\ published \subseteq published' /\ published' \subseteq published \cup {r}

LEMMA StepOfRequest ==
  ASSUME TradingInv, NEW r \in Requests, OnlyFor(r),
         GateInv', TypeOK', OneOrderPerClientId', RequestInv(r)'
  PROVE  TradingInv'
<1>1. ASSUME NEW d \in Requests, d # r PROVE RequestInv(d)'
  <2>1. RequestInv(d) /\ d \in Requests \ {r}
    BY <1>1 DEF TradingInv
  <2>. QED BY <1>1, <2>1, OthersKeepTrack DEF OnlyFor
<1>. QED BY <1>1 DEF TradingInv

LEMMA ArriveKeeps ==
  ASSUME TradingInv, NEW r \in Requests, NEW c \in Commands, Arrive(r, c)
  PROVE  TradingInv'
<1>1. TypeOK /\ GateInv /\ RequestInv(r)
  BY DEF TradingInv
<1>2. GateInv' /\ OneOrderPerClientId'
  BY StutterKeepsGate DEF TradingInv, Arrive, world, OneOrderPerClientId
<1>3. (RowsOf(c.client_order_id) # {}) \in BOOLEAN
  OBVIOUS
<1>4. TypeOK'
  BY <1>1, <1>2, <1>3 DEF TypeOK, GateInv, Arrive, GoTo, world, table, Awaiting
<1>5. OnlyFor(r)
  BY <1>1, TradingTypes DEF Arrive, GoTo, world, table, gateVars, OnlyFor
<1>6. RequestInv(r)'
  <2>1. /\ pc[r] = "idle" /\ pc'[r] = "lookup" /\ command'[r] = c /\ venue' = venue
        /\ orders' = orders /\ posted' = posted /\ published' = published
        /\ settled'[r] = (RowsOf(c.client_order_id) # {})
    BY <1>1, TradingTypes DEF Arrive, GoTo, world, table
  <2>2. venue[r] = NoVenueOrder /\ venue[r].state = "none" /\ Untouched(r)
    BY <1>1, <2>1 DEF RequestInv, Tracked, Unrecorded, NoVenueOrder
  <2>3. Untouched(r)'
    BY <2>1, <2>2 DEF Untouched
  <2>4. settled'[r] => \E o \in orders : o.client_order_id = c.client_order_id
    BY <2>1 DEF RowsOf
  <2>5. Tracked(r)'
    BY <2>1, <2>2, <2>3 DEF Tracked, Holding, Recorded
  <2>6. Retried(r)'
    BY <2>1, <2>2, <2>3, <2>4 DEF Retried
  <2>7. Approved(r)' /\ Announced(r)'
    BY <2>1, <2>2, <2>3 DEF Approved, Announced, Untouched, Holding
  <2>. QED BY <2>1, <2>5, <2>6, <2>7 DEF RequestInv, Loaded
<1>. QED BY <1>2, <1>4, <1>5, <1>6, StepOfRequest

\* A request that stops at an answer that is not Ok, or in an exception, with
\* the world as it was.
LEMMA StoppedKeeps ==
  ASSUME TradingInv, NEW r \in Requests, NEW end \in {"err", "raised", "lost"},
         GateInv', pc[r] # "idle", GoTo(r, end), failures' \in 0..MaxFailures,
         UNCHANGED <<held, world, window>>
  PROVE  TradingInv'
<1>1. TypeOK /\ RequestInv(r)
  BY DEF TradingInv
<1>2. OneOrderPerClientId'
  BY DEF TradingInv, world, OneOrderPerClientId
<1>3. TypeOK'
  BY <1>1 DEF TypeOK, GateInv, GoTo, held, asked, world, table, Ended
<1>4. OnlyFor(r)
  BY <1>1, TradingTypes DEF GoTo, held, asked, world, table, OnlyFor
<1>5. RequestInv(r)'
  <2>1. /\ pc'[r] = end
        /\ UNCHANGED <<command, order, settled, venue, window, orders, posted, published>>
    BY <1>1, TradingTypes DEF GoTo, held, asked, world, table
  <2>2. Untouched(r)' <=> Untouched(r)
    BY <2>1 DEF Untouched
  <2>3. Tracked(r)'
    BY <1>1, <2>1 DEF RequestInv, Tracked, Holding, Recorded, Unrecorded
  <2>4. Retried(r)'
    BY <1>1, <2>1, <2>2 DEF RequestInv, Retried, Ended
  <2>5. Approved(r)' /\ Announced(r)'
    BY <1>1, <2>1 DEF RequestInv, Approved, Announced, Holding
  <2>. QED BY <2>1, <2>3, <2>4, <2>5 DEF RequestInv, Loaded
<1>. QED BY <1>2, <1>3, <1>4, <1>5, StepOfRequest

LEMMA LookupFindsKeeps ==
  ASSUME TradingInv, NEW r \in Requests, LookupFinds(r)
  PROVE  TradingInv'
<1>1. TypeOK /\ RequestInv(r)
  BY DEF TradingInv
<1>2. PICK o \in RowsOf(command[r].client_order_id) : order' = [order EXCEPT ![r] = o]
  BY DEF LookupFinds
<1>3. o \in orders /\ o \in OrderRecord /\ o.client_order_id = command[r].client_order_id
  BY <1>1, <1>2 DEF RowsOf, TypeOK
<1>4. /\ pc[r] = "lookup" /\ pc' = [pc EXCEPT ![r] = "ok"]
      /\ UNCHANGED <<gateVars, asked, work, world, failures>>
  BY DEF LookupFinds, GoTo
<1>5. GateInv' /\ OneOrderPerClientId'
  BY <1>4, StutterKeepsGate DEF TradingInv, world, OneOrderPerClientId
<1>6. TypeOK'
  BY <1>1, <1>2, <1>3, <1>4, <1>5 DEF TypeOK, GateInv, asked, world, table, Ended
<1>7. OnlyFor(r)
  BY <1>1, <1>2, <1>4, TradingTypes DEF asked, world, table, gateVars, OnlyFor
<1>8. RequestInv(r)'
  <2>1. /\ pc'[r] = "ok" /\ order'[r] = o
        /\ UNCHANGED <<command, settled, venue, window, orders, posted, published>>
    BY <1>1, <1>2, <1>4, TradingTypes DEF asked, world, table, gateVars
  <2>2. Untouched(r)' <=> Untouched(r)
    BY <2>1 DEF Untouched
  <2>3. Tracked(r)'
    BY <1>1, <1>3, <1>4, <2>1 DEF RequestInv, Tracked, Holding, Recorded, Unrecorded
  <2>4. Retried(r)'
    BY <1>1, <2>1, <2>2 DEF RequestInv, Retried, Ended
  <2>5. Approved(r)' /\ Announced(r)'
    BY <1>1, <2>1 DEF RequestInv, Approved, Announced, Holding
  <2>. QED BY <2>1, <2>3, <2>4, <2>5 DEF RequestInv, Loaded
<1>. QED BY <1>5, <1>6, <1>7, <1>8, StepOfRequest

LEMMA LookupMissesKeeps ==
  ASSUME TradingInv, NEW r \in Requests, LookupMisses(r)
  PROVE  TradingInv'
<1> DEFINE c == command[r]
           share == PositionShare(c.quantity * c.price, c.equity * Scale)
<1>1. TypeOK /\ RequestInv(r) /\ GateInv
  BY DEF TradingInv
<1>2. /\ pc[r] = "lookup" /\ pc' = [pc EXCEPT ![r] = "gate"]
      /\ RowsOf(c.client_order_id) = {}
      /\ BeginCheck(r, share, 0)
      /\ UNCHANGED <<held, world, failures>>
  BY DEF LookupMisses, GoTo
<1>3. c \in Commands
  BY <1>1, <1>2 DEF RequestInv, Tracked
<1>4. share \in Ratios
  <2>1. c.quantity * c.price \in Int /\ c.equity * Scale \in Nat \ {0}
    BY <1>3, CommandsAssumption, ScaleAssumption
  <2>. QED BY <2>1 DEF PositionShare, Ratios
<1>. HIDE DEF share
<1>5. GateInv'
  BY <1>1, <1>2, <1>4, BeginCheckKeepsGate DEF Requests
<1>6. OneOrderPerClientId'
  BY <1>2 DEF TradingInv, world, OneOrderPerClientId
<1>7. TypeOK'
  BY <1>1, <1>2, <1>5 DEF TypeOK, GateInv, held, asked, world, table, Awaiting
<1>8. OnlyFor(r)
  <2>1. \A d \in Requests \ {r} : window'[d] = window[d]
    BY <1>1, <1>2 DEF BeginCheck, GateInv, GateTypeOK, Requests
  <2>. QED BY <1>1, <1>2, <2>1, TradingTypes DEF held, asked, world, table, OnlyFor
<1>9. RequestInv(r)'
  <2>1. /\ pc'[r] = "gate"
        /\ UNCHANGED <<command, order, settled, venue, orders, posted, published>>
    BY <1>1, <1>2, TradingTypes DEF held, asked, world, table
  <2>2. Untouched(r) /\ Untouched(r)'
    BY <1>1, <1>2, <2>1 DEF Untouched, RequestInv, Tracked, Unrecorded
  <2>3. ~settled[r]
    BY <1>1, <1>2 DEF RequestInv, Retried, RowsOf
  <2>4. venue[r].state = "none"
    BY <1>1, <1>2 DEF RequestInv, Tracked, NoVenueOrder
  <2>5. Tracked(r)'
    BY <1>1, <1>2, <2>1, <2>2 DEF RequestInv, Tracked, Holding, Recorded, Unrecorded
  <2>6. Retried(r)' /\ Approved(r)' /\ Announced(r)'
    BY <2>1, <2>2, <2>3, <2>4 DEF Retried, Approved, Announced, Untouched, Holding
  <2>. QED BY <2>1, <2>5, <2>6 DEF RequestInv, Loaded
<1>. QED BY <1>5, <1>6, <1>7, <1>8, <1>9, StepOfRequest

\* A step of the check of r that leaves it at the gate.
LEMMA GateReadsSwitchKeeps ==
  ASSUME TradingInv, NEW r \in Requests, GateReadsSwitch(r)
  PROVE  TradingInv'
<1>1. TypeOK /\ RequestInv(r) /\ GateInv
  BY DEF TradingInv
<1>2. pc[r] = "gate" /\ ReadSwitch(r) /\ UNCHANGED <<held, world, failures, window>>
  BY DEF GateReadsSwitch, ReadSwitch
<1>3. GateInv'
  BY <1>1, <1>2, ReadSwitchKeepsGate DEF Requests
<1>4. failures' \in 0..MaxFailures
  BY <1>1, <1>2 DEF TypeOK
<1>5. CASE GoTo(r, "err")
  BY <1>2, <1>3, <1>4, <1>5, StoppedKeeps
<1>6. CASE GoTo(r, "gate")
  <2>1. pc' = pc
    BY <1>1, <1>2, <1>6, TradingTypes DEF GoTo
  <2>2. OneOrderPerClientId'
    BY <1>2 DEF TradingInv, world, OneOrderPerClientId
  <2>3. TypeOK'
    BY <1>1, <1>2, <1>3, <2>1 DEF TypeOK, GateInv, held, asked, world, table
  <2>4. \A d \in Requests : RequestInv(d)'
    BY <1>2, <2>1, OthersKeepTrack DEF TradingInv, held, asked, world, table
  <2>. QED BY <1>3, <2>2, <2>3, <2>4 DEF TradingInv
<1>. QED BY <1>5, <1>6 DEF GateReadsSwitch

LEMMA GateReadsProfileAndStopsKeeps ==
  ASSUME TradingInv, NEW r \in Requests, GateReadsProfileAndStops(r)
  PROVE  TradingInv'
<1>1. TypeOK /\ RequestInv(r) /\ GateInv
  BY DEF TradingInv
<1>2. /\ pc[r] = "gate" /\ ReadProfile(r) /\ GoTo(r, "err")
      /\ UNCHANGED <<held, world, failures, window>>
  BY DEF GateReadsProfileAndStops, ReadProfile
<1>3. GateInv'
  BY <1>1, <1>2, ReadProfileKeepsGate DEF Requests
<1>4. failures' \in 0..MaxFailures
  BY <1>1, <1>2 DEF TypeOK
<1>. QED BY <1>2, <1>3, <1>4, StoppedKeeps

----------------------------------------------------------------------------
\* Past the gate.

\* What the gate and the request show when the check is approved.
LEMMA ApprovalAtGate ==
  ASSUME TradingInv, NEW r \in Requests, pc[r] = "gate", ReadProfile(r), check'[r].stage = "approved"
  PROVE  /\ GateInv'
         /\ UNCHANGED window /\ window[r].live /\ window[r].permitted
         /\ command[r] \in Commands /\ ~settled[r] /\ venue[r] = NoVenueOrder /\ Untouched(r)
<1>1. GateInv /\ RequestInv(r)
  BY DEF TradingInv
<1>2. GateInv'
  BY <1>1, ReadProfileKeepsGate DEF Requests
<1>3. window'[r].live /\ window'[r].permitted
  BY <1>2 DEF GateInv, Justified, Requests
<1>4. UNCHANGED window
  BY DEF ReadProfile
<1>5. command[r] \in Commands /\ venue[r] = NoVenueOrder /\ Untouched(r)
  BY <1>1 DEF RequestInv, Tracked, Unrecorded
<1>6. ~settled[r]
  BY <1>1 DEF RequestInv, Retried, Ended
<1>. QED BY <1>2, <1>3, <1>4, <1>5, <1>6

LEMMA CreatedIsAnOrder ==
  ASSUME NEW r \in Requests, NEW c \in Commands
  PROVE  /\ Created(r, c) \in OrderRecord
         /\ Created(r, c).id = r /\ Created(r, c).client_order_id = c.client_order_id
         /\ Created(r, c).status = "pending"
<1>1. c.side \in Sides /\ c.quantity \in Nat \ {0} /\ c.client_order_id \in ClientIds /\ Upper[c.symbol] \in Symbols
  BY CommandsAssumption DEF ClientIds, Symbols
<1>. QED BY <1>1 DEF Created, OrderRecord

LEMMA FilledIsAnOrder ==
  ASSUME NEW o \in OrderRecord, NEW price \in Nat
  PROVE  /\ Filled(o, price) \in OrderRecord
         /\ Filled(o, price).id = o.id /\ Filled(o, price).client_order_id = o.client_order_id
         /\ Filled(o, price).status = "filled" /\ Filled(o, price).executed_price = price
  BY DEF Filled, OrderRecord

LEMMA QuantizedIsNat == ASSUME NEW price \in Nat PROVE Quantized(price) \in Nat
<1>1. price \div Tick \in Nat
  BY GatewayAssumption
<1>. QED BY <1>1, GatewayAssumption DEF Quantized

LEMMA GateReadsProfileAndFillsOnPaperKeeps ==
  ASSUME TradingInv, NEW r \in Requests, GateReadsProfileAndFillsOnPaper(r)
  PROVE  TradingInv'
<1> DEFINE o == Filled(Created(r, command[r]), Quantized(command[r].price))
<1>1. /\ pc[r] = "gate" /\ pc' = [pc EXCEPT ![r] = "save"] /\ ReadProfile(r)
      /\ check'[r].stage = "approved" /\ order' = [order EXCEPT ![r] = o]
      /\ UNCHANGED <<asked, work, world, failures>>
  BY DEF GateReadsProfileAndFillsOnPaper, GoTo
<1>2. TypeOK /\ RequestInv(r)
  BY DEF TradingInv
<1>3. /\ GateInv'
      /\ UNCHANGED window /\ window[r].live /\ window[r].permitted
      /\ command[r] \in Commands /\ ~settled[r] /\ venue[r] = NoVenueOrder /\ Untouched(r)
  BY <1>1, ApprovalAtGate
<1>4. /\ o \in OrderRecord /\ o.id = r /\ o.client_order_id = command[r].client_order_id
      /\ o.executed_price \in Nat
  <2>1. Quantized(command[r].price) \in Nat
    BY <1>3, CommandsAssumption, QuantizedIsNat
  <2>. QED BY <1>3, <2>1, CreatedIsAnOrder, FilledIsAnOrder
<1>. HIDE DEF o
<1>5. OneOrderPerClientId'
  BY <1>1 DEF TradingInv, world, OneOrderPerClientId
<1>6. TypeOK'
  BY <1>1, <1>2, <1>3, <1>4 DEF TypeOK, GateInv, asked, world, table, Awaiting
<1>7. OnlyFor(r)
  BY <1>1, <1>2, <1>3, TradingTypes DEF asked, world, table, OnlyFor
<1>8. RequestInv(r)'
  <2>1. /\ pc'[r] = "save" /\ order'[r] = o
        /\ UNCHANGED <<command, settled, venue, window, orders, posted, published>>
    BY <1>1, <1>2, <1>3, TradingTypes DEF asked, world, table
  <2>2. Untouched(r)' /\ ~settled'[r]
    BY <1>3, <2>1 DEF Untouched
  <2>3. OwnOrder(r)'
    BY <1>4, <2>1 DEF OwnOrder
  <2>4. Tracked(r)'
    BY <1>3, <2>1, <2>2, <2>3 DEF Tracked, Recorded
  <2>5. Retried(r)' /\ Approved(r)' /\ Announced(r)'
    BY <1>3, <2>1, <2>2 DEF Retried, Approved, Announced, Untouched
  <2>. QED BY <2>1, <2>4, <2>5 DEF RequestInv, Loaded
<1>. QED BY <1>3, <1>5, <1>6, <1>7, <1>8, StepOfRequest

LEMMA GateReadsProfileAndSendsKeeps ==
  ASSUME TradingInv, NEW r \in Requests, GateReadsProfileAndSends(r)
  PROVE  TradingInv'
<1> DEFINE o == Created(r, command[r])
<1>1. /\ pc[r] = "gate" /\ pc' = [pc EXCEPT ![r] = "submit"] /\ ReadProfile(r)
      /\ check'[r].stage = "approved" /\ order' = [order EXCEPT ![r] = o]
      /\ venue' = [venue EXCEPT ![r].state = "sent"]
      /\ UNCHANGED <<asked, work, orders, table, published, failures>>
  BY DEF GateReadsProfileAndSends, GoTo
<1>2. TypeOK /\ RequestInv(r)
  BY DEF TradingInv
<1>3. /\ GateInv'
      /\ UNCHANGED window /\ window[r].live /\ window[r].permitted
      /\ command[r] \in Commands /\ ~settled[r] /\ venue[r] = NoVenueOrder /\ Untouched(r)
  BY <1>1, ApprovalAtGate
<1>4. /\ o \in OrderRecord /\ o.id = r /\ o.client_order_id = command[r].client_order_id
      /\ o.status = "pending"
  BY <1>3, CreatedIsAnOrder
<1>. HIDE DEF o
<1>5. OneOrderPerClientId'
  BY <1>1 DEF TradingInv, OneOrderPerClientId
<1>6. TypeOK'
  <2>1. venue' \in [Requests -> VenueOrders]
    BY <1>1, <1>2, TradingTypes DEF VenueOrders
  <2>. QED BY <1>1, <1>2, <1>3, <1>4, <2>1 DEF TypeOK, GateInv, asked, table, Awaiting
<1>7. OnlyFor(r)
  BY <1>1, <1>2, <1>3, TradingTypes DEF asked, table, OnlyFor
<1>8. RequestInv(r)'
  <2>1. /\ pc'[r] = "submit" /\ order'[r] = o
        /\ UNCHANGED <<command, settled, window, orders, posted, published>>
    BY <1>1, <1>2, <1>3, TradingTypes DEF asked, table
  <2>2. Untouched(r)' /\ ~settled'[r]
    BY <1>3, <2>1 DEF Untouched
  <2>3. OwnOrder(r)'
    BY <1>4, <2>1 DEF OwnOrder
  <2>4. Tracked(r)'
    BY <1>3, <2>1, <2>2, <2>3 DEF Tracked, Recorded
  <2>5. Retried(r)' /\ Approved(r)' /\ Announced(r)'
    BY <1>3, <2>1, <2>2 DEF Retried, Approved, Announced, Untouched
  <2>. QED BY <2>1, <2>4, <2>5 DEF RequestInv, Loaded
<1>. QED BY <1>3, <1>5, <1>6, <1>7, <1>8, StepOfRequest

LEMMA VenueAnswersKeeps ==
  ASSUME TradingInv, NEW r \in Requests, VenueAnswers(r)
  PROVE  TradingInv'
<1>1. TypeOK /\ RequestInv(r)
  BY DEF TradingInv
<1>2. PICK average \in VenuePrices \cup {NoPrice} :
        order' = [order EXCEPT ![r] =
          Submitted(order[r], command[r], venue[r].status, venue[r].reported, average)]
  BY DEF VenueAnswers
<1> DEFINE o == Submitted(order[r], command[r], venue[r].status, venue[r].reported, average)
<1>3. /\ pc[r] = "submit" /\ pc' = [pc EXCEPT ![r] = "save"] /\ order' = [order EXCEPT ![r] = o]
      /\ UNCHANGED <<gateVars, asked, work, world, failures>>
  BY <1>2 DEF VenueAnswers, GoTo
<1>4. GateInv' /\ OneOrderPerClientId'
  BY <1>3, StutterKeepsGate DEF TradingInv, world, OneOrderPerClientId
<1>5. OwnOrder(r) /\ Untouched(r) /\ ~settled[r] /\ window[r].live /\ window[r].permitted /\ command[r] \in Commands
  BY <1>1, <1>3 DEF RequestInv, Tracked, Retried, Approved, Holding, Unrecorded, Ended
<1>6. /\ o \in OrderRecord /\ o.id = r /\ o.client_order_id = command[r].client_order_id
      /\ o.status = "filled" => o.executed_price \in Nat
  <2>1. (IF average = NoPrice THEN command[r].price ELSE average) \in Nat
    BY <1>2, <1>5, CommandsAssumption, GatewayAssumption
  <2>2. order[r] \in OrderRecord
    BY <1>5 DEF OwnOrder
  <2>. QED BY <1>5, <2>1, <2>2, FilledIsAnOrder DEF Submitted, OwnOrder
<1>. HIDE DEF o
<1>7. TypeOK'
  BY <1>1, <1>3, <1>4, <1>6 DEF TypeOK, GateInv, asked, world, table, Awaiting
<1>8. OnlyFor(r)
  BY <1>1, <1>3, TradingTypes DEF asked, world, table, gateVars, OnlyFor
<1>9. RequestInv(r)'
  <2>1. /\ pc'[r] = "save" /\ order'[r] = o
        /\ UNCHANGED <<command, settled, venue, window, orders, posted, published>>
    BY <1>1, <1>3, TradingTypes DEF asked, world, table, gateVars
  <2>2. Untouched(r)' /\ ~settled'[r]
    BY <1>5, <2>1 DEF Untouched
  <2>3. OwnOrder(r)'
    BY <1>6, <2>1 DEF OwnOrder
  <2>4. Tracked(r)'
    BY <1>5, <2>1, <2>2, <2>3 DEF Tracked, Recorded
  <2>5. Retried(r)' /\ Approved(r)' /\ Announced(r)'
    BY <1>5, <2>1, <2>2 DEF Retried, Approved, Announced, Untouched
  <2>. QED BY <2>1, <2>4, <2>5 DEF RequestInv, Loaded
<1>. QED BY <1>4, <1>7, <1>8, <1>9, StepOfRequest

----------------------------------------------------------------------------
\* The tables.

\* The insert, whether or not its answer arrives.
LEMMA InsertKeeps ==
  ASSUME TradingInv, NEW r \in Requests, pc[r] = "save", InsertOrder(r),
         NEW stage \in {"position", "publish", "raised"}, GoTo(r, stage),
         stage = "position" => order[r].status = "filled",
         stage = "publish" => order[r].status # "filled",
         failures' \in 0..MaxFailures,
         UNCHANGED <<gateVars, held, table, venue, published>>
  PROVE  TradingInv'
<1>1. TypeOK /\ RequestInv(r) /\ OneOrderPerClientId
  BY DEF TradingInv
<1>2. OwnOrder(r) /\ Untouched(r) /\ ~settled[r] /\ window[r].live /\ window[r].permitted /\ command[r] \in Commands
  BY <1>1 DEF RequestInv, Tracked, Retried, Approved, Holding, Unrecorded, Ended
<1>3. /\ pc' = [pc EXCEPT ![r] = stage] /\ orders' = orders \cup {order[r]}
      /\ \A o \in orders : o.client_order_id # order[r].client_order_id
      /\ order[r] \in OrderRecord /\ order[r].id = r
  BY <1>2 DEF InsertOrder, Insertable, RowsOf, GoTo, OwnOrder
<1>4. GateInv'
  BY StutterKeepsGate DEF TradingInv
<1>5. OneOrderPerClientId'
  BY <1>1, <1>3 DEF OneOrderPerClientId
<1>6. TypeOK'
  BY <1>1, <1>3, <1>4 DEF TypeOK, GateInv, held, asked, table, Awaiting, Ended
<1>7. OnlyFor(r)
  BY <1>1, <1>3, TradingTypes DEF held, asked, table, gateVars, OnlyFor
<1>8. RequestInv(r)'
  <2>1. /\ pc'[r] = stage /\ order[r] \in orders'
        /\ UNCHANGED <<command, order, settled, venue, window, posted, published>>
    BY <1>1, <1>3, TradingTypes DEF held, asked, table, gateVars
  <2>2. OwnOrder(r)'
    BY <1>2, <2>1 DEF OwnOrder
  <2>3. Tracked(r)'
    BY <1>2, <2>1, <2>2 DEF Tracked, Unrecorded
  <2>4. Retried(r)' /\ Approved(r)' /\ Announced(r)'
    BY <1>2, <2>1 DEF Retried, Approved, Announced, Untouched
  <2>. QED BY <2>1, <2>3, <2>4 DEF RequestInv, Loaded
<1>. QED BY <1>4, <1>5, <1>6, <1>7, <1>8, StepOfRequest

LEMMA ReadPositionKeeps ==
  ASSUME TradingInv, NEW r \in Requests, ReadPosition(r)
  PROVE  TradingInv'
<1> DEFINE symbol == order[r].symbol
           row == IF positions[symbol] = NoRow THEN EmptyPosition ELSE positions[symbol]
           new == [position |-> ApplyFill(row, order[r].side, order[r].quantity, order[r].executed_price),
                   loaded   |-> NoRow,
                   lineage  |-> lineage[symbol] \cup {r}]
<1>1. TypeOK /\ RequestInv(r)
  BY DEF TradingInv
<1>2. /\ pc[r] = "position" /\ pc' = [pc EXCEPT ![r] = "load"] /\ work' = [work EXCEPT ![r] = new]
      /\ UNCHANGED <<gateVars, asked, order, world, failures>>
  BY DEF ReadPosition, GoTo
<1>3. OwnOrder(r) /\ order[r].status = "filled" /\ order[r] \in orders /\ command[r] \in Commands
  BY <1>1, <1>2 DEF RequestInv, Tracked, Holding, Recorded
<1>4. new \in [position: Position, loaded: Position \cup {NoRow}, lineage: SUBSET Requests]
  <2>1. /\ symbol \in Symbols /\ order[r].side \in Sides /\ order[r].quantity \in Nat \ {0}
        /\ order[r].executed_price \in Nat
    BY <1>3 DEF OwnOrder, OrderRecord
  <2>2. row \in Position /\ lineage[symbol] \subseteq Requests
    BY <1>1, <2>1 DEF TypeOK, EmptyPosition, Position
  <2>3. ApplyFill(row, order[r].side, order[r].quantity, order[r].executed_price) \in Position
    BY <2>1, <2>2, ApplyFillIsAPosition
  <2>. HIDE DEF row, symbol
  <2>. QED BY <2>2, <2>3
<1>. HIDE DEF new
<1>5. GateInv' /\ OneOrderPerClientId'
  BY <1>2, StutterKeepsGate DEF TradingInv, world, OneOrderPerClientId
<1>6. TypeOK'
  BY <1>1, <1>2, <1>4, <1>5 DEF TypeOK, GateInv, asked, world, table, Awaiting
<1>7. OnlyFor(r)
  BY <1>1, <1>2, TradingTypes DEF asked, world, table, gateVars, OnlyFor
<1>8. RequestInv(r)'
  <2>1. /\ pc'[r] = "load"
        /\ UNCHANGED <<command, order, settled, venue, window, orders, posted, published>>
    BY <1>1, <1>2, TradingTypes DEF asked, world, table, gateVars
  <2>2. OwnOrder(r)'
    BY <1>3, <2>1 DEF OwnOrder
  <2>3. Tracked(r)'
    BY <1>3, <2>1, <2>2 DEF Tracked, Unrecorded
  <2>4. Retried(r)'
    BY <1>1, <1>2, <2>1 DEF RequestInv, Retried, Ended
  <2>5. Approved(r)' /\ Announced(r)'
    BY <1>1, <1>2, <2>1 DEF RequestInv, Approved, Announced, Holding
  <2>. QED BY <2>1, <2>3, <2>4, <2>5 DEF RequestInv, Loaded
<1>. QED BY <1>5, <1>6, <1>7, <1>8, StepOfRequest

LEMMA LoadRowKeeps ==
  ASSUME TradingInv, NEW r \in Requests, LoadRow(r)
  PROVE  TradingInv'
<1>1. TypeOK /\ RequestInv(r)
  BY DEF TradingInv
<1>2. /\ pc[r] = "load" /\ pc' = [pc EXCEPT ![r] = "commit"]
      /\ work' = [work EXCEPT ![r].loaded = positions[order[r].symbol]]
      /\ UNCHANGED <<gateVars, asked, order, world, failures>>
  BY DEF LoadRow, GoTo
<1>3. OwnOrder(r) /\ order[r].status = "filled" /\ order[r] \in orders /\ command[r] \in Commands
  BY <1>1, <1>2 DEF RequestInv, Tracked, Holding, Recorded
<1>4. work' \in [Requests -> [position: Position, loaded: Position \cup {NoRow}, lineage: SUBSET Requests]]
  <2>1. order[r].symbol \in Symbols
    BY <1>3 DEF OwnOrder, OrderRecord
  <2>2. positions[order[r].symbol] \in Position \cup {NoRow}
    BY <1>1, <2>1 DEF TypeOK
  <2>. QED BY <1>1, <1>2, <2>2, TradingTypes
<1>5. GateInv' /\ OneOrderPerClientId'
  BY <1>2, StutterKeepsGate DEF TradingInv, world, OneOrderPerClientId
<1>6. TypeOK'
  BY <1>1, <1>2, <1>4, <1>5 DEF TypeOK, GateInv, asked, world, table, Awaiting
<1>7. OnlyFor(r)
  BY <1>1, <1>2, TradingTypes DEF asked, world, table, gateVars, OnlyFor
<1>8. RequestInv(r)'
  <2>1. /\ pc'[r] = "commit"
        /\ UNCHANGED <<command, order, settled, venue, window, orders, posted, published>>
    BY <1>1, <1>2, TradingTypes DEF asked, world, table, gateVars
  <2>2. work'[r].loaded = positions[order[r].symbol] /\ positions' = positions
    BY <1>1, <1>2, TradingTypes DEF world, table
  <2>3. OwnOrder(r)'
    BY <1>3, <2>1 DEF OwnOrder
  <2>4. Tracked(r)'
    BY <1>3, <2>1, <2>3 DEF Tracked, Unrecorded
  <2>5. Retried(r)'
    BY <1>1, <1>2, <2>1 DEF RequestInv, Retried, Ended
  <2>6. Approved(r)' /\ Announced(r)'
    BY <1>1, <1>2, <2>1 DEF RequestInv, Approved, Announced, Holding
  <2>. QED BY <2>1, <2>2, <2>4, <2>5, <2>6 DEF RequestInv, Loaded
<1>. QED BY <1>5, <1>6, <1>7, <1>8, StepOfRequest

\* The commit of the position, whether or not its answer arrives.
LEMMA WriteKeeps ==
  ASSUME TradingInv, NEW r \in Requests, pc[r] = "commit", WriteRow(r),
         NEW stage \in {"publish", "raised"}, GoTo(r, stage),
         failures' \in 0..MaxFailures,
         UNCHANGED <<gateVars, held, orders, venue, published>>
  PROVE  TradingInv'
<1> DEFINE symbol == order[r].symbol
           new == work[r].position
           loaded == work[r].loaded
           row == IF loaded = NoRow THEN new ELSE Flushed(positions[symbol], loaded, new)
           sum == IF loaded # NoRow /\ new.quantity = loaded.quantity THEN lineage[symbol] ELSE work[r].lineage
<1>1. TypeOK /\ RequestInv(r)
  BY DEF TradingInv
<1>2. /\ pc' = [pc EXCEPT ![r] = stage] /\ posted' = posted \cup {r}
      /\ positions' = [positions EXCEPT ![symbol] = row]
      /\ lineage' = [lineage EXCEPT ![symbol] = sum]
  BY DEF WriteRow, GoTo
<1>3. OwnOrder(r) /\ order[r].status = "filled" /\ order[r] \in orders /\ command[r] \in Commands
  BY <1>1 DEF RequestInv, Tracked, Holding, Recorded
<1>4. row \in Position /\ sum \subseteq Requests
  <2>1. /\ new \in Position /\ loaded \in Position \cup {NoRow} /\ work[r].lineage \subseteq Requests
        /\ lineage[symbol] \subseteq Requests /\ positions[symbol] \in Position \cup {NoRow}
    <3>1. symbol \in Symbols
      BY <1>3 DEF OwnOrder, OrderRecord
    <3>. QED BY <1>1, <3>1 DEF TypeOK
  <2>2. loaded # NoRow => positions[symbol] \in Position
    BY <1>1, <2>1 DEF RequestInv, Loaded
  <2>3. CASE loaded = NoRow
    BY <2>1, <2>3
  <2>4. CASE loaded # NoRow
    BY <2>1, <2>2, <2>4 DEF Flushed, Position
  <2>. QED BY <2>1, <2>3, <2>4
<1>. HIDE DEF row, sum
<1>5. GateInv' /\ OneOrderPerClientId'
  BY StutterKeepsGate DEF TradingInv, OneOrderPerClientId
<1>6. TypeOK'
  BY <1>1, <1>2, <1>4, <1>5 DEF TypeOK, GateInv, held, asked, Awaiting, Ended
<1>7. OnlyFor(r)
  <2>1. \A s \in Symbols : positions[s] # NoRow => positions'[s] # NoRow
    BY <1>1, <1>2, <1>4, MarkersAssumption DEF TypeOK
  <2>. QED BY <1>1, <1>2, <2>1, TradingTypes DEF held, asked, gateVars, OnlyFor
<1>8. RequestInv(r)'
  <2>1. /\ pc'[r] = stage /\ r \in posted'
        /\ UNCHANGED <<command, order, settled, venue, window, orders, published>>
    BY <1>1, <1>2, TradingTypes DEF held, asked, gateVars
  <2>2. OwnOrder(r)'
    BY <1>3, <2>1 DEF OwnOrder
  <2>3. Tracked(r)'
    BY <1>3, <2>1, <2>2 DEF Tracked, Unrecorded
  <2>4. Retried(r)'
    BY <1>1, <2>1 DEF RequestInv, Retried, Ended
  <2>5. Approved(r)' /\ Announced(r)'
    BY <1>1, <2>1 DEF RequestInv, Approved, Announced, Holding
  <2>. QED BY <2>1, <2>3, <2>4, <2>5 DEF RequestInv, Loaded
<1>. QED BY <1>5, <1>6, <1>7, <1>8, StepOfRequest

\* The publication, whether or not its answer arrives.
LEMMA PublishKeeps ==
  ASSUME TradingInv, NEW r \in Requests, pc[r] = "publish", published' = published \cup {r},
         NEW stage \in {"ok", "raised"}, GoTo(r, stage),
         failures' \in 0..MaxFailures,
         UNCHANGED <<gateVars, held, orders, table, venue>>
  PROVE  TradingInv'
<1>1. TypeOK /\ RequestInv(r)
  BY DEF TradingInv
<1>2. pc' = [pc EXCEPT ![r] = stage]
  BY DEF GoTo
<1>3. /\ OwnOrder(r) /\ (order[r].status = "filled" => r \in posted) /\ order[r] \in orders
      /\ command[r] \in Commands
  BY <1>1 DEF RequestInv, Tracked, Holding, Recorded
<1>4. GateInv' /\ OneOrderPerClientId'
  BY StutterKeepsGate DEF TradingInv, OneOrderPerClientId
<1>5. TypeOK'
  BY <1>1, <1>2, <1>4 DEF TypeOK, GateInv, held, asked, table, Ended
<1>6. OnlyFor(r)
  BY <1>1, <1>2, TradingTypes DEF held, asked, table, gateVars, OnlyFor
<1>7. RequestInv(r)'
  <2>1. /\ pc'[r] = stage
        /\ UNCHANGED <<command, order, settled, venue, window, orders, posted>>
    BY <1>1, <1>2, TradingTypes DEF held, asked, table, gateVars
  <2>2. Tracked(r)'
    BY <1>3, <2>1 DEF Tracked, OwnOrder, Holding, Recorded, Unrecorded
  <2>3. Retried(r)'
    BY <1>1, <2>1 DEF RequestInv, Retried, Ended
  <2>4. Approved(r)'
    BY <1>1, <2>1 DEF RequestInv, Approved, Holding
  <2>5. Announced(r)'
    BY <1>3, <2>1 DEF Announced, OwnOrder
  <2>. QED BY <2>1, <2>2, <2>3, <2>4, <2>5 DEF RequestInv, Loaded
<1>. QED BY <1>4, <1>5, <1>6, <1>7, StepOfRequest

LEMMA ServeKeeps ==
  ASSUME TradingInv, NEW r \in Requests, Serve(r)
  PROVE  TradingInv'
<1>1. failures \in 0..MaxFailures
  BY DEF TradingInv, TypeOK
<1>2. CASE LookupFinds(r)
  BY <1>2, LookupFindsKeeps
<1>3. CASE LookupMisses(r)
  BY <1>3, LookupMissesKeeps
<1>4. CASE GateReadsSwitch(r)
  BY <1>4, GateReadsSwitchKeeps
<1>5. CASE GateReadsProfileAndStops(r)
  BY <1>5, GateReadsProfileAndStopsKeeps
<1>6. CASE GateReadsProfileAndFillsOnPaper(r)
  BY <1>6, GateReadsProfileAndFillsOnPaperKeeps
<1>7. CASE GateReadsProfileAndSends(r)
  BY <1>7, GateReadsProfileAndSendsKeeps
<1>8. CASE VenueAnswers(r)
  BY <1>8, VenueAnswersKeeps
<1>9. CASE VenueRefuses(r) \/ SaveCollides(r) \/ CommitCollides(r)
  <2>1. pc[r] # "idle" /\ UNCHANGED <<gateVars, held, world, failures>>
    BY <1>9 DEF VenueRefuses, SaveCollides, CommitCollides
  <2>2. GoTo(r, "err") \/ GoTo(r, "raised")
    BY <1>9 DEF VenueRefuses, SaveCollides, CommitCollides
  <2>3. GateInv' /\ UNCHANGED window
    BY <2>1, StutterKeepsGate DEF TradingInv, gateVars
  <2>. QED BY <1>1, <2>1, <2>2, <2>3, StoppedKeeps
<1>10. CASE Save(r)
  <2>1. CASE order[r].status = "filled"
    <3>1. GoTo(r, "position")
      BY <1>10, <2>1 DEF Save
    <3>. QED BY <1>1, <1>10, <2>1, <3>1, InsertKeeps DEF Save
  <2>2. CASE order[r].status # "filled"
    <3>1. GoTo(r, "publish")
      BY <1>10, <2>2 DEF Save
    <3>. QED BY <1>1, <1>10, <2>2, <3>1, InsertKeeps DEF Save
  <2>. QED BY <2>1, <2>2
<1>11. CASE ReadPosition(r)
  BY <1>11, ReadPositionKeeps
<1>12. CASE LoadRow(r)
  BY <1>12, LoadRowKeeps
<1>13. CASE CommitPosition(r)
  BY <1>1, <1>13, WriteKeeps DEF CommitPosition
<1>14. CASE Publish(r)
  BY <1>1, <1>14, PublishKeeps DEF Publish
<1>. QED BY <1>2, <1>3, <1>4, <1>5, <1>6, <1>7, <1>8, <1>9, <1>10, <1>11, <1>12, <1>13, <1>14 DEF Serve

----------------------------------------------------------------------------
\* Failures.

LEMMA FailureKeeps ==
  ASSUME TradingInv, NEW r \in Requests, VenueTimesOut(r) \/ CallFails(r) \/ AnswerLost(r)
  PROVE  TradingInv'
<1>1. failures' \in 0..MaxFailures
  <2>1. failures \in 0..MaxFailures /\ failures < MaxFailures /\ failures' = failures + 1 /\ MaxFailures \in Nat
    BY LimitsAssumption DEF TradingInv, TypeOK, VenueTimesOut, CallFails, AnswerLost
  <2>. QED BY <2>1
<1>2. CASE VenueTimesOut(r) \/ CallFails(r)
  <2>1. pc[r] # "idle" /\ UNCHANGED <<gateVars, held, world>>
    BY <1>2 DEF VenueTimesOut, CallFails, Awaiting
  <2>2. GoTo(r, "err") \/ GoTo(r, "raised")
    BY <1>2 DEF VenueTimesOut, CallFails
  <2>3. GateInv' /\ UNCHANGED window
    BY <2>1, StutterKeepsGate DEF TradingInv, gateVars
  <2>. QED BY <1>1, <2>1, <2>2, <2>3, StoppedKeeps
<1>3. CASE AnswerLost(r)
  <2>1. GoTo(r, "raised") /\ UNCHANGED <<gateVars, held, venue>>
    BY <1>3 DEF AnswerLost
  <2>2. CASE pc[r] = "save" /\ InsertOrder(r) /\ UNCHANGED <<table, published>>
    BY <1>1, <2>1, <2>2, InsertKeeps
  <2>3. CASE pc[r] = "commit" /\ WriteRow(r) /\ UNCHANGED <<orders, published>>
    BY <1>1, <2>1, <2>3, WriteKeeps
  <2>4. CASE pc[r] = "publish" /\ published' = published \cup {r} /\ UNCHANGED <<orders, table>>
    BY <1>1, <2>1, <2>4, PublishKeeps
  <2>. QED BY <1>3, <2>2, <2>3, <2>4 DEF AnswerLost
<1>. QED BY <1>2, <1>3

\* A check that is idle, and windows that are as they were, ask nothing.
LEMMA CrashKeepsGate == ASSUME GateInv, Crash PROVE GateInv'
<1>1. IdleCheck \in CheckRecord /\ IdleCheck.stage = "idle"
  BY DefaultProfileAssumption DEF IdleCheck, CheckRecord, Stages, Ratios
<1>2. /\ check' = [r \in Requests |-> IF r \in InFlight THEN IdleCheck ELSE check[r]]
      /\ announcing' = 0
      /\ UNCHANGED <<switch, profile, alarms, breaches, commands, damage, intent, window>>
  BY DEF Crash
<1>3. check' \in [Checks -> CheckRecord]
  <2>1. check \in [Checks -> CheckRecord]
    BY DEF GateInv, GateTypeOK, CheckRecord
  <2>. HIDE DEF IdleCheck
  <2>. QED BY <1>1, <1>2, <2>1 DEF Requests
<1>4. GateTypeOK'
  BY <1>2, <1>3 DEF GateInv, GateTypeOK, CheckRecord
<1>5. ASSUME NEW c \in Checks PROVE (Watched(c) /\ Justified(c))'
  <2>1. Watched(c) /\ Justified(c)
    BY DEF GateInv
  <2>2. check'[c] = IdleCheck \/ check'[c] = check[c]
    BY <1>2 DEF Requests
  <2>. HIDE DEF IdleCheck
  <2>3. CASE check'[c] = IdleCheck
    BY <1>1, <2>3 DEF Watched, Justified, Running
  <2>4. CASE check'[c] = check[c]
    BY <1>2, <2>1, <2>4 DEF Watched, Justified, Running
  <2>. QED BY <2>2, <2>3, <2>4
<1>. QED BY <1>4, <1>5 DEF GateInv

LEMMA CrashKeeps == ASSUME TradingInv, Crash PROVE TradingInv'
<1>1. TypeOK /\ failures' \in 0..MaxFailures
  BY LimitsAssumption DEF TradingInv, TypeOK, Crash
<1>2. /\ pc' = [r \in Requests |-> IF r \in InFlight THEN "lost" ELSE pc[r]]
      /\ UNCHANGED <<held, world, window>>
  BY DEF Crash
<1>3. GateInv' /\ OneOrderPerClientId'
  BY <1>2, CrashKeepsGate DEF TradingInv, world, OneOrderPerClientId
<1>4. TypeOK'
  <2>1. pc' \in [Requests -> {"idle"} \cup Awaiting \cup Ended]
    BY <1>1, <1>2, TradingTypes DEF Ended
  <2>. QED BY <1>1, <1>2, <1>3, <2>1 DEF TypeOK, GateInv, held, asked, world, table
<1>5. ASSUME NEW r \in Requests PROVE RequestInv(r)'
  <2>1. RequestInv(r) /\ UNCHANGED <<command, order, settled, work, venue, window, orders, positions, posted, published>>
    BY <1>2 DEF TradingInv, held, asked, world, table
  <2>2. CASE r \notin InFlight
    <3>1. pc'[r] = pc[r]
      BY <1>2, <2>2
    <3>. QED BY <2>1, <3>1, OthersKeepTrack
  <2>3. CASE r \in InFlight
    <3>1. pc'[r] = "lost" /\ pc[r] # "idle"
      BY <1>2, <2>3 DEF InFlight, Awaiting
    <3>2. Untouched(r)' <=> Untouched(r)
      BY <2>1 DEF Untouched
    <3>3. Tracked(r)'
      BY <2>1, <3>1 DEF RequestInv, Tracked, Holding, Recorded, Unrecorded
    <3>4. Retried(r)'
      BY <2>1, <3>1, <3>2 DEF RequestInv, Retried, Ended
    <3>5. Approved(r)' /\ Announced(r)'
      BY <2>1, <3>1 DEF RequestInv, Approved, Announced, Holding
    <3>. QED BY <3>1, <3>3, <3>4, <3>5 DEF RequestInv, Loaded
  <2>. QED BY <2>2, <2>3
<1>. QED BY <1>3, <1>4, <1>5 DEF TradingInv

----------------------------------------------------------------------------
\* The exchange and the operators.

LEMMA VenueKeeps ==
  ASSUME TradingInv, NEW r \in Requests, VenueAccepts(r) \/ VenueRejects(r) \/ VenueFills(r)
  PROVE  TradingInv'
<1>1. TypeOK /\ RequestInv(r) /\ venue \in [Requests -> VenueOrders]
  BY TradingTypes DEF TradingInv
<1>2. /\ venue[r].state \in {"sent", "accepted"}
      /\ UNCHANGED <<gateVars, pc, held, orders, table, published, failures>>
  BY DEF VenueAccepts, VenueRejects, VenueFills
<1>3. command[r] \in Commands
  BY <1>1, <1>2 DEF RequestInv, Tracked, NoVenueOrder
<1>4. /\ venue' \in [Requests -> VenueOrders]
      /\ \A d \in Requests \ {r} : venue'[d] = venue[d]
  <2>1. CASE VenueAccepts(r)
    <3>1. PICK filled \in 0..command[r].quantity, status \in {"open", "closed"} :
            venue' = [venue EXCEPT ![r] = [state |-> "accepted", status |-> status,
                                           reported |-> filled, filled |-> filled]]
      BY <2>1 DEF VenueAccepts
    <3>2. filled \in Nat
      BY <1>3, CommandsAssumption
    <3>. QED BY <1>1, <3>1, <3>2 DEF VenueOrders
  <2>2. CASE VenueRejects(r)
    BY <1>1, <2>2 DEF VenueRejects, VenueOrders
  <2>3. CASE VenueFills(r)
    BY <1>1, <2>3 DEF VenueFills, VenueOrders
  <2>. QED BY <2>1, <2>2, <2>3
<1>5. GateInv' /\ OneOrderPerClientId'
  BY <1>2, StutterKeepsGate DEF TradingInv, OneOrderPerClientId
<1>6. TypeOK'
  BY <1>1, <1>2, <1>4, <1>5 DEF TypeOK, GateInv, held, asked, table
<1>7. OnlyFor(r)
  BY <1>1, <1>2, <1>4 DEF held, asked, table, gateVars, OnlyFor
<1>8. RequestInv(r)'
  <2>1. UNCHANGED <<pc, command, order, settled, work, window, orders, positions, posted, published>>
    BY <1>2 DEF held, asked, table, gateVars
  <2>2. /\ pc[r] \notin {"idle", "lookup", "gate"} /\ ~settled[r]
        /\ window[r].live /\ window[r].permitted
    BY <1>1, <1>2 DEF RequestInv, Tracked, Retried, Approved, NoVenueOrder
  <2>3. (Untouched(r)' <=> Untouched(r)) /\ (OwnOrder(r)' <=> OwnOrder(r))
    BY <2>1 DEF Untouched, OwnOrder
  <2>4. Tracked(r)'
    BY <1>1, <2>1, <2>2, <2>3 DEF RequestInv, Tracked
  <2>5. Retried(r)' /\ Approved(r)' /\ Announced(r)' /\ Loaded(r)'
    BY <1>1, <2>1, <2>2 DEF RequestInv, Retried, Approved, Announced, Loaded
  <2>. QED BY <2>4, <2>5 DEF RequestInv
<1>. QED BY <1>5, <1>6, <1>7, <1>8, StepOfRequest

LEMMA OperateKeeps == ASSUME TradingInv, Operate PROVE TradingInv'
<1>1. TypeOK /\ StoreNext
  /\ UNCHANGED <<pc, command, settled, order, work, orders, positions, lineage, posted, venue, published, failures>>
  BY DEF TradingInv, Operate, tradingVars, held, asked, world, table
<1>2. GateInv' /\ OneOrderPerClientId'
  BY <1>1, StoreNextKeepsGate DEF TradingInv, OneOrderPerClientId
<1>3. TypeOK'
  BY <1>1, <1>2 DEF TypeOK, GateInv
<1>4. ASSUME NEW r \in Requests PROVE RequestInv(r)'
  <2>1. RequestInv(r) /\ r \in Checks
    BY DEF TradingInv, Requests
  <2>. QED BY <1>1, <2>1, StoreNextWidens, OthersKeepTrack
<1>. QED BY <1>2, <1>3, <1>4 DEF TradingInv

LEMMA NextKeeps == TradingInv /\ [Next]_vars => TradingInv'
<1> SUFFICES ASSUME TradingInv, [Next]_vars PROVE TradingInv'
  OBVIOUS
<1>1. ASSUME NEW r \in Requests, NEW c \in Commands, Arrive(r, c) PROVE TradingInv'
  BY <1>1, ArriveKeeps
<1>2. ASSUME NEW r \in Requests, Serve(r) PROVE TradingInv'
  BY <1>2, ServeKeeps
<1>3. ASSUME NEW r \in Requests, VenueTimesOut(r) \/ CallFails(r) \/ AnswerLost(r) PROVE TradingInv'
  BY <1>3, FailureKeeps
<1>4. ASSUME NEW r \in Requests, VenueAccepts(r) \/ VenueRejects(r) \/ VenueFills(r) PROVE TradingInv'
  BY <1>4, VenueKeeps
<1>5. CASE Crash
  BY <1>5, CrashKeeps
<1>6. CASE Operate
  BY <1>6, OperateKeeps
<1>7. CASE UNCHANGED vars
  <2>1. /\ UNCHANGED gateVars
        /\ UNCHANGED <<pc, command, settled, order, work, orders, positions, lineage, posted, venue, published, failures>>
    BY <1>7 DEF vars, tradingVars, held, asked, world, table
  <2>2. GateInv' /\ OneOrderPerClientId' /\ UNCHANGED window
    BY <2>1, StutterKeepsGate DEF TradingInv, OneOrderPerClientId, gateVars
  <2>3. TypeOK'
    BY <2>1, <2>2 DEF TradingInv, TypeOK, GateInv
  <2>4. \A r \in Requests : RequestInv(r)'
    BY <2>1, <2>2, OthersKeepTrack DEF TradingInv
  <2>. QED BY <2>2, <2>3, <2>4 DEF TradingInv
<1>. QED BY <1>1, <1>2, <1>3, <1>4, <1>5, <1>6, <1>7 DEF Next

LEMMA SpecKeeps == Spec => []TradingInv
  BY InitTrading, NextKeeps, PTL DEF Spec

LEMMA TradingInvImplies ==
  ASSUME TradingInv
  PROVE  /\ OneOrderPerClientId /\ AcknowledgedIsStored /\ RetriesAreAnswered
         /\ OrdersWereApproved /\ EventsFollowWrites
<1>1. OneOrderPerClientId
  BY DEF TradingInv
<1>2. AcknowledgedIsStored
  BY DEF TradingInv, RequestInv, Tracked, AcknowledgedIsStored, RowsOf
<1>3. RetriesAreAnswered
  BY DEF TradingInv, RequestInv, Retried, Untouched, RetriesAreAnswered
<1>4. OrdersWereApproved
  BY DEF TradingInv, RequestInv, Approved, OrdersWereApproved
<1>5. EventsFollowWrites
  <2>1. TypeOK /\ \A r \in Requests : Announced(r)
    BY DEF TradingInv, RequestInv
  <2>. QED BY <2>1 DEF TypeOK, Announced, EventsFollowWrites
<1>. QED BY <1>1, <1>2, <1>3, <1>4, <1>5

----------------------------------------------------------------------------

\* Requests, tables, gate and exchange keep their types, whatever fails
\* (PlaceOrderService.execute, the repositories and the gateways).
THEOREM TradingTypeCorrect == Spec => []TypeOK
<1>1. TradingInv => TypeOK
  BY DEF TradingInv
<1>. QED BY SpecKeeps, <1>1, PTL

\* A client id never has two orders in the table (PostgresOrderRepository.save
\* and the unique column client_order_id).
THEOREM ClientIdsAreUnique == Spec => []OneOrderPerClientId
  BY SpecKeeps, TradingInvImplies, PTL

\* An order answered Ok is in the table under the client id that was asked for,
\* whatever fails later (PlaceOrderService.execute's two ways to an Ok).
THEOREM AcknowledgementsHold == Spec => []AcknowledgedIsStored
  BY SpecKeeps, TradingInvImplies, PTL

\* A retry of a recorded order changes nothing (PlaceOrderService.execute's lookup).
THEOREM RetriesAreIdempotent == Spec => []RetriesAreAnswered
  BY SpecKeeps, TradingInvImplies, PTL

\* No order reaches the exchange or the table without passing the gate
\* (PlaceOrderService.execute asks authorize before it submits).
THEOREM NothingPassesTheGate == Spec => []OrdersWereApproved
  BY SpecKeeps, TradingInvImplies, PTL

\* An event is published after the rows it tells of are committed
\* (PlaceOrderService.execute publishes last).
THEOREM EventsComeLast == Spec => []EventsFollowWrites
  BY SpecKeeps, TradingInvImplies, PTL

----------------------------------------------------------------------------
\* Trading implements OrderRegistry.

LEMMA AnswersAre ==
  ASSUME NEW r \in Requests
  PROVE  /\ pc[r] = "ok" => Answers[r] = [outcome |-> "ok", order |-> order[r]]
         /\ pc[r] \in Ended \ {"ok"} => Answers[r] = [outcome |-> "failed", order |-> NoOrder]
         /\ pc[r] \notin Ended => Answers[r] = [outcome |-> "none", order |-> NoOrder]
  BY DEF Answers, Ended

\* The register of a client id holds its one row.
LEMMA RegistryIs ==
  ASSUME TradingInv, NEW id \in ClientIds
  PROVE  /\ RowsOf(id) = {} => Registry[id] = NoOrder
         /\ \A o \in RowsOf(id) : Registry[id] = o
         /\ RowsOf(id) # {} => Registry[id] # NoOrder
<1>1. \A o \in RowsOf(id) : RowsOf(id) = {o} /\ o \in OrderRecord
  BY DEF TradingInv, TypeOK, OneOrderPerClientId, RowsOf
<1>2. RowsOf(id) = {} => Registry[id] = NoOrder
  BY DEF Registry
<1>3. ASSUME NEW o \in RowsOf(id) PROVE Registry[id] = o
  <2>1. (CHOOSE p \in RowsOf(id) : TRUE) \in RowsOf(id)
    BY <1>3
  <2>2. Registry[id] = CHOOSE p \in RowsOf(id) : TRUE
    BY <1>3 DEF Registry
  <2>. QED BY <1>1, <2>1, <2>2
<1>. QED BY <1>1, <1>2, <1>3, NoOrderAssumption

\* What a request in flight asked for.
LEMMA AskedForIs ==
  ASSUME TradingInv, NEW r \in Requests, pc[r] # "idle"
  PROVE  /\ command[r] \in Commands /\ command[r].client_order_id \in ClientIds
         /\ AskedFor[r] = command[r].client_order_id /\ AskedFor[r] # NoCommand
<1>1. command[r] \in Commands
  BY DEF TradingInv, RequestInv, Tracked
<1>. QED BY <1>1, MarkersAssumption DEF AskedFor, ClientIds

\* Steps a client does not notice.
LEMMA QuietStep ==
  ASSUME UNCHANGED <<orders, command>>,
         \A d \in Requests : \/ pc'[d] = pc[d] /\ order'[d] = order[d]
                             \/ pc[d] \notin Ended /\ pc'[d] \notin Ended
  PROVE  UNCHANGED Registration!vars
<1>1. Registry' = Registry /\ AskedFor' = AskedFor
  BY DEF Registry, RowsOf, AskedFor
<1>2. Answers' = Answers
  <2>1. \A d \in Requests : Answers'[d] = Answers[d]
    BY DEF Answers, Ended
  <2>2. /\ Answers = [d \in Requests |-> Answers[d]]
        /\ Answers' = [d \in Requests |-> Answers'[d]]
    BY DEF Answers
  <2>. QED BY <2>1, <2>2
<1>. QED BY <1>1, <1>2 DEF Registration!vars

\* Steps that fail some requests.
LEMMA FailStep ==
  ASSUME TradingInv, NEW failing \in SUBSET Requests, UNCHANGED <<orders, command>>,
         \A d \in failing : pc[d] \notin Ended \cup {"idle"} /\ pc'[d] \in Ended \ {"ok"},
         \A d \in Requests \ failing : pc'[d] = pc[d] /\ order'[d] = order[d]
  PROVE  Registration!Fail(failing)
<1>1. Registry' = Registry /\ AskedFor' = AskedFor
  BY DEF Registry, RowsOf, AskedFor
<1>2. \A d \in failing : AskedFor[d] # NoCommand /\ Answers[d] = Registration!Unanswered
  BY AskedForIs, AnswersAre DEF Registration!Unanswered
<1>3. \A d \in Requests :
        Answers'[d] = IF d \in failing THEN Registration!Failed ELSE Answers[d]
  BY DEF Answers, Ended, Registration!Failed
<1>4. Answers' = [d \in Requests |-> Answers'[d]]
  BY DEF Answers
<1>5. Answers' = [d \in Requests |-> IF d \in failing THEN Registration!Failed ELSE Answers[d]]
  BY <1>3, <1>4
<1>. QED BY <1>1, <1>2, <1>5 DEF Registration!Fail

LEMMA AskStep ==
  ASSUME TradingInv, NEW r \in Requests, NEW c \in Commands, Arrive(r, c)
  PROVE  Registration!Ask(r, c.client_order_id) /\ c.client_order_id \in ClientIds
<1>1. /\ pc[r] = "idle" /\ command[r] = NoCommand /\ c # NoCommand
      /\ pc' = [pc EXCEPT ![r] = "lookup"] /\ command' = [command EXCEPT ![r] = c]
      /\ UNCHANGED <<orders, order>>
  BY MarkersAssumption DEF TradingInv, RequestInv, Tracked, Arrive, GoTo, world
<1>2. Registry' = Registry
  BY <1>1 DEF Registry, RowsOf
<1>3. AskedFor[r] = NoCommand /\ Answers[r] = Registration!Unanswered
  BY <1>1, AnswersAre DEF AskedFor, Ended, Registration!Unanswered
<1>4. AskedFor' = [AskedFor EXCEPT ![r] = c.client_order_id]
  <2>1. command \in [Requests -> Commands \cup {NoCommand}]
    BY TradingTypes DEF TradingInv
  <2>. QED BY <1>1, <2>1 DEF AskedFor
<1>5. Answers' = Answers
  <2>1. pc \in [Requests -> {"idle"} \cup Awaiting \cup Ended]
    BY TradingTypes DEF TradingInv
  <2>2. \A d \in Requests : \/ pc'[d] = pc[d] /\ order'[d] = order[d]
                            \/ pc[d] \notin Ended /\ pc'[d] \notin Ended
    BY <1>1, <2>1 DEF Ended
  <2>3. \A d \in Requests : Answers'[d] = Answers[d]
    BY <2>2 DEF Answers, Ended
  <2>. QED BY <2>3 DEF Answers
<1>6. c.client_order_id \in ClientIds
  BY DEF ClientIds
<1>. QED BY <1>2, <1>3, <1>4, <1>5, <1>6 DEF Registration!Ask

\* A request is answered with a row.
LEMMA AnswerStep ==
  ASSUME TradingInv, NEW r \in Requests, pc[r] \notin Ended \cup {"idle"}, pc'[r] = "ok",
         order'[r] \in RowsOf(command[r].client_order_id),
         UNCHANGED <<orders, command>>,
         \A d \in Requests \ {r} : pc'[d] = pc[d] /\ order'[d] = order[d]
  PROVE  Registration!Answer(r)
<1>1. Registry' = Registry /\ AskedFor' = AskedFor
  BY DEF Registry, RowsOf, AskedFor
<1>2. AskedFor[r] = command[r].client_order_id /\ AskedFor[r] # NoCommand /\ AskedFor[r] \in ClientIds
  BY AskedForIs
<1>3. Registry[AskedFor[r]] = order'[r] /\ Registry[AskedFor[r]] # NoOrder
  BY <1>2, RegistryIs
<1>4. Answers[r] = Registration!Unanswered
  BY AnswersAre DEF Registration!Unanswered
<1>5. \A d \in Requests :
        Answers'[d] = IF d = r THEN Registration!Answered(order'[r]) ELSE Answers[d]
  BY DEF Answers, Registration!Answered
<1>6. Answers' = [Answers EXCEPT ![r] = Registration!Answered(Registry[AskedFor[r]])]
  BY <1>3, <1>5 DEF Answers
<1>. QED BY <1>1, <1>2, <1>3, <1>4, <1>6 DEF Registration!Answer

\* A request writes its row, and goes on or fails.
LEMMA WriteStep ==
  ASSUME TradingInv, NEW r \in Requests, pc[r] = "save", InsertOrder(r),
         pc'[r] \notin Ended \/ pc'[r] \in Ended \ {"ok"},
         UNCHANGED <<order, command>>,
         \A d \in Requests \ {r} : pc'[d] = pc[d]
  PROVE  Registration!Write(r)
<1> DEFINE id == command[r].client_order_id
<1>1. /\ AskedFor[r] = id /\ AskedFor[r] # NoCommand /\ id \in ClientIds /\ AskedFor' = AskedFor
  BY AskedForIs DEF AskedFor
<1>2. /\ order[r] \in OrderRecord /\ order[r].client_order_id = id
      /\ RowsOf(id) = {} /\ orders' = orders \cup {order[r]}
  BY DEF TradingInv, RequestInv, Tracked, OwnOrder, Holding, InsertOrder, Insertable
<1>3. Registry[id] = NoOrder
  BY <1>1, <1>2, RegistryIs
<1>4. Registry' = [Registry EXCEPT ![id] = order[r]]
  <2>1. ASSUME NEW k \in ClientIds PROVE Registry'[k] = IF k = id THEN order[r] ELSE Registry[k]
    <3>1. CASE k = id
      <4>1. RowsOf(k)' = {order[r]}
        BY <1>2, <3>1 DEF RowsOf
      <4>2. Registry'[k] = CHOOSE o \in {order[r]} : TRUE
        BY <4>1 DEF Registry
      <4>. QED BY <3>1, <4>2
    <3>2. CASE k # id
      <4>1. RowsOf(k)' = RowsOf(k)
        BY <1>2, <3>2 DEF RowsOf
      <4>. QED BY <3>2, <4>1 DEF Registry
    <3>. QED BY <3>1, <3>2
  <2>2. /\ Registry = [k \in ClientIds |-> Registry[k]]
        /\ Registry' = [k \in ClientIds |-> Registry'[k]]
    BY DEF Registry
  <2>. QED BY <2>1, <2>2
<1>5. Registry'[id] = order[r] /\ Registry' = [Registry EXCEPT ![id] = Registry'[id]]
  BY <1>1, <1>4 DEF Registry
<1>6. Answers[r] = Registration!Unanswered
  BY AnswersAre DEF Ended, Registration!Unanswered
<1>7. Answers' \in {Answers, [Answers EXCEPT ![r] = Registration!Failed]}
  <2>1. \A d \in Requests \ {r} : Answers'[d] = Answers[d]
    BY DEF Answers
  <2>2. Answers'[r] = Answers[r] \/ Answers'[r] = Registration!Failed
    BY DEF Answers, Ended, Registration!Failed
  <2>3. /\ Answers = [d \in Requests |-> Answers[d]]
        /\ Answers' = [d \in Requests |-> Answers'[d]]
    BY DEF Answers
  <2>. QED BY <2>1, <2>2, <2>3
<1>. QED BY <1>1, <1>2, <1>3, <1>5, <1>6, <1>7 DEF Registration!Write

\* GoTo moves one request.
LEMMA GoToMoves ==
  ASSUME TradingInv, NEW r \in Requests, NEW stage, GoTo(r, stage)
  PROVE  pc'[r] = stage /\ \A d \in Requests \ {r} : pc'[d] = pc[d]
  BY TradingTypes DEF TradingInv, GoTo

LEMMA ServeImplements ==
  ASSUME TradingInv, NEW r \in Requests, Serve(r)
  PROVE  [Registration!Next]_(Registration!vars)
<1>1. CASE LookupFinds(r)
  <2>1. PICK o \in RowsOf(command[r].client_order_id) : order' = [order EXCEPT ![r] = o]
    BY <1>1 DEF LookupFinds
  <2>2. order'[r] = o /\ \A d \in Requests \ {r} : order'[d] = order[d]
    BY <2>1, TradingTypes DEF TradingInv
  <2>3. pc[r] = "lookup" /\ GoTo(r, "ok") /\ UNCHANGED <<orders, command>>
    BY <1>1 DEF LookupFinds, asked, world
  <2>4. Registration!Answer(r)
    BY <2>2, <2>3, GoToMoves, AnswerStep DEF Ended
  <2>. QED BY <2>4 DEF Registration!Next
<1>2. CASE LookupMisses(r) \/ GateReadsProfileAndFillsOnPaper(r) \/ GateReadsProfileAndSends(r)
           \/ VenueAnswers(r) \/ ReadPosition(r) \/ LoadRow(r) \/ CommitPosition(r)
  <2>1. /\ pc[r] \in {"lookup", "gate", "submit", "position", "load", "commit"}
        /\ \E stage \in {"gate", "save", "submit", "load", "commit", "publish"} : GoTo(r, stage)
        /\ UNCHANGED <<orders, command>>
        /\ \A d \in Requests \ {r} : order'[d] = order[d]
    BY <1>2, TradingTypes
    DEF TradingInv, LookupMisses, GateReadsProfileAndFillsOnPaper, GateReadsProfileAndSends, VenueAnswers,
        ReadPosition, LoadRow, CommitPosition, held, asked, world
  <2>2. UNCHANGED Registration!vars
    BY <2>1, GoToMoves, QuietStep DEF Ended
  <2>. QED BY <2>2
<1>3. CASE GateReadsSwitch(r) \/ GateReadsProfileAndStops(r) \/ VenueRefuses(r)
           \/ SaveCollides(r) \/ CommitCollides(r)
  <2>1. /\ pc[r] \in {"gate", "submit", "save", "commit"}
        /\ GoTo(r, "err") \/ GoTo(r, "raised") \/ (GoTo(r, "gate") /\ pc[r] = "gate")
        /\ UNCHANGED <<orders, command, order>>
    <3>1. CASE GateReadsSwitch(r)
      BY <3>1 DEF GateReadsSwitch, held, asked, world
    <3>2. CASE ~GateReadsSwitch(r)
      BY <1>3, <3>2 DEF GateReadsProfileAndStops, VenueRefuses, SaveCollides, CommitCollides,
                        held, asked, world
    <3>. QED BY <3>1, <3>2
  <2>2. CASE GoTo(r, "gate") /\ pc[r] = "gate"
    <3>1. UNCHANGED Registration!vars
      BY <2>1, <2>2, GoToMoves, QuietStep
    <3>. QED BY <3>1
  <2>3. CASE GoTo(r, "err") \/ GoTo(r, "raised")
    <3>1. Registration!Fail({r})
      BY <2>1, <2>3, GoToMoves, FailStep DEF Ended
    <3>. QED BY <3>1 DEF Registration!Next
  <2>. QED BY <2>1, <2>2, <2>3
<1>4. CASE Save(r)
  <2>1. /\ pc[r] = "save" /\ InsertOrder(r) /\ UNCHANGED <<command, order>>
        /\ GoTo(r, "position") \/ GoTo(r, "publish")
    BY <1>4 DEF Save, held, asked
  <2>2. Registration!Write(r)
    BY <2>1, GoToMoves, WriteStep DEF Ended
  <2>. QED BY <2>2 DEF Registration!Next
<1>5. CASE Publish(r)
  <2>1. pc[r] = "publish" /\ GoTo(r, "ok") /\ UNCHANGED <<orders, command, order>>
    BY <1>5 DEF Publish, held, asked
  <2>2. order'[r] \in RowsOf(command[r].client_order_id)
    BY <2>1 DEF TradingInv, RequestInv, Tracked, OwnOrder, Holding, Recorded, RowsOf
  <2>3. Registration!Answer(r)
    BY <2>1, <2>2, GoToMoves, AnswerStep DEF Ended
  <2>. QED BY <2>3 DEF Registration!Next
<1>. QED BY <1>1, <1>2, <1>3, <1>4, <1>5 DEF Serve

LEMMA FailureImplements ==
  ASSUME TradingInv, NEW r \in Requests, VenueTimesOut(r) \/ CallFails(r) \/ AnswerLost(r)
  PROVE  Registration!Next
<1>1. /\ pc[r] \in Awaiting /\ UNCHANGED <<command, order>>
      /\ GoTo(r, "err") \/ GoTo(r, "raised")
  BY DEF VenueTimesOut, CallFails, AnswerLost, Awaiting, held, asked
<1>2. CASE UNCHANGED orders
  <2>1. Registration!Fail({r})
    BY <1>1, <1>2, GoToMoves, FailStep DEF Awaiting, Ended
  <2>. QED BY <2>1 DEF Registration!Next
<1>3. CASE pc[r] = "save" /\ InsertOrder(r)
  <2>1. Registration!Write(r)
    BY <1>1, <1>3, GoToMoves, WriteStep DEF Ended
  <2>. QED BY <2>1 DEF Registration!Next
<1>4. UNCHANGED orders \/ (pc[r] = "save" /\ InsertOrder(r))
  BY DEF VenueTimesOut, CallFails, AnswerLost, world
<1>. QED BY <1>2, <1>3, <1>4

LEMMA NextImplements ==
  TradingInv /\ [Next]_vars => [Registration!Next]_(Registration!vars)
<1> SUFFICES ASSUME TradingInv, [Next]_vars PROVE [Registration!Next]_(Registration!vars)
  OBVIOUS
<1>1. ASSUME NEW r \in Requests, NEW c \in Commands, Arrive(r, c) PROVE Registration!Next
  BY <1>1, AskStep DEF Registration!Next
<1>2. ASSUME NEW r \in Requests, Serve(r) PROVE [Registration!Next]_(Registration!vars)
  BY <1>2, ServeImplements
<1>3. ASSUME NEW r \in Requests, VenueTimesOut(r) \/ CallFails(r) \/ AnswerLost(r) PROVE Registration!Next
  BY <1>3, FailureImplements
<1>4. CASE Crash
  <2>1. /\ \A d \in InFlight : pc'[d] = "lost" /\ pc[d] \notin Ended \cup {"idle"}
        /\ \A d \in Requests \ InFlight : pc'[d] = pc[d]
        /\ UNCHANGED <<orders, command, order>> /\ InFlight \in SUBSET Requests
    BY <1>4 DEF Crash, InFlight, Awaiting, Ended, held, asked, world
  <2>2. Registration!Fail(InFlight)
    BY <2>1, FailStep DEF Ended
  <2>. QED BY <2>1, <2>2 DEF Registration!Next
<1>5. ASSUME UNCHANGED <<pc, orders, command, order>> PROVE UNCHANGED Registration!vars
  BY <1>5, QuietStep
<1>6. CASE Operate \/ UNCHANGED vars
           \/ \E r \in Requests : VenueAccepts(r) \/ VenueRejects(r) \/ VenueFills(r)
  <2>1. UNCHANGED <<pc, orders, command, order>>
    BY <1>6 DEF Operate, vars, tradingVars, held, asked, world, VenueAccepts, VenueRejects, VenueFills
  <2>. QED BY <1>5, <2>1
<1>. QED BY <1>1, <1>2, <1>3, <1>4, <1>6 DEF Next

LEMMA InitImplements == Init => Registration!Init
<1> SUFFICES ASSUME Init PROVE Registration!Init
  OBVIOUS
<1>1. Registry = [k \in ClientIds |-> NoOrder]
  BY DEF Init, Registry, RowsOf
<1>2. AskedFor = [r \in Requests |-> NoCommand]
  BY DEF Init, AskedFor
<1>3. Answers = [r \in Requests |-> Registration!Unanswered]
  BY DEF Init, Answers, Ended, Registration!Unanswered
<1>. QED BY <1>1, <1>2, <1>3 DEF Registration!Init

\* However requests interleave, retry, fail and crash, clients see one write-once
\* register per client id (PlaceOrderService.execute implements OrderRegistry).
THEOREM OrdersAreRegistered == Spec => RegistrySpec
<1>1. Spec => Registration!Init
  BY InitImplements DEF Spec
<1>2. Spec => [][Registration!Next]_(Registration!vars)
  BY SpecKeeps, NextImplements, PTL DEF Spec
<1>. QED BY <1>1, <1>2 DEF RegistrySpec, Registration!Spec

----------------------------------------------------------------------------
\* Requests for one symbol that do not overlap: rows and fills.

\* The position positions.get returns for a symbol.
RowOf(s) == IF positions[s] = NoRow THEN EmptyPosition ELSE positions[s]

Whole(p) == p.quantity = 0 <=> p.average = 0

OneAtATime == \A r1, r2 \in InFlight : SymbolOf(r1) = SymbolOf(r2) => r1 = r2

\* What a request has in hand is about the row as it stands.
Fits(r) ==
  /\ pc[r] \in Holding => order[r].symbol = SymbolOf(r)
  /\ pc[r] \in Holding /\ order[r].status = "filled" => order[r].executed_price \in Nat \ {0}
  /\ pc[r] \in {"load", "commit"} =>
       /\ work[r].position =
            ApplyFill(RowOf(order[r].symbol), order[r].side, order[r].quantity, order[r].executed_price)
       /\ work[r].lineage = lineage[order[r].symbol] \cup {r}
  /\ pc[r] = "commit" => work[r].loaded = positions[order[r].symbol]

SerialInv == OneAtATime /\ RowsAreWhole /\ \A r \in Requests : Fits(r)

\* A fill of a whole row leaves a whole row, of another quantity.
LEMMA ApplyFillIsWhole ==
  ASSUME NEW p \in Position, Whole(p), NEW side \in Sides, NEW quantity \in Nat \ {0}, NEW price \in Nat \ {0}
  PROVE  /\ Whole(ApplyFill(p, side, quantity, price))
         /\ ApplyFill(p, side, quantity, price).quantity # p.quantity
<1> DEFINE signed == SignedQuantity(side, quantity)
<1>1. signed \in Int /\ signed # 0 /\ p.quantity \in Int /\ (p.quantity # 0 => p.average > 0)
  BY DEF SignedQuantity, Position, Whole
<1>2. ApplyFill(p, side, quantity, price).quantity = p.quantity + signed
  BY DEF ApplyFill
<1>3. CASE Averages(p, signed)
  <2>1. p.quantity + signed # 0 /\ AveragedEntry(p, signed, price) > 0
    BY <1>1, <1>3, AveragingFill
  <2>2. ApplyFill(p, side, quantity, price).average = AveragedEntry(p, signed, price)
    BY <1>3 DEF ApplyFill
  <2>. QED BY <1>1, <1>2, <2>1, <2>2 DEF Whole
<1>4. CASE ~Averages(p, signed)
  <2>1. p.quantity + signed = 0 <=> RemainingEntry(p, signed, price) = 0
    BY <1>1, <1>4, ClosingFill
  <2>2. ApplyFill(p, side, quantity, price).average = RemainingEntry(p, signed, price)
    BY <1>4 DEF ApplyFill
  <2>. QED BY <1>1, <1>2, <2>1, <2>2 DEF Whole
<1>. QED BY <1>3, <1>4

\* An update of the row that was loaded, as it still stands, is the whole new row.
LEMMA FlushedUnchanged ==
  ASSUME NEW row \in Position, NEW new \in Position
  PROVE  Flushed(row, row, new) = new
  BY DEF Flushed, Position

\* What a request holds for its symbol outlasts a step of another.
LEMMA OthersFit ==
  ASSUME SerialInv, TradingInv, NEW r \in Requests, NEW d \in Requests, d # r,
         pc'[d] = pc[d], command'[d] = command[d], order'[d] = order[d], work'[d] = work[d],
         \A s \in Symbols : \/ r \in InFlight /\ s = SymbolOf(r)
                            \/ positions'[s] = positions[s] /\ lineage'[s] = lineage[s]
  PROVE  Fits(d)'
<1>1. Fits(d) /\ Tracked(d)
  BY DEF SerialInv, TradingInv, RequestInv
<1>2. SymbolOf(d)' = SymbolOf(d)
  BY DEF SymbolOf
<1>3. CASE pc[d] \notin Holding
  BY <1>3 DEF Fits, Holding
<1>4. CASE pc[d] \in Holding
  <2>1. d \in InFlight /\ order[d].symbol = SymbolOf(d) /\ order[d].symbol \in Symbols
    BY <1>1, <1>4 DEF Fits, Tracked, OwnOrder, OrderRecord, Holding, InFlight, Awaiting
  <2>2. positions'[order[d].symbol] = positions[order[d].symbol] /\ lineage'[order[d].symbol] = lineage[order[d].symbol]
    BY <2>1 DEF SerialInv, OneAtATime
  <2>. QED BY <1>1, <1>2, <2>2 DEF Fits, RowOf
<1>. QED BY <1>3, <1>4

\* Everything in the hands of other requests is left alone.
Own(r) ==
  /\ UNCHANGED command
  /\ \A d \in Requests \ {r} : pc'[d] = pc[d] /\ order'[d] = order[d] /\ work'[d] = work[d]

\* A step of a running request that writes no row.
LEMMA QuietKeepsSerial ==
  ASSUME SerialInv, TradingInv, NEW r \in InFlight, Own(r), UNCHANGED <<positions, lineage>>, Fits(r)'
  PROVE  SerialInv'
<1>1. RowsAreWhole'
  BY DEF SerialInv, RowsAreWhole
<1>2. InFlight' \subseteq InFlight
  BY DEF Own, InFlight
<1>3. OneAtATime'
  BY <1>2 DEF SerialInv, OneAtATime, Own, SymbolOf
<1>4. ASSUME NEW d \in Requests PROVE Fits(d)'
  <2>1. r \in Requests
    BY DEF InFlight
  <2>. QED BY <2>1, OthersFit DEF Own
<1>. QED BY <1>1, <1>3, <1>4 DEF SerialInv

LEMMA QuietStepsKeepSerial ==
  ASSUME SerialInv, TradingInv, NEW r \in Requests,
         \/ LookupFinds(r) \/ LookupMisses(r) \/ GateReadsSwitch(r) \/ GateReadsProfileAndStops(r)
         \/ VenueRefuses(r) \/ SaveCollides(r) \/ CommitCollides(r) \/ Publish(r)
         \/ VenueTimesOut(r) \/ CallFails(r)
         \/ AnswerLost(r) /\ UNCHANGED table
  PROVE  SerialInv'
<1>1. TypeOK
  BY DEF TradingInv
<1>2. r \in InFlight /\ pc'[r] \notin Holding
  BY <1>1 DEF LookupFinds, LookupMisses, GateReadsSwitch, GateReadsProfileAndStops, VenueRefuses, SaveCollides,
              CommitCollides, Publish, VenueTimesOut, CallFails, AnswerLost, GoTo, InFlight, Awaiting, Holding, TypeOK
<1>3. Own(r) /\ UNCHANGED <<positions, lineage>>
  BY <1>1 DEF LookupFinds, LookupMisses, GateReadsSwitch, GateReadsProfileAndStops, VenueRefuses, SaveCollides,
              CommitCollides, Publish, VenueTimesOut, CallFails, AnswerLost, GoTo, TypeOK, Own,
              held, asked, world, table
<1>4. Fits(r)'
  BY <1>2 DEF Fits, Holding
<1>. QED BY <1>2, <1>3, <1>4, QuietKeepsSerial

LEMMA GateAndVenueKeepSerial ==
  ASSUME SerialInv, TradingInv, NEW r \in Requests,
         GateReadsProfileAndFillsOnPaper(r) \/ GateReadsProfileAndSends(r) \/ VenueAnswers(r)
  PROVE  SerialInv'
<1>1. TypeOK /\ Fits(r) /\ Tracked(r)
  BY DEF TradingInv, SerialInv, RequestInv
<1>2. r \in InFlight /\ pc[r] \in {"gate", "submit"} /\ pc'[r] \in {"save", "submit"}
  BY <1>1 DEF GateReadsProfileAndFillsOnPaper, GateReadsProfileAndSends, VenueAnswers,
              GoTo, InFlight, Awaiting, TypeOK
<1>3. Own(r) /\ UNCHANGED <<positions, lineage>>
  BY <1>1 DEF GateReadsProfileAndFillsOnPaper, GateReadsProfileAndSends, VenueAnswers,
              GoTo, TypeOK, Own, asked, world, table
<1>4. command[r] \in Commands /\ command'[r] = command[r] /\ command[r].price \in Nat \ {0}
  BY <1>1, <1>2, <1>3, CommandsAssumption DEF Tracked, Own
<1>5. /\ order'[r].symbol = SymbolOf(r)
      /\ order'[r].status = "filled" => order'[r].executed_price \in Nat \ {0}
  <2>1. CASE GateReadsProfileAndFillsOnPaper(r)
    <3>1. order'[r] = Filled(Created(r, command[r]), Quantized(command[r].price)) /\ Quantized(command[r].price) > 0
      BY <1>1, <2>1 DEF GateReadsProfileAndFillsOnPaper, TypeOK
    <3>2. Quantized(command[r].price) \in Nat
      BY <1>4, QuantizedIsNat
    <3>. QED BY <3>1, <3>2 DEF Filled, Created, SymbolOf
  <2>2. CASE GateReadsProfileAndSends(r)
    <3>1. order'[r] = Created(r, command[r])
      BY <1>1, <2>2 DEF GateReadsProfileAndSends, TypeOK
    <3>. QED BY <3>1 DEF Created, SymbolOf
  <2>3. CASE VenueAnswers(r)
    <3>1. PICK average \in VenuePrices \cup {NoPrice} :
            order'[r] = Submitted(order[r], command[r], venue[r].status, venue[r].reported, average)
      BY <1>1, <2>3 DEF VenueAnswers, TypeOK
    <3>2. /\ pc[r] \in Holding /\ order[r].symbol = SymbolOf(r)
          /\ order[r].status = "filled" => order[r].executed_price \in Nat \ {0}
      BY <1>1, <2>3 DEF VenueAnswers, Holding, Fits
    <3>3. order[r] \in OrderRecord
      BY <1>1, <3>2 DEF Tracked, OwnOrder
    <3>4. (IF average = NoPrice THEN command[r].price ELSE average) \in Nat \ {0}
      BY <1>4, GatewayAssumption
    <3>5. CASE order'[r] = order[r]
      BY <3>2, <3>5
    <3>6. CASE order'[r] = Filled(order[r], IF average = NoPrice THEN command[r].price ELSE average)
      BY <3>2, <3>3, <3>4, <3>6 DEF Filled, OrderRecord
    <3>. QED BY <3>1, <3>5, <3>6 DEF Submitted
  <2>. QED BY <2>1, <2>2, <2>3
<1>6. Fits(r)'
  BY <1>2, <1>4, <1>5 DEF Fits, SymbolOf
<1>. QED BY <1>2, <1>3, <1>6, QuietKeepsSerial

LEMMA ReadsKeepSerial ==
  ASSUME SerialInv, TradingInv, NEW r \in Requests, Save(r) \/ ReadPosition(r) \/ LoadRow(r)
  PROVE  SerialInv'
<1>1. TypeOK /\ Fits(r)
  BY DEF TradingInv, SerialInv
<1>2. /\ r \in InFlight /\ pc[r] \in {"save", "position", "load"}
      /\ UNCHANGED <<command, order, positions, lineage>> /\ Own(r)
  BY <1>1 DEF Save, ReadPosition, LoadRow, GoTo, InFlight, Awaiting, TypeOK, Own, held, asked, world, table
<1>3. CASE Save(r)
  <2>1. pc'[r] \in {"position", "publish"}
    BY <1>1, <1>3 DEF Save, GoTo, TypeOK
  <2>2. Fits(r)'
    BY <1>1, <1>2, <2>1 DEF Fits, Holding, SymbolOf
  <2>. QED BY <1>2, <2>2, QuietKeepsSerial
<1>4. CASE ReadPosition(r)
  <2>1. /\ pc'[r] = "load"
        /\ work'[r].position =
             ApplyFill(RowOf(order[r].symbol), order[r].side, order[r].quantity, order[r].executed_price)
        /\ work'[r].lineage = lineage[order[r].symbol] \cup {r}
    BY <1>1, <1>4 DEF ReadPosition, GoTo, TypeOK, RowOf
  <2>2. Fits(r)'
    BY <1>1, <1>2, <2>1 DEF Fits, Holding, SymbolOf, RowOf
  <2>. QED BY <1>2, <2>2, QuietKeepsSerial
<1>5. CASE LoadRow(r)
  <2>1. /\ pc'[r] = "commit" /\ pc[r] = "load"
        /\ work'[r].position = work[r].position /\ work'[r].lineage = work[r].lineage
        /\ work'[r].loaded = positions[order[r].symbol]
    BY <1>1, <1>5 DEF LoadRow, GoTo, TypeOK
  <2>2. Fits(r)'
    BY <1>1, <1>2, <2>1 DEF Fits, Holding, SymbolOf, RowOf
  <2>. QED BY <1>2, <2>2, QuietKeepsSerial
<1>. QED BY <1>3, <1>4, <1>5

\* What a commit writes: the fill of the row as it stands.
LEMMA CommitWrites ==
  ASSUME SerialInv, TradingInv, NEW r \in Requests, pc[r] = "commit", WriteRow(r)
  PROVE  LET s == order[r].symbol
             new == work[r].position
         IN /\ s \in Symbols /\ s = SymbolOf(r) /\ r \in InFlight
            /\ new \in Position /\ Whole(new)
            /\ positions' = [positions EXCEPT ![s] = new]
            /\ lineage' = [lineage EXCEPT ![s] = lineage[s] \cup {r}]
<1> DEFINE s == order[r].symbol
           new == work[r].position
           loaded == work[r].loaded
<1>1. TypeOK /\ Fits(r) /\ OwnOrder(r) /\ order[r].status = "filled" /\ r \in InFlight
  BY DEF TradingInv, SerialInv, RequestInv, Tracked, Holding, InFlight, Awaiting
<1>2. s \in Symbols /\ s = SymbolOf(r) /\ order[r].side \in Sides /\ order[r].quantity \in Nat \ {0}
  BY <1>1 DEF OwnOrder, OrderRecord, Fits, Holding
<1>3. /\ new = ApplyFill(RowOf(s), order[r].side, order[r].quantity, order[r].executed_price)
      /\ work[r].lineage = lineage[s] \cup {r} /\ loaded = positions[s]
      /\ order[r].executed_price \in Nat \ {0}
  BY <1>1 DEF Fits, Holding
<1>4. RowOf(s) \in Position /\ Whole(RowOf(s))
  <2>1. EmptyPosition \in Position /\ Whole(EmptyPosition)
    BY DEF EmptyPosition, Position, Whole
  <2>2. positions[s] # NoRow => positions[s] \in Position /\ Whole(positions[s])
    BY <1>1, <1>2 DEF TypeOK, SerialInv, RowsAreWhole, Whole
  <2>. QED BY <2>1, <2>2 DEF RowOf
<1>5. new \in Position /\ Whole(new) /\ new.quantity # RowOf(s).quantity
  BY <1>2, <1>3, <1>4, ApplyFillIsWhole, ApplyFillIsAPosition
<1>6. /\ positions' = [positions EXCEPT ![s] = IF loaded = NoRow THEN new ELSE Flushed(positions[s], loaded, new)]
      /\ lineage' = [lineage EXCEPT ![s] =
           IF loaded # NoRow /\ new.quantity = loaded.quantity THEN lineage[s] ELSE work[r].lineage]
  BY DEF WriteRow
<1> HIDE DEF new, s, loaded
<1>7. CASE loaded = NoRow
  BY <1>1, <1>2, <1>3, <1>5, <1>6, <1>7 DEF new, s
<1>8. CASE loaded # NoRow
  <2>1. RowOf(s) = loaded /\ loaded \in Position
    BY <1>3, <1>4, <1>8 DEF RowOf
  <2>2. Flushed(positions[s], loaded, new) = new
    BY <1>3, <1>5, <2>1, FlushedUnchanged
  <2>. QED BY <1>1, <1>2, <1>3, <1>5, <1>6, <1>8, <2>1, <2>2 DEF new, s
<1>. QED BY <1>7, <1>8

LEMMA CommitKeepsSerial ==
  ASSUME SerialInv, TradingInv, NEW r \in Requests, pc[r] = "commit", WriteRow(r),
         NEW stage \in {"publish", "raised"}, GoTo(r, stage), UNCHANGED held
  PROVE  SerialInv'
<1> DEFINE s == order[r].symbol
           new == work[r].position
<1>1. /\ s \in Symbols /\ s = SymbolOf(r) /\ r \in InFlight
      /\ new \in Position /\ Whole(new)
      /\ positions' = [positions EXCEPT ![s] = new]
      /\ lineage' = [lineage EXCEPT ![s] = lineage[s] \cup {r}]
  BY CommitWrites
<1>2. TypeOK /\ Fits(r)
  BY DEF TradingInv, SerialInv
<1>3. Own(r) /\ UNCHANGED <<command, order, work>> /\ pc'[r] = stage
  BY <1>2 DEF GoTo, held, asked, Own, TypeOK
<1>4. \A t \in Symbols : t = s \/ (positions'[t] = positions[t] /\ lineage'[t] = lineage[t])
  BY <1>1, <1>2 DEF TypeOK
<1>5. positions'[s] = new
  BY <1>1, <1>2 DEF TypeOK
<1>6. RowsAreWhole'
  BY <1>1, <1>4, <1>5 DEF SerialInv, RowsAreWhole, Whole
<1>7. OneAtATime'
  BY <1>1, <1>3 DEF SerialInv, OneAtATime, Own, SymbolOf, InFlight
<1>8. Fits(r)'
  BY <1>2, <1>3 DEF Fits, Holding, SymbolOf
<1>9. ASSUME NEW d \in Requests PROVE Fits(d)'
  BY <1>1, <1>3, <1>4, <1>8, OthersFit DEF Own
<1>. QED BY <1>6, <1>7, <1>9 DEF SerialInv

LEMMA ArriveKeepsSerial ==
  ASSUME MaxPerSymbol = 1, IsFiniteSet(Requests),
         SerialInv, TradingInv, NEW r \in Requests, NEW c \in Commands, Arrive(r, c)
  PROVE  SerialInv'
<1>1. TypeOK
  BY DEF TradingInv
<1>2. InFlightFor(Upper[c.symbol]) = {}
  <2>1. InFlightFor(Upper[c.symbol]) \in SUBSET Requests
    BY DEF InFlightFor, InFlight
  <2>2. IsFiniteSet(InFlightFor(Upper[c.symbol]))
    BY <2>1, FS_Subset
  <2>3. Cardinality(InFlightFor(Upper[c.symbol])) \in Nat /\ Cardinality(InFlightFor(Upper[c.symbol])) < 1
    BY <2>2, FS_CardinalityType DEF Arrive
  <2>4. Cardinality(InFlightFor(Upper[c.symbol])) = 0
    BY <2>3
  <2>. QED BY <2>2, <2>4, FS_EmptySet
<1>3. /\ pc[r] = "idle" /\ pc'[r] = "lookup" /\ command'[r] = c
      /\ \A d \in Requests \ {r} : pc'[d] = pc[d] /\ command'[d] = command[d]
      /\ UNCHANGED <<order, work, positions, lineage>>
  BY <1>1 DEF Arrive, GoTo, world, table, TypeOK
<1>4. RowsAreWhole'
  BY <1>3 DEF SerialInv, RowsAreWhole
<1>5. \A d \in InFlight' : d = r \/ (d \in InFlight /\ SymbolOf(d)' = SymbolOf(d) /\ SymbolOf(d) # Upper[c.symbol])
  BY <1>2, <1>3 DEF InFlight, InFlightFor, SymbolOf
<1>6. SymbolOf(r)' = Upper[c.symbol]
  BY <1>3 DEF SymbolOf
<1>7. OneAtATime'
  BY <1>5, <1>6 DEF SerialInv, OneAtATime
<1>8. ASSUME NEW d \in Requests PROVE Fits(d)'
  <2>1. CASE d = r
    BY <1>3, <2>1 DEF Fits, Holding
  <2>2. CASE d # r
    BY <1>3, <2>2, OthersFit
  <2>. QED BY <2>1, <2>2
<1>. QED BY <1>4, <1>7, <1>8 DEF SerialInv

\* Steps of nobody's, and a crash, which only ends requests.
LEMMA RestKeepsSerial ==
  ASSUME SerialInv, TradingInv, UNCHANGED <<command, order, work, positions, lineage>>,
         \A r \in Requests : pc'[r] = pc[r] \/ pc'[r] = "lost"
  PROVE  SerialInv'
<1>1. RowsAreWhole'
  BY DEF SerialInv, RowsAreWhole
<1>2. InFlight' \subseteq InFlight
  BY DEF InFlight, Awaiting
<1>3. OneAtATime'
  BY <1>2 DEF SerialInv, OneAtATime, SymbolOf
<1>4. ASSUME NEW d \in Requests PROVE Fits(d)'
  BY DEF SerialInv, Fits, Holding, RowOf, SymbolOf
<1>. QED BY <1>1, <1>3, <1>4 DEF SerialInv

LEMMA NextKeepsSerial ==
  ASSUME MaxPerSymbol = 1, IsFiniteSet(Requests), SerialInv, TradingInv, [Next]_vars
  PROVE  SerialInv'
<1>1. ASSUME NEW r \in Requests, NEW c \in Commands, Arrive(r, c) PROVE SerialInv'
  BY <1>1, ArriveKeepsSerial
<1>2. ASSUME NEW r \in Requests, CommitPosition(r) PROVE SerialInv'
  BY <1>2, CommitKeepsSerial DEF CommitPosition
<1>3. ASSUME NEW r \in Requests, Serve(r) PROVE SerialInv'
  BY <1>2, <1>3, QuietStepsKeepSerial, GateAndVenueKeepSerial, ReadsKeepSerial DEF Serve
<1>4. ASSUME NEW r \in Requests, VenueTimesOut(r) \/ CallFails(r) \/ AnswerLost(r) PROVE SerialInv'
  <2>1. CASE AnswerLost(r) /\ ~UNCHANGED table
    <3>1. pc[r] = "commit" /\ WriteRow(r) /\ GoTo(r, "raised") /\ UNCHANGED held
      BY <2>1 DEF AnswerLost, table
    <3>. QED BY <3>1, CommitKeepsSerial
  <2>. QED BY <1>4, <2>1, QuietStepsKeepSerial
<1>5. ASSUME NEW r \in Requests, VenueAccepts(r) \/ VenueRejects(r) \/ VenueFills(r) PROVE SerialInv'
  BY <1>5, RestKeepsSerial DEF VenueAccepts, VenueRejects, VenueFills, held, asked, table
<1>6. CASE Crash
  <2>1. \A r \in Requests : pc'[r] = pc[r] \/ pc'[r] = "lost"
    BY <1>6 DEF Crash
  <2>. QED BY <1>6, <2>1, RestKeepsSerial DEF Crash, held, asked, world, table
<1>7. CASE Operate \/ UNCHANGED vars
  BY <1>7, RestKeepsSerial DEF Operate, vars, tradingVars, held, asked, world, table
<1>. QED BY <1>1, <1>3, <1>4, <1>5, <1>6, <1>7 DEF Next

LEMMA InitSerial == Init => SerialInv
  BY DEF Init, SerialInv, OneAtATime, RowsAreWhole, Fits, InFlight, Awaiting, Holding

\* If requests for one symbol do not overlap, the updates of single columns by
\* positions.save never tear a row, through any failure, lost answer or crash.
THEOREM SerialRowsAreWhole ==
  ASSUME MaxPerSymbol = 1, IsFiniteSet(Requests)
  PROVE  Spec => []RowsAreWhole
<1>1. SerialInv /\ TradingInv /\ [Next]_vars => SerialInv'
  BY NextKeepsSerial
<1>2. SerialInv => RowsAreWhole
  BY DEF SerialInv
<1>. QED BY InitSerial, SpecKeeps, <1>1, <1>2, PTL DEF Spec

----------------------------------------------------------------------------
\* Without failures: every recorded fill is in the position or on its way.

Writing == {"position", "load", "commit"}

FilledIds(s) == {o.id : o \in {o \in orders : o.symbol = s /\ o.status = "filled"}}

Posting(s) == {r \in Requests : pc[r] \in Writing /\ order[r].symbol = s}

BooksInv == failures = 0 /\ \A s \in Symbols : FilledIds(s) = lineage[s] \cup Posting(s)

\* Steps that neither record a fill nor commit one.
LEMMA QuietKeepsBooks ==
  ASSUME BooksInv, UNCHANGED <<orders, lineage, failures>>,
         \A d \in Requests : \/ pc'[d] = pc[d] /\ order'[d] = order[d]
                             \/ pc[d] \notin Writing /\ pc'[d] \notin Writing
                             \/ pc[d] \in Writing /\ pc'[d] \in Writing /\ order'[d] = order[d]
  PROVE  BooksInv'
<1>1. ASSUME NEW s \in Symbols PROVE FilledIds(s)' = FilledIds(s) /\ Posting(s)' = Posting(s)
  BY DEF FilledIds, Posting
<1>. QED BY <1>1 DEF BooksInv

LEMMA SaveKeepsBooks ==
  ASSUME BooksInv, SerialInv, TradingInv, NEW r \in Requests, Save(r)
  PROVE  BooksInv'
<1>1. TypeOK
  BY DEF TradingInv
<1>2. /\ pc[r] = "save" /\ orders' = orders \cup {order[r]}
      /\ UNCHANGED <<order, lineage, failures>>
      /\ pc'[r] = IF order[r].status = "filled" THEN "position" ELSE "publish"
      /\ \A d \in Requests \ {r} : pc'[d] = pc[d]
      /\ order[r].id = r
  BY <1>1 DEF Save, InsertOrder, GoTo, held, asked, table, TypeOK, TradingInv, RequestInv, Tracked, Holding, OwnOrder
<1>3. ASSUME NEW s \in Symbols PROVE FilledIds(s)' = lineage'[s] \cup Posting(s)'
  <2>1. FilledIds(s) = lineage[s] \cup Posting(s)
    BY DEF BooksInv
  <2>2. CASE order[r].symbol = s /\ order[r].status = "filled"
    <3>1. FilledIds(s)' = FilledIds(s) \cup {r}
      BY <1>2, <2>2 DEF FilledIds
    <3>2. Posting(s)' = Posting(s) \cup {r}
      BY <1>2, <2>2 DEF Posting, Writing
    <3>. QED BY <1>2, <2>1, <3>1, <3>2
  <2>3. CASE ~(order[r].symbol = s /\ order[r].status = "filled")
    <3>1. FilledIds(s)' = FilledIds(s)
      BY <1>2, <2>3 DEF FilledIds
    <3>2. Posting(s)' = Posting(s)
      BY <1>2, <2>3 DEF Posting, Writing
    <3>. QED BY <1>2, <2>1, <3>1, <3>2
  <2>. QED BY <2>2, <2>3
<1>. QED BY <1>2, <1>3 DEF BooksInv

LEMMA CommitKeepsBooks ==
  ASSUME BooksInv, SerialInv, TradingInv, NEW r \in Requests, CommitPosition(r)
  PROVE  BooksInv'
<1> DEFINE s == order[r].symbol
<1>1. TypeOK
  BY DEF TradingInv
<1>2. /\ pc[r] = "commit" /\ pc'[r] = "publish" /\ UNCHANGED <<orders, order, failures>>
      /\ \A d \in Requests \ {r} : pc'[d] = pc[d]
  BY <1>1 DEF CommitPosition, GoTo, held, asked, TypeOK
<1>3. s \in Symbols /\ lineage' = [lineage EXCEPT ![s] = lineage[s] \cup {r}]
  BY <1>2, CommitWrites DEF CommitPosition
<1>4. ASSUME NEW t \in Symbols PROVE FilledIds(t)' = lineage'[t] \cup Posting(t)'
  <2>1. FilledIds(t) = lineage[t] \cup Posting(t) /\ FilledIds(t)' = FilledIds(t)
    BY <1>2 DEF BooksInv, FilledIds
  <2>2. CASE t = s
    <3>1. lineage'[t] = lineage[t] \cup {r} /\ Posting(t)' = Posting(t) \ {r} /\ r \in Posting(t)
      BY <1>1, <1>2, <1>3, <2>2 DEF Posting, Writing, TypeOK
    <3>. QED BY <2>1, <3>1
  <2>3. CASE t # s
    <3>1. lineage'[t] = lineage[t] /\ Posting(t)' = Posting(t)
      BY <1>1, <1>2, <1>3, <2>3 DEF Posting, Writing, TypeOK
    <3>. QED BY <2>1, <3>1
  <2>. QED BY <2>2, <2>3
<1>. QED BY <1>2, <1>4 DEF BooksInv

LEMMA ServeKeepsBooks ==
  ASSUME BooksInv, SerialInv, TradingInv, NEW r \in Requests, Serve(r)
  PROVE  BooksInv'
<1>1. TypeOK /\ Fits(r)
  BY DEF TradingInv, SerialInv
<1>2. CASE \/ LookupFinds(r) \/ LookupMisses(r) \/ GateReadsSwitch(r) \/ GateReadsProfileAndStops(r)
           \/ GateReadsProfileAndFillsOnPaper(r) \/ GateReadsProfileAndSends(r)
           \/ VenueAnswers(r) \/ VenueRefuses(r) \/ SaveCollides(r) \/ Publish(r)
  <2>1. /\ UNCHANGED <<orders, lineage, failures>>
        /\ pc[r] \notin Writing /\ pc'[r] \notin Writing
        /\ \A d \in Requests \ {r} : pc'[d] = pc[d] /\ order'[d] = order[d]
    BY <1>1, <1>2 DEF LookupFinds, LookupMisses, GateReadsSwitch, GateReadsProfileAndStops,
          GateReadsProfileAndFillsOnPaper, GateReadsProfileAndSends, VenueAnswers, VenueRefuses, SaveCollides,
          Publish, GoTo, Writing, TypeOK, held, asked, world, table
  <2>. QED BY <2>1, QuietKeepsBooks
<1>3. CASE ReadPosition(r) \/ LoadRow(r)
  <2>1. /\ UNCHANGED <<orders, order, lineage, failures>>
        /\ pc[r] \in Writing /\ pc'[r] \in Writing
        /\ \A d \in Requests \ {r} : pc'[d] = pc[d]
    BY <1>1, <1>3 DEF ReadPosition, LoadRow, GoTo, Writing, TypeOK, asked, world, table
  <2>. QED BY <2>1, QuietKeepsBooks
<1>4. ~CommitCollides(r)
  BY <1>1 DEF CommitCollides, RowCollides, Fits
<1>. QED BY <1>2, <1>3, <1>4, SaveKeepsBooks, CommitKeepsBooks DEF Serve

LEMMA NextKeepsBooks ==
  ASSUME MaxFailures = 0, BooksInv, SerialInv, TradingInv, [Next]_vars
  PROVE  BooksInv'
<1>1. ~(failures < MaxFailures)
  BY DEF BooksInv
<1>2. TypeOK
  BY DEF TradingInv
<1>3. ASSUME NEW r \in Requests, NEW c \in Commands, Arrive(r, c) PROVE BooksInv'
  <2>1. /\ UNCHANGED <<orders, order, lineage, failures>> /\ pc[r] \notin Writing /\ pc'[r] \notin Writing
        /\ \A d \in Requests \ {r} : pc'[d] = pc[d]
    BY <1>2, <1>3 DEF Arrive, GoTo, Writing, TypeOK, world, table
  <2>. QED BY <2>1, QuietKeepsBooks
<1>4. ASSUME NEW r \in Requests PROVE ~(VenueTimesOut(r) \/ CallFails(r) \/ AnswerLost(r)) /\ ~Crash
  BY <1>1 DEF VenueTimesOut, CallFails, AnswerLost, Crash
<1>5. ASSUME NEW r \in Requests, VenueAccepts(r) \/ VenueRejects(r) \/ VenueFills(r) PROVE BooksInv'
  BY <1>5, QuietKeepsBooks DEF VenueAccepts, VenueRejects, VenueFills, held, asked, table
<1>6. CASE Operate \/ UNCHANGED vars
  BY <1>6, QuietKeepsBooks DEF Operate, vars, tradingVars, held, asked, world, table
<1>7. ~Crash
  BY <1>1 DEF Crash
<1>. QED BY <1>3, <1>4, <1>5, <1>6, <1>7, ServeKeepsBooks DEF Next

\* If besides nothing fails, no fill is missing from a position that no request
\* is at work on: PlaceOrderService alone loses none.
THEOREM SerialBooksMatch ==
  ASSUME MaxPerSymbol = 1, IsFiniteSet(Requests), MaxFailures = 0
  PROVE  Spec => []BooksMatchOrders
<1>1. Init => BooksInv
  BY DEF Init, BooksInv, FilledIds, Posting, Writing
<1>2. SerialInv /\ TradingInv /\ [Next]_vars => SerialInv'
  BY NextKeepsSerial
<1>3. BooksInv /\ SerialInv /\ TradingInv /\ [Next]_vars => BooksInv'
  BY NextKeepsBooks
<1>4. BooksInv /\ SerialInv => BooksMatchOrders
  <2> SUFFICES ASSUME BooksInv, SerialInv, NEW s \in Symbols, InFlightFor(s) = {}
               PROVE  lineage[s] = FilledIds(s)
    BY DEF BooksMatchOrders, FilledIds
  <2>1. Posting(s) = {}
    BY DEF Posting, Writing, SerialInv, Fits, Holding, InFlightFor, InFlight, Awaiting
  <2>. QED BY <2>1 DEF BooksInv
<1>. QED BY InitSerial, SpecKeeps, <1>1, <1>2, <1>3, <1>4, PTL DEF Spec

----------------------------------------------------------------------------
\* Sums over sets of orders, for PositionsAreSumsOfFills.

\* The lots a set of orders adds up to.
Total(S) == MapThenSumSet(Signed, S)

\* What MapThenSumSet solves: take out the chosen order, add up the rest.
IsFold(g, S) ==
  g = [s \in SUBSET S |-> IF s = {} THEN 0
                          ELSE LET x == CHOOSE x \in s : TRUE IN Signed(x) + g[s \ {x}]]

LEMMA SumIs ==
  ASSUME NEW S
  PROVE  Total(S) = (CHOOSE g : IsFold(g, S))[S]
BY DEF Total, MapThenSumSet, MapThenFoldSet, IsFold

\* Induction, for a set of numbers.
LEMMA AllNaturals ==
  ASSUME NEW T, T \subseteq Nat, 0 \in T, \A n \in T : n + 1 \in T
  PROVE  T = Nat
<1> SUFFICES ASSUME Nat \ T # {} PROVE FALSE
  OBVIOUS
<1>1. PICK m \in Nat \ T : \A k \in Nat \ T : ~ (<<k, m>> \in OpToRel(<, Nat))
  BY NatLessThanWellFounded, WFMin, Nat \ T \subseteq Nat
<1>2. m # 0 /\ m - 1 \in Nat
  OBVIOUS
<1>3. m - 1 \notin T
  BY <1>2, (m - 1) + 1 = m
<1>4. <<m - 1, m>> \in OpToRel(<, Nat)
  BY <1>2 DEF OpToRel
<1>. QED BY <1>1, <1>2, <1>3, <1>4

\* The recursion has a solution.
LEMMA FoldExists ==
  ASSUME NEW S, IsFiniteSet(S)
  PROVE  \E g : IsFold(g, S)
<1> DEFINE Upto(n) == {s \in SUBSET S : Cardinality(s) <= n}
           F(g, s) == IF s = {} THEN 0
                      ELSE LET x == CHOOSE x \in s : TRUE IN Signed(x) + g[s \ {x}]
           Solves(g, n) == g = [s \in Upto(n) |-> F(g, s)]
           T == {n \in Nat : \E g : Solves(g, n)}
<1>1. \A s \in SUBSET S : IsFiniteSet(s) /\ Cardinality(s) \in Nat /\ Cardinality(s) <= Cardinality(S)
  BY FS_Subset, FS_CardinalityType
<1>2. 0 \in T
  <2>1. Upto(0) = {{}}
    BY <1>1, FS_EmptySet
  <2>2. Solves([s \in Upto(0) |-> 0], 0)
    BY <2>1
  <2>. QED BY <2>2
<1>3. ASSUME NEW n \in T PROVE n + 1 \in T
  <2>1. PICK g : Solves(g, n)
    OBVIOUS
  <2> DEFINE h == [s \in Upto(n + 1) |-> F(g, s)]
  <2>2. ASSUME NEW s \in Upto(n + 1) PROVE F(h, s) = F(g, s)
    <3>1. CASE s = {}
      BY <3>1
    <3>2. CASE s # {}
      <4> DEFINE x == CHOOSE x \in s : TRUE
                 u == s \ {x}
      <4>1. x \in s
        BY <3>2
      <4>2. u \in Upto(n) /\ u \in Upto(n + 1)
        <5>1. IsFiniteSet(s) /\ Cardinality(s) \in Nat /\ Cardinality(s) <= n + 1
          BY <1>1
        <5>2. Cardinality(u) = Cardinality(s) - 1
          BY <4>1, <5>1, FS_RemoveElement
        <5>3. u \in SUBSET S /\ Cardinality(u) <= n /\ Cardinality(u) <= n + 1
          BY <5>1, <5>2
        <5>. QED BY <5>3
      <4>3. h[u] = F(g, u) /\ g[u] = F(g, u)
        <5>1. h[u] = F(g, u)
          <6> HIDE DEF u, F
          <6>. QED BY <4>2
        <5>2. g[u] = F(g, u)
          <6> HIDE DEF u, F
          <6>. QED BY <2>1, <4>2
        <5>. QED BY <5>1, <5>2
      <4>4. F(h, s) = Signed(x) + h[u] /\ F(g, s) = Signed(x) + g[u]
        <5> HIDE DEF h
        <5>. QED BY <3>2
      <4> HIDE DEF h, u, F, x
      <4>. QED BY <4>3, <4>4
    <3>. QED BY <3>1, <3>2
  <2>3. Solves(h, n + 1)
    <3> HIDE DEF F
    <3>. QED BY <2>2
  <2>4. \E f : Solves(f, n + 1)
    <3> HIDE DEF h, Solves
    <3>. QED BY <2>3
  <2> HIDE DEF Solves
  <2>. QED BY <2>4
<1>4. Cardinality(S) \in T
  <2> HIDE DEF T
  <2>1. T \subseteq Nat BY DEF T
  <2>. QED BY <1>2, <1>3, <2>1, AllNaturals, FS_CardinalityType
<1>5. PICK g : Solves(g, Cardinality(S))
  BY <1>4
<1>6. Upto(Cardinality(S)) = SUBSET S
  BY <1>1
<1>. QED BY <1>5, <1>6 DEF IsFold

\* Two solutions agree where both are defined.
LEMMA FoldsAgree ==
  ASSUME NEW S, NEW T, IsFiniteSet(S), T \subseteq S,
         NEW g, IsFold(g, S), NEW h, IsFold(h, T)
  PROVE  g[T] = h[T]
<1> DEFINE N == {n \in Nat : \A s \in SUBSET T : Cardinality(s) = n => g[s] = h[s]}
<1>1. \A s \in SUBSET T : IsFiniteSet(s) /\ Cardinality(s) \in Nat /\ s \in SUBSET S
  BY FS_Subset, FS_CardinalityType
<1>2. 0 \in N
  <2> SUFFICES ASSUME NEW s \in SUBSET T, Cardinality(s) = 0 PROVE g[s] = h[s]
    OBVIOUS
  <2>1. s = {}
    BY <1>1, FS_EmptySet
  <2>. QED BY <2>1 DEF IsFold
<1>3. ASSUME NEW n \in N PROVE n + 1 \in N
  <2> SUFFICES ASSUME NEW s \in SUBSET T, Cardinality(s) = n + 1 PROVE g[s] = h[s]
    OBVIOUS
  <2> DEFINE x == CHOOSE x \in s : TRUE
  <2>1. s # {} /\ x \in s
    BY FS_EmptySet
  <2>2. s \ {x} \in SUBSET T /\ Cardinality(s \ {x}) = n
    <3>1. IsFiniteSet(s) /\ n \in Nat
      BY <1>1
    <3> HIDE DEF x
    <3>2. Cardinality(s \ {x}) = (n + 1) - 1
      BY <2>1, <3>1, FS_RemoveElement
    <3>. QED BY <3>1, <3>2
  <2>3. g[s \ {x}] = h[s \ {x}]
    BY <2>2
  <2>4. g[s] = Signed(x) + g[s \ {x}] /\ h[s] = Signed(x) + h[s \ {x}]
    BY <1>1, <2>1 DEF IsFold
  <2> HIDE DEF x
  <2>. QED BY <2>3, <2>4
<1>4. Cardinality(T) \in N
  <2> HIDE DEF N
  <2>1. N \subseteq Nat BY DEF N
  <2>2. N = Nat
    BY <1>2, <1>3, <2>1, AllNaturals
  <2>. QED BY <1>1, <2>2
<1>. QED BY <1>4

LEMMA SumOfNone == Total({}) = 0
<1>1. PICK g : IsFold(g, {})
  BY FoldExists, FS_EmptySet
<1>2. IsFold(CHOOSE f : IsFold(f, {}), {})
  BY <1>1
<1>. QED BY <1>2, SumIs DEF IsFold

LEMMA SumByChoice ==
  ASSUME NEW S, IsFiniteSet(S), S # {}
  PROVE  \E x \in S : Total(S) = Signed(x) + Total(S \ {x})
<1> DEFINE x == CHOOSE x \in S : TRUE
           g == CHOOSE f : IsFold(f, S)
           T == S \ {x}
           h == CHOOSE f : IsFold(f, T)
<1>1. IsFiniteSet(T) /\ T \subseteq S
  BY FS_Subset
<1>2. IsFold(g, S) /\ IsFold(h, T)
  BY <1>1, FoldExists
<1>3. g[S] = Signed(x) + g[T]
  <2> HIDE DEF g
  <2>. QED BY <1>2 DEF IsFold
<1>4. g[T] = h[T]
  <2> HIDE DEF g, h, T
  <2>. QED BY <1>1, <1>2, FoldsAgree
<1>5. Total(S) = g[S] /\ Total(T) = h[T]
  BY SumIs
<1>6. x \in S
  OBVIOUS
<1> HIDE DEF g, h, x
<1>. QED BY <1>3, <1>4, <1>5, <1>6

LEMMA SumIsInt ==
  ASSUME NEW S, IsFiniteSet(S), \A o \in S : Signed(o) \in Int
  PROVE  Total(S) \in Int
<1> DEFINE N == {n \in Nat : \A s \in SUBSET S : Cardinality(s) = n => Total(s) \in Int}
<1>1. \A s \in SUBSET S : IsFiniteSet(s) /\ Cardinality(s) \in Nat
  BY FS_Subset, FS_CardinalityType
<1>2. 0 \in N
  BY <1>1, FS_EmptySet, SumOfNone
<1>3. ASSUME NEW n \in N PROVE n + 1 \in N
  <2> SUFFICES ASSUME NEW s \in SUBSET S, Cardinality(s) = n + 1 PROVE Total(s) \in Int
    OBVIOUS
  <2>1. IsFiniteSet(s) /\ n \in Nat /\ s # {}
    BY <1>1, FS_EmptySet
  <2>2. PICK x \in s : Total(s) = Signed(x) + Total(s \ {x})
    BY <2>1, SumByChoice
  <2>3. Cardinality(s \ {x}) = n
    <3>1. Cardinality(s \ {x}) = Cardinality(s) - 1
      BY <2>1, FS_RemoveElement
    <3>. QED BY <2>1, <3>1
  <2>4. Total(s \ {x}) \in Int
    BY <2>1, <2>3
  <2>. QED BY <2>2, <2>4
<1>4. N \subseteq Nat
  OBVIOUS
<1> HIDE DEF N
<1>5. N = Nat
  BY <1>2, <1>3, <1>4, AllNaturals
<1>6. Cardinality(S) \in N
  BY <1>1, <1>5
<1>. QED BY <1>6 DEF N

\* ... and the choice does not matter.
LEMMA SumWithout ==
  ASSUME NEW S, IsFiniteSet(S), \A o \in S : Signed(o) \in Int, NEW x \in S
  PROVE  Total(S) = Signed(x) + Total(S \ {x})
<1> DEFINE N == {n \in Nat : \A s \in SUBSET S : Cardinality(s) = n =>
                               \A y \in s : Total(s) = Signed(y) + Total(s \ {y})}
<1>1. \A s \in SUBSET S : IsFiniteSet(s) /\ Cardinality(s) \in Nat /\ Total(s) \in Int
  BY FS_Subset, FS_CardinalityType, SumIsInt
<1>2. 0 \in N
  BY <1>1, FS_EmptySet
<1>3. ASSUME NEW n \in N PROVE n + 1 \in N
  <2> SUFFICES ASSUME NEW s \in SUBSET S, Cardinality(s) = n + 1, NEW y \in s
               PROVE  Total(s) = Signed(y) + Total(s \ {y})
    OBVIOUS
  <2>1. IsFiniteSet(s) /\ n \in Nat
    BY <1>1
  <2>2. PICK z \in s : Total(s) = Signed(z) + Total(s \ {z})
    BY <2>1, SumByChoice
  <2>3. SUFFICES ASSUME y # z PROVE Total(s) = Signed(y) + Total(s \ {y})
    BY <2>2
  <2>4. Cardinality(s \ {z}) = n /\ Cardinality(s \ {y}) = n
    <3>1. Cardinality(s \ {z}) = (n + 1) - 1 /\ Cardinality(s \ {y}) = (n + 1) - 1
      BY <2>1, FS_RemoveElement
    <3>. QED BY <2>1, <3>1
  <2>5. /\ Total(s \ {z}) = Signed(y) + Total((s \ {z}) \ {y})
        /\ Total(s \ {y}) = Signed(z) + Total((s \ {y}) \ {z})
    BY <2>3, <2>4
  <2>6. (s \ {z}) \ {y} = (s \ {y}) \ {z}
    OBVIOUS
  <2> DEFINE rest == Total((s \ {y}) \ {z})
  <2>7. rest \in Int /\ Signed(y) \in Int /\ Signed(z) \in Int
    BY <1>1
  <2>8. Total(s) = Signed(z) + (Signed(y) + rest) /\ Total(s \ {y}) = Signed(z) + rest
    BY <2>2, <2>5, <2>6
  <2> HIDE DEF rest
  <2>. QED BY <2>7, <2>8
<1>4. N \subseteq Nat
  OBVIOUS
<1> HIDE DEF N
<1>5. N = Nat
  BY <1>2, <1>3, <1>4, AllNaturals
<1>6. Cardinality(S) \in N
  BY <1>1, <1>5
<1>. QED BY <1>6 DEF N

----------------------------------------------------------------------------
\* Positions and the fills they add up.

Recording(os, ids) == {o \in os : o.id \in ids}

\* The orders of the table os under these ids are fills of the symbol, of so many
\* lots in all.
AddsUp(os, ids, s, lots) ==
  /\ ids = {o.id : o \in Recording(os, ids)}
  /\ \A o \in Recording(os, ids) : o.symbol = s /\ o.status = "filled"
  /\ lots = Total(Recording(os, ids))

LEMMA InsertKeepsSum ==
  ASSUME NEW os, NEW o, NEW ids, NEW s, NEW lots, AddsUp(os, ids, s, lots), o.id \notin ids
  PROVE  AddsUp(os \cup {o}, ids, s, lots)
<1>1. Recording(os \cup {o}, ids) = Recording(os, ids)
  BY DEF Recording
<1>. QED BY <1>1 DEF AddsUp

\* The fill of an order the sum lacks is added to it.
LEMMA FillAddsUp ==
  ASSUME NEW os \in SUBSET OrderRecord, IsFiniteSet(os), NEW o \in os, o.status = "filled",
         \A p \in os : p.id = o.id => p = o,
         NEW ids, o.id \notin ids, NEW lots, AddsUp(os, ids, o.symbol, lots)
  PROVE  AddsUp(os, ids \cup {o.id}, o.symbol, lots + Signed(o))
<1> DEFINE S == Recording(os, ids)
           T == Recording(os, ids \cup {o.id})
<1>1. T = S \cup {o} /\ T \ {o} = S /\ o \in T
  BY DEF Recording, AddsUp
<1>2. \A p \in T : Signed(p) \in Int
  BY DEF Recording, OrderRecord, Signed, SignedQuantity
<1>3. IsFiniteSet(T)
  BY FS_Subset DEF Recording
<1>4. Total(T) = Signed(o) + Total(S) /\ Total(S) \in Int /\ Signed(o) \in Int
  <2>1. IsFiniteSet(S) /\ \A p \in S : Signed(p) \in Int
    BY <1>1, <1>2, FS_Subset DEF Recording
  <2> HIDE DEF S, T
  <2>. QED BY <1>1, <1>2, <1>3, <2>1, SumWithout, SumIsInt
<1>5. lots = Total(S) /\ ids = {p.id : p \in S} /\ \A p \in S : p.symbol = o.symbol /\ p.status = "filled"
  BY DEF AddsUp
<1> HIDE DEF S, T
<1>6. lots + Signed(o) = Total(T)
  BY <1>4, <1>5
<1>7. ids \cup {o.id} = {p.id : p \in T} /\ \A p \in T : p.symbol = o.symbol /\ p.status = "filled"
  BY <1>1, <1>5
<1>. QED BY <1>6, <1>7 DEF AddsUp, T

LEMMA NothingAddsUp == ASSUME NEW os, NEW s PROVE AddsUp(os, {}, s, 0)
<1>1. Recording(os, {}) = {}
  BY DEF Recording
<1>. QED BY <1>1, SumOfNone DEF AddsUp

\* A row adds up fills of requests that committed theirs.
RowAddsUp(s) ==
  /\ lineage[s] \subseteq posted
  /\ AddsUp(orders, lineage[s], s, IF positions[s] = NoRow THEN 0 ELSE positions[s].quantity)

\* What a request is about to write adds up its own fill, which nobody has
\* written yet, and fills that were committed.
WorkAddsUp(r) ==
  /\ pc[r] \in Writing => r \notin posted /\ \A o \in orders : o.id = r => o = order[r]
  /\ pc[r] \in {"load", "commit"} =>
       /\ work[r].lineage \subseteq posted \cup {r}
       /\ AddsUp(orders, work[r].lineage, order[r].symbol, work[r].position.quantity)

SumsInv ==
  /\ IsFiniteSet(orders)
  /\ \A s \in Symbols : RowAddsUp(s)
  /\ \A r \in Requests : WorkAddsUp(r)

LEMMA InitSums == Init => SumsInv
<1> SUFFICES ASSUME Init PROVE SumsInv
  OBVIOUS
<1>1. /\ orders = {} /\ posted = {} /\ \A r \in Requests : pc[r] = "idle"
      /\ \A s \in Symbols : lineage[s] = {} /\ positions[s] = NoRow
  BY DEF Init
<1>2. \A s \in Symbols : RowAddsUp(s)
  BY <1>1, NothingAddsUp DEF RowAddsUp
<1>3. \A r \in Requests : WorkAddsUp(r)
  BY <1>1 DEF WorkAddsUp, Writing
<1>. QED BY <1>1, <1>2, <1>3, FS_EmptySet DEF SumsInv

\* Steps that write neither table, and prepare no write.
LEMMA QuietKeepsSums ==
  ASSUME SumsInv, UNCHANGED <<orders, positions, lineage, posted>>,
         \A d \in Requests : \/ pc'[d] = pc[d] /\ order'[d] = order[d] /\ work'[d] = work[d]
                             \/ pc'[d] \notin Writing
  PROVE  SumsInv'
<1>1. \A s \in Symbols : RowAddsUp(s)'
  BY DEF SumsInv, RowAddsUp
<1>2. ASSUME NEW d \in Requests PROVE WorkAddsUp(d)'
  <2>1. WorkAddsUp(d)
    BY DEF SumsInv
  <2>2. CASE pc'[d] = pc[d] /\ order'[d] = order[d] /\ work'[d] = work[d]
    BY <2>1, <2>2 DEF WorkAddsUp
  <2>3. CASE pc'[d] \notin Writing
    BY <2>3 DEF WorkAddsUp, Writing
  <2>. QED BY <2>2, <2>3
<1>. QED BY <1>1, <1>2 DEF SumsInv

\* The insert of an order changes no sum: all of them are of orders inserted before.
LEMMA InsertKeepsSums ==
  ASSUME SumsInv, TradingInv, NEW r \in Requests, pc[r] = "save", InsertOrder(r),
         NEW stage \in {"position", "publish", "raised"}, GoTo(r, stage),
         UNCHANGED <<order, work, positions, lineage, posted>>
  PROVE  SumsInv'
<1>1. TypeOK /\ Untouched(r) /\ order[r].id = r
  BY DEF TradingInv, RequestInv, Tracked, OwnOrder, Unrecorded, Holding
<1>2. /\ orders' = orders \cup {order[r]} /\ pc'[r] = stage
      /\ \A d \in Requests \ {r} : pc'[d] = pc[d]
  BY <1>1 DEF InsertOrder, GoTo, TypeOK
<1>3. IsFiniteSet(orders')
  BY <1>2, FS_AddElement DEF SumsInv
<1>4. ASSUME NEW ids, NEW s, NEW lots, AddsUp(orders, ids, s, lots)
      PROVE  AddsUp(orders', ids, s, lots)
  <2>1. r \notin ids
    BY <1>1, <1>4 DEF AddsUp, Recording, Untouched
  <2>. QED BY <1>1, <1>2, <1>4, <2>1, InsertKeepsSum
<1>5. \A s \in Symbols : RowAddsUp(s)'
  BY <1>4 DEF SumsInv, RowAddsUp
<1>6. ASSUME NEW d \in Requests PROVE WorkAddsUp(d)'
  <2>1. CASE d = r
    <3>1. \A o \in orders' : o.id = r => o = order[r]
      BY <1>1, <1>2 DEF Untouched
    <3>. QED BY <1>1, <1>2, <2>1, <3>1 DEF WorkAddsUp, Untouched
  <2>2. CASE d # r
    <3>1. WorkAddsUp(d) /\ pc'[d] = pc[d]
      BY <1>2, <2>2 DEF SumsInv
    <3>2. pc[d] \in Writing => \A o \in orders' : o.id = d => o = order[d]
      BY <1>1, <1>2, <2>2, <3>1 DEF WorkAddsUp
    <3>. QED BY <1>4, <3>1, <3>2 DEF WorkAddsUp
  <2>. QED BY <2>1, <2>2
<1>. QED BY <1>3, <1>5, <1>6 DEF SumsInv

\* apply_fill adds the fill to what it is given.
LEMMA ReadPositionKeepsSums ==
  ASSUME SumsInv, TradingInv, NEW r \in Requests, ReadPosition(r)
  PROVE  SumsInv'
<1> DEFINE s == order[r].symbol
           row == IF positions[s] = NoRow THEN EmptyPosition ELSE positions[s]
           new == ApplyFill(row, order[r].side, order[r].quantity, order[r].executed_price)
<1>1. TypeOK /\ WorkAddsUp(r)
  BY DEF TradingInv, SumsInv
<1>2. /\ pc[r] = "position" /\ pc'[r] = "load"
      /\ work'[r].position = new /\ work'[r].lineage = lineage[s] \cup {r}
      /\ \A d \in Requests \ {r} : pc'[d] = pc[d] /\ work'[d] = work[d]
      /\ UNCHANGED <<order, orders, positions, lineage, posted>>
  BY <1>1 DEF ReadPosition, GoTo, TypeOK, world, table
<1>3. /\ order[r] \in orders /\ order[r].status = "filled" /\ order[r].id = r
      /\ orders \in SUBSET OrderRecord /\ s \in Symbols
  BY <1>1, <1>2 DEF TradingInv, RequestInv, Tracked, OwnOrder, OrderRecord, Recorded, Holding, TypeOK
<1>4. /\ r \notin posted /\ \A o \in orders : o.id = r => o = order[r]
      /\ lineage[s] \subseteq posted
  BY <1>1, <1>2, <1>3 DEF WorkAddsUp, Writing, SumsInv, RowAddsUp
<1>5. row.quantity = IF positions[s] = NoRow THEN 0 ELSE positions[s].quantity
  BY DEF EmptyPosition
<1>6. AddsUp(orders, lineage[s], s, row.quantity)
  BY <1>3, <1>5 DEF SumsInv, RowAddsUp
<1>7. AddsUp(orders, lineage[s] \cup {r}, s, row.quantity + Signed(order[r]))
  <2> HIDE DEF row, s
  <2>. QED BY <1>3, <1>4, <1>6, FillAddsUp DEF SumsInv, s
<1>8. new.quantity = row.quantity + Signed(order[r])
  BY DEF ApplyFill, Signed
<1> HIDE DEF row, new
<1>9. WorkAddsUp(r)'
  BY <1>2, <1>4, <1>7, <1>8 DEF WorkAddsUp
<1>10. ASSUME NEW d \in Requests PROVE WorkAddsUp(d)'
  <2>1. CASE d # r
    BY <1>2, <2>1 DEF SumsInv, WorkAddsUp
  <2>. QED BY <1>9, <2>1
<1>11. \A t \in Symbols : RowAddsUp(t)'
  BY <1>2 DEF SumsInv, RowAddsUp
<1>. QED BY <1>2, <1>10, <1>11 DEF SumsInv

LEMMA LoadRowKeepsSums ==
  ASSUME SumsInv, TradingInv, NEW r \in Requests, LoadRow(r)
  PROVE  SumsInv'
<1>1. TypeOK
  BY DEF TradingInv
<1>2. /\ pc[r] = "load" /\ pc'[r] = "commit"
      /\ work'[r].position = work[r].position /\ work'[r].lineage = work[r].lineage
      /\ \A d \in Requests \ {r} : pc'[d] = pc[d] /\ work'[d] = work[d]
      /\ UNCHANGED <<order, orders, positions, lineage, posted>>
  BY <1>1 DEF LoadRow, GoTo, TypeOK, world, table
<1>3. ASSUME NEW d \in Requests PROVE WorkAddsUp(d)'
  <2>1. CASE d = r
    BY <1>2, <2>1 DEF SumsInv, WorkAddsUp, Writing
  <2>2. CASE d # r
    BY <1>2, <2>2 DEF SumsInv, WorkAddsUp
  <2>. QED BY <2>1, <2>2
<1>4. \A t \in Symbols : RowAddsUp(t)'
  BY <1>2 DEF SumsInv, RowAddsUp
<1>. QED BY <1>2, <1>3, <1>4 DEF SumsInv

\* A commit writes the sum it read with its own fill, or leaves the quantity as it is.
LEMMA WriteKeepsSums ==
  ASSUME SumsInv, TradingInv, NEW r \in Requests, pc[r] = "commit", WriteRow(r),
         NEW stage \in {"publish", "raised"}, GoTo(r, stage),
         UNCHANGED <<order, work, orders>>
  PROVE  SumsInv'
<1> DEFINE s == order[r].symbol
           new == work[r].position
           loaded == work[r].loaded
           row == IF loaded = NoRow THEN new ELSE Flushed(positions[s], loaded, new)
           ids == IF loaded # NoRow /\ new.quantity = loaded.quantity THEN lineage[s] ELSE work[r].lineage
<1>1. TypeOK /\ WorkAddsUp(r) /\ RequestInv(r)
  BY DEF TradingInv, SumsInv
<1>2. s \in Symbols
  BY <1>1 DEF RequestInv, Tracked, OwnOrder, OrderRecord, Holding
<1>3. /\ positions'[s] = row /\ lineage'[s] = ids /\ posted' = posted \cup {r} /\ pc'[r] = stage
      /\ \A t \in Symbols \ {s} : positions'[t] = positions[t] /\ lineage'[t] = lineage[t]
      /\ \A d \in Requests \ {r} : pc'[d] = pc[d]
  BY <1>1, <1>2 DEF WriteRow, GoTo, TypeOK
<1>4. /\ lineage[s] \subseteq posted /\ work[r].lineage \subseteq posted \cup {r}
      /\ AddsUp(orders, work[r].lineage, s, new.quantity)
      /\ AddsUp(orders, lineage[s], s, IF positions[s] = NoRow THEN 0 ELSE positions[s].quantity)
  BY <1>1, <1>2 DEF WorkAddsUp, SumsInv, RowAddsUp
<1>5. row # NoRow
  <2>1. new \in Position /\ loaded \in Position \cup {NoRow} /\ positions[s] \in Position \cup {NoRow}
    BY <1>1, <1>2, TradingTypes DEF TypeOK
  <2>2. loaded # NoRow => positions[s] \in Position
    BY <1>1, <2>1 DEF RequestInv, Loaded
  <2>3. CASE loaded = NoRow
    BY <2>1, <2>3, MarkersAssumption
  <2>4. CASE loaded # NoRow
    <3>1. Flushed(positions[s], loaded, new) \in Position
      BY <2>1, <2>2, <2>4 DEF Flushed, Position
    <3>. QED BY <2>4, <3>1, MarkersAssumption
  <2>. QED BY <2>3, <2>4
<1>6. ids \subseteq posted' /\ AddsUp(orders, ids, s, row.quantity)
  <2>1. CASE loaded # NoRow /\ new.quantity = loaded.quantity
    <3>1. positions[s] # NoRow
      BY <1>1, <2>1 DEF RequestInv, Loaded
    <3>2. row.quantity = positions[s].quantity /\ ids = lineage[s]
      BY <2>1 DEF Flushed
    <3>. QED BY <1>3, <1>4, <3>1, <3>2
  <2>2. CASE ~(loaded # NoRow /\ new.quantity = loaded.quantity)
    <3>1. row.quantity = new.quantity /\ ids = work[r].lineage
      BY <2>2 DEF Flushed
    <3>. QED BY <1>3, <1>4, <3>1
  <2>. QED BY <2>1, <2>2
<1> HIDE DEF row, ids
<1>7. ASSUME NEW t \in Symbols PROVE RowAddsUp(t)'
  <2>1. CASE t = s
    BY <1>3, <1>5, <1>6, <2>1 DEF RowAddsUp
  <2>2. CASE t # s
    BY <1>3, <2>2 DEF SumsInv, RowAddsUp
  <2>. QED BY <2>1, <2>2
<1>8. ASSUME NEW d \in Requests PROVE WorkAddsUp(d)'
  <2>1. CASE d = r
    BY <1>3, <2>1 DEF WorkAddsUp, Writing
  <2>2. CASE d # r
    BY <1>3, <2>2 DEF SumsInv, WorkAddsUp
  <2>. QED BY <2>1, <2>2
<1>. QED BY <1>7, <1>8 DEF SumsInv

LEMMA ServeKeepsSums ==
  ASSUME SumsInv, TradingInv, NEW r \in Requests, Serve(r)
  PROVE  SumsInv'
<1>1. TypeOK
  BY DEF TradingInv
<1>2. CASE \/ LookupFinds(r) \/ LookupMisses(r) \/ GateReadsSwitch(r) \/ GateReadsProfileAndStops(r)
           \/ GateReadsProfileAndFillsOnPaper(r) \/ GateReadsProfileAndSends(r)
           \/ VenueAnswers(r) \/ VenueRefuses(r) \/ SaveCollides(r) \/ CommitCollides(r) \/ Publish(r)
  <2>1. /\ UNCHANGED <<orders, positions, lineage, posted>> /\ pc'[r] \notin Writing
        /\ \A d \in Requests \ {r} : pc'[d] = pc[d] /\ order'[d] = order[d] /\ work'[d] = work[d]
    BY <1>1, <1>2 DEF LookupFinds, LookupMisses, GateReadsSwitch, GateReadsProfileAndStops,
          GateReadsProfileAndFillsOnPaper, GateReadsProfileAndSends, VenueAnswers, VenueRefuses, SaveCollides,
          CommitCollides, Publish, GoTo, Writing, TypeOK, held, asked, world, table
  <2>. QED BY <2>1, QuietKeepsSums
<1>3. CASE Save(r)
  <2>1. /\ pc[r] = "save" /\ InsertOrder(r) /\ (GoTo(r, "position") \/ GoTo(r, "publish"))
        /\ UNCHANGED <<order, work, positions, lineage, posted>>
    BY <1>3 DEF Save, held, table
  <2>. QED BY <2>1, InsertKeepsSums
<1>4. CASE CommitPosition(r)
  <2>1. UNCHANGED <<order, work, orders>>
    BY <1>4 DEF CommitPosition, held
  <2>. QED BY <1>4, <2>1, WriteKeepsSums DEF CommitPosition
<1>. QED BY <1>2, <1>3, <1>4, ReadPositionKeepsSums, LoadRowKeepsSums DEF Serve

LEMMA FailureKeepsSums ==
  ASSUME SumsInv, TradingInv, NEW r \in Requests, VenueTimesOut(r) \/ CallFails(r) \/ AnswerLost(r)
  PROVE  SumsInv'
<1>1. TypeOK
  BY DEF TradingInv
<1>2. /\ GoTo(r, "err") \/ GoTo(r, "raised")
      /\ UNCHANGED <<order, work>>
      /\ pc'[r] \notin Writing
      /\ \A d \in Requests \ {r} : pc'[d] = pc[d]
  BY <1>1 DEF VenueTimesOut, CallFails, AnswerLost, GoTo, Writing, TypeOK, held
<1>3. CASE UNCHANGED <<orders, table>>
  BY <1>2, <1>3, QuietKeepsSums DEF table
<1>4. CASE AnswerLost(r) /\ pc[r] = "save" /\ InsertOrder(r) /\ UNCHANGED table
  BY <1>2, <1>4, InsertKeepsSums DEF AnswerLost, table
<1>5. CASE AnswerLost(r) /\ pc[r] = "commit" /\ WriteRow(r) /\ UNCHANGED orders
  BY <1>2, <1>5, WriteKeepsSums DEF AnswerLost
<1>. QED BY <1>3, <1>4, <1>5 DEF VenueTimesOut, CallFails, AnswerLost, world

LEMMA NextKeepsSums == SumsInv /\ TradingInv /\ [Next]_vars => SumsInv'
<1> SUFFICES ASSUME SumsInv, TradingInv, [Next]_vars PROVE SumsInv'
  OBVIOUS
<1>1. TypeOK
  BY DEF TradingInv
<1>2. ASSUME NEW r \in Requests, NEW c \in Commands, Arrive(r, c) PROVE SumsInv'
  <2>1. /\ UNCHANGED <<orders, order, work, positions, lineage, posted>> /\ pc'[r] \notin Writing
        /\ \A d \in Requests \ {r} : pc'[d] = pc[d]
    BY <1>1, <1>2 DEF Arrive, GoTo, Writing, TypeOK, world, table
  <2>. QED BY <2>1, QuietKeepsSums
<1>3. ASSUME NEW r \in Requests, VenueAccepts(r) \/ VenueRejects(r) \/ VenueFills(r) PROVE SumsInv'
  BY <1>3, QuietKeepsSums DEF VenueAccepts, VenueRejects, VenueFills, held, asked, table
<1>4. CASE Crash
  <2>1. /\ UNCHANGED <<orders, order, work, positions, lineage, posted>>
        /\ \A d \in Requests : pc'[d] = pc[d] \/ pc'[d] = "lost"
    BY <1>4 DEF Crash, held, world, table
  <2>. QED BY <2>1, QuietKeepsSums DEF Writing
<1>5. CASE Operate \/ UNCHANGED vars
  BY <1>5, QuietKeepsSums DEF Operate, vars, tradingVars, held, asked, world, table
<1>. QED BY <1>2, <1>3, <1>4, <1>5, ServeKeepsSums, FailureKeepsSums DEF Next

\* A position is the sum of recorded fills of its symbol, each at most once,
\* whatever overlaps, fails or is lost: positions.save may drop a fill, it never
\* adds one twice (PlaceOrderService.execute and PostgresPositionRepository.save).
THEOREM PositionsAddUp == Spec => []PositionsAreSumsOfFills
<1>1. SumsInv => PositionsAreSumsOfFills
  <2> SUFFICES ASSUME SumsInv, NEW s \in Symbols, positions[s] # NoRow
               PROVE  LET summed == {o \in orders : o.id \in lineage[s]} IN
                      /\ lineage[s] = {o.id : o \in summed}
                      /\ \A o \in summed : o.symbol = s /\ o.status = "filled"
                      /\ positions[s].quantity = MapThenSumSet(Signed, summed)
    BY DEF PositionsAreSumsOfFills
  <2>1. AddsUp(orders, lineage[s], s, positions[s].quantity)
    BY DEF SumsInv, RowAddsUp
  <2>. QED BY <2>1 DEF AddsUp, Recording, Total
<1>. QED BY InitSums, SpecKeeps, NextKeepsSums, <1>1, PTL DEF Spec

====
