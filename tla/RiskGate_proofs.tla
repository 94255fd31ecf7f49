---- MODULE RiskGate_proofs ----
(***************************************************************************)
(* What each step of the risk gate preserves, for any specification built  *)
(* from them, and the theorems of the gate with its two callers            *)
(* (RiskChecks).  Trading, which takes the same steps, cites the lemmas.   *)
(***************************************************************************)
EXTENDS RiskChecks, TLAPS

\* What is known of a check while it runs: its window holds what it could read
\* now and what it has read.
Watched(c) ==
  Running(c) =>
    /\ switch # TRUE => window[c].live
    /\ switch = TRUE => window[c].halted
    /\ Allowed(check[c].share, check[c].loss, profile) => window[c].permitted

Justified(c) ==
  /\ check[c].stage \in {"profile", "breach", "approved"} => window[c].live
  /\ check[c].stage \in {"breach", "approved"} => window[c].permitted
  /\ check[c].stage = "breach" => PostureBreached(check[c].share, check[c].loss, check[c].loaded)
  /\ check[c].stage = "refused" =>
       \/ window[c].halted
       \/ ~Allowed(check[c].share, check[c].loss, check[c].loaded)
       \/ PostureBreached(check[c].share, check[c].loss, check[c].loaded)

GateInv == GateTypeOK /\ \A c \in Checks : Watched(c) /\ Justified(c)

CheckRecord == [stage: Stages, share: Ratios, loss: Int, loaded: Profiles]

WindowRecord == [live: BOOLEAN, halted: BOOLEAN, resumed: BOOLEAN, permitted: BOOLEAN]

----------------------------------------------------------------------------

LEMMA LoadedIsAProfile == ASSUME NEW raw PROVE LoadedProfile(raw) \in Profiles
  BY DefaultProfileAssumption DEF LoadedProfile

\* The order in which check_order looks at the limits does not matter.
LEMMA LimitsAgree ==
  ASSUME NEW share \in Ratios, NEW loss \in Int, NEW raw
  PROVE  WithinLimits(share, loss, LoadedProfile(raw)) <=> Allowed(share, loss, raw)
<1> DEFINE p == LoadedProfile(raw)
<1>1. p = Limits(raw)
  BY DEF LoadedProfile, Limits
<1>2. /\ p.max_position_pct \in Int /\ p.max_daily_loss_pct \in Int /\ p.allow_leverage \in BOOLEAN
  BY LoadedIsAProfile, ProfilesAssumption
<1>3. share.num \in Int /\ share.den \in Nat \ {0} /\ One \in Nat \ {0}
  BY BoundsAssumption DEF Ratios
<1>4. share.num * One \in Int /\ p.max_position_pct * share.den \in Int
  BY <1>2, <1>3
<1>5. Exceeds(share, p.max_position_pct) <=> ~(share.num * One <= p.max_position_pct * share.den)
  BY <1>4 DEF Exceeds
<1>6. Exceeds(share, One) <=> share.num > share.den
  <2>1. \A a \in Int, b \in Nat, k \in Nat \ {0} : a * k > k * b <=> a > b
    OBVIOUS
  <2>. QED BY <1>3, <2>1 DEF Exceeds
<1> HIDE DEF p
<1>. QED BY <1>1, <1>2, <1>5, <1>6 DEF WithinLimits, Allowed, p

LEMMA ObservedIsAWindow ==
  ASSUME NEW seen, NEW c, NEW raw, NEW p, NEW halt PROVE Observed(seen, c, raw, p, halt) \in WindowRecord
<1>1. \A a, b : (a \/ b) \in BOOLEAN
  OBVIOUS
<1>. QED BY <1>1 DEF Observed, WindowRecord

LEMMA ObservedShows ==
  ASSUME NEW seen, NEW c, NEW raw, NEW p, NEW halt
  PROVE  /\ Observed(seen, c, raw, p, halt) \in WindowRecord
         /\ raw # TRUE \/ seen.live => Observed(seen, c, raw, p, halt).live
         /\ raw = TRUE \/ seen.halted => Observed(seen, c, raw, p, halt).halted
         /\ Allowed(c.share, c.loss, p) \/ seen.permitted => Observed(seen, c, raw, p, halt).permitted
  BY ObservedIsAWindow DEF Observed

LEMMA LoadedOfProfile == ASSUME NEW p \in Profiles PROVE LoadedProfile(p) = p
  BY DEF LoadedProfile

----------------------------------------------------------------------------

LEMMA InitGate == GateInit => GateInv
<1> SUFFICES ASSUME GateInit PROVE GateInv
  OBVIOUS
<1>1. IdleCheck \in CheckRecord /\ ClosedWindow \in WindowRecord
  BY DefaultProfileAssumption DEF IdleCheck, ClosedWindow, CheckRecord, WindowRecord, Stages, Ratios
<1>2. GateTypeOK
  <2>1. check \in [Checks -> CheckRecord] /\ window \in [Checks -> WindowRecord]
    BY <1>1 DEF GateInit
  <2>2. /\ switch \in BOOLEAN \cup {Absent, Corrupt} /\ profile \in Profiles \cup {Absent, Corrupt}
        /\ intent \in BOOLEAN
    BY DEF GateInit
  <2>3. /\ announcing \in Nat /\ alarms \in Nat /\ breaches \in Nat
        /\ commands \in 0..MaxCommands /\ damage \in 0..MaxDamage
    BY BoundsAssumption DEF GateInit
  <2>. QED BY <2>1, <2>2, <2>3 DEF GateTypeOK, CheckRecord, WindowRecord
<1>3. \A c \in Checks : check[c].stage = "idle"
  BY DEF GateInit, IdleCheck
<1>. QED BY <1>2, <1>3 DEF GateInv, Watched, Justified, Running

LEMMA BeginCheckKeepsGate ==
  ASSUME GateInv, NEW c \in Checks, NEW share \in Ratios, NEW loss \in Int,
         BeginCheck(c, share, loss)
  PROVE  GateInv'
<1> DEFINE begun == [stage |-> "switch", share |-> share, loss |-> loss, loaded |-> DefaultProfile]
           opened == Observed(ClosedWindow, begun, switch, profile, intent)
<1>1. check' = [check EXCEPT ![c] = begun] /\ window' = [window EXCEPT ![c] = opened]
  BY DEF BeginCheck
<1>2. begun \in CheckRecord /\ opened \in WindowRecord
  <2>1. begun \in CheckRecord
    BY DefaultProfileAssumption DEF CheckRecord, Stages
  <2>. QED BY <2>1, ObservedIsAWindow DEF ClosedWindow, WindowRecord
<1>3. GateTypeOK'
  BY <1>1, <1>2 DEF GateInv, GateTypeOK, BeginCheck, storeVars, CheckRecord, WindowRecord
<1>4. ASSUME NEW d \in Checks PROVE (Watched(d) /\ Justified(d))'
  <2>1. check \in [Checks -> CheckRecord] /\ window \in [Checks -> WindowRecord]
    BY DEF GateInv, GateTypeOK, CheckRecord, WindowRecord
  <2>2. UNCHANGED <<switch, profile>>
    BY DEF BeginCheck, storeVars
  <2>3. CASE d = c
    <3>1. check'[d] = begun /\ window'[d] = opened
      BY <1>1, <2>1, <2>3
    <3>2. /\ begun.stage = "switch" /\ begun.share = share /\ begun.loss = loss
          /\ switch # TRUE => opened.live
          /\ switch = TRUE => opened.halted
          /\ Allowed(begun.share, begun.loss, profile) => opened.permitted
      BY ObservedShows
    <3>. HIDE DEF begun, opened
    <3>3. Watched(d)'
      BY <2>2, <3>1, <3>2 DEF Watched
    <3>4. check'[d].stage \notin {"profile", "breach", "approved", "refused"}
      BY <3>1, <3>2
    <3>. QED BY <3>3, <3>4 DEF Justified
  <2>4. CASE d # c
    <3>1. check'[d] = check[d] /\ window'[d] = window[d]
      BY <1>1, <2>1, <2>4
    <3>2. Watched(d) /\ Justified(d)
      BY DEF GateInv
    <3>. QED BY <2>2, <3>1, <3>2 DEF Watched, Justified, Running
  <2>. QED BY <2>3, <2>4
<1>. QED BY <1>3, <1>4 DEF GateInv

\* Steps of one running check: its stage and the profile it loaded change, the
\* stores and the windows do not.
LEMMA StepOfCheckKeepsGate ==
  ASSUME GateInv, NEW c \in Checks, NEW stage \in Stages, NEW p \in Profiles,
         check' = [check EXCEPT ![c].loaded = p, ![c].stage = stage],
         UNCHANGED <<storeVars, window>>, breaches' \in Nat,
         Running(c),
         stage \in {"profile", "breach", "approved"} => window[c].live,
         stage \in {"breach", "approved"} => window[c].permitted,
         stage = "breach" => PostureBreached(check[c].share, check[c].loss, p),
         stage = "refused" =>
           \/ window[c].halted
           \/ ~Allowed(check[c].share, check[c].loss, p)
           \/ PostureBreached(check[c].share, check[c].loss, p)
  PROVE  GateInv'
<1>1. check \in [Checks -> CheckRecord] /\ window \in [Checks -> WindowRecord]
  BY DEF GateInv, GateTypeOK, CheckRecord, WindowRecord
<1>2. /\ check' \in [Checks -> CheckRecord]
      /\ check'[c].stage = stage /\ check'[c].loaded = p
      /\ check'[c].share = check[c].share /\ check'[c].loss = check[c].loss
      /\ \A d \in Checks : d # c => check'[d] = check[d]
  BY <1>1 DEF CheckRecord
<1>3. GateTypeOK'
  BY <1>2 DEF GateInv, GateTypeOK, storeVars, CheckRecord
<1>4. ASSUME NEW d \in Checks PROVE (Watched(d) /\ Justified(d))'
  <2>1. Watched(d) /\ Justified(d) /\ switch' = switch /\ profile' = profile /\ window' = window
    BY DEF GateInv, storeVars
  <2>2. CASE d = c
    BY <1>2, <2>1, <2>2 DEF Watched, Justified, Running
  <2>3. CASE d # c
    <3>1. check'[d] = check[d]
      BY <1>2, <2>3
    <3>. QED BY <2>1, <3>1 DEF Watched, Justified, Running
  <2>. QED BY <2>2, <2>3
<1>. QED BY <1>3, <1>4 DEF GateInv

LEMMA ReadSwitchKeepsGate ==
  ASSUME GateInv, NEW c \in Checks, ReadSwitch(c) PROVE GateInv'
<1> DEFINE stage == IF LoadedSwitch(switch) THEN "refused" ELSE "profile"
           p == check[c].loaded
<1>1. check \in [Checks -> CheckRecord] /\ check[c].stage = "switch" /\ p \in Profiles /\ breaches' \in Nat
  BY DEF GateInv, GateTypeOK, ReadSwitch, CheckRecord
<1>2. check' = [check EXCEPT ![c].loaded = p, ![c].stage = stage]
  BY <1>1 DEF ReadSwitch, CheckRecord
<1>3. Running(c) /\ Watched(c)
  BY <1>1 DEF GateInv, Running
<1>4. (stage = "profile" => window[c].live) /\ (stage = "refused" => window[c].halted)
      /\ stage \in {"profile", "refused"}
  BY <1>3 DEF Watched, LoadedSwitch
<1>5. UNCHANGED <<storeVars, window>>
  BY DEF ReadSwitch
<1>. HIDE DEF stage, p
<1>6. stage \in Stages /\ stage # "breach" /\ stage # "approved"
  BY <1>4 DEF Stages
<1>. QED BY <1>1, <1>2, <1>3, <1>4, <1>5, <1>6, StepOfCheckKeepsGate

LEMMA ReadProfileKeepsGate ==
  ASSUME GateInv, NEW c \in Checks, ReadProfile(c) PROVE GateInv'
<1> DEFINE p == LoadedProfile(profile)
           share == check[c].share
           loss == check[c].loss
           stage == IF ~WithinLimits(share, loss, p) THEN "refused"
                    ELSE IF PostureBreached(share, loss, p) THEN "breach" ELSE "approved"
<1>1. check \in [Checks -> CheckRecord] /\ check[c].stage = "profile" /\ p \in Profiles /\ breaches' \in Nat
  BY LoadedIsAProfile DEF GateInv, GateTypeOK, ReadProfile, CheckRecord
<1>2. check' = [check EXCEPT ![c].loaded = p, ![c].stage = stage] /\ UNCHANGED <<storeVars, window>>
  BY DEF ReadProfile
<1>3. Running(c) /\ Watched(c) /\ window[c].live
  BY <1>1 DEF GateInv, Running, Justified
<1>4. share \in Ratios /\ loss \in Int
  BY <1>1 DEF CheckRecord
<1>5. WithinLimits(share, loss, p) <=> Allowed(share, loss, profile)
  BY <1>4, LimitsAgree
<1>6. WithinLimits(share, loss, p) <=> Allowed(share, loss, p)
  BY <1>1, <1>4, LimitsAgree, LoadedOfProfile
<1>7. WithinLimits(share, loss, p) => window[c].permitted
  BY <1>3, <1>5 DEF Watched
<1>8. /\ stage \in {"refused", "breach", "approved"}
      /\ stage \in {"breach", "approved"} => window[c].permitted
      /\ stage = "breach" => PostureBreached(share, loss, p)
      /\ stage = "refused" => ~Allowed(share, loss, p)
  <2>1. CASE ~WithinLimits(share, loss, p)
    <3>1. stage = "refused"
      BY <2>1
    <3>. HIDE DEF stage
    <3>. QED BY <1>6, <2>1, <3>1
  <2>2. CASE WithinLimits(share, loss, p) /\ PostureBreached(share, loss, p)
    <3>1. stage = "breach"
      BY <2>2
    <3>. HIDE DEF stage
    <3>. QED BY <1>7, <2>2, <3>1
  <2>3. CASE WithinLimits(share, loss, p) /\ ~PostureBreached(share, loss, p)
    <3>1. stage = "approved"
      BY <2>3
    <3>. HIDE DEF stage
    <3>. QED BY <1>7, <2>3, <3>1
  <2>. QED BY <2>1, <2>2, <2>3
<1> HIDE DEF stage, p
<1>. QED BY <1>1, <1>2, <1>3, <1>8, StepOfCheckKeepsGate DEF Stages

LEMMA NotifyBreachKeepsGate ==
  ASSUME GateInv, NEW c \in Checks, NotifyBreach(c) PROVE GateInv'
<1> DEFINE p == check[c].loaded
           stage == IF p.failed_closed THEN "approved" ELSE "refused"
<1>1. check \in [Checks -> CheckRecord] /\ check[c].stage = "breach" /\ p \in Profiles /\ breaches' \in Nat
  BY DEF GateInv, GateTypeOK, NotifyBreach, CheckRecord
<1>2. check' = [check EXCEPT ![c].loaded = p, ![c].stage = stage] /\ UNCHANGED <<storeVars, window>>
  BY <1>1 DEF NotifyBreach, CheckRecord
<1>3. Running(c) /\ window[c].live /\ window[c].permitted /\ PostureBreached(check[c].share, check[c].loss, p)
  BY <1>1 DEF GateInv, Running, Justified
<1>4. stage \in {"approved", "refused"}
  OBVIOUS
<1> HIDE DEF stage, p
<1>. QED BY <1>1, <1>2, <1>3, <1>4, StepOfCheckKeepsGate DEF Stages

----------------------------------------------------------------------------

\* What a step that leaves the stores as raw, p and halt preserves.
LEMMA StoresKeepGate ==
  ASSUME GateInv, NEW raw \in BOOLEAN \cup {Absent, Corrupt},
         NEW p \in Profiles \cup {Absent, Corrupt}, NEW halt \in BOOLEAN,
         ObserveStores(raw, p, halt),
         switch' = raw, profile' = p, intent' = halt,
         UNCHANGED <<check, alarms, breaches>>,
         announcing' \in Nat, commands' \in 0..MaxCommands, damage' \in 0..MaxDamage
  PROVE  GateInv'
<1>1. check \in [Checks -> CheckRecord] /\ window \in [Checks -> WindowRecord]
  BY DEF GateInv, GateTypeOK, CheckRecord, WindowRecord
<1>2. /\ DOMAIN window' = Checks /\ window' = [c \in Checks |-> window'[c]]
      /\ \A c \in Checks :
           window'[c] = IF Running(c) THEN Observed(window[c], check[c], raw, p, halt) ELSE window[c]
  BY DEF ObserveStores
<1>3. \A c \in Checks : Observed(window[c], check[c], raw, p, halt) \in WindowRecord
  BY ObservedIsAWindow
<1>4. window' \in [Checks -> WindowRecord]
  BY <1>1, <1>2, <1>3
<1>5. GateTypeOK'
  BY <1>4 DEF GateInv, GateTypeOK, WindowRecord
<1>6. ASSUME NEW c \in Checks PROVE (Watched(c) /\ Justified(c))'
  <2>1. Watched(c) /\ Justified(c)
    BY DEF GateInv
  <2>2. /\ raw # TRUE \/ window[c].live => Observed(window[c], check[c], raw, p, halt).live
        /\ raw = TRUE \/ window[c].halted => Observed(window[c], check[c], raw, p, halt).halted
        /\ Allowed(check[c].share, check[c].loss, p) \/ window[c].permitted
             => Observed(window[c], check[c], raw, p, halt).permitted
    BY ObservedShows
  <2>3. CASE Running(c)
    <3>1. window'[c] = Observed(window[c], check[c], raw, p, halt)
      BY <1>2, <2>3
    <3>2. Watched(c)'
      BY <2>2, <3>1 DEF Watched
    <3>3. Justified(c)'
      BY <2>1, <2>2, <3>1 DEF Justified
    <3>. QED BY <3>2, <3>3
  <2>4. CASE ~Running(c)
    <3>1. window'[c] = window[c] /\ ~Running(c)'
      BY <1>2, <2>4 DEF Running
    <3>. QED BY <2>1, <3>1 DEF Watched, Justified
  <2>. QED BY <2>3, <2>4
<1>. QED BY <1>5, <1>6 DEF GateInv

LEMMA StoreNextKeepsGate ==
  ASSUME GateInv, StoreNext PROVE GateInv'
<1>1. GateTypeOK /\ MaxCommands \in Nat /\ MaxDamage \in Nat
  BY BoundsAssumption DEF GateInv
<1>2. ASSUME NEW p \in Profiles, SetProfile(p) PROVE GateInv'
  <2>1. commands' \in 0..MaxCommands
    BY <1>1, <1>2 DEF GateTypeOK, SetProfile
  <2>2. /\ switch \in BOOLEAN \cup {Absent, Corrupt} /\ intent \in BOOLEAN
        /\ announcing' \in Nat /\ damage' \in 0..MaxDamage
    BY <1>1, <1>2 DEF GateTypeOK, SetProfile
  <2>. QED BY <1>2, <2>1, <2>2, StoresKeepGate DEF SetProfile
<1>3. ASSUME NEW active \in BOOLEAN, StoreKillSwitch(active) PROVE GateInv'
  <2>1. announcing' \in Nat /\ commands' \in 0..MaxCommands
    BY <1>1, <1>3 DEF GateTypeOK, StoreKillSwitch
  <2>2. profile \in Profiles \cup {Absent, Corrupt} /\ damage' \in 0..MaxDamage
    BY <1>1, <1>3 DEF GateTypeOK, StoreKillSwitch
  <2>. QED BY <1>3, <2>1, <2>2, StoresKeepGate DEF StoreKillSwitch
<1>4. CASE AnnounceKillSwitch
  <2>1. announcing' \in Nat /\ alarms' \in Nat
    BY <1>1, <1>4 DEF GateTypeOK, AnnounceKillSwitch
  <2>2. UNCHANGED <<switch, profile, check, breaches, commands, damage, intent, window>>
    BY <1>4 DEF AnnounceKillSwitch
  <2>. QED BY <2>1, <2>2 DEF GateInv, GateTypeOK, Watched, Justified, Running
<1>5. ASSUME NEW raw \in {Absent, Corrupt}, DamageKey(raw) PROVE GateInv'
  <2>1. damage' \in 0..MaxDamage
    BY <1>1, <1>5 DEF GateTypeOK, DamageKey
  <2>2. /\ switch \in BOOLEAN \cup {Absent, Corrupt} /\ intent \in BOOLEAN
        /\ profile \in Profiles \cup {Absent, Corrupt}
        /\ announcing' \in Nat /\ commands' \in 0..MaxCommands
    BY <1>1, <1>5 DEF GateTypeOK, DamageKey
  <2>3. CASE switch' = raw /\ ObserveStores(raw, profile, intent) /\ UNCHANGED profile
    BY <1>5, <2>1, <2>2, <2>3, StoresKeepGate DEF DamageKey
  <2>4. CASE profile' = raw /\ ObserveStores(switch, raw, intent) /\ UNCHANGED switch
    BY <1>5, <2>1, <2>2, <2>4, StoresKeepGate DEF DamageKey
  <2>. QED BY <1>5, <2>3, <2>4 DEF DamageKey
<1>. QED BY <1>2, <1>3, <1>4, <1>5 DEF StoreNext

\* Windows only open wider when the stores change.
LEMMA StoreNextWidens ==
  ASSUME StoreNext, NEW c \in Checks
  PROVE  (window[c].live => window'[c].live) /\ (window[c].permitted => window'[c].permitted)
<1>1. ASSUME NEW raw, NEW p, NEW halt, ObserveStores(raw, p, halt)
      PROVE  (window[c].live => window'[c].live) /\ (window[c].permitted => window'[c].permitted)
  <2>1. window'[c] = IF Running(c) THEN Observed(window[c], check[c], raw, p, halt) ELSE window[c]
    BY <1>1 DEF ObserveStores
  <2>2. /\ window[c].live => Observed(window[c], check[c], raw, p, halt).live
        /\ window[c].permitted => Observed(window[c], check[c], raw, p, halt).permitted
    BY ObservedShows
  <2>3. CASE Running(c)
    BY <2>1, <2>2, <2>3
  <2>4. CASE ~Running(c)
    BY <2>1, <2>4
  <2>. QED BY <2>3, <2>4
<1>2. UNCHANGED window \/ \E raw, p, halt : ObserveStores(raw, p, halt)
  BY DEF StoreNext, SetProfile, StoreKillSwitch, AnnounceKillSwitch, DamageKey
<1>. QED BY <1>1, <1>2

LEMMA StutterKeepsGate == ASSUME GateInv, UNCHANGED gateVars PROVE GateInv'
  BY DEF GateInv, GateTypeOK, Watched, Justified, Running, gateVars

----------------------------------------------------------------------------

\* What the invariant says of a decided check.
LEMMA GateInvImplies ==
  ASSUME GateInv
  PROVE  GateTypeOK /\ HaltedChecksRefused /\ ApprovedWithinLimits /\ RefusalsAreJustified
  BY DEF GateInv, Justified, HaltedChecksRefused, ApprovedWithinLimits, RefusalsAreJustified

----------------------------------------------------------------------------
\* The gate with its two callers, for all amounts.

LEMMA PositionShareIsARatio ==
  ASSUME NEW notional \in Int, NEW equity \in Int
  PROVE  PositionShare(notional, equity) \in Ratios
<1>1. CASE equity = 0
  BY <1>1 DEF PositionShare, Ratios
<1>2. CASE equity > 0
  BY <1>2 DEF PositionShare, Ratios
<1>3. CASE equity < 0
  BY <1>3 DEF PositionShare, Ratios
<1>. QED BY <1>1, <1>2, <1>3

LEMMA RouteShareIsARatio ==
  ASSUME NEW notional \in Int, NEW equity \in Int
  PROVE  RouteShare(notional, equity) \in Ratios
  BY PositionShareIsARatio DEF RouteShare, Ratios

LEMMA GateNextKeepsGate == GateInv /\ [GateNext]_gateVars => GateInv'
<1> SUFFICES ASSUME GateInv, [GateNext]_gateVars PROVE GateInv'
  OBVIOUS
<1>1. ASSUME NEW c \in Checks, Authorize(c) PROVE GateInv'
  <2>1. PICK notional \in OrderNotionals, equity \in Equities :
          BeginCheck(c, PositionShare(notional, equity), 0)
    BY <1>1 DEF Authorize
  <2>2. PositionShare(notional, equity) \in Ratios
    BY AmountsAssumption, PositionShareIsARatio
  <2>. QED BY <2>1, <2>2, BeginCheckKeepsGate
<1>2. ASSUME NEW c \in Checks, RouteCheck(c) PROVE GateInv'
  <2>1. PICK notional \in RouteNotionals, equity \in Equities :
          BeginCheck(c, RouteShare(notional, equity), RouteLoss)
    BY <1>2 DEF RouteCheck
  <2>2. RouteShare(notional, equity) \in Ratios /\ RouteLoss \in Int
    BY AmountsAssumption, RouteShareIsARatio
  <2>. QED BY <2>1, <2>2, BeginCheckKeepsGate
<1>3. ASSUME NEW c \in Checks, ReadSwitch(c) PROVE GateInv'
  BY <1>3, ReadSwitchKeepsGate
<1>4. ASSUME NEW c \in Checks, ReadProfile(c) PROVE GateInv'
  BY <1>4, ReadProfileKeepsGate
<1>5. ASSUME NEW c \in Checks, NotifyBreach(c) PROVE GateInv'
  BY <1>5, NotifyBreachKeepsGate
<1>6. CASE StoreNext
  BY <1>6, StoreNextKeepsGate
<1>7. CASE UNCHANGED gateVars
  BY <1>7, StutterKeepsGate
<1>. QED BY <1>1, <1>2, <1>3, <1>4, <1>5, <1>6, <1>7 DEF GateNext

LEMMA GateSpecKeepsGate == GateSpec => []GateInv
<1>1. GateInit => GateInv
  BY InitGate
<1>2. GateInv /\ [GateNext]_gateVars => GateInv'
  BY GateNextKeepsGate
<1>. QED BY <1>1, <1>2, PTL DEF GateSpec

\* The stores, the checks and the counters keep their types (RedisRiskProfileStore,
\* RiskService).
THEOREM GateTypeCorrect == GateSpec => []GateTypeOK
  BY GateSpecKeepsGate, GateInvImplies, PTL

\* A check that ran from start to end while the stored kill switch was active is
\* never approved (RiskService.check_order's first read).
THEOREM HaltsAreObeyed == GateSpec => []HaltedChecksRefused
  BY GateSpecKeepsGate, GateInvImplies, PTL

\* Every approved check fitted the limits of a profile in force while it ran
\* (RiskService.check_order, RedisRiskProfileStore.get_profile).
THEOREM ApprovalsRespectLimits == GateSpec => []ApprovedWithinLimits
  BY GateSpecKeepsGate, GateInvImplies, PTL

\* No check is refused without one of the documented reasons (RiskDecision.reasons).
THEOREM RefusalsHaveReasons == GateSpec => []RefusalsAreJustified
  BY GateSpecKeepsGate, GateInvImplies, PTL

====
