---- MODULE RiskGate ----
(***************************************************************************)
(* The risk gate: RiskService of risk/application/services.py over         *)
(* RedisRiskProfileStore.  The kill switch and the profile are two keys of *)
(* Redis; check_order reads them one after the other, with an await        *)
(* before each, while operators write them.                                *)
(*                                                                         *)
(* Percentages are integers in 1/One.  A position's share of the equity is *)
(* the pair numerator, denominator, compared without dividing.             *)
(***************************************************************************)
EXTENDS Integers, FiniteSets

CONSTANTS Checks,        \* calls of check_order
          Profiles,      \* risk profiles operators store
          DefaultProfile,\* RiskProfile()
          One,           \* the integer that stands for 100%
          Absent,        \* a key that Redis does not hold
          Corrupt,       \* a value the store cannot decode
          MaxCommands,   \* bound on operators' commands
          MaxDamage      \* bound on lost or corrupted keys

ASSUME DefaultProfileAssumption == DefaultProfile \in Profiles
ASSUME ProfilesAssumption ==
  Profiles \subseteq [max_position_pct: Int, max_daily_loss_pct: Int, allow_leverage: BOOLEAN, failed_closed: BOOLEAN]
ASSUME StoredAssumption ==
  /\ Absent \notin Profiles /\ Absent \notin BOOLEAN
  /\ Corrupt \notin Profiles /\ Corrupt \notin BOOLEAN
ASSUME BoundsAssumption == MaxCommands \in Nat /\ MaxDamage \in Nat /\ One \in Nat \ {0}

VARIABLES switch,     \* the key risk:kill_switch
          profile,    \* the key risk:profile
          check,      \* state of each call of check_order
          announcing, \* kill switches stored whose KillSwitchTriggered is still to be published
          alarms,     \* KillSwitchTriggered events published
          breaches,   \* RiskBreached events published
          commands,   \* number of operators' commands so far
          damage,     \* number of keys lost or corrupted so far
          intent,     \* history: the kill switch as operators last set it
          window      \* history: what held at some point of each running check

storeVars == <<switch, profile, announcing, alarms, commands, damage, intent>>
gateVars == <<switch, profile, check, announcing, alarms, breaches, commands, damage, intent, window>>

Stages == {"idle", "switch", "profile", "breach", "approved", "refused"}

Ratios == [num: Int, den: Nat \ {0}]

----------------------------------------------------------------------------
\* Plausible slips, one for each property that must catch it.

PositionShareSigned(notional, equity) ==
  IF equity = 0 THEN [num |-> 1, den |-> 1] ELSE [num |-> notional, den |-> equity]

ExceedsOrReaches(share, limit) == share.num * One >= limit * share.den

LoadedSwitchIgnored(raw) == FALSE

WithinLimitsUnlessLeveraged(share, loss, p) ==
  p.allow_leverage \/ (share.num * One <= p.max_position_pct * share.den /\ loss <= p.max_daily_loss_pct)

----------------------------------------------------------------------------
\* The share of the equity: the whole of it when there is no equity
\* (RiskServiceAdapter.authorize).
PositionShare(notional, equity) ==
  CASE equity = 0 -> [num |-> 1, den |-> 1]
    [] equity > 0 -> [num |-> notional, den |-> equity]
    [] OTHER -> [num |-> -notional, den |-> -equity]

Exceeds(share, limit) == share.num * One > limit * share.den

\* What the store returns for a key: the defaults when Redis holds none or one
\* that does not decode.
LoadedSwitch(raw) == raw = TRUE
LoadedProfile(raw) == IF raw \in Profiles THEN raw ELSE DefaultProfile

\* Every limit of check_order before the posture check.
WithinLimits(share, loss, p) ==
  /\ p.allow_leverage \/ ~Exceeds(share, One)
  /\ ~Exceeds(share, p.max_position_pct)
  /\ loss <= p.max_daily_loss_pct

\* The test of _breach_notify: one and a half times a limit.
PostureBreached(share, loss, p) ==
  \/ 2 * share.num * One > 3 * p.max_position_pct * share.den
  \/ 2 * loss > 3 * p.max_daily_loss_pct

----------------------------------------------------------------------------
\* History: a window holds what was true at least once since the check began.

\* What the stored profile says of an order, apart from the order in which
\* check_order looks: no leverage unless allowed, and both limits respected.
Limits(raw) == IF raw \in Profiles THEN raw ELSE DefaultProfile

Allowed(share, loss, raw) ==
  /\ share.num * One <= Limits(raw).max_position_pct * share.den
  /\ share.num > share.den => Limits(raw).allow_leverage
  /\ loss <= Limits(raw).max_daily_loss_pct

ClosedWindow == [live |-> FALSE, halted |-> FALSE, resumed |-> FALSE, permitted |-> FALSE]

Observed(seen, c, raw, p, halt) ==
  [live      |-> seen.live \/ raw # TRUE,
   halted    |-> seen.halted \/ raw = TRUE,
   resumed   |-> seen.resumed \/ ~halt,
   permitted |-> seen.permitted \/ Allowed(c.share, c.loss, p)]

Running(c) == check[c].stage \in {"switch", "profile", "breach"}

\* Every running check sees the keys as a store action leaves them.
ObserveStores(raw, p, halt) ==
  window' = [c \in Checks |->
    IF Running(c) THEN Observed(window[c], check[c], raw, p, halt) ELSE window[c]]

IdleCheck == [stage |-> "idle", share |-> [num |-> 0, den |-> 1], loss |-> 0, loaded |-> DefaultProfile]

GateInit ==
  /\ switch = Absent
  /\ profile = Absent
  /\ check = [c \in Checks |-> IdleCheck]
  /\ announcing = 0
  /\ alarms = 0
  /\ breaches = 0
  /\ commands = 0
  /\ damage = 0
  /\ intent = FALSE
  /\ window = [c \in Checks |-> ClosedWindow]

----------------------------------------------------------------------------
\* check_order, one step per await.

\* The call: it goes on to read the kill switch.
BeginCheck(c, share, loss) ==
  LET begun == [stage |-> "switch", share |-> share, loss |-> loss, loaded |-> DefaultProfile] IN
  /\ check[c].stage = "idle"
  /\ check' = [check EXCEPT ![c] = begun]
  /\ window' = [window EXCEPT ![c] = Observed(ClosedWindow, begun, switch, profile, intent)]
  /\ UNCHANGED <<storeVars, breaches>>

ReadSwitch(c) ==
  /\ check[c].stage = "switch"
  /\ check' = [check EXCEPT ![c].stage = IF LoadedSwitch(switch) THEN "refused" ELSE "profile"]
  /\ UNCHANGED <<storeVars, breaches, window>>

\* The profile's limits, then the posture check, which publishes before it
\* answers.
ReadProfile(c) ==
  LET p == LoadedProfile(profile)
      share == check[c].share
      loss == check[c].loss
  IN
  /\ check[c].stage = "profile"
  /\ check' = [check EXCEPT ![c].loaded = p,
                            ![c].stage = IF ~WithinLimits(share, loss, p) THEN "refused"
                                         ELSE IF PostureBreached(share, loss, p) THEN "breach" ELSE "approved"]
  /\ UNCHANGED <<storeVars, breaches, window>>

\* _breach_notify after its publication: it refuses unless the profile fails closed.
NotifyBreach(c) ==
  /\ check[c].stage = "breach"
  /\ breaches' = breaches + 1
  /\ check' = [check EXCEPT ![c].stage = IF check[c].loaded.failed_closed THEN "approved" ELSE "refused"]
  /\ UNCHANGED <<storeVars, window>>

----------------------------------------------------------------------------
\* Operators, and Redis.

SetProfile(p) ==
  /\ commands < MaxCommands
  /\ profile' = p
  /\ commands' = commands + 1
  /\ ObserveStores(switch, p, intent)
  /\ UNCHANGED <<switch, check, announcing, alarms, breaches, damage, intent>>

\* kill_switch stores the state and then publishes, when it activates.
StoreKillSwitch(active) ==
  /\ commands < MaxCommands
  /\ switch' = active
  /\ announcing' = IF active THEN announcing + 1 ELSE announcing
  /\ commands' = commands + 1
  /\ intent' = active
  /\ ObserveStores(active, profile, active)
  /\ UNCHANGED <<profile, check, alarms, breaches, damage>>

AnnounceKillSwitch ==
  /\ announcing > 0
  /\ announcing' = announcing - 1
  /\ alarms' = alarms + 1
  /\ UNCHANGED <<switch, profile, check, breaches, commands, damage, intent, window>>

\* A key is evicted, or its value no longer decodes (another writer or version).
DamageKey(raw) ==
  /\ damage < MaxDamage
  /\ damage' = damage + 1
  /\ \/ /\ switch' = raw
        /\ ObserveStores(raw, profile, intent)
        /\ UNCHANGED profile
     \/ /\ profile' = raw
        /\ ObserveStores(switch, raw, intent)
        /\ UNCHANGED switch
  /\ UNCHANGED <<check, announcing, alarms, breaches, commands, intent>>

StoreNext ==
  \/ \E p \in Profiles : SetProfile(p)
  \/ \E active \in BOOLEAN : StoreKillSwitch(active)
  \/ AnnounceKillSwitch
  \/ \E raw \in {Absent, Corrupt} : DamageKey(raw)

GateTypeOK ==
  /\ switch \in BOOLEAN \cup {Absent, Corrupt}
  /\ profile \in Profiles \cup {Absent, Corrupt}
  /\ check \in [Checks -> [stage: Stages, share: Ratios, loss: Int, loaded: Profiles]]
  /\ announcing \in Nat /\ alarms \in Nat /\ breaches \in Nat
  /\ commands \in 0..MaxCommands
  /\ damage \in 0..MaxDamage
  /\ intent \in BOOLEAN
  /\ window \in [Checks -> [live: BOOLEAN, halted: BOOLEAN, resumed: BOOLEAN, permitted: BOOLEAN]]

----------------------------------------------------------------------------
\* A kill switch that is readable and active from the start of a check to its
\* end refuses it, whatever the limits and however operators change the profile
\* meanwhile (check_order's first read).
HaltedChecksRefused ==
  \A c \in Checks : check[c].stage = "approved" => window[c].live

\* No approval without limits that allowed it: at some moment of the check the
\* profile in force had room for the order (the reads of check_order are not
\* atomic, so not necessarily at a moment when the switch was off).
ApprovedWithinLimits ==
  \A c \in Checks : check[c].stage = "approved" => window[c].permitted

\* The reverse: a refusal is never spurious.  Either the switch was on at some
\* moment of the check, or the limits read do not allow the order, or it breached
\* the posture of a profile that does not fail closed.
RefusalsAreJustified ==
  \A c \in Checks : check[c].stage = "refused" =>
    \/ window[c].halted
    \/ ~Allowed(check[c].share, check[c].loss, check[c].loaded)
    \/ PostureBreached(check[c].share, check[c].loss, check[c].loaded)

\* The gate fails closed: while operators have trading halted, from the start of
\* a check to its end, the check is not approved, whatever happened to the key.
FailsClosed ==
  \A c \in Checks : check[c].stage = "approved" => window[c].resumed

====
