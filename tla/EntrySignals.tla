----------------------------- MODULE EntrySignals -----------------------------
(***************************************************************************)
(* The market signals an entry waits for within the session, and the       *)
(* profit-first gate that asks for them: the minute bars of the feed        *)
(* (intraday_market_context.py), the session's direction against the       *)
(* completed close (agent_market_context.py), the preflight before the     *)
(* model is asked and the gate on its proposal (profit_first_entry_policy). *)
(* A minute without a trade has no bar.  The four daily filters are one     *)
(* verdict.  Of a percentage only the sign counts: two closes that differ  *)
(* are taken to differ by more than the 0.0005 % it is rounded by.          *)
(***************************************************************************)
EXTENDS Integers, FiniteSets, FiniteSetsExt

CONSTANTS
    Closes,      \* closes of a minute bar
    PriorClose,  \* close of the completed session
    Premarket,   \* minutes before the open the feed may have bars of
    Minutes,     \* bound of the exploration: minutes of the session
    Lookback,    \* lookback_minutes
    Short, Long, \* the horizons the gate asks for: 15 and 30 minutes
    Widths,      \* strike widths of a proposal, in cents
    NetDebits,      \* net debits of a proposal, in cents
    ContractSize,  \* _CONTRACT_MULTIPLIER
    Cost,        \* ESTIMATED_ROUND_TRIP_COST_PER_CONTRACT, in cents
    Minimum      \* MINIMUM_REWARD_TO_RISK, in thousandths

ASSUME SignalsAssumption ==
    /\ Closes \subseteq Nat \ {0} /\ PriorClose \in Nat \ {0}
    /\ Premarket \in Nat /\ Minutes \in Nat
    /\ Short \in Nat \ {0} /\ Long \in Nat /\ Short <= Long
    /\ Lookback \in Nat /\ Long <= Lookback
    /\ Widths \subseteq Nat \ {0} /\ NetDebits \subseteq Nat \ {0}
    /\ ContractSize \in Nat \ {0} /\ Cost \in Nat /\ Minimum \in Nat \ {0}

VARIABLES
    minute,   \* minutes since the open
    bars,     \* minute bars of the feed: [at, close]
    phase,
    context,  \* the market context of the cycle under way
    offer, \* the proposal of the cycle under way
    entered   \* what the gate has let pass: [context, proposal]

signalVars == <<minute, bars, phase, context, offer, entered>>

Absent == [status |-> "NONE"]
Directions == {"UP", "DOWN", "FLAT", "NA"}

Direction(new, old) == IF new > old THEN "UP" ELSE IF new < old THEN "DOWN" ELSE "FLAT"

(* Slip: bars of the lookback count whatever session they are of. *)
AnySessionBars(t) == {b \in bars : b.at >= t - Lookback /\ b.at <= t}

(* The bars of the lookback that lie in the regular session.               *)
SessionBars(t) == {b \in bars : b.at >= t - Lookback /\ b.at >= 0 /\ b.at <= t}

(* The bar k places before the newest of them.                             *)
Back(B, k) == CHOOSE b \in B : Cardinality({c \in B : c.at > b.at}) = k

(* Slip: one bar short. *)
HorizonShort(B, n) ==
    IF Cardinality(B) < n THEN Absent ELSE Back(B, n - 1)

(* What a horizon of n minutes is measured against: the n-th bar back.     *)
Horizon(B, n) ==
    IF Cardinality(B) <= n THEN Absent ELSE Back(B, n)

Over(B, n) ==
    IF Horizon(B, n) = Absent THEN "NA"
    ELSE Direction(Back(B, 0).close, Horizon(B, n).close)

Context(daily, t) ==
    LET B == SessionBars(t)
    IN [status |-> IF Cardinality(B) > Short THEN "AVAILABLE" ELSE "WARMING_UP",
        daily |-> daily,
        last |-> Back(B, 0),
        from |-> [n \in {Short, Long} |-> Horizon(B, n)],
        session |-> Direction(Back(B, 0).close, PriorClose),
        short |-> Over(B, Short),
        long |-> Over(B, Long)]

(* evaluate_profit_first_market_context *)
Eligible(c) ==
    /\ c.daily /\ c.status = "AVAILABLE"
    /\ c.session = "UP" /\ c.short = "UP" /\ c.long = "UP"

Proposals == [width : Widths, debit : NetDebits]

Loss(p) == p.debit * ContractSize + Cost
Reward(p) == (p.width - p.debit) * ContractSize - Cost

(* Decimal.quantize, ROUND_HALF_EVEN.                                      *)
Quantized(a, d) ==
    LET q == a \div d
        r == a % d
    IN IF 2 * r > d \/ (2 * r = d /\ q % 2 = 1) THEN q + 1 ELSE q

RewardToRisk(p) ==
    IF p.width <= p.debit \/ Reward(p) <= 0 THEN 0
    ELSE Quantized(1000 * Reward(p), Loss(p))

(* evaluate_profit_first_entry, of a bull-call vertical with a debit.      *)
Passes(p, c) == RewardToRisk(p) >= Minimum /\ Eligible(c)

-----------------------------------------------------------------------------

SignalInit ==
    /\ minute = -Premarket /\ bars = {}
    /\ phase = "idle" /\ context = Absent /\ offer = Absent
    /\ entered = Absent

(* A minute passes, with trades or without. *)
Minute ==
    /\ minute < Minutes
    /\ minute' = minute + 1
    /\ bars' \in {bars} \cup {bars \cup {[at |-> minute, close |-> c]} : c \in Closes}
    /\ UNCHANGED <<phase, context, offer, entered>>

(* The cycle reads the bars; without one it raises or, in the first minute, *)
(* is told to wait, and the preflight asks the model only in an eligible     *)
(* market.                                                                  *)
ReadMarket(daily) ==
    /\ phase = "idle" /\ minute >= 0
    /\ SessionBars(minute) # {}
    /\ context' = Context(daily, minute)
    /\ phase' = IF Eligible(context') THEN "asked" ELSE "idle"
    /\ UNCHANGED <<minute, bars, offer, entered>>

(* The model's answer, priced from the trusted quotes, or none.            *)
Offer ==
    /\ phase = "asked"
    /\ \/ phase' = "idle" /\ UNCHANGED offer
       \/ /\ offer' \in Proposals
          /\ phase' = "proposed"
    /\ UNCHANGED <<minute, bars, context, entered>>

Gate ==
    /\ phase = "proposed"
    /\ phase' = "idle" /\ offer' = Absent
    /\ entered' = IF Passes(offer, context)
                  THEN [context |-> context, offer |-> offer] ELSE entered
    /\ UNCHANGED <<minute, bars, context>>

SignalNext == Minute \/ (\E daily \in BOOLEAN : ReadMarket(daily)) \/ Offer \/ Gate

SignalSpec == SignalInit /\ [][SignalNext]_signalVars

-----------------------------------------------------------------------------

Bars == [at : -Premarket .. Minutes, close : Closes]
SessionBar == [at : 0 .. Minutes, close : Closes]
Contexts == [status : {"AVAILABLE", "WARMING_UP"}, daily : BOOLEAN, last : SessionBar,
             from : [{Short, Long} -> SessionBar \cup {Absent}],
             session : Directions, short : Directions, long : Directions]

(* The model's types: a context holds bars of the session only, and every   *)
(* proposal the gate has accepted came with its context.                    *)
SignalTypeOK ==
    /\ minute \in -Premarket .. Minutes
    /\ bars \subseteq Bars
    /\ phase \in {"idle", "asked", "proposed"}
    /\ context \in Contexts \cup {Absent}
    /\ offer \in Proposals \cup {Absent}
    /\ entered \in [context : Contexts, offer : Proposals] \cup {Absent}

HasRead == context # Absent

Holds(n) == HasRead /\ context.from[n] # Absent

(* A direction is never measured over less than its minutes, nor against a  *)
(* price from before the open, however many minutes the feed has left out:  *)
(* right after the open a horizon is missing, not short.                    *)
(* read_spy_intraday_context, 72-81 and 118-124.                            *)
HorizonHasPassed ==
    \A n \in {Short, Long} : Holds(n) =>
        /\ context.last.at - context.from[n].at >= n
        /\ context.from[n].at >= 0

(* With no minute left out, a horizon is exactly its minutes: the bar it is *)
(* measured against is the one of that many minutes before the newest.      *)
(* read_spy_intraday_context, 118-124.                                      *)
HorizonIsMinutes ==
    \A n \in {Short, Long} :
        (Holds(n) /\ \A m \in context.from[n].at .. context.last.at :
                         \E b \in bars : b.at = m)
            => context.last.at - context.from[n].at = n

Accepted == entered # Absent

(* What passes the gate keeps the configured ratio of reward to risk after  *)
(* the estimated costs, to within the half thousandth it is rounded by, and  *)
(* no better: 779.90 to 520.10 passes a minimum of 1.50, although            *)
(* profit_first_entry_policy.py, 147-151, says it is retained.               *)
(* _reward_to_risk, 119-133.                                                *)
RatioRetained ==
    Accepted => 2000 * Reward(entered.offer) >= (2 * Minimum - 1) * Loss(entered.offer)
=============================================================================
