---------------------------- MODULE ExitPricing ----------------------------
(***************************************************************************)
(* The prices of position_exit_manager.py: when a debit spread has reached  *)
(* its take-profit or its stop-loss, and the limit a closing order gets.    *)
(*                                                                         *)
(* Credits are cents per contract.  A basis b stands for the lots the       *)
(* history recovered: n contracts bought for cost cents in all, so that     *)
(* entry_debit_per_contract is the fraction b.cost / b.n.  The percentages  *)
(* are compared multiplied out, which is what the Decimal arithmetic        *)
(* computes up to its 28 digits.                                           *)
(***************************************************************************)
EXTENDS Integers

CONSTANTS
  TakeProfit,   \* --take-profit-percent
  StopLoss,     \* --stop-loss-percent
  Concession    \* take_profit_price_concession, in cents

(* The checks at the top of run_paper_spread_exit_cycle, and thresholds     *)
(* that do not meet: with both at zero one credit would be on both sides.   *)
ASSUME PricingAssumption ==
  /\ TakeProfit \in Nat
  /\ StopLoss \in Nat
  /\ Concession \in Nat
  /\ TakeProfit + StopLoss > 0

Bases == [cost : Nat \ {0}, n : Nat \ {0}]

CeilDiv(a, d) == (a + d - 1) \div d

Smaller(x, y) == IF x <= y THEN x ELSE y
Larger(x, y) == IF x >= y THEN x ELSE y

(* Slip: rounded to the cent below, a cent short of the promised return.    *)
TargetCreditFloor(b) == (b.cost * (100 + TakeProfit)) \div (100 * b.n)

(* ROUND_CEILING to whole cents.                                            *)
TargetCredit(b) == CeilDiv(b.cost * (100 + TakeProfit), 100 * b.n)

(* expected_return >= take_profit_percent                                   *)
ReachesTarget(b, c) == 100 * (c * b.n - b.cost) >= TakeProfit * b.cost

(* expected_return <= -stop_loss_percent                                    *)
ReachesStop(b, c) == 100 * (c * b.n - b.cost) <= -(StopLoss * b.cost)

(* Slip: the concession is granted without looking at the target.           *)
LimitCreditConceded(b, c) == Larger(c - Concession, 1)

LimitCredit(b, c) ==
  Larger(Larger(Smaller(TargetCredit(b), c), c - Concession), 1)
=============================================================================
