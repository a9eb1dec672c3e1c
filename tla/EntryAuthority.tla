--------------------------- MODULE EntryAuthority ---------------------------
(***************************************************************************)
(* The autonomous trade cycle in detail: market preflight, option quotes,  *)
(* the model's recommendation, Lockean's own pricing, the policies, the    *)
(* account, the authority's decision with its signed short-lived receipt,  *)
(* the gateway's check, the two contract look-ups and the submission.      *)
(* Time may pass before every step, and every outside call may fail.       *)
(* A cycle's proposal identity and its receipt are fresh (uuid4), so both  *)
(* are named by the cycle's number.                                        *)
(***************************************************************************)
EXTENDS Integers, FiniteSets

CONSTANTS
    OptionContracts,   \* option contracts of the expiration: [type, strike]
    RawQuotes,   \* the bid and ask a latest quote may carry
    Powers,      \* options_buying_power of the account
    Multiplier,  \* OPTION_CONTRACT_MULTIPLIER
    MaxLoss,     \* maximum_allowed_loss
    Life,        \* seconds from issue to expiry of a receipt
    MaxCycles,   \* bound of the exploration: cycles
    MaxClock     \* bound of the exploration: time

ASSUME AuthorityAssumption ==
    /\ OptionContracts \subseteq [type : {"call", "put"}, strike : Nat]
    /\ RawQuotes \subseteq [bid : Int, ask : Int]
    /\ Powers \subseteq Int
    /\ Multiplier \in Nat \ {0}
    /\ MaxLoss \in Int
    /\ Life \in Nat \ {0}
    /\ MaxCycles \in Nat /\ MaxClock \in Nat

VARIABLES
    clock,
    step,
    round,     \* the cycle under way, or the last one
    quotes,    \* candidate quotes: contract -> [bid, ask]
    proposal,  \* [id, buy, sell, units, debit]
    funds,     \* the account snapshot of the cycle
    receipt,   \* [id, issued, expires, bound]
    orders,    \* the broker's entry orders, with what they were sent on
    asked,     \* requests made to the model
    counted    \* ai_inference_requests of the session

entryVars == <<clock, step, round, quotes, proposal, funds, receipt, orders, asked, counted>>

Nil == [id |-> 0]
Ids == 1..MaxCycles

Quoted(q) == DOMAIN q

(* _translate_alpaca_option_quote drops a negative bid, an ask of zero and *)
(* a crossed quote.                                                        *)
Usable(raw) == raw.bid >= 0 /\ raw.ask > 0 /\ raw.bid <= raw.ask

(* What the adapter returns: some tradable contracts have a usable quote.  *)
CandidateTables ==
    UNION { [S -> {raw \in RawQuotes : Usable(raw)}] : S \in SUBSET OptionContracts }

Debit(q, buy, sell) == q[buy].ask - q[sell].bid

(* Slip: the derived debit is not looked at. *)
PricedUnsigned(q, buy, sell) ==
    /\ {buy, sell} \subseteq Quoted(q)
    /\ IF buy.type = "call" THEN buy.strike < sell.strike ELSE buy.strike > sell.strike

(* build_trade_proposal_from_recommendation: a vertical of the candidates  *)
(* whose debit, from the ask of one leg and the bid of the other, is       *)
(* positive.                                                               *)
Priced(q, buy, sell) ==
    /\ {buy, sell} \subseteq Quoted(q)
    /\ IF buy.type = "call" THEN buy.strike < sell.strike ELSE buy.strike > sell.strike
    /\ Debit(q, buy, sell) > 0

Proposal(id, buy, sell, d) == [id |-> id, buy |-> buy, sell |-> sell, units |-> 1, debit |-> d]

(* Slip: the premium of one share, not of one contract. *)
MaximumLossPerShare(p) == p.debit * p.units

MaximumLoss(p) == p.debit * Multiplier * p.units

(* LockeanAuthority.evaluate, for a vertical of the shape Priced leaves.   *)
Authorized(p, a) ==
    /\ p.debit > 0
    /\ MaximumLoss(p) <= MaxLoss
    /\ a.ready
    /\ MaximumLoss(p) <= a.power

Receipt(p) == [id |-> p.id, issued |-> clock, expires |-> clock + Life, bound |-> p]

(* Slip: the gateway does not look at the expiry. *)
ValidForever(r, p, now) == r.id # 0 /\ r.bound = p

(* verify_authorization_receipt: signature, expiry, then fingerprint.      *)
Valid(r, p, now) == r.id # 0 /\ now < r.expires /\ r.bound = p

-----------------------------------------------------------------------------

EntryInit ==
    /\ clock = 0 /\ step = "idle" /\ round = 0
    /\ quotes = <<>> /\ proposal = Nil /\ funds = Nil /\ receipt = Nil
    /\ orders = {} /\ asked = 0 /\ counted = 0

EntryTick ==
    /\ clock < MaxClock
    /\ clock' = clock + 1
    /\ UNCHANGED <<step, round, quotes, proposal, funds, receipt, orders, asked, counted>>

Dropped ==
    /\ quotes' = <<>> /\ proposal' = Nil /\ funds' = Nil /\ receipt' = Nil

(* The cycle returns a result; after the model was asked it reports one    *)
(* inference request.                                                      *)
Returns(n) == step' = "idle" /\ Dropped /\ counted' = counted + n

(* Slip: every exception is taken to come after the request.               *)
RaisesCounted == Returns(1)

(* An exception leaves the cycle: the session reads the request count off  *)
(* the exception, which only the recommendation step puts there.           *)
Raises == Returns(0)

Begin ==
    /\ step = "idle" /\ round < MaxCycles
    /\ step' = "market" /\ round' = round + 1
    /\ UNCHANGED <<clock, quotes, proposal, funds, receipt, orders, asked, counted>>

(* The evidence cannot be read, or the market is not eligible, or it is.   *)
Preflight ==
    /\ step = "market"
    /\ \/ Returns(0)
       \/ step' = "quotes" /\ UNCHANGED <<quotes, proposal, funds, receipt, counted>>
    /\ UNCHANGED <<clock, round, orders, asked>>

ReadQuotes ==
    /\ step = "quotes"
    /\ \/ Raises
       \/ /\ quotes' \in CandidateTables \ {<<>>}
          /\ step' = "model"
          /\ UNCHANGED <<proposal, funds, receipt, counted>>
    /\ UNCHANGED <<clock, round, orders, asked>>

Ask ==
    /\ step = "model"
    /\ asked' = asked + 1 /\ step' = "answer"
    /\ UNCHANGED <<clock, round, quotes, proposal, funds, receipt, orders, counted>>

(* The model fails, answers something the schema refuses, declines, or     *)
(* recommends what cannot be priced: one request is reported.              *)
NoProposal ==
    /\ step = "answer"
    /\ Returns(1)
    /\ UNCHANGED <<clock, round, orders, asked>>

Propose(buy, sell) ==
    /\ step = "answer"
    /\ buy.type = sell.type /\ Priced(quotes, buy, sell)
    /\ proposal' = Proposal(round, buy, sell, Debit(quotes, buy, sell))
    /\ quotes' = <<>> /\ step' = "policy"
    /\ UNCHANGED <<clock, round, funds, receipt, orders, asked, counted>>

Recommend == \E buy, sell \in OptionContracts : Propose(buy, sell)

(* The profit-first gate, the portfolio snapshot and the loss loop, then   *)
(* the market evidence.                                                    *)
EntryPolicies ==
    /\ step = "policy"
    /\ \/ Raises \/ Returns(1)
       \/ step' = "account" /\ UNCHANGED <<quotes, proposal, funds, receipt, counted>>
    /\ UNCHANGED <<clock, round, orders, asked>>

ReadAccount ==
    /\ step = "account"
    /\ \/ Raises
       \/ /\ funds' \in [id : {round}, ready : BOOLEAN, power : Powers]
          /\ step' = "decide"
          /\ UNCHANGED <<quotes, proposal, receipt, counted>>
    /\ UNCHANGED <<clock, round, orders, asked>>

Decide ==
    /\ step = "decide"
    /\ IF Authorized(proposal, funds)
       THEN /\ receipt' = Receipt(proposal) /\ step' = "verify"
            /\ UNCHANGED <<quotes, proposal, funds, counted>>
       ELSE Returns(1)
    /\ UNCHANGED <<clock, round, orders, asked>>

Verify ==
    /\ step = "verify"
    /\ IF Valid(receipt, proposal, clock)
       THEN step' = "first leg" /\ UNCHANGED <<quotes, proposal, funds, receipt, counted>>
       ELSE Returns(1)
    /\ UNCHANGED <<clock, round, orders, asked>>

(* One get_option_contracts call per leg. *)
Resolve ==
    /\ step \in {"first leg", "second leg"}
    /\ \/ Raises
       \/ /\ step' = IF step = "first leg" THEN "second leg" ELSE "submit"
          /\ UNCHANGED <<quotes, proposal, funds, receipt, counted>>
    /\ UNCHANGED <<clock, round, orders, asked>>

OrderSent == [on |-> receipt, of |-> proposal, power |-> funds.power, at |-> clock]

(* The broker refuses the order, or takes it; then the reply may be lost.  *)
SubmitEntry ==
    /\ step = "submit"
    /\ \/ Raises /\ UNCHANGED orders
       \/ orders' = orders \cup {OrderSent} /\ (Raises \/ Returns(1))
    /\ UNCHANGED <<clock, round, asked>>

Steps ==
    \/ Begin \/ Preflight \/ ReadQuotes \/ Ask \/ NoProposal \/ Recommend
    \/ EntryPolicies \/ ReadAccount \/ Decide \/ Verify \/ Resolve \/ SubmitEntry

EntryNext == EntryTick \/ Steps

EntrySpec == EntryInit /\ [][EntryNext]_entryVars

-----------------------------------------------------------------------------

TradeProposal == [id : Ids, buy : OptionContracts, sell : OptionContracts, units : {1}, debit : Nat \ {0}]
Accounts == [id : Ids, ready : BOOLEAN, power : Powers]
ReceiptRecord == [id : Ids, issued : Nat, expires : Nat, bound : TradeProposal]

Phases == {"idle", "market", "quotes", "model", "answer", "policy", "account",
           "decide", "verify", "first leg", "second leg", "submit"}

EntryTypeOK ==
    /\ clock \in Nat /\ step \in Phases /\ round \in 0..MaxCycles
    /\ quotes \in CandidateTables
    /\ proposal \in TradeProposal \cup {Nil}
    /\ funds \in Accounts \cup {Nil}
    /\ receipt \in ReceiptRecord \cup {Nil}
    /\ orders \subseteq [on : ReceiptRecord, of : TradeProposal, power : Powers, at : Nat]
    /\ asked \in Nat /\ counted \in Nat

(* Whatever the model answers and wherever a cycle breaks off, an order at *)
(* the broker is a one-unit debit vertical, sent on the receipt granted    *)
(* for that very proposal, whose premium is within the loss limit and      *)
(* within the buying power its own cycle read.                             *)
OrdersAuthorized ==
    \A o \in orders :
        /\ o.on.bound = o.of
        /\ o.of.buy.type = o.of.sell.type /\ o.of.buy.strike # o.of.sell.strike
        /\ o.of.debit > 0
        /\ o.of.debit * Multiplier <= MaxLoss
        /\ o.of.debit * Multiplier <= o.power

SentOn(r) == {o \in orders : o.on.id = r}

(* The stage of a receipt, as the gateway and the broker see it; no stage  *)
(* of the ledger stands for two orders.                                    *)
StageOf(r) ==
    IF \E o, p \in SentOn(r) : o # p THEN "twice"
    ELSE IF SentOn(r) # {} THEN "spent"
    ELSE IF receipt.id = r
         THEN IF step # "verify" THEN "checked"
              ELSE IF clock < receipt.expires THEN "live" ELSE "void"
    ELSE IF r < round \/ (r = round /\ step = "idle") THEN "void" ELSE "none"

Grants == INSTANCE AuthorityLedger WITH
              Receipts <- Ids, stage <- [r \in Ids |-> StageOf(r)]

(* The cycles implement the ledger of receipts: no receipt is spent twice,  *)
(* or without having been checked while it lived, for the proposal it was    *)
(* granted for.  It may lapse between the check and the submission: two      *)
(* look-ups lie in between (execution_gateway.py, 79-116).                  *)
ImplementsAuthority == Grants!Spec

(* The session never counts an inference request that was not made: what   *)
(* an exception leaves out is only ever missing from the count.            *)
CountedWereAsked == counted <= asked
=============================================================================
