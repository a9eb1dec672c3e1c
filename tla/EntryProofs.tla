---------------------------- MODULE EntryProofs ----------------------------
(***************************************************************************)
(* Proofs about EntryAuthority for any chain of contracts, any quotes and   *)
(* buying powers, any limits and any number of cycles.                      *)
(***************************************************************************)
EXTENDS EntryAuthority, TLAPS

Proposed == {"policy", "account", "decide", "verify", "first leg", "second leg", "submit"}
Granted == {"verify", "first leg", "second leg", "submit"}

(* A proposal of the cycle under way, as the pricing leaves it.             *)
ProposalOk ==
    /\ proposal.id = round /\ proposal.units = 1
    /\ proposal.debit \in Nat /\ proposal.debit > 0
    /\ proposal.buy.type = proposal.sell.type
    /\ proposal.buy.strike # proposal.sell.strike

(* The receipt of the cycle under way, as the authority grants it.          *)
ReceiptOk ==
    /\ receipt.id = round /\ receipt.bound = proposal
    /\ receipt.expires \in Int
    /\ proposal.debit * Multiplier <= MaxLoss
    /\ proposal.debit * Multiplier <= funds.power

(* Orders are of cycles that are over, one each.                            *)
OrdersOk ==
    /\ \A o \in orders : /\ o.on.id \in 1..round
                         /\ o.on.id = round => step = "idle"
    /\ \A o, p \in orders : o.on.id = p.on.id => o = p

EntryInv ==
    /\ step \in Phases
    /\ round \in Nat /\ clock \in Nat
    /\ step # "idle" => round \in Ids
    /\ quotes \in CandidateTables
    /\ step \in Proposed => ProposalOk
    /\ step \in Granted => ReceiptOk
    /\ step \notin Granted => receipt = Nil
    /\ OrdersOk
    /\ OrdersAuthorized

LEMMA Constant ==
    /\ Multiplier \in Nat /\ Multiplier > 0 /\ MaxLoss \in Int
    /\ Life \in Nat /\ Life > 0 /\ MaxCycles \in Nat
    /\ OptionContracts \subseteq [type : {"call", "put"}, strike : Nat]
    /\ RawQuotes \subseteq [bid : Int, ask : Int]
  BY AuthorityAssumption

LEMMA InitEntry == EntryInit => EntryInv
<1> SUFFICES ASSUME EntryInit PROVE EntryInv
  OBVIOUS
<1>1. quotes \in CandidateTables
  <2>1. <<>> \in [{} -> {raw \in RawQuotes : Usable(raw)}]
    OBVIOUS
  <2> QED
    BY <2>1 DEF EntryInit, CandidateTables
<1> QED
  BY <1>1 DEF EntryInit, EntryInv, Phases, Proposed, Granted, OrdersOk, OrdersAuthorized

(* Leaving the cycle, with no order.                                        *)
LEMMA ReturnKeeps ==
    ASSUME EntryInv, NEW n, Returns(n), step # "idle", UNCHANGED <<clock, round, orders>>
    PROVE  EntryInv'
<1>1. /\ step' = "idle" /\ receipt' = Nil /\ quotes' = <<>>
      /\ UNCHANGED <<clock, round, orders>>
  BY DEF Returns, Dropped
<1>2. quotes' \in CandidateTables
  <2>1. <<>> \in [{} -> {raw \in RawQuotes : Usable(raw)}]
    OBVIOUS
  <2> QED
    BY <1>1, <2>1 DEF CandidateTables
<1>3. OrdersOk' /\ OrdersAuthorized'
  BY <1>1 DEF EntryInv, OrdersOk, OrdersAuthorized
<1> QED
  BY <1>1, <1>2, <1>3 DEF EntryInv, Phases, Proposed, Granted

(* A step inside the cycle that only moves on, past no grant.                *)
LEMMA OnwardKeeps ==
    ASSUME EntryInv, step # "idle", step' \in Phases \ {"idle", "market"},
           step' \in Proposed => step \in Proposed,
           step' \in Granted <=> step \in Granted,
           UNCHANGED <<clock, round, proposal, funds, receipt, orders>>,
           quotes' \in CandidateTables
    PROVE  EntryInv'
<1>1. OrdersOk' /\ OrdersAuthorized'
  BY DEF EntryInv, OrdersOk, OrdersAuthorized
<1>2. step' \in Proposed => ProposalOk'
  BY DEF EntryInv, ProposalOk
<1>3. step' \in Granted => ReceiptOk'
  BY DEF EntryInv, ReceiptOk
<1> QED
  BY <1>1, <1>2, <1>3 DEF EntryInv

(* Lockean's own pricing of the legs the model named.                        *)
LEMMA ProposeKeeps ==
    ASSUME EntryInv, NEW buy \in OptionContracts, NEW sell \in OptionContracts, Propose(buy, sell)
    PROVE  EntryInv'
<1>1. /\ step = "answer" /\ step' = "policy" /\ quotes' = <<>>
      /\ proposal' = Proposal(round, buy, sell, Debit(quotes, buy, sell))
      /\ UNCHANGED <<clock, round, funds, receipt, orders>>
  BY DEF Propose
<1>2. Debit(quotes, buy, sell) \in Nat /\ Debit(quotes, buy, sell) > 0
  <2>1. PICK S \in SUBSET OptionContracts : quotes \in [S -> {raw \in RawQuotes : Usable(raw)}]
    BY DEF EntryInv, CandidateTables
  <2>2. buy \in S /\ sell \in S
    BY <2>1 DEF Propose, Priced, Quoted
  <2>3. quotes[buy] \in [bid : Int, ask : Int] /\ quotes[sell] \in [bid : Int, ask : Int]
    BY <2>1, <2>2, Constant
  <2>4. Debit(quotes, buy, sell) \in Int /\ Debit(quotes, buy, sell) > 0
    BY <2>3 DEF Propose, Priced, Debit
  <2> QED
    BY <2>4
<1>3. buy.type = sell.type /\ buy.strike # sell.strike
  <2>1. buy.strike \in Nat /\ sell.strike \in Nat
    BY Constant
  <2> QED
    BY <2>1 DEF Propose, Priced
<1>4. ProposalOk'
  BY <1>1, <1>2, <1>3 DEF ProposalOk, Proposal
<1>5. quotes' \in CandidateTables
  <2>1. <<>> \in [{} -> {raw \in RawQuotes : Usable(raw)}]
    OBVIOUS
  <2> QED
    BY <1>1, <2>1 DEF CandidateTables
<1>6. OrdersOk' /\ OrdersAuthorized'
  BY <1>1 DEF EntryInv, OrdersOk, OrdersAuthorized
<1> QED
  BY <1>1, <1>4, <1>5, <1>6 DEF EntryInv, Phases, Proposed, Granted

(* The authority grants a receipt for the very proposal, within the limits.  *)
LEMMA GrantKeeps ==
    ASSUME EntryInv, step = "decide", Authorized(proposal, funds),
           receipt' = Receipt(proposal), step' = "verify",
           UNCHANGED <<clock, round, quotes, proposal, funds, orders>>
    PROVE  EntryInv'
<1>1. ProposalOk
  BY DEF EntryInv, Proposed
<1>2. proposal.debit * Multiplier * proposal.units = proposal.debit * Multiplier
  BY <1>1, Constant DEF ProposalOk
<1>3. ReceiptOk'
  BY <1>1, <1>2, Constant DEF ReceiptOk, Receipt, Authorized, MaximumLoss, ProposalOk, EntryInv
<1>4. OrdersOk' /\ OrdersAuthorized'
  BY DEF EntryInv, OrdersOk, OrdersAuthorized
<1> QED
  BY <1>1, <1>3, <1>4 DEF EntryInv, Phases, Proposed, Granted, ProposalOk

(* The broker takes the order and the cycle ends.                            *)
LEMMA SentKeeps ==
    ASSUME EntryInv, step = "submit", orders' = orders \cup {OrderSent},
           NEW n, Returns(n), UNCHANGED <<clock, round>>
    PROVE  EntryInv'
<1>1. ProposalOk /\ ReceiptOk /\ round \in Ids
  BY DEF EntryInv, Proposed, Granted
<1>2. step' = "idle" /\ receipt' = Nil /\ quotes' = <<>>
  BY DEF Returns, Dropped
<1>3. OrderSent.on = receipt /\ OrderSent.of = proposal /\ OrderSent.power = funds.power
  BY DEF OrderSent
<1>4. OrdersOk'
  <2>1. OrderSent.on.id = round /\ \A o \in orders : o.on.id # round
    BY <1>1, <1>3 DEF ReceiptOk, EntryInv, OrdersOk
  <2> QED
    BY <1>1, <1>2, <2>1, Constant DEF EntryInv, OrdersOk, Ids
<1>5. OrdersAuthorized'
  BY <1>1, <1>3 DEF EntryInv, OrdersAuthorized, ReceiptOk, ProposalOk
<1>6. quotes' \in CandidateTables
  <2>1. <<>> \in [{} -> {raw \in RawQuotes : Usable(raw)}]
    OBVIOUS
  <2> QED
    BY <1>2, <2>1 DEF CandidateTables
<1> QED
  BY <1>2, <1>4, <1>5, <1>6 DEF EntryInv, Phases, Proposed, Granted

LEMMA NextEntry == EntryInv /\ [EntryNext]_entryVars => EntryInv'
<1> SUFFICES ASSUME EntryInv, [EntryNext]_entryVars PROVE EntryInv'
  OBVIOUS
<1>1. CASE EntryTick
  <2>1. clock' = clock + 1 /\ UNCHANGED <<step, round, quotes, proposal, funds, receipt, orders>>
    BY <1>1 DEF EntryTick
  <2>2. OrdersOk' /\ OrdersAuthorized' /\ (ProposalOk <=> ProposalOk') /\ (ReceiptOk <=> ReceiptOk')
    BY <2>1 DEF EntryInv, OrdersOk, OrdersAuthorized, ProposalOk, ReceiptOk
  <2> QED
    BY <2>1, <2>2 DEF EntryInv
<1>2. CASE Begin
  <2>1. /\ step = "idle" /\ round < MaxCycles /\ step' = "market" /\ round' = round + 1
        /\ UNCHANGED <<clock, quotes, proposal, funds, receipt, orders>>
    BY <1>2 DEF Begin
  <2>2. round' \in Ids /\ round' \in Nat /\ round' > 0
    BY <2>1, Constant DEF Ids, EntryInv
  <2>3. OrdersOk' /\ OrdersAuthorized'
    BY <2>1 DEF EntryInv, OrdersOk, OrdersAuthorized
  <2> QED
    BY <2>1, <2>2, <2>3 DEF EntryInv, Phases, Proposed, Granted
<1>3. CASE Preflight
  BY <1>3, ReturnKeeps, OnwardKeeps DEF Preflight, EntryInv, Phases, Proposed, Granted
<1>4. CASE ReadQuotes
  BY <1>4, ReturnKeeps, OnwardKeeps DEF ReadQuotes, Raises, EntryInv, Phases, Proposed, Granted
<1>5. CASE Ask
  BY <1>5, OnwardKeeps DEF Ask, EntryInv, Phases, Proposed, Granted
<1>6. CASE NoProposal
  BY <1>6, ReturnKeeps DEF NoProposal
<1>7. CASE Recommend
  BY <1>7, ProposeKeeps DEF Recommend
<1>8. CASE EntryPolicies
  BY <1>8, ReturnKeeps, OnwardKeeps DEF EntryPolicies, Raises, EntryInv, Phases, Proposed, Granted
<1>9. CASE ReadAccount
  <2>1. CASE Raises
    BY <1>9, <2>1, ReturnKeeps DEF ReadAccount, Raises
  <2>2. CASE step' = "decide" /\ UNCHANGED <<quotes, proposal, receipt>>
    <3>1. /\ step = "account" /\ UNCHANGED <<clock, round, orders>>
      BY <1>9 DEF ReadAccount
    <3>2. OrdersOk' /\ OrdersAuthorized' /\ ProposalOk'
      BY <2>2, <3>1 DEF EntryInv, OrdersOk, OrdersAuthorized, ProposalOk, Proposed
    <3> QED
      BY <2>2, <3>1, <3>2 DEF EntryInv, Phases, Proposed, Granted
  <2> QED
    BY <1>9, <2>1, <2>2 DEF ReadAccount
<1>10. CASE Decide
  BY <1>10, ReturnKeeps, GrantKeeps DEF Decide
<1>11. CASE Verify
  BY <1>11, ReturnKeeps, OnwardKeeps DEF Verify, EntryInv, Phases, Proposed, Granted
<1>12. CASE Resolve
  BY <1>12, ReturnKeeps, OnwardKeeps DEF Resolve, Raises, EntryInv, Phases, Proposed, Granted
<1>13. CASE SubmitEntry
  BY <1>13, ReturnKeeps, SentKeeps DEF SubmitEntry, Raises
<1>14. CASE UNCHANGED entryVars
  BY <1>14 DEF entryVars, EntryInv, OrdersOk, OrdersAuthorized, ProposalOk, ReceiptOk
<1> QED
  BY <1>1, <1>2, <1>3, <1>4, <1>5, <1>6, <1>7, <1>8, <1>9, <1>10, <1>11, <1>12, <1>13, <1>14
     DEF EntryNext, Steps

(* Every order at the broker was sent on the receipt granted for it, within  *)
(* the loss limit and the buying power its cycle read.                       *)
THEOREM EntriesAuthorized == EntrySpec => []OrdersAuthorized
<1>1. EntryInv => OrdersAuthorized
  BY DEF EntryInv
<1> QED
  BY <1>1, InitEntry, NextEntry, PTL DEF EntrySpec

-----------------------------------------------------------------------------
(* The cycles implement the ledger of receipts.                             *)

StageNow ==
    IF step = "idle" THEN IF SentOn(round) # {} THEN "spent" ELSE "void"
    ELSE IF step = "verify" THEN IF clock < receipt.expires THEN "live" ELSE "void"
    ELSE IF step \in Granted THEN "checked"
    ELSE "none"

(* The stage of every receipt, read off the cycle under way.                *)
LEMMA StageTable ==
    EntryInv => \A r \in Ids :
        StageOf(r) = IF r > round THEN "none"
                     ELSE IF r = round THEN StageNow
                     ELSE IF SentOn(r) # {} THEN "spent" ELSE "void"
<1> SUFFICES ASSUME EntryInv, NEW r \in Ids
             PROVE  StageOf(r) = IF r > round THEN "none"
                                 ELSE IF r = round THEN StageNow
                                 ELSE IF SentOn(r) # {} THEN "spent" ELSE "void"
  OBVIOUS
<1>1. ~ \E o, p \in SentOn(r) : o # p
  BY DEF SentOn, EntryInv, OrdersOk
<1>2. r \in Nat /\ r > 0 /\ round \in Nat
  BY Constant DEF Ids, EntryInv
<1>3. StageOf(r) = IF SentOn(r) # {} THEN "spent"
                   ELSE IF receipt.id = r
                        THEN IF step # "verify" THEN "checked"
                             ELSE IF clock < receipt.expires THEN "live" ELSE "void"
                   ELSE IF r < round \/ (r = round /\ step = "idle") THEN "void" ELSE "none"
  BY <1>1 DEF StageOf
<1>4. step \notin Granted => receipt.id = 0
  BY DEF EntryInv, Nil
<1>5. step \in Granted => receipt.id = round
  BY DEF EntryInv, ReceiptOk
<1>6. r > round => SentOn(r) = {}
  BY <1>2 DEF SentOn, EntryInv, OrdersOk
<1>7. r = round /\ step # "idle" => SentOn(r) = {}
  BY DEF SentOn, EntryInv, OrdersOk
<1>8. "idle" \notin Granted /\ "verify" \in Granted
  BY DEF Granted
<1>9. CASE r > round
  BY <1>2, <1>3, <1>4, <1>5, <1>6, <1>9
<1>10. CASE r < round
  BY <1>2, <1>3, <1>4, <1>5, <1>10
<1>11. CASE r = round
  BY <1>2, <1>3, <1>4, <1>5, <1>7, <1>8, <1>11 DEF StageNow
<1> QED
  BY <1>2, <1>9, <1>10, <1>11

Stage == [r \in Ids |-> StageOf(r)]

(* A step that moves the stage of the cycle under way, and of no other.      *)
LEMMA OneStageMoves ==
    ASSUME NEW c \in Ids,
           \A r \in Ids : r # c => StageOf(r)' = StageOf(r),
           \/ StageOf(c)' = StageOf(c)
           \/ StageOf(c) = "none" /\ StageOf(c)' = "live"
           \/ StageOf(c) = "live" /\ StageOf(c)' = "checked"
           \/ StageOf(c) = "checked" /\ StageOf(c)' = "spent"
           \/ StageOf(c) \in {"none", "live", "checked"} /\ StageOf(c)' = "void"
    PROVE  [Grants!Next]_Stage
<1>1. Stage' = [r \in Ids |-> StageOf(r)']
  BY DEF Stage
<1>2. Stage' = [Stage EXCEPT ![c] = StageOf(c)']
  BY <1>1 DEF Stage
<1>3. Stage[c] = StageOf(c)
  BY DEF Stage
<1>4. CASE StageOf(c)' = StageOf(c)
  BY <1>1, <1>4 DEF Stage
<1>5. CASE StageOf(c) = "none" /\ StageOf(c)' = "live"
  <2>1. Grants!Grant(c)
    BY <1>2, <1>3, <1>5 DEF Grants!Grant, Grants!Move, Stage
  <2> QED
    BY <2>1 DEF Grants!Next
<1>6. CASE StageOf(c) = "live" /\ StageOf(c)' = "checked"
  <2>1. Grants!Check(c)
    BY <1>2, <1>3, <1>6 DEF Grants!Check, Grants!Move, Stage
  <2> QED
    BY <2>1 DEF Grants!Next
<1>7. CASE StageOf(c) = "checked" /\ StageOf(c)' = "spent"
  <2>1. Grants!Spend(c)
    BY <1>2, <1>3, <1>7 DEF Grants!Spend, Grants!Move, Stage
  <2> QED
    BY <2>1 DEF Grants!Next
<1>8. CASE StageOf(c) \in {"none", "live", "checked"} /\ StageOf(c)' = "void"
  <2>1. Grants!Void(c)
    BY <1>2, <1>3, <1>8 DEF Grants!Void, Grants!Move, Stage
  <2> QED
    BY <2>1 DEF Grants!Next
<1> QED
  BY <1>4, <1>5, <1>6, <1>7, <1>8

LEMMA StageTableNext ==
    EntryInv' => \A r \in Ids :
        StageOf(r)' = IF r > round' THEN "none"
                      ELSE IF r = round' THEN StageNow'
                      ELSE IF SentOn(r)' # {} THEN "spent" ELSE "void"
<1>1. (EntryInv => \A r \in Ids :
        StageOf(r) = IF r > round THEN "none"
                     ELSE IF r = round THEN StageNow
                     ELSE IF SentOn(r) # {} THEN "spent" ELSE "void")'
  BY StageTable, PTL
<1> QED
  BY <1>1

(* Within a cycle the stages of the other receipts depend on their orders.   *)
LEMMA OthersStay ==
    ASSUME EntryInv, EntryInv', round' = round,
           \A r \in Ids : r # round => SentOn(r)' = SentOn(r)
    PROVE  /\ \A r \in Ids : r # round => StageOf(r)' = StageOf(r)
           /\ round \in Ids => StageOf(round) = StageNow /\ StageOf(round)' = StageNow'
<1>1. round \in Nat /\ Ids \subseteq Nat
  BY Constant DEF EntryInv, Ids
<1>2. \A r \in Ids : r # round => StageOf(r)' = StageOf(r)
  BY <1>1, StageTable, StageTableNext
<1>3. round \in Ids => StageOf(round) = StageNow /\ StageOf(round)' = StageNow'
  BY <1>1, StageTable, StageTableNext
<1> QED
  BY <1>2, <1>3

(* Within a cycle that sends nothing, its own stage tells.                   *)
LEMMA QuietRefines ==
    ASSUME EntryInv, EntryInv', round' = round, orders' = orders, round \in Ids,
           \/ StageNow' = StageNow
           \/ StageNow = "none" /\ StageNow' = "live"
           \/ StageNow = "live" /\ StageNow' = "checked"
           \/ StageNow \in {"none", "live", "checked"} /\ StageNow' = "void"
    PROVE  [Grants!Next]_Stage
<1>1. \A r \in Ids : SentOn(r)' = SentOn(r)
  BY DEF SentOn
<1> QED
  BY <1>1, OthersStay, OneStageMoves

LEMMA NothingSentYet ==
    ASSUME EntryInv, step # "idle"
    PROVE  SentOn(round) = {} /\ round \in Ids
  BY DEF SentOn, EntryInv, OrdersOk

LEMMA ReturnRefines ==
    ASSUME EntryInv, EntryInv', step # "idle", NEW n, Returns(n),
           UNCHANGED <<clock, round, orders>>
    PROVE  [Grants!Next]_Stage
<1>1. SentOn(round)' = {} /\ step' = "idle" /\ round \in Ids
  BY NothingSentYet DEF Returns, SentOn
<1>2. StageNow' = "void"
  BY <1>1 DEF StageNow
<1>3. StageNow \in {"none", "live", "checked", "void"}
  BY DEF StageNow
<1> QED
  BY <1>1, <1>2, <1>3, QuietRefines

LEMMA OnwardRefines ==
    ASSUME EntryInv, EntryInv', step # "idle", step' # "idle",
           step' \notin Granted /\ step \notin Granted, UNCHANGED <<round, orders>>
    PROVE  [Grants!Next]_Stage
<1>1. StageNow = "none" /\ StageNow' = "none"
  BY DEF StageNow, Granted
<1> QED
  BY <1>1, NothingSentYet, QuietRefines

LEMMA BeginRefines ==
    ASSUME EntryInv, EntryInv', Begin
    PROVE  [Grants!Next]_Stage
<1>1. /\ step = "idle" /\ step' = "market" /\ round' = round + 1 /\ orders' = orders
      /\ round \in Nat /\ Ids \subseteq Nat
  BY Constant DEF Begin, EntryInv, Ids
<1>2. \A r \in Ids : SentOn(r)' = SentOn(r)
  BY <1>1 DEF SentOn
<1>3. StageNow' = "none"
  BY <1>1 DEF StageNow, Granted
<1>4. \A r \in Ids : r = round => StageNow = IF SentOn(r) # {} THEN "spent" ELSE "void"
  BY <1>1 DEF StageNow
<1>5. \A r \in Ids : StageOf(r)' = StageOf(r)
  <2> SUFFICES ASSUME NEW r \in Ids PROVE StageOf(r)' = StageOf(r)
    OBVIOUS
  <2>1. StageOf(r) = IF r > round THEN "none" ELSE IF SentOn(r) # {} THEN "spent" ELSE "void"
    BY <1>4, StageTable
  <2>2. StageOf(r)' = IF r > round + 1 THEN "none" ELSE IF r = round + 1 THEN "none"
                      ELSE IF SentOn(r) # {} THEN "spent" ELSE "void"
    BY <1>1, <1>2, <1>3, StageTableNext
  <2> QED
    BY <1>1, <2>1, <2>2
<1> QED
  BY <1>5 DEF Stage

LEMMA TickRefines ==
    ASSUME EntryInv, EntryInv', EntryTick
    PROVE  [Grants!Next]_Stage
<1>1. /\ clock' = clock + 1 /\ clock \in Nat
      /\ UNCHANGED <<step, round, quotes, proposal, funds, receipt, orders>>
  BY DEF EntryTick, EntryInv
<1>2. \A r \in Ids : SentOn(r)' = SentOn(r)
  BY <1>1 DEF SentOn
<1>3. CASE round \in Ids
  <2>1. SentOn(round)' = SentOn(round)
    BY <1>2, <1>3, <1>1
  <2>2. CASE step # "verify"
    <3>1. StageNow' = StageNow
      BY <1>1, <2>1, <2>2 DEF StageNow
    <3> QED
      BY <1>1, <1>3, <3>1, QuietRefines
  <2>3. CASE step = "verify"
    <3>1. receipt.expires \in Int
      BY <2>3 DEF EntryInv, ReceiptOk, Granted
    <3>2. StageNow' = StageNow \/ (StageNow = "live" /\ StageNow' = "void")
      BY <1>1, <2>3, <3>1 DEF StageNow
    <3> QED
      BY <1>1, <1>3, <3>2, QuietRefines
  <2> QED
    BY <2>2, <2>3
<1>4. CASE round \notin Ids
  <2>1. \A r \in Ids : StageOf(r)' = StageOf(r)
    BY <1>1, <1>2, <1>4, OthersStay
  <2> QED
    BY <2>1 DEF Stage
<1> QED
  BY <1>3, <1>4

LEMMA SentRefines ==
    ASSUME EntryInv, EntryInv', step = "submit", orders' = orders \cup {OrderSent},
           NEW n, Returns(n), UNCHANGED <<clock, round>>
    PROVE  [Grants!Next]_Stage
<1>1. OrderSent.on.id = round /\ step' = "idle" /\ round \in Ids
  BY NothingSentYet DEF OrderSent, EntryInv, ReceiptOk, Granted, Returns
<1>2. \A r \in Ids : r # round => SentOn(r)' = SentOn(r)
  BY <1>1 DEF SentOn
<1>3. OrderSent \in SentOn(round)'
  BY <1>1 DEF SentOn
<1>4. StageNow = "checked" /\ StageNow' = "spent"
  BY <1>1, <1>3 DEF StageNow, Granted
<1> QED
  BY <1>1, <1>2, <1>4, OthersStay, OneStageMoves

LEMMA StepRefines == EntryInv /\ EntryInv' /\ [EntryNext]_entryVars => [Grants!Next]_Stage
<1> SUFFICES ASSUME EntryInv, EntryInv', [EntryNext]_entryVars PROVE [Grants!Next]_Stage
  OBVIOUS
<1>1. CASE Preflight
  BY <1>1, ReturnRefines, OnwardRefines DEF Preflight, Granted
<1>2. CASE ReadQuotes
  BY <1>2, ReturnRefines, OnwardRefines DEF ReadQuotes, Raises, Granted
<1>3. CASE Ask
  BY <1>3, OnwardRefines DEF Ask, Granted
<1>4. CASE NoProposal
  BY <1>4, ReturnRefines DEF NoProposal
<1>5. CASE Recommend
  BY <1>5, OnwardRefines DEF Recommend, Propose, Granted
<1>6. CASE EntryPolicies
  BY <1>6, ReturnRefines, OnwardRefines DEF EntryPolicies, Raises, Granted
<1>7. CASE ReadAccount
  BY <1>7, ReturnRefines, OnwardRefines DEF ReadAccount, Raises, Granted
<1>8. CASE Decide
  <2>1. CASE Returns(1)
    BY <1>8, <2>1, ReturnRefines DEF Decide
  <2>2. CASE receipt' = Receipt(proposal) /\ step' = "verify"
    <3>1. step = "decide" /\ UNCHANGED <<clock, round, orders>>
      BY <1>8 DEF Decide
    <3>2. StageNow = "none"
      BY <3>1 DEF StageNow, Granted
    <3>3. clock < receipt'.expires
      BY <2>2, Constant DEF Receipt, EntryInv
    <3>4. StageNow' = "live"
      BY <2>2, <3>1, <3>3 DEF StageNow
    <3> QED
      BY <3>1, <3>2, <3>4, NothingSentYet, QuietRefines
  <2> QED
    BY <1>8, <2>1, <2>2 DEF Decide
<1>9. CASE Verify
  <2>1. step = "verify" /\ UNCHANGED <<clock, round, orders>>
    BY <1>9 DEF Verify
  <2>2. CASE Valid(receipt, proposal, clock)
    <3>1. step' = "first leg"
      BY <1>9, <2>2 DEF Verify
    <3>2. StageNow = "live" /\ StageNow' = "checked"
      BY <2>1, <2>2, <3>1 DEF StageNow, Valid, Granted
    <3> QED
      BY <2>1, <3>2, NothingSentYet, QuietRefines
  <2>3. CASE ~ Valid(receipt, proposal, clock)
    BY <1>9, <2>1, <2>3, ReturnRefines DEF Verify
  <2> QED
    BY <2>2, <2>3
<1>10. CASE Resolve
  <2>1. step \in {"first leg", "second leg"} /\ UNCHANGED <<clock, round, orders>>
    BY <1>10 DEF Resolve
  <2>2. CASE Raises
    BY <2>1, <2>2, ReturnRefines DEF Raises
  <2>3. CASE step' = IF step = "first leg" THEN "second leg" ELSE "submit"
    <3>1. StageNow = "checked" /\ StageNow' = "checked"
      BY <2>1, <2>3 DEF StageNow, Granted
    <3> QED
      BY <2>1, <3>1, NothingSentYet, QuietRefines
  <2> QED
    BY <1>10, <2>2, <2>3 DEF Resolve
<1>11. CASE SubmitEntry
  BY <1>11, ReturnRefines, SentRefines DEF SubmitEntry, Raises
<1>12. CASE UNCHANGED entryVars
  BY <1>12 DEF entryVars, Stage, StageOf, SentOn
<1> QED
  BY <1>1, <1>2, <1>3, <1>4, <1>5, <1>6, <1>7, <1>8, <1>9, <1>10, <1>11, <1>12,
     TickRefines, BeginRefines DEF EntryNext, Steps

(* The cycles implement the ledger of receipts: none is spent twice, after   *)
(* it lapsed, or unchecked.                                                  *)
THEOREM ReceiptsImplemented == EntrySpec => ImplementsAuthority
<1>1. EntryInit => Stage = [r \in Ids |-> "none"]
  BY Constant DEF EntryInit, Stage, StageOf, SentOn, Nil, Ids
<1>2. EntryInit => Grants!Init
  BY <1>1 DEF Grants!Init, Stage
<1>3. EntryInv /\ EntryInv' /\ [EntryNext]_entryVars => [Grants!Next]_[r \in Ids |-> StageOf(r)]
  BY StepRefines DEF Stage
<1> QED
  BY <1>2, <1>3, InitEntry, NextEntry, PTL DEF EntrySpec, ImplementsAuthority, Grants!Spec

-----------------------------------------------------------------------------
(* The types, and the count of inference requests.                          *)

Funded == {"decide", "verify", "first leg", "second leg", "submit"}
OrderRecord == [on : ReceiptRecord, of : TradeProposal, power : Powers, at : Nat]

(* What a cycle holds at each step of it, and nothing outside.              *)
HeldTypes ==
    /\ IF step \in Proposed THEN proposal \in TradeProposal ELSE proposal = Nil
    /\ IF step \in Funded THEN funds \in Accounts ELSE funds = Nil
    /\ IF step \in Granted THEN receipt \in ReceiptRecord ELSE receipt = Nil

(* From the request to the model to the end of its cycle, the session has   *)
(* one request still to count.                                              *)
OneToCount ==
    /\ asked \in Nat /\ counted \in Nat
    /\ counted <= asked
    /\ step \in {"answer"} \cup Proposed => counted < asked

EntryTypes ==
    /\ clock \in Nat /\ step \in Phases /\ round \in 0..MaxCycles
    /\ step # "idle" => round \in Ids
    /\ quotes \in CandidateTables
    /\ HeldTypes
    /\ orders \subseteq OrderRecord
    /\ OneToCount

LEMMA NoQuotes == <<>> \in CandidateTables
<1>1. <<>> \in [{} -> {raw \in RawQuotes : Usable(raw)}]
  OBVIOUS
<1> QED
  BY <1>1 DEF CandidateTables

LEMMA InitEntryTypes == EntryInit => EntryTypes
  BY NoQuotes, Constant
     DEF EntryInit, EntryTypes, HeldTypes, OneToCount, Phases, Proposed, Funded, Granted, Nil

(* A cycle that ends reports no request, or one that was made.              *)
LEMMA ReturnTypes ==
    ASSUME EntryTypes, NEW n \in {0, 1}, Returns(n),
           n = 1 => step \in {"answer"} \cup Proposed,
           UNCHANGED <<clock, round, asked>>, orders' \subseteq OrderRecord
    PROVE  EntryTypes'
<1>1. /\ step' = "idle" /\ quotes' = <<>> /\ proposal' = Nil /\ funds' = Nil /\ receipt' = Nil
      /\ counted' = counted + n
  BY DEF Returns, Dropped
<1>2. HeldTypes'
  BY <1>1 DEF HeldTypes, Proposed, Funded, Granted
<1>3. OneToCount'
  <2>1. asked' = asked /\ asked \in Nat /\ counted \in Nat /\ counted <= asked
    BY DEF EntryTypes, OneToCount
  <2>2. step' \notin {"answer"} \cup Proposed
    BY <1>1 DEF Proposed
  <2>3. CASE n = 0
    BY <1>1, <2>1, <2>2, <2>3 DEF OneToCount
  <2>4. CASE n = 1
    <3>1. counted < asked
      BY <2>4 DEF EntryTypes, OneToCount
    <3> QED
      BY <1>1, <2>1, <2>2, <2>4, <3>1 DEF OneToCount
  <2> QED
    BY <2>3, <2>4
<1> QED
  BY <1>1, <1>2, <1>3, NoQuotes DEF EntryTypes, Phases

(* A step that moves on inside the cycle and counts nothing.                *)
LEMMA OnwardTypes ==
    ASSUME EntryTypes, step # "idle", step' \in Phases, HeldTypes', quotes' \in CandidateTables,
           step' \in {"answer"} \cup Proposed => step \in {"answer"} \cup Proposed,
           UNCHANGED <<clock, round, orders, asked, counted>>
    PROVE  EntryTypes'
<1>1. OneToCount'
  BY DEF EntryTypes, OneToCount
<1> QED
  BY <1>1 DEF EntryTypes

(* The debit Lockean derives is what makes a proposal one.                  *)
LEMMA ProposeTypes ==
    ASSUME EntryTypes, NEW buy \in OptionContracts, NEW sell \in OptionContracts, Propose(buy, sell)
    PROVE  EntryTypes'
<1>1. /\ step = "answer" /\ step' = "policy" /\ quotes' = <<>>
      /\ proposal' = Proposal(round, buy, sell, Debit(quotes, buy, sell))
      /\ UNCHANGED <<clock, round, funds, receipt, orders, asked, counted>>
  BY DEF Propose
<1>2. Debit(quotes, buy, sell) \in Nat \ {0}
  <2>1. PICK S \in SUBSET OptionContracts : quotes \in [S -> {raw \in RawQuotes : Usable(raw)}]
    BY DEF EntryTypes, CandidateTables
  <2>2. buy \in S /\ sell \in S
    BY <2>1 DEF Propose, Priced, Quoted
  <2>3. quotes[buy] \in [bid : Int, ask : Int] /\ quotes[sell] \in [bid : Int, ask : Int]
    BY <2>1, <2>2, Constant
  <2> QED
    BY <2>3 DEF Propose, Priced, Debit
<1>3. proposal' \in TradeProposal
  BY <1>1, <1>2 DEF EntryTypes, TradeProposal, Proposal
<1>4. HeldTypes'
  BY <1>1, <1>3 DEF EntryTypes, HeldTypes, Proposed, Funded, Granted
<1> QED
  BY <1>1, <1>4, NoQuotes, OnwardTypes DEF Phases, Proposed

LEMMA NextEntryTypes == EntryTypes /\ [EntryNext]_entryVars => EntryTypes'
<1> SUFFICES ASSUME EntryTypes, [EntryNext]_entryVars PROVE EntryTypes'
  OBVIOUS
<1>a. /\ step \in Phases /\ quotes \in CandidateTables /\ HeldTypes /\ orders \subseteq OrderRecord
      /\ clock \in Nat /\ round \in 0..MaxCycles /\ (step # "idle" => round \in Ids)
  BY DEF EntryTypes
<1>1. CASE EntryTick
  BY <1>1 DEF EntryTick, EntryTypes, HeldTypes, OneToCount
<1>2. CASE Begin
  <2>1. /\ step = "idle" /\ round < MaxCycles /\ step' = "market" /\ round' = round + 1
        /\ UNCHANGED <<clock, quotes, proposal, funds, receipt, orders, asked, counted>>
    BY <1>2 DEF Begin
  <2>2. round' \in Ids /\ round' \in 0..MaxCycles
    BY <1>a, <2>1, Constant DEF Ids
  <2>3. HeldTypes'
    BY <1>a, <2>1 DEF HeldTypes, Proposed, Funded, Granted
  <2>4. OneToCount'
    BY <2>1 DEF EntryTypes, OneToCount, Proposed
  <2> QED
    BY <1>a, <2>1, <2>2, <2>3, <2>4 DEF EntryTypes, Phases
<1>3. CASE Preflight
  <2>1. CASE Returns(0)
    BY <1>3, <1>a, <2>1, ReturnTypes DEF Preflight
  <2>2. CASE step' = "quotes" /\ UNCHANGED <<quotes, proposal, funds, receipt, counted>>
    <3>1. HeldTypes'
      BY <1>3, <1>a, <2>2 DEF Preflight, HeldTypes, Proposed, Funded, Granted
    <3> QED
      BY <1>3, <1>a, <2>2, <3>1, OnwardTypes DEF Preflight, Phases, Proposed
  <2> QED
    BY <1>3, <2>1, <2>2 DEF Preflight
<1>4. CASE ReadQuotes
  <2>1. CASE Raises
    BY <1>4, <1>a, <2>1, ReturnTypes DEF ReadQuotes, Raises
  <2>2. CASE /\ quotes' \in CandidateTables /\ step' = "model"
             /\ UNCHANGED <<proposal, funds, receipt, counted>>
    <3>1. HeldTypes'
      BY <1>4, <1>a, <2>2 DEF ReadQuotes, HeldTypes, Proposed, Funded, Granted
    <3> QED
      BY <1>4, <2>2, <3>1, OnwardTypes DEF ReadQuotes, Phases, Proposed
  <2> QED
    BY <1>4, <2>1, <2>2 DEF ReadQuotes
<1>5. CASE Ask
  <2>1. /\ step = "model" /\ step' = "answer" /\ asked' = asked + 1
        /\ UNCHANGED <<clock, round, quotes, proposal, funds, receipt, orders, counted>>
    BY <1>5 DEF Ask
  <2>2. HeldTypes'
    BY <1>a, <2>1 DEF HeldTypes, Proposed, Funded, Granted
  <2>3. OneToCount'
    BY <2>1 DEF EntryTypes, OneToCount
  <2> QED
    BY <1>a, <2>1, <2>2, <2>3 DEF EntryTypes, Phases
<1>6. CASE NoProposal
  BY <1>6, <1>a, ReturnTypes DEF NoProposal
<1>7. CASE Recommend
  BY <1>7, ProposeTypes DEF Recommend
<1>8. CASE EntryPolicies
  <2>1. CASE Raises
    BY <1>8, <1>a, <2>1, ReturnTypes DEF EntryPolicies, Raises
  <2>2. CASE Returns(1)
    BY <1>8, <1>a, <2>2, ReturnTypes DEF EntryPolicies, Proposed
  <2>3. CASE step' = "account" /\ UNCHANGED <<quotes, proposal, funds, receipt, counted>>
    <3>1. HeldTypes'
      BY <1>8, <1>a, <2>3 DEF EntryPolicies, HeldTypes, Proposed, Funded, Granted
    <3> QED
      BY <1>8, <1>a, <2>3, <3>1, OnwardTypes DEF EntryPolicies, Phases, Proposed
  <2> QED
    BY <1>8, <2>1, <2>2, <2>3 DEF EntryPolicies
<1>9. CASE ReadAccount
  <2>1. CASE Raises
    BY <1>9, <1>a, <2>1, ReturnTypes DEF ReadAccount, Raises
  <2>2. CASE /\ funds' \in [id : {round}, ready : BOOLEAN, power : Powers]
             /\ step' = "decide" /\ UNCHANGED <<quotes, proposal, receipt, counted>>
    <3>1. step = "account" /\ funds' \in Accounts
      BY <1>9, <1>a, <2>2 DEF ReadAccount, Accounts
    <3>2. HeldTypes'
      BY <1>a, <2>2, <3>1 DEF HeldTypes, Proposed, Funded, Granted
    <3> QED
      BY <1>9, <1>a, <2>2, <3>1, <3>2, OnwardTypes DEF ReadAccount, Phases, Proposed
  <2> QED
    BY <1>9, <2>1, <2>2 DEF ReadAccount
<1>10. CASE Decide
  <2>1. CASE Returns(1)
    BY <1>10, <1>a, <2>1, ReturnTypes DEF Decide, Proposed
  <2>2. CASE /\ receipt' = Receipt(proposal) /\ step' = "verify"
             /\ UNCHANGED <<quotes, proposal, funds, counted>>
    <3>1. step = "decide" /\ proposal \in TradeProposal
      BY <1>10, <1>a DEF Decide, HeldTypes, Proposed
    <3>2. clock + Life \in Nat /\ proposal.id \in Ids
      BY <1>a, <3>1, Constant DEF TradeProposal
    <3>3. receipt' \in ReceiptRecord
      BY <1>a, <2>2, <3>1, <3>2 DEF Receipt, ReceiptRecord
    <3>4. HeldTypes'
      BY <1>a, <2>2, <3>1, <3>3 DEF HeldTypes, Proposed, Funded, Granted
    <3> QED
      BY <1>10, <1>a, <2>2, <3>1, <3>4, OnwardTypes DEF Decide, Phases, Proposed
  <2> QED
    BY <1>10, <2>1, <2>2 DEF Decide
<1>11. CASE Verify
  <2>1. CASE Returns(1)
    BY <1>11, <1>a, <2>1, ReturnTypes DEF Verify, Proposed
  <2>2. CASE step' = "first leg" /\ UNCHANGED <<quotes, proposal, funds, receipt, counted>>
    <3>1. HeldTypes'
      BY <1>11, <1>a, <2>2 DEF Verify, HeldTypes, Proposed, Funded, Granted
    <3> QED
      BY <1>11, <1>a, <2>2, <3>1, OnwardTypes DEF Verify, Phases, Proposed
  <2> QED
    BY <1>11, <2>1, <2>2 DEF Verify
<1>12. CASE Resolve
  <2>1. CASE Raises
    <3>1. Returns(0) /\ UNCHANGED <<clock, round, orders, asked>>
      BY <1>12, <2>1 DEF Resolve, Raises
    <3> QED
      BY <1>a, <3>1, ReturnTypes
  <2>2. CASE /\ step' \in {"second leg", "submit"}
             /\ UNCHANGED <<quotes, proposal, funds, receipt, counted>>
    <3>1. HeldTypes'
      BY <1>12, <1>a, <2>2 DEF Resolve, HeldTypes, Proposed, Funded, Granted
    <3> QED
      BY <1>12, <1>a, <2>2, <3>1, OnwardTypes DEF Resolve, Phases, Proposed
  <2> QED
    BY <1>12, <2>1, <2>2 DEF Resolve
<1>13. CASE SubmitEntry
  <2>1. step = "submit" /\ UNCHANGED <<clock, round, asked>>
    BY <1>13 DEF SubmitEntry
  <2>2. OrderSent \in OrderRecord
    <3>1. proposal \in TradeProposal /\ receipt \in ReceiptRecord /\ funds.power \in Powers
      BY <1>a, <2>1 DEF HeldTypes, Proposed, Funded, Granted, Accounts
    <3> QED
      BY <1>a, <3>1 DEF OrderSent, OrderRecord
  <2>3. orders' \subseteq OrderRecord /\ (Returns(0) \/ Returns(1))
    BY <1>13, <1>a, <2>2 DEF SubmitEntry, Raises
  <2> QED
    BY <2>1, <2>3, ReturnTypes DEF Proposed
<1>14. CASE UNCHANGED entryVars
  BY <1>14 DEF entryVars, EntryTypes, HeldTypes, OneToCount
<1> QED
  BY <1>1, <1>2, <1>3, <1>4, <1>5, <1>6, <1>7, <1>8, <1>9, <1>10, <1>11, <1>12, <1>13, <1>14
     DEF EntryNext, Steps

LEMMA AlwaysTypes == EntrySpec => []EntryTypes
  BY InitEntryTypes, NextEntryTypes, PTL DEF EntrySpec

(* What an order is sent on is what its step of the cycle made: a quote is   *)
(* usable, a proposal is one unit of a positive debit, an order carries a    *)
(* receipt (build_trade_proposal_from_recommendation, derive_debit,          *)
(* LockeanAuthority.evaluate).                                              *)
THEOREM EntryTypesKept == EntrySpec => []EntryTypeOK
<1>1. EntryTypes => EntryTypeOK
  BY DEF EntryTypes, EntryTypeOK, HeldTypes, OneToCount, OrderRecord
<1> QED
  BY <1>1, AlwaysTypes, PTL

(* However its cycles end, by a result or by an exception, the session       *)
(* counts no more inference requests than it made (autonomous_trade_cycle,   *)
(* the requests an exception carries).                                      *)
THEOREM RequestsCounted == EntrySpec => []CountedWereAsked
<1>1. EntryTypes => CountedWereAsked
  BY DEF EntryTypes, OneToCount, CountedWereAsked
<1> QED
  BY <1>1, AlwaysTypes, PTL
=============================================================================
