---------------------------- MODULE ExitManager ----------------------------
(***************************************************************************)
(* The exit cycle of position_exit_manager.py with its prices: which spread *)
(* is closed, at what limit, and what becomes of a closing order that does  *)
(* not fill.  PaperSession has the cycle's place in the session; here the   *)
(* session is a loop that runs the cycle, and one action is one call the    *)
(* cycle makes, so quotes move and orders fill between any two of them.     *)
(* The torn snapshot is PaperSession's subject: here it is one read.        *)
(***************************************************************************)
EXTENDS ExitPricing, Sequences, SequencesExt, FiniteSets

CONSTANTS
  Spreads,     \* exact verticals
  Credits,     \* executable close credits, 0 for a quote the cycle refuses
  Debits,      \* debits one contract may be bought for
  Timeout,     \* exit_order_timeout_seconds, in loop intervals
  MaxLots,     \* contracts ever bought (bounds a run)
  MaxFaults    \* calls that raise (bounds a run)

ASSUME ExitAssumption ==
  /\ Credits \subseteq Nat
  /\ Debits \subseteq Nat \ {0}
  /\ Timeout \in Nat \ {0}
  /\ MaxLots \in Nat
  /\ MaxFaults \in Nat

VARIABLES
  lots,      \* spread -> debits of its open contracts, oldest first
  order,     \* spread -> its working closing order
  quote,     \* spread -> credit a close would get now
  foreign,   \* an open order of unknown purpose exists
  pc,        \* the call the cycle makes next
  view,      \* lots and orders as this cycle read them
  todo,      \* spreads this cycle has still to look at
  found,     \* candidates: spread -> credit it was quoted
  job,       \* the order about to be sent or replaced
  bought,    \* contracts bought so far
  faults     \* calls that raised so far

account == <<lots, order, quote, foreign, bought>>
cycle == <<pc, view, todo, found, job>>
vars == <<account, cycle, faults>>

NoBasis == [cost |-> 0, n |-> 0]
NoOrder == [on |-> FALSE, kind |-> "none", limit |-> 0, qty |-> 0,
            filled |-> 0, age |-> 0, basis |-> NoBasis, seen |-> 0]
NoJob == [s |-> "none", kind |-> "none", limit |-> 0, seen |-> 0]

Kinds == {"stop", "profit"}
Cents == Nat

(* kind, basis and seen record why an order has its limit; the cycle itself *)
(* reads back the limit, the age and the legs only.                         *)
Orders == [on : {TRUE}, kind : Kinds, limit : Cents, qty : Nat \ {0},
           filled : Nat, age : 0..Timeout, basis : Bases, seen : Cents]

-----------------------------------------------------------------------------
(* What the cycle makes of one reading.                                     *)

CostOf(l) == FoldSeq(LAMBDA d, sum : d + sum, 0, l)
BasisOf(l) == [cost |-> CostOf(l), n |-> Len(l)]

(* Slip: a spread without a recovered basis is managed all the same.        *)
ReconciledBlind(v, s) == v.order[s].filled = 0

(* Positions equal the history: nothing of s is filled in an open exit, and *)
(* the recovered debit is positive.                                         *)
Reconciled(v, s) == BasisOf(v.lots[s]) \in Bases /\ v.order[s].filled = 0

Managed(v) == {s \in Spreads : Reconciled(v, s)}
Pending(v) == {s \in Spreads : v.order[s].on}

Stale(v) == {s \in Pending(v) : v.order[s].age >= Timeout}

Floor(v, s) == TargetCredit(BasisOf(v.lots[s]))

Now == [lots |-> lots, order |-> order]
NoView == [lots |-> [s \in Spreads |-> <<>>],
           order |-> [s \in Spreads |-> NoOrder]]

-----------------------------------------------------------------------------
(* The broker.                                                              *)

(* A closed order's fills leave the open lots, oldest first.                *)
CloseOrder(s, filled) ==
  /\ lots' = [lots EXCEPT ![s] = SubSeq(@, filled + 1, Len(@))]
  /\ order' = [order EXCEPT ![s] = NoOrder]

FillExit(s) ==
  /\ order[s].on
  /\ IF order[s].filled + 1 = order[s].qty
     THEN CloseOrder(s, order[s].qty)
     ELSE /\ order' = [order EXCEPT ![s].filled = @ + 1]
          /\ UNCHANGED lots
  /\ UNCHANGED <<quote, foreign, bought, cycle, faults>>

(* The day order expires, or someone else cancels it.                       *)
DropExit(s) ==
  /\ order[s].on
  /\ CloseOrder(s, order[s].filled)
  /\ UNCHANGED <<quote, foreign, bought, cycle, faults>>

(* An entry of one contract fills.                                          *)
Buy(s, d) ==
  /\ bought < MaxLots
  /\ bought' = bought + 1
  /\ lots' = [lots EXCEPT ![s] = Append(@, d)]
  /\ UNCHANGED <<order, quote, foreign, cycle, faults>>

Market(s, c) ==
  /\ quote[s] # c
  /\ quote' = [quote EXCEPT ![s] = c]
  /\ UNCHANGED <<lots, order, foreign, bought, cycle, faults>>

Foreign ==
  /\ foreign' = ~foreign
  /\ UNCHANGED <<lots, order, quote, bought, cycle, faults>>

-----------------------------------------------------------------------------
(* The cycle.                                                               *)

Done ==
  /\ pc' = "idle"
  /\ view' = NoView
  /\ todo' = {}
  /\ found' = [s \in Spreads |-> 0]
  /\ job' = NoJob

Continue(where, rest) ==
  /\ pc' = where
  /\ todo' = rest
  /\ UNCHANGED <<view, found, job>>

(* The loop has slept one interval: working orders are that much older.     *)
Aged ==
  [s \in Spreads |->
    IF order[s].on THEN [order[s] EXCEPT !.age = Smaller(order[s].age + 1, Timeout)]
                   ELSE order[s]]

(* Where the cycle goes after its reading, and the spreads it goes through. *)
Plan(v) ==
  IF foreign THEN <<"idle", {}>>
  ELSE IF Stale(v) # {}
       THEN <<IF Managed(v) = {} THEN "cancelAll" ELSE "maintain", Stale(v)>>
  ELSE IF Managed(v) \ Pending(v) # {}
       THEN <<"quotes", Managed(v) \ Pending(v)>>
  ELSE <<"idle", {}>>

Snapshot ==
  /\ pc = "idle"
  /\ order' = Aged
  /\ LET v == [lots |-> lots, order |-> Aged]
     IN /\ pc' = Plan(v)[1]
        /\ todo' = Plan(v)[2]
        /\ view' = IF Plan(v)[1] = "idle" THEN NoView ELSE v
  /\ UNCHANGED <<lots, quote, foreign, bought, found, job, faults>>

(* Slip: any price may be a take-profit.                                    *)
NotBelowFloor(s) == FALSE

(* Only a price at or above the floor can be a take-profit's.               *)
BelowFloor(s) == view.order[s].limit < Floor(view, s)

Cancel(s) ==
  IF order[s].on THEN CloseOrder(s, order[s].filled) ELSE UNCHANGED <<lots, order>>

(* No spread is left to manage: every stale exit goes, until a call raises. *)
CancelAll(s) ==
  /\ pc = "cancelAll"
  /\ s \in todo
  /\ Cancel(s)
  /\ IF order[s].on /\ todo # {s} THEN Continue("cancelAll", todo \ {s}) ELSE Done
  /\ UNCHANGED <<quote, foreign, bought, faults>>

(* One stale exit after the other, until one needs a call that ends it.     *)
NextStale(s) == IF todo = {s} THEN Done ELSE Continue("maintain", todo \ {s})

MaintainCancel(s) ==
  /\ pc = "maintain"
  /\ s \in todo
  /\ s \notin Managed(view) \/ BelowFloor(s)
  /\ Cancel(s)
  /\ Done
  /\ UNCHANGED <<quote, foreign, bought, faults>>

MaintainAtFloor(s) ==
  /\ pc = "maintain"
  /\ s \in todo \cap Managed(view)
  /\ view.order[s].limit = Floor(view, s)
  /\ NextStale(s)
  /\ UNCHANGED <<account, faults>>

Replacement(s) ==
  LET b == BasisOf(view.lots[s])
  IN IF ReachesTarget(b, quote[s]) THEN LimitCredit(b, quote[s])
                                   ELSE view.order[s].limit

MaintainQuote(s) ==
  /\ pc = "maintain"
  /\ s \in todo \cap Managed(view)
  /\ ~BelowFloor(s)
  /\ view.order[s].limit # Floor(view, s)
  /\ IF quote[s] = 0 THEN Done                   \* blocking: quote unavailable
     ELSE IF Replacement(s) >= view.order[s].limit THEN NextStale(s)
     ELSE /\ pc' = "replace"
          /\ job' = [s |-> s, kind |-> "profit", limit |-> Replacement(s),
                     seen |-> quote[s]]
          /\ UNCHANGED <<view, todo, found>>
  /\ UNCHANGED <<account, faults>>

Replace ==
  /\ pc = "replace"
  /\ order' =
       IF order[job.s].on
       THEN [order EXCEPT ![job.s] =
               [order[job.s] EXCEPT !.kind = "profit", !.limit = job.limit,
                  !.age = 0, !.basis = BasisOf(view.lots[job.s]),
                  !.seen = job.seen]]
       ELSE order
  /\ Done
  /\ UNCHANGED <<lots, quote, foreign, bought, faults>>

(* Candidates by the side of the entry debit their credit fell on; the stop *)
(* side is tried first, also where both hold.                               *)
Stops(f) ==
  {s \in Spreads : f[s] # 0 /\ ReachesStop(BasisOf(view.lots[s]), f[s])}
Profits(f) ==
  {s \in Spreads : f[s] # 0 /\ ReachesTarget(BasisOf(view.lots[s]), f[s])}

(* The return of s is no greater than that of u.                            *)
NoBetter(f, s, u) ==
  LET b == BasisOf(view.lots[s])
      d == BasisOf(view.lots[u])
  IN f[s] * b.n * d.cost <= f[u] * d.n * b.cost

Choose(s, kind, c, limit) ==
  /\ pc' = "submit"
  /\ job' = [s |-> s, kind |-> kind, limit |-> limit, seen |-> c]
  /\ UNCHANGED <<view, todo, found>>

Select(f) ==
  \/ \E s \in Stops(f) :
       /\ \A u \in Stops(f) : NoBetter(f, s, u)
       /\ Choose(s, "stop", f[s], f[s])
  \/ /\ Stops(f) = {}
     /\ \E s \in Profits(f) :
          /\ \A u \in Profits(f) : NoBetter(f, u, s)
          /\ Choose(s, "profit", f[s], LimitCredit(BasisOf(view.lots[s]), f[s]))
  \/ Stops(f) = {} /\ Profits(f) = {} /\ Done

(* Slip: a quote that cannot be had ends the cycle.                         *)
QuoteNextStops(s) ==
  /\ pc = "quotes"
  /\ s \in todo
  /\ LET f == [found EXCEPT ![s] = quote[s]]
     IN IF quote[s] = 0 THEN Done
        ELSE IF todo = {s} THEN Select(f)
        ELSE /\ found' = f
             /\ todo' = todo \ {s}
             /\ UNCHANGED <<pc, view, job>>
  /\ UNCHANGED <<account, faults>>

QuoteNext(s) ==
  /\ pc = "quotes"
  /\ s \in todo
  /\ LET f == [found EXCEPT ![s] = quote[s]]
     IN IF todo = {s} THEN Select(f)
        ELSE /\ found' = f
             /\ todo' = todo \ {s}
             /\ UNCHANGED <<pc, view, job>>
  /\ UNCHANGED <<account, faults>>

Submit ==
  /\ pc = "submit"
  /\ order' = [order EXCEPT ![job.s] =
       [on |-> TRUE, kind |-> job.kind, limit |-> job.limit,
        qty |-> Len(view.lots[job.s]), filled |-> 0, age |-> 0,
        basis |-> BasisOf(view.lots[job.s]), seen |-> job.seen]]
  /\ Done
  /\ UNCHANGED <<lots, quote, foreign, bought, faults>>

(* A call raises: the cycle ends and the session tries again an interval on. *)
Raise ==
  /\ pc # "idle"
  /\ faults < MaxFaults
  /\ faults' = faults + 1
  /\ Done
  /\ UNCHANGED account

-----------------------------------------------------------------------------

Init ==
  /\ lots = [s \in Spreads |-> <<>>]
  /\ order = [s \in Spreads |-> NoOrder]
  /\ quote \in [Spreads -> Credits]
  /\ foreign = FALSE
  /\ bought = 0
  /\ pc = "idle"
  /\ view = NoView
  /\ todo = {}
  /\ found = [s \in Spreads |-> 0]
  /\ job = NoJob
  /\ faults = 0

CycleStep ==
  \/ Snapshot \/ Replace \/ Submit
  \/ \E s \in Spreads :
       CancelAll(s) \/ MaintainCancel(s) \/ MaintainAtFloor(s)
       \/ MaintainQuote(s) \/ QuoteNext(s)

BrokerStep ==
  \/ \E s \in Spreads : FillExit(s) \/ DropExit(s)
  \/ \E s \in Spreads, d \in Debits : Buy(s, d)
  \/ \E s \in Spreads, c \in Credits : Market(s, c)
  \/ Foreign

Next == CycleStep \/ Raise \/ BrokerStep

(* Every call of the cycle returns or raises, and the loop has no exit in a  *)
(* session; nothing else is owed.                                          *)
Spec == Init /\ [][Next]_vars /\ WF_vars(CycleStep)

-----------------------------------------------------------------------------
(* Properties.                                                              *)

TypeOK ==
  /\ lots \in [Spreads -> Seq(Debits)]
  /\ order \in [Spreads -> Orders \cup {NoOrder}]
  /\ quote \in [Spreads -> Credits]
  /\ foreign \in BOOLEAN
  /\ bought \in 0..MaxLots
  /\ pc \in {"idle", "cancelAll", "maintain", "replace", "quotes", "submit"}
  /\ view \in [lots : [Spreads -> Seq(Debits)],
              order : [Spreads -> Orders \cup {NoOrder}]]
  /\ todo \in SUBSET Spreads
  /\ found \in [Spreads -> Credits \cup {0}]
  /\ job \in [s : Spreads \cup {"none"}, kind : Kinds \cup {"none"},
              limit : Cents, seen : Cents]
  /\ faults \in 0..MaxFaults

(* The maintenance tells a take-profit order from a stop-loss order by its  *)
(* price alone (position_exit_manager.py, _maintain_stale_exit_order).  The *)
(* price does tell: measured with the lots an order was last priced from,   *)
(* take-profits are the orders at or above the floor, however often the     *)
(* concession has walked them down.                                        *)
PriceTellsTrigger ==
  \A s \in Spreads : order[s].on =>
    (order[s].kind = "profit" <=> order[s].limit >= TargetCredit(order[s].basis))

(* An exit never asks for more than the credit seen when it was priced, so  *)
(* a sent order could have filled, and a take-profit is sent for no less    *)
(* than the promised return.                                               *)
LimitWithinSeen ==
  \A s \in Spreads : order[s].on =>
    /\ order[s].limit <= order[s].seen
    /\ order[s].kind = "profit" => ReachesTarget(order[s].basis, order[s].limit)

AtLoss(s) ==
  /\ Reconciled(Now, s)
  /\ quote[s] # 0
  /\ ReachesStop(BasisOf(lots[s]), quote[s])

(* A closing order at or above the floor of its spread: what maintenance     *)
(* takes for a take-profit and keeps working.                               *)
RestsAsProfit(s) ==
  order[s].on /\ order[s].limit >= TargetCredit(BasisOf(lots[s]))

(* Nobody cancels closing orders for ever (a day order expires once a day).  *)
SeldomDropped == <>[][\A s \in Spreads : ~DropExit(s)]_vars

(* A spread stays below its stop-loss without a stop-loss order only while a *)
(* take-profit rests, its own or another's, which stale ends every cycle     *)
(* before that spread is priced: never behind stop-loss orders, part-filled  *)
(* ones included, or quotes of other spreads that cannot be had.            *)
UnattendedLossExits ==
  SeldomDropped =>
    \A s \in Spreads :
      []<>(\/ ~AtLoss(s) \/ foreign
           \/ order[s].on /\ order[s].kind = "stop"
           \/ \E u \in Spreads : RestsAsProfit(u))

StaleStop(s) ==
  /\ order[s].on
  /\ order[s].kind = "stop"
  /\ order[s].age = Timeout
  /\ order[s].filled = 0
  /\ order[s].basis = BasisOf(lots[s])

(* A stop-loss order left behind by the market is not left to rest while   *)
(* the quotes of the other spreads can be had: it is cancelled, so that the *)
(* next cycle prices the spread anew ("the established conservative         *)
(* cancel-and-reconcile path").                                            *)
StaleStopResolves ==
  \A s \in Spreads :
    []<>(~StaleStop(s) \/ foreign \/ \E u \in Spreads \ {s} : quote[u] = 0)

(* The stop-loss threshold is what README.md says it is: a spread that      *)
(* stays below it gets a stop-loss order.                                  *)
StopLossReached ==
  \A s \in Spreads :
    []<>(~AtLoss(s) \/ foreign \/ (order[s].on /\ order[s].kind = "stop"))
=============================================================================
