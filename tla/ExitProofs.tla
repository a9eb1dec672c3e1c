---------------------------- MODULE ExitProofs ----------------------------
(***************************************************************************)
(* Proofs about ExitPricing and ExitManager for any spreads, quotes, debits *)
(* and percentages.                                                         *)
(***************************************************************************)
EXTENDS ExitManager, SequenceTheorems, TLAPS

-----------------------------------------------------------------------------
(* Prices.                                                                  *)

LEMMA Percentages ==
    /\ TakeProfit \in Nat /\ StopLoss \in Nat /\ Concession \in Nat
    /\ TakeProfit + StopLoss > 0
  BY PricingAssumption

LEMMA Quotient ==
    ASSUME NEW x \in Int, NEW d \in Nat, d > 0
    PROVE  /\ x \div d \in Int
           /\ d * (x \div d) <= x
           /\ x < d * (x \div d) + d
  OBVIOUS

LEMMA Ceiling ==
    ASSUME NEW a \in Int, NEW d \in Nat, d > 0
    PROVE  /\ CeilDiv(a, d) \in Int
           /\ a <= d * CeilDiv(a, d)
           /\ d * CeilDiv(a, d) < a + d
<1>1. a + d - 1 \in Int
  OBVIOUS
<1>2. /\ CeilDiv(a, d) \in Int
      /\ d * CeilDiv(a, d) <= a + d - 1
      /\ a + d - 1 < d * CeilDiv(a, d) + d
  BY <1>1, Quotient DEF CeilDiv
<1>3. d * CeilDiv(a, d) \in Int
  BY <1>2
<1> QED
  BY <1>2, <1>3

LEMMA Cancels ==
    ASSUME NEW x \in Int, NEW y \in Int, NEW d \in Nat, d > 0, d * x < d * y + d
    PROVE  x <= y
<1>1. SUFFICES ASSUME x >= y + 1 PROVE FALSE
  OBVIOUS
<1>2. d * x >= d * (y + 1)
  BY <1>1
<1>3. d * (y + 1) = d * y + d
  OBVIOUS
<1> QED
  BY <1>2, <1>3

LEMMA Grows ==
    ASSUME NEW x \in Int, NEW y \in Int, NEW d \in Nat, x <= y
    PROVE  d * x <= d * y
  OBVIOUS

(* The target multiplied out.                                               *)
LEMMA TargetProduct ==
    ASSUME NEW b \in Bases, NEW c \in Int
    PROVE  ReachesTarget(b, c) <=> (100 * b.n) * c >= b.cost * (100 + TakeProfit)
<1>1. b.cost \in Nat /\ b.n \in Nat
  BY DEF Bases
<1> DEFINE x == c * b.n
           y == TakeProfit * b.cost
<1>2. x \in Int /\ y \in Int
  BY <1>1, Percentages
<1>3. (100 * b.n) * c = 100 * x
  BY <1>1
<1>4. b.cost * (100 + TakeProfit) = 100 * b.cost + y
  BY <1>1, Percentages
<1>5. ReachesTarget(b, c) <=> 100 * (x - b.cost) >= y
  BY DEF ReachesTarget
<1> HIDE DEF x, y
<1> QED
  BY <1>1, <1>2, <1>3, <1>4, <1>5

(* The target credit is the least credit that reaches the target.           *)
LEMMA TargetIsLeast ==
    ASSUME NEW b \in Bases, NEW c \in Int
    PROVE  /\ TargetCredit(b) \in Int
           /\ ReachesTarget(b, c) <=> c >= TargetCredit(b)
<1> DEFINE d == 100 * b.n
           a == b.cost * (100 + TakeProfit)
           t == CeilDiv(a, d)
<1>1. d \in Nat /\ d > 0 /\ a \in Int
  BY Percentages DEF Bases
<1>2. ReachesTarget(b, c) <=> d * c >= a
  BY TargetProduct
<1>3. TargetCredit(b) = t
  BY DEF TargetCredit
<1> HIDE DEF d, a
<1>4. t \in Int /\ a <= d * t /\ d * t < a + d
  BY <1>1, Ceiling
<1> HIDE DEF t
<1>5. d * c \in Int /\ d * t \in Int
  BY <1>1, <1>4
<1>6. ASSUME d * c >= a PROVE c >= t
  <2>1. d * t < d * c + d
    BY <1>1, <1>4, <1>5, <1>6
  <2> QED
    BY <1>1, <1>4, <2>1, Cancels
<1>7. ASSUME c >= t PROVE d * c >= a
  <2>1. d * t <= d * c
    BY <1>1, <1>4, <1>7, Grows
  <2> QED
    BY <1>1, <1>4, <1>5, <2>1
<1> QED
  BY <1>2, <1>3, <1>4, <1>6, <1>7

LEMMA TargetPositive ==
    ASSUME NEW b \in Bases
    PROVE  TargetCredit(b) >= 1
<1>1. b.cost \in Nat /\ b.cost > 0 /\ b.n \in Nat
  BY DEF Bases
<1>2. ~ ReachesTarget(b, 0)
  <2> DEFINE y == TakeProfit * b.cost
  <2>1. y \in Nat /\ 0 * b.n = 0
    BY <1>1, Percentages
  <2>2. ReachesTarget(b, 0) <=> 100 * (0 * b.n - b.cost) >= y
    BY DEF ReachesTarget
  <2> HIDE DEF y
  <2> QED
    BY <1>1, <2>1, <2>2
<1>3. TargetCredit(b) \in Int /\ ~ (0 >= TargetCredit(b))
  BY <1>2, TargetIsLeast
<1> QED
  BY <1>3

(* A credit at the stop-loss is below every take-profit.                    *)
LEMMA StopBelowTarget ==
    ASSUME NEW b \in Bases, NEW c \in Int, ReachesStop(b, c)
    PROVE  c < TargetCredit(b)
<1>1. b.cost \in Nat /\ b.cost > 0 /\ b.n \in Nat
  BY DEF Bases
<1> DEFINE x == 100 * (c * b.n - b.cost)
           y == TakeProfit * b.cost
           z == StopLoss * b.cost
<1>2. x \in Int /\ y \in Nat /\ z \in Nat
  BY <1>1, Percentages
<1>3. x <= -z
  BY DEF ReachesStop
<1>4. y + z > 0
  <2>1. y + z = b.cost * (TakeProfit + StopLoss)
    BY <1>1, Percentages
  <2>2. b.cost * (TakeProfit + StopLoss) > 0
    BY <1>1, Percentages
  <2> QED
    BY <2>1, <2>2
<1>5. ReachesTarget(b, c) <=> x >= y
  BY DEF ReachesTarget
<1> HIDE DEF x, y, z
<1>6. ~ ReachesTarget(b, c)
  BY <1>2, <1>3, <1>4, <1>5
<1> QED
  BY <1>6, TargetIsLeast

(* The limit of a take-profit keeps the promised return and is no more than  *)
(* the credit it was priced at.                                              *)
LEMMA LimitKeepsReturn ==
    ASSUME NEW b \in Bases, NEW c \in Int, ReachesTarget(b, c)
    PROVE  /\ LimitCredit(b, c) \in Nat
           /\ TargetCredit(b) <= LimitCredit(b, c)
           /\ LimitCredit(b, c) <= c
           /\ ReachesTarget(b, LimitCredit(b, c))
<1>1. TargetCredit(b) \in Int /\ TargetCredit(b) <= c /\ TargetCredit(b) >= 1
  BY TargetIsLeast, TargetPositive
<1>2. /\ LimitCredit(b, c) \in Int /\ LimitCredit(b, c) >= 1
      /\ TargetCredit(b) <= LimitCredit(b, c) /\ LimitCredit(b, c) <= c
  BY <1>1, Percentages DEF LimitCredit, Larger, Smaller
<1>3. ReachesTarget(b, LimitCredit(b, c))
  BY <1>2, TargetIsLeast
<1> QED
  BY <1>2, <1>3

-----------------------------------------------------------------------------
(* The cycle and its orders.                                                *)

(* Why an order has its limit.                                              *)
PricedOk(kind, limit, seen, basis) ==
    /\ kind \in Kinds /\ limit \in Nat /\ seen \in Nat /\ basis \in Bases
    /\ limit <= seen
    /\ kind = "profit" <=> limit >= TargetCredit(basis)
    /\ kind = "profit" => ReachesTarget(basis, limit)

OrderOk(o) == o.on => PricedOk(o.kind, o.limit, o.seen, o.basis)

(* What the cycle has in hand: spreads it manages, the credits it saw for    *)
(* them, and the order it is about to send or replace.                       *)
CycleOk ==
    /\ pc = "quotes" => todo \subseteq Managed(view)
    /\ \A s \in Spreads : found[s] # 0 => s \in Managed(view)
    /\ pc = "idle" => \A s \in Spreads : found[s] = 0
    /\ pc \in {"submit", "replace"} =>
          /\ job.s \in Spreads
          /\ PricedOk(job.kind, job.limit, job.seen, BasisOf(view.lots[job.s]))
    /\ pc = "replace" => job.kind = "profit"

Shapes ==
    /\ order \in [Spreads -> Orders \cup {NoOrder}]
    /\ quote \in [Spreads -> Nat]
    /\ found \in [Spreads -> Nat]
    /\ todo \subseteq Spreads
    /\ view.order \in [Spreads -> Orders \cup {NoOrder}]

ExitInv ==
    /\ Shapes
    /\ \A s \in Spreads : OrderOk(order[s])
    /\ CycleOk

LEMMA CreditsAreNat == Credits \subseteq Nat
  BY ExitAssumption

LEMMA NoOrderIsOff == OrderOk(NoOrder) /\ NoOrder \in Orders \cup {NoOrder} /\ ~ NoOrder.on
<1>1. ~ NoOrder.on
  BY Zenon DEF NoOrder
<1> QED
  BY <1>1 DEF OrderOk

LEMMA ManagedHasBasis ==
    ASSUME NEW v, NEW s \in Managed(v)
    PROVE  s \in Spreads /\ BasisOf(v.lots[s]) \in Bases
  BY DEF Managed, Reconciled

LEMMA InitExit == Init => ExitInv
<1> SUFFICES ASSUME Init PROVE ExitInv
  OBVIOUS
<1>1. Shapes
  BY CreditsAreNat DEF Init, Shapes, NoView
<1>2. \A s \in Spreads : order[s] = NoOrder
  BY DEF Init
<1> QED
  BY <1>1, <1>2, NoOrderIsOff DEF Init, ExitInv, CycleOk

(* The end of a cycle forgets what it had in hand.                           *)
LEMMA DoneKeeps ==
    ASSUME Done
    PROVE  /\ CycleOk' /\ found' \in [Spreads -> Nat] /\ todo' \subseteq Spreads
           /\ view'.order \in [Spreads -> Orders \cup {NoOrder}]
  BY DEF Done, CycleOk, NoView

(* The broker's steps: an order keeps its price, or is gone.                 *)
Repriced(o, n) ==
    \/ n = NoOrder
    \/ /\ o.on /\ n \in Orders
       /\ n.kind = o.kind /\ n.limit = o.limit /\ n.seen = o.seen /\ n.basis = o.basis
    \/ n = o

LEMMA BrokerKeeps ==
    ASSUME ExitInv, UNCHANGED cycle,
           order' \in [Spreads -> Orders \cup {NoOrder}],
           quote' \in [Spreads -> Nat],
           \A s \in Spreads : Repriced(order[s], order'[s])
    PROVE  ExitInv'
<1>1. Shapes'
  BY DEF Shapes, ExitInv, cycle
<1>2. CycleOk'
  BY DEF CycleOk, ExitInv, cycle
<1>3. \A s \in Spreads : OrderOk(order'[s])
  BY NoOrderIsOff DEF ExitInv, Repriced, OrderOk
<1> QED
  BY <1>1, <1>2, <1>3 DEF ExitInv

LEMMA OrderIsOrder ==
    ASSUME NEW o \in Orders \cup {NoOrder}, o.on
    PROVE  o \in Orders
  BY NoOrderIsOff

LEMMA ClosedKeeps ==
    ASSUME ExitInv, NEW s \in Spreads, order' = [order EXCEPT ![s] = NoOrder]
    PROVE  /\ order' \in [Spreads -> Orders \cup {NoOrder}]
           /\ \A u \in Spreads : Repriced(order[u], order'[u])
           /\ \A u \in Spreads : OrderOk(order'[u])
<1>1. order' \in [Spreads -> Orders \cup {NoOrder}]
  BY DEF ExitInv, Shapes
<1>2. \A u \in Spreads : order'[u] = IF u = s THEN NoOrder ELSE order[u]
  BY DEF ExitInv, Shapes
<1> QED
  BY <1>1, <1>2, NoOrderIsOff DEF Repriced, ExitInv

LEMMA OrderParts ==
    ASSUME NEW o \in Orders
    PROVE  o.filled \in Nat /\ o.age \in 0..Timeout /\ o.limit \in Nat /\ o.qty \in Nat
  BY DEF Orders, Cents

LEMMA FilledOrder ==
    ASSUME NEW o \in Orders, NEW n \in Nat
    PROVE  LET m == [o EXCEPT !.filled = n] IN
           /\ m \in Orders
           /\ m.kind = o.kind /\ m.limit = o.limit /\ m.seen = o.seen /\ m.basis = o.basis
  BY DEF Orders

LEMMA AgedOrder ==
    ASSUME NEW o \in Orders, NEW n \in 0..Timeout
    PROVE  LET m == [o EXCEPT !.age = n] IN
           /\ m \in Orders
           /\ m.kind = o.kind /\ m.limit = o.limit /\ m.seen = o.seen /\ m.basis = o.basis
  BY DEF Orders

Amended(o, limit, b, seen) ==
    [o EXCEPT !.kind = "profit", !.limit = limit, !.age = 0, !.basis = b, !.seen = seen]

LEMMA AmendedOrder ==
    ASSUME NEW o \in Orders, NEW limit \in Nat, NEW b \in Bases, NEW seen \in Nat
    PROVE  /\ Amended(o, limit, b, seen) \in Orders
           /\ Amended(o, limit, b, seen).kind = "profit"
           /\ Amended(o, limit, b, seen).limit = limit
           /\ Amended(o, limit, b, seen).seen = seen
           /\ Amended(o, limit, b, seen).basis = b
<1>1. 0 \in 0..Timeout /\ limit \in Cents /\ seen \in Cents /\ "profit" \in Kinds
  BY ExitAssumption DEF Cents, Kinds
<1> QED
  BY <1>1 DEF Orders, Amended

LEMMA NewOrder ==
    ASSUME NEW kind \in Kinds, NEW limit \in Nat, NEW b \in Bases, NEW seen \in Nat,
           NEW qty \in Nat \ {0}
    PROVE  [on |-> TRUE, kind |-> kind, limit |-> limit, qty |-> qty, filled |-> 0,
            age |-> 0, basis |-> b, seen |-> seen] \in Orders
<1>1. 0 \in 0..Timeout /\ limit \in Cents /\ seen \in Cents
  BY ExitAssumption DEF Cents
<1> QED
  BY <1>1 DEF Orders

LEMMA FillKeeps ==
    ASSUME ExitInv, NEW s \in Spreads, FillExit(s)
    PROVE  ExitInv'
<1>1. order[s].on /\ UNCHANGED <<quote, cycle>> /\ quote \in [Spreads -> Nat]
  BY DEF FillExit, ExitInv, Shapes
<1>2. CASE order' = [order EXCEPT ![s] = NoOrder]
  BY <1>1, <1>2, ClosedKeeps, BrokerKeeps
<1>3. CASE order' = [order EXCEPT ![s].filled = @ + 1]
  <2> DEFINE o == [order[s] EXCEPT !.filled = order[s].filled + 1]
  <2>1. order[s] \in Orders
    BY <1>1, OrderIsOrder DEF ExitInv, Shapes
  <2>2. /\ o \in Orders /\ o.kind = order[s].kind /\ o.limit = order[s].limit
        /\ o.seen = order[s].seen /\ o.basis = order[s].basis
    <3>1. order[s].filled + 1 \in Nat
      BY <2>1, OrderParts
    <3> QED
      BY <2>1, <3>1, FilledOrder
  <2>3. order' = [order EXCEPT ![s] = o]
    BY <1>3
  <2> HIDE DEF o
  <2>4. /\ order' \in [Spreads -> Orders \cup {NoOrder}]
        /\ \A u \in Spreads : order'[u] = IF u = s THEN o ELSE order[u]
    BY <2>2, <2>3 DEF ExitInv, Shapes
  <2>5. \A u \in Spreads : Repriced(order[u], order'[u])
    BY <1>1, <2>2, <2>4 DEF Repriced
  <2> QED
    BY <1>1, <2>4, <2>5, BrokerKeeps
<1> QED
  BY <1>2, <1>3 DEF FillExit, CloseOrder

LEMMA BrokerStepKeeps == ExitInv /\ BrokerStep => ExitInv'
<1> SUFFICES ASSUME ExitInv, BrokerStep PROVE ExitInv'
  OBVIOUS
<1>1. ASSUME NEW s \in Spreads, DropExit(s) PROVE ExitInv'
  <2>1. /\ order' = [order EXCEPT ![s] = NoOrder] /\ UNCHANGED <<quote, cycle>>
        /\ quote \in [Spreads -> Nat]
    BY <1>1 DEF DropExit, CloseOrder, ExitInv, Shapes
  <2> QED
    BY <2>1, ClosedKeeps, BrokerKeeps
<1>2. ASSUME NEW s \in Spreads, NEW d \in Debits, Buy(s, d) PROVE ExitInv'
  <2>1. UNCHANGED <<order, quote, cycle>>
    BY <1>2 DEF Buy
  <2> QED
    BY <2>1, BrokerKeeps DEF Repriced, ExitInv, Shapes
<1>3. ASSUME NEW s \in Spreads, NEW c \in Credits, Market(s, c) PROVE ExitInv'
  <2>1. UNCHANGED <<order, cycle>> /\ quote' = [quote EXCEPT ![s] = c]
    BY <1>3 DEF Market
  <2>2. quote' \in [Spreads -> Nat]
    BY <2>1, CreditsAreNat DEF ExitInv, Shapes
  <2> QED
    BY <2>1, <2>2, BrokerKeeps DEF Repriced, ExitInv, Shapes
<1>4. CASE Foreign
  <2>1. UNCHANGED <<order, quote, cycle>>
    BY <1>4 DEF Foreign
  <2> QED
    BY <2>1, BrokerKeeps DEF Repriced, ExitInv, Shapes
<1> QED
  BY <1>1, <1>2, <1>3, <1>4, FillKeeps DEF BrokerStep

-----------------------------------------------------------------------------
(* The cycle's steps.                                                       *)

(* A cycle that only reads, and ends.                                       *)
LEMMA EndKeeps ==
    ASSUME ExitInv, Done, UNCHANGED <<order, quote>>
    PROVE  ExitInv'
  BY DoneKeeps DEF ExitInv, Shapes

LEMMA SnapshotKeeps == ExitInv /\ Snapshot => ExitInv'
<1> SUFFICES ASSUME ExitInv, Snapshot PROVE ExitInv'
  OBVIOUS
<1>1. /\ pc = "idle" /\ order' = Aged /\ UNCHANGED <<quote, found, job>>
  BY DEF Snapshot
<1>2. \A s \in Spreads : order'[s] \in Orders \cup {NoOrder} /\ Repriced(order[s], order'[s])
  <2> SUFFICES ASSUME NEW s \in Spreads
               PROVE  order'[s] \in Orders \cup {NoOrder} /\ Repriced(order[s], order'[s])
    OBVIOUS
  <2>1. CASE order[s].on
    <3>1. order[s] \in Orders
      BY <2>1, OrderIsOrder DEF ExitInv, Shapes
    <3>2. Smaller(order[s].age + 1, Timeout) \in 0..Timeout
      <4>1. order[s].age \in 0..Timeout /\ Timeout \in Nat
        BY <3>1, OrderParts, ExitAssumption
      <4> QED
        BY <4>1 DEF Smaller
    <3>3. order'[s] = [order[s] EXCEPT !.age = Smaller(order[s].age + 1, Timeout)]
      BY <1>1, <2>1 DEF Aged
    <3> QED
      BY <2>1, <3>1, <3>2, <3>3, AgedOrder DEF Repriced
  <2>2. CASE ~ order[s].on
    <3>1. order'[s] = order[s]
      BY <1>1, <2>2 DEF Aged
    <3> QED
      BY <3>1 DEF Repriced, ExitInv, Shapes
  <2> QED
    BY <2>1, <2>2
<1>3. order' \in [Spreads -> Orders \cup {NoOrder}]
  <2>1. order' = [s \in Spreads |-> order'[s]]
    BY <1>1 DEF Aged
  <2> QED
    BY <1>2, <2>1
<1>4. \A s \in Spreads : OrderOk(order'[s])
  BY <1>2, NoOrderIsOff DEF ExitInv, Repriced, OrderOk
<1> DEFINE v == [lots |-> lots, order |-> Aged]
<1>5. pc' = Plan(v)[1] /\ todo' = Plan(v)[2] /\ (Plan(v)[1] # "idle" => view' = v)
  BY DEF Snapshot
<1>6. /\ todo' \subseteq Spreads
      /\ pc' \notin {"submit", "replace"}
      /\ pc' = "quotes" => todo' \subseteq Managed(view')
  <2>1. Stale(v) \subseteq Spreads /\ Managed(v) \subseteq Spreads
    BY DEF Stale, Pending, Managed
  <2>2. \/ Plan(v) = <<"idle", {}>>
        \/ \E where \in {"cancelAll", "maintain"} : Plan(v) = <<where, Stale(v)>>
        \/ Plan(v) = <<"quotes", Managed(v) \ Pending(v)>>
    BY DEF Plan
  <2> HIDE DEF v
  <2> QED
    BY <1>5, <2>1, <2>2
<1>7. \A s \in Spreads : found'[s] = 0
  BY <1>1 DEF ExitInv, CycleOk
<1>8. CycleOk'
  BY <1>6, <1>7 DEF CycleOk
<1>9. view'.order \in [Spreads -> Orders \cup {NoOrder}]
  <2>1. view' = NoView \/ view' = v
    BY DEF Snapshot
  <2>2. NoView.order \in [Spreads -> Orders \cup {NoOrder}] /\ v.order = order'
    BY <1>1 DEF NoView
  <2> QED
    BY <1>3, <2>1, <2>2
<1> QED
  BY <1>1, <1>3, <1>4, <1>6, <1>8, <1>9 DEF ExitInv, Shapes

(* A step of the cycle that moves on to another spread or call.              *)
LEMMA ContinueKeeps ==
    ASSUME ExitInv, NEW where \in {"cancelAll", "maintain"}, NEW rest, rest \subseteq Spreads,
           pc # "idle", Continue(where, rest), UNCHANGED quote,
           order' \in [Spreads -> Orders \cup {NoOrder}],
           \A s \in Spreads : OrderOk(order'[s])
    PROVE  ExitInv'
  BY DEF ExitInv, Shapes, Continue, CycleOk

LEMMA CancelledKeeps ==
    ASSUME ExitInv, NEW s \in Spreads, Cancel(s)
    PROVE  /\ order' \in [Spreads -> Orders \cup {NoOrder}]
           /\ \A u \in Spreads : OrderOk(order'[u])
<1>1. CASE order' = [order EXCEPT ![s] = NoOrder]
  BY <1>1, ClosedKeeps
<1>2. CASE order' = order
  BY <1>2 DEF ExitInv, Shapes
<1> QED
  BY <1>1, <1>2 DEF Cancel, CloseOrder

LEMMA CancelAllKeeps ==
    ASSUME ExitInv, NEW s \in Spreads, CancelAll(s)
    PROVE  ExitInv'
<1>1. /\ pc = "cancelAll" /\ quote' = quote
      /\ order' \in [Spreads -> Orders \cup {NoOrder}]
      /\ \A u \in Spreads : OrderOk(order'[u])
  BY CancelledKeeps DEF CancelAll
<1>2. CASE Done
  BY <1>1, <1>2, DoneKeeps DEF ExitInv, Shapes
<1>3. CASE Continue("cancelAll", todo \ {s})
  <2>1. todo \ {s} \subseteq Spreads
    BY DEF ExitInv, Shapes
  <2> QED
    BY <1>1, <1>3, <2>1, ContinueKeeps
<1> QED
  BY <1>2, <1>3 DEF CancelAll

LEMMA MaintainCancelKeeps ==
    ASSUME ExitInv, NEW s \in Spreads, MaintainCancel(s)
    PROVE  ExitInv'
<1>1. /\ quote' = quote /\ Done
      /\ order' \in [Spreads -> Orders \cup {NoOrder}]
      /\ \A u \in Spreads : OrderOk(order'[u])
  BY CancelledKeeps DEF MaintainCancel
<1> QED
  BY <1>1, DoneKeeps DEF ExitInv, Shapes

LEMMA NextStaleKeeps ==
    ASSUME ExitInv, pc = "maintain", NEW s \in Spreads, NextStale(s), UNCHANGED <<order, quote>>
    PROVE  ExitInv'
<1>1. CASE Done
  BY <1>1, EndKeeps
<1>2. CASE Continue("maintain", todo \ {s})
  <2>1. todo \ {s} \subseteq Spreads
    BY DEF ExitInv, Shapes
  <2>2. /\ order' \in [Spreads -> Orders \cup {NoOrder}]
        /\ \A u \in Spreads : OrderOk(order'[u])
    BY DEF ExitInv, Shapes
  <2> QED
    BY <1>2, <2>1, <2>2, ContinueKeeps
<1> QED
  BY <1>1, <1>2 DEF NextStale

(* A take-profit is priced by LimitCredit of a credit that reaches its       *)
(* target.                                                                   *)
LEMMA ProfitIsPriced ==
    ASSUME NEW b \in Bases, NEW c \in Nat, ReachesTarget(b, c)
    PROVE  PricedOk("profit", LimitCredit(b, c), c, b)
  BY LimitKeepsReturn DEF PricedOk, Kinds

LEMMA StopIsPriced ==
    ASSUME NEW b \in Bases, NEW c \in Nat, ReachesStop(b, c)
    PROVE  PricedOk("stop", c, c, b)
<1>1. c < TargetCredit(b) /\ TargetCredit(b) \in Int
  BY StopBelowTarget, TargetIsLeast
<1> QED
  BY <1>1 DEF PricedOk, Kinds

LEMMA MaintainQuoteKeeps ==
    ASSUME ExitInv, NEW s \in Spreads, MaintainQuote(s)
    PROVE  ExitInv'
<1>1. pc = "maintain" /\ UNCHANGED <<order, quote>> /\ s \in Managed(view)
  BY DEF MaintainQuote, account
<1> DEFINE b == BasisOf(view.lots[s])
           c == quote[s]
<1>2. b \in Bases /\ c \in Nat
  BY <1>1, ManagedHasBasis DEF ExitInv, Shapes
<1>3. CASE Done
  BY <1>1, <1>3, EndKeeps
<1>4. CASE NextStale(s)
  BY <1>1, <1>4, NextStaleKeeps
<1>5. CASE /\ ~ (Replacement(s) >= view.order[s].limit)
           /\ pc' = "replace"
           /\ job' = [s |-> s, kind |-> "profit", limit |-> Replacement(s), seen |-> quote[s]]
           /\ UNCHANGED <<view, todo, found>>
  <2>1. CASE ~ ReachesTarget(b, c)
    <3>1. Replacement(s) = view.order[s].limit
      BY <2>1 DEF Replacement
    <3>3. view.order[s].limit \in Int
      <4>1. view.order[s] \in Orders \cup {NoOrder}
        BY DEF ExitInv, Shapes
      <4> QED
        BY <4>1, OrderParts DEF NoOrder
    <3> QED
      BY <1>5, <3>1, <3>3
  <2>2. CASE ReachesTarget(b, c)
    <3>1. Replacement(s) = LimitCredit(b, c)
      BY <2>2 DEF Replacement
    <3>2. PricedOk("profit", LimitCredit(b, c), c, b)
      BY <1>2, <2>2, ProfitIsPriced
    <3>3. /\ job'.s = s /\ job'.kind = "profit" /\ job'.limit = LimitCredit(b, c)
          /\ job'.seen = c /\ view' = view
      BY <1>5, <3>1
    <3>4. CycleOk'
      BY <1>1, <1>5, <3>2, <3>3 DEF ExitInv, CycleOk
    <3> QED
      BY <1>1, <1>5, <3>4 DEF ExitInv, Shapes
  <2> QED
    BY <2>1, <2>2
<1> QED
  BY <1>3, <1>4, <1>5 DEF MaintainQuote

LEMMA SelectKeeps ==
    ASSUME ExitInv, NEW s \in Spreads, QuoteNext(s)
    PROVE  ExitInv'
<1> DEFINE f == [found EXCEPT ![s] = quote[s]]
<1>1. /\ pc = "quotes" /\ s \in todo /\ UNCHANGED <<order, quote>>
      /\ todo \subseteq Managed(view)
  BY DEF QuoteNext, account, ExitInv, CycleOk
<1>2. /\ f \in [Spreads -> Nat]
      /\ \A u \in Spreads : f[u] # 0 => u \in Managed(view)
  BY <1>1 DEF ExitInv, Shapes, CycleOk
<1> HIDE DEF f
<1>3. CASE found' = f /\ todo' = todo \ {s} /\ UNCHANGED <<pc, view, job>>
  <2>1. CycleOk'
    BY <1>1, <1>2, <1>3 DEF ExitInv, CycleOk, Managed
  <2> QED
    BY <1>1, <1>2, <1>3, <2>1 DEF ExitInv, Shapes
<1>4. ASSUME NEW u \in Spreads, NEW kind, NEW limit, Choose(u, kind, f[u], limit),
             PricedOk(kind, limit, f[u], BasisOf(view.lots[u]))
      PROVE  ExitInv'
  <2>1. /\ pc' = "submit" /\ job'.s = u /\ job'.kind = kind /\ job'.limit = limit
        /\ job'.seen = f[u] /\ UNCHANGED <<view, todo, found>>
    BY <1>4 DEF Choose
  <2>2. CycleOk'
    BY <1>4, <2>1 DEF ExitInv, CycleOk, Managed
  <2> QED
    BY <1>1, <2>1, <2>2 DEF ExitInv, Shapes
<1>5. ASSUME NEW u \in Spreads, f[u] # 0
      PROVE  BasisOf(view.lots[u]) \in Bases /\ f[u] \in Nat
  BY <1>2, <1>5, ManagedHasBasis
<1>6. CASE Select(f)
  <2>1. CASE Done
    BY <1>1, <2>1, EndKeeps
  <2>2. ASSUME NEW u \in Stops(f), Choose(u, "stop", f[u], f[u])
        PROVE  ExitInv'
    <3>1. u \in Spreads /\ f[u] # 0 /\ ReachesStop(BasisOf(view.lots[u]), f[u])
      BY DEF Stops
    <3> QED
      BY <1>4, <1>5, <2>2, <3>1, StopIsPriced
  <2>3. ASSUME NEW u \in Profits(f),
               Choose(u, "profit", f[u], LimitCredit(BasisOf(view.lots[u]), f[u]))
        PROVE  ExitInv'
    <3>1. u \in Spreads /\ f[u] # 0 /\ ReachesTarget(BasisOf(view.lots[u]), f[u])
      BY DEF Profits
    <3> QED
      BY <1>4, <1>5, <2>3, <3>1, ProfitIsPriced
  <2> QED
    BY <1>6, <2>1, <2>2, <2>3 DEF Select
<1> QED
  BY <1>3, <1>6 DEF QuoteNext, f

(* An order made or amended from the job is priced as the job is.            *)
LEMMA ReplaceKeeps == ExitInv /\ Replace => ExitInv'
<1> SUFFICES ASSUME ExitInv, Replace PROVE ExitInv'
  OBVIOUS
<1> DEFINE b == BasisOf(view.lots[job.s])
           o == Amended(order[job.s], job.limit, b, job.seen)
<1>1. pc = "replace" /\ Done /\ quote' = quote
  BY DEF Replace
<1>2. job.s \in Spreads /\ PricedOk("profit", job.limit, job.seen, b)
  BY <1>1 DEF ExitInv, CycleOk
<1>3. CASE order' = order
  BY <1>1, <1>3, EndKeeps
<1>4. CASE order[job.s].on /\ order' = [order EXCEPT ![job.s] = o]
  <2>1. order[job.s] \in Orders
    BY <1>2, <1>4, OrderIsOrder DEF ExitInv, Shapes
  <2>2. /\ o \in Orders /\ o.kind = "profit" /\ o.limit = job.limit
        /\ o.seen = job.seen /\ o.basis = b
    <3>1. job.limit \in Nat /\ job.seen \in Nat /\ b \in Bases
      BY <1>2 DEF PricedOk
    <3> HIDE DEF b
    <3> QED
      BY <2>1, <3>1, AmendedOrder
  <2> HIDE DEF o, b
  <2>3. /\ order' \in [Spreads -> Orders \cup {NoOrder}]
        /\ \A u \in Spreads : order'[u] = IF u = job.s THEN o ELSE order[u]
    BY <1>4, <2>2 DEF ExitInv, Shapes
  <2>4. \A u \in Spreads : OrderOk(order'[u])
    BY <1>2, <2>2, <2>3 DEF ExitInv, OrderOk
  <2> QED
    BY <1>1, <2>3, <2>4, DoneKeeps DEF ExitInv, Shapes
<1> QED
  BY <1>3, <1>4 DEF Replace, Amended

LEMMA SubmitKeeps == ExitInv /\ Submit => ExitInv'
<1> SUFFICES ASSUME ExitInv, Submit PROVE ExitInv'
  OBVIOUS
<1> DEFINE b == BasisOf(view.lots[job.s])
           o == [on |-> TRUE, kind |-> job.kind, limit |-> job.limit,
                 qty |-> Len(view.lots[job.s]), filled |-> 0, age |-> 0,
                 basis |-> b, seen |-> job.seen]
<1>1. pc = "submit" /\ Done /\ quote' = quote /\ order' = [order EXCEPT ![job.s] = o]
  BY DEF Submit
<1>2. job.s \in Spreads /\ PricedOk(job.kind, job.limit, job.seen, b)
  BY <1>1 DEF ExitInv, CycleOk
<1>3. b \in Bases /\ Len(view.lots[job.s]) \in Nat \ {0}
  <2>1. b \in Bases
    BY <1>2 DEF PricedOk
  <2>2. b.n = Len(view.lots[job.s])
    BY DEF BasisOf
  <2> HIDE DEF b
  <2> QED
    BY <2>1, <2>2 DEF Bases
<1>4. /\ o.kind = job.kind /\ o.limit = job.limit /\ o.seen = job.seen /\ o.basis = b
  OBVIOUS
<1> HIDE DEF b
<1>5. o \in Orders
  BY <1>2, <1>3, NewOrder DEF PricedOk
<1> HIDE DEF o
<1>6. /\ order' \in [Spreads -> Orders \cup {NoOrder}]
      /\ \A u \in Spreads : order'[u] = IF u = job.s THEN o ELSE order[u]
  BY <1>1, <1>5 DEF ExitInv, Shapes
<1>7. \A u \in Spreads : OrderOk(order'[u])
  BY <1>2, <1>4, <1>6 DEF ExitInv, OrderOk
<1> QED
  BY <1>1, <1>6, <1>7, DoneKeeps DEF ExitInv, Shapes

LEMMA NextExit == ExitInv /\ [Next]_vars => ExitInv'
<1> SUFFICES ASSUME ExitInv, [Next]_vars PROVE ExitInv'
  OBVIOUS
<1>1. CASE Raise
  BY <1>1, EndKeeps DEF Raise, account
<1>2. ASSUME NEW s \in Spreads, MaintainAtFloor(s) PROVE ExitInv'
  BY <1>2, NextStaleKeeps DEF MaintainAtFloor, account
<1>3. CASE UNCHANGED vars
  <2>1. UNCHANGED <<order, quote, cycle>>
    BY <1>3 DEF vars, account
  <2> QED
    BY <2>1, BrokerKeeps DEF Repriced, ExitInv, Shapes
<1> QED
  BY <1>1, <1>2, <1>3, BrokerStepKeeps, SnapshotKeeps, ReplaceKeeps, SubmitKeeps, CancelAllKeeps,
     MaintainCancelKeeps, MaintainQuoteKeeps, SelectKeeps DEF Next, CycleStep

(* The price of a working exit tells a take-profit from a stop-loss, which   *)
(* is all _maintain_stale_exit_order has to go by.                           *)
THEOREM PricesTell == Spec => []PriceTellsTrigger
<1>1. ExitInv => PriceTellsTrigger
  BY DEF ExitInv, OrderOk, PricedOk, PriceTellsTrigger
<1> QED
  BY <1>1, InitExit, NextExit, PTL DEF Spec

(* An exit asks for no more than the credit seen, and a take-profit for no   *)
(* less than the promised return.                                            *)
THEOREM LimitsWithinSeen == Spec => []LimitWithinSeen
<1>1. ExitInv => LimitWithinSeen
  BY DEF ExitInv, OrderOk, PricedOk, LimitWithinSeen
<1> QED
  BY <1>1, InitExit, NextExit, PTL DEF Spec

-----------------------------------------------------------------------------
(* What a closing order sells.                                              *)

(* No order works on s, and at least the lots the cycle read are there.     *)
Quiet(s) == ~ order[s].on /\ Len(view.lots[s]) <= Len(lots[s])

(* A working exit has lots left to sell, and sells no more than are held.   *)
ExitWithinHeld ==
    \A s \in Spreads : order[s].on =>
        order[s].filled < order[s].qty /\ order[s].qty <= Len(lots[s])

(* Only the cycle sends exits, one a cycle: what it goes through for a new   *)
(* one has none working, and its lots can only grow.                        *)
ReadStillHeld ==
    /\ \A s \in Spreads : found[s] # 0 => Quiet(s)
    /\ pc = "quotes" => \A s \in todo : Quiet(s)
    /\ pc = "submit" => Quiet(job.s)

LotTypes ==
    /\ lots \in [Spreads -> Seq(Debits)]
    /\ view.lots \in [Spreads -> Seq(Debits)]

HeldInv == ExitInv /\ LotTypes /\ ExitWithinHeld /\ ReadStillHeld

LEMMA InitHeld == Init => HeldInv
<1> SUFFICES ASSUME Init PROVE HeldInv
  OBVIOUS
<1>1. LotTypes
  <2>1. <<>> \in Seq(Debits)
    OBVIOUS
  <2> QED
    BY <2>1 DEF Init, LotTypes, NoView
<1>2. \A s \in Spreads : order[s] = NoOrder /\ found[s] = 0
  BY DEF Init
<1>3. pc = "idle"
  BY DEF Init
<1> QED
  BY <1>1, <1>2, <1>3, InitExit, NoOrderIsOff DEF HeldInv, ExitWithinHeld, ReadStillHeld

(* The end of a cycle leaves nothing to be held to.                         *)
LEMMA DoneHeld ==
    ASSUME Done
    PROVE  ReadStillHeld' /\ view'.lots \in [Spreads -> Seq(Debits)]
<1>1. <<>> \in Seq(Debits)
  OBVIOUS
<1> QED
  BY <1>1 DEF Done, ReadStillHeld, NoView

(* A closed order takes its fills out of its own lots only.                 *)
LEMMA ClosedHeld ==
    ASSUME HeldInv, NEW s \in Spreads, order[s].on, NEW n \in Nat, CloseOrder(s, n)
    PROVE  /\ lots' \in [Spreads -> Seq(Debits)]
           /\ ExitWithinHeld'
           /\ \A u \in Spreads : Quiet(u) => ~ order'[u].on /\ lots'[u] = lots[u]
<1>1. /\ lots \in [Spreads -> Seq(Debits)] /\ order \in [Spreads -> Orders \cup {NoOrder}]
      /\ lots' = [lots EXCEPT ![s] = SubSeq(lots[s], n + 1, Len(lots[s]))]
      /\ order' = [order EXCEPT ![s] = NoOrder]
  BY DEF HeldInv, LotTypes, ExitInv, Shapes, CloseOrder
<1>2. SubSeq(lots[s], n + 1, Len(lots[s])) \in Seq(Debits)
  <2>1. lots[s] \in Seq(Debits)
    BY <1>1
  <2>2. Len(lots[s]) \in Int /\ n + 1 \in Int /\ \A i \in (n + 1)..Len(lots[s]) : lots[s][i] \in Debits
    BY <2>1
  <2> HIDE DEF HeldInv
  <2> QED
    BY <2>2, SubSeqProperties
<1>3. lots' \in [Spreads -> Seq(Debits)]
  BY <1>1, <1>2
<1>4. \A u \in Spreads : u # s => lots'[u] = lots[u] /\ order'[u] = order[u]
  BY <1>1
<1>5. order'[s] = NoOrder
  BY <1>1
<1>6. ExitWithinHeld'
  BY <1>4, <1>5, NoOrderIsOff DEF HeldInv, ExitWithinHeld
<1>7. \A u \in Spreads : Quiet(u) => ~ order'[u].on /\ lots'[u] = lots[u]
  BY <1>4 DEF Quiet
<1> QED
  BY <1>3, <1>6, <1>7

(* What was quiet stays so, and the cycle goes on with what it had in hand.  *)
LEMMA StillHeld ==
    ASSUME HeldInv, UNCHANGED <<view, found>>,
           \A u \in Spreads : Quiet(u) => ~ order'[u].on /\ Len(lots[u]) <= Len(lots'[u]),
           lots' \in [Spreads -> Seq(Debits)],
           \/ UNCHANGED <<pc, todo, job>>
           \/ pc' \notin {"quotes", "submit"}
    PROVE  ReadStillHeld' /\ view'.lots \in [Spreads -> Seq(Debits)]
<1>1. \A u \in Spreads : Quiet(u) => Quiet(u)'
  <2> SUFFICES ASSUME NEW u \in Spreads, Quiet(u) PROVE Quiet(u)'
    OBVIOUS
  <2>1. lots[u] \in Seq(Debits) /\ lots'[u] \in Seq(Debits) /\ view.lots[u] \in Seq(Debits)
    BY DEF HeldInv, LotTypes
  <2>2. Len(lots[u]) \in Nat /\ Len(lots'[u]) \in Nat /\ Len(view.lots[u]) \in Nat
    BY <2>1
  <2> QED
    BY <2>2 DEF Quiet
<1>2. todo \subseteq Spreads /\ (pc = "submit" => job.s \in Spreads)
  BY DEF HeldInv, ExitInv, Shapes, CycleOk
<1> QED
  BY <1>1, <1>2 DEF HeldInv, ReadStillHeld, LotTypes

(* The broker and the markets.                                              *)
LEMMA BrokerHeld == HeldInv /\ BrokerStep => HeldInv'
<1> SUFFICES ASSUME HeldInv, BrokerStep PROVE HeldInv'
  OBVIOUS
<1>1. ExitInv'
  BY BrokerStepKeeps DEF HeldInv
<1>2. /\ UNCHANGED <<pc, view, todo, found, job>>
      /\ lots \in [Spreads -> Seq(Debits)] /\ order \in [Spreads -> Orders \cup {NoOrder}]
  BY DEF BrokerStep, FillExit, DropExit, Buy, Market, Foreign, cycle, HeldInv, LotTypes, ExitInv, Shapes
<1>3. ASSUME NEW s \in Spreads, order[s].on, NEW n \in Nat, CloseOrder(s, n) PROVE HeldInv'
  <2>1. /\ lots' \in [Spreads -> Seq(Debits)] /\ ExitWithinHeld'
        /\ \A u \in Spreads : Quiet(u) => ~ order'[u].on /\ lots'[u] = lots[u]
    BY <1>3, ClosedHeld
  <2>2. \A u \in Spreads : Quiet(u) => ~ order'[u].on /\ Len(lots[u]) <= Len(lots'[u])
    BY <1>2, <2>1
  <2>3. ReadStillHeld' /\ view'.lots \in [Spreads -> Seq(Debits)]
    BY <1>2, <2>1, <2>2, StillHeld
  <2> QED
    BY <1>1, <2>1, <2>3 DEF HeldInv, LotTypes
<1>4. ASSUME NEW s \in Spreads, FillExit(s) PROVE HeldInv'
  <2>1. order[s].on /\ order[s] \in Orders
    BY <1>2, <1>4, OrderIsOrder DEF FillExit
  <2>2. CASE CloseOrder(s, order[s].qty)
    <3>1. order[s].qty \in Nat
      BY <2>1 DEF Orders
    <3> QED
      BY <1>3, <2>1, <2>2, <3>1
  <2>3. CASE /\ order[s].filled + 1 # order[s].qty
             /\ order' = [order EXCEPT ![s].filled = @ + 1] /\ UNCHANGED lots
    <3>1. order[s].filled \in Nat /\ order[s].qty \in Nat
      BY <2>1 DEF Orders
    <3>2. /\ \A u \in Spreads : u # s => order'[u] = order[u]
          /\ order'[s] = [order[s] EXCEPT !.filled = order[s].filled + 1]
      BY <1>2, <2>3
    <3>3. /\ order'[s].on = order[s].on /\ order'[s].qty = order[s].qty
          /\ order'[s].filled = order[s].filled + 1
      BY <2>1, <3>2 DEF Orders
    <3>4. ExitWithinHeld'
      BY <2>1, <2>3, <3>1, <3>2, <3>3 DEF HeldInv, ExitWithinHeld
    <3>5. \A u \in Spreads : Quiet(u) => ~ order'[u].on /\ Len(lots[u]) <= Len(lots'[u])
      BY <1>2, <2>1, <2>3, <3>2 DEF Quiet
    <3>6. ReadStillHeld' /\ view'.lots \in [Spreads -> Seq(Debits)]
      BY <1>2, <2>3, <3>5, StillHeld
    <3> QED
      BY <1>1, <1>2, <2>3, <3>4, <3>6 DEF HeldInv, LotTypes
  <2> QED
    BY <1>4, <2>2, <2>3 DEF FillExit
<1>5. ASSUME NEW s \in Spreads, DropExit(s) PROVE HeldInv'
  <2>1. order[s].on /\ order[s] \in Orders /\ CloseOrder(s, order[s].filled)
    BY <1>2, <1>5, OrderIsOrder DEF DropExit
  <2> QED
    BY <1>3, <2>1, OrderParts
<1>6. ASSUME NEW s \in Spreads, NEW d \in Debits, Buy(s, d) PROVE HeldInv'
  <2>1. lots' = [lots EXCEPT ![s] = Append(lots[s], d)] /\ order' = order
    BY <1>6 DEF Buy
  <2>2. Append(lots[s], d) \in Seq(Debits) /\ Len(Append(lots[s], d)) = Len(lots[s]) + 1
    BY <1>2, AppendProperties
  <2>3. lots' \in [Spreads -> Seq(Debits)]
    BY <1>2, <2>1, <2>2
  <2>4. \A u \in Spreads : Len(lots[u]) \in Nat /\ Len(lots'[u]) \in Nat /\ Len(lots[u]) <= Len(lots'[u])
    BY <1>2, <2>1, <2>2
  <2>5. ExitWithinHeld'
    <3> SUFFICES ASSUME NEW u \in Spreads, order[u].on
                 PROVE  order[u].filled < order[u].qty /\ order[u].qty <= Len(lots'[u])
      BY <2>1 DEF ExitWithinHeld
    <3>1. order[u].qty \in Nat
      <4>1. order[u] \in Orders
        BY <1>2, OrderIsOrder
      <4> QED
        BY <4>1, OrderParts
    <3>2. order[u].filled < order[u].qty /\ order[u].qty <= Len(lots[u])
      BY DEF HeldInv, ExitWithinHeld
    <3>3. Len(lots[u]) \in Nat /\ Len(lots'[u]) \in Nat /\ Len(lots[u]) <= Len(lots'[u])
      BY <2>4
    <3> QED
      BY <3>1, <3>2, <3>3
  <2>6. ReadStillHeld' /\ view'.lots \in [Spreads -> Seq(Debits)]
    BY <1>2, <2>1, <2>3, <2>4, StillHeld DEF Quiet
  <2> QED
    BY <1>1, <2>3, <2>5, <2>6 DEF HeldInv, LotTypes
<1>7. CASE UNCHANGED <<lots, order>>
  BY <1>1, <1>2, <1>7 DEF HeldInv, LotTypes, ExitWithinHeld, ReadStillHeld, Quiet
<1> QED
  BY <1>4, <1>5, <1>6, <1>7 DEF BrokerStep, Market, Foreign

(* A step of the cycle that sells nothing and ends, or goes on to a call     *)
(* that sends nothing new.                                                  *)
LEMMA QuietStep ==
    ASSUME HeldInv, ExitInv', UNCHANGED <<lots, order>>,
           \/ Done
           \/ pc' \notin {"quotes", "submit"} /\ UNCHANGED <<view, found>>
    PROVE  HeldInv'
<1>1. ExitWithinHeld' /\ lots' \in [Spreads -> Seq(Debits)]
  BY DEF HeldInv, ExitWithinHeld, LotTypes
<1>2. \A u \in Spreads : Len(lots[u]) \in Nat
  BY DEF HeldInv, LotTypes
<1>3. CASE Done
  BY <1>1, <1>3, DoneHeld DEF HeldInv, LotTypes
<1>4. CASE pc' \notin {"quotes", "submit"} /\ UNCHANGED <<view, found>>
  BY <1>1, <1>2, <1>4, StillHeld DEF Quiet, HeldInv, LotTypes
<1> QED
  BY <1>3, <1>4

(* The cycle's cancellations.                                               *)
LEMMA CancelHeld ==
    ASSUME HeldInv, ExitInv', NEW s \in Spreads, Cancel(s),
           \/ Done
           \/ pc' \notin {"quotes", "submit"} /\ UNCHANGED <<view, found>>
    PROVE  HeldInv'
<1>1. CASE UNCHANGED <<lots, order>>
  BY <1>1, QuietStep
<1>2. CASE order[s].on /\ CloseOrder(s, order[s].filled)
  <2>1. order[s] \in Orders
    BY <1>2, OrderIsOrder DEF HeldInv, ExitInv, Shapes
  <2>2. /\ lots' \in [Spreads -> Seq(Debits)] /\ ExitWithinHeld'
        /\ \A u \in Spreads : Quiet(u) => ~ order'[u].on /\ lots'[u] = lots[u]
    BY <1>2, <2>1, OrderParts, ClosedHeld
  <2>3. \A u \in Spreads : Quiet(u) => ~ order'[u].on /\ Len(lots[u]) <= Len(lots'[u])
    <3>1. \A u \in Spreads : Len(lots[u]) \in Nat
      BY DEF HeldInv, LotTypes
    <3> QED
      BY <2>2, <3>1
  <2>4. CASE Done
    BY <2>2, <2>4, DoneHeld DEF HeldInv, LotTypes
  <2>5. CASE pc' \notin {"quotes", "submit"} /\ UNCHANGED <<view, found>>
    BY <2>2, <2>3, <2>5, StillHeld DEF HeldInv, LotTypes
  <2> QED
    BY <2>4, <2>5
<1> QED
  BY <1>1, <1>2 DEF Cancel

(* The reading: what it plans to quote has no order working.                *)
LEMMA SnapshotHeld == HeldInv /\ Snapshot => HeldInv'
<1> SUFFICES ASSUME HeldInv, Snapshot PROVE HeldInv'
  OBVIOUS
<1> DEFINE v == [lots |-> lots, order |-> Aged]
<1>1. /\ pc = "idle" /\ order' = Aged /\ UNCHANGED <<lots, found, job>>
      /\ pc' = Plan(v)[1] /\ todo' = Plan(v)[2] /\ (view' = v \/ view' = NoView)
      /\ Plan(v)[1] # "idle" => view' = v
  BY DEF Snapshot
<1>2. /\ \A s \in Spreads : found'[s] = 0
      /\ lots \in [Spreads -> Seq(Debits)] /\ order \in [Spreads -> Orders \cup {NoOrder}]
  BY <1>1 DEF HeldInv, ExitInv, CycleOk, LotTypes, Shapes
<1>3. \A s \in Spreads : /\ order'[s].on <=> order[s].on
                         /\ order[s].on => order'[s].filled = order[s].filled /\ order'[s].qty = order[s].qty
  <2> SUFFICES ASSUME NEW s \in Spreads
               PROVE  /\ order'[s].on <=> order[s].on
                      /\ order[s].on => order'[s].filled = order[s].filled /\ order'[s].qty = order[s].qty
    OBVIOUS
  <2>1. CASE order[s].on
    <3>1. order'[s] = [order[s] EXCEPT !.age = Smaller(order[s].age + 1, Timeout)]
      BY <1>1, <2>1 DEF Aged
    <3>2. order[s] \in Orders
      BY <1>2, <2>1, OrderIsOrder
    <3> QED
      BY <3>1, <3>2 DEF Orders
  <2>2. CASE ~ order[s].on
    BY <1>1, <2>2 DEF Aged
  <2> QED
    BY <2>1, <2>2
<1>4. ExitWithinHeld'
  <2> SUFFICES ASSUME NEW s \in Spreads, order'[s].on
               PROVE  order'[s].filled < order'[s].qty /\ order'[s].qty <= Len(lots'[s])
    BY DEF ExitWithinHeld
  <2>1. /\ order[s].on /\ order'[s].filled = order[s].filled /\ order'[s].qty = order[s].qty
        /\ lots'[s] = lots[s]
    <3>1. lots' = lots
      BY <1>1
    <3> QED
      BY Zenon, <1>3, <3>1
  <2>2. order[s].filled < order[s].qty /\ order[s].qty <= Len(lots[s])
    BY <2>1 DEF HeldInv, ExitWithinHeld
  <2> QED
    BY <2>1, <2>2
<1>5. view'.lots \in [Spreads -> Seq(Debits)]
  <2>1. <<>> \in Seq(Debits)
    OBVIOUS
  <2>2. NoView.lots \in [Spreads -> Seq(Debits)]
    BY <2>1 DEF NoView
  <2> QED
    BY <1>1, <1>2, <2>2
<1>6. ReadStillHeld'
  <2>1. /\ pc' # "submit"
        /\ pc' = "quotes" => todo' = Managed(v) \ Pending(v)
    <3>1. \/ Plan(v) = <<"idle", {}>>
          \/ \E where \in {"cancelAll", "maintain"} : Plan(v) = <<where, Stale(v)>>
          \/ Plan(v) = <<"quotes", Managed(v) \ Pending(v)>>
      BY DEF Plan
    <3> HIDE DEF v
    <3> QED
      BY <1>1, <3>1
  <2>2. ASSUME pc' = "quotes", NEW s \in todo' PROVE Quiet(s)'
    <3>1. view' = v /\ s \in Managed(v) /\ s \notin Pending(v)
      BY <1>1, <2>1, <2>2
    <3>2. s \in Spreads /\ ~ order'[s].on /\ view'.lots[s] = lots'[s]
      BY <1>1, <3>1 DEF Managed, Pending
    <3>3. Len(lots'[s]) \in Nat
      BY <1>1, <1>2, <3>2
    <3> QED
      BY <3>2, <3>3 DEF Quiet
  <2> QED
    BY <1>2, <2>1, <2>2 DEF ReadStillHeld
<1> QED
  BY <1>1, <1>2, <1>4, <1>5, <1>6, SnapshotKeeps DEF HeldInv, LotTypes

(* The choice: a candidate was quoted, and a quoted one has none working.    *)
LEMMA SelectHeld ==
    ASSUME HeldInv, NEW s \in Spreads, QuoteNext(s)
    PROVE  HeldInv'
<1> DEFINE f == [found EXCEPT ![s] = quote[s]]
<1>1. /\ pc = "quotes" /\ s \in todo /\ UNCHANGED <<lots, order>> /\ found \in [Spreads -> Nat]
      /\ Quiet(s) /\ \A u \in todo : Quiet(u)
      /\ ExitInv'
  BY SelectKeeps DEF QuoteNext, account, HeldInv, ReadStillHeld, ExitInv, Shapes
<1>2. \A u \in Spreads : f[u] # 0 => Quiet(u)
  BY <1>1 DEF HeldInv, ReadStillHeld
<1> HIDE DEF f
<1>3. ExitWithinHeld' /\ lots' \in [Spreads -> Seq(Debits)]
  BY <1>1 DEF HeldInv, ExitWithinHeld, LotTypes
<1>4. CASE Done
  BY <1>1, <1>4, QuietStep
<1>5. CASE found' = f /\ todo' = todo \ {s} /\ UNCHANGED <<pc, view, job>>
  <2>1. ReadStillHeld'
    BY <1>1, <1>2, <1>5 DEF ReadStillHeld, Quiet
  <2> QED
    BY <1>1, <1>3, <1>5, <2>1 DEF HeldInv, LotTypes
<1>6. ASSUME NEW u \in Spreads, f[u] # 0, NEW kind, NEW limit, Choose(u, kind, f[u], limit)
      PROVE  HeldInv'
  <2>1. pc' = "submit" /\ job'.s = u /\ UNCHANGED <<view, todo, found>>
    BY <1>6 DEF Choose
  <2>2. ReadStillHeld'
    BY <1>1, <1>2, <1>6, <2>1 DEF HeldInv, ReadStillHeld, Quiet
  <2> QED
    BY <1>1, <1>3, <2>1, <2>2 DEF HeldInv, LotTypes
<1>7. CASE Select(f)
  BY <1>4, <1>6, <1>7 DEF Select, Stops, Profits
<1> QED
  BY <1>4, <1>5, <1>7 DEF QuoteNext, f

(* An amended order keeps its quantity and its fills.                       *)
LEMMA ReplaceHeld == HeldInv /\ Replace => HeldInv'
<1> SUFFICES ASSUME HeldInv, Replace PROVE HeldInv'
  OBVIOUS
<1>1. pc = "replace" /\ Done /\ UNCHANGED lots /\ job.s \in Spreads /\ ExitInv'
  BY ReplaceKeeps DEF Replace, HeldInv, ExitInv, CycleOk
<1>2. CASE UNCHANGED order
  BY <1>1, <1>2, QuietStep
<1>3. CASE order[job.s].on /\ order' # order
  <2> DEFINE o == Amended(order[job.s], job.limit, BasisOf(view.lots[job.s]), job.seen)
  <2>1. order' = [order EXCEPT ![job.s] = o] /\ order \in [Spreads -> Orders \cup {NoOrder}]
    BY <1>3 DEF Replace, Amended, HeldInv, ExitInv, Shapes
  <2>2. o.qty = order[job.s].qty /\ o.filled = order[job.s].filled
    <3>1. order[job.s] \in Orders
      BY <1>1, <1>3, <2>1, OrderIsOrder
    <3> QED
      BY <3>1 DEF Amended, Orders
  <2> HIDE DEF o
  <2>3. \A u \in Spreads : order'[u] = IF u = job.s THEN o ELSE order[u]
    BY <1>1, <2>1
  <2>4. ExitWithinHeld'
    <3> SUFFICES ASSUME NEW u \in Spreads, order'[u].on
                 PROVE  order'[u].filled < order'[u].qty /\ order'[u].qty <= Len(lots'[u])
      BY DEF ExitWithinHeld
    <3>1. /\ order[u].on /\ order'[u].filled = order[u].filled /\ order'[u].qty = order[u].qty
          /\ lots'[u] = lots[u]
      BY <1>1, <1>3, <2>2, <2>3
    <3>2. order[u].filled < order[u].qty /\ order[u].qty <= Len(lots[u])
      BY <3>1 DEF HeldInv, ExitWithinHeld
    <3> QED
      BY <3>1, <3>2
  <2> QED
    BY <1>1, <2>4, DoneHeld DEF HeldInv, LotTypes
<1> QED
  BY <1>2, <1>3 DEF Replace

(* A new order is for the lots the cycle read, which are still there.        *)
LEMMA SubmitHeld == HeldInv /\ Submit => HeldInv'
<1> SUFFICES ASSUME HeldInv, Submit PROVE HeldInv'
  OBVIOUS
<1> DEFINE b == BasisOf(view.lots[job.s])
           o == [on |-> TRUE, kind |-> job.kind, limit |-> job.limit,
                 qty |-> Len(view.lots[job.s]), filled |-> 0, age |-> 0,
                 basis |-> b, seen |-> job.seen]
<1>1. pc = "submit" /\ Done /\ UNCHANGED lots /\ job.s \in Spreads /\ ExitInv'
      /\ order' = [order EXCEPT ![job.s] = o] /\ order \in [Spreads -> Orders \cup {NoOrder}]
      /\ Quiet(job.s)
  BY SubmitKeeps DEF Submit, HeldInv, ExitInv, Shapes, CycleOk, ReadStillHeld
<1>2. o.filled = 0 /\ o.qty = Len(view.lots[job.s])
  OBVIOUS
<1>3. Len(view.lots[job.s]) \in Nat \ {0}
  <2>1. b \in Bases /\ b.n = Len(view.lots[job.s])
    BY <1>1 DEF HeldInv, ExitInv, CycleOk, PricedOk, BasisOf
  <2> QED
    BY <2>1 DEF Bases
<1> HIDE DEF o, b
<1>4. \A u \in Spreads : order'[u] = IF u = job.s THEN o ELSE order[u]
  BY <1>1
<1>5. ExitWithinHeld'
  <2> SUFFICES ASSUME NEW u \in Spreads, order'[u].on
               PROVE  order'[u].filled < order'[u].qty /\ order'[u].qty <= Len(lots'[u])
    BY DEF ExitWithinHeld
  <2>1. CASE u = job.s
    <3>1. order'[u].filled = 0 /\ order'[u].qty = Len(view.lots[job.s]) /\ lots'[u] = lots[job.s]
      BY <1>1, <1>2, <1>4, <2>1
    <3> QED
      BY <1>1, <1>3, <3>1 DEF Quiet
  <2>2. CASE u # job.s
    BY <1>1, <1>4, <2>2 DEF HeldInv, ExitWithinHeld
  <2> QED
    BY <2>1, <2>2
<1> QED
  BY <1>1, <1>5, DoneHeld DEF HeldInv, LotTypes

LEMMA NextHeld == HeldInv /\ [Next]_vars => HeldInv'
<1> SUFFICES ASSUME HeldInv, [Next]_vars PROVE HeldInv'
  OBVIOUS
<1>1. ExitInv'
  BY NextExit DEF HeldInv
<1>2. CASE Raise
  BY <1>1, <1>2, QuietStep DEF Raise, account
<1>3. ASSUME NEW s \in Spreads, CancelAll(s) PROVE HeldInv'
  BY <1>1, <1>3, CancelHeld DEF CancelAll, Continue
<1>4. ASSUME NEW s \in Spreads, MaintainCancel(s) PROVE HeldInv'
  BY <1>1, <1>4, CancelHeld DEF MaintainCancel
<1>5. ASSUME NEW s \in Spreads, MaintainAtFloor(s) PROVE HeldInv'
  BY <1>1, <1>5, QuietStep DEF MaintainAtFloor, NextStale, Continue, account
<1>6. ASSUME NEW s \in Spreads, MaintainQuote(s) PROVE HeldInv'
  BY <1>1, <1>6, QuietStep DEF MaintainQuote, NextStale, Continue, account
<1>7. CASE UNCHANGED vars
  BY <1>1, <1>7 DEF vars, account, cycle, HeldInv, LotTypes, ExitWithinHeld, ReadStillHeld, Quiet
<1> QED
  BY <1>2, <1>3, <1>4, <1>5, <1>6, <1>7, BrokerHeld, SnapshotHeld, SelectHeld, ReplaceHeld,
     SubmitHeld DEF Next, CycleStep

(* However quotes move, orders fill and cycles break off, a closing order    *)
(* sells no more contracts of its spread than are held: the quantity was     *)
(* read before the quotes, and until it is sent nothing else closes them     *)
(* (run_paper_spread_exit_cycle, one exit per spread at a time).            *)
THEOREM ExitsWithinHeld == Spec => []ExitWithinHeld
<1>1. HeldInv => ExitWithinHeld
  BY DEF HeldInv
<1> QED
  BY <1>1, InitHeld, NextHeld, PTL DEF Spec

-----------------------------------------------------------------------------
(* The types.                                                               *)

Calls == {"idle", "cancelAll", "maintain", "replace", "quotes", "submit"}
Readings == [lots : [Spreads -> Seq(Debits)], order : [Spreads -> Orders \cup {NoOrder}]]
Jobs == [s : Spreads \cup {"none"}, kind : Kinds \cup {"none"}, limit : Cents, seen : Cents]

(* What HeldInv leaves open.                                                *)
RestTypes ==
    /\ quote \in [Spreads -> Credits]
    /\ foreign \in BOOLEAN /\ bought \in 0..MaxLots /\ faults \in 0..MaxFaults
    /\ pc \in Calls
    /\ view \in Readings
    /\ found \in [Spreads -> Credits \cup {0}]
    /\ job \in Jobs

LEMMA TypesFollow == HeldInv /\ RestTypes => TypeOK
<1> SUFFICES ASSUME HeldInv, RestTypes PROVE TypeOK
  OBVIOUS
<1>1. /\ lots \in [Spreads -> Seq(Debits)] /\ order \in [Spreads -> Orders \cup {NoOrder}]
      /\ todo \in SUBSET Spreads
  BY DEF HeldInv, LotTypes, ExitInv, Shapes
<1> QED
  BY Zenon, <1>1 DEF RestTypes, TypeOK, Calls, Readings, Jobs

LEMMA NoViewTypes == NoView \in Readings
<1>1. <<>> \in Seq(Debits)
  OBVIOUS
<1> QED
  BY <1>1 DEF NoView, Readings

LEMMA InitRest == Init => RestTypes
<1> SUFFICES ASSUME Init PROVE RestTypes
  OBVIOUS
<1>1. NoJob \in Jobs
  BY DEF NoJob, Jobs, Cents
<1>2. found \in [Spreads -> Credits \cup {0}]
  BY DEF Init
<1>3. bought \in 0..MaxLots /\ faults \in 0..MaxFaults
  BY ExitAssumption DEF Init
<1>4. job = NoJob /\ view = NoView /\ pc = "idle" /\ foreign = FALSE /\ quote \in [Spreads -> Credits]
  BY DEF Init
<1> QED
  BY <1>1, <1>2, <1>3, <1>4, NoViewTypes DEF RestTypes, Calls

(* A cycle that ends.                                                       *)
LEMMA DoneRest ==
    ASSUME Done
    PROVE  /\ pc' \in Calls /\ view' \in Readings /\ job' \in Jobs
           /\ found' \in [Spreads -> Credits \cup {0}]
<1>1. NoJob \in Jobs
  BY DEF NoJob, Jobs, Cents
<1> QED
  BY <1>1, NoViewTypes DEF Done, Calls

LEMMA NextRest == HeldInv /\ RestTypes /\ [Next]_vars => RestTypes'
<1> SUFFICES ASSUME HeldInv, RestTypes, [Next]_vars PROVE RestTypes'
  OBVIOUS
<1>a. HeldInv'
  BY NextHeld
<1>1. CASE BrokerStep
  <2>1. UNCHANGED <<pc, view, found, job, faults>>
    BY <1>1 DEF BrokerStep, FillExit, DropExit, Buy, Market, Foreign, cycle
  <2>2. quote' \in [Spreads -> Credits] /\ foreign' \in BOOLEAN /\ bought' \in 0..MaxLots
    <3>1. ASSUME NEW s \in Spreads, FillExit(s) \/ DropExit(s) PROVE UNCHANGED <<quote, foreign, bought>>
      BY <3>1 DEF FillExit, DropExit
    <3>2. ASSUME NEW s \in Spreads, NEW d \in Debits, Buy(s, d)
          PROVE  UNCHANGED <<quote, foreign>> /\ bought' \in 0..MaxLots
      BY <3>2, ExitAssumption DEF Buy, RestTypes
    <3>3. ASSUME NEW s \in Spreads, NEW c \in Credits, Market(s, c)
          PROVE  UNCHANGED <<foreign, bought>> /\ quote' \in [Spreads -> Credits]
      BY <3>3 DEF Market, RestTypes
    <3>4. ASSUME Foreign PROVE UNCHANGED <<quote, bought>> /\ foreign' \in BOOLEAN
      BY <3>4 DEF Foreign
    <3> QED
      BY <1>1, <3>1, <3>2, <3>3, <3>4 DEF BrokerStep, RestTypes
  <2> QED
    BY <2>1, <2>2 DEF RestTypes
<1>2. CASE UNCHANGED vars
  BY <1>2 DEF vars, account, cycle, RestTypes
<1>3. CASE Raise
  <2>1. Done /\ UNCHANGED <<quote, foreign, bought>> /\ faults' \in 0..MaxFaults
    BY <1>3, ExitAssumption DEF Raise, account, RestTypes
  <2> QED
    BY <2>1, DoneRest DEF RestTypes
<1>4. CASE CycleStep
  <2>1. UNCHANGED <<quote, foreign, bought, faults>>
    BY <1>4 DEF CycleStep, Snapshot, Replace, Submit, CancelAll, MaintainCancel, MaintainAtFloor,
                MaintainQuote, QuoteNext, account
  <2>2. SUFFICES /\ pc' \in Calls /\ view' \in Readings /\ job' \in Jobs
                 /\ found' \in [Spreads -> Credits \cup {0}]
    BY <2>1 DEF RestTypes
  <2>3. CASE Done
    BY <2>3, DoneRest
  <2>4. CASE UNCHANGED <<view, found, job>> /\ pc' \in Calls
    BY <2>4 DEF RestTypes
  <2>5. CASE Snapshot
    <3> DEFINE v == [lots |-> lots, order |-> Aged]
    <3>1. /\ pc' = Plan(v)[1] /\ (view' = v \/ view' = NoView) /\ UNCHANGED <<found, job>>
          /\ order' = Aged
      BY <2>5 DEF Snapshot
    <3>2. pc' \in Calls
      <4>1. \E where \in Calls : \E rest : Plan(v) = <<where, rest>>
        BY DEF Plan, Calls
      <4> HIDE DEF v
      <4> QED
        BY <3>1, <4>1
    <3>3. v \in Readings
      BY <1>a, <3>1 DEF HeldInv, LotTypes, ExitInv, Shapes, Readings
    <3> QED
      BY <3>1, <3>2, <3>3, NoViewTypes DEF RestTypes
  <2>6. ASSUME NEW s \in Spreads, MaintainQuote(s), pc' = "replace"
        PROVE  /\ view' \in Readings /\ job' \in Jobs /\ found' \in [Spreads -> Credits \cup {0}]
    <3>1. CASE Done
      BY <3>1, DoneRest
    <3>2. CASE UNCHANGED <<view, found, job>>
      BY <3>2 DEF RestTypes
    <3>3. CASE /\ job' = [s |-> s, kind |-> "profit", limit |-> Replacement(s), seen |-> quote[s]]
               /\ UNCHANGED <<view, found>>
      <4>1. Replacement(s) \in Nat /\ quote[s] \in Nat
        <5>1. PricedOk(job'.kind, job'.limit, job'.seen, BasisOf(view'.lots[job'.s]))
          BY <1>a, <2>6 DEF HeldInv, ExitInv, CycleOk
        <5>2. job'.limit = Replacement(s) /\ job'.seen = quote[s]
          BY <3>3
        <5> QED
          BY <5>1, <5>2 DEF PricedOk
      <4>2. job' \in Jobs
        BY <3>3, <4>1 DEF Jobs, Kinds, Cents
      <4> QED
        BY <3>3, <4>2 DEF RestTypes
    <3> QED
      BY <2>6, <3>1, <3>2, <3>3 DEF MaintainQuote, NextStale, Continue
  <2>7. ASSUME NEW s \in Spreads, QuoteNext(s)
        PROVE  /\ pc' \in Calls /\ view' \in Readings /\ job' \in Jobs
               /\ found' \in [Spreads -> Credits \cup {0}]
    <3> DEFINE f == [found EXCEPT ![s] = quote[s]]
    <3>1. f \in [Spreads -> Credits \cup {0}]
      BY DEF RestTypes
    <3> HIDE DEF f
    <3>2. CASE Done
      BY <3>2, DoneRest
    <3>3. CASE found' = f /\ UNCHANGED <<pc, view, job>>
      BY <3>1, <3>3 DEF RestTypes
    <3>4. ASSUME NEW u \in Spreads, NEW kind \in Kinds, NEW limit, Choose(u, kind, f[u], limit)
          PROVE  /\ pc' \in Calls /\ view' \in Readings /\ job' \in Jobs
                 /\ found' \in [Spreads -> Credits \cup {0}]
      <4>1. /\ pc' = "submit" /\ UNCHANGED <<view, found>>
            /\ job' = [s |-> u, kind |-> kind, limit |-> limit, seen |-> f[u]]
        BY <3>4 DEF Choose
      <4>2. limit \in Nat /\ f[u] \in Nat
        <5>1. PricedOk(job'.kind, job'.limit, job'.seen, BasisOf(view'.lots[job'.s]))
          BY <1>a, <4>1 DEF HeldInv, ExitInv, CycleOk
        <5>2. job'.limit = limit /\ job'.seen = f[u]
          BY <4>1
        <5> QED
          BY <5>1, <5>2 DEF PricedOk
      <4>3. job' \in Jobs
        BY <4>1, <4>2 DEF Jobs, Cents
      <4> QED
        BY <4>1, <4>3 DEF RestTypes, Calls
    <3>5. CASE Select(f)
      <4>1. "stop" \in Kinds /\ "profit" \in Kinds
        BY DEF Kinds
      <4> QED
        BY <3>2, <3>4, <3>5, <4>1 DEF Select, Stops, Profits
    <3> QED
      BY <2>7, <3>2, <3>3, <3>5 DEF QuoteNext, f
  <2>8. ASSUME NEW s \in Spreads, MaintainQuote(s)
        PROVE  Done \/ pc' = "replace" \/ (pc' \in Calls /\ UNCHANGED <<view, found, job>>)
    BY <2>8 DEF MaintainQuote, NextStale, Continue, Calls
  <2>9. ASSUME NEW s \in Spreads, CancelAll(s) \/ MaintainCancel(s) \/ MaintainAtFloor(s)
        PROVE  Done \/ (pc' \in Calls /\ UNCHANGED <<view, found, job>>)
    BY <2>9 DEF CancelAll, MaintainCancel, MaintainAtFloor, NextStale, Continue, Calls
  <2>10. CASE Replace \/ Submit
    BY <2>3, <2>10 DEF Replace, Submit
  <2>11. "replace" \in Calls
    BY DEF Calls
  <2> QED
    BY <1>4, <2>3, <2>4, <2>5, <2>6, <2>7, <2>8, <2>9, <2>10, <2>11 DEF CycleStep
<1> QED
  BY <1>1, <1>2, <1>3, <1>4 DEF Next

(* An order is sent with a whole number of contracts and of cents, on a      *)
(* recovered basis that is one: positive cost, positive quantity             *)
(* (identify_managed_debit_spreads, run_paper_spread_exit_cycle).           *)
THEOREM ExitTypesKept == Spec => []TypeOK
<1>1. Init => HeldInv /\ RestTypes
  BY InitHeld, InitRest
<1>2. HeldInv /\ RestTypes /\ [Next]_vars => (HeldInv /\ RestTypes)'
  BY NextHeld, NextRest
<1> QED
  BY <1>1, <1>2, TypesFollow, PTL DEF Spec
=============================================================================
