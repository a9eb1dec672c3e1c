---------------------------- MODULE SpreadBasis ----------------------------
(***************************************************************************)
(* What filled_spread_basis.py and the reconciliation of                    *)
(* position_exit_manager.py make of the account: the spreads the exit cycle *)
(* may manage and the debit lots it prices them from, recovered from a      *)
(* window of closed orders and held against the net positions.              *)
(*                                                                         *)
(* log is every order of the account in order of submission, those outside  *)
(* the two-leg (mleg) form included, and the positions are the sum of its   *)
(* fills.  The recovery sees the newest Limit closed orders only, and some  *)
(* of those show no position intents or no price.  The cycle reads the      *)
(* positions, then the open orders, then the history, and sends an exit on  *)
(* what it read: the account may change between any two of these.          *)
(***************************************************************************)
EXTENDS Integers, Sequences, FiniteSets, Functions

CONSTANTS
  Structures,   \* sets of two contracts, each [type, strike]
  Prices,       \* debits an entry may fill at
  LimitDebit,   \* the limit every entry is sent with
  Limit,        \* _HISTORY_LIMIT
  MaxOrders,    \* orders ever submitted (bounds a run)
  MaxVague      \* orders shown without intents or price (bounds a run)

ASSUME BasisAssumption ==
  /\ IsFiniteSet(Structures)
  /\ \A s \in Structures : \E a, b \in s : a # b /\ s = {a, b}
  /\ \A s \in Structures : \A c \in s : c.strike \in Int
  /\ LimitDebit \in Nat
  /\ Prices \subseteq 1..LimitDebit
  /\ Limit \in Nat \ {0}

VARIABLES
  log,      \* the account's orders
  reading   \* what this cycle has read, and the exit it is about to send

basisVars == <<log, reading>>

Contracts == UNION Structures

(* One contract type, two strikes; other pairs are never managed.           *)
IsVertical(s) ==
  /\ Cardinality({c.type : c \in s}) = 1
  /\ Cardinality({c.strike : c \in s}) = 2

(* A debit call vertical is long the lower strike, a put one the higher.    *)
LongLeg(s) ==
  CHOOSE c \in s : \A d \in s :
    IF c.type = "call" THEN c.strike <= d.strike ELSE c.strike >= d.strike

Side(s, c) ==
  IF c \notin s THEN 0
  ELSE IF IsVertical(s) /\ c # LongLeg(s) THEN -1 ELSE 1

Shows == {"average", "limit", "nothing"}

Indices == 1..Len(log)
Filled(o) == IF o.purpose = "entry" THEN o.filled ELSE 0 - o.filled

(* get_all_positions: signed contracts per symbol.                          *)
Position(c) == SumFunction([i \in Indices |-> Filled(log[i]) * Side(log[i].s, c)])
Positions == [c \in Contracts |-> Position(c)]

-----------------------------------------------------------------------------
(* recover_open_spread_entry_basis                                          *)

(* Slip: closing fills consume the newest lots.                             *)
ConsumeNewest(lots, n) == SubSeq(lots, 1, Len(lots) - n)

(* n times lots.pop(0), which the first pop of an empty list ends.          *)
Consume(lots, n) == SubSeq(lots, n + 1, Len(lots))

Incomplete(books, s) ==
  [books EXCEPT ![s] = [complete |-> FALSE, lots |-> <<>>]]

(* The debit of an entry: filled average, else the limit it was sent with.  *)
EntryDebit(o) ==
  IF o.shows = "average" THEN o.price
  ELSE IF o.shows = "limit" THEN LimitDebit ELSE 0

Apply(o, books) ==
  IF ~o.mleg THEN books
  ELSE IF ~o.clear THEN Incomplete(books, o.s)
  ELSE IF o.filled = 0 THEN books
  ELSE IF o.purpose = "exit"
  THEN [books EXCEPT ![o.s] =
         [complete |-> @.complete /\ o.filled <= Len(@.lots),
          lots |-> Consume(@.lots, o.filled)]]
  ELSE IF EntryDebit(o) = 0 THEN Incomplete(books, o.s)
  ELSE IF ~books[o.s].complete THEN books
  ELSE [books EXCEPT ![o.s] =
         [complete |-> TRUE, lots |-> @.lots \o [k \in 1..o.filled |-> EntryDebit(o)]]]

NewBooks == [s \in Structures |-> [complete |-> TRUE, lots |-> <<>>]]

Closed == {i \in Indices : ~log[i].open}

(* The newest Limit closed orders.                                          *)
Window == {i \in Closed : Cardinality({j \in Closed : j >= i}) <= Limit}

(* The orders of the window applied one after the other.                    *)
Books ==
  LET after[k \in 0..Len(log)] ==
        IF k = 0 THEN NewBooks
        ELSE IF k \in Window THEN Apply(log[k], after[k - 1]) ELSE after[k - 1]
  IN after[Len(log)]

(* open_lots_by_structure                                                   *)
Recovered ==
  LET books == Books
  IN [s \in Structures |-> IF books[s].complete THEN books[s].lots ELSE <<>>]

-----------------------------------------------------------------------------
(* identify_history_reconciled_debit_spreads                                *)

HistorySpreads(lots) == {s \in Structures : IsVertical(s) /\ lots[s] # <<>>}

ClosedUnder(H, C) == \A s \in C, u \in H : s \cap u # {} => u \in C

(* Slip: every spread is compared with the positions by itself.             *)
ComponentAlone(H, s) == {s}

(* The spreads reached from s over shared contracts.                        *)
Component(H, s) ==
  {u \in H : \A C \in SUBSET H : s \in C /\ ClosedUnder(H, C) => u \in C}

Predicted(lots, C, c) ==
  SumFunction([u \in C |-> Len(lots[u]) * Side(u, c)])

Matches(held, lots, C) ==
  \A c \in UNION C : held[c] = Predicted(lots, C, c)

ManagedIn(held, lots) ==
  LET H == HistorySpreads(lots)
  IN {s \in H : Matches(held, lots, Component(H, s))}

(* What a cycle manages whose reads no change falls between.                *)
ManagedSpreads == ManagedIn(Positions, Recovered)

-----------------------------------------------------------------------------
(* The account.                                                             *)

(* What was ever bought of s, in order of submission, at its price.         *)
Bought(s) ==
  LET upTo[k \in 0..Len(log)] ==
        IF k = 0 THEN <<>>
        ELSE IF log[k].s = s /\ log[k].purpose = "entry"
        THEN upTo[k - 1] \o [n \in 1..log[k].filled |-> log[k].price]
        ELSE upTo[k - 1]
  IN upTo[Len(log)]

Net(s) ==
  SumFunction([i \in Indices |-> IF log[i].s = s THEN Filled(log[i]) ELSE 0])

(* What is really held: first in, first out, the newest lots that nothing   *)
(* has closed, whoever closed the others.                                   *)
TrueLots(s) == SubSeq(Bought(s), Len(Bought(s)) - Net(s) + 1, Len(Bought(s)))

Vague == Cardinality({i \in Indices : ~log[i].clear \/ log[i].shows = "nothing"})

Order(s, purpose, qty, clear) ==
  [s |-> s, purpose |-> purpose, qty |-> qty, filled |-> 0, open |-> TRUE,
   price |-> 0, shows |-> "average", clear |-> clear, mleg |-> TRUE]

(* A cycle under way keeps room for its exit (bounds a run).                *)
Room == Len(log) < MaxOrders - (IF reading.at = "positions" THEN 0 ELSE 1)

SubmitOrder(s, purpose, qty, clear) ==
  /\ clear \/ Vague < MaxVague
  /\ log' = Append(log, Order(s, purpose, qty, clear))

Enter(s, clear) ==
  /\ Room
  /\ SubmitOrder(s, "entry", 1, clear)
  /\ UNCHANGED reading

-----------------------------------------------------------------------------
(* The exit cycle.                                                         *)

NoReading == [at |-> "positions", held |-> [c \in Contracts |-> 0],
              pending |-> {}, s |-> {}, qty |-> 0]

WithExit == {s \in Structures :
  \E i \in Indices : log[i].s = s /\ log[i].purpose = "exit" /\ log[i].open}

ReadPositions ==
  /\ reading.at = "positions"
  /\ Room
  /\ reading' = [NoReading EXCEPT !.at = "orders", !.held = Positions]
  /\ UNCHANGED log

ReadOrders ==
  /\ reading.at = "orders"
  /\ reading' = [NoReading EXCEPT !.at = "history", !.held = reading.held,
                                 !.pending = WithExit]
  /\ UNCHANGED log

(* Slip: a spread with an open exit is a candidate again.                   *)
ReadHistoryAgain ==
  /\ reading.at = "history"
  /\ \E s \in ManagedIn(reading.held, Recovered) :
       reading' = [NoReading EXCEPT !.at = "submit", !.s = s, !.qty = Len(Recovered[s])]
  /\ UNCHANGED log

(* A managed spread without an open exit is to be closed, every contract of *)
(* it; which of them, and whether any, the quotes decide.                   *)
ReadHistory ==
  /\ reading.at = "history"
  /\ \E s \in ManagedIn(reading.held, Recovered) \ reading.pending :
       reading' = [NoReading EXCEPT !.at = "submit", !.s = s, !.qty = Len(Recovered[s])]
  /\ UNCHANGED log

SendExit(clear) ==
  /\ reading.at = "submit"
  /\ SubmitOrder(reading.s, "exit", reading.qty, clear)
  /\ reading' = NoReading

(* A read raises, an order shows no intents, nothing is to be closed: the    *)
(* cycle ends without an exit, the next one reads anew.                     *)
EndCycle ==
  /\ reading.at # "positions"
  /\ reading' = NoReading
  /\ UNCHANGED log

-----------------------------------------------------------------------------
(* Fills, and other hands in the account.                                   *)

(* Which price the broker will show for an entry is the broker's.           *)
FillEntry(i, price, shows) ==
  /\ log[i].open
  /\ log[i].purpose = "entry"
  /\ shows = "nothing" => Vague < MaxVague
  /\ log' = [log EXCEPT ![i] = [@ EXCEPT !.filled = 1, !.open = FALSE,
                                         !.price = price, !.shows = shows]]
  /\ UNCHANGED reading

FillExitOrder(i) ==
  /\ log[i].open
  /\ log[i].purpose = "exit"
  /\ log' = [log EXCEPT ![i] = [@ EXCEPT !.filled = log[i].filled + 1,
                                         !.open = log[i].filled + 1 < log[i].qty]]
  /\ UNCHANGED reading

(* Cancelled or expired with what it has filled.                            *)
Close(i) ==
  /\ log[i].open
  /\ log' = [log EXCEPT ![i].open = FALSE]
  /\ UNCHANGED reading

(* Someone closes a contract leg by leg: no two-leg order tells of it.      *)
CloseByLegs(s) ==
  /\ Room
  /\ Position(LongLeg(s)) > 0
  /\ TrueLots(s) # <<>>
  /\ log' = Append(log, [Order(s, "exit", 1, TRUE) EXCEPT
                          !.filled = 1, !.open = FALSE, !.mleg = FALSE])
  /\ UNCHANGED reading

BasisInit == log = <<>> /\ reading = NoReading

BasisNext ==
  \/ ReadPositions \/ ReadOrders \/ ReadHistory \/ EndCycle
  \/ \E clear \in BOOLEAN : SendExit(clear)
  \/ \E s \in Structures, clear \in BOOLEAN : Enter(s, clear)
  \/ \E s \in Structures : CloseByLegs(s)
  \/ \E i \in Indices, p \in Prices, shows \in Shows : FillEntry(i, p, shows)
  \/ \E i \in Indices : FillExitOrder(i) \/ Close(i)

BasisSpec == BasisInit /\ [][BasisNext]_basisVars

-----------------------------------------------------------------------------
(* Properties.                                                              *)

(* Nothing is cut off or left out, and nobody closed leg by leg.            *)
Plain ==
  /\ Len(log) <= Limit
  /\ \A i \in Indices : log[i].mleg /\ log[i].clear /\ log[i].shows # "nothing"

(* s has a contract that no order for anything else was about.              *)
OwnLeg(s) == \E c \in s : \A i \in Indices : log[i].s # s => c \notin log[i].s

(* A spread is only managed with exactly the contracts that are held of it, *)
(* lot by lot, and priced at no less than they cost.  A spread with a leg   *)
(* to itself has that whatever the window cut off or the broker left out    *)
(* (recover_open_spread_entry_basis: incomplete history is omitted "so      *)
(* callers can fail closed rather than invent an entry basis"), one that    *)
(* shares both its legs with others where the history is plain.             *)
ManagedIsHeld ==
  LET recovered == Recovered
  IN \A s \in ManagedSpreads : OwnLeg(s) \/ Plain =>
       LET held == TrueLots(s)
       IN /\ Len(recovered[s]) = Len(held)
          /\ \A k \in DOMAIN held : recovered[s][k] >= held[k]

Settled ==
  /\ Plain
  /\ \A i \in Indices :
       /\ log[i].open => log[i].filled = 0
       /\ IsVertical(log[i].s)

(* The conservative direction has an end: with a complete, clear history    *)
(* and no order half filled, every vertical held is managed, shared legs or *)
(* not, so its stop-loss is watched.                                       *)
HeldIsManaged ==
  Settled => {s \in Structures : TrueLots(s) # <<>>} \subseteq ManagedSpreads

(* The order of the reads keeps the exit cycle from selling twice: with a   *)
(* plain history an exit is for no more than is held when it is sent,       *)
(* however fills, cancels and entries fall between the reads and the        *)
(* sending, and whatever legs the spreads share.  (Closed leg by leg in     *)
(* between, contracts are sold that are gone: nothing is read again.)       *)
ExitsWhatIsHeld ==
  [][Plain => \A i \in DOMAIN log' \ DOMAIN log :
       (log'[i].purpose = "exit" /\ log'[i].mleg)
         => log'[i].qty <= Len(TrueLots(log'[i].s))]_log
=============================================================================
