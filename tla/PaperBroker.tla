---------------------------- MODULE PaperBroker ----------------------------
(***************************************************************************)
(* The Alpaca paper account as the session loop of autonomous_session.py    *)
(* relies on it.  It is external: nothing here is Lockean code.  A unit is   *)
(* one spread contract; the autonomous cycle opens one unit per order       *)
(* (autonomous_cycle.py refuses any other quantity), while one exit order   *)
(* closes every unit of a structure, so only exits can fill in part.        *)
(*                                                                         *)
(* The broker answers each of get_all_positions, get_orders(OPEN) and       *)
(* get_orders(CLOSED) with its state at that call; nothing ties two calls   *)
(* together.  Wall-clock ages are counted in ticks and saturate at the      *)
(* largest threshold the code compares them with.                          *)
(***************************************************************************)
EXTENDS Naturals, FiniteSets

CONSTANTS
  Units,          \* spread units that may ever be ordered (bounds a run)
  Structures,     \* exact verticals: a pair of contract symbols
  DirectionOf,    \* bullish for a call vertical, bearish for a put one
  Expiration,     \* underlying and expiration of a structure
  LongStrike,     \* strike of the contract a structure is long of
  ShortStrike,    \* strike of the contract it is short of
  Undated,        \* entries and exits of these show no submission time
  EntryTimeout,   \* --entry-order-timeout-seconds, in ticks
  ExitTimeout,    \* --exit-order-timeout-seconds, in ticks
  DirCooldown     \* --loss-loop-direction-cooldown-seconds, in ticks

Directions == {"bullish", "bearish"}

ASSUME BrokerAssumption ==
  /\ IsFiniteSet(Units)
  /\ Structures # {}
  /\ DirectionOf \in [Structures -> Directions]
  /\ LongStrike \in [Structures -> Nat]
  /\ ShortStrike \in [Structures -> Nat]
  /\ \A s \in Structures :
       IF DirectionOf[s] = "bullish" THEN LongStrike[s] < ShortStrike[s]
                                     ELSE ShortStrike[s] < LongStrike[s]
  /\ Undated \subseteq Units \cup Structures
  /\ EntryTimeout \in Nat \ {0}
  /\ ExitTimeout \in Nat \ {0}
  /\ DirCooldown \in Nat

SameChain(s, t) ==
  Expiration[s] = Expiration[t] /\ DirectionOf[s] = DirectionOf[t]

Strikes(s) == {LongStrike[s], ShortStrike[s]}

SharesContract(s, t) == SameChain(s, t) /\ Strikes(s) \cap Strikes(t) # {}

(* Verticals that share a contract are the subject of SpreadBasis.          *)
ASSUME ApartAssumption ==
  \A s, t \in Structures : s # t => ~SharesContract(s, t)

VARIABLES
  st,           \* unit -> life cycle of the unit
  at,           \* unit -> structure it was ordered in
  age,          \* unit -> ticks since its entry order was submitted
  cancelling,   \* units whose entry order has a cancel request
  exit,         \* structure -> its working exit order
  lastStop,     \* direction and age of the latest confirmed stop-loss fill
  market,       \* the market clock
  unknownOpen   \* an open mleg order of unknown purpose exists

brokerVars == <<st, at, age, cancelling, exit, lastStop, market, unknownOpen>>

(* "sold" is filled in an exit order that is still open: out of the         *)
(* positions, not yet in the closed-order history.                          *)
UnitStates ==
  {"unused", "working", "held", "sold", "stopped", "taken", "cancelled"}

ExitOrder(tag, left, ticks) ==
  [tag |-> tag, left |-> left, age |-> ticks, fillAge |-> 0,
   cancelling |-> FALSE]

NoExit == ExitOrder("none", 0, 0)

ExitOrders == [tag : {"none", "stop", "profit"}, left : Nat,
               age : 0..ExitTimeout, fillAge : 0..DirCooldown,
               cancelling : BOOLEAN]

NoStop == [dir |-> "none", age |-> 0]

BrokerTypeOK ==
  /\ st \in [Units -> UnitStates]
  /\ at \in [Units -> Structures]
  /\ age \in [Units -> 0..EntryTimeout]
  /\ cancelling \in SUBSET Units
  /\ exit \in [Structures -> ExitOrders]
  /\ lastStop \in [dir : Directions \cup {"none"}, age : 0..DirCooldown]
  /\ market \in {"before", "open", "cutoff", "closed"}
  /\ unknownOpen \in BOOLEAN

-----------------------------------------------------------------------------
(* What one call reads.                                                     *)

InState(s) == {u \in Units : st[u] = s}
Held == InState("held")                             \* get_all_positions
Working == InState("working")                       \* open entry orders
Stopped == InState("stopped")                       \* tagged closed stops
OpenExits == {s \in Structures : exit[s].tag # "none"}
In(U, s) == {u \in U : at[u] = s}

(* Lots the closed orders still show open in s: an entry of one unit closes *)
(* when it fills, an exit only when it is filled or cancelled.              *)
OpenLots(s) == In(Held \cup InState("sold"), s)

-----------------------------------------------------------------------------
(* Entry orders.                                                            *)

AcceptEntry(u, s) ==
  /\ st[u] = "unused"
  /\ st' = [st EXCEPT ![u] = "working"]
  /\ at' = [at EXCEPT ![u] = s]
  /\ age' = [age EXCEPT ![u] = 0]
  /\ UNCHANGED <<cancelling, exit, lastStop, market, unknownOpen>>

RequestCancelEntry(u) ==
  /\ cancelling' = cancelling \cup {u}
  /\ UNCHANGED <<st, at, age, exit, lastStop, market, unknownOpen>>

MarketOpen == market \in {"open", "cutoff"}

FillEntry(u) ==
  /\ MarketOpen
  /\ st[u] = "working"
  /\ st' = [st EXCEPT ![u] = "held"]
  /\ cancelling' = cancelling \ {u}
  /\ UNCHANGED <<at, age, exit, lastStop, market, unknownOpen>>

(* A cancel request is honoured, or the day order expires at the close.     *)
CancelEntry(u) ==
  /\ st[u] = "working"
  /\ u \in cancelling \/ market = "closed"
  /\ st' = [st EXCEPT ![u] = "cancelled"]
  /\ cancelling' = cancelling \ {u}
  /\ UNCHANGED <<at, age, exit, lastStop, market, unknownOpen>>

-----------------------------------------------------------------------------
(* Exit orders.                                                             *)

PlaceExit(s, tag, n) ==
  /\ exit' = [exit EXCEPT ![s] = ExitOrder(tag, n, 0)]
  /\ UNCHANGED <<st, at, age, cancelling, lastStop, market, unknownOpen>>

ReplaceExit(s) ==
  /\ exit' = [exit EXCEPT ![s] = [@ EXCEPT !.age = 0]]
  /\ UNCHANGED <<st, at, age, cancelling, lastStop, market, unknownOpen>>

RequestCancelExits(S) ==
  /\ exit' = [s \in Structures |->
               IF s \in S THEN [exit[s] EXCEPT !.cancelling = TRUE]
                          ELSE exit[s]]
  /\ UNCHANGED <<st, at, age, cancelling, lastStop, market, unknownOpen>>

(* The exit of s closes with the units U filled in it, its latest fill      *)
(* fillAge ticks ago: the fills enter the closed-order history at once.     *)
(* The age of the order stays readable to a snapshot that already has it.   *)
CloseExit(s, U, fillAge) ==
  LET stopFill == [dir |-> DirectionOf[s], age |-> fillAge]
      isStop == exit[s].tag = "stop" /\ U # {}
  IN /\ st' = [u \in Units |->
                IF u \notin U THEN st[u]
                ELSE IF exit[s].tag = "stop" THEN "stopped" ELSE "taken"]
     /\ exit' = [exit EXCEPT ![s] = ExitOrder("none", 0, exit[s].age)]
     /\ lastStop' \in
          IF ~isStop THEN {lastStop}
          ELSE IF lastStop.dir = "none" \/ fillAge < lastStop.age
               THEN {stopFill}
          ELSE IF fillAge > lastStop.age THEN {lastStop}
          ELSE {lastStop, stopFill}
     /\ UNCHANGED <<at, age, cancelling, market, unknownOpen>>

FillExit(s, u) ==
  /\ MarketOpen
  /\ exit[s].tag # "none"
  /\ u \in In(Held, s)
  /\ \/ /\ exit[s].left = 1
        /\ CloseExit(s, In(InState("sold"), s) \cup {u}, 0)
     \/ /\ exit[s].left > 1
        /\ st' = [st EXCEPT ![u] = "sold"]
        /\ exit' = [exit EXCEPT ![s] =
                      [exit[s] EXCEPT !.left = @ - 1, !.fillAge = 0]]
        /\ UNCHANGED <<at, age, cancelling, lastStop, market, unknownOpen>>

CancelExit(s) ==
  /\ exit[s].tag # "none"
  /\ exit[s].cancelling \/ market = "closed"
  /\ CloseExit(s, In(InState("sold"), s), exit[s].fillAge)

-----------------------------------------------------------------------------
(* The market clock, foreign orders and the passing of time.                *)

MarketSuccessor ==
  [before |-> "open", open |-> "cutoff", cutoff |-> "closed",
   closed |-> "closed"]

MarketMoves ==
  /\ market # "closed"
  /\ market' = MarketSuccessor[market]
  /\ UNCHANGED <<st, at, age, cancelling, exit, lastStop, unknownOpen>>

UnknownOrder ==
  /\ unknownOpen' = ~unknownOpen
  /\ UNCHANGED <<st, at, age, cancelling, exit, lastStop, market>>

Older(n, cap) == IF n < cap THEN n + 1 ELSE cap

(* One tick for every order a call can still show: those of the sets kept.  *)
Ageing(keepUnits, keepExits) ==
  /\ age' = [u \in Units |->
              IF u \in Working \cup keepUnits
              THEN Older(age[u], EntryTimeout) ELSE 0]
  /\ exit' = [s \in Structures |->
       IF s \in OpenExits
       THEN [exit[s] EXCEPT !.age = Older(@, ExitTimeout),
                            !.fillAge = IF In(InState("sold"), s) = {} THEN 0
                                        ELSE Older(@, DirCooldown)]
       ELSE IF s \in keepExits
            THEN [exit[s] EXCEPT !.age = Older(@, ExitTimeout)]
            ELSE NoExit]
  /\ lastStop' = [lastStop EXCEPT !.age =
                    IF lastStop.dir = "none" THEN 0
                    ELSE Older(@, DirCooldown)]
  /\ UNCHANGED <<st, at, cancelling, market, unknownOpen>>
=============================================================================
