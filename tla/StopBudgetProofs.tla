-------------------------- MODULE StopBudgetProofs --------------------------
(***************************************************************************)
(* The limits of the session, for every instance.                            *)
(*                                                                         *)
(* With a limit of one stop fill, the launcher's default, the session never *)
(* exposes a second unit, however the broker fills and cancels between its  *)
(* reads and however often it is restarted.  OneStopInv is the inductive    *)
(* invariant: StopBudget alone says nothing of what the snapshot saw.       *)
(*                                                                         *)
(* Two entries are an interval apart (EntrySpacing), and where the interval *)
(* is at least the entry timeout and every entry shows when it was          *)
(* submitted, no more entries work at the broker than the session has been  *)
(* started.  From that, for a single session: one working entry, the bound  *)
(* on a vertical that no other trades its contracts with and, where all are *)
(* such and take one unit, the stop budget and its ledger for any limit.    *)
(***************************************************************************)
EXTENDS PaperSessionProofs

-----------------------------------------------------------------------------
(* Counting.                                                                *)

LEMMA EmptyCount ==
  ASSUME NEW U, U \subseteq Units, Cardinality(U) <= 0
  PROVE  U = {}
<1>1. IsFiniteSet(U) /\ Cardinality(U) = 0
  BY UnitsCount
<1> QED
  BY <1>1, FS_EmptySet

LEMMA OneCount ==
  ASSUME NEW U, U \subseteq Units, \A u, v \in U : u = v
  PROVE  Cardinality(U) <= 1
<1>1. CASE U = {}
  BY <1>1, FS_EmptySet
<1>2. CASE U # {}
  <2> PICK u \in U : TRUE
    BY <1>2
  <2>1. U = {u}
    OBVIOUS
  <2> QED
    BY <2>1, FS_Singleton
<1> QED
  BY <1>1, <1>2

(* A snapshot within a capacity of one shows no unit, no entry, no stop.    *)
LEMMA WithinOne ==
  ASSUME MaxStops = 1, SessionTypeOK, NEW l \in Losses,
         WithinStopCapacity(l)
  PROVE  view.positions = {} /\ view.entries = {} /\ l.stops = 0
<1>1. /\ view.positions \subseteq Units /\ view.entries \subseteq Units
      /\ l.stops \in Nat
  BY DEF SessionTypeOK, Views, Losses
<1>2. /\ CommittedUnits \in Nat
      /\ CommittedUnits >= Cardinality(view.positions)
      /\ CommittedUnits >= Cardinality(view.entries)
  BY <1>1, UnitsCount DEF CommittedUnits
<1>3. l.stops = 0 /\ CommittedUnits < 1
  BY <1>1, <1>2 DEF WithinStopCapacity, StopCapacity, HaltsAll
<1>4. Cardinality(view.positions) <= 0 /\ Cardinality(view.entries) <= 0
  BY <1>1, <1>2, <1>3, UnitsCount
<1> QED
  BY <1>1, <1>3, <1>4, EmptyCount

(* What an invariant inherits when the account is left alone.               *)
LEMMA AccountUnchanged ==
  ASSUME OneStopInv, UNCHANGED brokerVars
  PROVE  /\ OneExposed' /\ NoneSold' /\ SmallExits'
         /\ Working' = Working /\ Held' = Held /\ Exposed' = Exposed
         /\ Stopped' = Stopped
BY DEF OneStopInv, OneExposed, NoneSold, SmallExits, Working, Held, Exposed,
       Stopped, InState, brokerVars

-----------------------------------------------------------------------------
(* The session's steps.                                                     *)

LEMMA OneStopReading ==
  ASSUME TypeInv, OneStopInv,
         ReadPositions \/ ReadOrders \/ ReadLossState \/ CancelNext
  PROVE  OneStopInv'
<1>1. CASE UNCHANGED brokerVars
  <2>1. /\ OneExposed' /\ NoneSold' /\ SmallExits'
        /\ Working' = Working
    BY <1>1, AccountUnchanged
  <2>2. /\ pc' \notin {"submitExit", "maintain", "propose", "positions2",
                      "orders2", "loss2", "submit"}
        /\ pc' \in {"loss", "exit"} => Working \subseteq view'.entries
    <3>1. CASE ReadPositions
      BY <3>1 DEF ReadPositions, IterationFails
    <3>2. CASE ReadOrders
      <4>1. CASE IterationFails
        BY <4>1 DEF IterationFails
      <4>2. CASE view' = ReadOpenOrders(view)
        <5>1. view'.entries = Working
          BY <4>2 DEF TypeInv, TypeOK, SessionTypeOK, Views, ReadOpenOrders
        <5> QED
          BY <3>2, <4>2, <5>1 DEF ReadOrders, Cleanup, IterationFails
      <4> QED
        BY <3>2, <4>1, <4>2 DEF ReadOrders
    <3>3. CASE ReadLossState
      BY <3>3 DEF ReadLossState, Cleanup, OneStopInv, EntriesSeen
    <3>4. CASE CancelNext
      BY <3>4 DEF CancelNext, CancelOrder, IterationFails
    <3> QED
      BY <3>1, <3>2, <3>3, <3>4
  <2> QED
    BY <2>1, <2>2
       DEF OneStopInv, SmallPlan, EntriesSeen, NoneWorking, HeldSeen,
           NoneExposed
<1>2. CASE \E u \in todo : CancelOrder(u) /\ RequestCancelEntry(u)
  <2>1. /\ OneExposed' /\ NoneSold' /\ SmallExits'
        /\ pc' \in {"sleep", "cancel"}
    BY <1>2
       DEF OneStopInv, OneExposed, NoneSold, SmallExits, Exposed, InState,
           CancelOrder, RequestCancelEntry
  <2> QED
    BY <2>1
       DEF OneStopInv, SmallPlan, EntriesSeen, NoneWorking, HeldSeen,
           NoneExposed
<1>3. UNCHANGED brokerVars \/ \E u \in todo : /\ CancelOrder(u)
                                              /\ RequestCancelEntry(u)
  BY DEF ReadPositions, ReadOrders, ReadLossState, CancelNext, CancelOrder,
         IterationFails
<1> QED
  BY <1>1, <1>2, <1>3

(* The exit the exit cycle plans covers at most one unit.                   *)
LEMMA PlannedExitSmall ==
  ASSUME OneStopInv, NEW s
  PROVE  Cardinality(OpenLots(s)) <= 1
<1>1. OpenLots(s) \subseteq Units /\ OpenLots(s) \subseteq Exposed
  BY DEF OpenLots, In, Held, InState, Exposed
<1> QED
  BY <1>1, OneCount DEF OneStopInv, OneExposed

LEMMA AfterExitKeeps ==
  ASSUME NEW b, AfterExit(b)
  PROVE  pc' \in {"sleep", "cancel", "maintain"}
BY DEF AfterExit, Cleanup

(* A check that ends blocked never reaches the gate.                        *)
LEMMA BlockedExitKeeps ==
  ASSUME AfterExit(TRUE)
  PROVE  pc' \in {"sleep", "cancel"}
BY DEF AfterExit, Cleanup

LEMMA OneStopExit ==
  ASSUME TypeInv, OneStopInv,
         ExitCheck \/ ExitCheckBlind \/ CancelExits \/ SubmitExit
  PROVE  OneStopInv'
<1>1. st' = st /\ view' = view
  BY DEF ExitCheck, ExitCheckBlind, CancelExits, SubmitExit, brokerVars,
         RequestCancelExits, ReplaceExit, PlaceExit
<1>2. /\ OneExposed' /\ NoneSold' /\ Working' = Working
  BY <1>1 DEF OneStopInv, OneExposed, NoneSold, Working, Exposed, InState
<1>3. SmallExits'
  <2>1. \A s \in Structures : exit[s] \in ExitOrders
    BY DEF TypeInv, TypeOK, BrokerTypeOK
  <2>2. ASSUME NEW s \in Structures
        PROVE  exit'[s].left <= 1
    <3>1. exit[s].left <= 1
      BY DEF OneStopInv, SmallExits
    <3>2. CASE UNCHANGED brokerVars
      BY <3>1, <3>2 DEF brokerVars
    <3>3. CASE \E S : RequestCancelExits(S)
      BY <3>1, <3>3, <2>1 DEF RequestCancelExits, ExitOrders
    <3>4. CASE \E r \in Structures : ReplaceExit(r)
      BY <3>1, <3>4, <2>1
         DEF ReplaceExit, ExitOrders, TypeInv, TypeOK, BrokerTypeOK
    <3>5. CASE pc = "submitExit" /\ PlaceExit(plan.s, plan.tag, plan.n)
      <4>1. plan.n <= 1
        BY <3>5 DEF OneStopInv, SmallPlan
      <4> QED
        BY <3>1, <3>5, <4>1
           DEF PlaceExit, ExitOrder, TypeInv, TypeOK, BrokerTypeOK
    <3> QED
      BY <3>2, <3>3, <3>4, <3>5
         DEF ExitCheck, ExitCheckBlind, CancelExits, SubmitExit, StaleExits,
             PendingExits
  <2> QED
    BY <2>2 DEF SmallExits
<1>4. pc' \in {"sleep", "cancel", "maintain", "cancelExits", "submitExit"}
  BY AfterExitKeeps DEF ExitCheck, ExitCheckBlind, CancelExits, SubmitExit
<1>5. SmallPlan'
  <2>1. CASE \E b \in BOOLEAN : AfterExit(b)
    BY <2>1, AfterExitKeeps DEF SmallPlan
  <2>3. CASE pc' = "cancelExits"
    BY <2>3 DEF SmallPlan
  <2>2. CASE \E s \in Structures, tag \in {"stop", "profit"} :
               plan' = [s |-> s, tag |-> tag, n |-> Cardinality(OpenLots(s))]
    BY <2>2, PlannedExitSmall DEF SmallPlan
  <2> QED
    BY <2>1, <2>2, <2>3
       DEF ExitCheck, ExitCheckBlind, CancelExits, SubmitExit, Reconciled
<1>6. EntriesSeen'
  <2>1. CASE ExitCheck \/ ExitCheckBlind \/ SubmitExit
    BY <1>1, <1>2, <2>1
       DEF OneStopInv, EntriesSeen, ExitCheck, ExitCheckBlind, SubmitExit
  <2>2. CASE CancelExits
    BY <2>2, BlockedExitKeeps DEF CancelExits, EntriesSeen
  <2> QED
    BY <2>1, <2>2
<1> QED
  BY <1>2, <1>3, <1>4, <1>5, <1>6
     DEF OneStopInv, NoneWorking, HeldSeen, NoneExposed

LEMMA OneStopMaintain ==
  ASSUME MaxStops = 1, TypeInv, OneStopInv, MaintainEntries
  PROVE  OneStopInv'
<1>1. /\ OneExposed' /\ NoneSold' /\ SmallExits' /\ Working' = Working
  BY AccountUnchanged DEF MaintainEntries
<1>2. pc' \in {"cancel", "sleep", "propose"}
  BY DEF MaintainEntries
<1>3. pc' = "propose" => Working = {}
  <2>1. SessionTypeOK /\ loss \in Losses
    BY DEF TypeInv, TypeOK, SessionTypeOK
  <2>2. pc' = "propose" => WithinStopCapacity(loss)
    BY DEF MaintainEntries, GateOpen
  <2>3. Working \subseteq view.entries
    BY DEF MaintainEntries, OneStopInv, EntriesSeen
  <2> QED
    BY <2>1, <2>2, <2>3, WithinOne
<1> QED
  BY <1>1, <1>2, <1>3
     DEF OneStopInv, SmallPlan, EntriesSeen, NoneWorking, HeldSeen,
         NoneExposed

LEMMA OneStopCycle ==
  ASSUME MaxStops = 1, TypeInv, OneStopInv,
         Propose \/ ReadPositionsAgain \/ ReadOrdersAgain \/ ReadLossAgain
  PROVE  OneStopInv'
<1>1. /\ OneExposed' /\ NoneSold' /\ SmallExits'
      /\ Working' = Working /\ Held' = Held /\ Exposed' = Exposed
      /\ Stopped' = Stopped
  BY AccountUnchanged
     DEF Propose, ReadPositionsAgain, ReadOrdersAgain, ReadLossAgain,
         IterationFails
<1>2. /\ pc' \in {"sleep", "positions2", "orders2", "loss2", "submit"}
      /\ pc' \in {"positions2", "orders2", "loss2"} => Working = {}
  BY DEF Propose, ReadPositionsAgain, ReadOrdersAgain, ReadLossAgain,
         IterationFails, OneStopInv, NoneWorking
<1>3. SessionTypeOK
  BY DEF TypeInv, TypeOK
<1>4. pc' \in {"orders2", "loss2"} => Held \subseteq view'.positions
  <2>1. CASE ReadPositionsAgain
    BY <2>1 DEF ReadPositionsAgain, IterationFails, NoView
  <2>2. CASE ReadOrdersAgain
    <3>1. pc' = "loss2" => view'.positions = view.positions
      BY <2>2, <1>3
         DEF ReadOrdersAgain, IterationFails, ReadOpenOrders, SessionTypeOK,
             Views
    <3> QED
      BY <2>2, <3>1
         DEF ReadOrdersAgain, IterationFails, OneStopInv, HeldSeen
  <2>3. CASE Propose \/ ReadLossAgain
    BY <2>3 DEF Propose, ReadLossAgain, IterationFails
  <2> QED
    BY <2>1, <2>2, <2>3
<1>5. pc' = "submit" => Exposed = {}
  <2> SUFFICES ASSUME pc' = "submit" PROVE Exposed = {}
    OBVIOUS
  <2>1. ReadLossAgain /\ ~IterationFails
    BY DEF Propose, ReadPositionsAgain, ReadOrdersAgain, IterationFails
  <2>2. LossRead \in Losses
    BY LossReadType DEF TypeInv, TypeOK
  <2>3. WithinStopCapacity(LossRead)
    BY <2>1 DEF ReadLossAgain
  <2>4. view.positions = {} /\ LossRead.stops = 0
    BY <1>3, <2>2, <2>3, WithinOne
  <2>5. Stopped = {}
    BY <2>4, EmptyCount, FS_EmptySet DEF LossRead, Stopped, InState
  <2>6. Held = {} /\ Working = {} /\ InState("sold") = {}
    BY <2>1, <2>4
       DEF ReadLossAgain, OneStopInv, HeldSeen, NoneWorking, NoneSold
  <2> QED
    BY <2>5, <2>6 DEF Exposed, Working, Held, Stopped, InState
<1> QED
  BY <1>1, <1>2, <1>4, <1>5
     DEF OneStopInv, SmallPlan, EntriesSeen, NoneWorking, HeldSeen,
         NoneExposed

(* The one step that exposes a unit: nothing else was exposed before it.    *)
LEMMA OneStopSubmit ==
  ASSUME TypeInv, OneStopInv, SubmitEntry
  PROVE  OneStopInv'
<1>1. pc' = "sleep"
  BY DEF SubmitEntry
<1>2. OneExposed' /\ NoneSold' /\ SmallExits'
  <2>1. CASE UNCHANGED brokerVars
    BY <2>1, AccountUnchanged
  <2>2. CASE \E u \in Units : AcceptEntry(u, proposal)
    <3> PICK u \in Units : AcceptEntry(u, proposal)
      BY <2>2
    <3>1. Exposed = {}
      BY DEF SubmitEntry, OneStopInv, NoneExposed
    <3>2. /\ st \in [Units -> UnitStates] /\ exit' = exit
          /\ st' = [st EXCEPT ![u] = "working"]
      BY DEF AcceptEntry, TypeInv, TypeOK, BrokerTypeOK
    <3>3. Exposed' \subseteq {u}
      BY <3>1, <3>2 DEF Exposed
    <3>4. NoneSold'
      BY <3>2 DEF OneStopInv, NoneSold, InState
    <3> QED
      BY <3>2, <3>3, <3>4 DEF OneStopInv, OneExposed, SmallExits
  <2> QED
    BY <2>1, <2>2 DEF SubmitEntry
<1> QED
  BY <1>1, <1>2
     DEF OneStopInv, SmallPlan, EntriesSeen, NoneWorking, HeldSeen,
         NoneExposed

LEMMA OneStopPauses ==
  ASSUME TypeInv, OneStopInv, Sleep \/ Delay \/ Restart
  PROVE  OneStopInv'
<1>1. st' = st
  BY DEF Sleep, Delay, Restart, Ageing, brokerVars
<1>2. /\ OneExposed' /\ NoneSold' /\ Working' = Working
      /\ Held' = Held /\ Exposed' = Exposed
  BY <1>1 DEF OneStopInv, OneExposed, NoneSold, Working, Held, Exposed, InState
<1>3. SmallExits'
  <2> SUFFICES ASSUME NEW s \in Structures
               PROVE  exit'[s].left <= 1
    BY DEF SmallExits
  <2>1. exit[s] \in ExitOrders /\ exit[s].left <= 1
    BY DEF TypeInv, TypeOK, BrokerTypeOK, OneStopInv, SmallExits
  <2>2. CASE Restart
    BY <2>1, <2>2 DEF Restart, brokerVars
  <2>3. ASSUME NEW U, NEW S, Ageing(U, S)
        PROVE  exit'[s].left <= 1
    <3>1. exit'[s].left = exit[s].left \/ exit'[s] = NoExit
      BY <2>1, <2>3 DEF Ageing, ExitOrders
    <3>2. NoExit.left = 0
      BY DEF NoExit, ExitOrder
    <3> QED
      BY <2>1, <3>1, <3>2
  <2> QED
    BY <2>2, <2>3 DEF Sleep, Delay
<1>4. CASE Sleep \/ Restart
  <2>1. pc' = "positions"
    BY <1>4 DEF Sleep, Restart
  <2> QED
    BY <1>2, <1>3, <2>1
       DEF OneStopInv, SmallPlan, EntriesSeen, NoneWorking, HeldSeen,
           NoneExposed
<1>5. CASE Delay
  BY <1>2, <1>3, <1>5
     DEF Delay, OneStopInv, SmallPlan, EntriesSeen, NoneWorking, HeldSeen,
         NoneExposed
<1> QED
  BY <1>4, <1>5

-----------------------------------------------------------------------------
(* The account's own steps.                                                 *)

(* While no exit covers more than one unit, none is ever filled in part, so *)
(* the account can only move units from working to held and out of both.    *)
LEMMA SmallBroker ==
  ASSUME TypeInv, NoneSold, SmallExits, BrokerStep
  PROVE  /\ Exposed' \subseteq Exposed /\ Working' \subseteq Working
         /\ Held' \subseteq Held \cup Working
         /\ Stopped' \subseteq Stopped \cup Held
         /\ NoneSold' /\ SmallExits'
<1>1. /\ st \in [Units -> UnitStates]
      /\ \A s \in Structures : exit[s] \in ExitOrders /\ exit[s].left <= 1
      /\ exit \in [Structures -> ExitOrders] /\ InState("sold") = {}
  BY DEF TypeInv, TypeOK, BrokerTypeOK, SmallExits, NoneSold
<1>2. /\ Exposed' \subseteq Exposed /\ Working' \subseteq Working
      /\ Held' \subseteq Held \cup Working
      /\ Stopped' \subseteq Stopped \cup Held
      /\ NoneSold' /\ SmallExits'
  <2>1. CASE \E u \in Units : FillEntry(u) \/ CancelEntry(u)
    BY <1>1, <2>1
       DEF FillEntry, CancelEntry, Exposed, Working, Held, Stopped, NoneSold,
             InState,
           SmallExits
  <2>2. ASSUME NEW s \in Structures, NEW U \in SUBSET Held,
               NEW fillAge, CloseExit(s, U, fillAge)
        PROVE  /\ Exposed' \subseteq Exposed /\ Working' \subseteq Working
               /\ Held' \subseteq Held \cup Working
               /\ Stopped' \subseteq Stopped \cup Held
               /\ NoneSold' /\ SmallExits'
    <3>1. /\ st' = [u \in Units |->
                     IF u \notin U THEN st[u]
                     ELSE IF exit[s].tag = "stop" THEN "stopped" ELSE "taken"]
          /\ exit' = [exit EXCEPT ![s] = ExitOrder("none", 0, exit[s].age)]
      BY <2>2 DEF CloseExit
    <3>2. U \subseteq Exposed
      BY DEF Held, Exposed, InState
    <3>3. SmallExits'
      BY <1>1, <3>1 DEF SmallExits, ExitOrder
    <3> QED
      BY <1>1, <3>1, <3>2, <3>3
         DEF Exposed, Working, Held, Stopped, NoneSold,
             InState
  <2>3. CASE \E s \in Structures : CancelExit(s)
    <3>1. \A s : In(InState("sold"), s) = {}
      BY <1>1 DEF In
    <3> QED
      BY <2>2, <2>3, <3>1 DEF CancelExit
  <2>4. CASE \E s \in Structures, u \in Units : FillExit(s, u)
    <3> PICK s \in Structures, u \in Units : FillExit(s, u)
      BY <2>4
    <3>1. ~(exit[s].left > 1)
      BY <1>1 DEF ExitOrders
    <3>2. /\ CloseExit(s, In(InState("sold"), s) \cup {u}, 0)
          /\ u \in Held
      BY <3>1 DEF FillExit, In
    <3>3. In(InState("sold"), s) \cup {u} \in SUBSET Held
      BY <1>1, <3>2 DEF In
    <3> QED
      BY <2>2, <3>2, <3>3
  <2>5. CASE MarketMoves \/ (AllowUnknown /\ UnknownOrder)
    BY <1>1, <2>5
       DEF MarketMoves, UnknownOrder, Exposed, Working, Held, Stopped,
           NoneSold, InState, SmallExits
  <2> QED
    BY <2>1, <2>3, <2>4, <2>5 DEF BrokerStep
<1> QED
  BY <1>2

LEMMA OneStopBroker ==
  ASSUME TypeInv, OneStopInv, BrokerStep
  PROVE  OneStopInv'
<1>2. /\ Exposed' \subseteq Exposed /\ Working' \subseteq Working
      /\ Held' \subseteq Held \cup Working
      /\ NoneSold' /\ SmallExits'
  BY SmallBroker DEF OneStopInv
<1>3. OneExposed'
  BY <1>2 DEF OneStopInv, OneExposed
<1>4. UNCHANGED <<pc, plan, view>>
  BY DEF BrokerStep, sessionVars
<1> QED
  BY <1>2, <1>3, <1>4
     DEF OneStopInv, SmallPlan, EntriesSeen, NoneWorking, HeldSeen,
         NoneExposed

-----------------------------------------------------------------------------
LEMMA OneStopInit == Init => OneStopInv
BY NoExitType
   DEF Init, OneStopInv, OneExposed, NoneSold, SmallExits, SmallPlan,
       EntriesSeen, NoneWorking, HeldSeen, NoneExposed, Exposed, InState,
       NoExit, ExitOrder

LEMMA OneStopNext ==
  ASSUME MaxStops = 1
  PROVE  TypeInv /\ OneStopInv /\ [Next]_vars => OneStopInv'
<1> SUFFICES ASSUME TypeInv, OneStopInv, [Next]_vars PROVE OneStopInv'
  OBVIOUS
<1>1. CASE SessionStep
  BY <1>1, OneStopReading, OneStopExit, OneStopMaintain, OneStopCycle,
     OneStopSubmit, OneStopPauses DEF SessionStep
<1>2. CASE BrokerStep
  BY <1>2, OneStopBroker
<1>3. CASE Delay \/ Restart
  BY <1>3, OneStopPauses
<1>4. CASE Finished \/ UNCHANGED vars
  BY <1>4
     DEF Finished, vars, brokerVars, sessionVars, OneStopInv, OneExposed,
         NoneSold, SmallExits, SmallPlan, EntriesSeen, NoneWorking, HeldSeen,
         NoneExposed, Exposed, Working, Held, InState
<1> QED
  BY <1>1, <1>2, <1>3, <1>4 DEF Next

LEMMA OneStopBounds ==
  ASSUME MaxStops = 1
  PROVE  OneStopInv => StopBudget
<1> SUFFICES ASSUME OneStopInv PROVE StopBudget
  OBVIOUS
<1>1. AtRisk \cup Stopped \subseteq Exposed /\ AtRisk \cup Stopped \subseteq Units
  BY DEF AtRisk, Stopped, Exposed, InState
<1> QED
  BY <1>1, OneCount DEF OneStopInv, OneExposed, StopBudget

(* With a limit of one, the invariant that explains the budget always holds.*)
THEOREM OneStopInvariant ==
  ASSUME MaxStops = 1
  PROVE  Spec => []OneStopInv
<1>1. Spec => []TypeInv
  BY TypeInit, TypeNext, PTL DEF Spec
<1> QED
  BY <1>1, OneStopInit, OneStopNext, PTL DEF Spec

(* The launcher's limit of one stop fill is kept across any interleaving of *)
(* fills, cancels, faults, slow calls and restarts, for every instance.     *)
THEOREM OneStopBudget ==
  ASSUME MaxStops = 1
  PROVE  Spec => []StopBudget
BY OneStopInvariant, OneStopBounds, PTL

-----------------------------------------------------------------------------
(* The session implements the ledger: the only step that admits a unit is   *)
(* the acknowledged or lost submission, and it finds the ledger empty.      *)

LEMMA AtRiskUnits ==
  ASSUME NoneSold
  PROVE  AtRisk = Working \cup Held
BY DEF NoneSold, AtRisk, Working, Held, InState

LEMMA LedgerSame ==
  ASSUME NoneSold, NoneSold', st' = st
  PROVE  UNCHANGED <<AtRisk, Stopped>>
<1>1. AtRisk = Working \cup Held /\ (AtRisk = Working \cup Held)'
  BY AtRiskUnits, PTL
<1> QED
  BY <1>1 DEF Working, Held, Stopped, InState

(* The instance counts with the same function as this module.               *)
LEMMA LedgerCount ==
  ASSUME NEW S
  PROVE  Ledger!Cardinality(S) = Cardinality(S)
BY Zenon DEF Ledger!Cardinality, Cardinality

LEMMA LedgerSubmit ==
  ASSUME TypeInv, NoneSold, NoneSold', SubmitEntry,
         Cardinality(AtRisk \cup Stopped) < MaxStops
  PROVE  [Ledger!Next]_<<AtRisk, Stopped>>
<1>1. NoneSold /\ NoneSold'
  OBVIOUS
<1>2. CASE UNCHANGED brokerVars
  BY <1>1, <1>2, LedgerSame DEF brokerVars
<1>3. CASE \E u \in Units : AcceptEntry(u, proposal)
  <2> PICK u \in Units : AcceptEntry(u, proposal)
    BY <1>3
  <2>1. /\ st \in [Units -> UnitStates] /\ st[u] = "unused"
        /\ st' = [st EXCEPT ![u] = "working"]
    BY DEF AcceptEntry, TypeInv, TypeOK, BrokerTypeOK
  <2>2. AtRisk = Working \cup Held /\ (AtRisk = Working \cup Held)'
    BY <1>1, AtRiskUnits, PTL
  <2>3. /\ Working' = Working \cup {u} /\ Held' = Held /\ Stopped' = Stopped
        /\ u \notin Working \cup Held \cup Stopped
    BY <2>1 DEF Working, Held, Stopped, InState
  <2>4. /\ u \notin AtRisk \cup Stopped
        /\ AtRisk' = AtRisk \cup {u} /\ Stopped' = Stopped
    BY <2>2, <2>3
  <2>5. Ledger!Cardinality(AtRisk \cup Stopped) < MaxStops
    BY LedgerCount
  <2>7. Ledger!Admit(u)
    BY <2>4, <2>5, Zenon DEF Ledger!Admit
  <2> QED
    BY <2>7 DEF Ledger!Next
<1> QED
  BY <1>2, <1>3 DEF SubmitEntry

LEMMA LedgerBroker ==
  ASSUME TypeInv, NoneSold, NoneSold', SmallExits, BrokerStep
  PROVE  [Ledger!Next]_<<AtRisk, Stopped>>
<1>1. /\ st \in [Units -> UnitStates]
      /\ \A s \in Structures : exit[s] \in ExitOrders /\ exit[s].left <= 1
      /\ InState("sold") = {} /\ NoneSold /\ NoneSold'
  BY DEF TypeInv, TypeOK, BrokerTypeOK, SmallExits, NoneSold
<1>2. AtRisk = Working \cup Held /\ (AtRisk = Working \cup Held)'
  BY <1>1, AtRiskUnits, PTL
<1>3. CASE \E u \in Units : FillEntry(u)
  BY <1>1, <1>2, <1>3 DEF FillEntry, Working, Held, Stopped, InState
<1>4. CASE \E u \in Units : CancelEntry(u)
  <2> PICK u \in Units : CancelEntry(u)
    BY <1>4
  <2>1. AtRisk' = AtRisk \ {u} /\ Stopped' = Stopped /\ u \in AtRisk
    BY <1>1, <1>2 DEF CancelEntry, Working, Held, Stopped, InState
  <2>2. Ledger!Release({u})
    BY <2>1 DEF Ledger!Release
  <2> QED
    BY <2>2 DEF Ledger!Next
<1>5. ASSUME NEW s \in Structures, NEW U \in SUBSET Held,
             NEW fillAge, CloseExit(s, U, fillAge)
      PROVE  [Ledger!Next]_<<AtRisk, Stopped>>
  <2>1. st' = [u \in Units |->
                IF u \notin U THEN st[u]
                ELSE IF exit[s].tag = "stop" THEN "stopped" ELSE "taken"]
    BY <1>5 DEF CloseExit
  <2>2. U \subseteq AtRisk /\ U \in SUBSET Units
    BY <1>2 DEF Held, InState
  <2>3. AtRisk' = AtRisk \ U
    BY <1>1, <1>2, <2>1 DEF Working, Held, InState
  <2>4. Stopped' = IF exit[s].tag = "stop" THEN Stopped \cup U ELSE Stopped
    BY <1>1, <2>1, <2>2 DEF Stopped, Held, InState
  <2>5. CASE U = {}
    BY <2>3, <2>4, <2>5
  <2>6. CASE U # {} /\ exit[s].tag = "stop"
    <3>1. Ledger!Stop(U)
      BY <2>2, <2>3, <2>4, <2>6 DEF Ledger!Stop
    <3> QED
      BY <2>2, <3>1 DEF Ledger!Next
  <2>7. CASE U # {} /\ exit[s].tag # "stop"
    <3>1. Ledger!Release(U)
      BY <2>2, <2>3, <2>4, <2>7 DEF Ledger!Release
    <3> QED
      BY <2>2, <3>1 DEF Ledger!Next
  <2> QED
    BY <2>5, <2>6, <2>7
<1>6. CASE \E s \in Structures : CancelExit(s)
  <2>1. \A s : In(InState("sold"), s) = {}
    BY <1>1 DEF In
  <2> QED
    BY <1>5, <1>6, <2>1 DEF CancelExit
<1>7. CASE \E s \in Structures, u \in Units : FillExit(s, u)
  <2> PICK s \in Structures, u \in Units : FillExit(s, u)
    BY <1>7
  <2>1. ~(exit[s].left > 1)
    BY <1>1 DEF ExitOrders
  <2>2. /\ CloseExit(s, In(InState("sold"), s) \cup {u}, 0)
        /\ u \in Held
    BY <2>1 DEF FillExit, In
  <2>3. In(InState("sold"), s) \cup {u} \in SUBSET Held
    BY <1>1, <2>2 DEF In
  <2> QED
    BY <1>5, <2>2, <2>3
<1>8. CASE MarketMoves \/ (AllowUnknown /\ UnknownOrder)
  BY <1>1, <1>8, LedgerSame DEF MarketMoves, UnknownOrder
<1> QED
  BY <1>3, <1>4, <1>6, <1>7, <1>8 DEF BrokerStep

LEMMA LedgerNext ==
  ASSUME TypeInv, NoneSold, NoneSold', SmallExits, [Next]_vars,
         pc = "submit" => Cardinality(AtRisk \cup Stopped) < MaxStops
  PROVE  [Ledger!Next]_<<AtRisk, Stopped>>
<1>1. NoneSold /\ NoneSold'
  OBVIOUS
<1>2. CASE SubmitEntry
  BY <1>2, LedgerSubmit DEF SubmitEntry
<1>3. CASE BrokerStep
  BY <1>3, LedgerBroker
<1>4. CASE st' = st
  BY <1>1, <1>4, LedgerSame
<1>5. SubmitEntry \/ BrokerStep \/ st' = st
  <2>1. CASE SessionStep
    BY <2>1
       DEF SessionStep, ReadPositions, ReadOrders, ReadLossState, CancelNext,
           CancelOrder, ExitCheck, ExitCheckBlind, CancelExits, SubmitExit,
           MaintainEntries, Propose,
           ReadPositionsAgain, ReadOrdersAgain, ReadLossAgain, Sleep,
           IterationFails, brokerVars, RequestCancelEntry, RequestCancelExits,
           ReplaceExit, PlaceExit, Ageing
  <2>2. CASE Delay \/ Restart \/ Finished \/ UNCHANGED vars
    BY <2>2 DEF Delay, Restart, Finished, vars, brokerVars, Ageing
  <2> QED
    BY <2>1, <2>2 DEF Next
<1> QED
  BY <1>2, <1>3, <1>4, <1>5

LEMMA LedgerInit == Init => Ledger!Init
BY DEF Init, Ledger!Init, AtRisk, Stopped, InState

(* Refinement: with a limit of one, every behaviour of the session and the  *)
(* account, seen as units at risk and units stopped, is one of the ledger.  *)
THEOREM OneStopLedger ==
  ASSUME MaxStops = 1
  PROVE  Spec => ImplementsLedger
<1>1. Spec => []TypeInv
  BY TypeInit, TypeNext, PTL DEF Spec
<1>2. Spec => []OneStopInv
  BY OneStopInvariant
<1>3. TypeInv /\ OneStopInv /\ OneStopInv' /\ [Next]_vars
        => [Ledger!Next]_<<AtRisk, Stopped>>
  <2> SUFFICES ASSUME TypeInv, OneStopInv, OneStopInv', [Next]_vars
               PROVE  [Ledger!Next]_<<AtRisk, Stopped>>
    OBVIOUS
  <2>1. NoneSold /\ NoneSold' /\ SmallExits
    BY DEF OneStopInv
  <2>2. pc = "submit" => Cardinality(AtRisk \cup Stopped) < MaxStops
    <3>1. pc = "submit" => AtRisk \cup Stopped = {}
      BY DEF OneStopInv, NoneExposed, Exposed, AtRisk, Stopped, InState
    <3> QED
      BY <3>1, FS_EmptySet
  <2> QED
    BY <2>1, <2>2, LedgerNext
<1> QED
  BY <1>1, <1>2, <1>3, LedgerInit, PTL DEF Spec, ImplementsLedger, Ledger!Spec

-----------------------------------------------------------------------------
(* The entry cadence.                                                       *)

(* Calls of the entry cycle, from the gate's decision to the submission.    *)
Cycle == {"propose", "positions2", "orders2", "loss2", "submit"}

-----------------------------------------------------------------------------
(* The loop counts the time it slept, the account counts all of it: what is *)
(* left of a timer is never less than what is left of the interval itself.  *)

Apart == lastSent.age + checkIn >= Interval

Cooled == lastSent.acked => lastSent.age + cooldown >= Cooldown

DueInCycle ==
  pc \in Cycle => /\ checkIn = Interval
                  /\ lastSent.age >= Interval
                  /\ lastSent.acked => lastSent.age >= Cooldown

SpacingInv == Apart /\ Cooled /\ DueInCycle

(* The steps that touch neither the timers nor an entry order.              *)
Calm ==
  /\ UNCHANGED <<checkIn, cooldown, lastSent, restarts>>
  /\ UNCHANGED <<st, at, age>>
  /\ pc' \in Cycle => pc \in Cycle

LEMMA CalmSteps ==
  ASSUME \/ ReadPositions \/ ReadOrders \/ ReadLossState \/ CancelNext
         \/ ExitCheck \/ ExitCheckBlind \/ CancelExits \/ SubmitExit
         \/ Propose \/ ReadPositionsAgain \/ ReadOrdersAgain \/ ReadLossAgain
  PROVE  Calm
<1>1. CASE ReadPositions \/ ReadOrders \/ ReadLossState \/ CancelNext
  <2>1. UNCHANGED <<checkIn, cooldown, lastSent, restarts>>
    BY <1>1
       DEF ReadPositions, ReadOrders, ReadLossState, CancelNext, CancelOrder,
           IterationFails, Timers, History
  <2>2. UNCHANGED <<st, at, age>>
    BY <1>1
       DEF ReadPositions, ReadOrders, ReadLossState, CancelNext, CancelOrder,
           IterationFails, RequestCancelEntry, brokerVars
  <2>3. pc' \in {"orders", "loss", "exit", "sleep", "cancel", "done"}
    BY <1>1
       DEF ReadPositions, ReadOrders, ReadLossState, CancelNext, CancelOrder,
           IterationFails, Cleanup
  <2> QED
    BY <2>1, <2>2, <2>3 DEF Calm, Cycle
<1>2. CASE ExitCheck \/ ExitCheckBlind \/ CancelExits \/ SubmitExit
  <2>1. UNCHANGED <<checkIn, cooldown, lastSent, restarts>>
    BY <1>2
       DEF ExitCheck, ExitCheckBlind, CancelExits, SubmitExit, Timers, History
  <2>2. UNCHANGED <<st, at, age>>
    BY <1>2
       DEF ExitCheck, ExitCheckBlind, CancelExits, SubmitExit,
           RequestCancelExits, ReplaceExit, PlaceExit, brokerVars
  <2>3. pc' \in {"sleep", "cancel", "maintain", "cancelExits", "submitExit"}
    BY <1>2, AfterExitKeeps
       DEF ExitCheck, ExitCheckBlind, CancelExits, SubmitExit
  <2> QED
    BY <2>1, <2>2, <2>3 DEF Calm, Cycle
<1>3. CASE Propose \/ ReadPositionsAgain \/ ReadOrdersAgain \/ ReadLossAgain
  <2>1. UNCHANGED <<checkIn, cooldown, lastSent, restarts>>
    BY <1>3
       DEF Propose, ReadPositionsAgain, ReadOrdersAgain, ReadLossAgain,
           IterationFails, Timers, History
  <2>2. UNCHANGED <<st, at, age>>
    BY <1>3
       DEF Propose, ReadPositionsAgain, ReadOrdersAgain, ReadLossAgain,
           IterationFails, brokerVars
  <2>3. pc \in Cycle
    BY <1>3
       DEF Propose, ReadPositionsAgain, ReadOrdersAgain, ReadLossAgain, Cycle
  <2> QED
    BY <2>1, <2>2, <2>3 DEF Calm
<1> QED
  BY <1>1, <1>2, <1>3

(* What the invariant needs of the types.                                   *)
LEMMA TimersAreNumbers ==
  ASSUME TypeInv
  PROVE  /\ checkIn \in Nat /\ checkIn <= Interval
         /\ cooldown \in Nat /\ cooldown <= Cooldown
         /\ lastSent.age \in Nat /\ lastSent.age <= SentCap
         /\ lastSent.acked \in BOOLEAN
         /\ Interval \in Nat /\ Cooldown \in Nat /\ SentCap \in Nat
         /\ Interval <= SentCap /\ Cooldown <= SentCap
<1>1. /\ Interval \in Nat /\ Cooldown \in Nat /\ SentCap \in Nat
      /\ Interval <= SentCap /\ Cooldown <= SentCap
  BY SessionAssumption DEF SentCap
<1>2. lastSent \in [age : 0..SentCap, acked : BOOLEAN]
  BY DEF TypeInv, TypeOK, SessionTypeOK
<1>3. checkIn \in 0..Interval /\ cooldown \in 0..Cooldown
  BY DEF TypeInv, TypeOK, SessionTypeOK
<1> QED
  BY <1>1, <1>2, <1>3

(* One tick of sleep takes as much off a timer as it adds to the age of the *)
(* last submission, and an age at its cap is past every threshold.          *)
LEMMA SpacingPauses ==
  ASSUME TypeInv, SpacingInv, Sleep \/ Delay \/ Restart
  PROVE  SpacingInv'
<1>1. CASE Restart
  BY <1>1, TimersAreNumbers
     DEF Restart, NeverSent, SpacingInv, Apart, Cooled, DueInCycle, Cycle
<1>2. CASE Sleep \/ Delay
  <2>1. lastSent \in [age : 0..SentCap, acked : BOOLEAN]
    BY DEF TypeInv, TypeOK, SessionTypeOK
  <2>2. /\ lastSent'.age = Older(lastSent.age, SentCap)
        /\ lastSent'.acked = lastSent.acked
    BY <1>2, <2>1 DEF Sleep, Delay
  <2>3. /\ lastSent'.age \in Nat /\ lastSent'.age >= lastSent.age
        /\ lastSent'.age = SentCap \/ lastSent'.age = lastSent.age + 1
    BY <2>2, TimersAreNumbers DEF Older
  <2>4. CASE Sleep
    <3>1. /\ checkIn' \in Nat /\ checkIn' >= checkIn - 1
          /\ cooldown' \in Nat /\ cooldown' >= cooldown - 1
      BY <2>4, TimersAreNumbers DEF Sleep, Countdown
    <3>2. Apart' /\ Cooled'
      BY <2>2, <2>3, <3>1, TimersAreNumbers DEF SpacingInv, Apart, Cooled
    <3> QED
      BY <2>4, <3>2 DEF Sleep, SpacingInv, DueInCycle, Cycle
  <2>5. CASE Delay
    <3>1. UNCHANGED <<pc, checkIn, cooldown>>
      BY <2>5 DEF Delay, Timers
    <3> QED
      BY <2>2, <2>3, <3>1, TimersAreNumbers
         DEF SpacingInv, Apart, Cooled, DueInCycle
  <2> QED
    BY <1>2, <2>4, <2>5
<1> QED
  BY <1>1, <1>2

LEMMA SpacingMaintain ==
  ASSUME TypeInv, SpacingInv, MaintainEntries
  PROVE  SpacingInv'
<1>1. /\ UNCHANGED <<cooldown, lastSent>>
      /\ checkIn' = checkIn \/ checkIn' = Interval
      /\ pc' \in Cycle => /\ checkIn = 0 /\ cooldown = 0
                          /\ checkIn' = Interval
  BY DEF MaintainEntries, EntryDue, History, Cycle
<1> QED
  BY <1>1, TimersAreNumbers DEF SpacingInv, Apart, Cooled, DueInCycle

LEMMA SpacingSubmit ==
  ASSUME TypeInv, SpacingInv, SubmitEntry
  PROVE  SpacingInv'
<1>1. /\ checkIn' = checkIn /\ checkIn = Interval /\ pc' = "sleep"
  BY DEF SubmitEntry, SpacingInv, DueInCycle, Cycle
<1>2. \/ UNCHANGED <<cooldown, lastSent>>
      \/ /\ cooldown' = Cooldown
         /\ lastSent' = [age |-> 0, acked |-> TRUE]
      \/ lastSent' = [age |-> 0, acked |-> FALSE]
  BY DEF SubmitEntry
<1> QED
  BY <1>1, <1>2, TimersAreNumbers
     DEF SpacingInv, Apart, Cooled, DueInCycle, Cycle

LEMMA SpacingInit == Init => SpacingInv
BY SessionAssumption
   DEF Init, NeverSent, SentCap, SpacingInv, Apart, Cooled, DueInCycle, Cycle

LEMMA SpacingNext == TypeInv /\ SpacingInv /\ [Next]_vars => SpacingInv'
<1> SUFFICES ASSUME TypeInv, SpacingInv, [Next]_vars PROVE SpacingInv'
  OBVIOUS
<1>1. CASE Calm
  BY <1>1 DEF Calm, SpacingInv, Apart, Cooled, DueInCycle
<1>2. CASE MaintainEntries
  BY <1>2, SpacingMaintain
<1>3. CASE SubmitEntry
  BY <1>3, SpacingSubmit
<1>4. CASE Sleep \/ Delay \/ Restart
  BY <1>4, SpacingPauses
<1>5. CASE BrokerStep \/ Finished \/ UNCHANGED vars
  BY <1>5
     DEF BrokerStep, Finished, vars, sessionVars, SpacingInv, Apart, Cooled,
         DueInCycle
<1> QED
  BY <1>1, <1>2, <1>3, <1>4, <1>5, CalmSteps DEF Next, SessionStep

LEMMA SpacingAlways == Spec => [](TypeInv /\ SpacingInv)
<1>1. Spec => []TypeInv
  BY TypeInit, TypeNext, PTL DEF Spec
<1> QED
  BY <1>1, SpacingInit, SpacingNext, PTL DEF Spec

(* Entries are sent by the submission only.                                 *)
LEMMA SentBySubmit ==
  ASSUME TypeInv, [Next]_vars, EntrySent
  PROVE  SubmitEntry
<1> PICK u \in Units : st[u] = "unused" /\ st'[u] = "working"
  BY DEF EntrySent
<1>1. CASE Calm \/ MaintainEntries \/ Sleep \/ Delay \/ Restart
  BY <1>1 DEF Calm, MaintainEntries, Sleep, Delay, Restart, Ageing, brokerVars
<1>2. CASE Finished \/ UNCHANGED vars
  BY <1>2 DEF Finished, vars, brokerVars
<1>3. CASE BrokerStep
  <2>1. st \in [Units -> UnitStates]
    BY DEF TypeInv, TypeOK, BrokerTypeOK
  <2>2. CASE \E v \in Units : FillEntry(v) \/ CancelEntry(v)
    BY <2>1, <2>2 DEF FillEntry, CancelEntry
  <2>3. ASSUME NEW s, NEW U, NEW a, CloseExit(s, U, a)
        PROVE  FALSE
    BY <2>3 DEF CloseExit
  <2>4. CASE \E s \in Structures : CancelExit(s)
    BY <2>3, <2>4 DEF CancelExit
  <2>5. CASE \E s \in Structures, v \in Units : FillExit(s, v)
    BY <2>1, <2>3, <2>5 DEF FillExit
  <2>6. CASE MarketMoves \/ (AllowUnknown /\ UnknownOrder)
    BY <2>6 DEF MarketMoves, UnknownOrder
  <2> QED
    BY <1>3, <2>2, <2>4, <2>5, <2>6 DEF BrokerStep
<1> QED
  BY <1>1, <1>2, <1>3, CalmSteps DEF Next, SessionStep

(* Two entries of one session are an interval apart, and the cooldown where *)
(* the first was acknowledged, for any timers, slow calls and lost replies: *)
(* next_entry_check_at and entry_cooldown_until of the session loop.        *)
THEOREM EntriesSpaced == Spec => EntrySpacing
<1>1. TypeInv /\ SpacingInv /\ [Next]_vars =>
        [EntrySent => /\ lastSent.age >= Interval
                      /\ lastSent.acked => lastSent.age >= Cooldown]_vars
  <2> SUFFICES ASSUME TypeInv, SpacingInv, [Next]_vars, EntrySent
               PROVE  /\ lastSent.age >= Interval
                      /\ lastSent.acked => lastSent.age >= Cooldown
    OBVIOUS
  <2>1. pc = "submit"
    BY SentBySubmit DEF SubmitEntry
  <2> QED
    BY <2>1 DEF SpacingInv, DueInCycle, Cycle
<1> QED
  BY <1>1, SpacingAlways, PTL DEF Spec, EntrySpacing

-----------------------------------------------------------------------------
(* Entries working at the broker.  An entry younger than the timeout is not *)
(* cancelled for its age.  Of those, one start of the session has at most   *)
(* the one it sent last; the gate lets an iteration into the cycle only     *)
(* when no older entry is left, and only an interval after that one.        *)

Young == {u \in Working : age[u] < EntryTimeout}

YoungFew ==
  \/ Cardinality(Young) <= restarts
  \/ \E u \in Young : /\ Cardinality(Young \ {u}) <= restarts
                      /\ age[u] >= lastSent.age

FewWorking ==
  Cardinality(Working) <= restarts + (IF pc \in Cycle THEN 0 ELSE 1)

WorkingInv == YoungFew /\ FewWorking /\ EntriesSeen

LEMMA WorkingCounts ==
  /\ Working \subseteq Units /\ Young \subseteq Working
  /\ Cardinality(Working) \in Nat /\ Cardinality(Young) \in Nat
  /\ Cardinality(Young) <= Cardinality(Working)
<1>1. Working \subseteq Units /\ Young \subseteq Working
  BY DEF Working, Young, InState
<1> QED
  BY <1>1, SubsetCount

(* Young entries that get fewer and no younger, with respect to the session *)
(* that sent the last of them, are as few as before.                        *)
LEMMA YoungShrinks ==
  ASSUME TypeInv, YoungFew, restarts' = restarts, Young' \subseteq Young,
         \A u \in Young' : age[u] >= lastSent.age
                             => age'[u] >= lastSent'.age
  PROVE  YoungFew'
<1>1. restarts \in Nat
  BY DEF TypeInv, TypeOK, SessionTypeOK
<1>2. Young \subseteq Units
  BY WorkingCounts
<1>3. CASE Cardinality(Young) <= restarts
  <2>1. /\ Cardinality(Young') \in Nat /\ Cardinality(Young) \in Nat
        /\ Cardinality(Young') <= Cardinality(Young)
    BY <1>2, SubsetCount
  <2> QED
    BY <1>1, <1>3, <2>1 DEF YoungFew
<1>4. ASSUME NEW u \in Young, Cardinality(Young \ {u}) <= restarts,
             age[u] >= lastSent.age
      PROVE  YoungFew'
  <2>1. Young \ {u} \subseteq Units
    BY <1>2
  <2>2. CASE u \in Young'
    <3>1. Young' \ {u} \subseteq Young \ {u}
      OBVIOUS
    <3>2. /\ Cardinality(Young' \ {u}) \in Nat
          /\ Cardinality(Young \ {u}) \in Nat
          /\ Cardinality(Young' \ {u}) <= Cardinality(Young \ {u})
      BY <2>1, <3>1, SubsetCount
    <3>3. Cardinality(Young' \ {u}) <= restarts'
      BY <1>1, <1>4, <3>2
    <3>4. age'[u] >= lastSent'.age
      BY <1>4, <2>2
    <3> QED
      BY <2>2, <3>3, <3>4, Zenon DEF YoungFew
  <2>3. CASE u \notin Young'
    <3>1. Young' \subseteq Young \ {u}
      BY <2>3
    <3>2. /\ Cardinality(Young') \in Nat /\ Cardinality(Young \ {u}) \in Nat
          /\ Cardinality(Young') <= Cardinality(Young \ {u})
      BY <2>1, <3>1, SubsetCount
    <3> QED
      BY <1>1, <1>4, <3>2 DEF YoungFew
  <2> QED
    BY <2>2, <2>3
<1> QED
  BY <1>3, <1>4 DEF YoungFew

LEMMA WorkingShrinks ==
  ASSUME TypeInv, FewWorking, restarts' = restarts,
         Working' \subseteq Working, pc' \in Cycle => pc \in Cycle
  PROVE  FewWorking'
<1>1. restarts \in Nat
  BY DEF TypeInv, TypeOK, SessionTypeOK
<1>2. Working \subseteq Units
  BY WorkingCounts
<1>3. /\ Cardinality(Working') \in Nat /\ Cardinality(Working) \in Nat
      /\ Cardinality(Working') <= Cardinality(Working)
  BY <1>2, SubsetCount
<1> QED
  BY <1>1, <1>3 DEF FewWorking

(* An iteration that has read the open orders goes by all that are working. *)
LEMMA SeenReading ==
  ASSUME TypeInv, EntriesSeen, Calm,
         \/ ReadPositions \/ ReadOrders \/ ReadLossState \/ CancelNext
         \/ ExitCheck \/ ExitCheckBlind \/ CancelExits \/ SubmitExit
         \/ Propose \/ ReadPositionsAgain \/ ReadOrdersAgain \/ ReadLossAgain
  PROVE  EntriesSeen'
<1>1. Working' = Working
  BY DEF Calm, Working, InState
<1>2. CASE ReadOrders
  <2>1. CASE IterationFails
    BY <2>1 DEF IterationFails, EntriesSeen
  <2>2. CASE view' = ReadOpenOrders(view)
    <3>1. view'.entries = Working
      BY <2>2 DEF TypeInv, TypeOK, SessionTypeOK, Views, ReadOpenOrders
    <3> QED
      BY <1>1, <3>1 DEF EntriesSeen
  <2> QED
    BY <1>2, <2>1, <2>2 DEF ReadOrders
<1>3. CASE ReadLossState \/ ExitCheck \/ ExitCheckBlind \/ SubmitExit
  <2>1. pc \in {"loss", "exit", "submitExit"} /\ view' = view
    BY <1>3 DEF ReadLossState, ExitCheck, ExitCheckBlind, SubmitExit
  <2> QED
    BY <1>1, <2>1 DEF EntriesSeen
<1>4. CASE \/ ReadPositions \/ CancelNext \/ CancelExits \/ Propose
           \/ ReadPositionsAgain \/ ReadOrdersAgain \/ ReadLossAgain
  <2>1. pc' \notin {"loss", "exit", "submitExit", "maintain"}
    BY <1>4, BlockedExitKeeps
       DEF ReadPositions, CancelNext, CancelOrder, CancelExits, Propose,
           ReadPositionsAgain, ReadOrdersAgain, ReadLossAgain, IterationFails
  <2> QED
    BY <2>1 DEF EntriesSeen
<1> QED
  BY <1>2, <1>3, <1>4

(* The gate opens only when no entry it saw is stale, hence none at all.    *)
LEMMA WorkingMaintain ==
  ASSUME EntryTimeout <= Interval, Undated \cap Units = {},
         TypeInv, SpacingInv', WorkingInv, MaintainEntries
  PROVE  WorkingInv'
<1>1. /\ UNCHANGED <<st, age, lastSent, restarts>> /\ pc = "maintain"
      /\ pc' \in {"cancel", "sleep", "propose"}
      /\ pc' = "propose" => StaleEntries = {}
  BY DEF MaintainEntries, History, brokerVars
<1>2. Working' = Working /\ Young' = Young
  BY <1>1 DEF Working, Young, InState
<1>3. YoungFew'
  BY <1>1, <1>2, YoungShrinks DEF WorkingInv
<1>4. CASE pc' # "propose"
  <2>1. pc' \notin Cycle /\ pc \notin Cycle
    BY <1>1, <1>4 DEF Cycle
  <2> QED
    BY <1>1, <1>2, <1>3, <2>1 DEF WorkingInv, FewWorking, EntriesSeen
<1>5. CASE pc' = "propose"
  <2>1. lastSent.age >= Interval
    BY <1>1, <1>5 DEF SpacingInv, DueInCycle, Cycle
  <2>2. \A u \in Working : age[u] \in Nat
    BY DEF TypeInv, TypeOK, BrokerTypeOK, Working, InState
  <2>3. Working = Young
    <3>1. Working \subseteq view.entries \ Undated
      BY <1>1 DEF WorkingInv, EntriesSeen, Working, InState
    <3> QED
      BY <1>1, <1>5, <2>2, <3>1, BrokerAssumption DEF StaleEntries, Young
  <2>4. \A u \in Young : age[u] < lastSent.age
    BY <2>1, <2>2, TimersAreNumbers, BrokerAssumption DEF Young
  <2>5. Cardinality(Young) <= restarts
    <3>1. \A u \in Young : ~(age[u] >= lastSent.age)
      BY <2>2, <2>3, <2>4, TimersAreNumbers
    <3> QED
      BY <3>1 DEF WorkingInv, YoungFew
  <2>6. FewWorking'
    BY <1>1, <1>2, <1>5, <2>3, <2>5 DEF FewWorking, Cycle, TypeInv, TypeOK,
       SessionTypeOK
  <2> QED
    BY <1>1, <1>3, <1>5, <2>6 DEF WorkingInv, EntriesSeen
<1> QED
  BY <1>4, <1>5

(* The submission adds the one young entry of this session.                 *)
LEMMA WorkingSubmit ==
  ASSUME TypeInv, WorkingInv, SubmitEntry
  PROVE  WorkingInv'
<1>1. /\ pc = "submit" /\ pc' = "sleep" /\ restarts' = restarts
      /\ restarts \in Nat
  BY DEF SubmitEntry, TypeInv, TypeOK, SessionTypeOK
<1>2. EntriesSeen'
  BY <1>1 DEF EntriesSeen
<1>3. Cardinality(Working) <= restarts
  BY <1>1, WorkingCounts DEF WorkingInv, FewWorking, Cycle
<1>4. CASE UNCHANGED brokerVars /\ UNCHANGED lastSent
  <2>1. Working' = Working /\ Young' = Young /\ age' = age
    BY <1>4 DEF Working, Young, InState, brokerVars
  <2>2. YoungFew'
    BY <1>1, <1>4, <2>1, YoungShrinks DEF WorkingInv
  <2>3. FewWorking'
    BY <1>1, <1>3, <2>1, WorkingCounts DEF FewWorking, Cycle
  <2> QED
    BY <1>2, <2>2, <2>3 DEF WorkingInv
<1>5. ASSUME NEW u \in Units, AcceptEntry(u, proposal), lastSent'.age = 0
      PROVE  WorkingInv'
  <2>1. /\ st \in [Units -> UnitStates] /\ age \in [Units -> 0..EntryTimeout]
        /\ st[u] = "unused" /\ st' = [st EXCEPT ![u] = "working"]
        /\ age' = [age EXCEPT ![u] = 0]
    BY <1>5 DEF AcceptEntry, TypeInv, TypeOK, BrokerTypeOK
  <2>2. Working' = Working \cup {u} /\ u \notin Working
    BY <2>1 DEF Working, InState
  <2>3. Young' \ {u} \subseteq Working /\ u \in Young' /\ age'[u] = 0
    BY <2>1, <2>2, BrokerAssumption DEF Young
  <2>4. Working \subseteq Units /\ Cardinality(Working) \in Nat
    BY WorkingCounts
  <2>5. /\ Cardinality(Young' \ {u}) \in Nat
        /\ Cardinality(Young' \ {u}) <= Cardinality(Working)
    BY <2>3, <2>4, SubsetCount
  <2>6. YoungFew'
    BY <1>1, <1>3, <1>5, <2>3, <2>4, <2>5 DEF YoungFew
  <2>7. Cardinality(Working') = Cardinality(Working) + 1
    BY <2>2, <2>4, UnitsCount, FS_AddElement
  <2>8. FewWorking'
    BY <1>1, <1>3, <2>4, <2>7 DEF FewWorking, Cycle
  <2> QED
    BY <1>2, <2>6, <2>8 DEF WorkingInv
<1> QED
  BY <1>4, <1>5 DEF SubmitEntry

LEMMA WorkingPauses ==
  ASSUME TypeInv, WorkingInv, Sleep \/ Delay \/ Restart
  PROVE  WorkingInv'
<1>1. CASE Restart
  <2>1. /\ restarts' = restarts + 1 /\ restarts \in Nat /\ pc' = "positions"
        /\ st' = st /\ age' = age
    BY <1>1 DEF Restart, brokerVars, TypeInv, TypeOK, SessionTypeOK
  <2>2. Working' = Working /\ Young' = Young
    BY <2>1 DEF Working, Young, InState
  <2>3. Cardinality(Working) <= restarts + 1
    BY <2>1, WorkingCounts DEF WorkingInv, FewWorking
  <2>4. FewWorking' /\ YoungFew'
    BY <2>1, <2>2, <2>3, WorkingCounts DEF FewWorking, YoungFew, Cycle
  <2> QED
    BY <2>1, <2>4 DEF WorkingInv, EntriesSeen
<1>2. CASE Sleep \/ Delay
  <2>1. PICK U, S : Ageing(U, S)
    BY <1>2 DEF Sleep, Delay
  <2>2. /\ st' = st /\ restarts' = restarts
        /\ \A u \in Working : age'[u] = Older(age[u], EntryTimeout)
    BY <1>2, <2>1 DEF Ageing, Sleep, Delay, Working, InState
  <2>3. Working' = Working
    BY <2>2 DEF Working, InState
  <2>4. /\ \A u \in Working : age[u] \in Nat /\ age[u] <= EntryTimeout
        /\ EntryTimeout \in Nat
    BY BrokerAssumption
       DEF TypeInv, TypeOK, BrokerTypeOK, Working, InState
  <2>5. /\ lastSent \in [age : 0..SentCap, acked : BOOLEAN]
        /\ lastSent' = [lastSent EXCEPT !.age = Older(@, SentCap)]
    BY <1>2 DEF Sleep, Delay, TypeInv, TypeOK, SessionTypeOK
  <2>6. lastSent'.age \in Nat /\ lastSent'.age <= lastSent.age + 1
    BY <2>5, TimersAreNumbers DEF Older
  <2>7. \A u \in Young' : u \in Young /\ age'[u] = age[u] + 1
    BY <2>2, <2>3, <2>4 DEF Young, Older
  <2>8. YoungFew'
    <3>1. \A u \in Young' : age[u] >= lastSent.age
                              => age'[u] >= lastSent'.age
      BY <2>4, <2>6, <2>7, TimersAreNumbers, WorkingCounts
    <3> QED
      BY <2>2, <2>7, <3>1, YoungShrinks DEF WorkingInv
  <2>9. FewWorking' /\ EntriesSeen'
    <3>1. \/ pc' = "positions"
          \/ pc' = pc /\ view' = view
      BY <1>2 DEF Sleep, Delay
    <3> QED
      BY <2>2, <2>3, <3>1, WorkingShrinks
         DEF WorkingInv, EntriesSeen, Cycle
  <2> QED
    BY <2>8, <2>9 DEF WorkingInv
<1> QED
  BY <1>1, <1>2

(* The account adds to what is held only what was working.                  *)
LEMMA BrokerExposure ==
  ASSUME TypeInv, BrokerStep
  PROVE  /\ Working' \subseteq Working /\ Held' \subseteq Held \cup Working
         /\ age' = age /\ at' = at
<1>1. st \in [Units -> UnitStates]
  BY DEF TypeInv, TypeOK, BrokerTypeOK
<1>2. CASE \E u \in Units : FillEntry(u) \/ CancelEntry(u)
  BY <1>1, <1>2 DEF FillEntry, CancelEntry, Working, Held, InState
<1>3. ASSUME NEW s, NEW U, NEW a, CloseExit(s, U, a)
      PROVE  /\ Working' \subseteq Working /\ Held' \subseteq Held \cup Working
             /\ age' = age /\ at' = at
  BY <1>3 DEF CloseExit, Working, Held, InState
<1>4. CASE \E s \in Structures : CancelExit(s)
  BY <1>3, <1>4 DEF CancelExit
<1>5. CASE \E s \in Structures, u \in Units : FillExit(s, u)
  BY <1>1, <1>3, <1>5 DEF FillExit, Working, Held, InState
<1>6. CASE MarketMoves \/ (AllowUnknown /\ UnknownOrder)
  BY <1>6 DEF MarketMoves, UnknownOrder, Working, Held, InState
<1> QED
  BY <1>2, <1>4, <1>5, <1>6 DEF BrokerStep

LEMMA WorkingInit == Init => WorkingInv
<1> SUFFICES ASSUME Init PROVE WorkingInv
  OBVIOUS
<1>1. Working = {} /\ Young = {} /\ restarts = 0 /\ pc = "positions"
  BY DEF Init, Working, Young, InState
<1>2. Cardinality({}) = 0
  BY FS_EmptySet
<1> QED
  BY <1>1, <1>2 DEF WorkingInv, YoungFew, FewWorking, EntriesSeen

LEMMA WorkingNext ==
  ASSUME EntryTimeout <= Interval, Undated \cap Units = {}
  PROVE  TypeInv /\ SpacingInv' /\ WorkingInv /\ [Next]_vars => WorkingInv'
<1> SUFFICES ASSUME TypeInv, SpacingInv', WorkingInv, [Next]_vars
             PROVE  WorkingInv'
  OBVIOUS
<1>1. CASE \/ ReadPositions \/ ReadOrders \/ ReadLossState \/ CancelNext
           \/ ExitCheck \/ ExitCheckBlind \/ CancelExits \/ SubmitExit
           \/ Propose \/ ReadPositionsAgain \/ ReadOrdersAgain
           \/ ReadLossAgain
  <2>1. Calm
    BY <1>1, CalmSteps
  <2>2. Working' = Working /\ Young' = Young
    BY <2>1 DEF Calm, Working, Young, InState
  <2>3. EntriesSeen'
    BY <1>1, <2>1, SeenReading DEF WorkingInv
  <2> QED
    BY <2>1, <2>2, <2>3, YoungShrinks, WorkingShrinks DEF Calm, WorkingInv
<1>2. CASE MaintainEntries
  BY <1>2, WorkingMaintain
<1>3. CASE SubmitEntry
  BY <1>3, WorkingSubmit
<1>4. CASE Sleep \/ Delay \/ Restart
  BY <1>4, WorkingPauses
<1>5. CASE BrokerStep
  <2>1. UNCHANGED <<pc, view, restarts, lastSent>>
    BY <1>5 DEF BrokerStep, sessionVars
  <2>2. Working' \subseteq Working /\ age' = age
    BY <1>5, BrokerExposure
  <2>3. Young' \subseteq Young
    BY <2>2 DEF Young
  <2> QED
    BY <2>1, <2>2, <2>3, YoungShrinks, WorkingShrinks
       DEF WorkingInv, EntriesSeen
<1>6. CASE Finished \/ UNCHANGED vars
  BY <1>6
     DEF Finished, vars, brokerVars, sessionVars, WorkingInv, YoungFew,
         FewWorking, EntriesSeen, Young, Working, InState
<1> QED
  BY <1>1, <1>2, <1>3, <1>4, <1>5, <1>6 DEF Next, SessionStep

LEMMA WorkingAlways ==
  ASSUME EntryTimeout <= Interval, Undated \cap Units = {}
  PROVE  Spec => [](TypeInv /\ SpacingInv /\ WorkingInv)
BY SpacingAlways, WorkingInit, WorkingNext, PTL DEF Spec

(* With an interval of at least the entry timeout, and where every entry    *)
(* shows when it was submitted (one that does not is never stale), no more  *)
(* entries work at the broker than the session was started: each restart    *)
(* forgets one, and nothing else adds to them                               *)
(* (maintain_pending_entry_orders and the gate).                            *)
THEOREM WorkingEntriesFew ==
  ASSUME EntryTimeout <= Interval, Undated \cap Units = {}
  PROVE  Spec => [](Cardinality(Working) <= restarts + 1)
<1>1. TypeInv /\ WorkingInv => Cardinality(Working) <= restarts + 1
  BY WorkingCounts DEF WorkingInv, FewWorking, TypeInv, TypeOK, SessionTypeOK
<1> QED
  BY <1>1, WorkingAlways, PTL

(* One session never has two entry orders working at the broker.            *)
THEOREM OneEntryWorks ==
  ASSUME EntryTimeout <= Interval, Undated \cap Units = {}, MaxRestarts = 0
  PROVE  Spec => []SingleWorkingEntry
<1>1. TypeInv /\ WorkingInv => SingleWorkingEntry
  BY WorkingCounts
     DEF WorkingInv, FewWorking, SingleWorkingEntry, TypeInv, TypeOK,
         SessionTypeOK
<1> QED
  BY <1>1, WorkingAlways, PTL

-----------------------------------------------------------------------------
(* One session.  Nothing works while the cycle runs, so its second snapshot *)
(* misses nothing that is held, and what it counted in the proposal's       *)
(* vertical is still all there is when the entry is sent.                   *)

(* No other vertical trades its contracts with s.                           *)
Untangled(s) == \A t \in Structures : ~Tangled(s, t)

NoneTangled == \A s \in Structures : Untangled(s)

HeldKnown ==
  pc \in {"orders2", "loss2", "submit"} => Held \subseteq view.positions

RoomLeft ==
  pc \in {"loss2", "submit"} /\ Untangled(proposal) =>
    Cardinality(In(view.positions, proposal)) < MaxSame

VerticalInv == HeldKnown /\ RoomLeft /\ UntangledBound

(* Paired anew, a vertical that no other trades its contracts with has all   *)
(* the units bought in it.  Calls: nothing lies around it or inside it.     *)
LEMMA CallsCounted ==
  ASSUME TypeInv, NEW v \in Views, proposal \in Structures,
         Untangled(proposal), DirectionOf[proposal] = "bullish"
  PROVE  CallUnits(v) = Cardinality(In(v.positions, proposal))
<1>1. /\ v.positions \subseteq Units /\ at \in [Units -> Structures]
  BY DEF TypeInv, TypeOK, BrokerTypeOK, Views
<1>2. \A u \in Beside(v) : ~Tangled(proposal, at[u])
  BY <1>1 DEF Beside, Untangled
<1>3. Around(v) = {} /\ Inside(v) = {}
  BY <1>2 DEF Around, Inside, Beside, Tangled, Within, SameChain
<1> DEFINE n == Cardinality(In(v.positions, proposal))
<1>4. n \in Nat
  BY <1>1, UnitsCount DEF In
<1>5. CallUnits(v) = Cardinality({i \in 1..n : i > 0 - 0 /\ i > 0 - 0})
  BY <1>3, FS_EmptySet DEF CallUnits
<1> HIDE DEF n
<1>6. {i \in 1..n : i > 0 - 0 /\ i > 0 - 0} = 1..n
  BY <1>4
<1>7. Cardinality(1..n) = n
  BY <1>4, FS_Interval
<1> QED
  BY <1>5, <1>6, <1>7 DEF n

(* Puts: what is open at its edges lies around it, and so is open between   *)
(* them as well, beside its own units.                                      *)
LEMMA PutsCounted ==
  ASSUME TypeInv, NEW v \in Views, proposal \in Structures,
         Untangled(proposal), DirectionOf[proposal] # "bullish"
  PROVE  /\ PutUnits(v) \in Nat
         /\ Cardinality(In(v.positions, proposal)) <= PutUnits(v)
<1> DEFINE low == ShortStrike[proposal]
           high == LongStrike[proposal]
           own == In(v.positions, proposal)
           outer == {u \in Beside(v) : /\ ShortStrike[at[u]] < low
                                       /\ high < LongStrike[at[u]]}
<1>1. /\ v.positions \subseteq Units /\ at \in [Units -> Structures]
      /\ LongStrike \in [Structures -> Nat]
      /\ ShortStrike \in [Structures -> Nat]
      /\ low \in Nat /\ high \in Nat /\ low < high
  BY BrokerAssumption DEF TypeInv, TypeOK, BrokerTypeOK, Views
<1>2. ASSUME NEW u \in Beside(v)
      PROVE  /\ u \in v.positions /\ at[u] \in Structures
             /\ LongStrike[at[u]] \in Nat /\ ShortStrike[at[u]] \in Nat
             /\ ~Across(at[u], proposal) /\ ~Across(proposal, at[u])
             /\ at[u] # proposal => /\ LongStrike[at[u]] # low
                                    /\ LongStrike[at[u]] # high
                                    /\ ShortStrike[at[u]] # low
                                    /\ ShortStrike[at[u]] # high
  <2>1. /\ u \in v.positions /\ at[u] \in Structures
        /\ SameChain(proposal, at[u])
    BY <1>1 DEF Beside, SameChain
  <2>2. ~Tangled(proposal, at[u])
    BY <2>1 DEF Untangled
  <2>3. at[u] # proposal => ~SharesContract(proposal, at[u])
    BY <2>1, ApartAssumption
  <2> QED
    BY <1>1, <2>1, <2>2, <2>3
       DEF Tangled, SharesContract, Strikes
<1>3. OpenBelow(v, low) \subseteq outer
  BY <1>1, <1>2 DEF OpenBelow, Across
<1>4. OpenAt(v, high) \subseteq outer
  BY <1>1, <1>2 DEF OpenAt, Across
<1>5. \A k \in low..(high - 1) : outer \cup own \subseteq OpenAt(v, k)
  <2>1. own \subseteq Beside(v)
    BY DEF In, Beside, SameChain
  <2> QED
    BY <1>1, <1>2, <2>1 DEF OpenAt, In
<1>6. /\ outer \cup own \subseteq v.positions /\ outer \cap own = {}
      /\ outer \subseteq Units /\ own \subseteq Units
      /\ outer \cup own \subseteq Units
      /\ \A k : OpenAt(v, k) \subseteq Units /\ OpenBelow(v, k) \subseteq Units
  BY <1>1 DEF In, Beside, OpenAt, OpenBelow
<1> DEFINE levels ==
      {d \in 1..Cardinality(v.positions) :
         /\ Cardinality(OpenBelow(v, low)) < d
         /\ Cardinality(OpenAt(v, high)) < d
         /\ \A k \in low..(high - 1) : d <= Cardinality(OpenAt(v, k))}
<1>7. PutUnits(v) = Cardinality(levels)
  BY DEF PutUnits
<1> HIDE DEF outer, own
<1>8. /\ Cardinality(outer) \in Nat /\ Cardinality(own) \in Nat
      /\ Cardinality(outer \cup own) = Cardinality(outer) + Cardinality(own)
  <2>1. IsFiniteSet(outer) /\ IsFiniteSet(own)
    BY <1>6, UnitsCount
  <2>2. Cardinality(outer) \in Nat /\ Cardinality(own) \in Nat
    BY <1>6, UnitsCount
  <2>3. /\ Cardinality(outer \cap own) = 0
        /\ Cardinality(outer \cup own)
             = Cardinality(outer) + Cardinality(own) - Cardinality(outer \cap own)
    BY <1>6, <2>1, FS_Union, FS_EmptySet
  <2> QED
    BY <2>2, <2>3
<1>9. /\ Cardinality(v.positions) \in Nat
      /\ Cardinality(outer) + Cardinality(own) <= Cardinality(v.positions)
  BY <1>1, <1>6, <1>8, SubsetCount
<1>10. /\ Cardinality(OpenBelow(v, low)) \in Nat
       /\ Cardinality(OpenBelow(v, low)) <= Cardinality(outer)
       /\ Cardinality(OpenAt(v, high)) \in Nat
       /\ Cardinality(OpenAt(v, high)) <= Cardinality(outer)
  BY <1>3, <1>4, <1>6, SubsetCount
<1>11. \A k \in low..(high - 1) :
         /\ Cardinality(OpenAt(v, k)) \in Nat
         /\ Cardinality(outer) + Cardinality(own) <= Cardinality(OpenAt(v, k))
  BY <1>5, <1>6, <1>8, SubsetCount
<1> DEFINE a == Cardinality(outer)
           n == Cardinality(own)
           mine == (a + 1)..(a + n)
<1>12. mine \subseteq levels
  BY <1>8, <1>9, <1>10, <1>11
<1>13. IsFiniteSet(levels)
  <2>1. levels \subseteq 1..Cardinality(v.positions)
    OBVIOUS
  <2>2. IsFiniteSet(1..Cardinality(v.positions))
    BY <1>9, FS_Interval
  <2> QED
    BY <2>1, <2>2, FS_Subset
<1>14. Cardinality(mine) = n
  BY <1>8, FS_Interval
<1> HIDE DEF levels, mine
<1>15. Cardinality(levels) \in Nat /\ Cardinality(mine) <= Cardinality(levels)
  BY <1>12, <1>13, FS_Subset, FS_CardinalityType
<1> QED
  BY <1>7, <1>14, <1>15 DEF own

LEMMA UnitsCounted ==
  ASSUME TypeInv, NEW v \in Views, proposal \in Structures,
         Untangled(proposal), SameStructureUnits(v) < MaxSame
  PROVE  Cardinality(In(v.positions, proposal)) < MaxSame
<1>1. /\ Cardinality(In(v.positions, proposal)) \in Nat /\ MaxSame \in Nat
  <2>1. In(v.positions, proposal) \subseteq Units
    BY DEF In, Views
  <2> QED
    BY <2>1, UnitsCount, SessionAssumption
<1>2. CASE DirectionOf[proposal] = "bullish"
  BY <1>1, <1>2, CallsCounted DEF SameStructureUnits
<1>3. CASE DirectionOf[proposal] # "bullish"
  BY <1>1, <1>3, PutsCounted DEF SameStructureUnits
<1> QED
  BY <1>2, <1>3

LEMMA NoneInCycle ==
  ASSUME MaxRestarts = 0, TypeInv, WorkingInv, pc \in Cycle
  PROVE  Working = {}
<1>1. restarts = 0
  BY DEF TypeInv, TypeOK, SessionTypeOK
<1>2. Cardinality(Working) <= 0
  BY <1>1, WorkingCounts DEF WorkingInv, FewWorking
<1> QED
  BY <1>2, WorkingCounts, EmptyCount

LEMMA VerticalShrinks ==
  ASSUME UntangledBound, at' = at,
         Held' \cup Working' \subseteq Held \cup Working
  PROVE  UntangledBound'
<1> SUFFICES ASSUME NEW s \in Structures,
                    Cardinality(In(Held \cup Working, s)) <= MaxSame
             PROVE  Cardinality(In(Held \cup Working, s)') <= MaxSame
  BY DEF UntangledBound, Tangled
<1>1. /\ In(Held \cup Working, s)' \subseteq In(Held \cup Working, s)
      /\ In(Held \cup Working, s) \subseteq Units
  BY DEF In, Held, Working, InState
<1>2. /\ Cardinality(In(Held \cup Working, s)') \in Nat
      /\ Cardinality(In(Held \cup Working, s)) \in Nat
      /\ Cardinality(In(Held \cup Working, s)')
           <= Cardinality(In(Held \cup Working, s))
  BY <1>1, SubsetCount
<1> QED
  BY <1>2, SessionAssumption

(* The cycle's own reads.                                                   *)
LEMMA VerticalReads ==
  ASSUME TypeInv, VerticalInv, UNCHANGED <<st, at>>,
         Propose \/ ReadPositionsAgain \/ ReadOrdersAgain \/ ReadLossAgain
  PROVE  VerticalInv'
<1>1. Held' = Held /\ Working' = Working /\ view \in Views
  BY DEF Held, Working, InState, TypeInv, TypeOK, SessionTypeOK
<1>2. UntangledBound'
  BY <1>1, VerticalShrinks DEF VerticalInv
<1>3. CASE pc' = "sleep" \/ Propose
  BY <1>2, <1>3 DEF Propose, IterationFails, VerticalInv, HeldKnown, RoomLeft
<1>4. CASE ReadPositionsAgain /\ pc' # "sleep"
  BY <1>1, <1>2, <1>4
     DEF ReadPositionsAgain, IterationFails, NoView, VerticalInv, HeldKnown,
         RoomLeft
<1>5. CASE ReadOrdersAgain /\ pc' # "sleep"
  <2>1. /\ view' = ReadOpenOrders(view) /\ proposal' = proposal
        /\ pc = "orders2" /\ pc' = "loss2" /\ PolicyAllows(view')
    BY <1>5 DEF ReadOrdersAgain, IterationFails
  <2>2. view'.positions = view.positions
    BY <1>1, <2>1 DEF ReadOpenOrders, Views
  <2>3. Untangled(proposal)
          => Cardinality(In(view'.positions, proposal)) < MaxSame
    <3>1. view' \in Views
      BY <1>1, <2>1, ViewUpdates DEF TypeInv, TypeOK
    <3>2. proposal \in Structures
      BY <2>1 DEF TypeInv, ProposalKnown
    <3> QED
      BY <2>1, <3>1, <3>2, UnitsCounted DEF PolicyAllows
  <2>4. In(view.positions, proposal)' = In(view.positions, proposal)
    BY <2>1, <2>2 DEF In
  <2>5. RoomLeft'
    BY <2>1, <2>2, <2>3, <2>4, SessionAssumption DEF RoomLeft
  <2> QED
    BY <1>1, <1>2, <2>1, <2>2, <2>5 DEF VerticalInv, HeldKnown
<1>6. CASE ReadLossAgain /\ pc' # "sleep"
  <2>1. UNCHANGED <<view, proposal>> /\ pc = "loss2" /\ pc' = "submit"
    BY <1>6 DEF ReadLossAgain, IterationFails
  <2> QED
    BY <1>1, <1>2, <2>1 DEF VerticalInv, HeldKnown, RoomLeft, In
<1> QED
  BY <1>3, <1>4, <1>5, <1>6

(* The submission adds a unit to a vertical with room for it.               *)
LEMMA VerticalSubmit ==
  ASSUME TypeInv, VerticalInv, Working = {}, SubmitEntry
  PROVE  VerticalInv'
<1>1. pc = "submit" /\ pc' = "sleep"
  BY DEF SubmitEntry
<1>2. CASE UNCHANGED brokerVars
  <2>1. Held' = Held /\ Working' = Working /\ at' = at
    BY <1>2 DEF brokerVars, Held, Working, InState
  <2> QED
    BY <1>1, <2>1, VerticalShrinks DEF VerticalInv, HeldKnown, RoomLeft
<1>3. ASSUME NEW u \in Units, AcceptEntry(u, proposal)
      PROVE  VerticalInv'
  <2>1. /\ st \in [Units -> UnitStates] /\ at \in [Units -> Structures]
        /\ st[u] = "unused" /\ st' = [st EXCEPT ![u] = "working"]
        /\ at' = [at EXCEPT ![u] = proposal] /\ MaxSame \in Nat
        /\ view.positions \subseteq Units
    BY <1>3, SessionAssumption
       DEF AcceptEntry, TypeInv, TypeOK, BrokerTypeOK, SessionTypeOK, Views
  <2>2. /\ Held' = Held /\ Working' = {u}
        /\ u \notin Held /\ Held \subseteq Units
    BY <2>1 DEF Held, Working, InState
  <2>3. ASSUME NEW s \in Structures, Untangled(s)
        PROVE  Cardinality(In(Held \cup Working, s)') <= MaxSame
    <3>1. CASE s # proposal
      <4>1. In(Held \cup Working, s)' = In(Held \cup Working, s)
        BY <2>1, <2>2, <3>1 DEF In
      <4> QED
        BY <2>3, <4>1 DEF VerticalInv, UntangledBound, Untangled
    <3>2. CASE s = proposal
      <4>1. In(Held \cup Working, s)' = In(Held, s) \cup {u}
        BY <2>1, <2>2, <3>2 DEF In
      <4>2. /\ In(Held, s) \subseteq In(view.positions, s)
            /\ In(view.positions, s) \subseteq Units
            /\ u \notin In(Held, s)
        BY <1>1, <2>1, <2>2 DEF VerticalInv, HeldKnown, In
      <4>3. /\ Cardinality(In(Held, s)) \in Nat
            /\ Cardinality(In(view.positions, s)) \in Nat
            /\ Cardinality(In(Held, s)) <= Cardinality(In(view.positions, s))
        BY <4>2, SubsetCount
      <4>4. IsFiniteSet(In(Held, s))
        BY <2>2, UnitsCount DEF In
      <4>5. Cardinality(In(Held, s) \cup {u}) = Cardinality(In(Held, s)) + 1
        BY <4>2, <4>4, FS_AddElement
      <4>6. Cardinality(In(view.positions, s)) < MaxSame
        BY <1>1, <2>3, <3>2 DEF VerticalInv, RoomLeft
      <4> QED
        BY <2>1, <4>1, <4>3, <4>5, <4>6
    <3> QED
      BY <3>1, <3>2
  <2> QED
    BY <1>1, <2>3
       DEF VerticalInv, HeldKnown, RoomLeft, UntangledBound, Untangled
<1> QED
  BY <1>2, <1>3 DEF SubmitEntry

LEMMA VerticalInit == Init => VerticalInv
<1> SUFFICES ASSUME Init PROVE VerticalInv
  OBVIOUS
<1>1. \A s : In(Held \cup Working, s) = {}
  BY DEF Init, In, Held, Working, InState
<1>2. Cardinality({}) <= MaxSame
  BY FS_EmptySet, SessionAssumption
<1> QED
  BY <1>1, <1>2 DEF Init, VerticalInv, HeldKnown, RoomLeft, UntangledBound

LEMMA VerticalNext ==
  ASSUME MaxRestarts = 0
  PROVE  TypeInv /\ WorkingInv /\ VerticalInv /\ [Next]_vars => VerticalInv'
<1> SUFFICES ASSUME TypeInv, WorkingInv, VerticalInv, [Next]_vars
             PROVE  VerticalInv'
  OBVIOUS
<1>1. ASSUME UNCHANGED <<st, at>>,
             \/ pc' \notin {"orders2", "loss2", "submit"}
             \/ UNCHANGED <<pc, view, proposal>>
      PROVE  VerticalInv'
  <2>1. Held' = Held /\ Working' = Working
    BY <1>1 DEF Held, Working, InState
  <2>2. UntangledBound'
    BY <1>1, <2>1, VerticalShrinks DEF VerticalInv
  <2> QED
    BY <1>1, <2>1, <2>2 DEF VerticalInv, HeldKnown, RoomLeft, In
<1>2. CASE \/ ReadPositions \/ ReadOrders \/ ReadLossState \/ CancelNext
           \/ ExitCheck \/ ExitCheckBlind \/ CancelExits \/ SubmitExit
  <2>1. Calm
    BY <1>2, CalmSteps
  <2>2. pc \notin Cycle
    BY <1>2
       DEF ReadPositions, ReadOrders, ReadLossState, CancelNext, ExitCheck,
           ExitCheckBlind, CancelExits, SubmitExit, Cycle
  <2> QED
    BY <1>1, <2>1, <2>2 DEF Calm, Cycle
<1>3. CASE MaintainEntries \/ Sleep \/ Delay \/ Restart
  <2>1. UNCHANGED <<st, at>>
    BY <1>3 DEF MaintainEntries, Sleep, Delay, Restart, Ageing, brokerVars
  <2>2. \/ pc' \notin {"orders2", "loss2", "submit"}
        \/ UNCHANGED <<pc, view, proposal>>
    BY <1>3 DEF MaintainEntries, Sleep, Delay, Restart
  <2> QED
    BY <1>1, <2>1, <2>2
<1>4. CASE Propose \/ ReadPositionsAgain \/ ReadOrdersAgain \/ ReadLossAgain
  BY <1>4, CalmSteps, VerticalReads DEF Calm
<1>5. CASE SubmitEntry
  <2>1. Working = {}
    BY <1>5, NoneInCycle DEF SubmitEntry, Cycle
  <2> QED
    BY <1>5, <2>1, VerticalSubmit
<1>6. CASE BrokerStep
  <2>1. /\ Working' \subseteq Working /\ Held' \subseteq Held \cup Working
        /\ at' = at
    BY <1>6, BrokerExposure
  <2>2. UntangledBound'
    BY <2>1, VerticalShrinks DEF VerticalInv
  <2>3. UNCHANGED <<pc, view, proposal>>
    BY <1>6 DEF BrokerStep, sessionVars
  <2>4. pc \in Cycle => Held' \subseteq Held
    BY <2>1, NoneInCycle
  <2> QED
    BY <2>1, <2>2, <2>3, <2>4 DEF VerticalInv, HeldKnown, RoomLeft, In, Cycle
<1>7. CASE Finished \/ UNCHANGED vars
  BY <1>1, <1>7 DEF Finished, vars, brokerVars, sessionVars
<1> QED
  BY <1>2, <1>3, <1>4, <1>5, <1>6, <1>7 DEF Next, SessionStep

LEMMA VerticalAlways ==
  ASSUME EntryTimeout <= Interval, Undated \cap Units = {}, MaxRestarts = 0
  PROVE  Spec => [](TypeInv /\ WorkingInv /\ VerticalInv)
BY WorkingAlways, VerticalInit, VerticalNext, PTL DEF Spec

(* One session never holds and orders more units than it may of a vertical  *)
(* that no other trades its contracts with, although                        *)
(* evaluate_entry_proposal_policy compares a torn snapshot, paired anew.    *)
THEOREM VerticalBound ==
  ASSUME EntryTimeout <= Interval, Undated \cap Units = {}, MaxRestarts = 0
  PROVE  Spec => []UntangledBound
<1>1. VerticalInv => UntangledBound
  BY DEF VerticalInv
<1> QED
  BY <1>1, VerticalAlways, PTL

-----------------------------------------------------------------------------
(* The stop budget of one session, for any limit.  Where a vertical takes   *)
(* one unit, an exit has nothing to fill in part; where it takes more, a    *)
(* stop filled in part is missing from the positions and from the closed    *)
(* orders alike, and the budget does not hold.                              *)

CapacityLeft ==
  pc = "submit" => Cardinality(Held \cup Stopped) < MaxStops

BudgetInv == NoneSold /\ CapacityLeft /\ StopBudget

LEMMA SingleExits ==
  ASSUME MaxSame = 1, NoneTangled, TypeInv, CoverInv, UntangledBound
  PROVE  SmallExits
<1> SUFFICES ASSUME NEW s \in Structures PROVE exit[s].left <= 1
  BY DEF SmallExits
<1>1. /\ In(Held, s) \subseteq In(Held \cup Working, s)
      /\ In(Held \cup Working, s) \subseteq Units
  BY DEF In, Held, Working, InState
<1>2. /\ Cardinality(In(Held, s)) \in Nat
      /\ Cardinality(In(Held \cup Working, s)) \in Nat
      /\ Cardinality(In(Held, s)) <= Cardinality(In(Held \cup Working, s))
  BY <1>1, SubsetCount
<1>3. exit[s].left \in Nat
  BY DEF TypeInv, TypeOK, BrokerTypeOK, ExitOrders
<1> QED
  BY <1>2, <1>3
     DEF CoverInv, ExitCovered, UntangledBound, NoneTangled, Untangled

(* The budget counts what works, what is held and what has been stopped.    *)
LEMMA BudgetUnits ==
  ASSUME NoneSold
  PROVE  AtRisk \cup Stopped = Working \cup Held \cup Stopped
BY AtRiskUnits

LEMMA BudgetShrinks ==
  ASSUME NoneSold, NoneSold', StopBudget,
         (Working \cup Held \cup Stopped)' \subseteq Working \cup Held \cup Stopped
  PROVE  StopBudget'
<1>1. /\ AtRisk \cup Stopped = Working \cup Held \cup Stopped
      /\ (AtRisk \cup Stopped = Working \cup Held \cup Stopped)'
  BY BudgetUnits, PTL
<1>2. AtRisk \cup Stopped \subseteq Units
  BY DEF AtRisk, Stopped, InState
<1>3. /\ Cardinality((AtRisk \cup Stopped)') \in Nat
      /\ Cardinality(AtRisk \cup Stopped) \in Nat
      /\ Cardinality((AtRisk \cup Stopped)') <= Cardinality(AtRisk \cup Stopped)
  BY <1>1, <1>2, SubsetCount
<1> QED
  BY <1>3, SessionAssumption DEF StopBudget

(* The recheck before the submission: the snapshot shows all that is held,  *)
(* and the closed orders, read after it, all that has been stopped.         *)
LEMMA CapacityRead ==
  ASSUME TypeInv, HeldKnown, ReadLossAgain, pc' = "submit"
  PROVE  Cardinality(Held \cup Stopped) < MaxStops
<1>1. /\ WithinStopCapacity(LossRead) /\ pc = "loss2"
  BY DEF ReadLossAgain, IterationFails
<1>2. /\ view.positions \subseteq Units /\ view.entries \subseteq Units
      /\ Stopped \subseteq Units /\ Held \subseteq view.positions
  BY <1>1
     DEF TypeInv, TypeOK, SessionTypeOK, Views, Stopped, InState, HeldKnown
<1>3. /\ Cardinality(view.positions) \in Nat /\ Cardinality(Stopped) \in Nat
      /\ Cardinality(view.entries) \in Nat
      /\ IsFiniteSet(view.positions) /\ IsFiniteSet(Stopped)
      /\ MaxStops \in Nat
  BY <1>2, UnitsCount, SessionAssumption
<1>4. Cardinality(view.positions) + Cardinality(Stopped) < MaxStops
  <2>1. Cardinality(view.positions) <= CommittedUnits /\ CommittedUnits \in Nat
    BY <1>3 DEF CommittedUnits
  <2>2. LossRead.stops = Cardinality(Stopped)
    BY DEF LossRead
  <2> QED
    BY <1>1, <1>3, <2>1, <2>2 DEF WithinStopCapacity, StopCapacity, HaltsAll
<1>5. /\ Cardinality(view.positions \cup Stopped) \in Nat
      /\ Cardinality(view.positions \cup Stopped)
           <= Cardinality(view.positions) + Cardinality(Stopped)
  <2>1. view.positions \cap Stopped \subseteq Units
    BY <1>2
  <2>2. Cardinality(view.positions \cap Stopped) \in Nat
    BY <2>1, UnitsCount
  <2> DEFINE P == view.positions
             S == Stopped
  <2>3. /\ IsFiniteSet(P \cup S)
        /\ Cardinality(P \cup S)
             = Cardinality(P) + Cardinality(S) - Cardinality(P \cap S)
    BY <1>3, FS_Union
  <2>4. Cardinality(P \cup S) \in Nat
    BY <2>3, FS_CardinalityType
  <2> QED
    BY <1>3, <2>2, <2>3, <2>4
<1>6. /\ Cardinality(Held \cup Stopped) \in Nat
      /\ Cardinality(Held \cup Stopped)
           <= Cardinality(view.positions \cup Stopped)
  <2>1. /\ Held \cup Stopped \subseteq view.positions \cup Stopped
        /\ view.positions \cup Stopped \subseteq Units
    BY <1>2
  <2> QED
    BY <2>1, SubsetCount
<1> QED
  BY <1>3, <1>4, <1>5, <1>6

LEMMA BudgetSubmit ==
  ASSUME TypeInv, BudgetInv, Working = {}, SubmitEntry
  PROVE  BudgetInv'
<1>1. pc = "submit" /\ pc' = "sleep"
  BY DEF SubmitEntry
<1>2. CASE UNCHANGED brokerVars
  <2>1. (Working \cup Held \cup Stopped)' = Working \cup Held \cup Stopped
    BY <1>2 DEF brokerVars, Working, Held, Stopped, InState
  <2>2. NoneSold'
    BY <1>2 DEF brokerVars, BudgetInv, NoneSold, InState
  <2> QED
    BY <1>1, <2>1, <2>2, BudgetShrinks DEF BudgetInv, CapacityLeft
<1>3. ASSUME NEW u \in Units, AcceptEntry(u, proposal)
      PROVE  BudgetInv'
  <2>1. /\ st \in [Units -> UnitStates] /\ st[u] = "unused"
        /\ st' = [st EXCEPT ![u] = "working"] /\ MaxStops \in Nat
    BY <1>3, SessionAssumption
       DEF AcceptEntry, TypeInv, TypeOK, BrokerTypeOK
  <2>2. NoneSold'
    BY <2>1 DEF BudgetInv, NoneSold, InState
  <2>3. /\ (Working \cup Held \cup Stopped)' = Held \cup Stopped \cup {u}
        /\ u \notin Held \cup Stopped /\ Held \cup Stopped \subseteq Units
    BY <2>1 DEF Working, Held, Stopped, InState
  <2>4. Cardinality(Held \cup Stopped \cup {u})
          = Cardinality(Held \cup Stopped) + 1
    BY <2>3, UnitsCount, FS_AddElement
  <2>5. (AtRisk \cup Stopped = Working \cup Held \cup Stopped)'
    BY <2>2, BudgetUnits, PTL
  <2>6. StopBudget'
    <3>1. Cardinality(Held \cup Stopped) < MaxStops
      BY <1>1 DEF BudgetInv, CapacityLeft
    <3>2. Cardinality(Held \cup Stopped) \in Nat
      BY <2>3, UnitsCount
    <3> QED
      BY <2>1, <2>3, <2>4, <2>5, <3>1, <3>2 DEF StopBudget
  <2> QED
    BY <1>1, <2>2, <2>6 DEF BudgetInv, CapacityLeft
<1> QED
  BY <1>2, <1>3 DEF SubmitEntry

LEMMA BudgetInit == Init => BudgetInv
<1> SUFFICES ASSUME Init PROVE BudgetInv
  OBVIOUS
<1>1. AtRisk \cup Stopped = {}
  BY DEF Init, AtRisk, Stopped, InState
<1> QED
  BY <1>1, FS_EmptySet, SessionAssumption
     DEF Init, BudgetInv, NoneSold, InState, CapacityLeft, StopBudget

LEMMA BudgetNext ==
  ASSUME MaxRestarts = 0, MaxSame = 1, NoneTangled
  PROVE  /\ TypeInv /\ CoverInv /\ WorkingInv /\ VerticalInv
         /\ BudgetInv /\ [Next]_vars
         => BudgetInv'
<1> SUFFICES ASSUME TypeInv, CoverInv, WorkingInv, VerticalInv, BudgetInv,
                    [Next]_vars
             PROVE  BudgetInv'
  OBVIOUS
<1>1. ASSUME st' = st, pc' = "submit" => pc = "submit" \/ ReadLossAgain
      PROVE  BudgetInv'
  <2>1. /\ Working' = Working /\ Held' = Held /\ Stopped' = Stopped
        /\ NoneSold'
    BY <1>1 DEF Working, Held, Stopped, BudgetInv, NoneSold, InState
  <2>2. StopBudget'
    BY <2>1, BudgetShrinks DEF BudgetInv
  <2>3. CapacityLeft'
    <3>1. (Held \cup Stopped)' = Held \cup Stopped
      BY <2>1
    <3>2. pc' = "submit" => Cardinality(Held \cup Stopped) < MaxStops
      BY <1>1, CapacityRead DEF BudgetInv, CapacityLeft, VerticalInv
    <3> QED
      BY <3>1, <3>2 DEF CapacityLeft
  <2> QED
    BY <2>1, <2>2, <2>3 DEF BudgetInv
<1>2. CASE \/ ReadPositions \/ ReadOrders \/ ReadLossState \/ CancelNext
           \/ ExitCheck \/ ExitCheckBlind \/ CancelExits \/ SubmitExit
           \/ Propose \/ ReadPositionsAgain \/ ReadOrdersAgain
           \/ ReadLossAgain
  <2>1. Calm
    BY <1>2, CalmSteps
  <2>2. pc' = "submit" => pc = "submit" \/ ReadLossAgain
    <3>1. CASE Propose \/ ReadPositionsAgain \/ ReadOrdersAgain
      BY <3>1 DEF Propose, ReadPositionsAgain, ReadOrdersAgain, IterationFails
    <3>2. CASE ReadLossAgain
      BY <3>2
    <3>3. CASE \/ ReadPositions \/ ReadOrders \/ ReadLossState \/ CancelNext
               \/ ExitCheck \/ ExitCheckBlind \/ CancelExits
               \/ SubmitExit
      <4>1. pc \notin Cycle
        BY <3>3
           DEF ReadPositions, ReadOrders, ReadLossState, CancelNext,
               ExitCheck, ExitCheckBlind, CancelExits, SubmitExit, Cycle
      <4> QED
        BY <2>1, <4>1 DEF Calm, Cycle
    <3> QED
      BY <1>2, <3>1, <3>2, <3>3
  <2> QED
    BY <1>1, <2>1, <2>2 DEF Calm
<1>3. CASE MaintainEntries \/ Sleep \/ Delay \/ Restart
  <2>1. st' = st
    BY <1>3 DEF MaintainEntries, Sleep, Delay, Restart, Ageing, brokerVars
  <2>2. pc' = "submit" => pc = "submit"
    BY <1>3 DEF MaintainEntries, Sleep, Delay, Restart
  <2> QED
    BY <1>1, <2>1, <2>2
<1>4. CASE SubmitEntry
  <2>1. Working = {}
    BY <1>4, NoneInCycle DEF SubmitEntry, Cycle
  <2> QED
    BY <1>4, <2>1, BudgetSubmit
<1>5. CASE BrokerStep
  <2>1. SmallExits /\ NoneSold
    BY SingleExits DEF VerticalInv, BudgetInv
  <2>2. /\ Working' \subseteq Working /\ Held' \subseteq Held \cup Working
        /\ Stopped' \subseteq Stopped \cup Held /\ NoneSold'
    BY <1>5, <2>1, SmallBroker
  <2>3. StopBudget'
    BY <2>1, <2>2, BudgetShrinks DEF BudgetInv
  <2>4. CapacityLeft'
    <3> SUFFICES ASSUME pc' = "submit"
                 PROVE  Cardinality((Held \cup Stopped)') < MaxStops
      BY DEF CapacityLeft
    <3>1. pc = "submit"
      BY <1>5 DEF BrokerStep, sessionVars
    <3>2. (Held \cup Stopped)' \subseteq Held \cup Stopped
      BY <2>2, <3>1, NoneInCycle DEF Cycle
    <3>3. Held \cup Stopped \subseteq Units
      BY DEF Held, Stopped, InState
    <3>4. /\ Cardinality((Held \cup Stopped)') \in Nat
          /\ Cardinality(Held \cup Stopped) \in Nat
          /\ Cardinality((Held \cup Stopped)') <= Cardinality(Held \cup Stopped)
      BY <3>2, <3>3, SubsetCount
    <3> QED
      BY <3>1, <3>4, SessionAssumption DEF BudgetInv, CapacityLeft
  <2> QED
    BY <2>2, <2>3, <2>4 DEF BudgetInv
<1>6. CASE Finished \/ UNCHANGED vars
  BY <1>1, <1>6 DEF Finished, vars, brokerVars, sessionVars
<1> QED
  BY <1>2, <1>3, <1>4, <1>5, <1>6 DEF Next, SessionStep

LEMMA BudgetAlways ==
  ASSUME EntryTimeout <= Interval, Undated \cap Units = {}, MaxRestarts = 0,
         MaxSame = 1, NoneTangled
  PROVE  Spec => [](/\ TypeInv /\ CoverInv /\ WorkingInv /\ VerticalInv
                    /\ BudgetInv)
BY CoverAlways, VerticalAlways, BudgetInit, BudgetNext, PTL DEF Spec

(* One session keeps the stop budget for any limit, where a vertical takes  *)
(* one unit and none trades its contracts with another: the gate of         *)
(* evaluate_session_stop_loss_capacity and the recheck on the cycle's       *)
(* snapshot are enough, torn as their reads are.                            *)
THEOREM SessionBudget ==
  ASSUME EntryTimeout <= Interval, Undated \cap Units = {}, MaxRestarts = 0,
         MaxSame = 1, NoneTangled
  PROVE  Spec => []StopBudget
<1>1. BudgetInv => StopBudget
  BY DEF BudgetInv
<1> QED
  BY <1>1, BudgetAlways, PTL

(* And it implements the stop-loss ledger: each unit it admits is admitted  *)
(* while units at risk and units stopped are fewer than the limit.          *)
THEOREM SessionLedger ==
  ASSUME EntryTimeout <= Interval, Undated \cap Units = {}, MaxRestarts = 0,
         MaxSame = 1, NoneTangled
  PROVE  Spec => ImplementsLedger
<1> DEFINE Inv == /\ TypeInv /\ CoverInv /\ WorkingInv /\ VerticalInv
                  /\ BudgetInv
<1>1. Spec => []Inv
  BY BudgetAlways
<1>2. Inv /\ Inv' /\ [Next]_vars => [Ledger!Next]_<<AtRisk, Stopped>>
  <2> SUFFICES ASSUME Inv, Inv', [Next]_vars
               PROVE  [Ledger!Next]_<<AtRisk, Stopped>>
    OBVIOUS
  <2>1. TypeInv /\ NoneSold /\ NoneSold' /\ SmallExits
    BY SingleExits DEF BudgetInv, VerticalInv
  <2>2. pc = "submit" => Cardinality(AtRisk \cup Stopped) < MaxStops
    <3> SUFFICES ASSUME pc = "submit"
                 PROVE  Cardinality(AtRisk \cup Stopped) < MaxStops
      OBVIOUS
    <3>1. Working = {}
      BY NoneInCycle DEF Cycle
    <3>2. AtRisk \cup Stopped = Held \cup Stopped
      BY <2>1, <3>1, BudgetUnits
    <3> QED
      BY <3>2 DEF BudgetInv, CapacityLeft
  <2> QED
    BY <2>1, <2>2, LedgerNext
<1> QED
  BY <1>1, <1>2, LedgerInit, PTL DEF Spec, ImplementsLedger, Ledger!Spec
=============================================================================
