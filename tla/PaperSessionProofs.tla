------------------------- MODULE PaperSessionProofs -------------------------
(***************************************************************************)
(* Proofs about PaperSession for every number of units and structures,      *)
(* every setting of the timers and any number of faults and restarts: the   *)
(* types, and that exits never close more than is held.                     *)
(***************************************************************************)
EXTENDS PaperSession, FiniteSetTheorems, TLAPS

(* What any set of units of the model counts to is a natural number.        *)
LEMMA UnitsCount ==
  ASSUME NEW U, U \subseteq Units
  PROVE  IsFiniteSet(U) /\ Cardinality(U) \in Nat
BY BrokerAssumption, FS_Subset, FS_CardinalityType

-----------------------------------------------------------------------------
(* The broker's actions keep the broker's types.                            *)

LEMMA EntryActionsType ==
  ASSUME BrokerTypeOK, NEW u \in Units,
         \/ \E s \in Structures : AcceptEntry(u, s)
         \/ RequestCancelEntry(u)
         \/ FillEntry(u)
         \/ CancelEntry(u)
  PROVE  BrokerTypeOK'
BY BrokerAssumption
   DEF BrokerTypeOK, UnitStates, AcceptEntry, RequestCancelEntry, FillEntry,
       CancelEntry

LEMMA NoExitType == NoExit \in ExitOrders
BY BrokerAssumption DEF NoExit, ExitOrder, ExitOrders

(* An exit order whose ages or remaining quantity change is an exit order.  *)
LEMMA ExitOrderUpdates ==
  ASSUME NEW e \in ExitOrders, NEW n \in Nat,
         NEW a \in 0..ExitTimeout, NEW f \in 0..DirCooldown
  PROVE  /\ [e EXCEPT !.age = a] \in ExitOrders
         /\ [e EXCEPT !.age = a, !.fillAge = f] \in ExitOrders
         /\ [e EXCEPT !.left = n, !.fillAge = f] \in ExitOrders
         /\ [e EXCEPT !.cancelling = TRUE] \in ExitOrders
BY DEF ExitOrders

(* Zero is a possible age.                                                  *)
LEMMA ZeroAges ==
  0 \in 0..EntryTimeout /\ 0 \in 0..ExitTimeout /\ 0 \in 0..DirCooldown
BY BrokerAssumption

LEMMA PlaceExitType ==
  ASSUME BrokerTypeOK, NEW s, NEW tag \in {"none", "stop", "profit"},
         NEW n \in Nat, PlaceExit(s, tag, n)
  PROVE  BrokerTypeOK'
<1>1. ExitOrder(tag, n, 0) \in ExitOrders
  BY BrokerAssumption DEF NoExit, ExitOrder, ExitOrders
<1>2. exit' \in [Structures -> ExitOrders]
  BY <1>1 DEF BrokerTypeOK, PlaceExit
<1> QED
  BY <1>2 DEF BrokerTypeOK, PlaceExit

LEMMA ExitRequestsType ==
  ASSUME BrokerTypeOK,
         (\E s \in Structures : ReplaceExit(s)) \/ (\E S : RequestCancelExits(S))
  PROVE  BrokerTypeOK'
<1>1. exit' \in [Structures -> ExitOrders]
  <2>1. CASE \E s \in Structures : ReplaceExit(s)
    <3> PICK s \in Structures : ReplaceExit(s)
      BY <2>1
    <3> DEFINE replaced == [exit[s] EXCEPT !.age = 0]
    <3>1. exit[s] \in ExitOrders
      BY DEF BrokerTypeOK
    <3>2. replaced \in ExitOrders
      BY <3>1, ExitOrderUpdates, ZeroAges
    <3>3. exit' = [exit EXCEPT ![s] = replaced]
      BY DEF ReplaceExit
    <3> HIDE DEF replaced
    <3> QED
      BY <3>2, <3>3 DEF BrokerTypeOK
  <2>2. CASE \E S : RequestCancelExits(S)
    <3> PICK S : RequestCancelExits(S)
      BY <2>2
    <3> DEFINE asked(s) == [exit[s] EXCEPT !.cancelling = TRUE]
    <3>1. \A s \in Structures : exit[s] \in ExitOrders
      BY DEF BrokerTypeOK
    <3>2. \A s \in Structures : asked(s) \in ExitOrders
      BY <3>1, ExitOrderUpdates, ZeroAges
    <3>3. exit' = [s \in Structures |->
                    IF s \in S THEN asked(s) ELSE exit[s]]
      BY DEF RequestCancelExits
    <3> HIDE DEF asked
    <3> QED
      BY <3>1, <3>2, <3>3
  <2> QED BY <2>1, <2>2
<1> QED
  BY <1>1 DEF BrokerTypeOK, ReplaceExit, RequestCancelExits

LEMMA CloseExitType ==
  ASSUME BrokerTypeOK, NEW s \in Structures, NEW U \in SUBSET Units,
         NEW fillAge \in 0..DirCooldown, CloseExit(s, U, fillAge)
  PROVE  BrokerTypeOK'
<1>1. st' \in [Units -> UnitStates]
  BY DEF BrokerTypeOK, CloseExit, UnitStates
<1>2. exit' \in [Structures -> ExitOrders]
  <2>1. ExitOrder("none", 0, exit[s].age) \in ExitOrders
    BY BrokerAssumption DEF BrokerTypeOK, ExitOrder, ExitOrders
  <2> QED BY <2>1 DEF BrokerTypeOK, CloseExit
<1>3. lastStop' \in [dir : Directions \cup {"none"}, age : 0..DirCooldown]
  <2>1. [dir |-> DirectionOf[s], age |-> fillAge]
          \in [dir : Directions \cup {"none"}, age : 0..DirCooldown]
    BY BrokerAssumption
  <2>2. lastStop' = lastStop
          \/ lastStop' = [dir |-> DirectionOf[s], age |-> fillAge]
    BY DEF CloseExit
  <2> QED BY <2>1, <2>2 DEF BrokerTypeOK
<1> QED
  BY <1>1, <1>2, <1>3 DEF BrokerTypeOK, CloseExit

LEMMA ExitActionsType ==
  ASSUME BrokerTypeOK, NEW s \in Structures,
         (\E u \in Units : FillExit(s, u)) \/ CancelExit(s)
  PROVE  BrokerTypeOK'
<1>1. exit[s] \in ExitOrders
  BY DEF BrokerTypeOK
<1>2. CASE CancelExit(s)
  <2>1. In(InState("sold"), s) \in SUBSET Units
    BY DEF In, InState
  <2>2. exit[s].fillAge \in 0..DirCooldown
    BY <1>1 DEF ExitOrders
  <2> QED
    BY <1>2, <2>1, <2>2, CloseExitType DEF CancelExit
<1>3. ASSUME NEW u \in Units, FillExit(s, u)
      PROVE  BrokerTypeOK'
  <2>1. CASE /\ exit[s].left = 1
             /\ CloseExit(s, In(InState("sold"), s) \cup {u}, 0)
    <3>1. In(InState("sold"), s) \cup {u} \in SUBSET Units
      BY DEF In, InState
    <3>2. 0 \in 0..DirCooldown
      BY BrokerAssumption
    <3> QED
      BY <2>1, <3>1, <3>2, CloseExitType
  <2>2. CASE /\ exit[s].left > 1
             /\ st' = [st EXCEPT ![u] = "sold"]
             /\ exit' = [exit EXCEPT ![s] =
                           [exit[s] EXCEPT !.left = @ - 1, !.fillAge = 0]]
             /\ UNCHANGED <<at, age, cancelling, lastStop, market, unknownOpen>>
    <3> DEFINE reduced == [exit[s] EXCEPT !.left = @ - 1, !.fillAge = 0]
    <3>1. exit[s].left - 1 \in Nat
      BY <2>2, <1>1 DEF ExitOrders
    <3>2. reduced \in ExitOrders
      BY <3>1, <1>1, ExitOrderUpdates, ZeroAges
    <3>3. exit' = [exit EXCEPT ![s] = reduced]
      BY <2>2
    <3> HIDE DEF reduced
    <3>4. exit' \in [Structures -> ExitOrders]
      BY <3>2, <3>3 DEF BrokerTypeOK
    <3>5. st' \in [Units -> UnitStates]
      BY <2>2 DEF BrokerTypeOK, UnitStates
    <3> QED BY <2>2, <3>4, <3>5 DEF BrokerTypeOK
  <2> QED BY <1>3, <2>1, <2>2 DEF FillExit
<1> QED BY <1>2, <1>3

LEMMA OlderType ==
  ASSUME NEW cap \in Nat, NEW n \in 0..cap
  PROVE  Older(n, cap) \in 0..cap
BY DEF Older

LEMMA AgeingType ==
  ASSUME BrokerTypeOK, NEW U, NEW S, Ageing(U, S)
  PROVE  BrokerTypeOK'
<1>1. age' \in [Units -> 0..EntryTimeout]
  <2>1. \A u \in Units : Older(age[u], EntryTimeout) \in 0..EntryTimeout
    BY OlderType, BrokerAssumption DEF BrokerTypeOK
  <2> QED
    BY <2>1, ZeroAges DEF Ageing
<1>2. exit' \in [Structures -> ExitOrders]
  <2> DEFINE aged(s) ==
        IF s \in OpenExits
        THEN [exit[s] EXCEPT !.age = Older(@, ExitTimeout),
                             !.fillAge = IF In(InState("sold"), s) = {} THEN 0
                                         ELSE Older(@, DirCooldown)]
        ELSE IF s \in S
             THEN [exit[s] EXCEPT !.age = Older(@, ExitTimeout)]
             ELSE NoExit
  <2>0. exit' = [s \in Structures |-> aged(s)]
    BY DEF Ageing
  <2> HIDE DEF aged
  <2> SUFFICES ASSUME NEW s \in Structures
               PROVE  aged(s) \in ExitOrders
    BY <2>0
  <2>1. /\ exit[s] \in ExitOrders
        /\ Older(exit[s].age, ExitTimeout) \in 0..ExitTimeout
        /\ Older(exit[s].fillAge, DirCooldown) \in 0..DirCooldown
    BY OlderType, BrokerAssumption DEF BrokerTypeOK, ExitOrders
  <2> QED
    BY <2>1, NoExitType, ExitOrderUpdates, ZeroAges DEF aged
<1>3. lastStop' \in [dir : Directions \cup {"none"}, age : 0..DirCooldown]
  <2>1. Older(lastStop.age, DirCooldown) \in 0..DirCooldown
    BY OlderType, BrokerAssumption DEF BrokerTypeOK
  <2>2. lastStop' = [lastStop EXCEPT !.age =
                       IF lastStop.dir = "none" THEN 0
                       ELSE Older(@, DirCooldown)]
    BY DEF Ageing
  <2> QED
    BY <2>1, <2>2, BrokerAssumption DEF BrokerTypeOK
<1> QED
  BY <1>1, <1>2, <1>3 DEF BrokerTypeOK, Ageing

-----------------------------------------------------------------------------
(* What the session computes keeps the session's types.                     *)

LEMMA NoViewType == NoView \in Views
BY DEF NoView, Views

LEMMA ViewUpdates ==
  ASSUME BrokerTypeOK, NEW v \in Views
  PROVE  /\ [v EXCEPT !.market = market, !.positions = Held] \in Views
         /\ [v EXCEPT !.positions = Held] \in Views
         /\ ReadOpenOrders(v) \in Views
<1> DEFINE tags == [s \in Structures |-> exit[s].tag]
<1>1. /\ Held \in SUBSET Units /\ Working \in SUBSET Units
      /\ market \in {"before", "open", "cutoff", "closed"}
      /\ unknownOpen \in BOOLEAN
  BY DEF BrokerTypeOK, Held, Working, InState
<1>2. tags \in [Structures -> {"none", "stop", "profit"}]
  <2>1. \A s \in Structures : exit[s] \in ExitOrders
    BY DEF BrokerTypeOK
  <2> QED BY <2>1 DEF ExitOrders
<1> HIDE DEF tags
<1>3. ReadOpenOrders(v) =
        [v EXCEPT !.entries = Working, !.exits = tags, !.unknown = unknownOpen]
  BY DEF ReadOpenOrders, tags
<1> QED
  BY <1>1, <1>2, <1>3 DEF Views

LEMMA NoLossType ==
  NoLoss \in Losses /\ [NoLoss EXCEPT !.error = TRUE] \in Losses
BY DEF NoLoss, Losses

LEMMA LossReadType ==
  ASSUME BrokerTypeOK
  PROVE  LossRead \in Losses
<1>1. Cardinality(Stopped) \in Nat
  BY UnitsCount DEF Stopped, InState
<1>2. lastStop.dir \in Directions \cup {"none"}
  BY DEF BrokerTypeOK
<1> QED
  BY <1>1, <1>2 DEF LossRead, Losses

LEMMA PlanType ==
  ASSUME NEW s \in Structures, NEW tag \in {"stop", "profit"}
  PROVE  [s |-> s, tag |-> tag, n |-> Cardinality(OpenLots(s))] \in Plans
<1>1. Cardinality(OpenLots(s)) \in Nat
  BY UnitsCount DEF OpenLots, In, Held, InState
<1> QED
  BY <1>1 DEF Plans

LEMMA CleanupType ==
  ASSUME NEW v \in Views, Cleanup(v)
  PROVE  todo' \in SUBSET (Units \cup Structures) /\ pc' \in {"sleep", "cancel"}
BY DEF Cleanup, Views

LEMMA AfterExitType ==
  ASSUME SessionTypeOK, NEW b \in BOOLEAN, AfterExit(b)
  PROVE  /\ todo' \in SUBSET (Units \cup Structures)
         /\ pc' \in {"sleep", "cancel", "maintain"}
BY CleanupType DEF AfterExit, SessionTypeOK

LEMMA TimerTypes ==
  /\ SentCap \in Nat /\ 0 \in 0..SentCap
  /\ Interval \in 0..Interval /\ Cooldown \in 0..Cooldown
  /\ 0 \in 0..Interval /\ 0 \in 0..Cooldown
  /\ \A n \in 0..Interval : Countdown(n) \in 0..Interval
  /\ \A n \in 0..Cooldown : Countdown(n) \in 0..Cooldown
BY SessionAssumption DEF SentCap, Countdown

LEMMA LastSentType ==
  ASSUME SessionTypeOK
  PROVE  /\ [lastSent EXCEPT !.age = Older(@, SentCap)]
              \in [age : 0..SentCap, acked : BOOLEAN]
         /\ NeverSent \in [age : 0..SentCap, acked : BOOLEAN]
<1>1. lastSent \in [age : 0..SentCap, acked : BOOLEAN]
  BY DEF SessionTypeOK
<1>2. Older(lastSent.age, SentCap) \in 0..SentCap
  BY <1>1, TimerTypes, OlderType
<1>3. SentCap \in 0..SentCap
  BY TimerTypes
<1> QED
  BY <1>1, <1>2, <1>3 DEF NeverSent

LEMMA FaultType ==
  ASSUME SessionTypeOK, Fault \/ NoFault
  PROVE  faults' \in 0..MaxFaults
BY SessionAssumption DEF SessionTypeOK, Fault, NoFault

LEMMA ForgetType ==
  ASSUME ForgetIteration
  PROVE  /\ view' \in Views /\ loss' \in Losses /\ plan' \in Plans
         /\ proposal' \in Structures \cup {NoStructure}
         /\ todo' \in SUBSET (Units \cup Structures)
BY NoViewType, NoLossType
   DEF ForgetIteration, NoPlan, Plans

-----------------------------------------------------------------------------
(* The type invariant.  Between the agent's answer and the submission there *)
(* is a proposed structure: without it the submission would have no type.   *)

ProposalKnown ==
  pc \in {"positions2", "orders2", "loss2", "submit"}
    => proposal \in Structures

TypeInv == TypeOK /\ ProposalKnown

LEMMA TypeInit == Init => TypeInv
<1> SUFFICES ASSUME Init PROVE TypeInv
  OBVIOUS
<1>1. BrokerTypeOK
  <2>1. (CHOOSE s \in Structures : TRUE) \in Structures
    BY BrokerAssumption
  <2>2. NoStop \in [dir : Directions \cup {"none"}, age : 0..DirCooldown]
    BY ZeroAges DEF NoStop
  <2> QED
    BY <2>1, <2>2, ZeroAges, NoExitType DEF Init, BrokerTypeOK, UnitStates
<1>2. SessionTypeOK
  <2>1. NoPlan \in Plans /\ 0 \in 0..MaxFaults /\ 0 \in 0..MaxRestarts
    BY SessionAssumption DEF NoPlan, Plans
  <2>2. NeverSent \in [age : 0..SentCap, acked : BOOLEAN]
    BY TimerTypes DEF NeverSent
  <2>3. /\ pc \in PCs /\ enabled \in BOOLEAN /\ opened \in BOOLEAN
        /\ ineligible \in BOOLEAN
    BY SessionAssumption DEF Init, PCs
  <2>4. /\ checkIn \in 0..Interval /\ cooldown \in 0..Cooldown
        /\ todo \in SUBSET (Units \cup Structures)
    BY TimerTypes DEF Init
  <2> QED
    BY <2>1, <2>2, <2>3, <2>4, NoViewType, NoLossType DEF Init, SessionTypeOK
<1>3. ProposalKnown
  BY DEF Init, ProposalKnown
<1> QED
  BY <1>1, <1>2, <1>3 DEF TypeInv, TypeOK

LEMMA IterationFailsType ==
  ASSUME TypeInv, IterationFails
  PROVE  TypeInv'
BY FaultType
   DEF TypeInv, TypeOK, BrokerTypeOK, SessionTypeOK, ProposalKnown, PCs,
       IterationFails, brokerVars, Timers, History

LEMMA BrokerStepType ==
  ASSUME TypeInv, BrokerStep
  PROVE  TypeInv'
<1>1. SessionTypeOK' /\ ProposalKnown'
  BY DEF TypeInv, TypeOK, BrokerStep, SessionTypeOK, ProposalKnown, sessionVars
<1>2. BrokerTypeOK'
  <2>0. BrokerTypeOK
    BY DEF TypeInv, TypeOK
  <2>1. CASE \E u \in Units : FillEntry(u) \/ CancelEntry(u)
    BY <2>0, <2>1, EntryActionsType
  <2>2. CASE \E s \in Structures : CancelExit(s)
    BY <2>0, <2>2, ExitActionsType
  <2>3. CASE \E s \in Structures, u \in Units : FillExit(s, u)
    BY <2>0, <2>3, ExitActionsType
  <2>4. CASE MarketMoves
    BY <2>0, <2>4 DEF BrokerTypeOK, MarketMoves, MarketSuccessor
  <2>5. CASE AllowUnknown /\ UnknownOrder
    BY <2>0, <2>5 DEF BrokerTypeOK, UnknownOrder
  <2> QED
    BY <2>1, <2>2, <2>3, <2>4, <2>5 DEF BrokerStep
<1> QED
  BY <1>1, <1>2 DEF TypeInv, TypeOK

LEMMA UnchangedBrokerType ==
  ASSUME BrokerTypeOK, UNCHANGED brokerVars
  PROVE  BrokerTypeOK'
BY DEF BrokerTypeOK, brokerVars

(* Snapshot, loss-loop state and clean-up.                                  *)
LEMMA ReadingStepsType ==
  ASSUME TypeInv,
         ReadPositions \/ ReadOrders \/ ReadLossState \/ CancelNext
  PROVE  TypeInv'
<1>0. BrokerTypeOK /\ SessionTypeOK /\ ProposalKnown
  BY DEF TypeInv, TypeOK
<1>v. NoView \in Views /\ view \in Views
  BY <1>0, NoViewType DEF SessionTypeOK
<1>1. CASE ReadPositions
  <2>1. CASE IterationFails
    BY <2>1, IterationFailsType
  <2>2. CASE ~IterationFails
    <3>1. view' \in Views
      BY <1>0, <1>1, <1>v, <2>2, ViewUpdates DEF ReadPositions
    <3> QED
      BY <1>0, <1>1, <2>2, <3>1, FaultType, UnchangedBrokerType
         DEF ReadPositions, TypeInv, TypeOK, SessionTypeOK, ProposalKnown,
             PCs, Timers, History
  <2> QED BY <2>1, <2>2
<1>2. CASE ReadOrders
  <2>1. CASE IterationFails
    BY <2>1, IterationFailsType
  <2>2. CASE ~IterationFails
    <3>1. view' \in Views
      BY <1>0, <1>2, <1>v, <2>2, ViewUpdates DEF ReadOrders
    <3>2. /\ todo' \in SUBSET (Units \cup Structures)
          /\ pc' \in {"done", "sleep", "cancel", "loss", "exit"}
      <4>1. CASE Cleanup(view')
        BY <4>1, <3>1 DEF Cleanup, Views
      <4>2. CASE todo' = todo /\ pc' \in {"done", "sleep", "loss", "exit"}
        BY <4>2, <1>0 DEF SessionTypeOK
      <4> QED
        BY <1>2, <2>2, <4>1, <4>2 DEF ReadOrders
    <3>3. opened' \in BOOLEAN
      BY <1>2, <2>2, <1>0 DEF ReadOrders, SessionTypeOK
    <3> QED
      BY <1>0, <1>2, <2>2, <3>1, <3>2, <3>3, FaultType, UnchangedBrokerType
         DEF ReadOrders, TypeInv, TypeOK, SessionTypeOK, ProposalKnown,
             PCs, Timers, History
  <2> QED BY <2>1, <2>2
<1>3. CASE ReadLossState
  <2>1. loss' \in Losses
    BY <1>0, <1>3, NoLossType, LossReadType DEF ReadLossState
  <2>2. /\ todo' \in SUBSET (Units \cup Structures)
        /\ pc' \in {"sleep", "cancel", "exit"}
    BY <1>0, <1>3, <1>v, CleanupType DEF ReadLossState, SessionTypeOK
  <2> QED
    BY <1>0, <1>3, <2>1, <2>2, FaultType, UnchangedBrokerType
       DEF ReadLossState, TypeInv, TypeOK, SessionTypeOK, ProposalKnown,
           PCs, Timers, History
<1>4. CASE CancelNext
  <2>1. CASE IterationFails
    BY <2>1, IterationFailsType
  <2>2. CASE ~IterationFails
    <3> PICK u \in todo : CancelOrder(u)
      BY <1>4, <2>2 DEF CancelNext
    <3>1. ASSUME u \in Working PROVE BrokerTypeOK'
      <4>1. u \in Units /\ RequestCancelEntry(u)
        BY <3>1 DEF Working, InState, CancelOrder
      <4> QED
        BY <1>0, <4>1, EntryActionsType
    <3>a. ASSUME u \notin Working PROVE BrokerTypeOK'
      BY <1>0, <3>a, UnchangedBrokerType DEF CancelOrder
    <3>2. BrokerTypeOK'
      BY <3>1, <3>a
    <3>3. todo' \in SUBSET (Units \cup Structures) /\ pc' \in {"sleep", "cancel"}
      BY <1>0 DEF SessionTypeOK, CancelOrder
    <3> QED
      BY <1>0, <3>2, <3>3, FaultType
         DEF CancelOrder, TypeInv, TypeOK, SessionTypeOK, ProposalKnown,
             PCs, Timers, History
  <2> QED BY <2>1, <2>2
<1> QED
  BY <1>1, <1>2, <1>3, <1>4

(* The exit cycle and the entry maintenance.                                *)
LEMMA ExitStepsType ==
  ASSUME TypeInv,
         \/ ExitCheck \/ ExitCheckBlind \/ CancelExits \/ SubmitExit
         \/ MaintainEntries
  PROVE  TypeInv'
<1>0. BrokerTypeOK /\ SessionTypeOK /\ ProposalKnown
  BY DEF TypeInv, TypeOK
<1>1. CASE ExitCheck
  <2>1. BrokerTypeOK'
    <3>1. \/ UNCHANGED brokerVars
          \/ \E S : RequestCancelExits(S)
          \/ \E s \in Structures : ReplaceExit(s)
      BY <1>1 DEF ExitCheck, StaleExits, PendingExits
    <3> QED
      BY <1>0, <3>1, UnchangedBrokerType, ExitRequestsType
  <2>2. \/ plan' = plan /\ \E b \in BOOLEAN : AfterExit(b)
        \/ plan' = plan /\ pc' = "cancelExits" /\ todo' = StaleExits
        \/ plan' \in Plans /\ pc' = "submitExit" /\ todo' = todo
    <3>1. \A s \in Reconciled, tag \in {"stop", "profit"} :
            [s |-> s, tag |-> tag, n |-> Cardinality(OpenLots(s))] \in Plans
      BY PlanType DEF Reconciled
    <3> QED
      BY <1>1, <3>1 DEF ExitCheck
  <2>3. /\ plan' \in Plans /\ todo' \in SUBSET (Units \cup Structures)
        /\ pc' \in {"sleep", "cancel", "maintain", "cancelExits", "submitExit"}
    <3>1. StaleExits \subseteq Structures
      BY DEF StaleExits, PendingExits
    <3>2. plan \in Plans /\ todo \in SUBSET (Units \cup Structures)
      BY <1>0 DEF SessionTypeOK
    <3>3. CASE \E b \in BOOLEAN : AfterExit(b)
      BY <1>0, <2>2, <3>2, <3>3, AfterExitType
    <3>4. CASE ~\E b \in BOOLEAN : AfterExit(b)
      BY <2>2, <3>1, <3>2, <3>4
    <3> QED
      BY <3>3, <3>4
  <2>4. Fault \/ NoFault
    BY <1>1 DEF ExitCheck
  <2>5. UNCHANGED <<opened, Timers, History, view, loss, proposal>>
    BY <1>1 DEF ExitCheck
  <2> QED
    BY <1>0, <2>1, <2>3, <2>4, <2>5, FaultType
       DEF TypeInv, TypeOK, SessionTypeOK, ProposalKnown, PCs, Timers, History
<1>b. CASE ExitCheckBlind
  <2>1. /\ todo' \in SUBSET (Units \cup Structures)
        /\ pc' \in {"sleep", "cancel", "maintain"}
    BY <1>0, <1>b, AfterExitType DEF ExitCheckBlind
  <2> QED
    BY <1>0, <1>b, <2>1, FaultType, UnchangedBrokerType
       DEF ExitCheckBlind, TypeInv, TypeOK, SessionTypeOK, ProposalKnown, PCs,
           Timers, History
<1>c. CASE CancelExits
  <2>1. BrokerTypeOK'
    <3>1. UNCHANGED brokerVars \/ \E S : RequestCancelExits(S)
      BY <1>c DEF CancelExits
    <3> QED
      BY <1>0, <3>1, UnchangedBrokerType, ExitRequestsType
  <2>2. /\ todo' \in SUBSET (Units \cup Structures)
        /\ pc' \in {"sleep", "cancel", "maintain", "cancelExits"}
    <3>1. CASE AfterExit(TRUE)
      BY <1>0, <3>1, AfterExitType
    <3>2. CASE pc' = pc /\ \E s \in Structures : todo' = todo \ {s}
      BY <1>0, <1>c, <3>2 DEF CancelExits, SessionTypeOK
    <3> QED
      BY <1>c, <3>1, <3>2 DEF CancelExits, OpenExits
  <2>3. Fault \/ NoFault
    BY <1>c DEF CancelExits
  <2>4. UNCHANGED <<opened, Timers, History, view, loss, proposal, plan>>
    BY <1>c DEF CancelExits
  <2> QED
    BY <1>0, <2>1, <2>2, <2>3, <2>4, FaultType
       DEF TypeInv, TypeOK, SessionTypeOK, ProposalKnown, PCs, Timers, History
<1>2. CASE SubmitExit
  <2>1. BrokerTypeOK'
    <3>1. plan.tag \in {"none", "stop", "profit"} /\ plan.n \in Nat
      BY <1>0 DEF SessionTypeOK, Plans
    <3> QED
      BY <1>0, <1>2, <3>1, PlaceExitType, UnchangedBrokerType DEF SubmitExit
  <2>2. /\ todo' \in SUBSET (Units \cup Structures)
        /\ pc' \in {"sleep", "cancel", "maintain"}
    BY <1>0, <1>2, AfterExitType DEF SubmitExit
  <2>3. Fault \/ NoFault
    BY <1>2 DEF SubmitExit
  <2> QED
    BY <1>0, <1>2, <2>1, <2>2, <2>3, FaultType
       DEF SubmitExit, TypeInv, TypeOK, SessionTypeOK, ProposalKnown, PCs,
           Timers, History
<1>3. CASE MaintainEntries
  <2>1. /\ todo' \in SUBSET (Units \cup Structures) /\ checkIn' \in 0..Interval
        /\ pc' \in {"cancel", "sleep", "propose"}
    <3>1. StaleEntries \in SUBSET Units
      BY <1>0 DEF StaleEntries, SessionTypeOK, Views
    <3> QED
      BY <1>0, <1>3, <3>1, TimerTypes DEF MaintainEntries, SessionTypeOK
  <2>2. view' \in Views /\ loss' \in Losses
    BY <1>0, <1>3, NoViewType, NoLossType DEF MaintainEntries, SessionTypeOK
  <2> QED
    BY <1>0, <1>3, <2>1, <2>2, FaultType, UnchangedBrokerType
       DEF MaintainEntries, TypeInv, TypeOK, SessionTypeOK, ProposalKnown,
           PCs, History
<1> QED
  BY <1>1, <1>b, <1>c, <1>2, <1>3

(* The entry cycle.                                                         *)
LEMMA CycleStepsType ==
  ASSUME TypeInv,
         \/ Propose \/ ReadPositionsAgain \/ ReadOrdersAgain
         \/ ReadLossAgain \/ SubmitEntry
  PROVE  TypeInv'
<1>0. BrokerTypeOK /\ SessionTypeOK /\ ProposalKnown
  BY DEF TypeInv, TypeOK
<1>v. NoView \in Views /\ view \in Views
  BY <1>0, NoViewType DEF SessionTypeOK
<1>1. CASE IterationFails
  BY <1>1, IterationFailsType
<1>2. CASE Propose /\ ~IterationFails
  BY <1>0, <1>2, FaultType, UnchangedBrokerType
     DEF Propose, TypeInv, TypeOK, SessionTypeOK, ProposalKnown, PCs, Timers,
         History
<1>3. CASE ReadPositionsAgain /\ ~IterationFails
  <2>1. view' \in Views
    BY <1>0, <1>3, <1>v, ViewUpdates DEF ReadPositionsAgain
  <2> QED
    BY <1>0, <1>3, <2>1, FaultType, UnchangedBrokerType
       DEF ReadPositionsAgain, TypeInv, TypeOK, SessionTypeOK, ProposalKnown,
           PCs, Timers, History
<1>4. CASE ReadOrdersAgain /\ ~IterationFails
  <2>1. view' \in Views
    BY <1>0, <1>4, <1>v, ViewUpdates DEF ReadOrdersAgain
  <2> QED
    BY <1>0, <1>4, <2>1, FaultType, UnchangedBrokerType
       DEF ReadOrdersAgain, TypeInv, TypeOK, SessionTypeOK, ProposalKnown,
           PCs, Timers, History
<1>5. CASE ReadLossAgain /\ ~IterationFails
  <2>1. loss' \in Losses
    BY <1>0, <1>5, LossReadType DEF ReadLossAgain
  <2> QED
    BY <1>0, <1>5, <2>1, FaultType, UnchangedBrokerType
       DEF ReadLossAgain, TypeInv, TypeOK, SessionTypeOK, ProposalKnown,
           PCs, Timers, History
<1>6. CASE SubmitEntry
  <2>1. BrokerTypeOK'
    <3>1. proposal \in Structures
      BY <1>0, <1>6 DEF ProposalKnown, SubmitEntry
    <3>2. UNCHANGED brokerVars \/ \E u \in Units : AcceptEntry(u, proposal)
      BY <1>6 DEF SubmitEntry
    <3> QED
      BY <1>0, <3>1, <3>2, EntryActionsType, UnchangedBrokerType
  <2>2. /\ cooldown' \in 0..Cooldown
        /\ lastSent' \in [age : 0..SentCap, acked : BOOLEAN]
        /\ pc' = "sleep"
    <3>1. /\ cooldown' = cooldown \/ cooldown' = Cooldown
          /\ \/ lastSent' = lastSent
             \/ lastSent' = [age |-> 0, acked |-> TRUE]
             \/ lastSent' = [age |-> 0, acked |-> FALSE]
      BY <1>6 DEF SubmitEntry
    <3>2. pc' = "sleep"
      BY <1>6 DEF SubmitEntry
    <3>3. \A b \in BOOLEAN :
            [age |-> 0, acked |-> b] \in [age : 0..SentCap, acked : BOOLEAN]
      BY TimerTypes
    <3> QED
      BY <1>0, <3>1, <3>2, <3>3, TimerTypes DEF SessionTypeOK
  <2>3. Fault \/ NoFault
    BY <1>6 DEF SubmitEntry
  <2>4. UNCHANGED <<opened, checkIn, ineligible, restarts, enabled, view, loss,
                    proposal, plan, todo>>
    BY <1>6 DEF SubmitEntry
  <2> QED
    BY <1>0, <2>1, <2>2, <2>3, <2>4, FaultType
       DEF TypeInv, TypeOK, SessionTypeOK, ProposalKnown, PCs
<1> QED
  BY <1>1, <1>2, <1>3, <1>4, <1>5, <1>6

(* Sleeping, slow calls and restarts.                                       *)
LEMMA PausesType ==
  ASSUME TypeInv, Sleep \/ Delay \/ Restart
  PROVE  TypeInv'
<1>0. BrokerTypeOK /\ SessionTypeOK /\ ProposalKnown
  BY DEF TypeInv, TypeOK
<1>1. CASE Sleep
  BY <1>0, <1>1, AgeingType, ForgetType, TimerTypes, LastSentType
     DEF Sleep, TypeInv, TypeOK, SessionTypeOK, ProposalKnown, PCs
<1>2. CASE Delay
  <2>1. BrokerTypeOK'
    BY <1>0, <1>2, AgeingType DEF Delay
  <2>2. lastSent' \in [age : 0..SentCap, acked : BOOLEAN]
    BY <1>0, <1>2, LastSentType DEF Delay
  <2> QED
    BY <1>0, <1>2, <2>1, <2>2
       DEF Delay, TypeInv, TypeOK, SessionTypeOK, ProposalKnown, Timers
<1>3. CASE Restart
  <2>1. restarts' \in 0..MaxRestarts /\ enabled' \in BOOLEAN
    BY <1>0, <1>3, SessionAssumption DEF Restart, SessionTypeOK
  <2> QED
    BY <1>0, <1>3, <2>1, ForgetType, TimerTypes, LastSentType,
       UnchangedBrokerType
       DEF Restart, TypeInv, TypeOK, SessionTypeOK, ProposalKnown, PCs
<1> QED
  BY <1>1, <1>2, <1>3

LEMMA TypeNext == TypeInv /\ [Next]_vars => TypeInv'
<1> SUFFICES ASSUME TypeInv, [Next]_vars PROVE TypeInv'
  OBVIOUS
<1>1. CASE SessionStep
  BY <1>1, ReadingStepsType, ExitStepsType, CycleStepsType, PausesType
     DEF SessionStep
<1>2. CASE BrokerStep
  BY <1>2, BrokerStepType
<1>3. CASE Delay \/ Restart
  BY <1>3, PausesType
<1>4. CASE Finished \/ UNCHANGED vars
  BY <1>4
     DEF Finished, vars, brokerVars, sessionVars, TypeInv, TypeOK,
         BrokerTypeOK, SessionTypeOK, ProposalKnown
<1> QED
  BY <1>1, <1>2, <1>3, <1>4 DEF Next

(* Every variable of the account and of the session keeps its type, and the *)
(* cycle never submits without a proposed structure: for any number of      *)
(* units, structures, faults and restarts, and any timer setting.           *)
THEOREM TypeCorrect == Spec => []TypeOK
<1>1. Spec => []TypeInv
  BY TypeInit, TypeNext, PTL DEF Spec
<1>2. TypeInv => TypeOK
  BY DEF TypeInv
<1> QED
  BY <1>1, <1>2, PTL

-----------------------------------------------------------------------------
(***************************************************************************)
(* The session never closes more than it holds: for any limits, any number  *)
(* of units, verticals, faults and restarts, and whatever the broker fills  *)
(* between the reads of the exit cycle.  ExitCovered is not inductive: it   *)
(* does not say why the plan made from an earlier snapshot still fits when  *)
(* it is sent.  CoverInv says so: a vertical without an exit has no unit    *)
(* that an open exit order has sold, one seen without an exit still has     *)
(* none, and in such a vertical units can only be added.                    *)
(***************************************************************************)

SoldHaveExit == \A u \in Units : st[u] = "sold" => exit[at[u]].tag # "none"

FreeSeen ==
  pc \in {"loss", "exit"} =>
    \A s \in Structures : view.exits[s] = "none" => exit[s].tag = "none"

PlanFits ==
  pc = "submitExit" => /\ plan.s \in Structures
                       /\ exit[plan.s].tag = "none"
                       /\ plan.n <= Cardinality(In(Held, plan.s))

CoverInv == SoldHaveExit /\ FreeSeen /\ PlanFits /\ ExitCovered

-----------------------------------------------------------------------------
(* What a step must keep of the account.                                    *)

LEMMA SubsetCount ==
  ASSUME NEW U, NEW V, U \subseteq V, V \subseteq Units
  PROVE  /\ Cardinality(U) \in Nat /\ Cardinality(V) \in Nat
         /\ Cardinality(U) <= Cardinality(V)
BY UnitsCount, FS_Subset

(* No unit of a vertical without an exit is sold in one.                    *)
LEMMA FreeLots ==
  ASSUME CoverInv, NEW s \in Structures, exit[s].tag = "none"
  PROVE  In(InState("sold"), s) = {} /\ OpenLots(s) = In(Held, s)
BY DEF CoverInv, SoldHaveExit, OpenLots, In, Held, InState

(* Orders that change in nothing but age or a cancel request, and orders    *)
(* that are forgotten once they are closed, disturb nothing.                *)
SameExits ==
  \A s \in Structures : /\ exit'[s].tag = exit[s].tag
                        /\ exit'[s].left = exit[s].left \/ exit'[s].left = 0

LEMMA CoverKept ==
  ASSUME TypeInv, CoverInv, UNCHANGED <<st, at>>, SameExits
  PROVE  /\ SoldHaveExit' /\ ExitCovered'
         /\ \A s : In(Held, s)' = In(Held, s)
<1>1. at \in [Units -> Structures] /\ at' = at /\ st' = st
  BY DEF TypeInv, TypeOK, BrokerTypeOK
<1>2. \A s : In(Held, s)' = In(Held, s)
  BY <1>1 DEF In, Held, InState
<1>3. SoldHaveExit'
  BY <1>1 DEF CoverInv, SoldHaveExit, SameExits
<1>4. ASSUME NEW s \in Structures
      PROVE  exit'[s].left <= Cardinality(In(Held, s)')
  <2>1. Cardinality(In(Held, s)) \in Nat
    BY SubsetCount DEF In, Held, InState
  <2>2. exit[s].left <= Cardinality(In(Held, s))
    BY DEF CoverInv, ExitCovered
  <2> QED
    BY <1>2, <2>1, <2>2 DEF SameExits
<1> QED
  BY <1>2, <1>3, <1>4 DEF ExitCovered

LEMMA CoverQuiet ==
  ASSUME TypeInv, CoverInv, UNCHANGED <<st, at, exit>>
  PROVE  /\ SoldHaveExit' /\ ExitCovered'
         /\ \A s : In(Held, s)' = In(Held, s)
BY CoverKept DEF SameExits

LEMMA AgeingSameExits ==
  ASSUME TypeInv, NEW U, NEW S, Ageing(U, S)
  PROVE  UNCHANGED <<st, at>> /\ SameExits
<1>1. \A s \in Structures : exit[s] \in ExitOrders
  BY DEF TypeInv, TypeOK, BrokerTypeOK
<1>2. ASSUME NEW s \in Structures
      PROVE  /\ exit'[s].tag = exit[s].tag
             /\ exit'[s].left = exit[s].left \/ exit'[s].left = 0
  <2>1. CASE s \in OpenExits
    BY <1>1, <2>1 DEF Ageing, ExitOrders
  <2>2. CASE s \notin OpenExits /\ s \in S
    BY <1>1, <2>2 DEF Ageing, ExitOrders
  <2>3. CASE s \notin OpenExits /\ s \notin S
    <3>1. exit'[s] = NoExit /\ exit[s].tag = "none"
      BY <2>3 DEF Ageing, OpenExits
    <3> QED
      BY <3>1 DEF NoExit, ExitOrder
  <2> QED
    BY <2>1, <2>2, <2>3
<1> QED
  BY <1>2 DEF Ageing, SameExits

-----------------------------------------------------------------------------
(* The session's steps.                                                     *)

LEMMA CoverReading ==
  ASSUME TypeInv, CoverInv,
         ReadPositions \/ ReadOrders \/ ReadLossState \/ CancelNext
  PROVE  CoverInv'
<1>1. UNCHANGED <<st, at, exit>>
  BY DEF ReadPositions, ReadOrders, ReadLossState, CancelNext, CancelOrder,
         RequestCancelEntry, IterationFails, brokerVars
<1>2. pc' # "submitExit"
  BY DEF ReadPositions, ReadOrders, ReadLossState, CancelNext, CancelOrder,
         Cleanup, IterationFails
<1>3. FreeSeen'
  <2>1. CASE ReadPositions \/ CancelNext
    BY <2>1 DEF ReadPositions, CancelNext, CancelOrder, IterationFails, FreeSeen
  <2>2. CASE ReadOrders
    <3>1. CASE IterationFails
      BY <3>1 DEF IterationFails, FreeSeen
    <3>2. CASE view' = ReadOpenOrders(view)
      <4>1. view'.exits = [s \in Structures |-> exit[s].tag]
        BY <3>2 DEF TypeInv, TypeOK, SessionTypeOK, Views, ReadOpenOrders
      <4> QED
        BY <1>1, <4>1 DEF FreeSeen
    <3> QED
      BY <2>2, <3>1, <3>2 DEF ReadOrders
  <2>3. CASE ReadLossState
    BY <1>1, <2>3 DEF ReadLossState, FreeSeen, CoverInv
  <2> QED
    BY <2>1, <2>2, <2>3
<1> QED
  BY <1>1, <1>2, <1>3, CoverQuiet DEF CoverInv, PlanFits

LEMMA AfterExitGoes ==
  ASSUME NEW b, AfterExit(b)
  PROVE  pc' \in {"sleep", "cancel", "maintain"}
BY DEF AfterExit, Cleanup

(* The exit cycle plans for a vertical it saw without an exit, and for      *)
(* every unit that is still held in it.                                     *)
LEMMA CoverExitCheck ==
  ASSUME TypeInv, CoverInv, ExitCheck
  PROVE  CoverInv'
<1>1. UNCHANGED <<st, at>> /\ SameExits
  <2>1. \A s \in Structures : exit[s] \in ExitOrders
    BY DEF TypeInv, TypeOK, BrokerTypeOK
  <2>2. CASE UNCHANGED brokerVars
    BY <2>2 DEF brokerVars, SameExits
  <2>3. CASE \E S : RequestCancelExits(S)
    BY <2>1, <2>3 DEF RequestCancelExits, SameExits, ExitOrders
  <2>4. CASE \E r \in Structures : ReplaceExit(r)
    BY <2>1, <2>4
       DEF ReplaceExit, SameExits, ExitOrders, TypeInv, TypeOK, BrokerTypeOK
  <2> QED
    BY <2>2, <2>3, <2>4 DEF ExitCheck, StaleExits, PendingExits
<1>2. pc' \in {"sleep", "cancel", "maintain", "cancelExits", "submitExit"}
  BY AfterExitGoes DEF ExitCheck
<1>3. PlanFits'
  <2> SUFFICES ASSUME pc' = "submitExit" PROVE PlanFits'
    BY DEF PlanFits
  <2>1. \E s \in Reconciled \ PendingExits, tag \in {"stop", "profit"} :
          plan' = [s |-> s, tag |-> tag, n |-> Cardinality(OpenLots(s))]
    BY AfterExitGoes DEF ExitCheck
  <2> PICK s \in Reconciled \ PendingExits, tag \in {"stop", "profit"} :
             plan' = [s |-> s, tag |-> tag, n |-> Cardinality(OpenLots(s))]
    BY <2>1
  <2>2. s \in Structures /\ view.exits[s] = "none"
    BY DEF Reconciled, PendingExits
  <2>3. exit[s].tag = "none"
    BY <2>2 DEF ExitCheck, CoverInv, FreeSeen
  <2>4. OpenLots(s) = In(Held, s)
    BY <2>2, <2>3, FreeLots
  <2>5. Cardinality(In(Held, s)) \in Nat
    BY SubsetCount DEF In, Held, InState
  <2>6. plan'.s = s /\ plan'.n = Cardinality(In(Held, s)')
    BY <1>1, <2>4, CoverKept
  <2>7. plan'.n <= Cardinality(In(Held, s)')
    BY <1>1, <2>5, <2>6, CoverKept
  <2> QED
    BY <1>1, <2>2, <2>3, <2>6, <2>7 DEF PlanFits, SameExits
<1>4. FreeSeen'
  BY <1>2 DEF FreeSeen
<1> QED
  BY <1>1, <1>3, <1>4, CoverKept DEF CoverInv

(* A check that sees nothing, and the calls that cancel what is stale.      *)
LEMMA CoverExitRest ==
  ASSUME TypeInv, CoverInv, ExitCheckBlind \/ CancelExits
  PROVE  CoverInv'
<1>1. UNCHANGED <<st, at>> /\ SameExits
  <2>1. \A s \in Structures : exit[s] \in ExitOrders
    BY DEF TypeInv, TypeOK, BrokerTypeOK
  <2>2. CASE UNCHANGED brokerVars
    BY <2>2 DEF brokerVars, SameExits
  <2>3. CASE \E S : RequestCancelExits(S)
    BY <2>1, <2>3 DEF RequestCancelExits, SameExits, ExitOrders
  <2> QED
    BY <2>2, <2>3 DEF ExitCheckBlind, CancelExits
<1>2. pc' \in {"sleep", "cancel", "maintain", "cancelExits"}
  BY AfterExitGoes DEF ExitCheckBlind, CancelExits
<1>3. FreeSeen' /\ PlanFits'
  BY <1>2 DEF FreeSeen, PlanFits
<1> QED
  BY <1>1, <1>3, CoverKept DEF CoverInv

LEMMA CoverSubmitExit ==
  ASSUME TypeInv, CoverInv, SubmitExit
  PROVE  CoverInv'
<1>1. pc' \in {"sleep", "cancel", "maintain"}
  BY AfterExitGoes DEF SubmitExit
<1>2. SoldHaveExit' /\ ExitCovered'
  <2>1. CASE UNCHANGED brokerVars
    BY <2>1, CoverQuiet DEF brokerVars
  <2>2. CASE PlaceExit(plan.s, plan.tag, plan.n)
    <3>1. /\ plan.s \in Structures /\ exit[plan.s].tag = "none"
          /\ plan.n <= Cardinality(In(Held, plan.s))
      BY DEF SubmitExit, CoverInv, PlanFits
    <3>2. /\ exit' = [exit EXCEPT ![plan.s] = ExitOrder(plan.tag, plan.n, 0)]
          /\ st' = st /\ at' = at
      BY <2>2 DEF PlaceExit
    <3>3. exit \in [Structures -> ExitOrders] /\ at \in [Units -> Structures]
      BY DEF TypeInv, TypeOK, BrokerTypeOK
    <3>4. \A s : In(Held, s)' = In(Held, s)
      BY <3>2 DEF In, Held, InState
    <3>5. In(InState("sold"), plan.s) = {}
      BY <3>1, FreeLots
    <3>6. SoldHaveExit'
      BY <3>2, <3>3, <3>5 DEF CoverInv, SoldHaveExit, In, InState
    <3>7. ASSUME NEW s \in Structures
          PROVE  exit'[s].left <= Cardinality(In(Held, s)')
      <4>1. CASE s = plan.s
        BY <3>1, <3>2, <3>3, <3>4, <4>1 DEF ExitOrder
      <4>2. CASE s # plan.s
        BY <3>2, <3>3, <3>4, <4>2 DEF CoverInv, ExitCovered
      <4> QED
        BY <4>1, <4>2
    <3> QED
      BY <3>6, <3>7 DEF ExitCovered
  <2> QED
    BY <2>1, <2>2 DEF SubmitExit
<1> QED
  BY <1>1, <1>2 DEF CoverInv, FreeSeen, PlanFits

LEMMA CoverCycle ==
  ASSUME TypeInv, CoverInv,
         \/ MaintainEntries \/ Propose \/ ReadPositionsAgain
         \/ ReadOrdersAgain \/ ReadLossAgain
  PROVE  CoverInv'
<1>1. UNCHANGED <<st, at, exit>>
  BY DEF MaintainEntries, Propose, ReadPositionsAgain, ReadOrdersAgain,
         ReadLossAgain, IterationFails, brokerVars
<1>2. pc' \notin {"loss", "exit", "submitExit"}
  BY DEF MaintainEntries, Propose, ReadPositionsAgain, ReadOrdersAgain,
         ReadLossAgain, IterationFails
<1> QED
  BY <1>1, <1>2, CoverQuiet DEF CoverInv, FreeSeen, PlanFits

(* A new entry takes the place of a unit that was neither held nor sold.    *)
LEMMA CoverSubmitEntry ==
  ASSUME TypeInv, CoverInv, SubmitEntry
  PROVE  CoverInv'
<1>1. pc' = "sleep"
  BY DEF SubmitEntry
<1>2. SoldHaveExit' /\ ExitCovered'
  <2>1. CASE UNCHANGED brokerVars
    BY <2>1, CoverQuiet DEF brokerVars
  <2>2. CASE \E u \in Units : AcceptEntry(u, proposal)
    <3> PICK u \in Units : AcceptEntry(u, proposal)
      BY <2>2
    <3>1. /\ st \in [Units -> UnitStates] /\ at \in [Units -> Structures]
          /\ st[u] = "unused" /\ st' = [st EXCEPT ![u] = "working"]
          /\ at' = [at EXCEPT ![u] = proposal] /\ exit' = exit
      BY DEF AcceptEntry, TypeInv, TypeOK, BrokerTypeOK
    <3>2. \A s : In(Held, s)' = In(Held, s)
      BY <3>1 DEF In, Held, InState
    <3>3. SoldHaveExit'
      BY <3>1 DEF CoverInv, SoldHaveExit
    <3> QED
      BY <3>1, <3>2, <3>3 DEF CoverInv, ExitCovered
  <2> QED
    BY <2>1, <2>2 DEF SubmitEntry
<1> QED
  BY <1>1, <1>2 DEF CoverInv, FreeSeen, PlanFits

LEMMA CoverPauses ==
  ASSUME TypeInv, CoverInv, Sleep \/ Delay \/ Restart
  PROVE  CoverInv'
<1>1. UNCHANGED <<st, at>> /\ SameExits
  <2>1. CASE Restart
    BY <2>1 DEF Restart, brokerVars, SameExits
  <2>2. CASE Sleep
    BY <2>2, AgeingSameExits DEF Sleep
  <2>3. CASE Delay
    BY <2>3, AgeingSameExits DEF Delay
  <2> QED
    BY <2>1, <2>2, <2>3
<1>2. /\ SoldHaveExit' /\ ExitCovered'
      /\ \A s : In(Held, s)' = In(Held, s)
  BY <1>1, CoverKept
<1>3. CASE Sleep \/ Restart
  <2>1. pc' = "positions"
    BY <1>3 DEF Sleep, Restart
  <2> QED
    BY <1>2, <2>1 DEF CoverInv, FreeSeen, PlanFits
<1>4. CASE Delay
  <2>1. UNCHANGED <<pc, view, plan>>
    BY <1>4 DEF Delay
  <2>2. FreeSeen'
    BY <1>1, <2>1 DEF CoverInv, FreeSeen, SameExits
  <2>3. PlanFits'
    BY <1>1, <1>2, <2>1 DEF CoverInv, PlanFits, SameExits
  <2> QED
    BY <1>2, <2>2, <2>3 DEF CoverInv
<1> QED
  BY <1>3, <1>4

-----------------------------------------------------------------------------
(* The account's own steps: an exit order and the units it can be filled    *)
(* from shrink together.                                                    *)

(* Units are held in s, or were before and its exit order was working.      *)
Shrinks(s) ==
  /\ exit[s].tag = "none" => /\ exit'[s].tag = "none"
                             /\ In(Held, s) \subseteq In(Held, s)'
  /\ exit'[s].left <= Cardinality(In(Held, s)')

LEMMA CoverShrinks ==
  ASSUME TypeInv, CoverInv, SoldHaveExit', UNCHANGED sessionVars,
         \A s \in Structures : Shrinks(s)
  PROVE  CoverInv'
<1>1. ExitCovered'
  BY DEF ExitCovered, Shrinks
<1>2. UNCHANGED <<pc, view, plan>>
  BY DEF sessionVars
<1>3. FreeSeen'
  BY <1>2 DEF CoverInv, FreeSeen, Shrinks
<1>4. PlanFits'
  <2> SUFFICES ASSUME pc = "submitExit" PROVE PlanFits'
    BY <1>2 DEF PlanFits
  <2>1. /\ plan.s \in Structures /\ exit[plan.s].tag = "none"
        /\ plan.n <= Cardinality(In(Held, plan.s))
    BY DEF CoverInv, PlanFits
  <2>2. /\ exit'[plan.s].tag = "none"
        /\ In(Held, plan.s) \subseteq In(Held, plan.s)'
    BY <1>2, <2>1 DEF Shrinks, In
  <2>3. In(Held, plan.s)' \subseteq Units
    BY DEF In, Held, InState
  <2>4. /\ Cardinality(In(Held, plan.s)) \in Nat
        /\ Cardinality(In(Held, plan.s)') \in Nat
        /\ Cardinality(In(Held, plan.s)) <= Cardinality(In(Held, plan.s)')
    BY <2>2, <2>3, SubsetCount
  <2>5. plan.n \in Nat
    BY DEF TypeInv, TypeOK, SessionTypeOK, Plans
  <2>6. plan.n <= Cardinality(In(Held, plan.s)')
    BY <2>1, <2>4, <2>5
  <2> QED
    BY <1>2, <2>1, <2>2, <2>6 DEF PlanFits
<1> QED
  BY <1>1, <1>3, <1>4 DEF CoverInv

LEMMA EntryShrinks ==
  ASSUME TypeInv, CoverInv, NEW u \in Units, FillEntry(u) \/ CancelEntry(u)
  PROVE  SoldHaveExit' /\ \A s \in Structures : Shrinks(s)
<1>1. /\ st \in [Units -> UnitStates] /\ at' = at /\ exit' = exit
      /\ exit \in [Structures -> ExitOrders] /\ st[u] = "working"
      /\ \/ st' = [st EXCEPT ![u] = "held"]
         \/ st' = [st EXCEPT ![u] = "cancelled"]
  BY DEF FillEntry, CancelEntry, TypeInv, TypeOK, BrokerTypeOK
<1>2. SoldHaveExit'
  BY <1>1 DEF CoverInv, SoldHaveExit
<1>3. ASSUME NEW s \in Structures PROVE Shrinks(s)
  <2>1. In(Held, s) \subseteq In(Held, s)' /\ In(Held, s)' \subseteq Units
    BY <1>1 DEF In, Held, InState
  <2>2. /\ Cardinality(In(Held, s)) \in Nat
        /\ Cardinality(In(Held, s)') \in Nat
        /\ Cardinality(In(Held, s)) <= Cardinality(In(Held, s)')
    BY <2>1, SubsetCount
  <2>3. exit[s].left \in Nat /\ exit[s].left <= Cardinality(In(Held, s))
    BY <1>1 DEF CoverInv, ExitCovered, ExitOrders
  <2> QED
    BY <1>1, <2>1, <2>2, <2>3 DEF Shrinks
<1> QED
  BY <1>2, <1>3

(* An exit closes with everything it has sold.                              *)
LEMMA CloseShrinks ==
  ASSUME TypeInv, CoverInv, NEW r \in Structures, NEW U, NEW fillAge,
         U \subseteq OpenLots(r), In(InState("sold"), r) \subseteq U,
         exit[r].tag # "none", CloseExit(r, U, fillAge)
  PROVE  SoldHaveExit' /\ \A s \in Structures : Shrinks(s)
<1>1. /\ st \in [Units -> UnitStates] /\ at \in [Units -> Structures]
      /\ exit \in [Structures -> ExitOrders]
  BY DEF TypeInv, TypeOK, BrokerTypeOK
<1>2. /\ st' = [u \in Units |->
                  IF u \notin U THEN st[u]
                  ELSE IF exit[r].tag = "stop" THEN "stopped" ELSE "taken"]
      /\ exit' = [exit EXCEPT ![r] = ExitOrder("none", 0, exit[r].age)]
      /\ at' = at
  BY DEF CloseExit
<1>3. SoldHaveExit'
  BY <1>1, <1>2 DEF CoverInv, SoldHaveExit, In, InState
<1>4. ASSUME NEW s \in Structures PROVE Shrinks(s)
  <2>1. CASE s = r
    <3>1. exit'[s].left = 0 /\ exit'[s].tag = "none"
      BY <1>1, <1>2, <2>1 DEF ExitOrder
    <3>2. In(Held, s)' \subseteq Units
      BY DEF In, Held, InState
    <3>3. Cardinality(In(Held, s)') \in Nat
      BY <3>2, UnitsCount
    <3> QED
      BY <2>1, <3>1, <3>3 DEF Shrinks
  <2>2. CASE s # r
    <3>1. exit'[s] = exit[s]
      BY <1>1, <1>2, <2>2
    <3>2. In(Held, s)' = In(Held, s)
      BY <1>1, <1>2, <2>2 DEF In, Held, InState, OpenLots
    <3> QED
      BY <3>1, <3>2 DEF Shrinks, CoverInv, ExitCovered
  <2> QED
    BY <2>1, <2>2
<1> QED
  BY <1>3, <1>4

LEMMA FillShrinks ==
  ASSUME TypeInv, CoverInv, NEW r \in Structures, NEW u \in Units,
         FillExit(r, u)
  PROVE  SoldHaveExit' /\ \A s \in Structures : Shrinks(s)
<1>1. /\ st \in [Units -> UnitStates] /\ at \in [Units -> Structures]
      /\ exit \in [Structures -> ExitOrders]
  BY DEF TypeInv, TypeOK, BrokerTypeOK
<1>2. exit[r].tag # "none" /\ u \in In(Held, r)
  BY DEF FillExit
<1>3. CASE CloseExit(r, In(InState("sold"), r) \cup {u}, 0)
  <2>1. In(InState("sold"), r) \cup {u} \subseteq OpenLots(r)
    BY <1>2 DEF OpenLots, In
  <2> QED
    BY <1>2, <1>3, <2>1, CloseShrinks
<1>4. CASE /\ exit[r].left > 1
           /\ st' = [st EXCEPT ![u] = "sold"]
           /\ exit' = [exit EXCEPT ![r] =
                         [exit[r] EXCEPT !.left = @ - 1, !.fillAge = 0]]
           /\ at' = at
  <2>1. /\ exit'[r].left = exit[r].left - 1 /\ exit'[r].tag = exit[r].tag
        /\ \A s \in Structures \ {r} : exit'[s] = exit[s]
    BY <1>1, <1>4 DEF ExitOrders
  <2>2. SoldHaveExit'
    BY <1>1, <1>2, <1>4, <2>1 DEF CoverInv, SoldHaveExit, In
  <2>3. ASSUME NEW s \in Structures PROVE Shrinks(s)
    <3>1. CASE s = r
      <4>1. In(Held, s)' = In(Held, s) \ {u} /\ u \in In(Held, s)
        BY <1>1, <1>2, <1>4, <3>1 DEF In, Held, InState
      <4>2. IsFiniteSet(In(Held, s)) /\ Cardinality(In(Held, s)) \in Nat
        BY UnitsCount DEF In, Held, InState
      <4>3. Cardinality(In(Held, s)') = Cardinality(In(Held, s)) - 1
        BY <4>1, <4>2, FS_RemoveElement
      <4>4. exit[s].left \in Nat /\ exit[s].left <= Cardinality(In(Held, s))
        BY <1>1 DEF CoverInv, ExitCovered, ExitOrders
      <4> QED
        BY <1>2, <2>1, <3>1, <4>2, <4>3, <4>4 DEF Shrinks
    <3>2. CASE s # r
      <4>1. In(Held, s)' = In(Held, s)
        BY <1>1, <1>2, <1>4, <3>2 DEF In, Held, InState
      <4> QED
        BY <2>1, <3>2, <4>1 DEF Shrinks, CoverInv, ExitCovered
    <3> QED
      BY <3>1, <3>2
  <2> QED
    BY <2>2, <2>3
<1> QED
  BY <1>3, <1>4 DEF FillExit

LEMMA CoverBroker ==
  ASSUME TypeInv, CoverInv, BrokerStep
  PROVE  CoverInv'
<1>1. UNCHANGED sessionVars
  BY DEF BrokerStep
<1>2. CASE \E u \in Units : FillEntry(u) \/ CancelEntry(u)
  BY <1>1, <1>2, EntryShrinks, CoverShrinks
<1>3. CASE \E s \in Structures : CancelExit(s)
  <2> PICK s \in Structures : CancelExit(s)
    BY <1>3
  <2>1. /\ exit[s].tag # "none"
        /\ CloseExit(s, In(InState("sold"), s), exit[s].fillAge)
    BY DEF CancelExit
  <2>2. In(InState("sold"), s) \subseteq OpenLots(s)
    BY DEF OpenLots, In
  <2> QED
    BY <1>1, <2>1, <2>2, CloseShrinks, CoverShrinks
<1>4. CASE \E s \in Structures, u \in Units : FillExit(s, u)
  BY <1>1, <1>4, FillShrinks, CoverShrinks
<1>5. CASE MarketMoves \/ (AllowUnknown /\ UnknownOrder)
  <2>1. UNCHANGED <<st, at, exit>> /\ UNCHANGED <<pc, view, plan>>
    BY <1>1, <1>5 DEF MarketMoves, UnknownOrder, sessionVars
  <2> QED
    BY <2>1, CoverQuiet DEF CoverInv, FreeSeen, PlanFits
<1> QED
  BY <1>2, <1>3, <1>4, <1>5 DEF BrokerStep

-----------------------------------------------------------------------------
LEMMA CoverInit == Init => CoverInv
<1> SUFFICES ASSUME Init PROVE CoverInv
  OBVIOUS
<1>1. ASSUME NEW s \in Structures
      PROVE  exit[s].left <= Cardinality(In(Held, s))
  <2>1. Cardinality(In(Held, s)) \in Nat
    BY UnitsCount DEF In, Held, InState
  <2> QED
    BY <2>1 DEF Init, NoExit, ExitOrder
<1> QED
  BY <1>1 DEF Init, CoverInv, SoldHaveExit, FreeSeen, PlanFits, ExitCovered

LEMMA CoverNext == TypeInv /\ CoverInv /\ [Next]_vars => CoverInv'
<1> SUFFICES ASSUME TypeInv, CoverInv, [Next]_vars PROVE CoverInv'
  OBVIOUS
<1>1. CASE SessionStep
  BY <1>1, CoverReading, CoverExitCheck, CoverExitRest, CoverSubmitExit,
     CoverCycle, CoverSubmitEntry, CoverPauses DEF SessionStep
<1>2. CASE BrokerStep
  BY <1>2, CoverBroker
<1>3. CASE Delay \/ Restart
  BY <1>3, CoverPauses
<1>4. CASE Finished \/ UNCHANGED vars
  <2>1. UNCHANGED <<st, at, exit>> /\ UNCHANGED <<pc, view, plan>>
    BY <1>4 DEF Finished, vars, brokerVars, sessionVars
  <2> QED
    BY <2>1, CoverQuiet DEF CoverInv, FreeSeen, PlanFits
<1> QED
  BY <1>1, <1>2, <1>3, <1>4 DEF Next

LEMMA CoverAlways == Spec => [](TypeInv /\ CoverInv)
<1>1. Spec => []TypeInv
  BY TypeInit, TypeNext, PTL DEF Spec
<1> QED
  BY <1>1, CoverInit, CoverNext, PTL DEF Spec

(* A working exit can always be filled from units that are still held, for  *)
(* every instance: part fills, repricing, lost replies, cancels that race   *)
(* with fills, and restarts included.                                       *)
THEOREM ExitsCovered == Spec => []ExitCovered
<1>1. CoverInv => ExitCovered
  BY DEF CoverInv
<1> QED
  BY <1>1, CoverAlways, PTL

(* An exit is sent only where none is working, and for no more units than   *)
(* are held when it is sent, although it was planned from an older snapshot.*)
THEOREM ExitsOnce == Spec => NoDoubleClose
<1>1. ASSUME TypeInv, CoverInv, [Next]_vars, NEW s \in Structures,
             ExitPlaced(s)
      PROVE  exit[s].tag = "none" /\ plan.n <= Cardinality(In(Held, s))
  <2>1. pc = "submitExit" /\ pc' # pc /\ exit'[s] # exit[s]
    BY <1>1 DEF ExitPlaced
  <2>2. SubmitExit \/ Restart
    BY <1>1, <2>1
       DEF Next, SessionStep, ReadPositions, ReadOrders, ReadLossState,
           CancelNext, ExitCheck, ExitCheckBlind, CancelExits,
           MaintainEntries, Propose,
           ReadPositionsAgain, ReadOrdersAgain, ReadLossAgain, SubmitEntry,
           Sleep, BrokerStep, Delay, Finished, vars, sessionVars
  <2>3. SubmitExit /\ PlaceExit(plan.s, plan.tag, plan.n)
    BY <2>1, <2>2 DEF SubmitExit, Restart, brokerVars
  <2>4. s = plan.s
    BY <2>1, <2>3
       DEF PlaceExit, TypeInv, TypeOK, BrokerTypeOK
  <2> QED
    BY <1>1, <2>1, <2>4 DEF CoverInv, PlanFits
<1>2. TypeInv /\ CoverInv /\ [Next]_vars =>
        [\A s \in Structures : ExitPlaced(s) =>
           /\ exit[s].tag = "none"
           /\ plan.n <= Cardinality(In(Held, s))]_vars
  BY <1>1
<1> QED
  BY <1>2, CoverAlways, PTL DEF Spec, NoDoubleClose
=============================================================================
