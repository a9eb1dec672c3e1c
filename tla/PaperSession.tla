---------------------------- MODULE PaperSession ----------------------------
(***************************************************************************)
(* The autonomous paper session: one process that loops over broker reads,  *)
(* exit management, entry maintenance, the portfolio gate and the entry     *)
(* cycle, while the broker fills and cancels orders between any two of its  *)
(* calls.  Every broker call is a step of its own; what the code computes   *)
(* between two calls belongs to the step of the call before it.             *)
(*                                                                         *)
(* One tick is one risk interval.  checkIn and cooldown are what is left of *)
(* next_entry_check_at and entry_cooldown_until: like elapsed_seconds they  *)
(* move only when the loop sleeps, whereas broker ages also grow while a    *)
(* call or the model inference is running (Delay).                          *)
(***************************************************************************)
EXTENDS PaperBroker

CONSTANTS
  MaxStops,     \* --maximum-session-stop-loss-fills
  MaxOpen,      \* --maximum-open-spreads
  MaxSame,      \* --maximum-same-structure-units
  Interval,     \* --interval-seconds, in ticks
  Cooldown,     \* --entry-cooldown-seconds, in ticks
  EntryModes,   \* values of new_entries_enabled a start may choose
  AllowUnknown, \* may an order of unknown purpose appear?
  SlowCalls,    \* calls during which wall-clock ticks may pass
  MaxFaults,    \* broker or model calls that fail in a run
  MaxRestarts   \* sessions killed and started again in a run

ASSUME SessionAssumption ==
  /\ MaxStops \in Nat \ {0}
  /\ MaxOpen \in Nat \ {0}
  /\ MaxSame \in Nat \ {0}
  /\ Interval \in Nat \ {0}
  /\ Cooldown \in Nat
  /\ EntryModes \in SUBSET BOOLEAN
  /\ AllowUnknown \in BOOLEAN
  /\ MaxFaults \in Nat
  /\ MaxRestarts \in Nat

VARIABLES
  pc,          \* the call the session makes next
  enabled,     \* new_entries_enabled
  opened,      \* market_has_opened
  checkIn,     \* next_entry_check_at - elapsed_seconds
  cooldown,    \* entry_cooldown_until - elapsed_seconds
  ineligible,  \* session_entry_ineligible_reason is set
  view,        \* the snapshot of this iteration (or of the entry cycle)
  loss,        \* the loss-loop state last read
  proposal,    \* structure the agent proposed
  plan,        \* the exit the exit cycle decided to submit
  todo,        \* entries a clean-up, or exits the exit cycle, has to cancel
  faults, restarts,
  lastSent     \* history: the session's previous entry submission

sessionVars == <<pc, enabled, opened, checkIn, cooldown, ineligible, view,
                 loss, proposal, plan, todo, faults, restarts, lastSent>>
vars == <<brokerVars, sessionVars>>

PCs == {"positions", "orders", "loss", "exit", "cancelExits", "submitExit",
        "maintain", "cancel", "gate", "propose", "positions2", "orders2", "loss2",
        "submit", "sleep", "done"}

NoView == [market |-> "before", positions |-> {}, entries |-> {},
           exits |-> [s \in Structures |-> "none"], unknown |-> FALSE]
NoLoss == [error |-> FALSE, stops |-> 0, blocked |-> "none"]
NoPlan == [s |-> "none", tag |-> "none", n |-> 0]
NoStructure == "none"
SentCap == IF Cooldown > Interval THEN Cooldown ELSE Interval
NeverSent == [age |-> SentCap, acked |-> FALSE]

Views == [market : {"before", "open", "cutoff", "closed"},
          positions : SUBSET Units, entries : SUBSET Units,
          exits : [Structures -> {"none", "stop", "profit"}],
          unknown : BOOLEAN]
Losses == [error : BOOLEAN, stops : Nat, blocked : Directions \cup {"none"}]
Plans == [s : Structures \cup {"none"}, tag : {"none", "stop", "profit"},
          n : Nat]

SessionTypeOK ==
  /\ pc \in PCs
  /\ enabled \in BOOLEAN
  /\ opened \in BOOLEAN
  /\ checkIn \in 0..Interval
  /\ cooldown \in 0..Cooldown
  /\ ineligible \in BOOLEAN
  /\ view \in Views
  /\ loss \in Losses
  /\ proposal \in Structures \cup {NoStructure}
  /\ plan \in Plans
  /\ todo \in SUBSET (Units \cup Structures)
  /\ faults \in 0..MaxFaults
  /\ restarts \in 0..MaxRestarts
  /\ lastSent \in [age : 0..SentCap, acked : BOOLEAN]

(* Every variable of the broker and of the session keeps its type.          *)
TypeOK == BrokerTypeOK /\ SessionTypeOK

Init ==
  /\ st = [u \in Units |-> "unused"]
  /\ at = [u \in Units |-> CHOOSE s \in Structures : TRUE]
  /\ age = [u \in Units |-> 0]
  /\ cancelling = {}
  /\ exit = [s \in Structures |-> NoExit]
  /\ lastStop = NoStop
  /\ market \in {"before", "open"}
  /\ unknownOpen = FALSE
  /\ pc = "positions"
  /\ enabled \in EntryModes
  /\ opened = FALSE
  /\ checkIn = 0
  /\ cooldown = 0
  /\ ineligible = FALSE
  /\ view = NoView
  /\ loss = NoLoss
  /\ proposal = NoStructure
  /\ plan = NoPlan
  /\ todo = {}
  /\ faults = 0
  /\ restarts = 0
  /\ lastSent = NeverSent

-----------------------------------------------------------------------------
(* Frames and failures.                                                     *)

Timers == <<checkIn, cooldown, ineligible>>
History == <<restarts, lastSent, enabled>>

Fault == faults < MaxFaults /\ faults' = faults + 1
NoFault == faults' = faults

(* An exception the loop catches: it gives this iteration up and sleeps.    *)
IterationFails ==
  /\ Fault
  /\ pc' = "sleep"
  /\ UNCHANGED <<brokerVars, opened, Timers, History, view, loss, proposal,
                 plan, todo>>

-----------------------------------------------------------------------------
(* What the code computes from the snapshot and the loss-loop state.        *)

ViewOpen == view.market \in {"open", "cutoff"}
CutoffActive == view.market = "cutoff"

(* Slip: working exits are not taken into account.                          *)
NoPendingExits == {}

PendingExits == {s \in Structures : view.exits[s] # "none"}

(* Slip: pending entries do not consume capacity.                           *)
CommittedPositions == Cardinality(view.positions)

(* managed spreads plus pending entry and unknown units.                    *)
CommittedUnits ==
  Cardinality(view.positions) + Cardinality(view.entries)
  + (IF view.unknown THEN 1 ELSE 0)

(* Slip: stop fills are not rebuilt from the closed orders.                 *)
LossReadForgotten == NoLoss

(* read_session_loss_loop_state, from the closed orders at this moment.     *)
LossRead ==
  LET stops == Cardinality(Stopped)
  IN [error |-> FALSE, stops |-> stops,
      blocked |-> IF /\ stops < MaxStops
                     /\ lastStop.dir # "none"
                     /\ lastStop.age < DirCooldown
                  THEN lastStop.dir ELSE "none"]

HaltsAll(l) == l.stops >= MaxStops
(* Slip: confirmed stops do not reduce the capacity left.                   *)
FullCapacity(l) == MaxStops

StopCapacity(l) == IF HaltsAll(l) THEN 0 ELSE MaxStops - l.stops
WithinStopCapacity(l) == CommittedUnits < StopCapacity(l)

BlocksExistingEntry(l) == l.error \/ HaltsAll(l) \/ l.blocked # "none"

-----------------------------------------------------------------------------
(* Snapshot, loss-loop state and entry clean-up.                            *)

ReadPositions ==
  /\ pc = "positions"
  /\ \/ IterationFails
     \/ /\ view' = [NoView EXCEPT !.market = market, !.positions = Held]
        /\ pc' = "orders"
        /\ NoFault
        /\ UNCHANGED <<brokerVars, opened, Timers, History, loss, proposal,
                       plan, todo>>

ReadOpenOrders(v) ==
  [v EXCEPT !.entries = Working,
            !.exits = [s \in Structures |-> exit[s].tag],
            !.unknown = unknownOpen]

(* Slip: the clean-up reports, but cancels nothing.                         *)
CleanupSkipped(v) == todo' = {} /\ pc' = "sleep"

(* Cancel every entry of the snapshot, none when one order is unknown.      *)
Cleanup(v) ==
  /\ todo' = IF v.unknown THEN {} ELSE v.entries
  /\ pc' = IF todo' = {} THEN "sleep" ELSE "cancel"

ReadOrders ==
  /\ pc = "orders"
  /\ \/ IterationFails
     \/ /\ view' = ReadOpenOrders(view)
        /\ opened' = (opened \/ ViewOpen)
        /\ \/ /\ ~ViewOpen
              /\ pc' = IF opened THEN "done" ELSE "sleep"
              /\ todo' = todo
           \/ /\ ViewOpen /\ ~enabled /\ view'.entries # {}
              /\ Cleanup(view')
           \/ /\ ViewOpen /\ (enabled \/ view'.entries = {})
              /\ pc' = IF enabled THEN "loss" ELSE "exit"
              /\ todo' = todo
        /\ NoFault
        /\ UNCHANGED <<brokerVars, Timers, History, loss, proposal, plan>>

ReadLossState ==
  /\ pc = "loss"
  /\ \/ Fault /\ loss' = [NoLoss EXCEPT !.error = TRUE]
     \/ NoFault /\ loss' = LossRead
  /\ IF BlocksExistingEntry(loss') /\ view.entries # {}
     THEN Cleanup(view)
     ELSE pc' = "exit" /\ todo' = todo
  /\ UNCHANGED <<brokerVars, opened, Timers, History, view, proposal, plan>>

(* cancel_order_by_id raises for an order that is no longer open, and the   *)
(* rest of the clean-up is then left to the next iteration.                 *)
CancelOrder(u) ==
  /\ IF u \in Working
     THEN /\ RequestCancelEntry(u)
          /\ todo' = todo \ {u}
          /\ pc' = IF todo' = {} THEN "sleep" ELSE "cancel"
     ELSE /\ pc' = "sleep"
          /\ UNCHANGED <<brokerVars, todo>>
  /\ NoFault
  /\ UNCHANGED <<opened, Timers, History, view, loss, proposal, plan>>

CancelNext ==
  /\ pc = "cancel"
  /\ IterationFails \/ \E u \in todo : CancelOrder(u)

-----------------------------------------------------------------------------
(* The exit cycle.                                                          *)

(* Where an iteration goes once the exit check is over: blocked when it     *)
(* raised, submitted an exit or blocks new entries.                         *)
AfterExit(blocked) ==
  IF CutoffActive THEN Cleanup(view)
  ELSE /\ pc' = IF blocked \/ loss.error \/ HaltsAll(loss) \/ ~enabled
                THEN "sleep" ELSE "maintain"
       /\ todo' = todo

(* Structures whose lots in the order history match the positions exactly.  *)
Reconciled ==
  {s \in Structures :
     /\ OpenLots(s) # {}
     /\ Cardinality(OpenLots(s)) = Cardinality(In(view.positions, s))}

(* Positions exist, the history knows no lot: the cycle stops right there.  *)
BasisMissing ==
  view.positions # {} /\ \A s \in Structures : OpenLots(s) = {}

InventoryUnreconciled ==
  \E s \in Structures \ Reconciled : In(view.positions, s) # {}

StaleExits == {s \in PendingExits \ Undated : exit[s].age >= ExitTimeout}

ExitCheckPasses ==
  /\ ~BasisMissing
  /\ StaleExits = {} \/ /\ Reconciled # {}
                        /\ \A s \in StaleExits : /\ s \in Reconciled
                                                 /\ view.exits[s] = "profit"
  /\ StaleExits # {} \/ ~InventoryUnreconciled

(* The history cannot be read, or a quote it needs cannot be had.           *)
ExitCheckBlind ==
  /\ pc = "exit"
  /\ AfterExit(TRUE) /\ NoFault
  /\ UNCHANGED <<brokerVars, opened, Timers, History, view, loss, proposal,
                 plan>>

(* Of the stale exits one that needs a call ends the cycle; all of them are *)
(* to go when no spread is left to manage.                                  *)
ExitCheck ==
  /\ pc = "exit"
  /\ \/ /\ view.unknown                      \* purpose unknown: blocked
        /\ AfterExit(TRUE)
        /\ UNCHANGED <<brokerVars, plan>>
     \/ /\ ~view.unknown                     \* nothing to do, not blocked
        /\ ExitCheckPasses
        /\ AfterExit(FALSE)
        /\ UNCHANGED <<brokerVars, plan>>
     \/ /\ ~view.unknown                     \* inventory and history differ
        /\ BasisMissing \/ (StaleExits = {} /\ InventoryUnreconciled)
        /\ AfterExit(TRUE)
        /\ UNCHANGED <<brokerVars, plan>>
     \/ /\ ~view.unknown /\ ~BasisMissing    \* nothing to manage
        /\ Reconciled = {} /\ StaleExits # {}
        /\ pc' = "cancelExits" /\ todo' = StaleExits
        /\ UNCHANGED <<brokerVars, plan>>
     \/ /\ ~view.unknown                     \* cancel a stale exit
        /\ Reconciled # {}
        /\ \E s \in StaleExits : RequestCancelExits({s} \cap OpenExits)
        /\ AfterExit(TRUE)
        /\ UNCHANGED plan
     \/ /\ ~view.unknown                     \* reprice a stale take-profit
        /\ \E s \in StaleExits \cap Reconciled :
             /\ view.exits[s] = "profit"
             /\ IF s \in OpenExits THEN ReplaceExit(s)
                                   ELSE UNCHANGED brokerVars
        /\ AfterExit(TRUE)
        /\ UNCHANGED plan
     \/ /\ ~view.unknown                     \* a threshold is reached
        /\ StaleExits = {}
        /\ \E s \in Reconciled \ PendingExits, tag \in {"stop", "profit"} :
             plan' = [s |-> s, tag |-> tag, n |-> Cardinality(OpenLots(s))]
        /\ pc' = "submitExit"
        /\ UNCHANGED <<brokerVars, todo>>
  /\ NoFault
  /\ UNCHANGED <<opened, Timers, History, view, loss, proposal>>

(* One call per exit, up to the first that raises.                          *)
CancelExits ==
  /\ pc = "cancelExits"
  /\ \/ /\ NoFault
        /\ \E s \in todo \cap OpenExits :
             /\ RequestCancelExits({s})
             /\ \/ /\ todo # {s}
                   /\ todo' = todo \ {s} /\ pc' = pc
                \/ todo = {s} /\ AfterExit(TRUE)
     \/ /\ (NoFault /\ ~(todo \subseteq OpenExits)) \/ Fault
        /\ AfterExit(TRUE)
        /\ UNCHANGED brokerVars
  /\ UNCHANGED <<opened, Timers, History, view, loss, proposal, plan>>

(* The reply may be lost after the broker took the order; either way the    *)
(* iteration ends and the next snapshot is what the session goes by.        *)
SubmitExit ==
  /\ pc = "submitExit"
  /\ \/ (Fault \/ NoFault) /\ PlaceExit(plan.s, plan.tag, plan.n)
     \/ Fault /\ UNCHANGED brokerVars
  /\ AfterExit(TRUE)
  /\ UNCHANGED <<opened, Timers, History, view, loss, proposal, plan>>

-----------------------------------------------------------------------------
(* Entry maintenance and the portfolio gate: no broker call but the cancels.*)

(* Slip: an entry is stale only past the timeout, which a saturated age     *)
(* never is.                                                                *)
StaleEntriesLate == {u \in view.entries \ Undated : age[u] > EntryTimeout}

StaleEntries == {u \in view.entries \ Undated : age[u] >= EntryTimeout}
(* Slip: the cooldown is not consulted.                                     *)
EntryDueNoCooldown == checkIn = 0 /\ ~ineligible

EntryDue == checkIn = 0 /\ ~ineligible /\ cooldown = 0
GateOpen == WithinStopCapacity(loss) /\ CommittedUnits < MaxOpen

MaintainEntries ==
  /\ pc = "maintain"
  /\ \/ /\ StaleEntries # {}
        /\ todo' = StaleEntries
        /\ pc' = "cancel"
        /\ UNCHANGED <<checkIn, view, loss>>
     \/ /\ StaleEntries = {}                 \* not due, or in cooldown
        /\ checkIn > 0 \/ (~ineligible /\ cooldown > 0)
        /\ pc' = "sleep"
        /\ UNCHANGED <<checkIn, view, loss, todo>>
     \/ /\ StaleEntries = {}                 \* due, but not this session
        /\ checkIn = 0 /\ ineligible
        /\ checkIn' = Interval
        /\ pc' = "sleep"
        /\ UNCHANGED <<view, loss, todo>>
     \/ /\ StaleEntries = {}                 \* limit, daily loss or account
        /\ EntryDue
        /\ checkIn' = Interval
        /\ pc' = "sleep"
        /\ UNCHANGED <<view, loss, todo>>
     \/ /\ StaleEntries = {}                 \* the gate is open
        /\ EntryDue /\ GateOpen
        /\ checkIn' = Interval
        /\ pc' = "propose"
        /\ view' = NoView /\ loss' = NoLoss
        /\ UNCHANGED todo
  /\ NoFault
  /\ UNCHANGED <<brokerVars, opened, cooldown, ineligible, History, proposal,
                 plan>>

-----------------------------------------------------------------------------
(* The entry cycle.                                                         *)

Propose ==
  /\ pc = "propose"
  /\ \/ IterationFails
     \/ /\ pc' = "sleep"                     \* no trade, perhaps for the day
        /\ ineligible' \in {ineligible, TRUE}
        /\ NoFault
        /\ UNCHANGED <<brokerVars, opened, checkIn, cooldown, History, view,
                       loss, proposal, plan, todo>>
     \/ /\ proposal' \in Structures
        /\ pc' = "positions2"
        /\ NoFault
        /\ UNCHANGED <<brokerVars, opened, Timers, History, view, loss, plan,
                       todo>>

ReadPositionsAgain ==
  /\ pc = "positions2"
  /\ \/ IterationFails
     \/ /\ view' = [NoView EXCEPT !.positions = Held]
        /\ pc' = "orders2"
        /\ NoFault
        /\ UNCHANGED <<brokerVars, opened, Timers, History, loss, proposal,
                       plan, todo>>

(* identify_managed_debit_spreads pairs the contracts of the positions anew,  *)
(* lowest long strike first, each with its nearest short, and so finds       *)
(* fewer units of a vertical than were bought where others cross it: the     *)
(* units of calls bought around it and inside it trade their legs, and those *)
(* of puts that lie across one of its strikes.                               *)
Beside(v) == {u \in v.positions : SameChain(at[u], proposal)}

Around(v) == {u \in Beside(v) : /\ LongStrike[at[u]] < LongStrike[proposal]
                                /\ ShortStrike[proposal] < ShortStrike[at[u]]}
Inside(v) == {u \in Beside(v) : /\ LongStrike[proposal] < LongStrike[at[u]]
                                /\ ShortStrike[at[u]] < ShortStrike[proposal]}

CallUnits(v) ==
  Cardinality({i \in 1..Cardinality(In(v.positions, proposal)) :
                 /\ i > Cardinality(Around(v)) - Cardinality(Inside(v))
                 /\ i > Cardinality(Inside(v)) - Cardinality(Around(v))})

(* Short puts at or below a strike whose long is above it.                  *)
OpenAt(v, k) ==
  {u \in Beside(v) : ShortStrike[at[u]] <= k /\ k < LongStrike[at[u]]}
OpenBelow(v, k) ==
  {u \in Beside(v) : ShortStrike[at[u]] < k /\ k <= LongStrike[at[u]]}

PutUnits(v) ==
  Cardinality({d \in 1..Cardinality(v.positions) :
                 /\ Cardinality(OpenBelow(v, ShortStrike[proposal])) < d
                 /\ Cardinality(OpenAt(v, LongStrike[proposal])) < d
                 /\ \A k \in ShortStrike[proposal]..(LongStrike[proposal] - 1) :
                      d <= Cardinality(OpenAt(v, k))})

SameStructureUnits(v) ==
  IF DirectionOf[proposal] = "bullish" THEN CallUnits(v) ELSE PutUnits(v)

NoConflict(v) ==
  /\ \A u \in v.entries : ~SharesContract(at[u], proposal)
  /\ \A s \in Structures :
       v.exits[s] # "none" => ~SharesContract(s, proposal)

(* Slip: filled units of the same vertical are not counted.                 *)
PolicyIgnoresHeld(v) == NoConflict(v)

(* evaluate_entry_proposal_policy, on the cycle's own snapshot.  Its         *)
(* refusals of a leg held the other way round cannot arise where no          *)
(* contract is a leg of two structures.                                      *)
PolicyAllows(v) == NoConflict(v) /\ SameStructureUnits(v) < MaxSame

ReadOrdersAgain ==
  /\ pc = "orders2"
  /\ \/ IterationFails
     \/ /\ view' = ReadOpenOrders(view)
        /\ \/ pc' = "loss2" /\ PolicyAllows(view')
           \/ pc' = "sleep" /\ (~PolicyAllows(view') \/ unknownOpen)
        /\ NoFault
        /\ UNCHANGED <<brokerVars, opened, Timers, History, loss, proposal,
                       plan, todo>>

ReadLossAgain ==
  /\ pc = "loss2"
  /\ \/ IterationFails
     \/ /\ loss' = LossRead
        /\ pc' = IF /\ WithinStopCapacity(loss')
                    /\ loss'.blocked # DirectionOf[proposal]
                 THEN "submit" ELSE "sleep"
        /\ NoFault
        /\ UNCHANGED <<brokerVars, opened, Timers, History, view, proposal,
                       plan, todo>>

(* Authority and gateway may still refuse; the broker may take the order    *)
(* and the reply be lost, and then no cooldown starts.                      *)
SubmitEntry ==
  /\ pc = "submit"
  /\ pc' = "sleep"
  /\ \/ /\ NoFault
        /\ UNCHANGED <<brokerVars, cooldown, lastSent>>
     \/ /\ Fault
        /\ UNCHANGED <<brokerVars, cooldown, lastSent>>
     \/ /\ NoFault
        /\ \E u \in Units : AcceptEntry(u, proposal)
        /\ cooldown' = Cooldown
        /\ lastSent' = [age |-> 0, acked |-> TRUE]
     \/ /\ Fault
        /\ \E u \in Units : AcceptEntry(u, proposal)
        /\ lastSent' = [age |-> 0, acked |-> FALSE]
        /\ UNCHANGED cooldown
  /\ UNCHANGED <<opened, checkIn, ineligible, restarts, enabled, view, loss,
                 proposal, plan, todo>>

-----------------------------------------------------------------------------
(* Sleeping, slow calls, restarts.                                          *)

(* Slip: the remaining time is not clamped at zero.                         *)
CountdownUnclamped(n) == n - 1

Countdown(n) == IF n > 0 THEN n - 1 ELSE 0

ForgetIteration ==
  /\ view' = NoView
  /\ loss' = NoLoss
  /\ proposal' = NoStructure
  /\ plan' = NoPlan
  /\ todo' = {}

Sleep ==
  /\ pc = "sleep"
  /\ pc' = "positions"
  /\ checkIn' = Countdown(checkIn)
  /\ cooldown' = Countdown(cooldown)
  /\ Ageing({}, {})
  /\ lastSent' = [lastSent EXCEPT !.age = Older(@, SentCap)]
  /\ ForgetIteration
  /\ UNCHANGED <<opened, ineligible, enabled, faults, restarts>>

Delay ==
  /\ pc \in SlowCalls
  /\ Ageing(view.entries, PendingExits)
  /\ lastSent' = [lastSent EXCEPT !.age = Older(@, SentCap)]
  /\ <<age, exit, lastStop, lastSent>>' # <<age, exit, lastStop, lastSent>>
  /\ UNCHANGED <<pc, enabled, opened, Timers, view, loss, proposal, plan,
                 todo, faults, restarts>>

(* The process dies at any point and is started again: everything it kept   *)
(* in memory is lost, the broker's orders are not.                          *)
Restart ==
  /\ pc # "done"
  /\ restarts < MaxRestarts
  /\ restarts' = restarts + 1
  /\ pc' = "positions"
  /\ enabled' \in EntryModes
  /\ opened' = FALSE
  /\ checkIn' = 0
  /\ cooldown' = 0
  /\ ineligible' = FALSE
  /\ lastSent' = NeverSent
  /\ ForgetIteration
  /\ UNCHANGED <<brokerVars, faults>>

-----------------------------------------------------------------------------
SessionStep ==
  \/ ReadPositions \/ ReadOrders \/ ReadLossState \/ CancelNext
  \/ ExitCheck \/ ExitCheckBlind \/ CancelExits \/ SubmitExit
  \/ MaintainEntries
  \/ Propose \/ ReadPositionsAgain \/ ReadOrdersAgain \/ ReadLossAgain
  \/ SubmitEntry \/ Sleep

BrokerStep ==
  /\ \/ \E u \in Units : FillEntry(u) \/ CancelEntry(u)
     \/ \E s \in Structures : CancelExit(s)
     \/ \E s \in Structures, u \in Units : FillExit(s, u)
     \/ MarketMoves
     \/ AllowUnknown /\ UnknownOrder
  /\ UNCHANGED sessionVars

Finished == pc = "done" /\ UNCHANGED vars

Next == SessionStep \/ BrokerStep \/ Delay \/ Restart \/ Finished

Spec == Init /\ [][Next]_vars

(* The loop never stops by itself before the close, every call returns or   *)
(* raises, and the broker honours a cancel request or a close eventually.   *)
FairSpec ==
  /\ Spec
  /\ WF_vars(SessionStep)
  /\ \A u \in Units : WF_vars(CancelEntry(u) /\ UNCHANGED sessionVars)
  /\ \A s \in Structures : WF_vars(CancelExit(s) /\ UNCHANGED sessionVars)

-----------------------------------------------------------------------------
(* Safety.                                                                  *)

(* Units that can still be stopped out, a partly filled stop included.      *)
AtRisk ==
  {u \in Units : \/ st[u] \in {"working", "held"}
                 \/ st[u] = "sold" /\ exit[at[u]].tag = "stop"}

(* Exposure already authorised can never stop out more units than the       *)
(* configured session limit, however fills fall between the session's       *)
(* reads (portfolio_gate.evaluate_session_stop_loss_capacity).              *)
StopBudget == Cardinality(AtRisk \cup Stopped) <= MaxStops

(* With a limit of one stop fill, the launcher's default: at most one unit  *)
(* is or was exposed, and what the session has read so far accounts for it  *)
(* whenever it may still submit.  Why StopBudget holds; proved inductive.   *)
Exposed == {u \in Units : st[u] \in {"working", "held", "sold", "stopped"}}

OneExposed == \A u, v \in Exposed : u = v
NoneSold == InState("sold") = {}
SmallExits == \A s \in Structures : exit[s].left <= 1
SmallPlan == pc = "submitExit" => plan.n <= 1
EntriesSeen == pc \in {"loss", "exit", "submitExit", "maintain"}
                 => Working \subseteq view.entries
NoneWorking == pc \in {"propose", "positions2", "orders2", "loss2"}
                 => Working = {}
HeldSeen == pc \in {"orders2", "loss2"} => Held \subseteq view.positions
NoneExposed == pc = "submit" => Exposed = {}

OneStopInv == /\ OneExposed /\ NoneSold /\ SmallExits /\ SmallPlan
              /\ EntriesSeen /\ NoneWorking /\ HeldSeen /\ NoneExposed

(* The loop with all its reads implements the bare stop-loss ledger.        *)
Ledger == INSTANCE StopBudgetLedger
            WITH Limit <- MaxStops, atRisk <- AtRisk, stopped <- Stopped
ImplementsLedger == Ledger!Spec

(* One session never has two entry orders working at the broker: stale      *)
(* orders are cancelled, and confirmed gone, before the gate is reached.    *)
SingleWorkingEntry == Cardinality(Working) <= 1

(* One exact vertical never holds more units, filled or working, than       *)
(* --maximum-same-structure-units (evaluate_entry_proposal_policy).  False:  *)
(* the units of a vertical are counted in positions paired anew.            *)
SameStructureBound ==
  \A s \in Structures : Cardinality(In(Held \cup Working, s)) <= MaxSame

(* Verticals whose contracts trade places when they are paired anew: a call  *)
(* inside another, a put that lies across a strike of another.              *)
Within(s, t) ==
  LongStrike[s] < LongStrike[t] /\ ShortStrike[t] < ShortStrike[s]
Across(s, t) ==
  /\ ShortStrike[s] < ShortStrike[t] /\ LongStrike[s] < LongStrike[t]
  /\ ShortStrike[t] < LongStrike[s]

Tangled(s, t) ==
  /\ SameChain(s, t)
  /\ IF DirectionOf[s] = "bullish" THEN Within(s, t) \/ Within(t, s)
                                   ELSE Across(s, t) \/ Across(t, s)

(* One session keeps the limit of every vertical that no other trades its    *)
(* contracts with, although it is compared with a torn snapshot.            *)
UntangledBound ==
  \A s \in Structures :
    (\A t \in Structures : ~Tangled(s, t))
      => Cardinality(In(Held \cup Working, s)) <= MaxSame

(* Units filled or working never exceed --maximum-open-spreads, which only  *)
(* the gate's first snapshot is compared with (evaluate_portfolio_entry).   *)
OpenExposureBound == Cardinality(Held \cup Working) <= MaxOpen

(* A working exit can always be filled from units still held, part fills    *)
(* and lost replies included: it never reaches into a short position.       *)
ExitCovered ==
  \A s \in Structures : exit[s].left <= Cardinality(In(Held, s))

ExitPlaced(s) == pc = "submitExit" /\ pc' # pc /\ exit'[s] # exit[s]

(* An exit order is sent only for a structure without a working exit, and   *)
(* for no more units than the account still holds: a close can never open   *)
(* a short position (run_paper_spread_exit_cycle, covered structures).      *)
NoDoubleClose ==
  [][\A s \in Structures : ExitPlaced(s) =>
       /\ exit[s].tag = "none"
       /\ plan.n <= Cardinality(In(Held, s))]_vars

EntrySent == \E u \in Units : st[u] = "unused" /\ st'[u] = "working"

(* Two entries of one session are at least the entry interval apart, and    *)
(* the cooldown apart when the first was acknowledged, in wall-clock time   *)
(* although the loop only counts the time it slept.                         *)
EntrySpacing ==
  [][EntrySent => /\ lastSent.age >= Interval
                  /\ lastSent.acked => lastSent.age >= Cooldown]_vars

(* No entry is sent in the closing window: the cut-off is read once, at the *)
(* start of the iteration (run_autonomous_paper_session).                   *)
NoEntryInCutoff == [][EntrySent => market # "cutoff"]_vars

-----------------------------------------------------------------------------
(* Liveness.                                                                *)

(* The exit check lacks the history or a quote only finitely often.         *)
ChecksSee == <>[][~ExitCheckBlind]_vars

(* A working entry order that shows when it was submitted is filled or       *)
(* cancelled in the end, whatever the halt, cooldown, risk-only or cut-off   *)
(* state (maintenance and clean-up): unless orders of unknown purpose keep   *)
(* appearing, or the exit check, which comes first, is blind again and again.*)
WorkingEntryResolves ==
  (ChecksSee /\ <>[]~unknownOpen) =>
    \A u \in Units \ Undated : (st[u] = "working") ~> (st[u] # "working")

(* While the market is open every iteration goes on to the exit check       *)
(* ("it must never suspend management of existing risk").  False: a          *)
(* clean-up that meets an order of unknown purpose cancels nothing and ends  *)
(* the iteration, in every iteration.                                       *)
RiskNeverSuspended == []<>(pc = "exit" \/ ~MarketOpen)

(* That is the only way: clean-up of entries does not suspend risk           *)
(* management for good unless the snapshot shows such an order beside them.  *)
RiskCheckRecurs ==
  []<>(pc = "exit" \/ ~MarketOpen \/ (view.unknown /\ view.entries # {}))
=============================================================================
