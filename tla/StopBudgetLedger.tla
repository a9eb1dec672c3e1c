-------------------------- MODULE StopBudgetLedger --------------------------
(***************************************************************************)
(* What the loss-loop policy promises, with no broker, snapshot or loop in  *)
(* it: units at risk are admitted only while the units at risk and the      *)
(* units already stopped out together stay below the session's limit, so    *)
(* that no later course of events can stop out more than the limit.         *)
(***************************************************************************)
EXTENDS Naturals, FiniteSets

CONSTANTS Units, Limit

VARIABLES atRisk, stopped

Init == atRisk = {} /\ stopped = {}

Admit(u) ==
  /\ u \notin atRisk \cup stopped
  /\ Cardinality(atRisk \cup stopped) < Limit
  /\ atRisk' = atRisk \cup {u}
  /\ UNCHANGED stopped

(* Cancelled, or closed at a profit.                                        *)
Release(U) ==
  /\ U # {} /\ U \subseteq atRisk
  /\ atRisk' = atRisk \ U
  /\ UNCHANGED stopped

(* One stop-loss order may close several units.                             *)
Stop(U) ==
  /\ U # {} /\ U \subseteq atRisk
  /\ atRisk' = atRisk \ U
  /\ stopped' = stopped \cup U

Next == \/ \E u \in Units : Admit(u)
        \/ \E U \in SUBSET Units : Release(U) \/ Stop(U)

Spec == Init /\ [][Next]_<<atRisk, stopped>>
=============================================================================
