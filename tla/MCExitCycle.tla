----------------------------- MODULE MCExitCycle -----------------------------
(***************************************************************************)
(* The two halves of the exit cycle in one exploration: a run follows      *)
(* either the account the recovery of the entry basis reads, or the cycle  *)
(* that prices and maintains closing orders from a recovered basis.  They  *)
(* share no variable, so neither hides a step of the other.                *)
(***************************************************************************)
EXTENDS ExitManager, SpreadBasis

VARIABLE part

Call(k) == [type |-> "call", strike |-> k]

(* Two verticals that share a leg; each has one to itself. *)
Shared == {{Call(1), Call(2)}, {Call(2), Call(3)}}

MCInit ==
  /\ Init /\ BasisInit /\ part \in {"basis", "cycle"}
  /\ part = "basis" => quote = [s \in Spreads |-> 0]

MCNext ==
  /\ UNCHANGED part
  /\ \/ part = "cycle" /\ Next /\ UNCHANGED basisVars
     \/ part = "basis" /\ BasisNext /\ UNCHANGED vars

MCSpec ==
  /\ MCInit /\ [][MCNext]_<<vars, basisVars, part>>
  /\ WF_vars(part = "cycle" /\ CycleStep /\ UNCHANGED <<basisVars, part>>)
==============================================================================
