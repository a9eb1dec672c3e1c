--------------------------- MODULE AuthorityLedger ---------------------------
(***************************************************************************)
(* What the authority and the execution gateway promise together: a        *)
(* receipt is granted once, checked once while it lives, and spent on at   *)
(* most one order; one that was never granted, or that had lapsed or was    *)
(* refused when it was checked, is never spent.                            *)
(***************************************************************************)
CONSTANT Receipts

VARIABLE stage

Stages == {"none", "live", "checked", "spent", "void"}

TypeOK == stage \in [Receipts -> Stages]

Init == stage = [r \in Receipts |-> "none"]

Move(r, from, to) ==
    /\ stage[r] = from
    /\ stage' = [stage EXCEPT ![r] = to]

Grant(r) == Move(r, "none", "live")
Check(r) == Move(r, "live", "checked")
Spend(r) == Move(r, "checked", "spent")
Void(r) == \E s \in {"none", "live", "checked"} : Move(r, s, "void")

Next == \E r \in Receipts : Grant(r) \/ Check(r) \/ Spend(r) \/ Void(r)

Spec == Init /\ [][Next]_stage
=============================================================================
