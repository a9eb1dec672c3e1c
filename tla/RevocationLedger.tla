-------------------------- MODULE RevocationLedger --------------------------
(***************************************************************************)
(* What the trust lifecycle promises whoever holds the keys: a key that was *)
(* trusted and no longer is has been revoked, a revoked key stays revoked,  *)
(* and no revoked key is trusted.                                           *)
(***************************************************************************)
CONSTANT Keys

VARIABLES trusted, revoked

Init == trusted = {} /\ revoked = {}

(* The pinned root names its first controller.                             *)
Root == /\ trusted = {} /\ revoked = {}
        /\ \E k \in Keys : trusted' = {k}
        /\ UNCHANGED revoked

Change == \E T, R \in SUBSET Keys :
    /\ trusted # {}
    /\ revoked \subseteq R
    /\ trusted \ T \subseteq R
    /\ T \cap R = {}
    /\ trusted' = T /\ revoked' = R

Next == Root \/ Change

Spec == Init /\ [][Next]_<<trusted, revoked>>
=============================================================================
