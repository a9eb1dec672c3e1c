----------------------------- MODULE MCAuthority -----------------------------
(***************************************************************************)
(* What has to be granted before it is used, in one exploration: approvals *)
(* of evidence, the VIX history and the signals of an entry, and its       *)
(* receipt.  A run follows one part; every other stays as it began.  No    *)
(* two parts share a variable, so none hides a step of another.            *)
(*                                                                         *)
(* Trust: three keys, any of which may hold either role, and policies that *)
(* grow, drop, swap, retire or bring back a key.                           *)
(***************************************************************************)
EXTENDS TrustLifecycle, EntryAuthority, EntrySignals, VixCache, TLC

CONSTANTS k1, k2, k3, art1, art2, rev1, rev2, dev, protected

Windows == (k1 :> [from |-> 0, until |-> 9]) @@ (k2 :> [from |-> 0, until |-> 9])
           @@ (k3 :> [from |-> 0, until |-> 2])

PolicyOf(id, version, active, retired) ==
    [id |-> id, version |-> version, active |-> active, retired |-> retired,
     reviewers |-> {rev1}, from |-> 0, until |-> 9]

PolicyChoices ==
    { PolicyOf(1, 1, {k2}, {}), PolicyOf(1, 2, {k2, k3}, {}), PolicyOf(1, 2, {k3}, {k2}),
      PolicyOf(1, 2, {k3}, {}), PolicyOf(1, 3, {k2}, {}), PolicyOf(1, 3, {k1}, {k3}) }

FewPolicies == { PolicyOf(1, 1, {k2}, {}), PolicyOf(1, 2, {k3}, {k2}) }

Root == [controller |-> k1, from |-> 0, until |-> 9,
         genesis |-> [sequence |-> 1, from |-> 0, until |-> 3, controller |-> k1,
                      policy |-> NoPolicy, revoked |-> {}]]

(* One declared kind of evidence is enough to tell the rules apart.          *)
PackageOf(d, available, ev) ==
    [dates |-> d, begins |-> -3, ends |-> -2, available |-> available,
     captured |-> 0, evidence |-> [k \in Kinds |-> ev]]

Packages == { PackageOf(dev, -1, art1), PackageOf(dev, -1, Missing),
              PackageOf(dev, Missing, art1), PackageOf(dev, -3, art1),
              PackageOf(protected, -1, art1) }

ReviewOf(art, verdict, by) == [of |-> art, verdict |-> verdict, by |-> by]

Reviews == { ReviewOf(art1, "VERIFIED", rev1), ReviewOf(art2, "VERIFIED", rev1),
             ReviewOf(art1, "VERIFIED", rev2), ReviewOf(art1, "UNVERIFIED", rev1),
             ReviewOf(art1, "DENIED", rev1), Missing }

EnvelopeOf(key, signer, version, p, review, reviewers) ==
    [key |-> key, signer |-> signer, id |-> 1, version |-> version, issued |-> 0,
     reviewers |-> reviewers,
     approval |-> [package |-> p, dates |-> p.dates, from |-> 0, until |-> 2,
                   reviews |-> [k \in Kinds |-> review]]]

Whole == PackageOf(dev, -1, art1)
Verified == ReviewOf(art1, "VERIFIED", rev1)

Submitted ==
    { <<Whole, EnvelopeOf(k2, k2, 1, Whole, r, w)>> :
          r \in Reviews, w \in {{rev1}, {rev1, rev2}} }
    \cup { <<p, EnvelopeOf(k2, k2, 1, p, Verified, {rev1})>> : p \in Packages }
    \cup { <<Whole, EnvelopeOf(k, s, v, Whole, Verified, {rev1})>> :
              k \in Keys, s \in {k2, k3}, v \in {1, 2} }

(* Two calls and two puts.                                                  *)
Chain == [type : {"call", "put"}, strike : {1, 2}]

(* One of the quotes is crossed.                                            *)
Bids == { [bid |-> 0, ask |-> 1], [bid |-> 2, ask |-> 3], [bid |-> 3, ask |-> 1] }

(* Of a vertical 13 dollars wide, 5.20 is the debit the rounding lets pass;  *)
(* of one a dollar wide, 0.40 is the debit the costs refuse.                 *)
DebitsAround == {39, 40, 520, 521}

(* One body of each kind the parser tells apart.                            *)
Bodies == { [newest |-> 0, enough |-> TRUE, clean |-> TRUE],
            [newest |-> 1, enough |-> TRUE, clean |-> TRUE],
            [newest |-> -1, enough |-> TRUE, clean |-> TRUE],
            [newest |-> 0, enough |-> FALSE, clean |-> TRUE],
            [newest |-> 0, enough |-> TRUE, clean |-> FALSE] }

-----------------------------------------------------------------------------

VARIABLE part

Parts == {"alone", "racing", "order", "signals", "vix"}

(* Two bounded instances of the trust lifecycle: one caller with every       *)
(* policy and submission, or two whose readings of the store and of the      *)
(* clock race up to the third state, without admissions.  Both only leave    *)
(* steps of Next out.                                                        *)
Alone == Next /\ caller'["auditor"] = caller["auditor"]

Racing ==
    \/ Tick
    \/ \E c \in Callers :
          \/ ReadState(c) \/ ReadClock(c)
          \/ Sequence(store.state) < 3 /\ Advance(c) /\ accepted' \subseteq FewPolicies

MCInit == Init /\ EntryInit /\ SignalInit /\ CacheInit /\ part \in Parts

MCNext ==
    /\ UNCHANGED part
    /\ \/ part = "alone" /\ Alone /\ UNCHANGED <<entryVars, signalVars, cacheVars>>
       \/ part = "racing" /\ Racing /\ UNCHANGED <<entryVars, signalVars, cacheVars>>
       \/ part = "order" /\ EntryNext /\ UNCHANGED <<vars, signalVars, cacheVars>>
       \/ part = "signals" /\ SignalNext /\ UNCHANGED <<vars, entryVars, cacheVars>>
       \/ part = "vix" /\ CacheNext /\ UNCHANGED <<vars, entryVars, signalVars>>

MCSpec == MCInit /\ [][MCNext]_<<vars, entryVars, signalVars, cacheVars, part>>

(* Every part keeps its types; above all, what an entry is priced at is a    *)
(* positive debit (derive_debit, build_trade_proposal_from_recommendation).  *)
TypesOK == TypeOK /\ EntryTypeOK /\ SignalTypeOK /\ CacheTypeOK
==============================================================================
