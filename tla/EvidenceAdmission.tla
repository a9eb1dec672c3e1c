-------------------------- MODULE EvidenceAdmission --------------------------
(***************************************************************************)
(* The two verdicts an approval of an evidence package passes through:     *)
(* signed_approvals.verify_admission (is it signed by a key of the trust    *)
(* policy, in time and within the policy's limits?) and, after it,          *)
(* evidence_admission.admit (is every kind of evidence there, and reviewed  *)
(* as it is?).  A key, an artifact and a package are named by their hash;   *)
(* the identity checks on malformed records are left out.                   *)
(***************************************************************************)
EXTENDS Integers

CONSTANTS
    Keys,        \* fingerprints of public keys
    Window,      \* [from, until] of each key
    Kinds,       \* KINDS of evidence
    Artifacts, Reviewers,
    Dates,       \* the date ranges a package may declare
    Holdout,     \* those that overlap the protected holdout
    Lifetime,    \* max_approval_seconds
    Missing      \* no such evidence, no such review, no availability

Verdicts == {"VERIFIED", "UNVERIFIED", "DENIED"}

Review == [of : Artifacts, verdict : Verdicts, by : Reviewers]

Package == [dates : Dates, begins : Int, ends : Int,
            available : Int \cup {Missing}, captured : Int,
            evidence : [Kinds -> Artifacts \cup {Missing}]]

Approval == [package : Package, dates : Dates, from : Int, until : Int,
             reviews : [Kinds -> Review \cup {Missing}]]

(* An envelope with its message and its trust context.  `key' is the key   *)
(* the message names, `signer' the one whose signature it carries.          *)
Envelope == [key : Keys, signer : Keys, id : {1, 2}, version : Nat,
             issued : Int, reviewers : SUBSET Reviewers, approval : Approval]

In(w, t) == w.from <= t /\ t < w.until

Reviewed(a) == {k \in Kinds : a.reviews[k] # Missing}

(* Slip: the signature is not checked. *)
KeyNamed(e, policy, t) ==
    /\ <<e.id, e.version>> = <<policy.id, policy.version>>
    /\ e.key \in policy.active
    /\ In(Window[e.key], t)
    /\ In(policy, t)

(* verify_admission up to the signature: the policy and the key.           *)
KeyTrusted(e, policy, t) ==
    /\ <<e.id, e.version>> = <<policy.id, policy.version>>
    /\ e.key \in policy.active
    /\ In(Window[e.key], t)
    /\ In(policy, t)
    /\ e.signer = e.key

(* Slip: the reviewers of the context are taken at the issuer's word. *)
LimitsOfIssuer(e, policy, t) ==
    /\ e.approval.dates \notin Holdout
    /\ In(policy, e.issued) /\ In(Window[e.key], e.issued)
    /\ e.issued <= e.approval.from /\ e.issued <= t
    /\ In(e.approval, t)
    /\ e.approval.until <= Window[e.key].until
    /\ e.approval.until <= policy.until
    /\ e.approval.until - e.approval.from <= Lifetime

(* ... and after it: what a trusted issuer may sign.                       *)
WithinLimits(e, policy, t) ==
    /\ e.reviewers \subseteq policy.reviewers
    /\ \A k \in Reviewed(e.approval) :
          e.approval.reviews[k].by \in policy.reviewers
    /\ e.approval.dates \notin Holdout
    /\ In(policy, e.issued) /\ In(Window[e.key], e.issued)
    /\ e.issued <= e.approval.from /\ e.issued <= t
    /\ In(e.approval, t)
    /\ e.approval.until <= Window[e.key].until
    /\ e.approval.until <= policy.until
    /\ e.approval.until - e.approval.from <= Lifetime

Chronological(p, t) ==
    /\ p.begins < p.ends /\ p.ends <= p.captured /\ p.captured <= t
    /\ p.available # Missing => p.ends <= p.available /\ p.available <= p.captured

ReviewsStand(p, a, reviewers) ==
    \A k \in Reviewed(a) :
        /\ a.reviews[k].by \in reviewers
        /\ p.evidence[k] # Missing => a.reviews[k].of = p.evidence[k]
        /\ a.reviews[k].verdict # "DENIED"

Refused(p, e, t) ==
    \/ p.dates \in Holdout
    \/ ~ Chronological(p, t)
    \/ e.approval.package # p
    \/ e.approval.dates # p.dates
    \/ ~ ReviewsStand(p, e.approval, e.reviewers)

Open(p, a) ==
    \/ p.available = Missing
    \/ \E k \in Kinds : \/ p.evidence[k] = Missing
                        \/ a.reviews[k] = Missing
                        \/ a.reviews[k].verdict = "UNVERIFIED"

Verdict(p, e, policy, t) ==
    IF ~ (KeyTrusted(e, policy, t) /\ WithinLimits(e, policy, t)) \/ Refused(p, e, t)
    THEN "REJECTED"
    ELSE IF Open(p, e.approval) THEN "UNKNOWN" ELSE "ADMITTED"
=============================================================================
