--------------------------- MODULE TrustLifecycle ---------------------------
(***************************************************************************)
(* The synthetic trust lifecycle (research/trust_lifecycle.py): a store     *)
(* moves from state to state along signed transitions, and approvals are    *)
(* admitted under the policy of the state a caller holds.  Callers read the *)
(* state, the checkpoint and the clock in steps of their own, so that each  *)
(* may be out of date when it is used; a transition is any record whatever, *)
(* signed by any key.  The identity (SHA-256) of a state is the state.      *)
(***************************************************************************)
EXTENDS EvidenceAdmission

CONSTANTS
    Callers,
    Policies,    \* the trust policies a transition may carry
    NoPolicy,    \* policy is None
    NoState,     \* no state before the bootstrap
    Anchor,      \* [controller, genesis, from, until]
    Deadline,    \* expiry of the checkpoint the store starts with
    Expiries,    \* the valid_until a state may carry
    Submissions, \* the <<package, envelope>> pairs submitted for admission
    MaxSequence, \* bound of the exploration
    MaxTime      \* bound of the exploration

VARIABLES
    now,       \* UTC
    store,     \* SyntheticStore: _state and _checkpoint
    caller,    \* of each caller, what it read: state, checkpoint and as_of
    accepted,  \* policies of the states accepted so far
    held,      \* keys that were trusted at some time
    admission  \* the last admission that was not rejected

vars == <<now, store, caller, accepted, held, admission>>

Policy == [id : {1, 2}, version : Nat, active : SUBSET Keys, retired : SUBSET Keys,
           reviewers : SUBSET Reviewers, from : Nat, until : Nat]

State == [sequence : Nat, from : Nat, until : Nat, controller : Keys,
          policy : Policy \cup {NoPolicy}, revoked : SUBSET Keys]

Checkpoint == [of : State \cup {NoState}, from : Nat, until : Nat]

Actions == {"BOOTSTRAP", "ACTIVATE", "ROTATE", "REVOKE", "SUPERSEDE"}

ASSUME TrustAssumption ==
    /\ Window \in [Keys -> [from : Nat, until : Nat]]
    /\ Policies \subseteq Policy
    /\ NoPolicy \notin Policy
    /\ NoState \notin State
    /\ Missing \notin Review
    /\ Submissions \subseteq Package \X Envelope
    /\ Anchor \in [controller : Keys, genesis : State, from : Nat, until : Nat]
    /\ Deadline \in Nat /\ Expiries \subseteq Nat
    /\ Lifetime \in Nat
    /\ MaxSequence \in Nat /\ MaxTime \in Nat

Active(policy) == IF policy = NoPolicy THEN {} ELSE policy.active
Retired(policy) == IF policy = NoPolicy THEN {} ELSE policy.retired

Trusted(s) == IF s = NoState THEN {} ELSE {s.controller} \cup Active(s.policy)
RevokedIn(s) == IF s = NoState THEN {} ELSE s.revoked

(* key_checks: the keys are well formed and serve their purpose.           *)
KeyOk(k, revoked, t) == k \notin revoked /\ In(Window[k], t)

(* Slip: the keys of the policy are not held against the ledger. *)
StateOfController(s, t) ==
    /\ KeyOk(s.controller, s.revoked, t)
    /\ In(s, t)
    /\ s.policy # NoPolicy =>
          /\ Retired(s.policy) \subseteq s.revoked
          /\ In(s.policy, t)
          /\ \A k \in Active(s.policy) : In(Window[k], t)

StateOk(s, t) ==
    /\ KeyOk(s.controller, s.revoked, t)
    /\ In(s, t)
    /\ s.policy # NoPolicy =>
          /\ Retired(s.policy) \subseteq s.revoked
          /\ In(s.policy, t)
          /\ \A k \in Active(s.policy) : KeyOk(k, s.revoked, t)

(* Slip: the checkpoint's window is not looked at. *)
CurrentUntimed(s, cp, t) ==
    /\ In(Anchor, t)
    /\ cp.of = s
    /\ s # NoState => s.from <= cp.from /\ StateOk(s, t)

(* current_checks *)
Current(s, cp, t) ==
    /\ In(Anchor, t)
    /\ cp.of = s
    /\ In(cp, t)
    /\ s # NoState => s.from <= cp.from /\ StateOk(s, t)

(* Slip: a replaced controller need not be revoked. *)
KeptController(old, new, action) ==
    CASE action = "ROTATE" -> \/ Active(new.policy) \ Active(old.policy) # {}
                              \/ new.controller # old.controller
      [] action = "REVOKE" -> /\ old.revoked # new.revoked
                              /\ Active(new.policy) \subseteq Active(old.policy)
                              /\ new.controller = old.controller
      [] action = "SUPERSEDE" -> /\ Active(new.policy) = Active(old.policy)
                                 /\ new.revoked = old.revoked \cup Retired(new.policy)
                                 /\ new.controller = old.controller
      [] OTHER -> FALSE

(* What the action of a transition from an active policy asks for.         *)
ActionRule(old, new, action) ==
    CASE action = "ROTATE" -> /\ \/ Active(new.policy) \ Active(old.policy) # {}
                                 \/ new.controller # old.controller
                              /\ new.controller # old.controller =>
                                     old.controller \in new.revoked
      [] action = "REVOKE" -> /\ old.revoked # new.revoked
                              /\ Active(new.policy) \subseteq Active(old.policy)
                              /\ new.controller = old.controller
      [] action = "SUPERSEDE" -> /\ Active(new.policy) = Active(old.policy)
                                 /\ new.revoked = old.revoked \cup Retired(new.policy)
                                 /\ new.controller = old.controller
      [] OTHER -> FALSE

(* Slip: a policy may change under the version it has. *)
AnyVersion(old, new, action) == new.id = old.id

(* The version moves by one exactly when the policy changes, and only a    *)
(* rotation may leave it alone.                                             *)
VersionRule(old, new, action) ==
    /\ new.id = old.id
    /\ IF new # old THEN new.version = old.version + 1 ELSE action = "ROTATE"

(* transition_rules *)
Rules(old, new, action) ==
    /\ old.revoked \subseteq new.revoked /\ old.from <= new.from
    /\ IF old.policy = NoPolicy
       THEN /\ action = "ACTIVATE"
            /\ new.policy # NoPolicy /\ new.policy.version = 1
            /\ new.controller = old.controller
            /\ new.revoked = old.revoked \cup Retired(new.policy)
       ELSE /\ new.policy # NoPolicy
            /\ VersionRule(old.policy, new.policy, action)
            /\ Active(old.policy) \ Active(new.policy) \subseteq new.revoked
            /\ ActionRule(old, new, action)

(* The genesis state the anchor pins: its controller, and nothing else.    *)
Bootstraps(new, action) ==
    /\ action = "BOOTSTRAP"
    /\ new = Anchor.genesis
    /\ new.controller = Anchor.controller
    /\ new.policy = NoPolicy /\ new.revoked = {}

Signer(s) == IF s = NoState THEN Anchor.controller ELSE s.controller
Sequence(s) == IF s = NoState THEN 0 ELSE s.sequence

(* Signed by the controller of the state it leaves, while that was valid.  *)
Signed(s, signer, issued, t) ==
    /\ signer = Signer(s)
    /\ KeyOk(signer, RevokedIn(s), t)
    /\ In(Window[signer], issued) /\ In(Anchor, issued)
    /\ s # NoState => In(s, issued)

(* The rest of validate_transition: the transition to `new' by this action,   *)
(* issued then, may follow s at t.  One past its own expiry, which its       *)
(* signer chose, is a transition nobody submits.                             *)
Follows(s, new, action, issued, t) ==
    /\ new.sequence = Sequence(s) + 1
    /\ issued <= new.from /\ new.from <= t
    /\ StateOk(new, t)
    /\ IF s = NoState THEN Bootstraps(new, action) ELSE Rules(s, new, action)

Pin(s, t, until) == [of |-> s, from |-> t, until |-> until]

Smaller(a, b) == IF a < b THEN a ELSE b

Nothing == [status |-> "NONE"]

Init ==
    /\ now = 0
    /\ store = [state |-> NoState, cp |-> Pin(NoState, 0, Deadline)]
    /\ caller = [c \in Callers |-> [state |-> NoState, at |-> 0,
                                    cp |-> Pin(NoState, 0, Deadline)]]
    /\ accepted = {}
    /\ held = {}
    /\ admission = Nothing

Tick == now < MaxTime /\ now' = now + 1 /\ UNCHANGED <<store, caller, accepted, held, admission>>

(* A caller's three reads.                                                 *)
ReadState(c) ==
    /\ caller' = [caller EXCEPT ![c].state = store.state]
    /\ UNCHANGED <<now, store, accepted, held, admission>>

ReadCheckpoint(c) ==
    /\ caller' = [caller EXCEPT ![c].cp = store.cp]
    /\ UNCHANGED <<now, store, accepted, held, admission>>

ReadClock(c) ==
    /\ caller' = [caller EXCEPT ![c].at = now]
    /\ UNCHANGED <<now, store, accepted, held, admission>>

DeadlineAfter(new) == Smaller(store.cp.until, new.until)

(* The states a transition may propose; one with another sequence number,   *)
(* from a time to come, or with a key taken off the ledger is refused like   *)
(* any other that does not follow.                                           *)
Successors(s) == [sequence : {Sequence(s) + 1}, from : 0 .. MaxTime, until : Expiries,
                  controller : Keys, policy : Policies \cup {NoPolicy},
                  revoked : {r \in SUBSET Keys : RevokedIn(s) \subseteq r}]

(* advance: under the lock, compare the state the transition was built on,  *)
(* validate at the time the caller took, move the store and its checkpoint. *)
Advance(c) ==
    /\ Sequence(store.state) < MaxSequence
    /\ caller[c].state = store.state
    /\ Current(store.state, store.cp, caller[c].at)
    /\ \E new \in {n \in Successors(store.state) : StateOk(n, caller[c].at)} :
        /\ \E signer \in Keys, issued \in 0 .. MaxTime, action \in Actions :
            /\ Signed(store.state, signer, issued, caller[c].at)
            /\ Follows(store.state, new, action, issued, caller[c].at)
        /\ store' = [state |-> new, cp |-> Pin(new, caller[c].at, DeadlineAfter(new))]
        /\ held' = held \cup Trusted(new)
        /\ accepted' = accepted \cup ({new.policy} \ {NoPolicy})
    /\ UNCHANGED <<now, caller, admission>>

(* admit, with the state and the checkpoint the caller has read.           *)
Admit(c) ==
    LET s == caller[c].state
        t == caller[c].at
    IN /\ Current(s, caller[c].cp, t)
       /\ s # NoState /\ s.policy # NoPolicy
       /\ \E sub \in Submissions :
            /\ Verdict(sub[1], sub[2], s.policy, t) # "REJECTED"
            /\ admission' = [status |-> Verdict(sub[1], sub[2], s.policy, t),
                             package |-> sub[1], envelope |-> sub[2],
                             policy |-> s.policy, cp |-> caller[c].cp, at |-> t]
       /\ UNCHANGED <<now, store, caller, accepted, held>>

Next == \/ Tick
        \/ \E c \in Callers : \/ ReadState(c) \/ ReadCheckpoint(c) \/ ReadClock(c)
                              \/ Advance(c) \/ Admit(c)

Spec == Init /\ [][Next]_vars

TypeOK ==
    /\ now \in Nat
    /\ store.state \in State \cup {NoState} /\ store.cp \in Checkpoint
    /\ \A c \in Callers : /\ caller[c].state \in State \cup {NoState}
                          /\ caller[c].cp \in Checkpoint
                          /\ caller[c].at \in Nat
    /\ accepted \subseteq Policy
    /\ held \subseteq Keys

(* A key that was ever the controller or an active key of the policy, and  *)
(* is not now, is on the ledger; and nothing on the ledger is trusted.      *)
(* transition_rules, 309-327; state_checks, 172-196.                        *)
RetiredStaysOut ==
    /\ held \ Trusted(store.state) \subseteq RevokedIn(store.state)
    /\ Trusted(store.state) \cap RevokedIn(store.state) = {}

(* Two policies accepted at any two times under one id and version are one *)
(* policy, so that an approval signed for it never means another.           *)
(* transition_rules, 305-311; signed_approvals.py, 224.                     *)
OneVersionOnePolicy ==
    \A p, q \in accepted : <<p.id, p.version>> = <<q.id, q.version>> => p = q

(* No transition moves the checkpoint's deadline later or its observation   *)
(* earlier, whatever clock reading the caller took before it got the lock.  *)
(* SyntheticStore.advance, 355-358; current_checks, 213.                    *)
CheckpointNarrows ==
    [][store'.cp.until <= store.cp.until /\ store.cp.from <= store'.cp.from]_store

(* What is admitted carries the signature of a key that was active and not  *)
(* revoked in the state the caller's checkpoint pins, under the policy of    *)
(* that state, though the caller read the two apart and the message itself   *)
(* names its key.  admit, 331-339; current_checks, 211;                     *)
(* signed_approvals.py, 263-268.                                            *)
AdmissionOfCheckpoint ==
    admission.status # "NONE" =>
        /\ admission.cp.of # NoState
        /\ admission.envelope.signer \in Active(admission.cp.of.policy)
        /\ admission.envelope.signer \notin admission.cp.of.revoked
        /\ admission.policy = admission.cp.of.policy

(* What is ADMITTED has evidence of every kind, and of every kind a         *)
(* VERIFIED review of that very artifact by a reviewer whom the trust       *)
(* policy, not the issuer, approves.  signed_approvals.py, 282-284;         *)
(* evidence_admission.py, 272-297.                                          *)
AdmittedIsVouched ==
    admission.status = "ADMITTED" =>
        \A k \in Kinds :
            LET r == admission.envelope.approval.reviews[k] IN
            /\ admission.package.evidence[k] # Missing
            /\ r # Missing
            /\ r.of = admission.package.evidence[k]
            /\ r.verdict = "VERIFIED"
            /\ r.by \in admission.policy.reviewers

Ledger == INSTANCE RevocationLedger
              WITH trusted <- Trusted(store.state), revoked <- RevokedIn(store.state)

(* Whatever transitions are signed and submitted, the keys the store trusts *)
(* and revokes behave as the ledger says.  trust_lifecycle.py, 242-328.     *)
ImplementsLedger == Ledger!Spec
=============================================================================
