---------------------------- MODULE TrustProofs ----------------------------
(***************************************************************************)
(* Proofs about TrustLifecycle for any number of keys, callers, policies,   *)
(* submissions and transitions.                                             *)
(***************************************************************************)
EXTENDS TrustLifecycle, TLAPS

CallerRecord == [state : State \cup {NoState}, cp : Checkpoint, at : Nat]

StoreRecord == [state : State \cup {NoState}, cp : Checkpoint]

(* The types, with the functions they are the values of.                    *)
Types ==
    /\ now \in Nat
    /\ store \in StoreRecord
    /\ caller \in [Callers -> CallerRecord]
    /\ accepted \subseteq Policy
    /\ held \subseteq Keys

-----------------------------------------------------------------------------
(* What a transition does to the keys.                                      *)

LEMMA SuccessorIsState ==
    ASSUME NEW s \in State \cup {NoState}, NEW new \in Successors(s)
    PROVE  new \in State /\ new # NoState
<1>1. Sequence(s) + 1 \in Nat
  BY DEF Sequence, State
<1>2. Policies \subseteq Policy /\ Expiries \subseteq Nat /\ 0 .. MaxTime \subseteq Nat
  BY TrustAssumption
<1>3. new \in State
  BY <1>1, <1>2 DEF Successors, State
<1> QED
  BY <1>3, TrustAssumption

LEMMA StateKeys ==
    ASSUME NEW s \in State
    PROVE  /\ s # NoState
           /\ Trusted(s) = {s.controller} \cup Active(s.policy)
           /\ Trusted(s) \subseteq Keys
           /\ RevokedIn(s) = s.revoked
           /\ s.revoked \subseteq Keys
<1>1. s # NoState
  BY TrustAssumption
<1>2. Active(s.policy) \subseteq Keys
  BY DEF Active, State, Policy
<1>3. s.controller \in Keys /\ s.revoked \subseteq Keys
  BY DEF State
<1> QED
  BY <1>1, <1>2, <1>3 DEF Trusted, RevokedIn

(* A key that state_checks passes is not on the state's ledger.             *)
LEMMA OkIsDisjoint ==
    ASSUME NEW s \in State, NEW t, StateOk(s, t)
    PROVE  Trusted(s) \cap RevokedIn(s) = {}
<1>1. s.controller \notin s.revoked
  BY DEF StateOk, KeyOk
<1>2. ASSUME NEW k \in Active(s.policy) PROVE k \notin s.revoked
  <2>1. s.policy # NoPolicy
    BY <1>2 DEF Active
  <2> QED
    BY <1>2, <2>1 DEF StateOk, KeyOk
<1> QED
  BY <1>1, <1>2, StateKeys

(* transition_rules: the ledger only grows, and a key that is dropped goes  *)
(* on it.                                                                   *)
LEMMA DroppedIsRevoked ==
    ASSUME NEW old \in State, NEW new \in State, NEW action, Rules(old, new, action)
    PROVE  /\ RevokedIn(old) \subseteq RevokedIn(new)
           /\ Trusted(old) \ Trusted(new) \subseteq RevokedIn(new)
<1>1. old.revoked \subseteq new.revoked
  BY DEF Rules
<1>2. CASE old.policy = NoPolicy
  <2>1. new.controller = old.controller /\ Active(old.policy) = {}
    BY <1>2 DEF Rules, Active
  <2> QED
    BY <1>1, <2>1, StateKeys
<1>3. CASE old.policy # NoPolicy
  <2>1. /\ Active(old.policy) \ Active(new.policy) \subseteq new.revoked
        /\ ActionRule(old, new, action)
    BY <1>3 DEF Rules
  <2>2. new.controller = old.controller \/ old.controller \in new.revoked
    BY <2>1 DEF ActionRule
  <2> QED
    BY <1>1, <2>1, <2>2, StateKeys
<1> QED
  BY <1>2, <1>3

(* The three facts above, for the transition that advance makes.            *)
LEMMA FollowsKeys ==
    ASSUME NEW s \in State \cup {NoState}, NEW new \in Successors(s),
           NEW action, NEW issued, NEW t, Follows(s, new, action, issued, t)
    PROVE  /\ RevokedIn(s) \subseteq RevokedIn(new)
           /\ Trusted(s) \ Trusted(new) \subseteq RevokedIn(new)
           /\ Trusted(new) \cap RevokedIn(new) = {}
           /\ s = NoState => /\ Trusted(new) = {Anchor.controller}
                             /\ RevokedIn(new) = {}
<1>1. new \in State
  BY SuccessorIsState
<1>2. Trusted(new) \cap RevokedIn(new) = {}
  BY <1>1, OkIsDisjoint DEF Follows
<1>3. CASE s = NoState
  <2>1. new.controller = Anchor.controller /\ new.policy = NoPolicy /\ new.revoked = {}
    BY <1>3 DEF Follows, Bootstraps
  <2>2. Trusted(s) = {} /\ RevokedIn(s) = {}
    BY <1>3 DEF Trusted, RevokedIn
  <2>3. Trusted(new) = {Anchor.controller} /\ RevokedIn(new) = {}
    BY <1>1, <2>1, StateKeys DEF Active
  <2> QED
    BY <1>2, <2>2, <2>3
<1>4. CASE s # NoState
  <2>1. s \in State /\ Rules(s, new, action)
    BY <1>4 DEF Follows
  <2> QED
    BY <1>1, <1>2, <1>4, <2>1, DroppedIsRevoked
<1> QED
  BY <1>3, <1>4

-----------------------------------------------------------------------------
(* The types.                                                               *)

LEMMA InitTypes == Init => Types
<1> SUFFICES ASSUME Init PROVE Types
  OBVIOUS
<1>1. Pin(NoState, 0, Deadline) \in Checkpoint
  BY TrustAssumption DEF Pin, Checkpoint
<1>2. store \in StoreRecord
  BY <1>1 DEF Init, StoreRecord
<1>3. caller \in [Callers -> CallerRecord]
  BY <1>1 DEF Init, CallerRecord
<1> QED
  BY <1>2, <1>3 DEF Init, Types

(* What advance puts in the store, and on what conditions.                  *)
AdvanceTo(c, new, action, issued) ==
    /\ caller[c].state = store.state
    /\ Current(store.state, store.cp, caller[c].at)
    /\ new \in Successors(store.state)
    /\ Follows(store.state, new, action, issued, caller[c].at)
    /\ store' = [state |-> new, cp |-> Pin(new, caller[c].at, DeadlineAfter(new))]
    /\ held' = held \cup Trusted(new)
    /\ accepted' = accepted \cup ({new.policy} \ {NoPolicy})
    /\ UNCHANGED <<now, caller, admission>>

LEMMA AdvanceIs ==
    ASSUME NEW c \in Callers, Advance(c)
    PROVE  \E new, action, issued : AdvanceTo(c, new, action, issued)
  BY DEF Advance, AdvanceTo

LEMMA AdvanceTypes ==
    ASSUME Types, NEW c \in Callers, NEW new, NEW action, NEW issued,
           AdvanceTo(c, new, action, issued)
    PROVE  Types' /\ new \in State /\ store.state \in State \cup {NoState}
           /\ store'.state = new /\ store'.cp.from = caller[c].at
           /\ store'.cp.until = DeadlineAfter(new)
<1>1. store.state \in State \cup {NoState} /\ store.cp \in Checkpoint /\ caller[c] \in CallerRecord
  BY DEF Types, StoreRecord
<1>2. new \in State
  BY <1>1, SuccessorIsState DEF AdvanceTo
<1>3. new.until \in Nat /\ store.cp.until \in Nat /\ caller[c].at \in Nat
  BY <1>1, <1>2 DEF State, Checkpoint, CallerRecord
<1>4. DeadlineAfter(new) \in Nat
  BY <1>3 DEF DeadlineAfter, Smaller
<1>5. Pin(new, caller[c].at, DeadlineAfter(new)) \in Checkpoint
  BY <1>2, <1>3, <1>4 DEF Pin, Checkpoint
<1>6. store' \in StoreRecord
  BY <1>2, <1>5 DEF AdvanceTo, StoreRecord
<1>7. held' \subseteq Keys
  BY <1>2, StateKeys DEF AdvanceTo, Types
<1>8. accepted' \subseteq Policy
  BY <1>2 DEF AdvanceTo, Types, State
<1>9. now' \in Nat /\ caller' \in [Callers -> CallerRecord]
  BY DEF AdvanceTo, Types
<1> QED
  BY <1>1, <1>2, <1>6, <1>7, <1>8, <1>9 DEF Types, AdvanceTo, Pin

LEMMA NextTypes == Types /\ [Next]_vars => Types'
<1> SUFFICES ASSUME Types, [Next]_vars PROVE Types'
  OBVIOUS
<1>1. CASE Tick
  BY <1>1 DEF Tick, Types
<1>2. ASSUME NEW c \in Callers, ReadState(c) PROVE Types'
  <2>1. store.state \in State \cup {NoState} /\ caller[c] \in CallerRecord
    BY DEF Types, StoreRecord
  <2>2. [caller[c] EXCEPT !.state = store.state] \in CallerRecord
    BY <2>1 DEF CallerRecord
  <2>3. caller' = [caller EXCEPT ![c] = [caller[c] EXCEPT !.state = store.state]]
    BY <1>2 DEF ReadState
  <2> QED
    BY <1>2, <2>2, <2>3 DEF ReadState, Types
<1>3. ASSUME NEW c \in Callers, ReadCheckpoint(c) PROVE Types'
  <2>1. store.cp \in Checkpoint /\ caller[c] \in CallerRecord
    BY DEF Types, StoreRecord
  <2>2. [caller[c] EXCEPT !.cp = store.cp] \in CallerRecord
    BY <2>1 DEF CallerRecord
  <2>3. caller' = [caller EXCEPT ![c] = [caller[c] EXCEPT !.cp = store.cp]]
    BY <1>3 DEF ReadCheckpoint
  <2> QED
    BY <1>3, <2>2, <2>3 DEF ReadCheckpoint, Types
<1>4. ASSUME NEW c \in Callers, ReadClock(c) PROVE Types'
  <2>1. now \in Nat /\ caller[c] \in CallerRecord
    BY DEF Types
  <2>2. [caller[c] EXCEPT !.at = now] \in CallerRecord
    BY <2>1 DEF CallerRecord
  <2>3. caller' = [caller EXCEPT ![c] = [caller[c] EXCEPT !.at = now]]
    BY <1>4 DEF ReadClock
  <2> QED
    BY <1>4, <2>2, <2>3 DEF ReadClock, Types
<1>5. ASSUME NEW c \in Callers, Advance(c) PROVE Types'
  BY <1>5, AdvanceIs, AdvanceTypes
<1>6. ASSUME NEW c \in Callers, Admit(c) PROVE Types'
  BY <1>6 DEF Admit, Types
<1>7. CASE UNCHANGED vars
  BY <1>7 DEF vars, Types
<1> QED
  BY <1>1, <1>2, <1>3, <1>4, <1>5, <1>6, <1>7 DEF Next

(* A step other than an advance leaves the store and its history alone.     *)
LEMMA OthersKeepStore ==
    ASSUME [Next]_vars, \A c \in Callers : ~ Advance(c)
    PROVE  UNCHANGED <<store, accepted, held>>
  BY DEF Next, vars, Tick, ReadState, ReadCheckpoint, ReadClock, Admit

-----------------------------------------------------------------------------
(* Keys.                                                                    *)

LEMMA NextKeys == Types /\ RetiredStaysOut /\ [Next]_vars => RetiredStaysOut'
<1> SUFFICES ASSUME Types, RetiredStaysOut, [Next]_vars PROVE RetiredStaysOut'
  OBVIOUS
<1>1. ASSUME NEW c \in Callers, Advance(c) PROVE RetiredStaysOut'
  <2>1. PICK new, action, issued : AdvanceTo(c, new, action, issued)
    BY <1>1, AdvanceIs
  <2>2. store.state \in State \cup {NoState} /\ store'.state = new
    BY <2>1, AdvanceTypes
  <2>3. /\ RevokedIn(store.state) \subseteq RevokedIn(new)
        /\ Trusted(store.state) \ Trusted(new) \subseteq RevokedIn(new)
        /\ Trusted(new) \cap RevokedIn(new) = {}
    BY <2>1, <2>2, FollowsKeys DEF AdvanceTo
  <2>4. held' = held \cup Trusted(new)
    BY <2>1 DEF AdvanceTo
  <2> QED
    BY <2>2, <2>3, <2>4 DEF RetiredStaysOut
<1>2. CASE \A c \in Callers : ~ Advance(c)
  BY <1>2, OthersKeepStore DEF RetiredStaysOut
<1> QED
  BY <1>1, <1>2

LEMMA InitKeys == Init => RetiredStaysOut
  BY DEF Init, RetiredStaysOut, Trusted, RevokedIn

(* The type invariant, for every instance.                                  *)
THEOREM TrustTypes == Spec => []TypeOK
<1>1. Types => TypeOK
  BY DEF Types, TypeOK, StoreRecord, CallerRecord
<1> QED
  BY <1>1, InitTypes, NextTypes, PTL DEF Spec

(* Whatever transitions are signed, a key that was ever trusted and is not   *)
(* now is on the ledger, and no key on the ledger is trusted.                *)
THEOREM KeysRetired == Spec => []RetiredStaysOut
  BY InitTypes, NextTypes, InitKeys, NextKeys, PTL DEF Spec

(* The store implements the ledger of keys.                                  *)
THEOREM LedgerImplemented == Spec => ImplementsLedger
<1>1. Init => Ledger!Init
  BY DEF Init, Ledger!Init, Trusted, RevokedIn
<1>2. Types /\ [Next]_vars => [Ledger!Next]_<<Trusted(store.state), RevokedIn(store.state)>>
  <2> SUFFICES ASSUME Types, [Next]_vars
               PROVE  Ledger!Next \/ UNCHANGED <<Trusted(store.state), RevokedIn(store.state)>>
    OBVIOUS
  <2>1. ASSUME NEW c \in Callers, Advance(c) PROVE Ledger!Next
    <3>1. PICK new, action, issued : AdvanceTo(c, new, action, issued)
      BY <2>1, AdvanceIs
    <3>2. new \in State /\ store.state \in State \cup {NoState} /\ store'.state = new
      BY <3>1, AdvanceTypes
    <3>3. /\ RevokedIn(store.state) \subseteq RevokedIn(new)
          /\ Trusted(store.state) \ Trusted(new) \subseteq RevokedIn(new)
          /\ Trusted(new) \cap RevokedIn(new) = {}
          /\ store.state = NoState => /\ Trusted(new) = {Anchor.controller}
                                      /\ RevokedIn(new) = {}
      BY <3>1, <3>2, FollowsKeys DEF AdvanceTo
    <3>4. CASE store.state = NoState
      <4>1. Anchor.controller \in Keys
        BY TrustAssumption
      <4>2. Trusted(store.state) = {} /\ RevokedIn(store.state) = {}
        BY <3>4 DEF Trusted, RevokedIn
      <4>3. Ledger!Root
        BY <3>2, <3>3, <3>4, <4>1, <4>2 DEF Ledger!Root
      <4> QED
        BY <4>3 DEF Ledger!Next
    <3>5. CASE store.state # NoState
      <4>1. Trusted(new) \in SUBSET Keys /\ RevokedIn(new) \in SUBSET Keys
        BY <3>2, StateKeys
      <4>2. Trusted(store.state) # {}
        BY <3>2, <3>5, StateKeys
      <4>3. Ledger!Change
        BY <3>2, <3>3, <4>1, <4>2 DEF Ledger!Change
      <4> QED
        BY <4>3 DEF Ledger!Next
    <3> QED
      BY <3>4, <3>5
  <2>2. CASE \A c \in Callers : ~ Advance(c)
    BY <2>2, OthersKeepStore
  <2> QED
    BY <2>1, <2>2
<1> QED
  BY <1>1, <1>2, InitTypes, NextTypes, PTL DEF Spec, Ledger!Spec, ImplementsLedger

-----------------------------------------------------------------------------
(* Policies and the checkpoint.                                             *)

PolicyNow == IF store.state = NoState THEN NoPolicy ELSE store.state.policy

(* The accepted policies are those of one identity, up to the version of    *)
(* the present one, which is the only one of its version.                   *)
OneLine ==
    /\ PolicyNow = NoPolicy => accepted = {}
    /\ PolicyNow # NoPolicy => /\ PolicyNow \in accepted
                               /\ \A p \in accepted : /\ p.id = PolicyNow.id
                                                      /\ p.version <= PolicyNow.version
    /\ OneVersionOnePolicy

LEMMA NextLine == Types /\ OneLine /\ [Next]_vars => OneLine'
<1> SUFFICES ASSUME Types, OneLine, [Next]_vars PROVE OneLine'
  OBVIOUS
<1>1. ASSUME NEW c \in Callers, Advance(c) PROVE OneLine'
  <2>1. PICK new, action, issued : AdvanceTo(c, new, action, issued)
    BY <1>1, AdvanceIs
  <2>2. /\ new \in State /\ store.state \in State \cup {NoState} /\ store'.state = new
        /\ new # NoState
    BY <2>1, AdvanceTypes, StateKeys
  <2>3. PolicyNow' = new.policy /\ new.policy \in Policy \cup {NoPolicy}
    BY <2>2 DEF PolicyNow, State
  <2>4. accepted' = accepted \cup ({new.policy} \ {NoPolicy}) /\ accepted \subseteq Policy
    BY <2>1 DEF AdvanceTo, Types
  <2>5. CASE store.state = NoState
    <3>1. new.policy = NoPolicy /\ accepted = {}
      BY <2>1, <2>5 DEF AdvanceTo, Follows, Bootstraps, OneLine, PolicyNow
    <3> QED
      BY <2>3, <2>4, <3>1 DEF OneLine, OneVersionOnePolicy
  <2>6. CASE store.state # NoState /\ store.state.policy = NoPolicy
    <3>1. new.policy # NoPolicy /\ accepted = {}
      BY <2>1, <2>6 DEF AdvanceTo, Follows, Rules, OneLine, PolicyNow
    <3>2. accepted' = {new.policy} /\ new.policy \in Policy
      BY <2>3, <2>4, <3>1
    <3>3. new.policy.version \in Nat
      BY <3>2 DEF Policy
    <3> QED
      BY <2>3, <3>1, <3>2, <3>3 DEF OneLine, OneVersionOnePolicy
  <2>7. CASE store.state # NoState /\ store.state.policy # NoPolicy
    <3> DEFINE old == store.state.policy
    <3>1. new.policy # NoPolicy /\ VersionRule(old, new.policy, action)
      BY <2>1, <2>7 DEF AdvanceTo, Follows, Rules
    <3>2. /\ old \in accepted /\ new.policy \in Policy /\ accepted' = accepted \cup {new.policy}
          /\ \A p \in accepted : p.id = old.id /\ p.version <= old.version
      BY <2>3, <2>4, <2>7, <3>1 DEF OneLine, PolicyNow
    <3>3. \A p \in accepted' : p.version \in Nat
      BY <2>4, <3>2 DEF Policy
    <3>4. \/ new.policy = old
          \/ new.policy.id = old.id /\ new.policy.version = old.version + 1
      BY <3>1 DEF VersionRule
    <3>5. \A p \in accepted' : p.id = new.policy.id /\ p.version <= new.policy.version
      BY <3>2, <3>3, <3>4
    <3>6. OneVersionOnePolicy'
      <4>1. CASE new.policy = old
        BY <3>2, <4>1 DEF OneLine, OneVersionOnePolicy
      <4>2. CASE new.policy.version = old.version + 1
        <5>1. \A p \in accepted : p.version # new.policy.version
          BY <3>2, <3>3, <4>2
        <5> QED
          BY <3>2, <5>1 DEF OneLine, OneVersionOnePolicy
      <4> QED
        BY <3>4, <4>1, <4>2
    <3> QED
      BY <2>3, <3>1, <3>2, <3>5, <3>6 DEF OneLine
  <2> QED
    BY <2>5, <2>6, <2>7
<1>2. CASE \A c \in Callers : ~ Advance(c)
  BY <1>2, OthersKeepStore DEF OneLine, OneVersionOnePolicy, PolicyNow
<1> QED
  BY <1>1, <1>2

(* No two accepted policies share an identity and a version.                *)
THEOREM VersionsNamePolicies == Spec => []OneVersionOnePolicy
<1>1. Init => OneLine
  BY DEF Init, OneLine, OneVersionOnePolicy, PolicyNow
<1>2. OneLine => OneVersionOnePolicy
  BY DEF OneLine
<1> QED
  BY <1>1, <1>2, InitTypes, NextTypes, NextLine, PTL DEF Spec

(* No transition widens the checkpoint.                                     *)
THEOREM CheckpointOnlyNarrows == Spec => CheckpointNarrows
<1> DEFINE Narrow == store'.cp.until <= store.cp.until /\ store.cp.from <= store'.cp.from
<1>1. Types /\ [Next]_vars => [Narrow]_store
  <2> SUFFICES ASSUME Types, [Next]_vars PROVE Narrow \/ store' = store
    OBVIOUS
  <2>1. ASSUME NEW c \in Callers, Advance(c) PROVE Narrow
    <3>1. PICK new, action, issued : AdvanceTo(c, new, action, issued)
      BY <2>1, AdvanceIs
    <3>2. /\ new \in State
          /\ store'.cp.from = caller[c].at /\ store'.cp.until = DeadlineAfter(new)
      BY <3>1, AdvanceTypes
    <3>3. store.cp.from <= caller[c].at
      BY <3>1 DEF AdvanceTo, Current, In
    <3>4. new.until \in Nat /\ store.cp.until \in Nat
      BY <3>2 DEF Types, StoreRecord, State, Checkpoint
    <3>5. DeadlineAfter(new) <= store.cp.until
      BY <3>4 DEF DeadlineAfter, Smaller
    <3> QED
      BY <3>2, <3>3, <3>5
  <2>2. CASE \A c \in Callers : ~ Advance(c)
    BY <2>2, OthersKeepStore
  <2> QED
    BY <2>1, <2>2
<1> QED
  BY <1>1, InitTypes, NextTypes, PTL DEF Spec, CheckpointNarrows

-----------------------------------------------------------------------------
(* Admissions.                                                              *)

Admits(s, cp, t, sub) ==
    /\ Current(s, cp, t) /\ s # NoState /\ s.policy # NoPolicy
    /\ sub \in Submissions
    /\ Verdict(sub[1], sub[2], s.policy, t) # "REJECTED"
    /\ admission' = [status |-> Verdict(sub[1], sub[2], s.policy, t),
                     package |-> sub[1], envelope |-> sub[2],
                     policy |-> s.policy, cp |-> cp, at |-> t]

LEMMA AdmitIs ==
    ASSUME NEW c \in Callers, Admit(c)
    PROVE  \E sub : Admits(caller[c].state, caller[c].cp, caller[c].at, sub)
  BY DEF Admit, Admits

LEMMA OthersKeepAdmission ==
    ASSUME [Next]_vars, \A c \in Callers : ~ Admit(c)
    PROVE  admission' = admission
  BY DEF Next, vars, Tick, ReadState, ReadCheckpoint, ReadClock, Advance

(* What is not rejected passed both verdicts.                               *)
LEMMA NotRejected ==
    ASSUME NEW p, NEW e, NEW policy, NEW t, Verdict(p, e, policy, t) # "REJECTED"
    PROVE  /\ KeyTrusted(e, policy, t) /\ WithinLimits(e, policy, t)
           /\ ~ Refused(p, e, t)
           /\ Verdict(p, e, policy, t) = "ADMITTED" => ~ Open(p, e.approval)
  BY DEF Verdict

(* What is admitted carries the signature of a key that the state pinned by  *)
(* the caller's checkpoint trusts and has not revoked.                       *)
THEOREM AdmittedByTrustedKey == Spec => []AdmissionOfCheckpoint
<1>1. Init => AdmissionOfCheckpoint
  BY DEF Init, Nothing, AdmissionOfCheckpoint
<1>2. AdmissionOfCheckpoint /\ [Next]_vars => AdmissionOfCheckpoint'
  <2> SUFFICES ASSUME AdmissionOfCheckpoint, [Next]_vars PROVE AdmissionOfCheckpoint'
    OBVIOUS
  <2>1. ASSUME NEW c \in Callers, Admit(c) PROVE AdmissionOfCheckpoint'
    <3> DEFINE s == caller[c].state
               t == caller[c].at
    <3>1. PICK sub : Admits(s, caller[c].cp, t, sub)
      BY <2>1, AdmitIs
    <3>2. /\ admission'.cp = caller[c].cp /\ admission'.envelope = sub[2]
          /\ admission'.policy = s.policy
      BY <3>1 DEF Admits
    <3>3. caller[c].cp.of = s /\ StateOk(s, t) /\ s # NoState /\ s.policy # NoPolicy
      BY <3>1 DEF Admits, Current
    <3>4. sub[2].signer \in s.policy.active
      BY <3>1, NotRejected DEF Admits, KeyTrusted
    <3>5. sub[2].signer \in Active(s.policy) /\ sub[2].signer \notin s.revoked
      BY <3>3, <3>4 DEF Active, StateOk, KeyOk
    <3> QED
      BY <3>2, <3>3, <3>5 DEF AdmissionOfCheckpoint
  <2>2. CASE \A c \in Callers : ~ Admit(c)
    BY <2>2, OthersKeepAdmission DEF AdmissionOfCheckpoint
  <2> QED
    BY <2>1, <2>2
<1> QED
  BY <1>1, <1>2, PTL DEF Spec

(* Evidence that is closed and not refused has of every kind a verified      *)
(* review of that artifact by a reviewer of the policy.                      *)
LEMMA ClosedIsVouched ==
    ASSUME NEW sub \in Submissions, NEW policy, NEW t,
           WithinLimits(sub[2], policy, t), ~ Refused(sub[1], sub[2], t),
           ~ Open(sub[1], sub[2].approval), NEW k \in Kinds
    PROVE  LET r == sub[2].approval.reviews[k] IN
           /\ sub[1].evidence[k] # Missing
           /\ r # Missing
           /\ r.of = sub[1].evidence[k]
           /\ r.verdict = "VERIFIED"
           /\ r.by \in policy.reviewers
<1> DEFINE r == sub[2].approval.reviews[k]
<1>1. sub[1].evidence[k] # Missing /\ r # Missing /\ r.verdict # "UNVERIFIED"
  BY DEF Open
<1>2. r \in Review
  <2>1. sub[2] \in Envelope
    BY TrustAssumption
  <2>2. sub[2].approval.reviews \in [Kinds -> Review \cup {Missing}]
    BY <2>1 DEF Envelope, Approval
  <2> QED
    BY <1>1, <2>2
<1>3. k \in Reviewed(sub[2].approval)
  BY <1>1 DEF Reviewed
<1>4. r.by \in policy.reviewers
  BY <1>3 DEF WithinLimits
<1>5. r.of = sub[1].evidence[k] /\ r.verdict # "DENIED"
  BY <1>1, <1>3 DEF Refused, ReviewsStand
<1>6. r.verdict = "VERIFIED"
  BY <1>1, <1>2, <1>5 DEF Review, Verdicts
<1> QED
  BY <1>1, <1>4, <1>5, <1>6

(* What is ADMITTED is vouched for, kind by kind.                            *)
THEOREM AdmittedVouchedFor == Spec => []AdmittedIsVouched
<1>1. Init => AdmittedIsVouched
  BY DEF Init, Nothing, AdmittedIsVouched
<1>2. AdmittedIsVouched /\ [Next]_vars => AdmittedIsVouched'
  <2> SUFFICES ASSUME AdmittedIsVouched, [Next]_vars PROVE AdmittedIsVouched'
    OBVIOUS
  <2>1. ASSUME NEW c \in Callers, Admit(c) PROVE AdmittedIsVouched'
    <3> DEFINE s == caller[c].state
               t == caller[c].at
    <3>1. PICK sub : Admits(s, caller[c].cp, t, sub)
      BY <2>1, AdmitIs
    <3>2. /\ admission'.envelope = sub[2] /\ admission'.package = sub[1]
          /\ admission'.policy = s.policy
          /\ admission'.status = Verdict(sub[1], sub[2], s.policy, t)
          /\ sub \in Submissions
      BY <3>1 DEF Admits
    <3>3. /\ WithinLimits(sub[2], s.policy, t) /\ ~ Refused(sub[1], sub[2], t)
          /\ admission'.status = "ADMITTED" => ~ Open(sub[1], sub[2].approval)
      BY <3>1, <3>2, NotRejected DEF Admits
    <3>4. SUFFICES ASSUME admission'.status = "ADMITTED", NEW k \in Kinds
                   PROVE  LET v == sub[2].approval.reviews[k] IN
                          /\ sub[1].evidence[k] # Missing
                          /\ v # Missing
                          /\ v.of = sub[1].evidence[k]
                          /\ v.verdict = "VERIFIED"
                          /\ v.by \in s.policy.reviewers
      BY <3>2 DEF AdmittedIsVouched
    <3> QED
      BY <3>2, <3>3, <3>4, ClosedIsVouched
  <2>2. CASE \A c \in Callers : ~ Admit(c)
    BY <2>2, OthersKeepAdmission DEF AdmittedIsVouched
  <2> QED
    BY <2>1, <2>2
<1> QED
  BY <1>1, <1>2, PTL DEF Spec
=============================================================================
