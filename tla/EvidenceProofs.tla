---------------------------- MODULE EvidenceProofs ----------------------------
(***************************************************************************)
(* Proofs about the evidence an entry rests on, for every value of the      *)
(* constants: VixCache under any behaviour of the host clock, and           *)
(* EntrySignals for any feed of minute bars, any horizons and any           *)
(* reward-to-risk ratio.  The last section puts the parts of MCAuthority    *)
(* together.                                                                *)
(***************************************************************************)
EXTENDS MCAuthority, TrustProofs, EntryProofs, FiniteSetTheorems

-----------------------------------------------------------------------------
(* VixCache.                                                                *)

(* The host clock lags true time by what it has been stepped back, the time *)
(* a read took by no more than that, and the time of storing by no less     *)
(* than nothing.                                                            *)
ClocksOk ==
    /\ wall = real - back
    /\ began.real <= real
    /\ began.wall <= began.real
    /\ began.real - began.wall <= back
    /\ cache.held => cache.at <= cache.born /\ cache.born <= began.real

CacheInv == CacheTypeOK /\ ClocksOk /\ ServedWithinAge

CacheRecord == [held : {TRUE}, body : Payload, at : Int, born : Nat]
ReadRecord == [mode : {"live", "cache"}, body : Payload, age : 0..MaxAge, old : Nat]

(* A cache that holds something holds a dated body.                         *)
LEMMA HeldIsDated ==
    ASSUME CacheTypeOK, cache.held
    PROVE  cache \in CacheRecord /\ cache.at \in Int /\ cache.born \in Nat /\ cache.body \in Payload
<1>1. cache \in {Empty} \cup CacheRecord
  BY DEF CacheTypeOK, CacheRecord
<1>2. ~Empty.held
  BY Zenon DEF Empty
<1>3. cache # Empty
  BY Zenon, <1>2
<1>4. cache \in CacheRecord
  BY <1>1, <1>3
<1> QED
  BY <1>4 DEF CacheRecord

(* A read from the cache has an age.                                        *)
LEMMA CachedHasAge ==
    ASSUME CacheTypeOK, served.mode = "cache"
    PROVE  served.old \in Nat
<1>1. served \in {NoRead} \cup ReadRecord
  BY DEF CacheTypeOK, ReadRecord
<1>2. served # NoRead
  BY DEF NoRead
<1> QED
  BY <1>1, <1>2 DEF ReadRecord

(* What Serve hands out, when the cache is fresh, is a read of the cache no *)
(* older than the maximum age and the steps of the clock.                   *)
LEMMA ServeFresh ==
    ASSUME CacheInv, Fresh
    PROVE  LET r == Read("cache", cache.body, Age, began.real - cache.born)
           IN r \in ReadRecord /\ r.mode = "cache" /\ r.old <= MaxAge + back
<1>1. cache.held /\ CacheTypeOK /\ cache \in CacheRecord
  BY HeldIsDated DEF CacheInv, Fresh
<1>2. /\ began.wall \in Int /\ began.real \in Nat /\ back \in Nat /\ wall \in Int
      /\ cache.at \in Int /\ cache.born \in Nat /\ cache.body \in Payload
  BY <1>1 DEF CacheInv, CacheTypeOK, CacheRecord
<1>3. /\ cache.at <= cache.born /\ cache.born <= began.real
      /\ began.real - began.wall <= back
      /\ began.wall - cache.at >= 0 /\ began.wall - cache.at <= MaxAge
  BY <1>1 DEF CacheInv, ClocksOk, Fresh, Age
<1>4. MaxAge \in Nat
  BY CacheAssumption
<1>5. /\ began.real - cache.born \in Nat
      /\ began.real - cache.born <= MaxAge + back
      /\ Age \in 0..MaxAge
  BY <1>2, <1>3, <1>4 DEF Age
<1> QED
  BY <1>2, <1>5 DEF Read, ReadRecord

LEMMA InitInv == CacheInit => CacheInv
  BY DEF CacheInit, CacheInv, CacheTypeOK, ClocksOk, ServedWithinAge, Empty, NoRead

(* One step per action.                                                    *)
LEMMA NextInv == CacheInv /\ [CacheNext]_cacheVars => CacheInv'
<1> SUFFICES ASSUME CacheInv, [CacheNext]_cacheVars PROVE CacheInv'
  OBVIOUS
<1> USE DEF CacheInv
<1>a. MaxAge \in Nat /\ Payloads \subseteq Payload
  BY CacheAssumption
<1>1. CASE WallTick
  <2>1. /\ real' = real + 1 /\ wall' = wall + 1
        /\ UNCHANGED <<back, reading, began, cache, served, evidence>>
    BY <1>1 DEF WallTick
  <2>2. CacheTypeOK'
    <3>1. wall' \in Int /\ real' \in Nat /\ back' \in Nat
      BY <2>1 DEF CacheTypeOK
    <3> QED
      BY Zenon, <2>1, <3>1 DEF CacheTypeOK
  <2>3. ClocksOk'
    BY <2>1 DEF CacheTypeOK, ClocksOk
  <2>4. ServedWithinAge'
    BY <2>1 DEF ServedWithinAge
  <2> QED
    BY <2>2, <2>3, <2>4
<1>2. CASE StepBack
  <2>1. UNCHANGED <<real, reading, began, cache, served, evidence>> /\ back' = back + 1 /\ wall' = wall - 1
    BY <1>2 DEF StepBack
  <2>2. CacheTypeOK'
    <3>1. wall' \in Int /\ real' \in Nat /\ back' \in Nat
      BY <2>1 DEF CacheTypeOK
    <3> QED
      BY Zenon, <2>1, <3>1 DEF CacheTypeOK
  <2>3. ClocksOk'
    BY <2>1 DEF CacheTypeOK, ClocksOk
  <2>4. ServedWithinAge'
    <3>1. back' = back + 1 /\ served' = served /\ back \in Nat
      BY <2>1 DEF CacheTypeOK
    <3>2. SUFFICES ASSUME served.mode = "cache" PROVE served.old <= MaxAge + back + 1
      BY <3>1, <1>a DEF ServedWithinAge
    <3>3. served.old \in Nat /\ served.old <= MaxAge + back
      BY <3>2, CachedHasAge DEF ServedWithinAge
    <3> QED
      BY <3>1, <3>3, <1>a
  <2> QED
    BY <2>2, <2>3, <2>4
<1>3. CASE BeginRead
  <2>1. CacheTypeOK'
    BY <1>3 DEF BeginRead, CacheTypeOK, NoRead
  <2>2. ClocksOk'
    <3>1. began' = [wall |-> wall, real |-> real] /\ UNCHANGED <<wall, real, back, cache>>
      BY <1>3 DEF BeginRead
    <3>2. cache.held => cache.born \in Nat
      BY HeldIsDated
    <3> QED
      BY <3>1, <3>2 DEF ClocksOk, CacheTypeOK
  <2>3. ServedWithinAge'
    BY <1>3 DEF BeginRead, ServedWithinAge, NoRead
  <2> QED
    BY <2>1, <2>2, <2>3
<1>4. CASE Outage
  <2>1. UNCHANGED <<wall, real, back, began, cache>>
    BY <1>4 DEF Outage, Serve, Refuse
  <2>2. CASE Fresh
    <3>1. /\ served' = Read("cache", cache.body, Age, began.real - cache.born)
          /\ reading' = "parsing" /\ evidence' = evidence
      BY <1>4, <2>2 DEF Outage, Serve
    <3>2. served' \in ReadRecord /\ served'.mode = "cache" /\ served'.old <= MaxAge + back
      BY <3>1, <2>2, ServeFresh
    <3> QED
      BY <2>1, <3>1, <3>2 DEF CacheTypeOK, ClocksOk, ServedWithinAge, ReadRecord
  <2>3. CASE ~Fresh
    BY <1>4, <2>1, <2>3 DEF Outage, Refuse, CacheTypeOK, ClocksOk, ServedWithinAge
  <2> QED
    BY <2>2, <2>3
<1>5. CASE Fault
  BY <1>5 DEF Fault, Refuse, CacheTypeOK, ClocksOk, ServedWithinAge
<1>6. CASE \E p \in Payloads : CboeAnswers(p)
  <2>1. PICK p \in Payloads : CboeAnswers(p)
    BY <1>6
  <2>2. /\ cache' = CacheOf(p, began.wall, began.real)
        /\ served' = Read("live", p, 0, 0)
        /\ reading' = "parsing" /\ UNCHANGED <<wall, real, back, began, evidence>>
    BY <2>1 DEF CboeAnswers
  <2>3. p \in Payload
    BY <1>a
  <2>4. CacheTypeOK'
    <3>1. cache' \in CacheRecord
      BY <2>2, <2>3 DEF CacheOf, CacheRecord, CacheTypeOK
    <3>2. served' \in ReadRecord
      BY <2>2, <2>3, <1>a DEF Read, ReadRecord
    <3> QED
      BY <2>2, <3>1, <3>2 DEF CacheTypeOK, CacheRecord, ReadRecord
  <2>5. ClocksOk' /\ ServedWithinAge'
    BY <2>2 DEF CacheOf, Read, ClocksOk, ServedWithinAge, CacheTypeOK
  <2> QED
    BY <2>4, <2>5
<1>7. CASE Parse
  BY <1>7 DEF Parse, CacheTypeOK, ClocksOk, ServedWithinAge
<1>8. CASE Restart
  BY <1>8 DEF Restart, CacheTypeOK, ClocksOk, ServedWithinAge, Empty, NoRead
<1>9. CASE UNCHANGED cacheVars
  BY <1>9 DEF cacheVars, CacheTypeOK, ClocksOk, ServedWithinAge
<1> QED
  BY <1>1, <1>2, <1>3, <1>4, <1>5, <1>6, <1>7, <1>8, <1>9 DEF CacheNext, Clock

(* A body served from the cache is never older than the maximum age plus    *)
(* what the host clock has been stepped back (ResilientVixHistorySource).   *)
THEOREM CacheAge == CacheSpec => []ServedWithinAge
<1>1. CacheInit => CacheInv
  BY InitInv
<1>2. CacheInv /\ [CacheNext]_cacheVars => CacheInv'
  BY NextInv
<1>3. CacheInv => ServedWithinAge
  BY DEF CacheInv
<1> QED
  BY <1>1, <1>2, <1>3, PTL DEF CacheSpec

(* The type invariant, for every instance.                                  *)
THEOREM CacheTypes == CacheSpec => []CacheTypeOK
<1>1. CacheInit => CacheInv
  BY InitInv
<1>2. CacheInv /\ [CacheNext]_cacheVars => CacheInv'
  BY NextInv
<1>3. CacheInv => CacheTypeOK
  BY DEF CacheInv
<1> QED
  BY <1>1, <1>2, <1>3, PTL DEF CacheSpec

-----------------------------------------------------------------------------
(* EntrySignals: the ratio of reward to risk.                               *)

(* What division leaves: a number is its quotient times the divisor and a   *)
(* rest below it.                                                           *)
LEMMA Quotient ==
    ASSUME NEW a \in Nat, NEW d \in Nat \ {0}
    PROVE /\ a \div d \in Nat /\ a % d \in 0 .. d - 1
          /\ a = d * (a \div d) + (a % d)
  BY SMT

(* A number rounded to a thousandth that reaches m is at most half a        *)
(* thousandth below it before it is rounded.                                *)
LEMMA RoundingIsHalf ==
    ASSUME NEW a \in Nat, NEW d \in Nat \ {0}, NEW m \in Nat \ {0},
           Quantized(a, d) >= m
    PROVE 2 * a >= (2 * m - 1) * d
  <1> DEFINE q == a \div d
             r == a % d
  <1>1. q \in Nat /\ r \in 0 .. d - 1 /\ a = d * q + r
    BY Quotient
  <1>2. CASE q >= m
    <2>1. d * q >= d * m
      BY <1>1, <1>2, SMT
    <2>2. d * m \in Nat /\ d * q \in Nat /\ (2 * m - 1) * d = 2 * (d * m) - d
      BY <1>1, SMT
    <2> QED BY <1>1, <2>1, <2>2, SMT
  <1>3. CASE q < m
    <2>1. 2 * r >= d /\ q + 1 >= m
      BY <1>1, <1>3, SMT DEF Quantized
    <2>2. q = m - 1
      BY <1>1, <1>3, <2>1, SMT
    <2>3. d * q = d * m - d /\ d * m \in Nat /\ (2 * m - 1) * d = 2 * (d * m) - d
      BY <2>2, SMT
    <2> QED BY <1>1, <2>1, <2>3, SMT
  <1> QED BY <1>1, <1>2, <1>3, SMT

(* A proposal the gate's ratio admits keeps it but for the rounding.        *)
LEMMA RatioWithinRounding ==
    ASSUME NEW p \in Proposals, RewardToRisk(p) >= Minimum
    PROVE 2000 * Reward(p) >= (2 * Minimum - 1) * Loss(p)
  <1> USE SignalsAssumption
  <1>1. p.width \in Nat \ {0} /\ p.debit \in Nat \ {0}
    BY DEF Proposals
  <1>2. Reward(p) \in Int
    <2>1. (p.width - p.debit) * ContractSize \in Int
      BY <1>1, SMT
    <2> QED BY <2>1, SMT DEF Reward
  <1>3. p.width > p.debit /\ Reward(p) > 0
    BY <1>1, <1>2, SMT DEF RewardToRisk
  <1>4. Quantized(1000 * Reward(p), Loss(p)) >= Minimum
    BY <1>1, <1>2, <1>3, SMT DEF RewardToRisk
  <1>5. Loss(p) \in Nat \ {0}
    <2>1. p.debit * ContractSize \in Nat \ {0}
      BY <1>1, SMT
    <2> QED BY <2>1, SMT DEF Loss
  <1>6. Reward(p) \in Nat /\ 1000 * Reward(p) \in Nat
    BY <1>2, <1>3, SMT
  <1>7. 2 * (1000 * Reward(p)) >= (2 * Minimum - 1) * Loss(p)
    BY <1>4, <1>5, <1>6, RoundingIsHalf
  <1> QED BY <1>6, <1>7, SMT

(* RatioRetained says nothing of the proposal on its way to the gate.       *)
SignalInv ==
    /\ phase = "proposed" => offer \in Proposals
    /\ RatioRetained

LEMMA SignalInvHolds == SignalSpec => []SignalInv
  <1>1. SignalInit => SignalInv
    BY DEF SignalInit, SignalInv, RatioRetained, Accepted
  <1>2. SignalInv /\ [SignalNext]_signalVars => SignalInv'
    <2> SUFFICES ASSUME SignalInv, [SignalNext]_signalVars PROVE SignalInv'
      OBVIOUS
    <2> USE DEF SignalInv
    <2>1. ASSUME Minute PROVE SignalInv'
      BY <2>1 DEF Minute, RatioRetained, Accepted
    <2>2. ASSUME NEW daily \in BOOLEAN, ReadMarket(daily) PROVE SignalInv'
      BY <2>2 DEF ReadMarket, RatioRetained, Accepted
    <2>3. ASSUME Offer PROVE SignalInv'
      BY <2>3 DEF Offer, RatioRetained, Accepted
    <2>4. ASSUME Gate PROVE SignalInv'
      <3>1. CASE Passes(offer, context)
        <4>1. entered'.offer = offer /\ offer \in Proposals
          BY <2>4, <3>1 DEF Gate
        <4>2. RewardToRisk(offer) >= Minimum
          BY <3>1 DEF Passes
        <4>3. RatioRetained'
          BY <4>1, <4>2, RatioWithinRounding DEF RatioRetained
        <4> QED BY <2>4, <4>3 DEF Gate
      <3>2. CASE ~Passes(offer, context)
        BY <2>4, <3>2 DEF Gate, RatioRetained, Accepted
      <3> QED BY <3>1, <3>2
    <2>5. CASE UNCHANGED signalVars
      BY <2>5 DEF signalVars, RatioRetained, Accepted
    <2> QED BY <2>1, <2>2, <2>3, <2>4, <2>5 DEF SignalNext
  <1> QED BY <1>1, <1>2, PTL DEF SignalSpec

(* What evaluate_profit_first_entry lets pass is at most half a thousandth  *)
(* short of the configured ratio of reward to risk after the estimated      *)
(* costs, which is what the rounding of _reward_to_risk can hide.           *)
THEOREM RatioKept == SignalSpec => []RatioRetained
  <1>1. SignalInv => RatioRetained
    BY DEF SignalInv
  <1> QED BY <1>1, SignalInvHolds, PTL

-----------------------------------------------------------------------------
(* EntrySignals: the horizons.  The bar so many places before the newest is  *)
(* there when there are that many, because the bars before it in the feed    *)
(* are counted apart by their minutes.                                      *)

(* A feed: finitely many bars, one a minute at most.                        *)
Feed(B) == B \subseteq Bars /\ IsFiniteSet(B) /\ \A b, c \in B : b.at = c.at => b = c

After(B, b) == {c \in B : c.at > b.at}

LEMMA Bounds ==
    /\ Premarket \in Nat /\ Minutes \in Nat /\ PriorClose \in Nat /\ Closes \subseteq Nat
    /\ Short \in Nat /\ Short > 0 /\ Long \in Nat /\ Long > 0 /\ Short <= Long /\ Lookback \in Int
    /\ Widths \subseteq Nat \ {0} /\ NetDebits \subseteq Nat \ {0}
  BY SignalsAssumption

LEMMA BarIsTimed ==
    ASSUME NEW b \in Bars
    PROVE  b.at \in Int /\ b.at \in -Premarket .. Minutes /\ b.close \in Closes
  BY Bounds DEF Bars

LEMMA MinutesBetween ==
    ASSUME NEW a \in Int, NEW b \in Int, a <= b
    PROVE  IsFiniteSet((a + 1) .. b) /\ Cardinality((a + 1) .. b) = b - a
<1> DEFINE c == a + 1
<1>1. c \in Int /\ (c > b => b = a) /\ b - c + 1 = b - a
  OBVIOUS
<1> HIDE DEF c
<1>2. IsFiniteSet(c .. b) /\ Cardinality(c .. b) = IF c > b THEN 0 ELSE b - c + 1
  BY <1>1, FS_Interval
<1>3. Cardinality(c .. b) = b - a
  BY <1>1, <1>2
<1> QED
  BY <1>2, <1>3 DEF c

(* The bars after a bar are fewer than all, and fewer the later it is.       *)
LEMMA AfterIsFewer ==
    ASSUME NEW B, Feed(B), NEW b \in B
    PROVE  /\ IsFiniteSet(After(B, b))
           /\ Cardinality(After(B, b)) \in 0 .. Cardinality(B) - 1
           /\ \A c \in B : c.at > b.at => Cardinality(After(B, c)) < Cardinality(After(B, b))
<1>1. IsFiniteSet(B) /\ Cardinality(B) \in Nat
  BY FS_CardinalityType DEF Feed
<1>2. \A c \in B : c.at \in Int
  BY BarIsTimed DEF Feed
<1>3. /\ IsFiniteSet(B \ {b}) /\ Cardinality(B \ {b}) = Cardinality(B) - 1
  BY <1>1, FS_RemoveElement
<1>4. After(B, b) \in SUBSET (B \ {b})
  BY <1>2 DEF After
<1>5. /\ IsFiniteSet(After(B, b)) /\ Cardinality(After(B, b)) <= Cardinality(B) - 1
      /\ Cardinality(After(B, b)) \in Nat
  BY <1>3, <1>4, FS_Subset, FS_CardinalityType
<1>6. ASSUME NEW c \in B, c.at > b.at
      PROVE  Cardinality(After(B, c)) < Cardinality(After(B, b))
  <2>1. After(B, c) \in SUBSET After(B, b) /\ c \in After(B, b) /\ c \notin After(B, c)
    BY <1>2, <1>6 DEF After
  <2>2. /\ Cardinality(After(B, c)) <= Cardinality(After(B, b))
        /\ Cardinality(After(B, b)) # Cardinality(After(B, c))
        /\ IsFiniteSet(After(B, c))
    BY <1>5, <2>1, FS_Subset
  <2>3. Cardinality(After(B, c)) \in Nat
    BY <2>2, FS_CardinalityType
  <2> QED
    BY <1>5, <2>2, <2>3
<1> QED
  BY <1>1, <1>5, <1>6

(* With more than k bars there is a bar k places before the newest.         *)
LEMMA BackIsThere ==
    ASSUME NEW B, Feed(B), NEW k \in Nat, k < Cardinality(B)
    PROVE  Back(B, k) \in B /\ Cardinality(After(B, Back(B, k))) = k
<1>1. \E b \in B : Cardinality(After(B, b)) = k
  <2> SUFFICES ASSUME \A b \in B : Cardinality(After(B, b)) # k PROVE FALSE
    OBVIOUS
  <2> DEFINE n == Cardinality(B)
             T == (0 .. n - 1) \ {k}
             f == [b \in B |-> Cardinality(After(B, b))]
  <2>1. IsFiniteSet(B) /\ n \in Nat
    BY FS_CardinalityType DEF Feed
  <2>2. IsFiniteSet(T) /\ Cardinality(T) < Cardinality(B)
    <3>1. IsFiniteSet(0 .. n - 1) /\ Cardinality(0 .. n - 1) = n
      <4>1. n - 1 \in Int /\ ~ 0 > n - 1 /\ (n - 1) - 0 + 1 = n
        BY <2>1
      <4> HIDE DEF n
      <4> DEFINE e == n - 1
      <4>2. e \in Int /\ ~ 0 > e /\ e - 0 + 1 = n
        BY <4>1
      <4> HIDE DEF e
      <4>3. IsFiniteSet(0 .. e) /\ Cardinality(0 .. e) = n
        BY <4>2, FS_Interval
      <4> QED
        BY <4>3 DEF e
    <3>2. k \in 0 .. n - 1
      BY <2>1
    <3> HIDE DEF n
    <3>3. IsFiniteSet(T) /\ Cardinality(T) = n - 1
      BY <3>1, <3>2, FS_RemoveElement
    <3> QED
      BY <2>1, <3>3 DEF n
  <2>3. f \in [B -> T]
    BY AfterIsFewer
  <2> HIDE DEF T, f
  <2>4. PICK b, c \in B : b # c /\ f[b] = f[c]
    BY <2>1, <2>2, <2>3, FS_PigeonHole
  <2>5. Cardinality(After(B, b)) = Cardinality(After(B, c))
    BY <2>4 DEF f
  <2>6. b.at # c.at /\ b.at \in Int /\ c.at \in Int
    BY <2>4, BarIsTimed DEF Feed
  <2>7. Cardinality(After(B, b)) \in Int /\ Cardinality(After(B, c)) \in Int
    BY <2>1, AfterIsFewer
  <2> QED
    BY <2>5, <2>6, <2>7, AfterIsFewer
<1> QED
  BY <1>1 DEF Back, After

(* k bars after one, up to the newest, take at least k minutes; and no more  *)
(* when none is missing.                                                    *)
LEMMA BarsTakeMinutes ==
    ASSUME NEW B, Feed(B), NEW k \in Nat, k < Cardinality(B)
    PROVE  /\ Back(B, 0) \in B /\ Back(B, k) \in B
           /\ Back(B, 0).at - Back(B, k).at >= k
           /\ (\A m \in Back(B, k).at .. Back(B, 0).at : \E c \in B : c.at = m)
                  => Back(B, 0).at - Back(B, k).at = k
<1> DEFINE last == Back(B, 0)
           from == Back(B, k)
           S == After(B, from)
           I == (from.at + 1) .. last.at
<1>1. Cardinality(B) \in Nat
  BY FS_CardinalityType DEF Feed
<1>2. /\ last \in B /\ from \in B /\ Cardinality(S) = k
      /\ Cardinality(After(B, last)) = 0 /\ IsFiniteSet(After(B, last)) /\ IsFiniteSet(S)
  BY <1>1, BackIsThere, AfterIsFewer
<1>3. \A c \in B : c.at \in Int
  BY BarIsTimed DEF Feed
<1> HIDE DEF last, from
<1>4. \A c \in B : c.at <= last.at
  <2>1. After(B, last) = {}
    BY <1>2, FS_EmptySet
  <2> QED
    BY <1>2, <1>3, <2>1 DEF After
<1>5. last.at \in Int /\ from.at \in Int /\ from.at <= last.at
  BY <1>2, <1>3, <1>4
<1>6. IsFiniteSet(I) /\ Cardinality(I) = last.at - from.at
  BY <1>5, MinutesBetween
<1>7. last.at - from.at >= k
  <2> SUFFICES ASSUME last.at - from.at < k PROVE FALSE
    BY <1>5
  <2> DEFINE f == [c \in S |-> c.at]
  <2>1. f \in [S -> I]
    BY <1>3, <1>4, <1>5 DEF After
  <2>2. PICK b, c \in S : b # c /\ f[b] = f[c]
    <3> HIDE DEF S, I, f
    <3> QED
      BY <1>2, <1>6, <2>1, FS_PigeonHole
  <2> QED
    BY <2>2 DEF After, Feed
<1>8. ASSUME \A m \in from.at .. last.at : \E c \in B : c.at = m
      PROVE  last.at - from.at <= k
  <2> SUFFICES ASSUME k < last.at - from.at PROVE FALSE
    BY <1>5
  <2> DEFINE f == [m \in I |-> CHOOSE c \in S : c.at = m]
  <2>1. \A m \in I : \E c \in S : c.at = m
    BY <1>3, <1>5, <1>8 DEF After
  <2>2. f \in [I -> S] /\ \A m \in I : f[m].at = m
    BY <2>1
  <2>3. PICK l, m \in I : l # m /\ f[l] = f[m]
    <3> HIDE DEF S, I, f
    <3> QED
      BY <1>2, <1>6, <2>2, FS_PigeonHole
  <2> HIDE DEF f, S, I
  <2> QED
    BY <2>2, <2>3
<1> QED
  BY <1>2, <1>5, <1>7, <1>8 DEF last, from

FeedInv ==
    /\ minute \in -Premarket .. Minutes
    /\ Feed(bars)
    /\ \A b \in bars : b.at < minute

(* What a horizon of n minutes is measured against.                         *)
Measures(c, n) ==
    c.from[n] # Absent =>
        /\ c.last.at - c.from[n].at >= n /\ c.from[n].at >= 0
        /\ (\A m \in c.from[n].at .. c.last.at : \E b \in bars : b.at = m)
              => c.last.at - c.from[n].at = n

(* The bars of the session are a feed of their own, without gaps of its own. *)
LEMMA SessionFeed ==
    ASSUME FeedInv
    PROVE  LET B == SessionBars(minute)
           IN /\ Feed(B) /\ B \subseteq SessionBar /\ \A b \in B : b.at \in Nat /\ b.at < minute
              /\ \A b, c \in B, d \in bars : b.at <= d.at /\ d.at <= c.at => d \in B
<1> DEFINE B == SessionBars(minute)
<1>1. minute \in Int /\ \A b \in bars : b.at \in Int /\ b.at \in -Premarket .. Minutes /\ b.close \in Closes
  BY Bounds, BarIsTimed DEF FeedInv, Feed
<1>2. B \in SUBSET bars
  BY DEF SessionBars
<1>3. Feed(B)
  <2>1. IsFiniteSet(B)
    BY <1>2, FS_Subset DEF FeedInv, Feed
  <2> QED
    BY <1>2, <2>1 DEF FeedInv, Feed
<1>4. \A b \in B : b \in SessionBar /\ b.at \in Nat /\ b.at < minute
  <2> SUFFICES ASSUME NEW b \in B PROVE b \in SessionBar /\ b.at \in Nat /\ b.at < minute
    OBVIOUS
  <2>1. b \in bars /\ b.at >= 0
    BY DEF SessionBars
  <2>2. b \in Bars /\ b.at \in Nat /\ b.at \in 0 .. Minutes /\ b.close \in Closes
    BY <1>1, <2>1, Bounds DEF FeedInv, Feed
  <2>3. b \in SessionBar
    BY <2>2 DEF Bars, SessionBar
  <2> QED
    BY <2>1, <2>2, <2>3 DEF FeedInv
<1>5. ASSUME NEW b \in B, NEW c \in B, NEW d \in bars, b.at <= d.at, d.at <= c.at
      PROVE  d \in B
  <2>1. b.at >= minute - Lookback /\ b.at >= 0 /\ c.at <= minute /\ b.at \in Int /\ c.at \in Int
    BY <1>1, <1>2 DEF SessionBars
  <2>2. d.at \in Int /\ minute - Lookback \in Int
    BY <1>1, Bounds
  <2>3. d.at >= minute - Lookback /\ d.at >= 0 /\ d.at <= minute
    BY <1>1, <1>5, <2>1, <2>2
  <2> QED
    BY <2>3 DEF SessionBars
<1> QED
  BY <1>3, <1>4, <1>5

(* What the context of a cycle holds.                                       *)
LEMMA ContextIsMeasured ==
    ASSUME FeedInv, NEW daily \in BOOLEAN, SessionBars(minute) # {}
    PROVE  LET c == Context(daily, minute)
           IN /\ c \in Contexts /\ c.last.at < minute
              /\ \A n \in {Short, Long} : Measures(c, n)
<1> DEFINE B == SessionBars(minute)
           c == Context(daily, minute)
<1>1. /\ Feed(B) /\ B \subseteq SessionBar /\ \A b \in B : b.at \in Nat /\ b.at < minute
      /\ \A b, e \in B, d \in bars : b.at <= d.at /\ d.at <= e.at => d \in B
  BY SessionFeed
<1>2. Cardinality(B) \in Nat /\ Cardinality(B) > 0
  BY <1>1, FS_CardinalityType, FS_EmptySet DEF Feed
<1>3. Back(B, 0) \in B
  BY <1>1, <1>2, BackIsThere
<1>4. /\ c.last = Back(B, 0)
      /\ c.from = [n \in {Short, Long} |-> Horizon(B, n)]
      /\ c.status \in {"AVAILABLE", "WARMING_UP"} /\ c.daily = daily
      /\ c = [status |-> c.status, daily |-> c.daily, last |-> c.last, from |-> c.from,
               session |-> c.session, short |-> c.short, long |-> c.long]
  BY DEF Context
<1>5. c.session \in Directions /\ c.short \in Directions /\ c.long \in Directions
  <2>1. c.session = Direction(Back(B, 0).close, PriorClose) /\ c.short = Over(B, Short) /\ c.long = Over(B, Long)
    BY DEF Context
  <2> HIDE DEF c, B
  <2> QED
    BY <2>1 DEF Over, Direction, Directions
<1>6. ASSUME NEW n \in {Short, Long}
      PROVE  /\ Horizon(B, n) \in SessionBar \cup {Absent}
             /\ c.from[n] = Horizon(B, n)
             /\ Horizon(B, n) # Absent => n \in Nat /\ n < Cardinality(B) /\ Horizon(B, n) = Back(B, n)
  <2>1. n \in Nat
    BY Bounds
  <2>2. CASE Cardinality(B) <= n
    BY <1>4, <2>2 DEF Horizon
  <2>3. CASE n < Cardinality(B)
    <3>1. Back(B, n) \in B
      BY <1>1, <2>1, <2>3, BackIsThere
    <3>2. Horizon(B, n) = Back(B, n)
      BY <1>2, <2>1, <2>3 DEF Horizon
    <3> QED
      BY <1>1, <1>4, <2>1, <2>3, <3>1, <3>2
  <2> QED
    BY <1>2, <2>1, <2>2, <2>3
<1>7. c \in Contexts
  <2>1. c.last \in SessionBar /\ c.daily \in BOOLEAN
    BY <1>1, <1>3, <1>4
  <2>2. c.from \in [{Short, Long} -> SessionBar \cup {Absent}]
    <3> HIDE DEF c, B
    <3> QED
      BY <1>4, <1>6
  <2> HIDE DEF c, B
  <2> QED
    BY <1>4, <1>5, <2>1, <2>2 DEF Contexts
<1>8. ASSUME NEW n \in {Short, Long} PROVE Measures(c, n)
  <2> SUFFICES ASSUME c.from[n] # Absent
               PROVE  /\ c.last.at - c.from[n].at >= n /\ c.from[n].at >= 0
                      /\ (\A m \in c.from[n].at .. c.last.at : \E b \in bars : b.at = m)
                            => c.last.at - c.from[n].at = n
    BY DEF Measures
  <2>1. n \in Nat /\ n < Cardinality(B) /\ c.from[n] = Back(B, n) /\ c.last = Back(B, 0)
    BY <1>4, <1>6
  <2> HIDE DEF c, B
  <2>2. /\ Back(B, 0) \in B /\ Back(B, n) \in B /\ Back(B, 0).at - Back(B, n).at >= n
        /\ (\A m \in Back(B, n).at .. Back(B, 0).at : \E e \in B : e.at = m)
               => Back(B, 0).at - Back(B, n).at = n
    BY <1>1, <2>1, BarsTakeMinutes
  <2>3. Back(B, n).at \in Nat /\ Back(B, 0).at \in Nat
    BY <1>1, <2>2
  <2>4. ASSUME \A m \in Back(B, n).at .. Back(B, 0).at : \E b \in bars : b.at = m
        PROVE  \A m \in Back(B, n).at .. Back(B, 0).at : \E e \in B : e.at = m
    <3> SUFFICES ASSUME NEW m \in Back(B, n).at .. Back(B, 0).at PROVE \E e \in B : e.at = m
      OBVIOUS
    <3>1. PICK b \in bars : b.at = m
      BY <2>4
    <3>2. Back(B, n).at <= b.at /\ b.at <= Back(B, 0).at
      BY <2>3, <3>1
    <3> QED
      BY <1>1, <2>2, <3>1, <3>2
  <2> QED
    BY <2>1, <2>2, <2>3, <2>4
<1>9. c.last.at < minute
  BY <1>1, <1>3, <1>4
<1> QED
  BY <1>7, <1>8, <1>9

Judged ==
    HasRead => /\ context \in Contexts /\ context.last.at < minute
               /\ \A n \in {Short, Long} : Measures(context, n)

EvidenceInv ==
    /\ FeedInv
    /\ Judged
    /\ phase \in {"idle", "asked", "proposed"}
    /\ phase # "idle" => HasRead
    /\ offer \in Proposals \cup {Absent}
    /\ phase = "proposed" => offer \in Proposals
    /\ entered \in [context : Contexts, offer : Proposals] \cup {Absent}

LEMMA InitEvidence == SignalInit => EvidenceInv
<1> SUFFICES ASSUME SignalInit PROVE EvidenceInv
  OBVIOUS
<1>1. Feed(bars)
  BY FS_EmptySet DEF SignalInit, Feed
<1>2. minute \in -Premarket .. Minutes
  BY Bounds DEF SignalInit
<1> QED
  BY <1>1, <1>2 DEF SignalInit, EvidenceInv, FeedInv, Judged, HasRead

(* A bar of the minute that ends is later than all before it, and than all   *)
(* a context has read.                                                      *)
LEMMA MinuteFeeds ==
    ASSUME EvidenceInv, Minute
    PROVE  FeedInv' /\ Judged'
<1>1. /\ minute < Minutes /\ minute' = minute + 1 /\ context' = context
      /\ bars' = bars \/ \E c \in Closes : bars' = bars \cup {[at |-> minute, close |-> c]}
  BY DEF Minute
<1>2. minute \in Int /\ minute' \in -Premarket .. Minutes
  BY <1>1, Bounds DEF EvidenceInv, FeedInv
<1>3. \A b \in bars : b.at \in Int /\ b.at < minute
  BY BarIsTimed DEF EvidenceInv, FeedInv, Feed
<1>4. HasRead => context.last.at \in Nat /\ \A n \in {Short, Long} :
                    context.from[n] # Absent => context.from[n].at \in Nat
  BY Bounds DEF EvidenceInv, Judged, Contexts, SessionBar
<1>5. CASE bars' = bars
  BY <1>1, <1>2, <1>3, <1>4, <1>5 DEF EvidenceInv, FeedInv, Judged, HasRead, Measures
<1>6. ASSUME NEW c \in Closes, bars' = bars \cup {[at |-> minute, close |-> c]}
      PROVE  FeedInv' /\ Judged'
  <2> DEFINE new == [at |-> minute, close |-> c]
  <2>1. new.at = minute /\ new \in Bars
    BY <1>6 DEF EvidenceInv, FeedInv, Bars
  <2> HIDE DEF new
  <2>2. bars' = bars \cup {new}
    BY <1>6 DEF new
  <2>3. Feed(bars')
    <3>1. IsFiniteSet(bars')
      BY <2>2, FS_AddElement DEF EvidenceInv, FeedInv, Feed
    <3> QED
      BY <1>2, <1>3, <2>1, <2>2, <3>1 DEF EvidenceInv, FeedInv, Feed
  <2>4. \A b \in bars' : b.at < minute'
    BY <1>1, <1>2, <1>3, <2>1, <2>2
  <2>5. ASSUME HasRead, NEW n \in {Short, Long} PROVE Measures(context, n)'
    <3>1. Measures(context, n) /\ context.last.at < minute
      BY <2>5 DEF EvidenceInv, Judged
    <3>2. SUFFICES ASSUME context.from[n] # Absent,
                          \A m \in context.from[n].at .. context.last.at : \E b \in bars' : b.at = m
                   PROVE  \A m \in context.from[n].at .. context.last.at : \E b \in bars : b.at = m
      BY <1>1, <3>1 DEF Measures
    <3>3. context.last.at \in Nat /\ context.from[n].at \in Nat
      BY <1>4, <2>5, <3>2
    <3> QED
      BY <1>2, <2>1, <2>2, <3>1, <3>2, <3>3
  <2>6. Judged'
    <3>1. HasRead => context.last.at < minute'
      BY <1>1, <1>2, <1>4 DEF EvidenceInv, Judged
    <3> QED
      BY <1>1, <2>5, <3>1 DEF EvidenceInv, Judged, HasRead
  <2> QED
    BY <1>2, <2>3, <2>4, <2>6 DEF FeedInv
<1> QED
  BY <1>1, <1>5, <1>6

LEMMA NextEvidence == EvidenceInv /\ [SignalNext]_signalVars => EvidenceInv'
<1> SUFFICES ASSUME EvidenceInv, [SignalNext]_signalVars PROVE EvidenceInv'
  OBVIOUS
<1>1. CASE Minute
  BY <1>1, MinuteFeeds DEF Minute, EvidenceInv, HasRead
<1>2. ASSUME NEW daily \in BOOLEAN, ReadMarket(daily) PROVE EvidenceInv'
  <2>1. /\ SessionBars(minute) # {} /\ context' = Context(daily, minute)
        /\ UNCHANGED <<minute, bars, offer, entered>>
        /\ phase' = "asked" \/ phase' = "idle"
    BY <1>2 DEF ReadMarket
  <2>2. context' \in Contexts /\ context'.last.at < minute /\ \A n \in {Short, Long} : Measures(context', n)
    BY <2>1, ContextIsMeasured DEF EvidenceInv
  <2>3. FeedInv' /\ Judged'
    BY <2>1, <2>2 DEF EvidenceInv, FeedInv, Judged, Measures
  <2>4. phase' = "asked" => HasRead'
    <3>1. context'.status \in {"AVAILABLE", "WARMING_UP"}
      BY <2>2 DEF Contexts
    <3>2. Absent.status = "NONE"
      BY DEF Absent
    <3> QED
      BY <3>1, <3>2 DEF HasRead
  <2> QED
    BY <2>1, <2>3, <2>4 DEF EvidenceInv
<1>3. CASE Offer
  BY <1>3 DEF Offer, EvidenceInv, FeedInv, Judged, HasRead, Measures
<1>4. CASE Gate
  <2>1. /\ phase = "proposed" /\ phase' = "idle" /\ offer' = Absent /\ UNCHANGED <<minute, bars, context>>
        /\ entered' = entered \/ entered' = [context |-> context, offer |-> offer]
    BY <1>4 DEF Gate
  <2>2. entered' \in [context : Contexts, offer : Proposals] \cup {Absent}
    BY <2>1 DEF EvidenceInv, Judged
  <2>3. FeedInv' /\ Judged'
    BY <2>1 DEF EvidenceInv, FeedInv, Judged, HasRead, Measures
  <2> QED
    BY <2>1, <2>2, <2>3 DEF EvidenceInv
<1>5. CASE UNCHANGED signalVars
  BY <1>5 DEF signalVars, EvidenceInv, FeedInv, Judged, HasRead, Measures
<1> QED
  BY <1>1, <1>2, <1>3, <1>4, <1>5 DEF SignalNext

LEMMA EvidenceAlways == SignalSpec => []EvidenceInv
  BY InitEvidence, NextEvidence, PTL DEF SignalSpec

(* A context holds bars of the session only, and what the gate has let pass  *)
(* came with its context (read_spy_intraday_context,                        *)
(* evaluate_profit_first_entry).                                            *)
THEOREM SignalTypes == SignalSpec => []SignalTypeOK
<1>1. EvidenceInv => SignalTypeOK
  BY DEF EvidenceInv, FeedInv, Feed, Judged, HasRead, SignalTypeOK
<1> QED
  BY <1>1, EvidenceAlways, PTL

(* However many minutes the feed leaves out, a direction is measured over at *)
(* least its minutes, and never against a price from before the open         *)
(* (read_spy_intraday_context).                                             *)
THEOREM HorizonsHavePassed == SignalSpec => []HorizonHasPassed
<1>1. EvidenceInv => HorizonHasPassed
  BY DEF EvidenceInv, Judged, Holds, Measures, HorizonHasPassed
<1> QED
  BY <1>1, EvidenceAlways, PTL

(* With no minute missing in between, it is measured over exactly its        *)
(* minutes (read_spy_intraday_context).                                     *)
THEOREM HorizonsAreMinutes == SignalSpec => []HorizonIsMinutes
<1>1. EvidenceInv => HorizonIsMinutes
  BY DEF EvidenceInv, Judged, Holds, Measures, HorizonIsMinutes
<1> QED
  BY <1>1, EvidenceAlways, PTL

-----------------------------------------------------------------------------
(* The parts side by side.  What is explored together is a behaviour of     *)
(* each part, so an invariant of a part is one of the whole.                *)

LEMMA PartsBegin == MCInit => Init /\ EntryInit /\ SignalInit /\ CacheInit
BY DEF MCInit

LEMMA PartsStep ==
  [MCNext]_<<vars, entryVars, signalVars, cacheVars, part>> =>
    /\ [Next]_vars /\ [EntryNext]_entryVars
    /\ [SignalNext]_signalVars /\ [CacheNext]_cacheVars
<1> DEFINE all == <<vars, entryVars, signalVars, cacheVars, part>>
<1>1. CASE UNCHANGED all
  BY <1>1
<1>2. ASSUME MCNext
      PROVE  /\ [Next]_vars /\ [EntryNext]_entryVars
             /\ [SignalNext]_signalVars /\ [CacheNext]_cacheVars
  <2>1. Alone => Next
    BY DEF Alone
  <2>2. Racing => Next
    BY DEF Racing, Next
  <2> QED
    BY <1>2, <2>1, <2>2 DEF MCNext
<1> QED
  BY <1>1, <1>2

(* A behaviour of the parts side by side is one of the trust lifecycle, of  *)
(* the entry cycle, of the signals and of the cached history: none restricts *)
(* or disturbs another.                                                     *)
THEOREM PartsApart == MCSpec => Spec /\ EntrySpec /\ SignalSpec /\ CacheSpec
BY PartsBegin, PartsStep, PTL
   DEF MCSpec, Spec, EntrySpec, SignalSpec, CacheSpec

(* Every part keeps its types, above all the priced debit of an entry       *)
(* (derive_debit, build_trade_proposal_from_recommendation).                *)
THEOREM AllTypesKept == MCSpec => []TypesOK
<1>1. (TypeOK /\ EntryTypeOK /\ SignalTypeOK /\ CacheTypeOK) => TypesOK
  BY DEF TypesOK
<1> QED
  BY <1>1, PartsApart, TrustTypes, EntryTypesKept, SignalTypes, CacheTypes, PTL
=============================================================================
