------------------------------ MODULE VixCache ------------------------------
(***************************************************************************)
(* The VIX history read at the start of every autonomous cycle:            *)
(* ResilientVixHistorySource keeps the last body Cboe answered and serves  *)
(* it for a while when the download fails; the body is parsed only after   *)
(* the source has stored it.  The clock the age is measured with is the    *)
(* host's wall clock, which can be stepped back while the process runs;    *)
(* `real' is true elapsed time, which the code cannot see.                 *)
(***************************************************************************)
EXTENDS Integers

CONSTANTS
    MaxAge,      \* maximum_cache_age_seconds
    Payloads,    \* the bodies Cboe may answer with
    MaxReal,     \* bound of the exploration: true time
    MaxBack      \* bound of the exploration: total step back of the clock

(* A body: the newest session it lists counted from completed_through      *)
(* (0 is that session, 1 a later one), whether twenty sessions precede it, *)
(* and whether every row parses.                                           *)
Payload == [newest : {-1, 0, 1}, enough : BOOLEAN, clean : BOOLEAN]

ASSUME CacheAssumption ==
    /\ MaxAge \in Nat \ {0}
    /\ Payloads \subseteq Payload
    /\ MaxReal \in Nat
    /\ MaxBack \in Nat

VARIABLES
    wall,     \* what now_fn returns
    real,     \* true time
    back,     \* how far the clock has been stepped back so far
    reading,       \* idle, fetching or parsing
    began,    \* [wall, real] when the read took `now'
    cache,    \* _cached_text and _cached_at, with the true time of the latter
    served,   \* what the last read returned: VixHistoryRead
    evidence  \* what became of the cycle's VIX evidence

cacheVars == <<wall, real, back, reading, began, cache, served, evidence>>

Empty == [held |-> FALSE]
NoRead == [mode |-> "none"]

CacheOf(p, w, t) == [held |-> TRUE, body |-> p, at |-> w, born |-> t]
Read(mode, p, age, old) == [mode |-> mode, body |-> p, age |-> age, old |-> old]

(* read_cboe_vix_daily_evidence: rows after completed_through are skipped, *)
(* twenty must be left and the last of them must be that session.          *)
Parses(p) == p.clean /\ p.enough /\ p.newest >= 0

Age == began.wall - cache.at

Fresh == cache.held /\ Age >= 0 /\ Age <= MaxAge

(* Slip: serving the cached body renews it. *)
RenewServe ==
    /\ served' = Read("cache", cache.body, Age, began.real - cache.born)
    /\ cache' = [cache EXCEPT !.at = began.wall]

Serve ==
    /\ served' = Read("cache", cache.body, Age, began.real - cache.born)
    /\ UNCHANGED cache

-----------------------------------------------------------------------------

CacheInit ==
    /\ wall = 0 /\ real = 0 /\ back = 0
    /\ reading = "idle" /\ began = [wall |-> 0, real |-> 0]
    /\ cache = Empty /\ served = NoRead
    /\ evidence = "none"

WallTick ==
    /\ real < MaxReal
    /\ real' = real + 1 /\ wall' = wall + 1
    /\ UNCHANGED <<back, reading, began, cache, served, evidence>>

StepBack ==
    /\ back < MaxBack
    /\ wall' = wall - 1 /\ back' = back + 1
    /\ UNCHANGED <<real, reading, began, cache, served, evidence>>

Clock == WallTick \/ StepBack

BeginRead ==
    /\ reading = "idle"
    /\ reading' = "fetching" /\ began' = [wall |-> wall, real |-> real]
    /\ served' = NoRead /\ evidence' = "none"
    /\ UNCHANGED <<wall, real, back, cache>>

Refuse == reading' = "idle" /\ evidence' = "refused" /\ UNCHANGED <<cache, served>>

(* The fetcher raised vix_evidence_unavailable. *)
Outage ==
    /\ reading = "fetching"
    /\ IF Fresh
       THEN Serve /\ reading' = "parsing" /\ UNCHANGED evidence
       ELSE Refuse
    /\ UNCHANGED <<wall, real, back, began>>

(* An exception the fetcher does not translate, or a blank body. *)
Fault ==
    /\ reading = "fetching"
    /\ Refuse
    /\ UNCHANGED <<wall, real, back, began>>

CboeAnswers(p) ==
    /\ reading = "fetching"
    /\ cache' = CacheOf(p, began.wall, began.real)
    /\ served' = Read("live", p, 0, 0)
    /\ reading' = "parsing"
    /\ UNCHANGED <<wall, real, back, began, evidence>>

Parse ==
    /\ reading = "parsing"
    /\ evidence' = IF Parses(served.body) THEN "ready" ELSE "refused"
    /\ reading' = "idle"
    /\ UNCHANGED <<wall, real, back, began, cache, served>>

(* The process is replaced; the cache lived in a module global. *)
Restart ==
    /\ reading' = "idle" /\ cache' = Empty /\ served' = NoRead
    /\ evidence' = "none"
    /\ UNCHANGED <<wall, real, back, began>>

CacheNext == Clock \/ BeginRead \/ Outage \/ Fault \/ (\E p \in Payloads : CboeAnswers(p)) \/ Parse \/ Restart

CacheSpec == CacheInit /\ [][CacheNext]_cacheVars

-----------------------------------------------------------------------------

CacheTypeOK ==
    /\ wall \in Int /\ real \in Nat /\ back \in Nat
    /\ reading \in {"idle", "fetching", "parsing"}
    /\ began \in [wall : Int, real : Nat]
    /\ cache \in {Empty} \cup [held : {TRUE}, body : Payload, at : Int, born : Nat]
    /\ served \in {NoRead} \cup
           [mode : {"live", "cache"}, body : Payload, age : 0..MaxAge, old : Nat]
    /\ evidence \in {"none", "ready", "refused"}

(* A body served from the cache is never truly older, when the cycle asks  *)
(* for it, than the maximum age plus what the clock has been stepped back: *)
(* neither serving it again nor a stepped clock lets it live on.           *)
(* ResilientVixHistorySource.read stores the time before the download.     *)
ServedWithinAge == served.mode = "cache" => served.old <= MaxAge + back
=============================================================================
