----------------------------- MODULE MCWatchdog -----------------------------
(***************************************************************************)
(* Two bounded instances of one market date in one exploration: a watched  *)
(* one, with one invocation of the runner on a host that stays up, and an   *)
(* unwatched one, where invocations and sessions run by hand overlap while  *)
(* the watchdog could not read the market calendar.  Both only leave steps  *)
(* of WatchNext out.                                                       *)
(***************************************************************************)
EXTENDS Watchdog

CONSTANT First \* the invocation of the watched instance

VARIABLE watched

Shown ==
    IF watched
    THEN /\ \A s \in Sessions \ {First} :
               session'[s] = "none" /\ (s \in Runs => runner'[s] = "off")
         /\ "WATCHDOG SOURCE MISMATCH" \notin audit' /\ restarts' = 0
    ELSE dog' \in {"off", "blocked"}

MCInit == WatchInit /\ watched \in BOOLEAN

MCNext == WatchNext /\ Shown /\ UNCHANGED watched

MCSpec == MCInit /\ [][MCNext]_<<watchVars, watched>> /\ WatchFairness
=============================================================================
