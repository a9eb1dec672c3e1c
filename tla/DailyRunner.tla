----------------------------- MODULE DailyRunner -----------------------------
(***************************************************************************)
(* One market date of the Windows automation: invocations of               *)
(* Run-LockeanLite.ps1 (the scheduled task, or the operator running the    *)
(* script), the start receipt they create, the session each launches, the  *)
(* log it leaves, and the completion receipt written after the log has     *)
(* been reconciled.  An operator may also launch a session by hand, and    *)
(* the host may restart, which ends every process and frees the mutex.     *)
(***************************************************************************)
EXTENDS Integers, FiniteSets

CONSTANTS
    Runs,        \* invocations of the runner script on this market date
    ByHand,      \* sessions launched from a terminal, outside the runner
    MaxRestarts, \* bound of the exploration: restarts of the host
    Nobody

ASSUME RunnerAssumption == Nobody \notin Runs /\ Runs \cap ByHand = {} /\ MaxRestarts \in Nat

Sessions == Runs \cup ByHand

VARIABLES
    stage,     \* stage of the day
    runner,    \* program counter of each invocation
    mutex,     \* owner of LockeanLiteScheduledSession
    started,   \* the start receipt of the date exists
    completed, \* the completion receipt of the date exists
    audit,     \* what the scheduler audit of the date says
    session,   \* each session, as its log shows it
    newest,    \* the session whose log is the newest
    beat,      \* the last heartbeat of the newest log
    attempts,  \* invocations that launched a session
    restarts

runnerVars == <<stage, runner, mutex, started, completed, audit, session,
                newest, beat, attempts, restarts>>

(* Stages of the day: before 09:00, from 09:15, from five minutes before   *)
(* the open, from the open, from 10:00, from the close, from the close     *)
(* plus the watchdog's grace.                                              *)
Early == 0
Scheduled == 1
StartDeadline == 2
Opening == 3
Late == 4
Closed == 5
End == 6

InStartWindow == stage \in Scheduled..Opening

Alive == {s \in Sessions : session[s] \in {"launching", "running"}}

-----------------------------------------------------------------------------

DayInit ==
    /\ stage = Early /\ mutex = Nobody
    /\ runner = [r \in Runs |-> "off"]
    /\ started = FALSE /\ completed = FALSE /\ audit = {}
    /\ session = [s \in Sessions |-> "none"]
    /\ newest = Nobody /\ beat = "none"
    /\ attempts = {} /\ restarts = 0

StagePasses ==
    /\ stage < End
    /\ stage' = stage + 1
    /\ UNCHANGED <<runner, mutex, started, completed, audit, session, newest,
                   beat, attempts, restarts>>

Goes(r, step) == runner' = [runner EXCEPT ![r] = step]

Releases(r) == mutex' = IF mutex = r THEN Nobody ELSE mutex

(* The catch block: audit the refusal, free the mutex, exit 1, no retry.   *)
Blocks(r, lines) ==
    /\ Goes(r, "blocked") /\ Releases(r)
    /\ audit' = audit \cup lines \cup {"BLOCKED"}

Moves(r, step) == Goes(r, step) /\ UNCHANGED <<mutex, audit>>

(* Configuration, source revision, credentials and the read-only plan.     *)
Plan(r) ==
    /\ runner[r] = "off"
    /\ \/ Moves(r, "planned")
       \/ \E lines \in {{}, {"SOURCE REVISION BLOCKED"}, {"PLANNER FAILURE"}} : Blocks(r, lines)
       \/ Moves(r, "done")
    /\ UNCHANGED <<stage, started, completed, session, newest, beat, attempts, restarts>>

TimeGuard(r) ==
    /\ runner[r] = "planned"
    /\ IF InStartWindow THEN Moves(r, "timed") ELSE Blocks(r, {})
    /\ UNCHANGED <<stage, started, completed, session, newest, beat, attempts, restarts>>

TakeMutex(r) ==
    /\ runner[r] = "timed"
    /\ IF mutex = Nobody
       THEN Goes(r, "alone") /\ mutex' = r /\ UNCHANGED audit
       ELSE Blocks(r, {})
    /\ UNCHANGED <<stage, started, completed, session, newest, beat, attempts, restarts>>

ProcessGuard(r) ==
    /\ runner[r] = "alone"
    /\ IF Alive = {} THEN Moves(r, "guarded") ELSE Blocks(r, {})
    /\ UNCHANGED <<stage, started, completed, session, newest, beat, attempts, restarts>>

(* Slip: FileMode.Create instead of CreateNew. *)
CreateReceiptAnyway(r) ==
    /\ runner[r] = "guarded"
    /\ Moves(r, "marked") /\ started' = TRUE
    /\ UNCHANGED <<stage, completed, session, newest, beat, attempts, restarts>>

CreateReceipt(r) ==
    /\ runner[r] = "guarded"
    /\ IF started
       THEN Blocks(r, {}) /\ UNCHANGED started
       ELSE Moves(r, "marked") /\ started' = TRUE
    /\ UNCHANGED <<stage, completed, session, newest, beat, attempts, restarts>>

(* The host refuses to stay awake, or the session process is started.      *)
Launch(r) ==
    /\ runner[r] = "marked"
    /\ \/ Blocks(r, {}) /\ UNCHANGED <<session, attempts>>
       \/ /\ Moves(r, "waiting")
          /\ session' = [session EXCEPT ![r] = "launching"]
          /\ attempts' = attempts \cup {r}
    /\ UNCHANGED <<stage, started, completed, newest, beat, restarts>>

LaunchByHand(s) ==
    /\ session[s] = "none"
    /\ session' = [session EXCEPT ![s] = "launching"]
    /\ UNCHANGED <<stage, runner, mutex, started, completed, audit, newest,
                   beat, attempts, restarts>>

(* run_logged_session: the log is opened; a source revision that is not    *)
(* the approved one ends the run at once, with its terminal marker.        *)
OpenLog(s) ==
    /\ session[s] = "launching"
    /\ \/ session' = [session EXCEPT ![s] = "no log"] /\ UNCHANGED <<newest, beat>>
       \/ \E outcome \in {"running", "terminal"} :
              /\ session' = [session EXCEPT ![s] = outcome]
              /\ newest' = s /\ beat' = "none"
    /\ UNCHANGED <<stage, runner, mutex, started, completed, audit, attempts, restarts>>

(* The session returns at the close, returns without having seen it, or    *)
(* ends with another terminal marker.                                      *)
EndSession(s) ==
    /\ session[s] = "running"
    /\ \E outcome \in {"complete", "short", "terminal"} :
           /\ outcome = "complete" => stage >= Closed
           /\ session' = [session EXCEPT ![s] = outcome]
    /\ UNCHANGED <<stage, runner, mutex, started, completed, audit, newest,
                   beat, attempts, restarts>>

Beats(s) ==
    /\ session[s] = "running" /\ newest = s /\ beat # "fresh"
    /\ beat' = "fresh"
    /\ UNCHANGED <<stage, runner, mutex, started, completed, audit, session,
                   newest, attempts, restarts>>

(* Longer than the heartbeat timeout passes without another. *)
BeatAges ==
    /\ beat = "fresh" /\ beat' = "stale"
    /\ UNCHANGED <<stage, runner, mutex, started, completed, audit, session,
                   newest, attempts, restarts>>

(* Slip: only the success marker is looked for in the log. *)
ReconciledShort(s) == session[s] \in {"complete", "short"}

(* Both canonical markers are in the log. *)
Reconciled(s) == session[s] = "complete"

Logged == {s \in Sessions : session[s] \notin {"none", "launching", "no log"}}

(* The runner reads the exit code and the log of its day number that was   *)
(* written last, which may be another session's, and moves the completion  *)
(* receipt into place.                                                     *)
Finish(r) ==
    /\ runner[r] = "waiting" /\ session[r] \notin {"launching", "running"}
    /\ IF session[r] \notin {"complete", "short"}
       THEN Blocks(r, {"RUNNER_EXIT_CODE"}) /\ UNCHANGED completed
       ELSE \E s \in Logged :
            IF Reconciled(s)
            THEN Goes(r, "done") /\ Releases(r) /\ completed' = TRUE /\ UNCHANGED audit
            ELSE Blocks(r, {}) /\ UNCHANGED completed
    /\ UNCHANGED <<stage, started, session, newest, beat, attempts, restarts>>

Dies(pc) == IF pc \in {"off", "done", "blocked"} THEN pc ELSE "killed"

HostRestart ==
    /\ restarts < MaxRestarts
    /\ restarts' = restarts + 1
    /\ runner' = [r \in Runs |-> Dies(runner[r])]
    /\ session' = [s \in Sessions |->
           IF s \in Alive THEN IF session[s] = "running" THEN "cut off" ELSE "no log"
                          ELSE session[s]]
    /\ mutex' = Nobody
    /\ UNCHANGED <<stage, started, completed, audit, newest, beat, attempts>>

RunnerStep(r) ==
    Plan(r) \/ TimeGuard(r) \/ TakeMutex(r) \/ ProcessGuard(r)
    \/ CreateReceipt(r) \/ Launch(r) \/ Finish(r)

SessionStep(s) == OpenLog(s) \/ EndSession(s) \/ Beats(s)

DayStep ==
    \/ \E r \in Runs : RunnerStep(r)
    \/ \E s \in Sessions : SessionStep(s)
    \/ \E s \in ByHand : LaunchByHand(s)
    \/ BeatAges

DayNext == StagePasses \/ DayStep \/ HostRestart

DaySpec == DayInit /\ [][DayNext]_runnerVars

-----------------------------------------------------------------------------

RunnerSteps == {"off", "planned", "timed", "alone", "guarded", "marked", "waiting",
           "done", "blocked", "killed"}
Outcomes == {"none", "launching", "no log", "running", "complete", "short",
             "terminal", "cut off"}
Lines == {"BLOCKED", "SOURCE REVISION BLOCKED", "PLANNER FAILURE", "RUNNER_EXIT_CODE",
          "WATCHDOG SOURCE MISMATCH"}

RunnerTypeOK ==
    /\ stage \in Early..End
    /\ runner \in [Runs -> RunnerSteps]
    /\ mutex \in Runs \cup {Nobody}
    /\ started \in BOOLEAN /\ completed \in BOOLEAN
    /\ audit \subseteq Lines
    /\ session \in [Sessions -> Outcomes]
    /\ newest \in Sessions \cup {Nobody}
    /\ beat \in {"none", "fresh", "stale"}
    /\ attempts \subseteq Runs
    /\ restarts \in 0..MaxRestarts

(* The runner never makes a second broker-capable attempt on one market    *)
(* date, whatever invocations overlap, fail at a later guard, or follow a  *)
(* restart of the host: the start receipt is created before the launch.    *)
OneAttempt == \A r, q \in attempts : r = q

(* A completion receipt means that the runner made its attempt and that a   *)
(* session ran to the close of the market and returned success, also where *)
(* sessions run by hand leave logs beside it.                              *)
CompletedRanToClose ==
    completed => /\ attempts # {} /\ stage >= Closed
                 /\ \E s \in Logged : session[s] = "complete"
=============================================================================
