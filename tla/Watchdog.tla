------------------------------ MODULE Watchdog ------------------------------
(***************************************************************************)
(* The session watchdog beside the daily runner: a process of its own that *)
(* polls the evidence the runner and the session leave, classifies it,     *)
(* and delivers each alert once per market date, remembering in a ledger   *)
(* file what was delivered.  A post may arrive and its answer be lost, the  *)
(* files it reads and writes may fail it, and the process may die between   *)
(* any two steps, alone or with the host.                                  *)
(***************************************************************************)
EXTENDS DailyRunner, Sequences

CONSTANTS
    MaxFailures, \* bound of the exploration: calls of the watchdog that raise
    MaxLosses    \* bound of the exploration: its deaths, and file accesses that fail

ASSUME WatchdogAssumption == MaxFailures \in Nat /\ MaxLosses \in Nat

Codes == {"planner_failure", "startup_blocked", "source_revision_mismatch",
          "runner_nonzero", "unexpected_terminal", "task_not_started",
          "session_log_missing", "heartbeat_missing", "heartbeat_stale",
          "completion_record_missing", "session_incomplete_after_close"}

VARIABLES
    dog,      \* program counter of the watchdog
    seen,     \* stage of the day at which its last poll took `now'
    todo,     \* events of the poll still to be dispatched, in order
    ledger,   \* codes the ledger file has as delivered
    sent,     \* how often each code reached the destination
    failures, \* calls that raised so far
    losses    \* deaths and failed file accesses so far

dogVars == <<dog, seen, todo, ledger, sent, failures, losses>>

watchVars == <<runnerVars, dogVars>>

HasLog == newest # Nobody
Log == IF HasLog THEN session[newest] ELSE "none"

If(condition, code) == IF condition THEN <<code>> ELSE <<>>

(* Slip: the launch deadline is not waited for. *)
LateStartAlways ==
    IF ~started THEN <<"task_not_started">>
    ELSE If(stage >= Opening /\ ~HasLog, "session_log_missing")

LateStart ==
    IF stage >= StartDeadline /\ ~started THEN <<"task_not_started">>
    ELSE If(started /\ stage >= Opening /\ ~HasLog, "session_log_missing")

(* The text of the newest log, as a poll reads it, is that of an outcome.   *)
Heartbeat(outcome) ==
    IF started /\ HasLog /\ stage \in Opening..Closed /\ outcome \notin {"complete", "terminal"}
    THEN If(beat = "none" \/ outcome = "unread", "heartbeat_missing")
         \o If(beat = "stale" /\ outcome # "unread", "heartbeat_stale")
    ELSE <<>>

Incomplete(outcome) ==
    IF stage >= End /\ (outcome # "complete" \/ ~completed)
    THEN IF outcome = "complete" THEN <<"completion_record_missing">>
                                 ELSE <<"session_incomplete_after_close">>
    ELSE <<>>

(* evaluate_session_health: the events of one poll, in the order in which  *)
(* they are dispatched.                                                    *)
Events(lines, outcome) ==
    If("PLANNER FAILURE" \in lines, "planner_failure")
    \o If("BLOCKED" \in lines, "startup_blocked")
    \o If(lines \cap {"SOURCE REVISION BLOCKED", "WATCHDOG SOURCE MISMATCH"} # {},
          "source_revision_mismatch")
    \o If("RUNNER_EXIT_CODE" \in lines, "runner_nonzero")
    \o If(outcome = "terminal", "unexpected_terminal")
    \o LateStart \o Heartbeat(outcome) \o Incomplete(outcome)

-----------------------------------------------------------------------------

DogInit ==
    /\ dog = "off" /\ seen = Early /\ todo = <<>> /\ ledger = {}
    /\ sent = [c \in Codes |-> 0]
    /\ failures = 0 /\ losses = 0

Fails == failures < MaxFailures /\ failures' = failures + 1
Loses == losses < MaxLosses /\ losses' = losses + 1

(* Watch-LockeanLite.ps1 compares the source with the approved revision and *)
(* goes on all the same.  The market calendar is read first; without it the *)
(* watchdog ends, after one attempt to say so.                              *)
Boot ==
    /\ stage >= Scheduled
    /\ audit' \in {audit, audit \cup {"WATCHDOG SOURCE MISMATCH"}}
    /\ \/ dog' = "polling" /\ UNCHANGED failures
       \/ dog' = "blocked" /\ Fails
    /\ UNCHANGED <<stage, runner, mutex, started, completed, session, newest, beat,
                   attempts, restarts, seen, todo, ledger, sent, losses>>

(* The trigger of the day, the only one; after a death someone must see it. *)
Start == dog = "off" /\ Boot
StartAgain == dog = "dead" /\ Boot

(* A file that cannot be read is taken for an empty one.                   *)
Poll ==
    /\ dog = "polling"
    /\ seen' = stage /\ dog' = "dispatching"
    /\ \/ todo' = Events(audit, Log) /\ UNCHANGED losses
       \/ /\ Loses
          /\ \/ todo' = Events({}, Log)
             \/ HasLog /\ todo' = Events(audit, "unread")
    /\ UNCHANGED <<ledger, sent, failures>>

(* After a pass at or after the close plus the grace the watchdog ends.    *)
EndsPass == IF seen >= End THEN "done" ELSE "sleeping"

(* Every event has been looked at: the pass is over. *)
Sleep ==
    /\ dog = "dispatching" /\ todo = <<>>
    /\ dog' = EndsPass
    /\ UNCHANGED <<seen, todo, ledger, sent, failures, losses>>

Wake ==
    /\ dog = "sleeping" /\ seen < stage
    /\ dog' = "polling"
    /\ UNCHANGED <<seen, todo, ledger, sent, failures, losses>>

Skip ==
    /\ dog = "dispatching" /\ todo # <<>> /\ Head(todo) \in ledger
    /\ todo' = Tail(todo)
    /\ UNCHANGED <<dog, seen, ledger, sent, failures, losses>>

(* delivered() is false: the ledger does not have the code, or could not be *)
(* read and passes for empty.                                              *)
NotDelivered ==
    /\ dog = "dispatching" /\ todo # <<>>
    /\ \/ Head(todo) \notin ledger /\ UNCHANGED losses
       \/ Head(todo) \in ledger /\ Loses

Arrives == sent' = [sent EXCEPT ![Head(todo)] = @ + 1]

GivesUpPass == todo' = <<>> /\ dog' = EndsPass

(* Slip: the ledger is written before the alert is delivered. *)
DeliverRecorded ==
    /\ NotDelivered
    /\ ledger' = ledger \cup {Head(todo)}
    /\ \/ Arrives /\ dog' = "recording" /\ UNCHANGED <<todo, failures>>
       \/ Fails /\ (Arrives \/ UNCHANGED sent) /\ GivesUpPass
    /\ UNCHANGED seen

(* A post that raises leaves the rest of the pass undone; it may have       *)
(* arrived nevertheless, and only its answer be lost.                      *)
Deliver ==
    /\ NotDelivered
    /\ \/ Arrives /\ dog' = "recording" /\ UNCHANGED <<todo, failures>>
       \/ Fails /\ (Arrives \/ UNCHANGED sent) /\ GivesUpPass
    /\ UNCHANGED <<seen, ledger>>

(* Slip: the codes the ledger held before are not kept. *)
WithOnly(code) == {code}

With(code) == ledger \cup {code}

(* AlertLedger.record: a new file replaces the old one, which may have been *)
(* unreadable; or the write fails and the pass ends.                       *)
Record ==
    /\ dog = "recording"
    /\ \/ /\ \/ ledger' = With(Head(todo)) /\ UNCHANGED losses
             \/ ledger' = {Head(todo)} /\ Loses
          /\ todo' = Tail(todo) /\ dog' = "dispatching"
       \/ Loses /\ GivesUpPass /\ UNCHANGED ledger
    /\ UNCHANGED <<seen, sent, failures>>

(* The process is gone.                                                    *)
Gone ==
    /\ dog' = IF dog \in {"off", "blocked", "done"} THEN dog ELSE "dead"
    /\ todo' = <<>>
    /\ UNCHANGED <<seen, ledger, sent, failures>>

Die ==
    /\ dog \in {"polling", "dispatching", "recording", "sleeping"}
    /\ Loses
    /\ Gone

DogStep == Poll \/ Sleep \/ Wake \/ Skip \/ Deliver \/ Record

(* Polls come every two minutes, stages of the day are at least five       *)
(* minutes apart: no stage passes without a poll of a live watchdog, and    *)
(* the trigger is due before the deadline.                                 *)
Waits == \/ dog \in {"done", "blocked", "dead"}
         \/ dog = "off" /\ stage < Scheduled
         \/ dog = "sleeping" /\ seen = stage

WatchInit == DayInit /\ DogInit

WatchNext ==
    \/ StagePasses /\ Waits /\ UNCHANGED dogVars
    \/ DayStep /\ UNCHANGED dogVars
    \/ Start \/ StartAgain
    \/ (DogStep \/ Die) /\ UNCHANGED runnerVars
    \/ HostRestart /\ Gone /\ UNCHANGED losses

WatchSpec == WatchInit /\ [][WatchNext]_watchVars

(* The day goes on, the trigger fires, and a watchdog that runs goes on:    *)
(* nothing starts a dead one again.                                        *)
WatchFairness ==
    /\ WF_watchVars(StagePasses /\ Waits /\ UNCHANGED dogVars)
    /\ WF_watchVars(Start)
    /\ WF_watchVars(DogStep /\ UNCHANGED runnerVars)

WatchFairSpec == WatchSpec /\ WatchFairness

-----------------------------------------------------------------------------

DogTypeOK ==
    /\ dog \in {"off", "polling", "dispatching", "recording", "sleeping", "done",
               "blocked", "dead"}
    /\ seen \in Early..End
    /\ todo \in Seq(Codes)
    /\ ledger \subseteq Codes
    /\ sent \in [Codes -> Nat]
    /\ failures \in 0..MaxFailures /\ losses \in 0..MaxLosses

(* An alert arrives once, and once more at most for every call that raised, *)
(* access to a file that failed, death and restart: whichever answers and   *)
(* ledger entries are lost, no single fault makes an alert keep coming back.*)
RepeatsBounded == \A c \in Codes : sent[c] <= 1 + failures + losses + restarts

(* The ledger never has an alert that nobody received. *)
LedgerIsTrue == \A c \in ledger : sent[c] > 0

(* Nothing is called late, missing or incomplete before its time, whatever  *)
(* could be read of the evidence.                                          *)
AlertsInTime ==
    /\ sent["task_not_started"] > 0 => stage >= StartDeadline
    /\ \A c \in {"session_log_missing", "heartbeat_missing", "heartbeat_stale"} :
           sent[c] > 0 => stage >= Opening /\ started
    /\ \A c \in {"completion_record_missing", "session_incomplete_after_close"} :
           sent[c] > 0 => stage >= End

FaultsLeft == MaxFailures - failures + MaxLosses - losses

Ended == dog \in {"blocked", "dead"}

(* A startup that was blocked is alerted by a watchdog that lives, though   *)
(* deliveries and file accesses fail on the way, as long as fewer of them   *)
(* still do than passes remain: the next pass tries again.  One that found  *)
(* no calendar, or died, promises nothing.                                 *)
BlockedAlerted ==
    ("BLOCKED" \in audit /\ FaultsLeft < End - stage /\ ~Ended)
        ~> (sent["startup_blocked"] > 0 \/ Ended)
=============================================================================
