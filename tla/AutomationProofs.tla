-------------------------- MODULE AutomationProofs --------------------------
(***************************************************************************)
(* Proofs about DailyRunner and Watchdog for any number of invocations,     *)
(* sessions run by hand, restarts, failed deliveries and deaths.            *)
(***************************************************************************)
EXTENDS Watchdog, TLAPS

Stages == {Early, Scheduled, StartDeadline, Opening, Late, Closed, End}

LEMMA StagesAre ==
    /\ Early = 0 /\ Scheduled = 1 /\ StartDeadline = 2 /\ Opening = 3
    /\ Late = 4 /\ Closed = 5 /\ End = 6
  BY DEF Early, Scheduled, StartDeadline, Opening, Late, Closed, End

-----------------------------------------------------------------------------
(* The runner.                                                              *)

BeforeLaunch == {"off", "planned", "timed", "alone", "guarded", "marked"}

(* The invocation that holds the start receipt and will launch, and those   *)
(* that launched: there is one of them, and the receipt says so.            *)
Takers == {r \in Runs : runner[r] = "marked"} \cup attempts

OneTaker ==
    /\ Takers # {} => started
    /\ \A r, q \in Takers : r = q

(* A session of an invocation exists only from its launch; one that ran to  *)
(* the close did so after it.                                               *)
SessionsOk ==
    /\ \A r \in Runs : runner[r] \in BeforeLaunch => session[r] = "none"
    /\ \A r \in Runs : runner[r] = "waiting" => r \in attempts
    /\ \A s \in Sessions : session[s] = "complete" => stage >= Closed

DayInv == RunnerTypeOK /\ OneTaker /\ SessionsOk /\ CompletedRanToClose

LEMMA RunnersInSessions == Runs \subseteq Sessions /\ \A s \in ByHand : s \in Sessions /\ s \notin Runs
  BY RunnerAssumption DEF Sessions

LEMMA InitDay == DayInit => DayInv
<1> SUFFICES ASSUME DayInit PROVE DayInv
  OBVIOUS
<1>1. RunnerTypeOK
  <2>1. stage \in Early..End /\ restarts \in 0..MaxRestarts
    BY StagesAre, RunnerAssumption DEF DayInit
  <2>2. /\ runner \in [Runs -> RunnerSteps]
        /\ session \in [Sessions -> Outcomes]
    BY DEF DayInit, RunnerSteps, Outcomes
  <2> QED
    BY <2>1, <2>2 DEF DayInit, RunnerTypeOK
<1>2. OneTaker
  BY DEF DayInit, OneTaker, Takers
<1>3. SessionsOk
  BY RunnersInSessions DEF DayInit, SessionsOk
<1>4. CompletedRanToClose
  BY DEF DayInit, CompletedRanToClose
<1> QED
  BY <1>1, <1>2, <1>3, <1>4 DEF DayInv

(* A step of an invocation that moves it alone, to a step that neither is    *)
(* marked nor waits, keeps the invariant.                                    *)
Quiet(r, step) ==
    /\ runner' = [runner EXCEPT ![r] = step]
    /\ step \in RunnerSteps \ {"marked", "waiting"}
    /\ step \in BeforeLaunch => runner[r] \in BeforeLaunch
    /\ mutex' \in Runs \cup {Nobody}
    /\ audit' \subseteq Lines
    /\ UNCHANGED <<stage, started, completed, session, newest, beat, attempts, restarts>>

LEMMA QuietKeeps ==
    ASSUME DayInv, NEW r \in Runs, NEW step, Quiet(r, step)
    PROVE  DayInv'
<1>1. RunnerTypeOK'
  BY DEF DayInv, RunnerTypeOK, Quiet
<1>2. \A q \in Runs : runner'[q] = IF q = r THEN step ELSE runner[q]
  BY DEF Quiet, DayInv, RunnerTypeOK
<1>3. Takers' \subseteq Takers /\ started' = started
  BY <1>2 DEF Takers, Quiet
<1>4. OneTaker'
  BY <1>3 DEF OneTaker, DayInv
<1>5. SessionsOk'
  BY <1>2 DEF SessionsOk, DayInv, Quiet
<1>6. CompletedRanToClose'
  BY DEF CompletedRanToClose, DayInv, Quiet, Logged
<1> QED
  BY <1>1, <1>4, <1>5, <1>6 DEF DayInv

LEMMA BlocksIsQuiet ==
    ASSUME DayInv, NEW r \in Runs, NEW lines, lines \subseteq Lines, Blocks(r, lines),
           UNCHANGED <<stage, started, completed, session, newest, beat, attempts, restarts>>
    PROVE  Quiet(r, "blocked")
<1>1. mutex' \in Runs \cup {Nobody}
  BY DEF Blocks, Releases, DayInv, RunnerTypeOK
<1>2. audit' \subseteq Lines
  BY DEF Blocks, DayInv, RunnerTypeOK, Lines
<1> QED
  BY <1>1, <1>2 DEF Blocks, Goes, Quiet, RunnerSteps, BeforeLaunch

LEMMA StepsIsQuiet ==
    ASSUME DayInv, NEW r \in Runs, NEW step, Moves(r, step),
           step \in {"planned", "timed", "guarded", "done"},
           runner[r] \in BeforeLaunch,
           UNCHANGED <<stage, started, completed, session, newest, beat, attempts, restarts>>
    PROVE  Quiet(r, step)
  BY DEF Moves, Goes, Quiet, RunnerSteps, BeforeLaunch, DayInv, RunnerTypeOK

-----------------------------------------------------------------------------
(* The steps that are not quiet.                                            *)

LEMMA CreateKeeps ==
    ASSUME DayInv, NEW r \in Runs, CreateReceipt(r)
    PROVE  DayInv'
<1>1. CASE started
  BY <1>1, BlocksIsQuiet, QuietKeeps DEF CreateReceipt
<1>2. CASE ~ started
  <2>1. /\ runner[r] = "guarded" /\ runner' = [runner EXCEPT ![r] = "marked"]
        /\ started' = TRUE
        /\ UNCHANGED <<mutex, audit, stage, completed, session, newest, beat, attempts, restarts>>
    BY <1>2 DEF CreateReceipt, Moves, Goes
  <2>2. RunnerTypeOK'
    BY <2>1 DEF DayInv, RunnerTypeOK, RunnerSteps
  <2>3. \A q \in Runs : runner'[q] = IF q = r THEN "marked" ELSE runner[q]
    BY <2>1 DEF DayInv, RunnerTypeOK
  <2>4. Takers = {}
    BY <1>2 DEF DayInv, OneTaker
  <2>5. Takers' = {r}
    BY <2>1, <2>3, <2>4 DEF Takers
  <2>6. OneTaker'
    BY <2>1, <2>5 DEF OneTaker
  <2>7. SessionsOk'
    BY <2>1, <2>3 DEF SessionsOk, DayInv, BeforeLaunch
  <2>8. CompletedRanToClose'
    BY <2>1 DEF CompletedRanToClose, DayInv, Logged
  <2> QED
    BY <2>2, <2>6, <2>7, <2>8 DEF DayInv
<1> QED
  BY <1>1, <1>2

LEMMA LaunchKeeps ==
    ASSUME DayInv, NEW r \in Runs, Launch(r)
    PROVE  DayInv'
<1>1. CASE Blocks(r, {}) /\ UNCHANGED <<session, attempts>>
  BY <1>1, BlocksIsQuiet, QuietKeeps DEF Launch
<1>2. CASE /\ Moves(r, "waiting")
           /\ session' = [session EXCEPT ![r] = "launching"]
           /\ attempts' = attempts \cup {r}
  <2>1. /\ runner[r] = "marked" /\ runner' = [runner EXCEPT ![r] = "waiting"]
        /\ session' = [session EXCEPT ![r] = "launching"]
        /\ attempts' = attempts \cup {r}
        /\ UNCHANGED <<mutex, audit, stage, started, completed, newest, beat, restarts>>
    BY <1>2 DEF Launch, Moves, Goes
  <2>2. r \in Sessions /\ session[r] = "none"
    BY <2>1, RunnersInSessions DEF DayInv, SessionsOk, BeforeLaunch
  <2>3. RunnerTypeOK'
    BY <2>1, <2>2 DEF DayInv, RunnerTypeOK, RunnerSteps, Outcomes
  <2>4. /\ \A q \in Runs : runner'[q] = IF q = r THEN "waiting" ELSE runner[q]
        /\ \A s \in Sessions : session'[s] = IF s = r THEN "launching" ELSE session[s]
    BY <2>1 DEF DayInv, RunnerTypeOK
  <2>5. r \in Takers
    BY <2>1 DEF Takers
  <2>6. Takers' \subseteq Takers
    BY <2>1, <2>4, <2>5 DEF Takers
  <2>7. OneTaker'
    BY <2>1, <2>6 DEF OneTaker, DayInv
  <2>8. SessionsOk'
    BY <2>1, <2>4, RunnersInSessions DEF SessionsOk, DayInv, BeforeLaunch
  <2>9. CompletedRanToClose'
    <3>1. \A s \in Logged : session[s] = "complete" => s \in Logged' /\ session'[s] = "complete"
      BY <2>2, <2>4 DEF Logged
    <3> QED
      BY <2>1, <3>1 DEF CompletedRanToClose, DayInv
  <2> QED
    BY <2>3, <2>7, <2>8, <2>9 DEF DayInv
<1> QED
  BY <1>1, <1>2 DEF Launch

LEMMA FinishKeeps ==
    ASSUME DayInv, NEW r \in Runs, Finish(r)
    PROVE  DayInv'
<1>1. runner[r] = "waiting" /\ r \in attempts
  BY DEF Finish, DayInv, SessionsOk
<1>2. CASE \E lines \in SUBSET Lines : Blocks(r, lines) /\ UNCHANGED completed
  BY <1>2, BlocksIsQuiet, QuietKeeps DEF Finish
<1>3. CASE /\ Goes(r, "done") /\ Releases(r) /\ completed' = TRUE /\ UNCHANGED audit
           /\ \E s \in Logged : Reconciled(s)
  <2>1. /\ runner' = [runner EXCEPT ![r] = "done"] /\ completed' = TRUE
        /\ mutex' \in Runs \cup {Nobody}
        /\ UNCHANGED <<audit, stage, started, session, newest, beat, attempts, restarts>>
    BY <1>3 DEF Finish, Goes, Releases, DayInv, RunnerTypeOK
  <2>2. RunnerTypeOK'
    BY <2>1 DEF DayInv, RunnerTypeOK, RunnerSteps
  <2>3. \A q \in Runs : runner'[q] = IF q = r THEN "done" ELSE runner[q]
    BY <2>1 DEF DayInv, RunnerTypeOK
  <2>4. Takers' \subseteq Takers
    BY <2>1, <2>3 DEF Takers
  <2>5. OneTaker'
    BY <2>1, <2>4 DEF OneTaker, DayInv
  <2>6. SessionsOk'
    BY <2>1, <2>3 DEF SessionsOk, DayInv, BeforeLaunch
  <2>7. CompletedRanToClose'
    <3>1. PICK s \in Logged : session[s] = "complete"
      BY <1>3 DEF Reconciled
    <3>2. s \in Sessions /\ stage >= Closed
      BY <3>1 DEF Logged, DayInv, SessionsOk
    <3> QED
      BY <1>1, <2>1, <3>1, <3>2 DEF CompletedRanToClose, Logged
  <2> QED
    BY <2>2, <2>5, <2>6, <2>7 DEF DayInv
<1> QED
  BY <1>2, <1>3 DEF Finish, Lines

LEMMA RunnerKeeps ==
    ASSUME DayInv, NEW r \in Runs, RunnerStep(r)
    PROVE  DayInv'
<1>1. CASE Plan(r)
  <2>1. runner[r] \in BeforeLaunch
    BY <1>1 DEF Plan, BeforeLaunch
  <2>2. CASE Moves(r, "planned") \/ Moves(r, "done")
    BY <1>1, <2>1, <2>2, StepsIsQuiet, QuietKeeps DEF Plan
  <2>3. CASE \E lines \in SUBSET Lines : Blocks(r, lines)
    BY <1>1, <2>3, BlocksIsQuiet, QuietKeeps DEF Plan
  <2> QED
    BY <1>1, <2>2, <2>3 DEF Plan, Lines
<1>2. CASE TimeGuard(r)
  <2>1. runner[r] \in BeforeLaunch
    BY <1>2 DEF TimeGuard, BeforeLaunch
  <2> QED
    BY <1>2, <2>1, StepsIsQuiet, BlocksIsQuiet, QuietKeeps DEF TimeGuard
<1>3. CASE TakeMutex(r)
  <2>1. runner[r] \in BeforeLaunch
    BY <1>3 DEF TakeMutex, BeforeLaunch
  <2>2. CASE Goes(r, "alone") /\ mutex' = r /\ UNCHANGED audit
    <3>1. Quiet(r, "alone")
      BY <1>3, <2>1, <2>2 DEF TakeMutex, Goes, Quiet, RunnerSteps, BeforeLaunch, DayInv, RunnerTypeOK
    <3> QED
      BY <3>1, QuietKeeps
  <2>3. CASE Blocks(r, {})
    BY <1>3, <2>3, BlocksIsQuiet, QuietKeeps DEF TakeMutex
  <2> QED
    BY <1>3, <2>2, <2>3 DEF TakeMutex
<1>4. CASE ProcessGuard(r)
  <2>1. runner[r] \in BeforeLaunch
    BY <1>4 DEF ProcessGuard, BeforeLaunch
  <2> QED
    BY <1>4, <2>1, StepsIsQuiet, BlocksIsQuiet, QuietKeeps DEF ProcessGuard
<1> QED
  BY <1>1, <1>2, <1>3, <1>4, CreateKeeps, LaunchKeeps, FinishKeeps DEF RunnerStep

(* A session's own step: one outcome of one session that was under way, or   *)
(* that is run by hand.                                                      *)
Turn(s, outcome) ==
    /\ session' = [session EXCEPT ![s] = outcome]
    /\ session[s] \in {"launching", "running"} \/ (s \in ByHand /\ session[s] = "none")
    /\ outcome \in Outcomes \ {"none"}
    /\ outcome = "complete" => stage >= Closed
    /\ newest' \in Sessions \cup {Nobody}
    /\ beat' \in {"none", "fresh", "stale"}
    /\ UNCHANGED <<stage, runner, mutex, started, completed, audit, attempts, restarts>>

LEMMA TurnKeeps ==
    ASSUME DayInv, NEW s \in Sessions, NEW outcome, Turn(s, outcome)
    PROVE  DayInv'
<1>1. RunnerTypeOK'
  BY DEF DayInv, RunnerTypeOK, Turn
<1>2. \A u \in Sessions : session'[u] = IF u = s THEN outcome ELSE session[u]
  BY DEF Turn, DayInv, RunnerTypeOK
<1>3. OneTaker'
  BY DEF OneTaker, DayInv, Turn, Takers
<1>4. SessionsOk'
  BY <1>2, RunnersInSessions DEF SessionsOk, DayInv, Turn
<1>5. CompletedRanToClose'
  <2>1. \A u \in Logged : session[u] = "complete" => u \in Logged' /\ session'[u] = "complete"
    BY <1>2 DEF Logged, Turn
  <2> QED
    BY <2>1 DEF CompletedRanToClose, DayInv, Turn
<1> QED
  BY <1>1, <1>3, <1>4, <1>5 DEF DayInv

LEMMA SessionKeeps ==
    ASSUME DayInv, NEW s \in Sessions, SessionStep(s)
    PROVE  DayInv'
<1>a. newest \in Sessions \cup {Nobody} /\ beat \in {"none", "fresh", "stale"}
  BY DEF DayInv, RunnerTypeOK
<1>1. CASE OpenLog(s)
  <2>1. \E outcome : Turn(s, outcome)
    BY <1>1, <1>a DEF OpenLog, Turn, Outcomes
  <2> QED
    BY <2>1, TurnKeeps
<1>2. CASE EndSession(s)
  <2>1. \E outcome : Turn(s, outcome)
    BY <1>2, <1>a DEF EndSession, Turn, Outcomes
  <2> QED
    BY <2>1, TurnKeeps
<1>3. CASE Beats(s)
  BY <1>3 DEF Beats, DayInv, RunnerTypeOK, OneTaker, Takers, SessionsOk, CompletedRanToClose, Logged
<1> QED
  BY <1>1, <1>2, <1>3 DEF SessionStep

LEMMA RestartKeeps == DayInv /\ HostRestart => DayInv'
<1> SUFFICES ASSUME DayInv, HostRestart PROVE DayInv'
  OBVIOUS
<1>1. /\ \A r \in Runs : runner'[r] = Dies(runner[r])
      /\ \A s \in Sessions : session'[s] =
           IF s \in Alive THEN IF session[s] = "running" THEN "cut off" ELSE "no log"
                          ELSE session[s]
      /\ UNCHANGED <<stage, started, completed, audit, newest, beat, attempts>>
  BY DEF HostRestart
<1>2. RunnerTypeOK'
  <2>1. runner' \in [Runs -> RunnerSteps]
    BY DEF HostRestart, Dies, DayInv, RunnerTypeOK, RunnerSteps
  <2>2. session' \in [Sessions -> Outcomes]
    BY DEF HostRestart, DayInv, RunnerTypeOK, Outcomes
  <2>3. restarts' \in 0..MaxRestarts
    <3>1. restarts \in 0..MaxRestarts /\ restarts < MaxRestarts /\ restarts' = restarts + 1
      BY DEF HostRestart, DayInv, RunnerTypeOK
    <3> QED
      BY <3>1, RunnerAssumption
  <2> QED
    BY <1>1, <2>1, <2>2, <2>3 DEF HostRestart, DayInv, RunnerTypeOK
<1>3. OneTaker'
  <2>1. Takers' \subseteq Takers
    BY <1>1 DEF Takers, Dies
  <2> QED
    BY <1>1, <2>1 DEF OneTaker, DayInv
<1>4. SessionsOk'
  BY <1>1, RunnersInSessions DEF SessionsOk, DayInv, Dies, BeforeLaunch, Alive
<1>5. CompletedRanToClose'
  <2>1. \A u \in Logged : session[u] = "complete" => u \in Logged' /\ session'[u] = "complete"
    BY <1>1 DEF Logged, Alive
  <2> QED
    BY <1>1, <2>1 DEF CompletedRanToClose, DayInv
<1> QED
  BY <1>2, <1>3, <1>4, <1>5 DEF DayInv

LEMMA TickKeeps == DayInv /\ StagePasses => DayInv'
<1> SUFFICES ASSUME DayInv, StagePasses PROVE DayInv'
  OBVIOUS
<1>1. /\ stage' = stage + 1 /\ stage \in 0..6 /\ stage' \in 0..6 /\ Closed = 5
      /\ UNCHANGED <<runner, mutex, started, completed, audit, session, newest,
                     beat, attempts, restarts>>
  BY StagesAre DEF StagePasses, DayInv, RunnerTypeOK
<1>2. RunnerTypeOK'
  BY <1>1, StagesAre DEF DayInv, RunnerTypeOK
<1>3. OneTaker'
  BY <1>1 DEF DayInv, OneTaker, Takers
<1>4. stage >= Closed => stage' >= Closed
  BY <1>1
<1>5. SessionsOk'
  BY <1>1, <1>4 DEF DayInv, SessionsOk
<1>6. CompletedRanToClose'
  BY <1>1, <1>4 DEF DayInv, CompletedRanToClose, Logged
<1> QED
  BY <1>2, <1>3, <1>5, <1>6 DEF DayInv

LEMMA DayKeeps == DayInv /\ DayStep => DayInv'
<1> SUFFICES ASSUME DayInv, DayStep PROVE DayInv'
  OBVIOUS
<1>1. CASE \E s \in ByHand : LaunchByHand(s)
  <2>1. PICK s \in ByHand : LaunchByHand(s)
    BY <1>1
  <2>2. Turn(s, "launching")
    BY <2>1 DEF LaunchByHand, Turn, Outcomes, DayInv, RunnerTypeOK
  <2> QED
    BY <2>2, TurnKeeps, RunnersInSessions
<1>2. CASE BeatAges
  BY <1>2 DEF BeatAges, DayInv, RunnerTypeOK, OneTaker, Takers, SessionsOk, CompletedRanToClose, Logged
<1> QED
  BY <1>1, <1>2, RunnerKeeps, SessionKeeps DEF DayStep

LEMMA NextDay == DayInv /\ [DayNext]_runnerVars => DayInv'
<1> SUFFICES ASSUME DayInv, [DayNext]_runnerVars PROVE DayInv'
  OBVIOUS
<1>1. CASE UNCHANGED runnerVars
  BY <1>1 DEF runnerVars, DayInv, RunnerTypeOK, OneTaker, Takers, SessionsOk, CompletedRanToClose, Logged
<1> QED
  BY <1>1, TickKeeps, DayKeeps, RestartKeeps DEF DayNext

(* The runner makes one broker-capable attempt on a market date.            *)
THEOREM AttemptOnce == DaySpec => []OneAttempt
<1>1. DayInv => OneAttempt
  BY DEF DayInv, OneTaker, Takers, OneAttempt
<1> QED
  BY <1>1, InitDay, NextDay, PTL DEF DaySpec

(* A completion receipt stands for a session that ran to the close.         *)
THEOREM CompletionIsTrue == DaySpec => []CompletedRanToClose
<1>1. DayInv => CompletedRanToClose
  BY DEF DayInv
<1> QED
  BY <1>1, InitDay, NextDay, PTL DEF DaySpec

-----------------------------------------------------------------------------
(* The watchdog.                                                            *)

(* The codes that are true of the evidence, as far as time is concerned; a  *)
(* code that has become true remains true.                                  *)
Timely == {c \in Codes :
    /\ c = "task_not_started" => stage >= StartDeadline
    /\ c \in {"session_log_missing", "heartbeat_missing", "heartbeat_stale"}
           => stage >= Opening /\ started
    /\ c \in {"completion_record_missing", "session_incomplete_after_close"}
           => stage >= End}

Faults == failures + losses + restarts

Recording(c) == dog = "recording" /\ c = Head(todo)

(* A code that is neither on the ledger nor being recorded pays for every   *)
(* time it arrived with a fault; one that is has one arrival free.          *)
Counted ==
    \A c \in Codes :
        /\ sent[c] <= 1 + Faults
        /\ c \notin ledger /\ ~Recording(c) => sent[c] <= Faults

DogInv ==
    /\ stage \in Early..End
    /\ failures \in Nat /\ losses \in Nat /\ restarts \in Nat
    /\ todo \in Seq(Timely)
    /\ sent \in [Codes -> Nat]
    /\ dog = "recording" => todo # <<>> /\ sent[Head(todo)] > 0
    /\ ledger \subseteq Codes
    /\ Counted /\ LedgerIsTrue
    /\ \A c \in Codes : sent[c] > 0 => c \in Timely

LEMMA SeqGrows ==
    ASSUME NEW S, NEW T, S \subseteq T, NEW s \in Seq(S)
    PROVE  s \in Seq(T)
  OBVIOUS

LEMMA HeadAndTail ==
    ASSUME NEW S, NEW s \in Seq(S), s # <<>>
    PROVE  Head(s) \in S /\ Tail(s) \in Seq(S)
  OBVIOUS

LEMMA IfIsSeq ==
    ASSUME NEW S, NEW condition \in BOOLEAN, NEW code, condition => code \in S
    PROVE  If(condition, code) \in Seq(S)
  BY DEF If

LEMMA Joined ==
    ASSUME NEW S, NEW s \in Seq(S), NEW t \in Seq(S)
    PROVE  s \o t \in Seq(S)
  OBVIOUS

(* Every event of a poll is true of the hour, whatever the poll reads.      *)
LEMMA EventsTimely ==
    ASSUME stage \in Early..End, NEW lines, NEW outcome
    PROVE  Events(lines, outcome) \in Seq(Timely)
<1> DEFINE Untimed == {"planner_failure", "startup_blocked", "source_revision_mismatch",
                       "runner_nonzero", "unexpected_terminal"}
<1>1. Untimed \subseteq Timely
  BY DEF Timely, Codes
<1>2. LateStart \in Seq(Timely)
  <2>1. CASE stage >= StartDeadline /\ ~ started
    <3>1. "task_not_started" \in Timely
      BY <2>1 DEF Timely, Codes
    <3> QED
      BY <2>1, <3>1 DEF LateStart
  <2>2. CASE ~ (stage >= StartDeadline /\ ~ started)
    <3>1. (started /\ stage >= Opening /\ ~ HasLog) \in BOOLEAN
      OBVIOUS
    <3>2. started /\ stage >= Opening /\ ~ HasLog => "session_log_missing" \in Timely
      BY DEF Timely, Codes
    <3>3. LateStart = If(started /\ stage >= Opening /\ ~ HasLog, "session_log_missing")
      BY <2>2 DEF LateStart
    <3> QED
      BY <3>1, <3>2, <3>3, IfIsSeq
  <2> QED
    BY <2>1, <2>2
<1>3. Heartbeat(outcome) \in Seq(Timely)
  <2>1. CASE started /\ HasLog /\ stage \in Opening..Closed
             /\ outcome \notin {"complete", "terminal"}
    <3>1. {"heartbeat_missing", "heartbeat_stale"} \subseteq Timely
      BY <2>1, StagesAre DEF Timely, Codes
    <3>2. /\ (beat = "none" \/ outcome = "unread") \in BOOLEAN
          /\ (beat = "stale" /\ outcome # "unread") \in BOOLEAN
      OBVIOUS
    <3>3. /\ If(beat = "none" \/ outcome = "unread", "heartbeat_missing") \in Seq(Timely)
          /\ If(beat = "stale" /\ outcome # "unread", "heartbeat_stale") \in Seq(Timely)
      BY <3>1, <3>2, IfIsSeq
    <3> QED
      BY <2>1, <3>3, Joined DEF Heartbeat
  <2>2. CASE ~(started /\ HasLog /\ stage \in Opening..Closed
               /\ outcome \notin {"complete", "terminal"})
    BY <2>2 DEF Heartbeat
  <2> QED
    BY <2>1, <2>2
<1>4. Incomplete(outcome) \in Seq(Timely)
  <2>1. stage >= End => {"completion_record_missing",
                         "session_incomplete_after_close"} \subseteq Timely
    BY StagesAre DEF Timely, Codes
  <2>2. CASE stage >= End
    <3>1. /\ <<"completion_record_missing">> \in Seq(Timely)
          /\ <<"session_incomplete_after_close">> \in Seq(Timely)
      BY <2>1, <2>2
    <3> QED
      BY <3>1 DEF Incomplete
  <2>3. CASE ~(stage >= End)
    BY <2>3 DEF Incomplete
  <2> QED
    BY <2>2, <2>3
<1>5. \A b, c : c \in Untimed => If(b, c) \in Seq(Timely)
  <2> SUFFICES ASSUME NEW b, NEW c \in Untimed PROVE If(b, c) \in Seq(Timely)
    OBVIOUS
  <2>1. <<c>> \in Seq(Timely) /\ <<>> \in Seq(Timely)
    BY <1>1
  <2> QED
    BY Zenon, <2>1 DEF If
<1> DEFINE sourceLines == lines \cap {"SOURCE REVISION BLOCKED", "WATCHDOG SOURCE MISMATCH"}
<1>6. /\ If("PLANNER FAILURE" \in lines, "planner_failure") \in Seq(Timely)
      /\ If("BLOCKED" \in lines, "startup_blocked") \in Seq(Timely)
      /\ If(sourceLines # {}, "source_revision_mismatch") \in Seq(Timely)
      /\ If("RUNNER_EXIT_CODE" \in lines, "runner_nonzero") \in Seq(Timely)
      /\ If(outcome = "terminal", "unexpected_terminal") \in Seq(Timely)
  BY <1>5
<1> HIDE DEF Untimed
<1> QED
  BY <1>2, <1>3, <1>4, <1>6, Joined DEF Events

(* The evidence only grows: a step of the day keeps what is timely.          *)
LEMMA TimelyGrows ==
    ASSUME stage \in Early..End, StagePasses \/ DayStep \/ HostRestart
    PROVE  stage' \in Early..End /\ Timely \subseteq Timely'
<1>1. CASE StagePasses
  <2>1. stage' = stage + 1 /\ started' = started /\ stage' \in Early..End
    BY <1>1, StagesAre DEF StagePasses
  <2> QED
    BY <2>1, StagesAre DEF Timely
<1>2. CASE DayStep
  <2>1. ASSUME NEW r \in Runs, RunnerStep(r) PROVE stage' = stage /\ (started => started')
    <3>1. CASE CreateReceipt(r)
      BY <3>1 DEF CreateReceipt
    <3>2. CASE Plan(r)
      BY Zenon, <3>2 DEF Plan
    <3>5. CASE TimeGuard(r)
      BY Zenon, <3>5 DEF TimeGuard
    <3>6. CASE TakeMutex(r)
      BY Zenon, <3>6 DEF TakeMutex
    <3>7. CASE ProcessGuard(r)
      BY Zenon, <3>7 DEF ProcessGuard
    <3>3. CASE Launch(r)
      BY <3>3 DEF Launch
    <3>4. CASE Finish(r)
      BY <3>4 DEF Finish
    <3> QED
      BY <2>1, <3>1, <3>2, <3>3, <3>4, <3>5, <3>6, <3>7 DEF RunnerStep
  <2>2. ASSUME NEW s \in Sessions, SessionStep(s) PROVE stage' = stage /\ started' = started
    BY <2>2 DEF SessionStep, OpenLog, EndSession, Beats
  <2>3. ASSUME NEW s \in ByHand, LaunchByHand(s) PROVE stage' = stage /\ started' = started
    BY <2>3 DEF LaunchByHand
  <2>4. BeatAges => stage' = stage /\ started' = started
    BY DEF BeatAges
  <2>5. stage' = stage /\ (started => started')
    BY <1>2, <2>1, <2>2, <2>3, <2>4 DEF DayStep
  <2> QED
    BY <2>5 DEF Timely
<1>3. CASE HostRestart
  BY <1>3 DEF HostRestart, Timely
<1> QED
  BY <1>1, <1>2, <1>3

LEMMA InitDog == WatchInit => DogInv
<1> SUFFICES ASSUME WatchInit PROVE DogInv
  OBVIOUS
<1>1. /\ stage = Early /\ dog = "off" /\ todo = <<>> /\ ledger = {}
      /\ sent = [c \in Codes |-> 0] /\ failures = 0 /\ losses = 0 /\ restarts = 0
  BY DEF WatchInit, DayInit, DogInit
<1>2. Early \in Early..End /\ <<>> \in Seq(Timely)
  BY StagesAre
<1>3. Counted
  BY <1>1 DEF Counted, Faults
<1> QED
  BY <1>1, <1>2, <1>3 DEF DogInv, LedgerIsTrue

LEMMA SumIsNat == \A a, b, c \in Nat : a + b + c \in Nat
  OBVIOUS

(* What a step owes that sends nothing and leaves the ledger alone: the     *)
(* code being recorded is given up only for a fault.                        *)
LEMMA QuietDog ==
    ASSUME DogInv, stage' \in Early..End, Timely \subseteq Timely',
           UNCHANGED <<ledger, sent>>, todo' \in Seq(Timely'),
           failures' \in Nat, losses' \in Nat, restarts' \in Nat,
           Faults' >= Faults,
           \/ dog' = "recording" /\ UNCHANGED <<dog, todo>>
           \/ dog' # "recording" /\ (dog = "recording" => Faults' >= Faults + 1)
    PROVE  DogInv'
<1>1. \A c \in Codes : sent[c] \in Nat
  BY DEF DogInv
<1>2. Faults \in Nat /\ Faults' \in Nat
  <2>1. failures \in Nat /\ losses \in Nat /\ restarts \in Nat
    BY DEF DogInv
  <2>2. failures' \in Nat /\ losses' \in Nat /\ restarts' \in Nat
    OBVIOUS
  <2> QED
    BY Zenon, <2>1, <2>2, SumIsNat DEF Faults
<1>3. Counted'
  <2> SUFFICES ASSUME NEW c \in Codes
               PROVE  /\ sent'[c] <= 1 + Faults'
                      /\ c \notin ledger' /\ ~Recording(c)' => sent'[c] <= Faults'
    BY DEF Counted
  <2>1. /\ sent[c] <= 1 + Faults
        /\ c \notin ledger /\ ~Recording(c) => sent[c] <= Faults
    BY DEF DogInv, Counted
  <2>2. Recording(c) => Recording(c)' \/ Faults' >= Faults + 1
    BY DEF Recording
  <2> QED
    BY <1>1, <1>2, <2>1, <2>2
<1>4. dog' = "recording" => todo' # <<>> /\ sent'[Head(todo')] > 0
  BY DEF DogInv
<1>5. LedgerIsTrue'
  BY DEF DogInv, LedgerIsTrue
<1> QED
  BY <1>3, <1>4, <1>5 DEF DogInv

(* A step of the day leaves the watchdog alone.                              *)
LEMMA DayKeepsDog ==
    ASSUME DogInv, StagePasses \/ DayStep, UNCHANGED dogVars
    PROVE  DogInv'
<1>1. stage' \in Early..End /\ Timely \subseteq Timely'
  BY TimelyGrows DEF DogInv
<1>2. UNCHANGED <<dog, todo, ledger, sent, failures, losses>>
  BY DEF dogVars
<1>3. todo' \in Seq(Timely')
  BY <1>1, <1>2, SeqGrows DEF DogInv
<1>4. restarts' = restarts
  <2>1. \A r \in Runs : RunnerStep(r) => restarts' = restarts
    BY DEF RunnerStep, Plan, TimeGuard, TakeMutex, ProcessGuard, CreateReceipt, Launch, Finish
  <2>2. \A s \in Sessions : SessionStep(s) => restarts' = restarts
    BY DEF SessionStep, OpenLog, EndSession, Beats
  <2> QED
    BY <2>1, <2>2 DEF StagePasses, DayStep, LaunchByHand, BeatAges
<1>5. /\ failures' \in Nat /\ losses' \in Nat /\ restarts' \in Nat
      /\ Faults' = Faults /\ Faults \in Nat
  BY <1>2, <1>4 DEF DogInv, Faults
<1> QED
  BY <1>1, <1>2, <1>3, <1>5, QuietDog

LEMMA SameEvidence ==
    ASSUME UNCHANGED runnerVars
    PROVE  Timely' = Timely /\ stage' = stage /\ restarts' = restarts
  BY DEF runnerVars, Timely

(* A fault of the watchdog is one more, and none is forgotten.              *)
LEMMA FaultsGrow ==
    ASSUME DogInv, restarts' = restarts,
           failures' = failures \/ Fails, losses' = losses \/ Loses
    PROVE  /\ failures' \in Nat /\ losses' \in Nat /\ restarts' \in Nat
           /\ Faults \in Nat /\ Faults' \in Nat /\ Faults' >= Faults
           /\ Fails \/ Loses => Faults' >= Faults + 1
           /\ Fails /\ Loses => Faults' >= Faults + 2
  BY DEF DogInv, Fails, Loses, Faults

LEMMA RecordKeeps ==
    ASSUME DogInv, Record, UNCHANGED runnerVars
    PROVE  DogInv'
<1> DEFINE code == Head(todo)
<1>1. /\ dog = "recording" /\ todo # <<>> /\ sent[code] > 0
      /\ UNCHANGED <<sent, failures>> /\ (losses' = losses \/ Loses)
  BY DEF Record, DogInv
<1>2. code \in Timely /\ code \in Codes /\ Tail(todo) \in Seq(Timely)
  BY <1>1, HeadAndTail DEF DogInv, Timely
<1>3. /\ failures' \in Nat /\ losses' \in Nat /\ restarts' \in Nat
      /\ Faults \in Nat /\ Faults' \in Nat /\ Faults' >= Faults
      /\ Loses => Faults' >= Faults + 1
  BY <1>1, FaultsGrow, SameEvidence
<1>a. \A c \in Codes : sent[c] \in Nat /\ sent[c] <= 1 + Faults
  BY DEF DogInv, Counted
<1>b. \A c \in Codes : c \notin ledger /\ c # code => sent[c] <= Faults
  BY <1>1 DEF DogInv, Counted, Recording
<1>4. CASE /\ \/ ledger' = ledger \cup {code} /\ losses' = losses
              \/ ledger' = {code} /\ Loses
           /\ todo' = Tail(todo) /\ dog' = "dispatching"
  <2>1. ledger' \subseteq Codes /\ LedgerIsTrue'
    BY <1>1, <1>2, <1>4 DEF DogInv, LedgerIsTrue
  <2>2. ASSUME NEW c \in Codes
        PROVE  /\ sent'[c] <= 1 + Faults'
               /\ c \notin ledger' => sent'[c] <= Faults'
    BY <1>1, <1>3, <1>4, <1>a, <1>b
  <2>3. Counted'
    BY <2>2 DEF Counted
  <2> QED
    BY <1>1, <1>2, <1>3, <1>4, <2>1, <2>3, SameEvidence DEF DogInv
<1>5. CASE Loses /\ GivesUpPass /\ ledger' = ledger
  <2>1. dog' # "recording" /\ todo' = <<>> /\ <<>> \in Seq(Timely)
    BY <1>5 DEF GivesUpPass, EndsPass
  <2>2. stage' \in Early..End /\ Timely \subseteq Timely' /\ todo' \in Seq(Timely')
    BY <2>1, SameEvidence DEF DogInv
  <2> QED
    BY <1>1, <1>3, <1>5, <2>1, <2>2, QuietDog
<1> QED
  BY <1>4, <1>5 DEF Record, With

LEMMA DeliverKeeps ==
    ASSUME DogInv, Deliver, UNCHANGED runnerVars
    PROVE  DogInv'
<1> DEFINE code == Head(todo)
<1>1. /\ dog = "dispatching" /\ todo # <<>> /\ UNCHANGED ledger
      /\ (code \notin ledger /\ losses' = losses) \/ (code \in ledger /\ Loses)
      /\ failures' = failures \/ Fails
  BY DEF Deliver, NotDelivered
<1>2. code \in Timely /\ code \in Codes
  BY <1>1, HeadAndTail DEF DogInv, Timely
<1>3. /\ failures' \in Nat /\ losses' \in Nat /\ restarts' \in Nat
      /\ Faults \in Nat /\ Faults' \in Nat /\ Faults' >= Faults
      /\ Fails \/ Loses => Faults' >= Faults + 1
      /\ Fails /\ Loses => Faults' >= Faults + 2
  BY <1>1, FaultsGrow, SameEvidence
<1>a. \A c \in Codes : /\ sent[c] \in Nat /\ sent[c] <= 1 + Faults
                       /\ c \notin ledger => sent[c] <= Faults
  BY <1>1 DEF DogInv, Counted, Recording
<1>4. CASE Arrives
  <2>1. /\ sent' \in [Codes -> Nat]
        /\ \A c \in Codes : sent'[c] = IF c = code THEN sent[c] + 1 ELSE sent[c]
    BY <1>2, <1>4 DEF DogInv, Arrives
  <2>2. LedgerIsTrue' /\ sent'[code] > 0
    BY <1>1, <1>2, <1>a, <2>1 DEF LedgerIsTrue, DogInv
  <2>3. CASE dog' = "recording" /\ UNCHANGED <<todo, failures>>
    <3>1. ASSUME NEW c \in Codes
          PROVE  /\ sent'[c] <= 1 + Faults'
                 /\ c \notin ledger' /\ c # code => sent'[c] <= Faults'
      <4>1. sent[c] \in Nat /\ sent[c] <= 1 + Faults /\ (c \notin ledger => sent[c] <= Faults)
        BY <1>a
      <4>2. CASE c = code
        <5>1. sent'[c] = sent[c] + 1
          BY <2>1, <4>2
        <5>2. c \notin ledger \/ Faults' >= Faults + 1
          BY <1>1, <1>3, <4>2
        <5> QED
          BY <1>3, <4>1, <4>2, <5>1, <5>2
      <4>3. CASE c # code
        <5>1. sent'[c] = sent[c] /\ ledger' = ledger
          BY <1>1, <2>1, <4>3
        <5> QED
          BY <1>3, <4>1, <5>1
      <4> QED
        BY <4>2, <4>3
    <3>2. Counted'
      BY <2>3, <3>1 DEF Counted, Recording
    <3> QED
      BY <1>1, <1>2, <1>3, <2>1, <2>2, <2>3, <3>2, SameEvidence DEF DogInv
  <2>4. CASE Fails /\ GivesUpPass
    <3>1. ASSUME NEW c \in Codes
          PROVE  /\ sent'[c] <= 1 + Faults'
                 /\ c \notin ledger' => sent'[c] <= Faults'
      <4>1. sent[c] \in Nat /\ sent[c] <= 1 + Faults /\ (c \notin ledger => sent[c] <= Faults)
        BY <1>a
      <4>2. Faults' >= Faults + 1 /\ ledger' = ledger
        BY <1>1, <1>3, <2>4
      <4>3. CASE c = code
        <5>1. sent'[c] = sent[c] + 1
          BY <2>1, <4>3
        <5>2. c \notin ledger \/ Faults' >= Faults + 2
          BY <1>1, <1>3, <2>4, <4>3
        <5> QED
          BY <1>3, <4>1, <4>2, <5>1, <5>2
      <4>4. CASE c # code
        <5>1. sent'[c] = sent[c]
          BY <2>1, <4>4
        <5> QED
          BY <1>3, <4>1, <4>2, <5>1
      <4> QED
        BY <4>3, <4>4
    <3>2. Counted'
      BY <3>1 DEF Counted
    <3>3. dog' # "recording" /\ todo' = <<>> /\ <<>> \in Seq(Timely)
      BY <2>4 DEF GivesUpPass, EndsPass
    <3> QED
      BY <1>1, <1>2, <1>3, <2>1, <2>2, <3>2, <3>3, SameEvidence DEF DogInv
  <2> QED
    BY <2>3, <2>4 DEF Deliver
<1>5. CASE Fails /\ UNCHANGED sent /\ GivesUpPass
  <2>1. dog' # "recording" /\ todo' = <<>> /\ <<>> \in Seq(Timely)
    BY <1>5 DEF GivesUpPass, EndsPass
  <2>2. stage' \in Early..End /\ Timely \subseteq Timely' /\ todo' \in Seq(Timely')
    BY <2>1, SameEvidence DEF DogInv
  <2> QED
    BY <1>1, <1>3, <1>5, <2>1, <2>2, QuietDog
<1> QED
  BY <1>4, <1>5 DEF Deliver

(* The process is gone, for one more fault, without having done more.       *)
LEMMA GoneKeeps ==
    ASSUME DogInv, Gone, stage' \in Early..End, Timely \subseteq Timely',
           \/ Loses /\ restarts' = restarts
           \/ UNCHANGED losses /\ restarts' = restarts + 1
    PROVE  DogInv'
<1>1. dog' # "recording" /\ todo' = <<>> /\ UNCHANGED <<ledger, sent, failures>>
  BY DEF Gone
<1>2. /\ failures' \in Nat /\ losses' \in Nat /\ restarts' \in Nat
      /\ Faults \in Nat /\ Faults' \in Nat /\ Faults' >= Faults + 1
  BY <1>1 DEF Loses, DogInv, Faults
<1>3. todo' \in Seq(Timely')
  BY <1>1
<1> QED
  BY <1>1, <1>2, <1>3, QuietDog

LEMMA DogKeeps ==
    ASSUME DogInv, DogStep \/ Die, UNCHANGED runnerVars
    PROVE  DogInv'
<1>0. stage' \in Early..End /\ Timely' = Timely /\ restarts' = restarts
  BY SameEvidence DEF DogInv
<1>q. ASSUME dog # "recording", dog' # "recording", todo' \in Seq(Timely),
             UNCHANGED <<ledger, sent, failures>>, losses' = losses \/ Loses
      PROVE  DogInv'
  <2>1. /\ failures' \in Nat /\ losses' \in Nat /\ restarts' \in Nat
        /\ Faults' >= Faults
    BY <1>0, <1>q, FaultsGrow
  <2>2. Timely \subseteq Timely' /\ todo' \in Seq(Timely')
    BY <1>0, <1>q
  <2> QED
    BY <1>0, <1>q, <2>1, <2>2, QuietDog
<1>2. CASE Poll
  <2>1. \A lines, outcome : Events(lines, outcome) \in Seq(Timely)
    BY EventsTimely DEF DogInv
  <2> QED
    BY <1>2, <1>q, <2>1 DEF Poll
<1>3. CASE Sleep
  BY <1>3, <1>q DEF Sleep, EndsPass, DogInv
<1>4. CASE Wake
  BY <1>4, <1>q DEF Wake, DogInv
<1>5. CASE Skip
  <2>1. Tail(todo) \in Seq(Timely)
    BY <1>5, HeadAndTail DEF Skip, DogInv
  <2> QED
    BY <1>5, <1>q, <2>1 DEF Skip
<1>6. CASE Die
  BY <1>0, <1>6, GoneKeeps DEF Die
<1> QED
  BY <1>2, <1>3, <1>4, <1>5, <1>6, RecordKeeps, DeliverKeeps DEF DogStep

LEMMA BootKeeps ==
    ASSUME DogInv, Start \/ StartAgain
    PROVE  DogInv'
<1>1. /\ UNCHANGED <<stage, started, restarts, todo, ledger, sent, losses>>
      /\ dog \in {"off", "dead"} /\ dog' \in {"polling", "blocked"}
      /\ failures' = failures \/ Fails
  BY DEF Start, StartAgain, Boot
<1>2. Timely' = Timely
  BY <1>1 DEF Timely
<1>3. /\ failures' \in Nat /\ losses' \in Nat /\ restarts' \in Nat
      /\ Faults' >= Faults
  BY <1>1, FaultsGrow
<1>4. stage' \in Early..End /\ Timely \subseteq Timely' /\ todo' \in Seq(Timely')
  BY <1>1, <1>2 DEF DogInv
<1> QED
  BY <1>1, <1>3, <1>4, QuietDog

LEMMA NextDog == DogInv /\ [WatchNext]_watchVars => DogInv'
<1> SUFFICES ASSUME DogInv, [WatchNext]_watchVars PROVE DogInv'
  OBVIOUS
<1>1. CASE UNCHANGED watchVars
  BY <1>1
     DEF watchVars, runnerVars, dogVars, DogInv, Counted, Faults, Recording,
         LedgerIsTrue, Timely
<1>2. CASE HostRestart /\ Gone /\ UNCHANGED losses
  <2>1. stage' \in Early..End /\ Timely \subseteq Timely'
    BY <1>2, TimelyGrows DEF DogInv
  <2>2. restarts' = restarts + 1
    BY <1>2 DEF HostRestart
  <2> QED
    BY <1>2, <2>1, <2>2, GoneKeeps
<1> QED
  BY <1>1, <1>2, DayKeepsDog, DogKeeps, BootKeeps DEF WatchNext

(* All the watchdog does to the day is to add a line to its audit.          *)
LEMMA WatchKeepsDay == DayInv /\ [WatchNext]_watchVars => DayInv'
<1> SUFFICES ASSUME DayInv, [WatchNext]_watchVars PROVE DayInv'
  OBVIOUS
<1>1. CASE [DayNext]_runnerVars
  BY <1>1, NextDay
<1>2. CASE Start \/ StartAgain
  <2>1. /\ UNCHANGED <<stage, runner, mutex, started, completed, session, newest,
                       beat, attempts, restarts>>
        /\ audit' \in {audit, audit \cup {"WATCHDOG SOURCE MISMATCH"}}
    BY <1>2 DEF Start, StartAgain, Boot
  <2>2. RunnerTypeOK'
    BY <2>1 DEF DayInv, RunnerTypeOK, Lines
  <2> QED
    BY <2>1, <2>2
       DEF DayInv, OneTaker, Takers, SessionsOk, CompletedRanToClose, Logged
<1> QED
  BY <1>1, <1>2 DEF WatchNext, DayNext, watchVars, runnerVars

(* Beside the watchdog, which adds a line to the audit, the runner still     *)
(* makes one attempt and its completion receipt still tells the truth.      *)
THEOREM WatchedDay == WatchSpec => [](OneAttempt /\ CompletedRanToClose)
<1>1. WatchInit => DayInv
  BY InitDay DEF WatchInit
<1>2. DayInv => OneAttempt /\ CompletedRanToClose
  BY DEF DayInv, OneTaker, Takers, OneAttempt
<1> QED
  BY <1>1, <1>2, WatchKeepsDay, PTL DEF WatchSpec

(* An alert arrives once, and once more at most for every call that raised, *)
(* access to a file that failed, death and restart, for any number of them: *)
(* a lost answer or ledger entry costs one repetition (dispatch_new_alerts, *)
(* AlertLedger).                                                            *)
THEOREM AlertsRepeatForFaults == WatchSpec => []RepeatsBounded
<1>1. DogInv => RepeatsBounded
  <2> SUFFICES ASSUME DogInv, NEW c \in Codes
               PROVE  sent[c] <= 1 + failures + losses + restarts
    BY DEF RepeatsBounded
  <2>1. sent[c] <= 1 + (failures + losses + restarts) /\ sent[c] \in Nat
        /\ failures \in Nat /\ losses \in Nat /\ restarts \in Nat
    BY DEF DogInv, Counted, Faults
  <2> QED
    BY <2>1
<1> QED
  BY <1>1, InitDog, NextDog, PTL DEF WatchSpec

(* The ledger names only alerts that somebody received.                     *)
THEOREM LedgerSaysSent == WatchSpec => []LedgerIsTrue
<1>1. DogInv => LedgerIsTrue
  BY DEF DogInv
<1> QED
  BY <1>1, InitDog, NextDog, PTL DEF WatchSpec

(* None of the six timed alerts, of a start, a log, a heartbeat, a receipt  *)
(* or a session that is missing, is delivered before its time.              *)
THEOREM AlertedInTime == WatchSpec => []AlertsInTime
<1>1. DogInv => AlertsInTime
  BY DEF DogInv, AlertsInTime, Timely, Codes
<1> QED
  BY <1>1, InitDog, NextDog, PTL DEF WatchSpec
=============================================================================
