# Lockean Lite: specification and proofs

Lockean Lite trades one- and two-leg option verticals on an Alpaca **paper**
account. One Python process (`autonomous_session.py`) loops every 30 seconds
over broker reads, exit management, entry maintenance, a portfolio gate and, no
more often than every 15 minutes, an entry cycle that asks a model for a trade
and submits it. The broker fills, cancels and expires orders between any two of
the process's calls, and nothing makes two of its reads consistent with each
other. That, and the process being killed and started again, is the core of this
project. Around it stand what decides an entry (market signals, authority,
receipts, gateway), what closes a spread (the exit cycle, its prices and the
basis it recovers), the Windows automation that starts one session a day and
watches it, the cached VIX history, and the trust lifecycle of the evidence
research.

Paths below are relative to the Python package `src/src/lockean_lite/`.

## 1. Inventory

| Part | State it keeps | Operations | What makes it correct | Hard because |
|---|---|---|---|---|
| Alpaca account (external) | positions, open and closed orders, clock | accept, fill (exits in part), replace, cancel, expire | answers each call with its state at that call | acts between any two calls; a reply can be lost |
| Session loop, `autonomous_session.py` | entry cadence, cooldown, `market_has_opened`, latched ineligibility (memory only) | one iteration: clock, snapshot, loss state, exits, clean-up, maintenance, gate, cycle, sleep | risk management is never suspended, entries are spaced, cut-off and halts hold | error path at every call; timers count slept time only; restarts forget them |
| Snapshot and gate, `paper_portfolio_snapshot.py`, `portfolio_gate.py` | none (a value) | read positions, read open orders, count committed units | exposure is never under-counted | two calls, torn in between |
| Session loss loop, `session_loss_loop_policy.py` | none (rebuilt from closed orders) | read stop fills, capacity left, blocked direction | no more units are stopped out than the limit | fills land between the read and the submission |
| Entry maintenance, `pending_entry_manager.py` | none | cancel stale entries | one working entry, and it resolves | the cancel races the fill |
| Entry policy, `entry_portfolio_policy.py` | none | compare a proposal with the cycle's snapshot | per-vertical limit | the snapshot is older than the submission; units are counted in positions paired anew |
| Entry cycle, `autonomous_cycle.py`, `production_runtime.py` | none | propose, re-read, re-check, submit | never submits on authority that has gone | the model call takes minutes |
| Exit cycle, `position_exit_manager.py` | none | reconcile history, maintain stale exits, quote, pick a candidate, submit | never closes what is not held, reaches the stop-loss check, prices within what was seen | part fills, stale orders, several spreads, one action per iteration, trigger known by price alone |
| Basis recovery, `filled_spread_basis.py` | none | first-in first-out lots from filled orders, comparison with positions | what is managed is what is held | limited history, unclear orders, shared legs |
| Authority, receipts, gateway, `lockean_authority.py`, `authorization_receipt.py`, `execution_gateway.py` | none | price, authorise, issue, verify, resolve, submit | no submission without a fresh, matching receipt within the limits | expiry between issue and use; failures after the model was asked |
| Automation, `automation/`, `session_launcher.py`, `ops/windows/` | log files, audit, alert ledger, start and completion receipts | plan the day, launch once, watch the heartbeat, deliver and record alerts | at most one attempt a day, no alert untrue or endlessly repeated, a blocked start reported | crash between an effect and its record; lost replies; files that cannot be read; other processes write the evidence |
| Trust lifecycle, `research/trust_lifecycle.py`, `signed_approvals.py`, `evidence_admission.py` | controller, policy, revocations, checkpoint | bootstrap, activate, rotate, revoke, supersede, admit | no approval outlives its authority | long sequences, stale checkpoints, clocks read before the lock |
| VIX history, `vix_history_source.py` | last body | fetch or serve from cache | never serves past its age | age at the boundary, clock steps back, bodies that do not parse |
| Market signals and gate, `intraday_market_context.py`, `agent_market_context.py`, `profit_first_entry_policy.py` | none | minute horizons, directions, reward-to-risk | what is measured is what is named | missing minutes, the open, rounding |
| AI provider, adapters | none | one request, one answer | failures are counted and raised | modelled as far as their answers go (`EntryAuthority`) |
| Other research, reports, dashboard | none | checks of one document; rendering | - | not modelled, see 5 |

The parts interact by calls only. The session calls the exit cycle, the
maintenance and the entry cycle in a fixed order; they share nothing but the
snapshot of the iteration and the account. The entry cycle reads the account
again for itself. The runner, the session and the watchdog are processes that
share only files: receipts, audit, log and ledger.

## 2. Modules

| Module | Models | Notes |
|---|---|---|
| `PaperBroker` | the account | external; a unit is one spread contract |
| `PaperSession` | the session loop, gate, loss loop, maintenance, entry cycle, and the control of the exit cycle | extends `PaperBroker`; one action per broker call |
| `StopBudgetLedger` | what the loss-loop policy promises, with no loop in it | abstract specification |
| `MCPaperSession` | instances for TLC | used by every `.cfg` of the session |
| `PaperSessionProofs` | type correctness; exits are covered and sent once | TLAPS |
| `StopBudgetProofs` | the stop budget and the refinement of the ledger for a limit of one; entry spacing; one session: working entries, the bound of an untangled vertical, the budget and the ledger for any limit | TLAPS |
| `ExitPricing` | target, stop and limit prices in cents | operators only; percentages multiplied out |
| `ExitManager` | the exit cycle with quotes, call by call | extends `ExitPricing` |
| `ExitProofs` | prices tell triggers, limits within what was seen, exits within what is held, types | TLAPS |
| `SpreadBasis` | order history, recovered lots, reconciliation with positions; the exit cycle's reads and its submission | recursive functions over the history, sums |
| `BasisProofs` | recovered lots, positions, managed spreads and exits, for every history | TLAPS |
| `EntryAuthority` | the entry cycle from preflight to submission, with receipts and time | one action per outside call |
| `AuthorityLedger` | what authority and gateway promise of a receipt | abstract specification |
| `EntryProofs` | orders within authority, requests counted, types; refinement of the ledger | TLAPS |
| `EntrySignals` | minute bars, horizons, profit-first gate | |
| `DailyRunner` | one market date of `Run-LockeanLite.ps1` and the sessions it or the operator starts | |
| `Watchdog` | `session_watchdog.py` beside them | extends `DailyRunner` |
| `AutomationProofs` | one attempt, true receipts, true alerts | TLAPS |
| `VixCache` | the cached history, and its age | |
| `EvidenceProofs` | age of the cached history, what a horizon measures, the ratio that is retained, types; the parts of `MCAuthority` together | TLAPS, extends `TrustProofs`, `EntryProofs` |
| `EvidenceAdmission` | the two verdicts on an approval | operators only |
| `TrustLifecycle` | store, callers, transitions, admissions | extends `EvidenceAdmission` |
| `RevocationLedger` | what the lifecycle promises of keys | abstract specification |
| `TrustProofs` | keys, versions, checkpoint, admissions; refinement of the ledger | TLAPS |
| `MCExitCycle` | instances of `ExitManager` and of `SpreadBasis` | in the run `exit_cycle` |
| `MCWatchdog` | a watched and an unwatched day | in the run `automation` |
| `MCAuthority` | instances of `TrustLifecycle` (two), `EntryAuthority`, `EntrySignals` and `VixCache` | in the run `authority` |

The last three explore several instances in one run. A variable chosen in the
initial state (`part`, `watched`) says which instance a behaviour is of. The
modules joined in `MCExitCycle` and `MCAuthority` share no variable, and those of
the other parts stay as they began, so the states are those of the parts side by
side and no part restricts another. `exit_floor_order` runs `ExitManager` as it
is.

`PaperSession` and `ExitManager` share the exit cycle between them: the former
has its torn snapshot, its place in the session and every account race, with the
exit a choice; the latter takes one atomic snapshot and a loop around the cycle,
and has the quotes, prices and order of work. `PaperSession` and
`EntryAuthority` divide the entry cycle the same way.

### How the session's state corresponds to the code

- `pc` names the broker (or model) call the session makes next. What the code
  computes between two calls belongs to the step of the call before it, so every
  point where the account can change between two statements is a state.
- `checkIn` and `cooldown` are `next_entry_check_at - elapsed_seconds` and
  `entry_cooldown_until - elapsed_seconds`, never below zero since the code only
  compares them with zero. They move in `Sleep` only, as `elapsed_seconds` does.
  Broker-side ages also grow in `Delay`, which stands for a slow call.
- `view` is the snapshot an iteration (or the entry cycle) works with, in the two
  pieces it is read in; `loss` is the loss-loop state it read.
- `st`, `at`, `age`, `exit` are the account. `"sold"` is a unit filled in an exit
  order that is still open: it has left the positions, but is not yet in the
  closed-order history the loss loop and the basis recovery read.
- `lastSent` is a history variable for `EntrySpacing`; the code has no such state.

| Action | Code |
|---|---|
| `ReadPositions`, `ReadOrders` | top of the iteration: clock, `read_live_paper_portfolio_snapshot`, waiting for the open, completion, cut-off, risk-only clean-up |
| `ReadLossState` | `read_session_loss_loop_state`, loss-loop clean-up |
| `CancelNext` | each `cancel_order_by_id` of a clean-up or of the maintenance |
| `ExitCheck`, `ExitCheckBlind`, `CancelExits`, `SubmitExit` | `run_paper_spread_exit_cycle`: its decision, a history or quote that cannot be had, `_cancel_stale_exit_orders` call by call, the submission |
| `MaintainEntries` | `maintain_pending_entry_orders`, due and cooldown tests, `evaluate_portfolio_entry` |
| `Propose` ... `SubmitEntry` | `run_production_autonomous_cycle` and `run_autonomous_trade_cycle` |
| `Sleep`, `Delay`, `Restart` | `sleep_fn`, slow calls, a killed process started again by hand |

The clock call that opens an iteration is merged with the positions call: no
decision is taken between the two.

`PolicyAllows` counts what `identify_managed_debit_spreads` finds of the proposed
vertical in the positions: longs from the lowest strike, each paired with its
nearest short. That is not what was bought of it. Of calls, units around the
vertical and units inside it trade legs with it; of puts, those that lie across
one of its strikes (`CallUnits`, `PutUnits`). These closed forms are of verticals
that share no contract (`ApartAssumption`), where the pairing function of the
source was compared with them on random inventories; shared contracts are the
subject of `SpreadBasis`. With no shared contract, the policy's refusal of a leg
held the other way round cannot arise.

An entry or exit in `Undated` shows no submission time, and is then never stale
(`pending_entry_manager.py:51`). `ExitCheckBlind`, an exit check without a
history or a quote, is always possible and has no bound.

### The other modules

- **`ExitManager`.** `lots`, `order`, `quote`, `foreign` are the account and the
  market; `view` is what the cycle read, `todo` the spreads it has left,
  `found` the credits it was quoted, `job` the order it is about to send.
  `kind`, `basis` and `seen` of an order are history: the code reads back legs,
  limit and age only. One action is one call (`Snapshot`, `MaintainQuote`,
  `Replace`, `MaintainCancel`, `CancelAll`, `QuoteNext`, `Submit`) or one branch
  without a call (`MaintainAtFloor`). `Raise` is any call that fails. Decimal
  arithmetic is exact here; the code's has 28 digits. A cancel takes effect at
  once (`PaperSession` has it delayed).
- **`SpreadBasis`.** `log` is every order of the account and `reading` what the
  cycle has read: positions (`ReadPositions`), then open orders (`ReadOrders`),
  then the history (`ReadHistory`), then it sends (`SendExit`) on those three
  reads, with any change of the account between them. `Room` bounds a run: orders
  are submitted while there are fewer than `MaxOrders`, and a cycle under way
  keeps one of them for its exit. Positions, the window of closed orders, recovered lots and managed spreads are
  functions of it, as they are in the code. An order may be `open`, unclear (no
  position intents), show its average price, its limit or neither, or not be a
  two-leg order at all.
- **`EntryAuthority`.** `step` names the next outside call; `clock` may advance before each.
  `asked` and `counted` are the model's requests and the session's count.
- **`DailyRunner`.** The day is seven stages at the times the scripts compare
  with. A `runner` step is one stage of the script's `$stage`; `session` is a
  session as its log shows it; `HostRestart` kills every process and frees the
  mutex, and takes the watchdog down as well.
- **`Watchdog`** adds the process `dog`, the poll's events `todo`, the `ledger`
  file and, as history, `sent`. A post may arrive and its reply be lost
  (`notification.py:108` raises all the same), a file that cannot be read passes
  for an empty one, so a ledger entry can be overlooked and the ledger be
  overwritten with one code (`AlertLedger._load`). The trigger fires once a day
  (`Install-LockeanLiteAutomation.ps1:117-126`: a weekly trigger per weekday, no
  restart on failure): a watchdog that died stays dead unless the operator starts
  it (`StartAgain`), and the day does not wait for it. It waits for a live one's
  poll in each stage only: polls come every two minutes, stages are five minutes
  apart or more. `LOCKEAN_NOTIFICATION_WEBHOOK` that is missing is a delivery that
  always raises.
- **`VixCache`.** `wall` is what `now_fn` returns, `real` true time, which the
  code cannot see; `born` and `old` are history.
- **`TrustLifecycle`.** A caller's reads of state, checkpoint and clock are
  steps of their own; `Advance` is the body of the lock. A state is its own
  identity and a key its own fingerprint, so a hash never collides; a signature
  is the name of its signer. A caller's clock tells a time that has been.
- **`EntrySignals`.** `bars` is what the feed has; every minute may leave one
  out. Percentages count by their sign.

## 3. What is checked

Constants: `Units` units that may ever be ordered, thresholds in ticks of one
risk interval, `MaxFaults` failing calls, `MaxRestarts` restarts. Ages saturate
at the threshold they are compared with, so the saturation loses nothing.

| Run | Question | Result |
|---|---|---|
| `launcher` | limits as in `session_launcher.py` (1 stop fill, 1 open spread, 1 unit per vertical); any start mode, foreign orders, a slow call anywhere, one fault, one restart | `TypeOK`, `StopBudget`, `OneStopInv`, `ImplementsLedger` hold |
| `spacing` | two stop fills allowed, three units, one session, one lost reply, slow calls in the cycle | `StopBudget`, `SingleWorkingEntry`, `UntangledBound`, `EntrySpacing` hold |
| `liveness` | two units of one vertical, one without a submission time, part fills, stale exits, both start modes, a restart, orders of unknown purpose, quotes unavailable at any time, fair scheduling | `ExitCovered`, `NoDoubleClose`, `WorkingEntryResolves`, `RiskCheckRecurs` hold |
| `stop_budget_part_fill` | `StopBudget`, limit three, two units in one vertical, one session without a fault | violated |
| `same_structure` | `SameStructureBound`, two calls one inside the other, one session | violated |
| `open_spreads_torn` | `OpenExposureBound`, stop limit above the open-spread limit, one session | violated |
| `cutoff_entry` | `NoEntryInCutoff` | violated |
| `risk_suspended` | `RiskNeverSuspended` under the same fairness, an order of unknown purpose | violated |
| `exit_cycle` | two verticals, up to two lots, four quotes of which one is missing, part fills, repricing, a fault; and a history of four orders read through a window of three, one unclear order, legs closed outside | `TypeOK`, `PriceTellsTrigger`, `LimitWithinSeen`, `UnattendedLossExits`, `StaleStopResolves`, `ManagedIsHeld`, `HeldIsManaged`, `ExitsWhatIsHeld` hold |
| `exit_floor_order` | `StopLossReached`, one spread | violated |
| `automation` | two overlapping invocations, a session by hand and a host restart, with no watchdog; one invocation with a watchdog: a post that raises, whether it arrived or not, a death, a file that cannot be read or written | `OneAttempt`, `CompletedRanToClose`, `RepeatsBounded`, `LedgerIsTrue`, `AlertsInTime`, `BlockedAlerted` hold |
| `authority`, trust | three keys, one of which expires, six policies, four states, packages, reviews and envelopes wrong in one thing each; two callers racing to the third state | `RetiredStaysOut`, `OneVersionOnePolicy`, `ImplementsLedger`, `CheckpointNarrows`, `AdmissionOfCheckpoint`, `AdmittedIsVouched` hold |
| `authority`, entry | two calls and two puts, three raw quotes, two cycles, four ticks, a failure of any call | `OrdersAuthorized`, `CountedWereAsked`, `ImplementsAuthority` hold |
| `authority`, signals | horizons of two and three minutes over five, one bar before the open, any minute missing | `HorizonHasPassed`, `HorizonIsMinutes` hold |
| `authority`, history | maximum age two, five kinds of body, clock stepped back up to two, restarts | `ServedWithinAge` holds |
| `authority`, all four | the types of every part | `TypesOK` holds |

Bounds. In the session, two units show every pair race with a limit of one; three are needed for
limit two and for two entries in flight; four for a part-filled stop beside a torn
snapshot. Two verticals of opposite direction let the blocked direction and the
per-vertical policy differ from the global counts. Faults are bounded by one
because every failing call ends its iteration with nothing kept but the timers.
In `liveness` there is none: the state after a lost reply of an exit is that of a
reply that came, a lost reply of an entry is a submission with the process
restarted at once, and calls that raise now and then do not change what recurs;
what could go on raising, the history and the quotes of the exit check, is
`ExitCheckBlind` and is not bounded. Its two units of one vertical are sold by an
exit that can fill in part; `ExitsCovered` and `ExitsOnce` prove its two safety
properties for any number of units, verticals, faults and restarts.
The order of the thresholds is the launcher's: entry interval at least the entry
timeout, cooldown longer than the interval. (`liveness` and `risk_suspended` have
no cooldown and an entry timeout above the interval, so that two entries may work
at once. An exit's timeout is longer than one risk interval everywhere.)

Elsewhere: a debit of 11 puts the target at 14.3, between two cents, which is
where rounding could go wrong, and the quotes lie below the stop-loss, at the
target and above it; two spreads are what one may keep from the other. A window
of three orders of four cuts between an entry and its exit and between two
entries of one vertical; two verticals that share a leg are the smallest set in
which a leg does not tell the spread, and each has the other leg to itself; sets
in which a vertical has none are covered by the proofs, which hold for any. Two cycles show a receipt of one being used
in another. Two invocations and a session by hand let one fail at a guard while
the other is under way. The watched instance has one invocation, no host restart
and no source mismatch found by `Watch-LockeanLite.ps1` (`Shown` leaves these
steps out): the proofs have them. Three keys let one come back after another replaced it;
four states are a bootstrap, an activation and two policy changes, and the third
is the first at which a caller's reading can be behind a policy change. Horizons
of two and three minutes stand for 15 and 30: nothing but their order is used.

Fairness. In the session, `WF(SessionStep)`: the loop has no exit but the close, every call it
makes returns or raises, and `sleep_fn` returns. `WF` of cancelling an order
whose cancel was requested or whose day has ended: the broker honours both. Fills,
the market clock, restarts and slow calls get no fairness. In `ExitManager`,
`WF(CycleStep)` alone: the session's loop runs the cycle again and its calls
return or raise, finitely often; the broker and the quotes owe nothing. In
`Watchdog`, the day goes on, its one trigger fires, and a watchdog that runs goes
on; nothing starts a dead one again, and the runner and the session owe nothing.
`BlockedAlerted` therefore speaks of a watchdog that lives: it supposes that fewer
of its calls and files still fail than passes remain before the last one, and that
the market calendar could be read. Each pass retries what the one before it did
not deliver, and the last has no successor. `WorkingEntryResolves` supposes that
orders of unknown purpose stop appearing and that the exit check, which comes
before the maintenance, sees its history and quotes in the end (`ChecksSee`): the
code cancels nothing otherwise. `UnattendedLossExits` supposes that closing orders
are not dropped by the broker for ever (`SeldomDropped`; a day order expires once).
`StaleStopResolves` allows for a
quote of another spread that cannot be had, which is the one thing that may keep
a stale stop-loss waiting (see below).

### The disagreements found

- **`stop_budget_part_fill`.** Stopped units are counted from orders with status
  CLOSED (`session_loss_loop_policy.py:103`), exposed ones from positions. A unit
  filled in a stop exit that is still open is in neither. In the run a vertical
  holds two units under a limit of three, a third fills between the two reads of
  the gate's snapshot (`paper_portfolio_snapshot.py:328`: positions first, then
  orders) and is missed there, one unit of the stop exit fills, and the recheck
  before the submission counts two where there are three. No restart and no fault
  is needed, but a vertical of two units is: with one unit in a vertical there is
  nothing to fill in part, and the budget is proved below. (With restarts, torn
  snapshots alone are enough, since two entries may be working.)
- **`same_structure`.** The units of a vertical are counted among spreads paired
  anew from net positions (`entry_portfolio_policy.py:126`,
  `position_exit_manager.py:163-320`). Holding calls 1/4 and 2/3 the pairing finds
  1/3 and 2/4, none of 1/4 is counted, and a second unit of it passes a limit of
  one, in one session and without a fault. A restart is a second way: an entry of
  the earlier session fills between the two reads of the cycle's snapshot.
  `UntangledBound` says which verticals keep the limit in one session.
- **`risk_suspended`.** An order of unknown purpose makes a clean-up of entries
  raise before it cancels anything (`autonomous_session.py:106`), and after any
  clean-up the iteration ends before the exit check (`autonomous_session.py:433-558`).
  While such an order is open beside an entry, under a halt or in risk-only mode,
  no iteration looks at a stop-loss, against the comment at lines 560-562.
  `RiskCheckRecurs` says that this is the only way.
- **`open_spreads_torn`.** The open-spread limit is compared with the gate's
  snapshot only. An entry that fills between its two reads is not counted, and
  the recheck before the submission compares the stop capacity alone. One session
  is enough, if the stop limit is above the open-spread limit.
- **`cutoff_entry`.** The cut-off is computed once at the top of an iteration;
  the model call may take the submission across it.
- **`exit_floor_order`.** A take-profit order standing at its floor is neither
  cancelled nor repriced, and a spread with a working exit is not priced. If the
  market then falls, the stop-loss is not sent until the day order expires. Being
  stale in every cycle it also ends every cycle before another spread is priced
  (`position_exit_manager.py:1200`); `UnattendedLossExits` excuses that.

With the launcher's own limits none of the first three (the stop budget, the
vertical and the open spreads) can happen: the limit of
one stop fill admits nothing while anything is exposed, and that is proved below.

### Seen while modelling, in prose only

These are properties of the code that the model contains and that shaped the
statements above; no run is kept for them.

- Maintenance ends at the first stale exit that needs a call or cannot be quoted
  (`position_exit_manager.py:835`), so a take-profit whose quote stays away keeps
  a stale stop-loss order of another spread from being cancelled. It is the
  exception in `StaleStopResolves`.
- The VIX cache keeps the last body that was answered, valid or not
  (`vix_history_source.py:74`).
- The reconciliation compares net legs (`position_exit_manager.py:513`), which do
  not always tell the spreads. Take call verticals over {1, 2}, {0, 2} and {1, 3}:
  if {1, 2} was closed leg by leg, the other two were bought by orders without
  position intents and the recovery still counts {1, 2}, the legs it predicts are
  those that are held, for the other two are long 1 and short 2 as well. {1, 2} is
  then managed and is not what is held. So `ManagedIsHeld` speaks of a vertical
  that has a leg to itself, whatever the history, or of any vertical where
  nothing is left out of the history (`OwnLeg`, `Plain`).
- The exit cycle sends on positions read before orders, loss state, history and
  quotes, and reads nothing again. `ExitsWhatIsHeld` says that this order of reads
  is safe against the account's own orders; legs closed by hand in between are
  sold again (`position_exit_manager.py:1310-1341`), and a history that leaves
  orders out is no proof either.
- The gateway's check is followed by two contract look-ups before the order is
  submitted (`execution_gateway.py:91-116`), and a receipt may lapse during them
  and is spent all the same, though `src/README.md:107` says that expiry is
  verified immediately before submission. `AuthorityLedger` promises a receipt
  that was alive at the check, not at the submission.
- `profit_first_entry_policy.py:147-151` says that at least the configured ratio is
  retained; line 131 rounds to a thousandth before it compares, so 77990/52010,
  which is 1.49952, passes a minimum of 1.50. `RatioKept` proves what the code does
  keep, the ratio to within half a thousandth; no run checks it.
- Only the recommendation call puts its request count on the exception it raises
  (`autonomous_cycle.py:135`): `CountedWereAsked` says that what is counted was
  asked, and the converse does not hold.
- The guards are the runner's; a session started by hand passes neither, so two
  may run side by side.
- The only pass that can find a session incomplete after the close is the last
  one (`session_watchdog.py:388`), whose failed delivery nobody retries.
- `OneAttempt` counts attempts of the runner. A completion receipt rests on the one
  log of the day, which a session run by hand may have written.
- Horizons count bars, not minutes, so after a gap they reach further back than
  their name; `HorizonIsMinutes` says when they do not, and nothing bounds by how
  much they may.
- Cancelling several stale exits stops at the first call that raises
  (`position_exit_manager.py:752`); the next iteration finds the others again.
- A watchdog that dies, or whose host has no webhook, reports nothing, and nobody
  starts it again before the next weekday.

## 4. What is proved

Every theorem is for arbitrary units, verticals, faults, restarts, quotes, keys
and so on. What it assumes of the constants is the ASSUME of its module
(thresholds are naturals, sets are finite where they are counted, there is a
vertical), and where that is not enough a hypothesis of the theorem itself.

The session, `PaperSessionProofs`, `StopBudgetProofs`:

- `TypeCorrect`: `Spec => []TypeOK`. `TypeOK` is not inductive by itself:
  `SubmitEntry` writes `proposal` into the account, so `TypeInv` adds that there
  is a proposed structure from the model's answer to the submission.
- `ExitsCovered`, `ExitsOnce`: `ExitCovered` and `NoDoubleClose`, for every
  instance. Neither says why an exit planned from an older snapshot still fits
  when it is sent. `CoverInv` does: units sold in an open exit belong to a
  vertical that has an exit order; a vertical the snapshot saw without an exit
  still has none, since the session alone sends them; and in such a vertical
  units can only be added, so the plan made of the positions read is within what
  is held.
- `OneStopInvariant`, `OneStopBudget`: with `MaxStops = 1`, `Spec => []StopBudget`.
  `StopBudget` says nothing about what the session has read, so it cannot be
  inductive. `OneStopInv` adds it: at most one unit is exposed at all; no exit
  order covers more than one, hence none is ever half filled; from the orders
  read to the gate the working entries are in the snapshot; in the entry cycle
  nothing is working, so what is held is in the positions read; at the submission
  nothing is exposed. A snapshot within a capacity of one is empty (`WithinOne`),
  which is where the gate and the recheck are used. Faults and restarts included.
- `OneStopLedger`: with `MaxStops = 1`, `Spec => ImplementsLedger`. Every step of
  the account and of the session is `Admit`, `Release`, `Stop` or a stutter.
- `EntriesSpaced`: `EntrySpacing`, for all thresholds. `SpacingInv`: what has
  passed since the last entry and what `checkIn` and `cooldown` still hold back
  add up to the interval and the cooldown, and in the entry cycle they hold back
  nothing.
- `WorkingEntriesFew`, `OneEntryWorks`: with `EntryTimeout <= Interval` and entries
  that all show their submission time (`Undated \cap Units = {}`) no more
  entries work than the session was started, and `SingleWorkingEntry` for one
  start. An entry younger than the timeout escapes the maintenance; of those each
  start has at most the one it sent last (`YoungFew`), and the gate lets an
  iteration into the cycle only when the older ones are gone (`FewWorking`).
- `VerticalBound`: one start, same assumptions, `UntangledBound` for any limit.
  Nothing works while the cycle runs, so its snapshot misses nothing
  (`HeldKnown`); of an untangled vertical the pairing finds no fewer units than
  are held (`CallsCounted`, `PutsCounted`), and the room it leaves is still there
  (`RoomLeft`).
- `SessionBudget`, `SessionLedger`: one start, the same and `MaxSame = 1` and
  `NoneTangled` (no two verticals trade contracts): `StopBudget` and
  `ImplementsLedger` for any stop limit. Since a vertical then takes one unit,
  nothing is filled in part (`NoneSold`), and capacity found by the recheck is
  still there at the submission (`CapacityLeft`).

`EntryTimeout <= Interval` is what the launcher's settings say, `MaxRestarts = 0`
is one start of the process; that orders are dated and verticals untangled is a
restriction of the account. `same_structure` shows that the per-vertical bound
needs untangled verticals and `stop_budget_part_fill` that the budget needs one
unit in a vertical: for limits above one the session's claims are false without
them.

The other parts:

- `ExitProofs`, from `PricingAssumption` and `ExitAssumption` (thresholds and
  concession naturals, not both thresholds zero). The lemmas are about prices:
  the target is the least whole cent that earns the return (`TargetIsLeast`),
  a credit on the stop side lies below it (`StopBelowTarget`), and a take-profit
  limit is at least the target and at most the credit (`LimitKeepsReturn`).
  The invariant adds that what is about to be sent (`job`) has these properties
  with respect to the lots in `view`, and that found credits are the ones seen.
  `PricesTell` and `LimitsWithinSeen` follow. `ExitsWithinHeld`: a working exit
  has something left to sell and is for no more lots than are held. `HeldInv`
  adds what makes it so: a spread the cycle goes through for a new exit has none
  working, and its lots can only have grown since they were read
  (`ReadStillHeld`). `ExitTypesKept` rests on it, since a fill takes lots away.
- `EntryProofs`, from `AuthorityAssumption`. `EntryInv` ties what the cycle
  holds to its `step`: the proposal is priced and of this cycle from the policies
  on, the account of this cycle from the decision on, the receipt bound to the
  proposal and within both limits from the verification on; and orders are of
  cycles before this one, or of this one after it has ended. `ReceiptsImplemented`
  maps every step to `Grant`, `Check`, `Spend`, `Void` or a stutter by the table
  of stages (`StageTable`). `EntryTypesKept` says that nothing is held outside
  those steps (`HeldTypes`). `RequestsCounted` needs `OneToCount`: from the
  request to the end of its cycle one request is still to be counted, whichever
  way the cycle ends.
- `EvidenceProofs`, from `CacheAssumption` and `SignalsAssumption`. `CacheInv`
  adds that the wall clock and true time differ by what was stepped back, at the
  time a body was cached and at the time a read began, in that order.
  `RoundingIsHalf` bounds what half-even rounding gives away. The two theorems
  about horizons choose a bar by its rank, which looks like an induction; they
  are proved by counting instead: n bars after a bar lie in as many different
  minutes, so at least n minutes have passed (`BarsTakeMinutes`), and with no
  minute missing no more.
  `PartsApart` says that a behaviour the run `authority` explores is one of each
  of its four parts, so that what is proved of a part holds there;
  `AllTypesKept` (`TypesOK`) follows from `TrustTypes`, `EntryTypesKept`,
  `SignalTypes` and `CacheTypes`.
- `AutomationProofs`, from `RunnerAssumption` and `WatchdogAssumption`.
  `OneAttempt` is not inductive: `DayInv` adds that an attempt leaves a start
  receipt, and that at most one invocation is past creating it. `DogInv` adds
  that events waiting to be dispatched are true of the evidence that has been
  reached, that what is being recorded was sent, and (`Counted`) that a code was
  sent no more often than there were faults, and once more only if it is in the
  ledger or being recorded: from it `AlertsRepeatForFaults`. `WatchedDay` carries
  the properties of the runner to a day with a watchdog beside it, which adds a
  line to the audit and fires no step of the runner.
- `TrustProofs`, from `TrustAssumption`. `RetiredStaysOut` needs that every key
  ever held is in the state or its ledger; `OneVersionOnePolicy` needs `OneLine`:
  accepted policies are one line of versions up to the present one, with one id.
  `AdmittedByTrustedKey` is about the signer of the envelope, which the check of
  the signature ties to the key it names. `CheckpointNarrows` and the two admission theorems are about single steps from
  typed states; `LedgerImplemented` maps transitions to `Root` and `Change`.

- `BasisProofs`, from `BasisAssumption` (finitely many structures of two
  contracts, whole strikes, debits between one and the limit). What the recovery
  computes is defined by recursion over the history and the positions are sums
  over it. The library's induction theorems cannot be cited for either, so the
  module brings its own, which do not take an operator: `SubsetInduction` is for
  a set of subsets of a finite set and rests on the well-foundedness of strict
  inclusion, `PrefixInduction` is the case of the subsets `1..k`, and
  `PrefixRecursion` says that a step function has its iterates. From them come
  the laws of a sum over a finite set (`SumLaws`, `SumAdd`, `SumSubset` and so
  on) and the equations of the recovery and of what was bought, order by order.
  - `AccountTypes`: `BasisTypes`, the kinds of orders and their fills.
  - `RecoveredAreNewest`, for every history: the lots recovered of a spread are
    as many as some of the newest ever bought of it, each at no less than it
    cost. The induction is over the orders, and its statement (`Known`) adds
    that nothing is counted before the window begins: what is older is
    lost to the recovery. `PositionIsHeld`: the positions are the sum over the
    spreads of what is held of each, an exchange of two sums.
  - `ManagedSpreadsAreHeld`: `ManagedIsHeld`, for every set of structures. A
    vertical with a contract that no other order was about is compared on that
    contract alone (`OwnLegCounts`), whatever the window cut off or the broker left
    out. In a plain history recovered lots can only exceed what is held, by what
    working exits have sold. Of the contracts of all spreads in excess take the
    highest (of puts, the lowest) strike: every one of them is short in it, so
    their excesses cannot cancel, and the positions show the difference
    (`PlainManagedCounts`). Debit verticals make no ring.
  - `ExitsAreCovered`, the invariant of the exits. `CoverInv`: in a plain history
    every exit was sent for no more than the orders before it have left, and one
    at a time. `ReadInv` says of each point of a cycle what its reads still know:
    a spread that had no exit when the orders were read has none, since the cycle
    alone sends them; what its history showed is still held, and can only have
    grown. `ExitsAreOfWhatIsHeld` is its step
    at the submission.
  - `HeldSpreadsAreManaged`: `HeldIsManaged`, for every set of structures. It is
    not inductive, for it does not say why an exit that fills is counted by the
    recovery in full; `CoverInv` does.

Every safety invariant, action property and refinement of the passing runs is
stated by one of these theorems; where a theorem has hypotheses beyond its
module's ASSUME they are named above. Model-checked only are the properties under
fairness, which are out of the prover's reach: `WorkingEntryResolves`,
`RiskCheckRecurs`, `UnattendedLossExits`, `StaleStopResolves`, `BlockedAlerted`.

## 5. Not modelled

- The daily filters of `market_entry_policy.py` (averages, RSI, breakout) and the
  evidence checks that feed them: one formula over one list, entering as one
  verdict; and the other exits of the code that are formulas of this kind.
- `provenance_qualification.py`, `empirical_readiness.py`, `data_validation.py`,
  `data_contracts.py`: validation of one document field by field, without state.
- Reports, dashboard, scorecard: read-only rendering.
- The text of prompts, answers, logs, webhooks and files; contract symbols and
  order identifiers; signatures and hashes, which are equality here.
- The exit cycle's compatibility path for injected bases, which its comment says
  production does not take, and `max_iterations`, a test parameter.
- Entry orders have one contract (`autonomous_cycle.py` refuses any other
  quantity), so an entry does not fill in part.
- Malformed records of the trust lifecycle, and a transition past the expiry its
  own signer chose.
- A watchdog that is still running after midnight, and the one attempt it makes to
  say that it could not read the calendar.
- An entry order's leg conflict with a position held the other way round: verticals
  of `PaperSession` share no contract.

## 6. What is left

1. A refinement between `ExitManager` and the exit part of `PaperSession`, so
   that the choice the latter makes is known to include every price decision.
2. The daily filters, if they ever keep state from one cycle to the next.
