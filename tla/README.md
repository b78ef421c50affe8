# Verification of AaltoFlow

AaltoFlow drives a laboratory: every instrument is a *module* with a service
process that owns the hardware, any number of GUIs and scripts on any PC talk to
it over ZeroMQ, and scans are run over all of them, by a suite window, a script,
or a headless scan server with a queue.  What can go wrong is rarely in one
function.  It is in the order of things: two PCs and two scans asking for the
same instrument, a window that dies holding control, a fault in the middle of a
row, an Abort that arrives while one thread goes from one step to the next, a
reading that was taken before the setpoint it is compared with.

This directory holds TLA+ modules of the places where these orders are decided,
from the request of a scan to the instrument it moves, with the TLC
configurations that check them and machine-checked proofs of what matters most.
Paths below are relative to the repository root.

Contents: [1 the system](#1-the-system) ·
[2 modules](#2-the-modules) ·
[3 the control lease](#3-the-control-lease) ·
[4 the claims of a scan](#4-the-claims-of-a-scan) ·
[5 the scan server](#5-the-scan-server) ·
[6 the scan engine](#6-the-scan-engine) ·
[7 fly scans](#7-fly-scans) ·
[8 an instrument and its sweeps](#8-an-instrument-and-its-sweeps) ·
[9 proofs](#9-proofs) ·
[10 where the code departs from what it says](#10-where-the-code-departs-from-what-it-says) ·
[11 what is not modelled](#11-what-is-not-modelled) ·
[12 plan](#12-plan) · [13 running](#13-running)

## 1 The system

### Components

| component | code | state it keeps | operations | model |
|---|---|---|---|---|
| Control lease | `suite-common/src/suite_common/control.py` | holder and since when heard, scan claim and since when heard, `by_scan`, list of clients | `heartbeat`, `take_control` (force), `release_control`, `claim_scan`, `release_scan`, the gate every other command passes, `status` | `ControlLease` |
| Instrument client and lab | `scan_core/instrument.py`, `lab.py` | REQ socket under one lock, heartbeat thread, what is claimed | command with timeout and rebuilt socket, claim all or none, release | `ScanClaims` |
| Scan server | `scan_core/scan_server.py` | queue `_entries`, position `_qi`, flags busy / open / stopping / abort / pause, fault and question banners, results; threads runner, commander, publisher, shutdown waiter | submit, queue_add / remove / move, abort, stop_queue, pause / resume, answer_pause, shutdown, stop | `ScanServer`, `ScanQueue` |
| Scan engine | `scan_core/engine.py` | claims, which dims are set, arrays, guard, checkpoints | run: fixed values, allocation, points, holds, re-measuring, ends, release | `Engine`, `Odometer`; as its server sees it in `ScanServer` |
| Routines | `scan_core/hooks.py` | the step a routine is at | before / after a scan, an axis value, a sweep, a point; pause, abort_if, skip_if | when they run and how they leave, in `Engine`; the pause step in `ScanServer` |
| Scout pass | `scan_core/scout.py` | mask, visiting record | a coarse pass with its own settings, before a scan or an outer step | `Engine`, `Odometer` |
| Fly scans | `scan_core/flyscan.py` | readback of the last row, speed in force, direction of a driven stage, row buffers | approach, run-in, outer knobs, flight, check, redo, way back | `FlyRows` |
| Instrument modules | `modules/environment/tc200-control`, `suite_common/softramp.py` | setpoint, output, "reached", sweep and its thread | set, ramp, stop, on / off, poll, shutdown | `Heater` |
| Follower | `scan_server.py`, `suite_common/follow.py` | the launcher's record, registry and policy in force | refresh_limits, follow_once | not modelled |
| Hardware lock | `suite_common/hwlock.py` | lock file and the holder's note | claim, release, held | not modelled |
| Autosave, continuation | `scan_core/autosave.py`, `continuation.py` | the file on disk, the checkpoint | write beside and rename, resume | not modelled |
| Wire security | `suite_common/secure.py`, `keyadmin.py` | keys, policy, open or locked mode | load, switch mode, resend | not modelled |
| Recipe, catalogue, units, expressions | `scan_core/recipe.py` … | none (pure data) | parse, plan, preview | not modelled |
| Windows, predictors | `scan_core/windows.py` … | numerical state | floating-point algorithms | not modelled |
| Mission Control | `mission-control/mission_control.py` | child processes | start, stop, supervise | its clean stop only |
| The other instrument modules | `modules/*/*` | controllers, drivers, simulators | one template, one vendor driver each | their shared parts above |
| Settings, bundles, front ends, notebooks, installer, tools | … | files, widgets | read, write, show | not modelled |

### How they interact

```
 GUI / script ──REQ──┐                                   ┌── PUB status ──> every GUI
                     ├──> instrument service: ControlLease gate ──> controller ──> box
 scan engine ──REQ───┘    (ControlLease)                  (Heater: commander, poll
   (ScanClaims: claims, heartbeats, timeouts)              thread, sweeps, main)
   (Engine, FlyRows: points, rows, faults, routines)
      ^
      │ callbacks: should_abort, hold, on_fault, ask, on_row
 scan server: commander thread ── lock ── runner thread ── shutdown waiter
   (ScanServer, ScanQueue)
      ^
 watcher clients ──REQ (submit, edits, abort, answers) / PUB (status, live)
```

- A service's command loop hands **every** request to `ControlLease.handle`
  before its own verbs; the publisher thread calls `ControlLease.status`, which
  also expires silent clients.
- A scan engine is a client of the leases: it claims all its instruments before
  a scan and releases them after it; a heartbeat thread per connection keeps the
  claim alive through the same socket and the same lock as the scan's commands.
- The engine calls the fly sweep instead of its odometer when the innermost axis
  is flown; both use the same guard for faults and the operator's Pause.
- The scan server's commander and runner share the fields of one object under
  one lock.  Three requests (`submit`, `queue_add`, `answer_pause`) leave the lock
  in the middle.  The engine knows the server only through callbacks that read
  flags (`_abort`, `_user_pause`) and set banners.
- Inside a service the commander, the poll thread, a sweep's thread and the main
  thread share the instrument under one lock (`_hw`) and what is known of it under
  another (`_lock`).

### What is hard here, and what makes each part correct

- **Lease.** Requests of several PCs in any order, silence instead of a release,
  a scan and a person on one PC, two scans.  Correct: control and claims change
  hands only by the deliberate acts; whoever drives the instrument is on show;
  what a dead program held is free again.
- **Claims.** A claim that was carried out after its client gave up; a release
  that arrives after the next scan's claim; heartbeats behind a long command, or
  decided on before the release they follow; half of the instruments refused.
  Correct: a running scan keeps its claims, a scan that does not run leaves
  nothing behind it that lasts.
- **Scan server.** Edits racing the runner; one Abort flag for all scans of a
  queue; answers to questions that are gone; Abort, Stop and shutdown during every
  kind of wait.  Correct: no scan twice, none skipped; an Abort ends its own scan;
  an accepted scan runs; a stop is final; an exit does not lose data.
- **Engine.** A fault, a failing call, a Pause and an Abort at every step of a
  point, which is then measured again from a state nobody wrote down.  Correct:
  every value kept was read where its slot says; no point is lost; routines run as
  often as they should, on every end.
- **Fly scans.** The same, while a knob moves on its own, and other axes,
  routines and people may move it too.  Correct: a row kept is one flight from its
  own end; nothing that can be stopped goes on moving or recording; the speed is put
  back.
- **Instrument.** A poll that began before a command; a sweep's step between a stop
  and the next set; a shutdown while a sweep is starting.  Correct: the setpoint
  shown is the box's; "reached" is about this setpoint; a stopped sweep sends
  nothing; the heater is off in the end.

`PROJECT.json` lists the hazards one by one, at their lines, with the properties
that would catch them going wrong, or the reason why none does.

## 2 The modules

| module | what it is |
|---|---|
| `ControlLease` | the lease of one instrument service |
| `MCControlLease` | clients and PCs for TLC |
| `ControlLeaseProofs` | theorems about `ControlLease` |
| `ScanClaims` | scans, connections and services: composes one `ControlLease` per instrument with the clients that claim it |
| `MCScanClaims`, `ScanClaimsProofs` | two suites, two instruments; theorems about `ScanClaims` |
| `ScanQueue` | abstract: what the server promises to those who submit scans |
| `ScanServer` | the server, in the detail of its critical sections; implements `ScanQueue` |
| `MCScanServer`, `ScanServerProofs` | the server for TLC; theorems about `ScanServer` |
| `Odometer`, `OdometerProofs` | pure: the order in which a grid is visited, sweeps, coarse points; what it does for every shape |
| `Engine`, `MCEngine`, `EngineProofs` | one run of one scan; small recipes; theorems about `Engine` |
| `FlyRows`, `MCFlyRows`, `FlyRowsProofs` | one fly scan; small scans of each kind of flight; theorems about `FlyRows` |
| `NaturalsLemmas` | least and greatest elements, and induction over a set, for the proof modules |
| `Heater`, `HeaterProofs` | the service of a temperature controller with its software ramp; theorems about it |

Definitions whose comment begins with "Wrong:" are not used by any
specification.  Each is a plausible slip in the code next to it (a dropped guard,
`<=` for `<`, a forgotten reset) and is listed in `PROJECT.json` under
`mutants` with the property that notices it when it takes that definition's
place.

## 3 The control lease

`lease` is the `ControlLease` object, `up` the client programs still alive,
`driver` a history variable.

| TLA+ | `control.py` |
|---|---|
| `lease.holder`, `.byScan`, `.holderAge` | `_holder`, `_by_scan`, now − `_holder_seen` |
| `lease.scan`, `.scanAge` | `_scan`, now − `_scan_seen` |
| `lease.listed`, `.heard`, `.changed` | `_clients` and each entry's last-heard and last-changed times |
| `Expire`, `Seen` | `_expire`, `_seen`: run at the start of every request, in this order |
| `Heartbeat`, `TakeControl`, `ReleaseControl`, `ClaimScan`, `ReleaseScan` | the verbs of `handle` |
| `Write` | any other command, through the gate |
| `Status` | `status()`, called by the publisher thread |
| `Tick`, `Crash` | time; a client that ends without a word |

Times are kept as *ages* that stop growing just above the limit they are
compared with: `>` is all the code asks of them.  An action is one call of
`handle`, which holds the object's lock from beginning to end.

**Run `lease`**: two PCs with a GUI and a scan engine each; all times one tick.
`LeaseMeasuresSilence` says that the ages the code compares are the silence of
the holder's whole PC and of the scanning client (they are refreshed by
different people in different branches); `ByScanOnlyDuringScan`, that control a
scan took for itself never outlives the claim; `ControlMovesDeliberately`, that
control changes hands only by release, a forced take, silence, or the end of a
scan; `OneScanAtATime`, that a claim in force passes to nobody; `MovesAreShown`,
that a machine that changed the instrument within `DRIVING_S` is on the status's
client list, marked as driving, whatever was asked of the service and whomever it
has forgotten since (the mark lives in the client's entry, and the entry goes by
another clock); `DeadLockNothing`, that a PC or a scan that died without a word
loses control and claim.  That the gate lets nobody else through is what `Passes`
*is*, guard for guard, and no property repeats it.

*Bounds.*  Two PCs with a person and a scan engine each are enough for every
distinction the code makes: same client, same PC, other PC, with and without
claim, person or machine.  With the times at one tick an age is fresh, at the
limit or beyond it: the three cases `>` can tell apart.  The proofs have no such bounds.

*Fairness.*  `WF(Tick)` and `WF(Status)`: time passes, and the publisher of a
running service keeps publishing, which expires the silent.  Nothing is assumed
of clients: they may talk for ever, or never again.

## 4 The claims of a scan

`ScanClaims` puts scan engines, their connections and the services' leases
together.  `leases[i]` is the lease of service *i*; what a request does to it is
the definition of `ControlLease` (an `INSTANCE` per service).

| TLA+ | code |
|---|---|
| `inbox`, `busy` | the requests a service has received; a verb that keeps its one commander busy |
| `call[e][i]` | the request whose reply is awaited with `_req_lock` held |
| `beating[e][i]` | `_scan_beat`, the flag the heartbeat's thread looks at |
| `due[e][i]` | that thread has seen the flag up and waits for `_req_lock` |
| `todo`, `claimed` | the loop of `Lab.claim_scan` over the sorted names; what it returns |
| `SendClaim`, `Claimed` | `Instrument.claim_scan` up to the request, and its reply |
| `ScanEnds`, `SendRelease`, `LetGo` | the finally of a scan, `release_scan` |
| `TimeOut` | 3 s without a reply: the socket is rebuilt, the request stays with the service (`live = FALSE`) |
| `Beat`, `SendBeat` | the heartbeat thread: it looks at the flag outside the lock, and sends once it has the lock, whatever the flag says by then |
| `SendWrite` | the scan's own changes |
| `Handle`, `Status`, `Tick` | the service answers, publishes; time passes |
| `Block`, `Unblock` | somebody's long verb |

**Run `claims`**: two engines on two PCs that want the same two instruments, one
of them twice; one long verb, at the second instrument (`Slow`), so that a scan which
has the first already is the one that is kept waiting.  `ClaimKept` is about requests that
arrive when nobody waits for them any more; `SomeScanRuns` about the order in
which claims are made (not in name order, two scans refuse each other for
good); `TypeOK` includes that a scan that is over has given back what it had claimed.
`TimeoutsLockNothing` is about what a timeout leaves.  `RepliesCome`: no lock is held
for a reply that will not come.  `LeftoversLapse`: what a scan that is over still
has on an instrument is not kept alive.  One heartbeat may still follow the release,
that of a thread which had looked at the flag before it fell; it cannot be followed by
a second.

*Bounds.*  A tick is longer than the request timeout and the heartbeat's period
(the code's are 3 s and 2 s, against a lease of 10 s), so one tick without
an answer is a timeout and two are a lapse.  Two instruments are the least at which
"some were claimed and one refused" exists; two scans of one engine let the first's
late requests meet the second.  The driving mark of the lease is only shown, and
left out here.

*Excepted.*  `ClaimKept` excepts claims that lapsed while a service was busy, which
is `claims_lost` (section 10), and claims that were ended by the same engine's own
earlier release, carried out late: the release names the client, not the claim.

## 5 The scan server

| TLA+ | `scan_server.py` |
|---|---|
| `srv.entries`, `.qi`, `.open`, `.busy`, `.stopping`, `.abort` | `_entries`, `_qi` + 1, `_queue_open`, `_busy`, `_stop_reason`, `_abort` |
| `srv.userPause`, `.faults`, `.ask` | `_user_pause`, the faults shown, `_ask` |
| `srv.result`, `.stoppedBySelf`, `.lastError`, `.nextId` | the entries' outcomes, why they ended, `_last_error`, `_ENTRY_IDS` |
| `runner.pc`, `.scan`, `.how` | where the runner is in `_run_queue` / `_run_one` / `Engine.run`, the entry, how the engine came out of its points |
| `runner.question`, `.box` | the pause step's question and its answer slot |
| `runner.verdict` | what the runner has made of the Abort flag and not yet stored |
| `cmd` | a request of the commander between its two holds of the lock |
| `lab` | the instruments' `should_abort` hook, and old runners still before their last step |
| `serving.flag`, `.main` | `_stop`, or the waiter of `shutdown` that is going to set it; how far the main thread is in `serve_forever` and `stop()` |
| `serving.found` | history: the scan that `stop()` found running |
| `pressed` | history: the scans whose Abort was acknowledged before the runner looked at the flag for the last time |

An action is one hold of the lock, or one step of the engine between two
callbacks.  Thus `submit` is `SubmitBegin` (look at `_busy`, name the entries),
then `SubmitCommit` (look again, take over) or `Refuse`; `queue_add` is
`AddBegin`, then `AddCommit` or `Refuse`; `answer_pause` is `AnswerTake` (the question
leaves the frame) and `AnswerGive` (its function is called).  The runner is
`Take`, the engine's steps, `Judge` (it looks at `_abort` for the last time, without
the lock), `Conclude` (the result is stored), then `GoesOn` or `StopsItself`; an Abort
may be acknowledged between the two.  The runner ends through `CloseQueue` and `EndQueue`, and through
`ClearHook`, which the code runs *after* `busy` has been released.  What a scan
*contains* is left open: at any moment a point may fail, a fault appear or
clear, a routine ask, stop the scan or stop the queue.

`ScanQueue` is the server as a client should be able to think of it: a line of
scans, the head starts, edits touch only the line, the rest is given up only
after a stop or a failure.  `KeepsTheLine` says that `ScanServer` implements it,
under the mapping at the end of the module (the line is what is behind `_qi`
while the server is busy).

| run | instance | shows |
|---|---|---|
| `server_safety` | 3 scans, up to 2 per request, 1 question | `NeitherTwiceNorSkipped`, `AcceptedScansRun`, `AbortHitsItsScan`, `StopsAreFinal`, `DataSavedAtExit`, `QuestionCanBeAnswered`, the refinement `KeepsTheLine` |
| `server_liveness` | 2 scans, 1 question, instruments connected | `AbortTakesEffect`, `StopsEnd` (Stop queue and shutdown) |

*Bounds.*  Three scans let the queue be in the middle of a list: a scan before,
at and behind the position, which remove, move and insert need to go wrong.
One question is enough for the answers that come late: after an Abort, after the
scan, after another answer.  When the
ids are used up, or the process has ended, nothing may be left to do, which is why
these runs do not check for deadlock; that nothing *waits* for ever is what
`server_liveness` is for.  `Connected` (with instruments or in demo mode) and
`Patient` (no join in shutdown times out) are choices of the environment;
`DataSavedAtExit` needs patience (section 10).

*The exit.*  `shutdown` leaves a waiter that sets `_stop` when the runner has ended; the
main thread then calls `stop()`.  A Ctrl-C (`Interrupt`) calls it at once.  In `stop()`
the commander goes on answering, and may take a submit, until `StopAnswering` sets
`_stop` after the join.  `stop()` joins the runner there is when it looks; a scan submitted
behind its back is not waited for, and `DataSavedAtExit` speaks of `found` only.

*Fairness.*  `WF(Onward)`: the runner thread is scheduled and takes its next
step where nothing outside is needed.  `SF(Noticed)`: every hold, settle wait
and pause step polls the Abort flag, and the odometer looks at it before every
point, so a scan that keeps going passes such a look again and again; weak
fairness would not do, because a fault that comes and goes disables each single
look infinitely often.  `WF(WaiterStops \/ Stop \/ StopAnswering \/ Exit)`: the main
thread and the waiter are scheduled.  *Not* assumed: that points get measured, that faults clear,
that operators resume or answer, that anyone submits or stops.

## 6 The scan engine

`Engine` is one call of `engine.run`, from the claim to the release, as one
thread (`EngineStep`) among an environment: instruments that begin and cease to
report faults, an operator who presses Abort, Pause and Resume, people who move
knobs by hand while a scan waits for a fault to clear (`Reaim`), and calls that
fail, at any point.  `Odometer` holds the pure part: the order of points with
zig-zag (`VisitIndex`), which points begin and end a sweep, which are coarse.

| TLA+ | code |
|---|---|
| `flat`, `redo`, `prev`, `resend`, `visit` | the loop of `_sweep`, the dims' last indices, `ctx["resend"]`, `ctx["visit"]` |
| `data`, `reading`, `skipped` | the buffers, the values in hand, `skipped_points` |
| `scouted`, `coarse`, `tuned` | `done_blocks`, the coarse values, the scout-only settings |
| `RefuseScan`, `ClaimInstruments`, `SetFixed`, `Allocate`, `BeforeScan` | `run` up to its first point |
| `NextPoint`, `PlacePoint`, `SetDim`, `SetTogether`, `AllDimsSet` | `_sweep`, `_set_dims`, `_set_together` |
| `BeforePoint`, `Acquire`, `Read`, `CheckReading`, `Commit` | `_measure_point` with its two fault checks and its routines |
| `ResumePoint`, `AbortWhilePaused` | `_Guard.hold` and the second attempt |
| `StartScout`, `ScoutPoint`, `ResumeScout`, `MakeMask` | the scout pass |
| `HandOver`, `AfterScan`, `ReleaseInstruments` | the ends, in the order of `Duties` |

A reading is not a number: it is a record of what was true when it was taken
(where the knobs stood, whether an instrument was in fault, whether the scout's
settings were in force).  That is what `ReadingsBelong` compares with the slot the
reading ends up in.

**Run `engine`**: `ReadingsBelong`; `EveryPointVisited`, that a scan that ends by
itself has measured or skipped every point its mask leaves in, and a continued
scan keeps what it started from; `AxisRoutinesPaired`, that leaving and arriving
routines of an axis alternate, however often a point was attempted;
`SweepRoutinesRun`, that the routines of a sweep are neither lost to a mask, a
continuation or a skip, nor due after the last; `EndsProperly`, that the
after-scan routine runs once and the measured values are handed over on every
end; `NeighboursInOrder`, that a zig-zag scan never jumps; `AbortEnds`.

*Bounds.*  Eight recipes (`MCEngine`): three dims of two on zig-zag with a routine
every second sweep (an even middle dim is where a wrong zig-zag shows), diagonal row changes
with a skip after the point, a repeat axis in a script without a fault handler, a
continuation from the middle, a skip before the point, a scout pass per outer step,
one for the whole scan, and one that looks at every second point only.  One fault, one failing call
and one Pause: two of each would repeat a hold from a state the first hold can
already reach, since a hold forgets everything about the point.

*Assumed.*  A fault lasts longer than a reading, so it does not appear and clear
between the two checks of one point (the code checks before and after to catch
those that last).  `ReaimAt = {"hold"}`: people move things while a point's fault is
held.  The two other waits are the subject of section 10.
*Fairness*: `WF(EngineStep)`: every call into an instrument returns, at the latest
with its timeout.  Nothing is asked of faults or people.

`SweepRoutinesRun` holds for recipes that list the sweep's routine before a skip;
in the other order (`skipFirst = TRUE`) a skipped point takes the routine with it,
which is what a list of routines says.  It also asks that a sweep lie in one block
of the scout: section 10 says what happens to a sweep that does not.

## 7 Fly scans

`FlyRows` is `fly_sweep` with `_fly_one_row`, `_ramp_one_row` and the drive of a
stage: the outer dims are stepped, each row is one move.  There are three ways
to fly: a stage's blocking set in a helper thread, another stage that is sent far
past the row and stopped (`driven`), and the module's own sweep (`ramp`).  What
moves (`Moves`, with `pos` and `heading`) goes on whatever the scan's thread does.

| TLA+ | `flyscan.py` |
|---|---|
| `row`, `redo`, `prev`, `moved` | the loop of `fly_sweep`, `prev`, `outer_moved` |
| `rbEnd`, `atRunin` | `state["rb_end"]`, the shortcut of a zig-zag row that begins where the last one ended |
| `slow`, `speedAt` | `state["fly_speed"]`; the speed the mover has |
| `learned` | `drive["k"]`, found out on the first row |
| `NextRow`, `ToRunIn`, `SetOuter`, `RowRoutines`, `ReturnToRunIn`, `UseFlySpeed`, `TakeOff` | one row up to its flight |
| `Land`, `TurnRound`, `Break`, `AbortFlight`, `CheckRow`, `FillRow`, `LeaveRow` | its end and the check for faults |
| `StopStreams`, `StopAll` | `stop_streams`, `_stop_stage`, `_stop_mover`, `_stop_ramp`: a stop that fails is only logged |
| `Hold`, `ResumeRow`, `AbortWhilePaused`, `PutBack` | the wait, the second attempt, the end |
| `Elsewhere`, `MayMove`, `Reaim` | an outer dim, a routine or a person takes the flown stage elsewhere (a scan's `also` says which of them may) |
| `touched`, `loose`, `unset`, `flight` | history: the stage was moved since `rb_end` was taken; what goes on because its stop failed or its start seemed to; the last set of a speed failed or was given up; where this flight began, whether a fault was on in it, and whether it began *astray*, without an approach though the stage had been touched |

**Run `fly`**: `RowsComplete`, that a row the scan has gone on from holds one
flight, from its own end, over its own outer values, without a fault, and the axis
routines paired; `StartsAtRunIn`, that every flight begins at its row's start, whatever
moved the stage before an approach, and without an approach where nothing else has
moved it; `SpeedPutBack`, whatever was aborted or failed but the last set of a speed itself;
`NothingGoesOn`, that nothing records or sweeps while the scan waits or has ended and
an Abort stops what flies, but for what a failed call has left going; `AbortEnds`.

*Bounds.*  Seven scans (`MCFlyRows`) of two to four rows: a stage that returns for every row
and one on zig-zag, with a speed to put back, one that could not be read and none; a
driven stage that guesses its direction wrong; ramps one way and on zig-zag.  Each says
which calls may fail (`breaks`) and what else moves the stage (`also`), so that two
failures and a fault can meet in one row.

*Assumed.*  `FaultsLast`: a fault that appears in flight is still there when the row
is checked, since it is checked once, at its end.  *Excepted*: flights astray, sets of a speed
that failed, stops that failed; section 10 lists each as a departure.
*Fairness*: `WF(SweepStep)`; the flight has a deadline in the code, so it ends.

## 8 An instrument and its sweeps

`Heater` is the service of the TC200 temperature controller
(`modules/environment/tc200-control`: `heater.py`, `net/service.py`) with the
software ramp every such service has a copy of (`suite_common/softramp.py`).
Commander, poll thread, the sweeps' threads and main are four kinds of processes;
the fifth is the person at the box.

| TLA+ | code |
|---|---|
| `box` | the instrument: setpoint, output, CYCLE mode |
| `hw` | the lock `_hw`, named where it is held from one step to the next |
| `ours`, `bumped` | `_sp`, `_enabled`, `_cycle`, `_band`; `_gen` has grown since the poll read it |
| `ramp`, `halted`, `walks` | `SoftRamp._ramp_id`, `_running`, `_thread`, the halt events, the threads |
| `StopRamp`, `JoinRamp`, `GiveUpJoin`, `SendSetpoint`, `StoreSetpoint` | `set_temperature`, `ramp_stop` |
| `BeginRamp`, `AssignThread`, `StartThread`, `WalkStep`, `WalkSend`, `WalkStore`, `WalkEnd` | `SoftRamp.start`, `_walk`, `_ramp_step` |
| `ReadOutput`, `ToggleOutput`, `ConfirmOutput` | `_set_output`: the box only knows "toggle" |
| `OutputFails`, `SwitchOffFails` | a reply is lost in it: `heater_off` raises; a shutdown goes on and closes the port, and the heater may stay on |
| `PollBegin` … `PollStore`, `Judge` | `_poll_loop`, `poll_once` |
| `Interrupt`, `ShutDown` … `Disconnect` | Ctrl-C, `stop()`, `shutdown` |

**Run `heater`** (every theorem below on a small instance): `SweepIsOver`, that a
client who reads "no sweep" in the status may rely on it; `TakenOver`, that the setpoint a
set or a stop left stays; `SetpointShown`, that an old reading never brings back
an old setpoint; `ReachedIsThisOne`, that "reached" is about the setpoint it is
shown with; `OffAtTheEnd`, about a shutdown that ran to its end and lost no reply;
`NothingAfterClose`, that no request and no step of a sweep gets at the box after the port
was closed, though it may still get the lock (the serial backend refuses it,
`serial_tc200.py:268`).

*Bounds.*  Three levels, two targets, so that a sweep has a middle value; two
requests, which is a sweep and what interrupts it; one turn of a knob or lost
reply.  The proofs hold for any number of each.  The service ends, so this run
does not check for deadlock.  *Assumed.*  `stop()` sleeps 0.3 s before it shuts the
heater down, longer than the commander waits for a request (200 ms), so that none
comes after it.  Of a join that gives up after 5 s the model only lets those give up
that wait for a step at the box; `gaveUp` excepts what follows.

## 9 Proofs

All proofs are checked by TLAPS to the last leaf.  They assume nothing but the named
assumptions on the constants, which TLC evaluates on every run, and, where a theorem
says so, a hypothesis that keeps a known departure of the code (section 10) out, or a
recipe whose own list of routines asks for something else (section 6).

| module | assumptions on the constants |
|---|---|
| `ControlLease` | `ClientsAssumption`; `TimesAssumption`: the client list forgets no sooner than the lease and the driving mark |
| `ScanClaims` | `EnginesAssumption` (finitely many), `UsesAssumption` (a scan has instruments; their names are ordered, here as numbers), `LeaseAssumption` (a claim outlives one late heartbeat), `ClaimBoundsAssumption`, `NoneAssumption` |
| `ScanServer` | `BoundsAssumption` |
| `Engine` | `BoundsAssumption`; `RecipesAssumption`: what the recipe's validation lets through; `ValuesAssumption`: "no value" is not a value |
| `FlyRows` | `ScansAssumption`, `FlyBoundsAssumption`, `FlyValuesAssumption`, likewise |
| `Heater` | `HeaterAssumption`: numbers and switches; targets are levels |

### `ControlLeaseProofs` — any set of clients, any map to PCs, any lease time

| theorem | says |
|---|---|
| `TypeCorrect` | `[]TypeOK` |
| `SilenceMeasured` | `[]LeaseMeasuresSilence` |
| `ByScanControlEnds` | `[]ByScanOnlyDuringScan` |
| `ClaimsDoNotPass` | `OneScanAtATime` |
| `NoMysteriousMoves` | `[]MovesAreShown` |
| `NoAccidentalHandover` | `ControlMovesDeliberately` |

Every verb is `Expire`, then `Seen`, then its own change of a lease.  The
invariants are therefore stated of a *lease* (`MeasuresPC(l)`, `ByScanEnds(l)`),
and lemmas show that each of the three parts preserves them; a step of the
specification is then a composition of lemmas.  The inductive invariant is
`Sound(lease)`, the conjunction of the type, the two halves of
`LeaseMeasuresSilence` and `ByScanEnds`.  They are needed together: that the age of
the holder and the age of the claim are read off the same list of clients is why
an expiry cannot end a claim and leave its by-scan control behind, and that the
verb after `Seen` finds its sender heard at age 0 (`Fresh`) is why a claim or a
take starts with a correct age.  The action properties follow from it with two more
lemmas, `EnteredScan` and `EnteredHolder`: what every request does first takes neither
a live claim nor a live lease away.  `MovesAreShown` is not inductive either: `Shows` adds
that the machine was last *heard* no longer ago than it changed something, which with
`TimesAssumption` (`Driving` is within `Forget`) is why its entry, and the mark in it,
is not dropped too soon.

### `ScanClaimsProofs` — any engines, any instruments, any number of scans

| theorem | says |
|---|---|
| `Types` | `[]TypeOK`, which includes that a scan that is over holds nothing back |
| `ClaimsAreKept` | `[]ClaimKept` |
| `NothingStaysLocked` | `[]TimeoutsLockNothing` |
| `SomebodyRuns` | `[]SomeScanRuns` |

Of the services, the proof needs two facts about one lease: a request keeps it
`Sound`, and a claim in force ends by its owner's release alone (`LeaseMoves`).  The rest is about who waits for what.  `Fits`: the
request of a connection fits what its scan is doing.  `Awaited`: it waits at the
service, and everything else of that connection that waits there has been given up.
`Beats`: the claim is kept alive from its reply to the beginning of its release.
`Decided`: a heartbeat that is on its way is not also about to be sent, which is what is
left of "no heartbeat for a scan that is over" when the flag is read outside the lock.
`Kept` then says why a claim cannot lapse at a service that is not busy: the claim is
fresh, or a heartbeat is on its way, and a tick does not pass it by.  `SomeScanRuns` needs
the order of the names.  `Ordered` says that the owner of a claim has only later names
still to claim.  If all engines had been refused, take the one refused at the last
name (`Greatest`; there are finitely many): the one that refused it is past that name, so
it was itself refused at a later one.

### `ScanServerProofs` — any number of scans, any length of queue

| theorem | says |
|---|---|
| `ServerTypeCorrect` | `[]TypeOK` |
| `NoneTwiceNoneSkipped` | `[]NeitherTwiceNorSkipped` |
| `TheRunningScanIsMeant` | `[]CurrentIsRunning`: every verb's "running scan" is the one the thread is in |
| `AbortsHitTheirScan` | `[]AbortHitsItsScan` |
| `EveryAcceptedScanRuns` | `[]AcceptedScansRun` |
| `AStopIsFinal` | `StopsAreFinal` |
| `QuestionsStayAnswerable` | `[]QuestionCanBeAnswered` |
| `NothingLostAtExit` | `[]DataSavedAtExit`, if `Patient` |
| `TheLineIsKept` | `KeepsTheLine`: `ScanServer` implements `ScanQueue` |

None of these is inductive.  The invariant `IInv` adds: `Attached`, `InPlace` (at
each place of the runner, `Working` or not, which fields may have which values); `NewNames` (the
entries of a request in flight are in nobody's list, which is what lets
`AddCommit` keep the list free of repetitions); `FlagIsForTheScan` (while a scan runs,
`_abort` is up exactly if that scan is in `pressed`; without it nothing relates
the flag the engine reads to the scan the operator meant); `VerdictStands` (what the
runner made of the flag at its last look holds whatever is pressed before it is stored);
`Unbroken` (no
error among the results while the queue goes on); `RanDry` (a runner that has left
its loop without a stop has no scan left behind it, which with `open = FALSE` is
why a late add cannot be lost).  First come lemmas on what inserting, removing
and moving do to a list, then one lemma for each kind of step; `StepKeeps`
combines them over the disjuncts of `Next`.

`NothingLostAtExit` adds that a queue that has ended has judged its last scan
(`LastIsJudged`), and that the scan `stop()` found is not taken again (it is not `Ahead`),
so that once `stop()` has seen the runner end it is not running (`NoneIsCutOff`).  `Patient` is needed: `stop()` joins with a time limit
(section 10).

*The refinement.*  Under the mapping at the end of `ScanServer` the line is what is
behind `_qi`.  `LineStep` maps each step, with one lemma for each:

| step of `ScanServer` | step of `ScanQueue` | lemma |
|---|---|---|
| `SubmitCommit` | `Submit` | `SubmitsTheLine` |
| `AddCommit` | `Add` | `AddsToTheLine` |
| `QueueRemove`, `QueueMove` (both act behind the position only) | `TakeOut`, `Reorder` | `TakesOutOfTheLine`, `ReordersTheLine` |
| `Take` | `Start`: the head starts | `StartsTheHead` |
| `Conclude`, and a runner that breaks | `Finish` | `EndsTheScan` |
| `StopQueue`, `ShutdownBusy`, `Stop`, "abort all" | `StopLine` | `PressesStopTheLine`, `RunnerLeavesTheLine` |
| `EndQueue` | `GiveUp`, after a stop or a failure only; else `Refused` | `EndsTheLine` |
| everything else | `Refused`: nothing, or new names that never join the line | `BesideTheLine`, `RunnerLeavesTheLine`, `Aside` |

`EndsTheLine` is where the invariant earns its keep: without `RanDry` the runner might
let go of `busy` with an accepted scan still behind `_qi`, and the abstract line would
lose a scan nobody stopped.  `Healthy` (no scan runs after a failure) is what makes a start
of the head legal.

### `OdometerProofs` — any number of dims, any sizes, any zig-zag

| theorem | says |
|---|---|
| `VisitedOnce` | no two points have the same index |
| `WholeGridVisited` | every index of the grid is the index of a point, and the grid is what it should be |
| `NeighboursVisited` | with all dims on zig-zag, consecutive points differ by one in one dim |

These are inductions over the dims.  The library's induction theorems take an
operator as a parameter, which the provers cannot instantiate; `NaturalsLemmas` states
induction of a *set* instead (a set of naturals with 0, closed under successor, holds
them all), from the well-foundedness of `<`.  So the recursive *functions* of `Odometer`
can be reasoned about: `BlockStep` and its like unfold them once.  A flat number is
read as digits; a dim that turns mirrors its digit and leaves the sweeps before it
alone, so that digits can be recovered from the outermost dim inwards, which is
`VisitedOnce`, and given from the outermost dim inwards, which is `WholeGridVisited`.

### `EngineProofs` — recipes of any shape, any number of faults, errors and pauses

| theorem | says | under |
|---|---|---|
| `TypeCorrect` | `[]TypeOK` | |
| `NoPointMissed` | `[]EveryPointVisited` | |
| `OncePerValue` | `[]AxisRoutinesPaired` | |
| `SafeOnEveryEnd` | `[]EndsProperly` | |
| `Neighbours` | `[]NeighboursInOrder` | |
| `ReadInPlace` | `[]ReadingsBelong` | `ReaimAt \subseteq {"hold"}`: `engine_paused`, and the scout's pause, are out |
| `RoutinesOfSweeps` | `[]SweepRoutinesRun` | no skip before the sweep's routines; `EndsAreSeen`: a sweep lies in one block of the scout (section 10) |

`Changes` says once for all which steps touch what, and `Flow` from which place the
engine goes on to which; both are proved of `Next` action by action, and the parts of
the invariant use them instead of all the actions.  The parts:

- `Shaped`, `Ends`: types, and what is left to do at the end against what was done.
- `SetSoFar`, `Stands`: while a point is being set, the dims before `dim` have the
  point's index; and a dim the engine believes to be somewhere (`Sure`) is there.
  After a pause it believes nothing, which is why a second attempt sets all of them.
- `Kept`: the reading in hand was taken where `Stands` says.  `ReadingsBelong` is its half
  that is about the buffers, and not inductive without the other.
- `Masked`, `Covered`: of the points passed, those the mask leaves in are measured or
  skipped, and no mask that comes later says anything about a point behind (its block has
  been scouted).  What is written once is not written again by `VisitedOnce`: without
  it a later point could take an earlier one's slot.
- `Paired`, `Arrived`: the number of times an axis routine has run is the number of new
  values behind, plus this point's if its dim was already set.
- `Begun`, `Finishing`: the sweeps begun and finished are those of the points passed.
  `SweepInBlock` is why a later mask does not change which point is a sweep's last.

### `FlyRowsProofs` — any rows, any outer dims, any number of faults

| theorem | says | under |
|---|---|---|
| `TypeCorrect` | `[]TypeOK` | |
| `OncePerValue` | `[]AxisRoutinesPaired` | |
| `FromTheStart` | `[]StartsAtRunIn` | `Steady`: no zig-zag row breaks in flight, unless its stage is driven (`fly_redo`), and no zig-zag ramp starts whose start seemed to fail |
| `RowsAreTheirOwn` | `[]RowsComplete` | `Steady`, `FaultsLast`, `Undisturbed`: one outer dim, which every row sets, or nobody moves things in the operator's Pause |
| `OwnSpeedAgain` | `[]SpeedPutBack` | |
| `NothingLeftBehind` | `[]NothingGoesOn` | |

The hypotheses are departures of section 10 and no more: a scan of another kind may
have any of its calls fail, a stop too, and anything of its own or any person may move the
flown stage.  The invariant follows the flown knob and the outer ones separately.
`AtStart`: the knob rests at the row's start before it takes off, or the approach was left out
though the stage had been `touched`; and `rb_end`, if it says that the approach can be left
out, says where the knob is if nothing has touched it.  `OnRow`: the
outer knobs stand at the row's values from when they are set; `Landed`: what a row holds is
that flight's.  `Quiet` and `LetGo` say where something may record or fly at all, and that
elsewhere it is `loose`; `Paced` and `SpeedKnown`, when the fly speed is in force, and
that a speed the scan does not know of is `unset`.

### `HeaterProofs` — any number of levels, requests, sweeps and surprises

| theorem | says |
|---|---|
| `HeaterTypeCorrect` | `[]TypeOK` |
| `EndedSweepsAreOver` | `[]SweepIsOver` |
| `SetsTakeOver` | `[]TakenOver` |
| `StatusShowsTheSetpoint` | `[]SetpointShown` |
| `ShutdownLeavesItOff` | `[]OffAtTheEnd` |
| `NoWaitingWithTheLock` | `[]HolderNeverWaits`: no thread waits for another with `_hw` in hand |
| `ReachedForThisSetpoint` | `ReachedIsThisOne` |
| `ClosedForGood` | `NothingAfterClose` |

The inductive invariant has nine parts, each with a lemma that a step keeps it,
and each lemma uses only the parts it needs:

- `Typed`, `Room`, `Numbered`, `Asked`: types, and what numbers and verbs the
  commander may be at.  `Room` is what even type correctness needs: sweeps are
  numbered by `SoftRamp.start`, and only the count of requests left bounds them.
- `Alone`: until a join has given up, the sweeps before the newest are dead, and
  *all* are dead while the commander is between its join and its send.  `TakenOver`
  and `SweepIsOver` follow; they say nothing by themselves about a walk that
  still has its step to send.
- `Locked`: who holds `_hw` is who is between a write and its record.
- `Shown`: what is remembered is what the box has whenever nobody is between the
  two, and also what a poll whose generation is still good is about to store.
- `Closing`: the port closes after the switch-off, and no toggle is under way by then,
  unless a reply was lost.

### Only model-checked

Every safety invariant, every action property and the refinement that a run checks is
also stated by a theorem.  Liveness under fairness stays with TLC, since it is out
of the prover's reach (it has no `ENABLED`): `DeadLockNothing`, `AbortTakesEffect`,
`StopsEnd`, and `AbortEnds` of `Engine` and `FlyRows`.  So do the counterexamples of
section 10, which are about the scans that the hypotheses above leave out.  `RECURSIVE`
operators, which the SMT backend cannot have in a module, are not used: recursion is
written as functions.

## 10 Where the code departs from what it says

Each of these runs checks one sentence of the documentation and is expected to
fail; TLC prints the shortest behaviour.

1. `server_hook` — *an Abort must reach an instrument that is mid-settle too*
   (`scan_server.py`).  The old runner clears `should_abort` after it has let go of
   `busy`; a scan submitted in between runs without the hook.
2. `engine_paused` — *hold the scan … let a colleague use the magnet … without
   losing it* (`engine.py`).  After Resume only the dims whose index changes are
   set; a knob moved in the Pause stays where it is until its own turn.
3. `fly_redo` — *go to a row's run-in and be THERE before the row starts*
   (`flyscan.py`).  A zig-zag row that broke in flight is flown again from where it
   broke: the shortcut is judged by where the row *before* ended.
4. `claims_lost` — *the claim is kept alive by heartbeats until `release_scan`*
   (`instrument.py`).  A verb longer than the lease keeps the heartbeats out.
5. `heater_shutdown` — *stop polling, switch the output off …, and disconnect*
   (`heater.py`).  A Ctrl-C while the commander starts a sweep joins a thread that
   is not started; `join` raises, the shutdown ends there, the heater stays on.

Other departures the models show when a constant or a case is changed; no run
repeats them.

- *Lease.*  A window on the scan's PC may release control during the scan; the
  claim stays, nobody is in control (docs: a scan needs control for its
  length).  A person who takes control there during the scan is told "granted",
  but the holder stays marked `by_scan` and is freed at the end.  A holder that
  names no host is refreshed by nobody (`control.py:205`) and loses control
  although it sends heartbeats.
- *Server.*  An Abort answered `running: True` between the reply to `submit` and
  the runner's first take is reset by that take (`scan_server.py:1618`);
  `AbortHitsItsScan` counts an Abort for the scan current at that moment, none
  here.  The runner reads `_abort` for its outcome without the lock (`:1703`): an Abort
  acknowledged between that look and the stored result changes nothing, and the scan is
  "done"; the property counts the Aborts acknowledged before the look.  An Abort that cuts a wait of the after-scan routine is reported as an
  error, and the queue stops instead of going on (`engine.py:761`).  The joins of a
  shutdown have time limits (60 s and 30 s): with `Patient = FALSE`
  `DataSavedAtExit` fails.  `stop()` sees to the runner it finds (`:561`); the commander
  answers until `_stop` is set (`:565`), so a scan submitted after a Ctrl-C is not waited
  for, and is cut off by the exit.
- *Engine.*  After a fault pause inside the scout pass the axes outside the
  scouted ones are not set again: with `"scout_hold"` in `ReaimAt`
  `ReadingsBelong` fails.  An error while the arrays are allocated comes after
  the fixed values were set and before any handler, so the after-scan routine does
  not run (`how = "unprepared"`, excepted in `AfterScanOnce`).  Which measured point is
  the last of its sweep is judged when that point is measured (`hooks.py:921`), and the
  blocks not scouted yet count as measured (`scout.py:842`): with a scout pass per
  outer step and a sweep across several steps, whose later block turns out to be masked
  altogether, the sweep's `edge: end` routine never runs (docs: after the last point of
  every sweep except the scan's last, `hooks.py:58`).  With `Recipes <-
  MCSweepAcrossBlocks` `SweepsFinished` fails.  The proof of `RoutinesOfSweeps`, which
  would not go through, is how it was found.
- *Fly scans.*  The shortcut of a zig-zag row (`flyscan.py:1009-1011`) trusts `rb_end`, and
  its `at_runin` also skips the second approach after the outer dims (`:1049`).  The comment
  there (`:1047-1048`) assumes that only an outer axis could have moved the stage, and only after
  an approach: when an outer dim, a routine or a person in the operator's Pause has moved it, the row
  is flown from elsewhere (`astray`; without that exception `StartsAtRunIn` and `RowsComplete`
  fail for the fourth scan of `MCScans`).
  When the set of the fly speed fails after it reached the mover, or an Abort ends its
  settle wait (`:940-941`, `instrument.py:423`), nothing is put back; when the set that puts it
  back fails, that is only logged (`:1176-1177`).  These are what `unset` excepts.
  A stop that fails is only logged or swallowed (`:1105`, `:1442`, `:1521-1523`, `:1593`),
  and the scan goes on to its hold or its end with the streams recording or the knob moving;
  a `ramp.start` that timed out leaves no handle, so a sweep that did start is not
  stopped (`:1421`).  These are what `loose` excepts.
  A stage keeps flying after an error of its row (only an Abort stops it), and an Abort in
  mid-row keeps the part recorded without a fault check (`:1138`).  As in `engine_paused`, an outer knob
  moved in the operator's Pause is not set again until its index changes; with several
  outer dims a row is then flown over another value.
- *Claims.*  A release carried out late ends the newer claim of the same engine.  A
  heartbeat whose thread saw `_scan_beat` up and then waited for the lock
  (`instrument.py:259`, `:284`) may follow the release (`:241`); it refreshes what a
  release that got lost has left, once, and the lease ends it.
- *Heater.*  The output has no generation as the setpoint has: a poll that
  began before `heater_off` shows the heater enabled again until the next one, and two
  events blame the front panel (`heater.py:669-684`).  `heater_off` on a box that is
  already off does not reset "reached" (`:713-716`).  A reply lost while the shutdown
  switches off is swallowed (`:273-274`): the port is closed and the heater may stay on;
  `OffAtTheEnd` excepts it.  That nothing reaches the box once its port is closed is the
  serial backend's refusal (`serial_tc200.py:268`); the simulated box refuses nothing.  After a late serial reply
  every answer is the one before (`serial_tc200.py:267`).

## 11 What is not modelled

- *Data and arithmetic*: recipes, expressions, units, previews, where windows and
  predictors measure next, binning of fly rows, thresholds of the scout's mask
  (the mask is any subset).  They have no order of events to check, and floating-point
  algorithms are beyond TLC.
- *Input and output*: formats of files and messages, `get_file`, live frames,
  logs, widgets, pictures, the installer, device listings, settings bundles.
  Most of the repository's lines are of this kind: `scan_builder.py`, the camera's
  and the modules' windows, Mission Control's window and the rendering tools are
  Qt code around the parts modelled here.
- *Vendor drivers and simulators* of the instrument modules, and the modules other
  than the TC200; they share its template, the lease and the ramp.
- The follower that swaps the registry between scans; autosave and continuation files,
  and the hardware lock, which rest on what a file system and a kernel promise;
  the keys and modes of the wire.
- Of the lease: `ControlClient`'s cached view of the status.  A cached "I have
  control" is only ever a reason to send a request, which the gate decides.
- Of the claims: status cache, waits for a settle, services that predate the claim,
  the retry of a request in the other security mode.
- Of the engine: snapshots, progress, image buffers, the resonance window, the
  steps inside a routine.  The engine in `ScanServer` is its outside; that `Engine`
  implements it is not stated.
- Of the heater: PID gains, limits, sensors and alarms, `set_config`, the stream.

## 12 Plan

1. The engine that `ScanServer` shows its runner (its pauses, waits and ends) as an
   abstract specification which `Engine` implements, and its refinement proved.
2. The follower's swap of the registry against submits and running scans.
3. Hardware lock and autosave, with processes killed at any step.
4. The field controller of clMag and Mission Control's supervision of processes.

## 13 Running

```
tlc -workers 2 -config ScanServerSafety.cfg MCScanServer
tlapm ScanServerProofs.tla
```

`PROJECT.json` gives the module and the configuration of every run.  On two
cores no run takes much more than three minutes, and neither does a proof module.
