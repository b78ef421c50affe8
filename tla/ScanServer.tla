----------------------------- MODULE ScanServer -----------------------------
(***************************************************************************)
(* The headless scan server: scan_core/scan_server.py, class ScanServer.   *)
(* Three threads share its fields under one lock:                          *)
(*                                                                         *)
(*   - the commander answers one request at a time; submit, queue_add and  *)
(*     answer_pause leave the lock in the middle, so their two halves are  *)
(*     two actions with "cmd" in between;                                  *)
(*   - the runner takes one scan of the queue after another (_run_queue,   *)
(*     _run_one) and drives the engine, whose pauses, questions and ends   *)
(*     are the ones of engine.run;                                         *)
(*   - the main thread and the shutdown waiter end the process.            *)
(*                                                                         *)
(* A scan is its entry id.  Positions count from 1: srv.qi is _qi + 1, and *)
(* the loop variable i of _run_queue is always the position after srv.qi   *)
(* when the next scan is taken.                                            *)
(***************************************************************************)
EXTENDS Naturals, Sequences, SequencesExt

CONSTANTS
  MaxScans,      \* bound: entry ids ever handed out (_ENTRY_IDS)
  MaxSubmit,     \* bound: scans in one submit or queue_add
  MaxQuestions,  \* bound: pause steps ever reached
  Connected,     \* TRUE: the server drives instruments (lab is not None)
  Patient        \* TRUE: no join in shutdown / stop times out

ASSUME BoundsAssumption ==
  /\ MaxScans \in Nat
  /\ MaxSubmit \in Nat
  /\ MaxQuestions \in Nat
  /\ Connected \in BOOLEAN
  /\ Patient \in BOOLEAN

VARIABLES
  srv,      \* the fields of the ScanServer object the threads share
  runner,   \* the runner thread: where it is, and its scan
  cmd,      \* the commander's request between its two critical sections
  lab,      \* the instruments' should_abort hook, and old runners' last steps
  serving,  \* how far the end of the process has come
  pressed   \* history: scans whose Abort was acknowledged before the runner
            \* looked at the flag for the last time

vars == <<srv, runner, cmd, lab, serving, pressed>>

Scans == 1 .. MaxScans
Results == {"none", "done", "aborted", "error"}
Answers == {"continue", "scan", "all"}

\* How the engine leaves the points: all of them measured; Abort seen between
\* two points ("aborted") or inside a wait, raised ("cut"); a routine step or
\* an answer stopped the scan, or the whole queue; an error; a finished scan
\* whose after-scan routine was cut short by an Abort or an Abort answer.
Ends == {"none", "finished", "aborted", "cut", "stopped", "stoppedAll",
         "failed", "cutAfter"}

Asking == {"asking", "askingAfter"}
Scanning ==
  {"claiming", "points", "held", "fault", "after", "judge", "judged"} \cup Asking

\* The runner is in run_one.
InScan == {"begin"} \cup Scanning

NoCmd == [verb |-> "none", scans |-> <<>>, question |-> 0, answer |-> "none"]

NoRunner == [pc |-> "none", scan |-> 0, how |-> "none", question |-> 0,
             box |-> "none", verdict |-> "none"]

\* The end of the process: whether _stop is set, or a waiter of shutdown is going
\* to set it; where the main thread is; and, as history, the scan that stop()
\* found running.
Up == [flag |-> "up", main |-> "loop", found |-> {}]

Alive == serving.main # "exited"

\* The commander's loop runs until _stop is set, one request at a time.
Listening == serving.flag # "set" /\ cmd = NoCmd

-----------------------------------------------------------------------------
(* submit, submit_queue *)

Fresh(n) == [k \in 1 .. n |-> srv.nextId + k - 1]

\* _reset_scan_state: called by submit and by every take of the next scan.
ScanReset(s) == [s EXCEPT !.userPause = FALSE, !.faults = FALSE, !.ask = FALSE]

SubmitBegin(n) ==
  /\ Listening
  /\ ~srv.busy
  /\ srv.nextId + n <= MaxScans + 1
  /\ cmd' = [NoCmd EXCEPT !.verb = "submit", !.scans = Fresh(n)]
  /\ srv' = [srv EXCEPT !.nextId = @ + n]
  /\ UNCHANGED <<runner, lab, serving, pressed>>

Submitted(s) ==
  [ScanReset(s) EXCEPT !.busy = TRUE, !.open = TRUE, !.entries = cmd.scans,
                       !.qi = 0, !.stopping = FALSE, !.abort = FALSE,
                       !.lastError = FALSE]

SubmitCommit ==
  /\ Alive
  /\ cmd.verb = "submit"
  /\ ~srv.busy
  /\ srv' = Submitted(srv)
  /\ runner' = [runner EXCEPT !.pc = "pick"]
  /\ cmd' = NoCmd
  /\ UNCHANGED <<lab, serving, pressed>>

\* An invalid scan, a data folder that cannot be written, a queue that ended
\* or began to stop meanwhile: nothing changes.
Refuse ==
  /\ Alive
  /\ cmd.verb \in {"submit", "add"}
  /\ cmd' = NoCmd
  /\ UNCHANGED <<srv, runner, lab, serving, pressed>>

-----------------------------------------------------------------------------
(* queue_add, queue_remove, queue_move *)

\* Wrong: an edit is accepted once the last scan has been taken.
EditableUntilIdle == srv.busy /\ ~srv.stopping

Editable == srv.busy /\ srv.open /\ ~srv.stopping

NotStarted(k) == k > srv.qi /\ srv.result[srv.entries[k]] = "none"

\* Wrong: a place in front of the running scan passes (<= for <).
PlaceFromRunning(p, last) == srv.qi <= p /\ 1 <= p /\ p <= last

\* A place behind the running scan, at most "last".
Place(p, last) == srv.qi < p /\ p <= last

AddBegin(n) ==
  /\ Listening
  /\ srv.nextId + n <= MaxScans + 1
  /\ Editable
  /\ cmd' = [NoCmd EXCEPT !.verb = "add", !.scans = Fresh(n)]
  /\ srv' = [srv EXCEPT !.nextId = @ + n]
  /\ UNCHANGED <<runner, lab, serving, pressed>>

Spliced(s, p, new) == SubSeq(s, 1, p - 1) \o new \o SubSeq(s, p, Len(s))

\* Wrong: the queue is not looked at again after the validation.
AddUnchecked(p) ==
  /\ Alive
  /\ cmd.verb = "add"
  /\ Place(p, Len(srv.entries) + 1)
  /\ srv' = [srv EXCEPT !.entries = Spliced(@, p, cmd.scans)]
  /\ cmd' = NoCmd
  /\ UNCHANGED <<runner, lab, serving, pressed>>

\* "index" of the request, or the end; nothing looks at it before this.
AddCommit(p) ==
  /\ Alive
  /\ cmd.verb = "add"
  /\ Editable
  /\ Place(p, Len(srv.entries) + 1)
  /\ srv' = [srv EXCEPT !.entries = Spliced(@, p, cmd.scans)]
  /\ cmd' = NoCmd
  /\ UNCHANGED <<runner, lab, serving, pressed>>

QueueRemove(k) ==
  /\ Listening
  /\ Editable
  /\ NotStarted(k)
  /\ srv' = [srv EXCEPT !.entries = RemoveAt(@, k)]
  /\ UNCHANGED <<runner, cmd, lab, serving, pressed>>

QueueMove(k, to) ==
  /\ Listening
  /\ Editable
  /\ NotStarted(k)
  /\ Place(to, Len(srv.entries))
  /\ to # k
  /\ srv' = [srv EXCEPT !.entries = InsertAt(RemoveAt(@, k), to, @[k])]
  /\ UNCHANGED <<runner, cmd, lab, serving, pressed>>

-----------------------------------------------------------------------------
(* abort, stop_queue, pause, resume, answer_pause *)

\* The scan the request acts on: the one the queue is at, until its result.
Current ==
  IF srv.qi > 0 /\ srv.result[srv.entries[srv.qi]] = "none"
  THEN {srv.entries[srv.qi]} ELSE {}

\* Once the runner has looked at the flag, an Abort is acknowledged for a scan
\* that it no longer reaches.
Pressed == IF runner.pc = "judged" THEN pressed ELSE pressed \cup Current

Abort ==
  /\ Listening
  /\ srv.busy
  /\ srv' = [srv EXCEPT !.abort = TRUE]
  /\ pressed' = Pressed
  /\ UNCHANGED <<runner, cmd, lab, serving>>

\* Wrong: the queue is stopped, its scan is not told.
AllStopped(s) == [s EXCEPT !.stopping = TRUE]

\* _abort_all
AllAborted(s) == [s EXCEPT !.stopping = TRUE, !.abort = TRUE]

StopQueue ==
  /\ Listening
  /\ srv.busy
  /\ srv' = AllAborted(srv)
  /\ pressed' = Pressed
  /\ UNCHANGED <<runner, cmd, lab, serving>>

\* pause (TRUE) and resume (FALSE)
Pause(on) ==
  /\ Listening
  /\ srv.busy
  /\ srv' = [srv EXCEPT !.userPause = on]
  /\ UNCHANGED <<runner, cmd, lab, serving, pressed>>

\* The question is taken under the lock; its answer function is called
\* after it, whatever the engine does in between.
AnswerTake(a) ==
  /\ Listening
  /\ srv.ask
  /\ srv' = [srv EXCEPT !.ask = FALSE]
  /\ cmd' = [NoCmd EXCEPT !.verb = "answer", !.question = runner.question,
                          !.answer = a]
  /\ UNCHANGED <<runner, lab, serving, pressed>>

\* Wrong: the answer function is called only while the question is shown.
AnswerIfShown ==
  /\ Alive
  /\ cmd.verb = "answer"
  /\ runner' = IF cmd.question = runner.question /\ srv.ask
               THEN [runner EXCEPT !.box = cmd.answer] ELSE runner
  /\ cmd' = NoCmd
  /\ UNCHANGED <<srv, lab, serving, pressed>>

\* Each question has its own box: an answer to an earlier one, or to one the
\* scan has left, is lost.
AnswerGive ==
  /\ Alive
  /\ cmd.verb = "answer"
  /\ runner' = IF cmd.question = runner.question /\ runner.pc \in Asking
               THEN [runner EXCEPT !.box = cmd.answer] ELSE runner
  /\ cmd' = NoCmd
  /\ UNCHANGED <<srv, lab, serving, pressed>>

-----------------------------------------------------------------------------
(* The runner: the queue *)

\* Under the lock: the next scan becomes the current one.
Taken(s) == [ScanReset(s) EXCEPT !.qi = @ + 1, !.abort = FALSE]

\* Wrong: the runner takes the next scan whatever stop_reason says.
MoreIgnoringStop == srv.qi < Len(srv.entries)

More == ~srv.stopping /\ srv.qi < Len(srv.entries)

Take ==
  /\ Alive
  /\ runner.pc = "pick"
  /\ More
  /\ srv' = Taken(srv)
  /\ runner' = [runner EXCEPT !.pc = "begin", !.how = "none",
                              !.scan = srv.entries[srv.qi + 1]]
  /\ UNCHANGED <<cmd, lab, serving, pressed>>

\* The last scan is taken: from here on an add is refused.
QueueEnds ==
  /\ Alive
  /\ runner.pc = "pick"
  /\ ~More
  /\ srv' = [srv EXCEPT !.open = FALSE]
  /\ runner' = [runner EXCEPT !.pc = "ending"]
  /\ UNCHANGED <<cmd, lab, serving, pressed>>

\* A failed scan and an "abort all" end the queue.
StopsAfter ==
  srv.result[runner.scan] = "error" \/ runner.how = "stoppedAll"

GoesOn ==
  /\ Alive
  /\ runner.pc = "ended"
  /\ ~StopsAfter
  /\ runner' = [runner EXCEPT !.pc = "pick"]
  /\ UNCHANGED <<srv, cmd, lab, serving, pressed>>

StopsItself ==
  /\ Alive
  /\ runner.pc = "ended"
  /\ StopsAfter
  /\ srv' = [srv EXCEPT !.stopping = TRUE]
  /\ runner' = [runner EXCEPT !.pc = "ending"]
  /\ UNCHANGED <<cmd, lab, serving, pressed>>

\* Anything raised outside the engine, before the scan (the data folder is
\* gone when its file is named): the queue ends without a result.
RunnerBreaks ==
  /\ Alive
  /\ runner.pc = "begin"
  /\ srv' = [srv EXCEPT !.lastError = TRUE]
  /\ runner' = [runner EXCEPT !.pc = "ending"]
  /\ UNCHANGED <<cmd, lab, serving, pressed>>

\* The finally block, in two holds of the lock.
CloseQueue ==
  /\ Alive
  /\ runner.pc = "ending"
  /\ srv' = [srv EXCEPT !.open = FALSE]
  /\ runner' = [runner EXCEPT !.pc = "closing"]
  /\ UNCHANGED <<cmd, lab, serving, pressed>>

\* The thread that the waiter and stop() wait for has ended.
Joined ==
  [serving EXCEPT !.flag = IF @ = "draining" THEN "drained" ELSE @,
                  !.main = IF @ = "join" THEN "joined" ELSE @]

Idle(s) == [ScanReset(s) EXCEPT !.busy = FALSE]

EndQueue ==
  /\ Alive
  /\ runner.pc = "closing"
  /\ srv' = Idle(srv)
  /\ runner' = [NoRunner EXCEPT !.question = runner.question]
  /\ lab' = IF Connected THEN [lab EXCEPT !.tails = @ + 1] ELSE lab
  /\ serving' = Joined
  /\ UNCHANGED <<cmd, pressed>>

\* lab.set_abort(None): the runner has let go of "busy" already.
ClearHook ==
  /\ Alive
  /\ lab.tails > 0
  /\ lab' = [hook |-> FALSE, tails |-> lab.tails - 1]
  /\ UNCHANGED <<srv, runner, cmd, serving, pressed>>

-----------------------------------------------------------------------------
(* The runner: one scan, as engine.run and its callbacks drive it *)

\* The engine goes to "pc"; nothing of the server changes.
Engine(from, to, how) ==
  /\ Alive
  /\ runner.pc \in from
  /\ runner' = [runner EXCEPT !.pc = to, !.how = how, !.box = "none"]
  /\ UNCHANGED <<cmd, lab, serving, pressed>>

Begin ==
  /\ Alive
  /\ runner.pc = "begin"
  /\ lab' = [lab EXCEPT !.hook = Connected]
  /\ runner' = [runner EXCEPT !.pc = "claiming"]
  /\ UNCHANGED <<srv, cmd, serving, pressed>>

\* Every instrument is claimed and the run begins, or another scan has one
\* (ScanBusy), the recipe is no longer valid, ...: nothing has moved.
Claimed == Engine({"claiming"}, "points", "none") /\ UNCHANGED srv
NotClaimed == Engine({"claiming"}, "judge", "failed") /\ UNCHANGED srv

\* The last point is measured; an error ends the points.
PointsDone == Engine({"points"}, "after", "finished") /\ UNCHANGED srv
PointsFail == Engine({"points"}, "after", "failed") /\ UNCHANGED srv

\* Abort seen by the odometer between two points, also while held there.
SeesAbort ==
  /\ srv.abort
  /\ Engine({"points", "held"}, "after", "aborted")
  /\ UNCHANGED srv

\* Abort seen inside a settle wait, a wait of a routine, or the fault pause,
\* which takes its banner away.
CutShort ==
  /\ srv.abort
  /\ Engine({"points", "fault"}, "after", "cut")
  /\ srv' = [srv EXCEPT !.faults = FALSE]

\* The operator's Pause takes effect between two points.
Hold ==
  /\ srv.userPause
  /\ Engine({"points"}, "held", "none")
  /\ UNCHANGED srv

Resumed ==
  /\ ~srv.userPause
  /\ ~srv.abort
  /\ Engine({"held"}, "points", "none")
  /\ UNCHANGED srv

\* A fault pauses the scan until it clears; the point is measured again.
Fault ==
  /\ Engine({"points"}, "fault", "none")
  /\ srv' = [srv EXCEPT !.faults = TRUE]

FaultClears ==
  /\ Engine({"fault"}, "points", "none")
  /\ srv' = [srv EXCEPT !.faults = FALSE]

\* A pause step of a routine: the question is shown with its own answer.
Ask(from, to) ==
  /\ Alive
  /\ runner.pc = from
  /\ runner.question < MaxQuestions
  /\ runner' = [runner EXCEPT !.pc = to, !.question = @ + 1]
  /\ srv' = [srv EXCEPT !.ask = TRUE]
  /\ UNCHANGED <<cmd, lab, serving, pressed>>

AskAtPoints == Ask("points", "asking")
AskAfter == Ask("after", "askingAfter")

\* The question goes, whatever happened.
Asked == srv' = [srv EXCEPT !.ask = FALSE]

AnsweredContinue ==
  /\ runner.box = "continue"
  /\ \/ Engine({"asking"}, "points", "none")
     \/ Engine({"askingAfter"}, "after", runner.how)
  /\ Asked

AnsweredAbort ==
  /\ runner.box \in {"scan", "all"}
  /\ Engine({"asking"}, "after",
            IF runner.box = "all" THEN "stoppedAll" ELSE "stopped")
  /\ Asked

\* After a finished scan this is an exception of the after-scan routine; after
\* an ended one the routine says so and goes on.
AnsweredAbortAfter ==
  /\ runner.box \in {"scan", "all"}
  /\ \/ /\ runner.how = "finished"
        /\ Engine({"askingAfter"}, "judge", "cutAfter")
     \/ /\ runner.how # "finished"
        /\ Engine({"askingAfter"}, "after", runner.how)
  /\ Asked

\* Wrong: the pause step looks at Abort only once it has been answered.
AskingDeaf ==
  /\ srv.abort
  /\ runner.box # "none"
  /\ Engine({"asking"}, "after", "cut")
  /\ Asked

AskingCut ==
  /\ srv.abort
  /\ Engine({"asking"}, "after", "cut")
  /\ Asked

\* abort_if, or a wait_until that timed out.
StopsBySelf ==
  /\ \E how \in {"stopped", "stoppedAll"} : Engine({"points"}, "after", how)
  /\ UNCHANGED srv

AfterDone == Engine({"after"}, "judge", runner.how) /\ UNCHANGED srv

\* The routine fails after the dataset was built (RoutineError); after an
\* Abort raised in a wait, a stop or an error it only says so (AfterDone).
AfterFails ==
  /\ runner.how \in {"finished", "aborted"}
  /\ Engine({"after"}, "judge", "failed")
  /\ UNCHANGED srv

\* An Abort cuts a wait of the routine short. After a finished scan that is
\* an exception of the routine; after an ended one its next step follows.
AfterCut ==
  /\ srv.abort
  /\ \/ /\ runner.how = "finished"
        /\ Engine({"after", "askingAfter"}, "judge", "cutAfter")
     \/ /\ runner.how # "finished"
        /\ Engine({"askingAfter"}, "after", runner.how)
  /\ Asked

\* Wrong: a scan whose points were all measured is done, Abort or not.
OutcomeByPoints ==
  CASE runner.how = "finished" -> "done"
    [] runner.how \in {"failed", "cutAfter"} -> "error"
    [] OTHER -> "aborted"

Outcome ==
  CASE runner.how = "finished" -> IF srv.abort THEN "aborted" ELSE "done"
    [] runner.how \in {"failed", "cutAfter"} -> "error"
    [] OTHER -> "aborted"

StoppedBySelf == {"stopped", "stoppedAll"}

\* The ends that leave the engine as ScanAborted.
Raised == {"cut"} \cup StoppedBySelf

\* The data of a scan that was not cut short are saved in "judge", so an Abort
\* during the save still counts; then the flag is read, without the lock.  A raised
\* Abort is a result at once, and its data are saved in "judged".
Judge ==
  /\ Alive
  /\ runner.pc = "judge"
  /\ runner' = [runner EXCEPT !.pc = "judged", !.verdict = Outcome]
  /\ srv' = IF runner.how \notin Raised THEN srv
            ELSE [srv EXCEPT
                    !.result[runner.scan] = "aborted",
                    !.stoppedBySelf = IF runner.how \in StoppedBySelf
                                      THEN @ \cup {runner.scan} ELSE @]
  /\ UNCHANGED <<cmd, lab, serving, pressed>>

\* The outcome becomes the result, whatever was acknowledged meanwhile.
Conclude ==
  /\ Alive
  /\ runner.pc = "judged"
  /\ runner' = [runner EXCEPT !.pc = "ended", !.verdict = "none"]
  /\ srv' = [srv EXCEPT
       !.result[runner.scan] = runner.verdict,
       !.lastError = @ \/ runner.verdict = "error",
       !.ask = FALSE, !.faults = FALSE]
  /\ UNCHANGED <<cmd, lab, serving, pressed>>

-----------------------------------------------------------------------------
(* shutdown, Ctrl-C, stop() *)

\* _stop is set: the commander answers no further request.
ShutdownIdle ==
  /\ Listening
  /\ ~srv.busy
  /\ serving' = [serving EXCEPT !.flag = "set"]
  /\ UNCHANGED <<srv, runner, cmd, lab, pressed>>

\* While a scan runs: abort it and the queue, and wait for the runner; the
\* commander goes on.
ShutdownBusy ==
  /\ Listening
  /\ srv.busy
  /\ srv' = AllAborted(srv)
  /\ pressed' = Pressed
  /\ serving' = [serving EXCEPT !.flag = IF @ = "up" /\ serving.main = "loop"
                                         THEN "draining" ELSE @]
  /\ UNCHANGED <<runner, cmd, lab>>

\* The waiter's join returns: the runner has ended, or it took too long.
WaiterStops ==
  /\ serving.flag = "drained" \/ (serving.flag = "draining" /\ ~Patient)
  /\ serving' = [serving EXCEPT !.flag = "set"]
  /\ UNCHANGED <<srv, runner, cmd, lab, pressed>>

\* stop(): abort everything, then see to the runner there is now; the main thread
\* is then at "next".  A waiter of shutdown that still waits, or that begins to
\* from now on, waits for no other runner than stop() does.
StopAll(next) ==
  /\ serving.main = "loop"
  /\ srv' = IF srv.busy THEN AllAborted(srv) ELSE srv
  /\ pressed' = IF srv.busy THEN Pressed ELSE pressed
  /\ serving' = [serving EXCEPT
       !.main = next,
       !.flag = IF @ = "draining" THEN "up" ELSE @,
       !.found = IF runner.pc \in InScan THEN {runner.scan} ELSE {}]
  /\ UNCHANGED <<runner, cmd, lab>>

\* Wrong: stop() does not wait for a runner.
StopsUnjoined == StopAll("joined")

Stops == StopAll(IF runner.pc = "none" THEN "joined" ELSE "join")

Stop == serving.flag = "set" /\ Stops

\* Ctrl-C: stop() all the same, and the commander answers while it waits.
Interrupt == serving.flag # "set" /\ Stops

\* The runner has ended, or it took too long: the commander is told to stop.
StopAnswering ==
  /\ serving.main = "joined" \/ (serving.main = "join" /\ ~Patient)
  /\ serving' = [serving EXCEPT !.main = "closed", !.flag = "set"]
  /\ UNCHANGED <<srv, runner, cmd, lab, pressed>>

\* The process ends, and with it every daemon thread.
Exit ==
  /\ serving.main = "closed"
  /\ serving' = [serving EXCEPT !.main = "exited"]
  /\ UNCHANGED <<srv, runner, cmd, lab, pressed>>

-----------------------------------------------------------------------------
NewServer ==
  [busy |-> FALSE, open |-> FALSE, entries |-> <<>>, qi |-> 0,
   stopping |-> FALSE, abort |-> FALSE, userPause |-> FALSE,
   faults |-> FALSE, ask |-> FALSE, lastError |-> FALSE,
   result |-> [e \in Scans |-> "none"], stoppedBySelf |-> {}, nextId |-> 1]

Init ==
  /\ srv = NewServer
  /\ runner = NoRunner
  /\ cmd = NoCmd
  /\ lab = [hook |-> FALSE, tails |-> 0]
  /\ serving = Up
  /\ pressed = {}

Commander ==
  \/ \E n \in 1 .. MaxSubmit : SubmitBegin(n) \/ AddBegin(n)
  \/ SubmitCommit \/ Refuse
  \/ \E p \in 1 .. Len(srv.entries) + 1 : AddCommit(p)
  \/ \E k \in 1 .. Len(srv.entries) :
       QueueRemove(k) \/ \E to \in 1 .. Len(srv.entries) : QueueMove(k, to)
  \/ Abort \/ StopQueue \/ \E on \in BOOLEAN : Pause(on)
  \/ (\E a \in Answers : AnswerTake(a)) \/ AnswerGive
  \/ ShutdownIdle \/ ShutdownBusy

\* What the runner does by itself, and what it does on seeing an Abort.
Onward ==
  \/ Take \/ QueueEnds \/ GoesOn \/ StopsItself \/ CloseQueue \/ EndQueue
  \/ Begin \/ Claimed \/ NotClaimed \/ AfterDone \/ Judge \/ Conclude
  \/ Resumed \/ AnsweredContinue \/ AnsweredAbort \/ AnsweredAbortAfter

Noticed == SeesAbort \/ CutShort \/ AskingCut \/ AfterCut

Runner ==
  \/ Onward \/ Noticed \/ ClearHook
  \/ RunnerBreaks \/ PointsDone \/ PointsFail \/ StopsBySelf \/ AfterFails
  \/ Hold \/ Fault \/ FaultClears \/ AskAtPoints \/ AskAfter

Process == WaiterStops \/ Interrupt \/ Stop \/ StopAnswering \/ Exit

Next == Commander \/ Runner \/ Process

Spec == Init /\ [][Next]_vars

\* Every hold and every wait polls the Abort flag and the odometer looks at it
\* before each point, so a scan that keeps running passes such a look again
\* and again (SF); the other threads are scheduled (WF).  Nothing says that
\* points get measured, faults clear or operators answer.
Fairness ==
  /\ WF_vars(Onward)
  /\ SF_vars(Noticed)
  /\ WF_vars(WaiterStops \/ Stop \/ StopAnswering \/ Exit)

FairSpec == Spec /\ Fairness

-----------------------------------------------------------------------------
(* Properties *)

Servers ==
  [busy : BOOLEAN, open : BOOLEAN, entries : Seq(Scans), qi : Nat,
   stopping : BOOLEAN, abort : BOOLEAN, userPause : BOOLEAN, faults : BOOLEAN,
   ask : BOOLEAN, lastError : BOOLEAN, result : [Scans -> Results],
   stoppedBySelf : SUBSET Scans, nextId : 1 .. MaxScans + 1]

Runners ==
  [pc : {"none", "pick", "begin", "ended", "ending", "closing"} \cup Scanning,
   scan : 0 .. MaxScans, how : Ends, question : 0 .. MaxQuestions,
   box : Answers \cup {"none"}, verdict : Results]

Requests ==
  [verb : {"none", "submit", "add", "answer"}, scans : Seq(Scans),
   question : 0 .. MaxQuestions, answer : Answers \cup {"none"}]

Stages ==
  [flag : {"up", "draining", "drained", "set"},
   main : {"loop", "join", "joined", "closed", "exited"},
   found : SUBSET Scans]

\* Every field has a value of its kind: the list holds scans, the counters
\* stay within their bounds.
TypeOK ==
  /\ srv \in Servers
  /\ runner \in Runners
  /\ cmd \in Requests
  /\ lab \in [hook : BOOLEAN, tails : Nat]
  /\ serving \in Stages
  /\ pressed \subseteq Scans

\* "So an edit never races the runner into running a scan twice or skipping
\* one": no scan is in the queue twice, those before the current one have
\* their result, those behind it have none.
NeitherTwiceNorSkipped ==
  /\ \A j, k \in DOMAIN srv.entries : srv.entries[j] = srv.entries[k] => j = k
  /\ \A k \in DOMAIN srv.entries :
       LET r == srv.result[srv.entries[k]]
       IN  (k < srv.qi => r # "none") /\ (k > srv.qi => r = "none")

\* Every verb that names "the running scan" (abort, pause, the refusals of the
\* edits, the status) means the one the runner thread is in.
CurrentIsRunning ==
  runner.pc \in InScan \cup {"ended"} =>
    /\ srv.busy
    /\ srv.qi \in DOMAIN srv.entries
    /\ srv.entries[srv.qi] = runner.scan

\* "Refused instead of being accepted and never run": a queue that ended by
\* itself has run every scan it accepted.
AcceptedScansRun ==
  ~srv.busy /\ ~srv.stopping /\ ~srv.lastError =>
    \A k \in DOMAIN srv.entries : srv.result[srv.entries[k]] # "none"

\* A scan whose Abort was acknowledged before the runner looked at the flag for
\* the last time is not "done", whatever it was waiting for; and no scan is
\* aborted but those, and those that a routine or an answer stopped: an Abort
\* never hits the next scan.
AbortHitsItsScan ==
  \A e \in Scans :
    /\ e \in pressed => srv.result[e] # "done"
    /\ srv.result[e] = "aborted" => e \in pressed \cup srv.stoppedBySelf

\* While the engine waits for the operator the question is on show, or its
\* answer is on the way: an answer is never lost, the scan never waits for
\* one that cannot be given.
QuestionCanBeAnswered ==
  runner.pc \in Asking =>
    \/ srv.ask
    \/ runner.box # "none"
    \/ cmd.verb = "answer" /\ cmd.question = runner.question

\* A stop of the queue is final: no scan starts after Stop queue, shutdown, a
\* failed scan or an "abort all".
Starts == runner.pc = "pick" /\ runner'.pc = "begin"

NothingStartsAfterStop ==
  Starts =>
    /\ ~srv.stopping
    /\ runner.how # "stoppedAll"
    /\ \A k \in 1 .. srv.qi : srv.result[srv.entries[k]] # "error"

StopsAreFinal == [][NothingStartsAfterStop]_vars

\* "Lets the after-scan routine run and the data be saved, THEN exit": no scan
\* that stop() found running is cut off by the exit, nor lacks its result then.
DataSavedAtExit ==
  ~Alive =>
    \A e \in serving.found \cap ToSet(srv.entries) :
      /\ ~(runner.pc \in InScan /\ runner.scan = e)
      /\ srv.result[e] # "none" \/ srv.lastError

\* An acknowledged Abort ends the scan it names, paused or not.
AbortTakesEffect ==
  \A e \in Scans :
    (srv.busy /\ e \in pressed \cap Current)
      ~> (srv.result[e] # "none" \/ srv.lastError \/ ~Alive)

\* Stop queue frees the server for the next submit.
StopQueueEnds == (srv.busy /\ srv.stopping) ~> (~srv.busy \/ ~Alive)

\* The launcher's clean stop ends the process by itself.
ShutdownEnds == (serving.flag # "up" \/ serving.main # "loop") ~> ~Alive

\* Neither stop waits for ever, for a scan or for a person.
StopsEnd == StopQueueEnds /\ ShutdownEnds

-----------------------------------------------------------------------------
(* The line of scans the server keeps for its clients: ScanQueue *)

Waiting == IF srv.busy THEN SubSeq(srv.entries, srv.qi + 1, Len(srv.entries))
           ELSE <<>>

Line == INSTANCE ScanQueue WITH
  NoScan <- 0,
  waiting <- Waiting,
  current <- IF runner.pc \in InScan THEN runner.scan ELSE 0,
  seen <- (1 .. srv.nextId - 1) \ ToSet(cmd.scans),
  stopped <- srv.stopping \/ srv.lastError

\* Whatever the commander and the runner do to the list in between each other,
\* the clients see one line: head first, every scan once, edits behind it.
KeepsTheLine == Line!QueueSpec

-----------------------------------------------------------------------------
(* What the documentation says and the code does not do *)

\* "An Abort must reach an instrument that is mid-settle too".
AbortReachesInstruments ==
  Connected /\ runner.pc \in Scanning => lab.hook

=============================================================================
