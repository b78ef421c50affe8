----------------------------- MODULE ScanQueue ------------------------------
(***************************************************************************)
(* What the scan server promises to whoever submits scans (scan_core,      *)
(* ScanServer): scans wait in a line; the head of the line runs, one at a  *)
(* time; every scan that was accepted runs at most once, in the order of   *)
(* the line when its turn comes; the line is edited behind the running     *)
(* scan only, and it is given up only when the queue was stopped or broke. *)
(***************************************************************************)
EXTENDS Naturals, Sequences, SequencesExt

CONSTANTS Scans, NoScan

VARIABLES
  waiting,   \* the scans still to run, in order
  current,   \* the scan that runs, or NoScan
  seen,      \* scans ever submitted or added, also those refused
  stopped    \* the queue was stopped, or a scan failed

queueVars == <<waiting, current, seen, stopped>>

QueueInit ==
  /\ waiting = <<>>
  /\ current = NoScan
  /\ seen = {}
  /\ stopped = FALSE

\* n new scans go into the line at place p.
Joins(new, p, n) ==
  /\ new = SubSeq(waiting, 1, p - 1) \o SubSeq(new, p, p + n - 1)
             \o SubSeq(waiting, p, Len(waiting))
  /\ ToSet(SubSeq(new, p, p + n - 1)) \cap seen = {}
  /\ IsInjective(new)

\* A submit to an idle server, which forgets an earlier stop.
Submit ==
  /\ waiting = <<>>
  /\ current = NoScan
  /\ Len(waiting') > 0
  /\ Joins(waiting', 1, Len(waiting'))
  /\ seen' = seen \cup ToSet(waiting')
  /\ stopped' = FALSE
  /\ UNCHANGED current

\* Scans added while a queue runs; one may still get in between a failure and
\* the runner's noticing it.
Add ==
  /\ Len(waiting') > Len(waiting)
  /\ \E p \in 1 .. Len(waiting) + 1 :
       Joins(waiting', p, Len(waiting') - Len(waiting))
  /\ seen' = seen \cup ToSet(waiting')
  /\ UNCHANGED <<current, stopped>>

\* A refused submit or add; its scans never come back.
Refused ==
  /\ seen \subseteq seen'
  /\ UNCHANGED <<waiting, current, stopped>>

TakeOut ==
  /\ \E k \in 1 .. Len(waiting) : waiting' = RemoveAt(waiting, k)
  /\ UNCHANGED <<current, seen, stopped>>

Reorder ==
  /\ \E k, to \in 1 .. Len(waiting) :
       waiting' = InsertAt(RemoveAt(waiting, k), to, waiting[k])
  /\ UNCHANGED <<current, seen, stopped>>

Start ==
  /\ ~stopped
  /\ current = NoScan
  /\ waiting # <<>>
  /\ current' = Head(waiting)
  /\ waiting' = Tail(waiting)
  /\ UNCHANGED <<seen, stopped>>

\* The scan ends; a failure stops the queue.
Finish ==
  /\ current # NoScan
  /\ current' = NoScan
  /\ stopped' \in {stopped, TRUE}
  /\ UNCHANGED <<waiting, seen>>

StopLine == stopped' = TRUE /\ UNCHANGED <<waiting, current, seen>>

\* The rest of a stopped queue is given up.
GiveUp ==
  /\ stopped
  /\ current = NoScan
  /\ waiting' = <<>>
  /\ UNCHANGED <<current, seen, stopped>>

QueueNext ==
  \/ Submit \/ Add \/ Refused \/ TakeOut \/ Reorder
  \/ Start \/ Finish \/ StopLine \/ GiveUp

QueueSpec == QueueInit /\ [][QueueNext]_queueVars

=============================================================================
