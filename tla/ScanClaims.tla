----------------------------- MODULE ScanClaims -----------------------------
(***************************************************************************)
(* What a scan has on its instruments: scan_core/instrument.py (claim_scan,*)
(* release_scan, the heartbeat thread, command) and scan_core/lab.py       *)
(* (claim_scan: all the instruments of a scan or none), over the services' *)
(* leases of ControlLease.                                                 *)
(*                                                                         *)
(* A connection has one request socket and one lock, shared by the scan's  *)
(* thread and the heartbeat thread.  A service answers its requests one at *)
(* a time.  While a verb of somebody else keeps it busy the clients give   *)
(* up after their timeout (3 s) and rebuild their socket; the request they *)
(* have given up stays with the service, which carries it out later.       *)
(*                                                                         *)
(* A tick is longer than the request timeout and than the heartbeat's      *)
(* period; Lease is counted in ticks.                                      *)
(***************************************************************************)
EXTENDS Integers, FiniteSets, FiniteSetsExt

CONSTANTS
  Engines,      \* the scan engines, one connection to each instrument each
  Uses,         \* the instruments an engine's scans use; numbers sort as names do
  PC,           \* the PC an engine runs on
  NoPC, Anonymous, Nobody,
  Lease, Forget, Driving,
  MaxScans,     \* how many scans each engine starts
  Slow,         \* the instruments with verbs that outlast the timeout
  MaxBlocks,    \* how many such verbs are called
  None          \* Python's None

ASSUME EnginesAssumption ==
  /\ IsFiniteSet(Engines) /\ Engines # {}
  /\ Nobody \notin Engines /\ Anonymous \notin Engines

ASSUME UsesAssumption == \A e \in Engines : Uses[e] \subseteq Nat /\ Uses[e] # {}

\* A claim outlives one heartbeat that is late (LEASE_S is five times
\* HEARTBEAT_S, CLIENT_FORGET_S three times LEASE_S).
ASSUME LeaseAssumption ==
  /\ Lease \in Nat \ {0} /\ {Forget, Driving} \subseteq Nat
  /\ Lease <= Forget

ASSUME ClaimBoundsAssumption ==
  MaxScans \in [Engines -> Nat] /\ Slow \subseteq Nat /\ MaxBlocks \in Nat

Commands == {"claim_scan", "release_scan", "heartbeat", "write"}
Outcomes == {"done", "refused", "error"}

ASSUME NoneAssumption == None \notin Commands \cup Outcomes

Instruments == UNION {Uses[e] : e \in Engines}

VARIABLES
  leases,    \* services: the lease of each
  inbox,     \* services: the requests that wait to be answered
  busy,      \* services: a long verb of another client is being carried out
  pc,        \* engines: where the scan is
  todo,      \* engines: the instruments still to be claimed
  claimed,   \* engines: the instruments Lab.claim_scan has claimed
  outcome,   \* engines: how the last scan ended
  call,      \* connections: the request whose reply is awaited (_req_lock)
  beating,   \* connections: the heartbeat keeps the claim alive (_scan_beat)
  due,       \* connections: the heartbeat has read that flag and wants the lock
  left,      \* what is left of the bounds
  slipped,   \* history: the claims that a busy service let lapse, or that an old
             \* release ended
  lost       \* history: some request was given up

services == <<leases, inbox, busy>>
scans == <<pc, todo, claimed, outcome>>
connections == <<call, beating, due>>
history == <<slipped, lost>>

vars == <<services, scans, connections, left, history>>

Service(i) ==
  INSTANCE ControlLease
    WITH Clients <- Engines, Machines <- Engines, ScanEngines <- Engines, Mortal <- {},
         lease <- leases[i], up <- Engines, driver <- [by |-> Nobody, age |-> Driving]

-----------------------------------------------------------------------------
(* Requests and the lock of a connection *)

Request(e, cmd, live) == [from |-> e, cmd |-> cmd, live |-> live]

\* Under the lock, on the socket of the connection.
Send(e, i, cmd) ==
  /\ call[e][i] = None
  /\ call' = [call EXCEPT ![e][i] = cmd]
  /\ inbox' = [inbox EXCEPT ![i] = @ \cup {Request(e, cmd, TRUE)}]

Return(e, i) == call' = [call EXCEPT ![e][i] = None]

\* The scan's thread is in no request.
Quiet(e) == \A i \in Uses[e] : call[e][i] \in {None, "heartbeat"}

-----------------------------------------------------------------------------
(* Lab.claim_scan: every instrument, in the order of the names, or none *)

StartScan(e) ==
  /\ pc[e] = "idle" /\ left.scans[e] > 0
  /\ pc' = [pc EXCEPT ![e] = "claiming"]
  /\ todo' = [todo EXCEPT ![e] = Uses[e]]
  /\ outcome' = [outcome EXCEPT ![e] = None]
  /\ left' = [left EXCEPT !.scans[e] = @ - 1]
  /\ UNCHANGED <<services, claimed, connections, history>>

\* Wrong: the instruments in the order of the recipe.
NextToClaimInAnyOrder(e) ==
  IF e = CHOOSE d \in Engines : TRUE THEN Min(todo[e]) ELSE Max(todo[e])

NextToClaim(e) == Min(todo[e])

SendClaim(e) ==
  /\ pc[e] = "claiming" /\ Quiet(e)
  /\ Send(e, NextToClaim(e), "claim_scan")
  /\ UNCHANGED <<leases, busy, scans, beating, due, left, history>>

NextToRelease(instruments) == Min(instruments)

\* release_scan ends the heartbeats of its claim before it asks for the lock.
Silenced(e, instruments) ==
  IF instruments = {} THEN beating
  ELSE [beating EXCEPT ![e][NextToRelease(instruments)] = FALSE]

\* The claimed instruments are given back, also when the scan is refused.
GiveUp(e, why) ==
  /\ pc' = [pc EXCEPT ![e] = IF claimed[e] = {} THEN "idle" ELSE "releasing"]
  /\ outcome' = [outcome EXCEPT ![e] = why]
  /\ beating' = Silenced(e, claimed[e])
  /\ UNCHANGED <<todo, claimed>>

\* Wrong: the claim is not kept alive.
ClaimedSilently(e, i) ==
  /\ claimed' = [claimed EXCEPT ![e] = @ \cup {i}]
  /\ todo' = [todo EXCEPT ![e] = @ \ {i}]
  /\ pc' = [pc EXCEPT ![e] = IF todo'[e] = {} THEN "running" ELSE @]
  /\ UNCHANGED <<outcome, beating>>

Claimed(e, i) ==
  /\ claimed' = [claimed EXCEPT ![e] = @ \cup {i}]
  /\ beating' = [beating EXCEPT ![e][i] = TRUE]
  /\ todo' = [todo EXCEPT ![e] = @ \ {i}]
  /\ pc' = [pc EXCEPT ![e] = IF todo'[e] = {} THEN "running" ELSE @]
  /\ UNCHANGED outcome

\* The scan changes its instruments until it ends, in whatever way.
SendWrite(e) ==
  /\ pc[e] = "running" /\ Quiet(e)
  /\ \E i \in Uses[e] : Send(e, i, "write")
  /\ UNCHANGED <<leases, busy, scans, beating, due, left, history>>

ScanEnds(e) ==
  /\ pc[e] = "running" /\ Quiet(e)
  /\ GiveUp(e, "done")
  /\ UNCHANGED <<services, call, due, left, history>>

\* release(): one instrument after the other, errors swallowed.
SendRelease(e) ==
  /\ pc[e] = "releasing" /\ Quiet(e)
  /\ Send(e, NextToRelease(claimed[e]), "release_scan")
  /\ UNCHANGED <<leases, busy, scans, beating, due, left, history>>

\* Wrong: the first instrument given back ends it.
LetGoOfOne(e, i) ==
  /\ claimed' = [claimed EXCEPT ![e] = @ \ {i}]
  /\ pc' = [pc EXCEPT ![e] = "idle"]
  /\ beating' = Silenced(e, claimed'[e])
  /\ UNCHANGED <<todo, outcome>>

LetGo(e, i) ==
  /\ claimed' = [claimed EXCEPT ![e] = @ \ {i}]
  /\ pc' = [pc EXCEPT ![e] = IF claimed'[e] = {} THEN "idle" ELSE @]
  /\ beating' = Silenced(e, claimed'[e])
  /\ UNCHANGED <<todo, outcome>>

-----------------------------------------------------------------------------
(* A service answers *)

\* What a verb makes of the lease l it finds, and whether the reply says ok.  The
\* driving mark a change leaves is only ever shown, and left out.
Verb(i, l, e, cmd) ==
  CASE cmd = "claim_scan" ->
         [lease |-> Service(i)!Claim(l, e), ok |-> Service(i)!ClaimGranted(l, e)]
    [] cmd = "release_scan" ->
         [lease |-> IF l.scan = e THEN Service(i)!EndScan(l) ELSE l, ok |-> TRUE]
    [] cmd = "write" ->
         [lease |-> l, ok |-> Service(i)!Passes(l, e)]
    [] OTHER -> [lease |-> l, ok |-> TRUE]

\* What the scan's thread does with the reply.
Reply(e, i, cmd, ok) ==
  CASE cmd = "claim_scan" /\ ok -> Claimed(e, i)
    [] cmd = "claim_scan" /\ ~ok -> GiveUp(e, "refused")
    [] cmd = "write" /\ ~ok -> GiveUp(e, "error")
    [] cmd = "release_scan" -> LetGo(e, i)
    [] OTHER -> UNCHANGED <<scans, beating>>

\* Request r of e is answered: the verb has made done of the lease.  The reply
\* reaches e if it still waits for it.
Answer(i, e, r, done) ==
  LET granted == r.cmd = "claim_scan" /\ done.ok
  IN  /\ leases' = [leases EXCEPT ![i] = done.lease]
      /\ inbox' = [inbox EXCEPT ![i] = @ \ {r}]
      /\ slipped' =
           IF granted THEN slipped \ {<<e, i>>}
           ELSE IF r.cmd = "release_scan" /\ ~r.live /\ i \in claimed[e]
           THEN slipped \cup {<<e, i>>} ELSE slipped
      /\ IF r.live THEN Return(e, i) /\ Reply(e, i, r.cmd, done.ok)
         ELSE UNCHANGED <<scans, call, beating>>

\* The service takes one request of e's connections, an old one or the newest
\* in either order.
Handle(i, e) ==
  /\ ~busy[i]
  /\ \E r \in {q \in inbox[i] : q.from = e}, expired \in {Service(i)!Expire(leases[i])} :
     \E l \in {Service(i)!Seen(expired, e)} : \E done \in {Verb(i, l, e, r.cmd)} :
       Answer(i, e, r, done)
  /\ UNCHANGED <<busy, due, left, lost>>

-----------------------------------------------------------------------------
(* The heartbeat thread, and requests that time out *)

\* The heartbeat thread reads the flag, then waits for the lock.
Beat(e, i) ==
  /\ beating[e][i] /\ ~due[e][i] /\ call[e][i] # "heartbeat"
  /\ leases[i].heard[e] > 0
  /\ due' = [due EXCEPT ![e][i] = TRUE]
  /\ UNCHANGED <<services, scans, call, beating, left, history>>

\* It sends what it had decided to, whatever has become of the claim.
SendBeat(e, i) ==
  /\ due[e][i]
  /\ Send(e, i, "heartbeat")
  /\ due' = [due EXCEPT ![e][i] = FALSE]
  /\ UNCHANGED <<leases, busy, scans, beating, left, history>>

\* Wrong: the socket that waits in vain is kept.
TimeOutHoldingLock(e, i) ==
  LET r == Request(e, call[e][i], TRUE)
  IN
  /\ call[e][i] # None /\ r \in inbox[i] /\ busy[i]
  /\ inbox' = [inbox EXCEPT ![i] = (@ \ {r}) \cup {[r EXCEPT !.live = FALSE]}]
  /\ lost' = TRUE
  /\ UNCHANGED <<leases, busy, scans, connections, left, slipped>>

\* No reply: the socket is rebuilt, the service keeps the request.  A claim
\* that timed out counts as not claimed; a release that did, as done.
TimeOut(e, i) ==
  LET cmd == call[e][i]
      r == Request(e, cmd, TRUE)
  IN
  /\ call[e][i] # None /\ r \in inbox[i] /\ busy[i]
  /\ inbox' = [inbox EXCEPT ![i] = (@ \ {r}) \cup {[r EXCEPT !.live = FALSE]}]
  /\ Return(e, i)
  /\ lost' = TRUE
  /\ \/ cmd = "heartbeat" /\ UNCHANGED <<scans, beating>>
     \/ cmd \in {"claim_scan", "write"} /\ GiveUp(e, "error")
     \/ cmd = "release_scan" /\ LetGo(e, i)
  /\ UNCHANGED <<leases, busy, due, left, slipped>>

-----------------------------------------------------------------------------
(* The services and time *)

\* A verb of another client takes long.
Block(i) ==
  /\ i \in Slow /\ ~busy[i] /\ left.blocks > 0
  /\ busy' = [busy EXCEPT ![i] = TRUE]
  /\ left' = [left EXCEPT !.blocks = @ - 1]
  /\ UNCHANGED <<leases, inbox, scans, connections, history>>

Unblock(i) ==
  /\ busy[i]
  /\ busy' = [busy EXCEPT ![i] = FALSE]
  /\ UNCHANGED <<leases, inbox, scans, connections, left, history>>

\* The publisher's thread: the lease expires while the service is busy too.
Status(i) ==
  /\ leases' = [leases EXCEPT ![i] = Service(i)!Expire(@)]
  /\ UNCHANGED <<inbox, busy, scans, connections, left, history>>

Aged(l) ==
  LET older(age, limit) == IF age > limit THEN age ELSE age + 1
  IN  [l EXCEPT !.holderAge = IF l.holder = Nobody THEN 0 ELSE older(@, Lease),
                !.scanAge = IF l.scan = Nobody THEN 0 ELSE older(@, Lease),
                !.heard = [e \in Engines |-> older(@[e], Forget)],
                !.changed = [e \in Engines |-> older(@[e], Driving)]]

\* Within a tick a free service answers everybody, whoever waits for a busy one
\* gives up, and each connection that has to sends a heartbeat.
Tick ==
  /\ \A e \in Engines : \A i \in Uses[e] :
       /\ call[e][i] = None /\ ~due[e][i]
       /\ beating[e][i] /\ ~busy[i] => leases[i].heard[e] = 0
  /\ \A i \in Instruments : busy[i] \/ inbox[i] = {}
  /\ leases' = [i \in Instruments |-> Aged(leases[i])]
  /\ slipped' = slipped \cup
       {<<leases[i].scan, i>> : i \in {j \in Instruments : busy[j] /\ leases'[j].scanAge > Lease}}
  /\ UNCHANGED <<inbox, busy, scans, connections, left, lost>>

-----------------------------------------------------------------------------
(* The specification *)

Init ==
  /\ leases = [i \in Instruments |-> Service(i)!NewLease]
  /\ inbox = [i \in Instruments |-> {}]
  /\ busy = [i \in Instruments |-> FALSE]
  /\ pc = [e \in Engines |-> "idle"]
  /\ todo = [e \in Engines |-> {}]
  /\ claimed = [e \in Engines |-> {}]
  /\ outcome = [e \in Engines |-> None]
  /\ call = [e \in Engines |-> [i \in Uses[e] |-> None]]
  /\ beating = [e \in Engines |-> [i \in Uses[e] |-> FALSE]]
  /\ due = [e \in Engines |-> [i \in Uses[e] |-> FALSE]]
  /\ left = [scans |-> MaxScans, blocks |-> MaxBlocks]
  /\ slipped = {} /\ lost = FALSE

Next ==
  \/ \E e \in Engines :
       StartScan(e) \/ SendClaim(e) \/ SendWrite(e) \/ ScanEnds(e) \/ SendRelease(e)
  \/ \E e \in Engines : \E i \in Uses[e] : Beat(e, i) \/ SendBeat(e, i) \/ TimeOut(e, i)
  \/ \E i \in Instruments, e \in Engines : Handle(i, e)
  \/ \E i \in Instruments : Block(i) \/ Unblock(i) \/ Status(i)
  \/ Tick

Spec == Init /\ [][Next]_vars

-----------------------------------------------------------------------------
(* Properties *)

Requests == [from : Engines, cmd : Commands, live : BOOLEAN]

\* Every variable stays in its range; a scan that is over has given back every
\* instrument it had claimed.
TypeOK ==
  /\ \A i \in Instruments : leases[i] \in Service(i)!Leases
  /\ inbox \in [Instruments -> SUBSET Requests]
  /\ busy \in [Instruments -> BOOLEAN]
  /\ pc \in [Engines -> {"idle", "claiming", "running", "releasing"}]
  /\ outcome \in [Engines -> Outcomes \cup {None}]
  /\ \A e \in Engines :
       /\ {todo[e], claimed[e]} \subseteq SUBSET Uses[e]
       /\ pc[e] = "idle" => claimed[e] = {}
       /\ call[e] \in [Uses[e] -> Commands \cup {None}]
       /\ {beating[e], due[e]} \subseteq [Uses[e] -> BOOLEAN]
  /\ \A e \in Engines : left.scans[e] \in 0..MaxScans[e]
  /\ left.blocks \in 0..MaxBlocks
  /\ slipped \subseteq Engines \X Instruments /\ lost \in BOOLEAN

\* The claims a scan works under.
HoldsClaims(e, instruments) == \A i \in instruments : leases[i].scan = e

\* A running scan holds every one of its instruments, unless a service was kept
\* busy until the claim lapsed or carried out an old release after the claim.
ClaimKept ==
  \A e \in Engines :
    pc[e] = "running" => HoldsClaims(e, {i \in Uses[e] : <<e, i>> \notin slipped})

\* Of scans that want the same instruments at once not every one is refused
\* (the first scan of each engine, while no request is lost).
SomeScanRuns ==
  ~lost /\ (\A e \in Engines : left.scans[e] + 1 >= MaxScans[e]) =>
    \E e \in Engines : outcome[e] # "refused"

\* What a scan that is over or was refused still has on an instrument, because
\* its claim or its release timed out, is not kept alive and the lease ends it: no
\* more than one heartbeat follows, which had read the flag before it fell.
LeftoversLapse ==
  \A e \in Engines : \A i \in Uses[e] :
    pc[e] = "idle" /\ leases[i].scan = e =>
      /\ ~beating[e][i]
      /\ call[e][i] \in {None, "heartbeat"}
      /\ call[e][i] = "heartbeat" => ~due[e][i]

\* The lock of a connection is held only for a request that will be answered
\* or timed out: the scan and its heartbeats never wait for a reply to an old one.
RepliesCome ==
  \A e \in Engines : \A i \in Uses[e] :
    call[e][i] # None => Request(e, call[e][i], TRUE) \in inbox[i]

\* A request that timed out locks up neither the instrument nor the connection.
TimeoutsLockNothing == LeftoversLapse /\ RepliesCome

\* What the code does not keep: the claim is there until release_scan.
ClaimedUntilReleased ==
  \A e \in Engines : pc[e] = "running" => HoldsClaims(e, Uses[e])

=============================================================================
