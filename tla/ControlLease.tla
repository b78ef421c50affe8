---------------------------- MODULE ControlLease ----------------------------
(***************************************************************************)
(* The service side of "one controller, everyone else a viewer":           *)
(* suite_common/control.py, class ControlLease.  Every instrument service  *)
(* owns one lease.  Clients of several PCs send it requests; each request  *)
(* is one critical section of ControlLease._lock, so each is one action.   *)
(* The status publisher enters the same lock between requests (Status).    *)
(*                                                                         *)
(* Time is kept as ages: "now - x_seen" of the code is the field that      *)
(* counts the ticks since x was heard from, saturating one above the limit *)
(* it is compared with.                                                    *)
(***************************************************************************)
EXTENDS Naturals, FiniteSets

CONSTANTS
  Clients,      \* client objects that may ever connect, one identity each
  PC,           \* the PC part of each client's "host"
  NoPC,         \* pc_of(identity) = "": a client that names no host
  Machines,     \* clients whose identity says kind = "machine"
  ScanEngines,  \* clients whose identity says role = "scan"
  Mortal,       \* clients that may die without saying so (bounds the crashes)
  Anonymous,    \* a request without a usable "client" (identity None)
  Nobody,       \* None, for a holder or a scan claim
  Lease,        \* lease_s, in ticks
  Forget,       \* CLIENT_FORGET_S, in ticks
  Driving       \* DRIVING_S, in ticks

ASSUME ClientsAssumption ==
  /\ Machines \subseteq Clients
  /\ ScanEngines \subseteq Clients
  /\ Mortal \subseteq Clients
  /\ Anonymous \notin Clients
  /\ Nobody \notin Clients
  /\ Anonymous # Nobody

ASSUME TimesAssumption ==
  /\ Lease \in Nat
  /\ Forget \in Nat
  /\ Driving \in Nat
  /\ Lease <= Forget
  /\ Driving <= Forget

VARIABLES
  lease,    \* the fields of the ControlLease object
  up,       \* the clients whose process still runs
  driver    \* history: who changed the instrument lately, and how long ago

vars == <<lease, up, driver>>

-----------------------------------------------------------------------------
(* The clients and their PCs *)

\* Two identities on the same PC; an unknown PC matches nothing, itself
\* included.
SamePC(c, d) == PC[c] # NoPC /\ PC[c] = PC[d]

\* The request comes from the holder itself or from a window on its PC.
Holds(l, c) ==
  /\ c # Anonymous
  /\ l.holder # Nobody
  /\ \/ c = l.holder
     \/ SamePC(c, l.holder)

-----------------------------------------------------------------------------
(* What every request does first: expire, then mark the sender as seen *)

\* Control goes back to nobody.
Freed(l) == [l EXCEPT !.holder = Nobody, !.byScan = FALSE, !.holderAge = 0]

\* Wrong: the control a scan took for itself is not given back.
EndScanKeepingControl(l) == [l EXCEPT !.scan = Nobody, !.scanAge = 0]

\* The scan claim ends, and with it the control the scan took for itself.
EndScan(l) ==
  LET ended == [l EXCEPT !.scan = Nobody, !.scanAge = 0]
  IN  IF l.byScan /\ l.holder = l.scan THEN Freed(ended) ELSE ended

HolderLapsed(l) == l.holder # Nobody /\ l.holderAge > Lease

ScanLapsed(l) == l.scan # Nobody /\ l.scanAge > Lease

\* Wrong: a client is forgotten when the time is up, not past it.
ForgetClientsEarly(l) ==
  LET gone == {c \in l.listed : l.heard[c] >= Forget}
  IN  [l EXCEPT !.listed = @ \ gone,
                !.changed = [c \in Clients |->
                               IF c \in gone THEN Driving + 1 ELSE @[c]]]

\* Clients not heard from drop off the list, with their driving mark.
ForgetClients(l) ==
  LET gone == {c \in l.listed : l.heard[c] > Forget}
  IN  [l EXCEPT !.listed = @ \ gone,
                !.changed = [c \in Clients |->
                               IF c \in gone THEN Driving + 1 ELSE @[c]]]

Expire(l) ==
  LET l1 == IF HolderLapsed(l) THEN Freed(l) ELSE l
      l2 == IF ScanLapsed(l1) THEN EndScan(l1) ELSE l1
  IN  ForgetClients(l2)

\* The sender joins the client list; its word keeps the lease and the claim
\* alive if it may.
Heard(l, c, keepsControl, keepsScan) ==
  [l EXCEPT !.listed = @ \cup {c},
            !.heard = [d \in Clients |-> IF d = c THEN 0 ELSE @[d]],
            !.holderAge = IF keepsControl THEN 0 ELSE @,
            !.scanAge = IF keepsScan THEN 0 ELSE @]

\* Wrong: only the window that took control keeps the lease alive.
SeenByWindow(l, c) ==
  IF c = Anonymous THEN l ELSE Heard(l, c, l.holder = c, l.scan = c)

\* Wrong: whoever talks to the service keeps the holder's lease alive.
SeenByAnyone(l, c) ==
  IF c = Anonymous THEN l ELSE Heard(l, c, TRUE, l.scan = c)

\* Any client on the holder's PC keeps the lease alive; only the very client
\* that claimed the scan keeps the claim alive.
Seen(l, c) ==
  IF c = Anonymous THEN l
  ELSE Heard(l, c, l.holder # Nobody /\ SamePC(l.holder, c), l.scan = c)

\* The lease as the verb of a request from c finds it.
Entered(c) == Seen(Expire(lease), c)

-----------------------------------------------------------------------------
(* The verbs, as functions of the lease they find *)

\* take_control: nothing changes for a client whose PC already holds control;
\* otherwise it must be free, or taken by force.
TakeGranted(l, c, force) ==
  c # Anonymous /\ (Holds(l, c) \/ l.holder = Nobody \/ force)

Take(l, c, force) ==
  IF ~TakeGranted(l, c, force) \/ Holds(l, c) THEN l
  ELSE [l EXCEPT !.holder = c, !.byScan = FALSE, !.holderAge = 0]

\* Wrong: the claim looks only at who is in control.
ClaimGrantedDuringScan(l, c) ==
  c # Anonymous /\ (l.holder = Nobody \/ SamePC(l.holder, c))

\* claim_scan: no other scan, and no other PC in control.
ClaimGranted(l, c) ==
  /\ c # Anonymous
  /\ l.scan \in {Nobody, c}
  /\ l.holder = Nobody \/ SamePC(l.holder, c)

Claim(l, c) ==
  IF ~ClaimGranted(l, c) THEN l
  ELSE LET held == IF l.holder = Nobody
                   THEN [l EXCEPT !.holder = c, !.byScan = TRUE, !.holderAge = 0]
                   ELSE l
       IN  [held EXCEPT !.scan = c, !.scanAge = 0]

\* The gate of a verb that changes something: TRUE when the service goes on to
\* carry it out.
Passes(l, c) ==
  /\ ~(c \in ScanEngines /\ l.scan \notin {Nobody, c})
  /\ \/ c \in Machines
     \/ l.holder = Nobody
     \/ Holds(l, c)

\* A machine that changed something is shown as driving from now on.
Marked(l, c) == IF c \in Machines THEN [l EXCEPT !.changed[c] = 0] ELSE l

-----------------------------------------------------------------------------
(* Requests.  A request of a client needs its process to be running.  *)

Alive(c) == c \in up \cup {Anonymous}

\* heartbeat, clients, and every verb is_write() lets through for everyone:
\* reads, the module's safety verbs, shutdown.
Heartbeat(c) ==
  /\ Alive(c)
  /\ lease' = Entered(c)
  /\ UNCHANGED <<up, driver>>

TakeControl(c, force) ==
  /\ Alive(c)
  /\ lease' = Take(Entered(c), c, force)
  /\ UNCHANGED <<up, driver>>

\* Wrong: control is released without asking who releases it.
ReleaseByAnyone(c) ==
  /\ Alive(c)
  /\ lease' = Freed(Entered(c))
  /\ UNCHANGED <<up, driver>>

ReleaseControl(c) ==
  /\ Alive(c)
  /\ LET l == Entered(c)
     IN  lease' = IF Holds(l, c) THEN Freed(l) ELSE l
  /\ UNCHANGED <<up, driver>>

ClaimScan(c) ==
  /\ Alive(c)
  /\ lease' = Claim(Entered(c), c)
  /\ UNCHANGED <<up, driver>>

ReleaseScan(c) ==
  /\ Alive(c)
  /\ LET l == Entered(c)
     IN  lease' = IF c # Anonymous /\ l.scan = c THEN EndScan(l) ELSE l
  /\ UNCHANGED <<up, driver>>

\* A verb that changes the instrument: carried out or refused.
Write(c) ==
  /\ Alive(c)
  /\ LET l == Entered(c)
     IN  IF Passes(l, c)
         THEN /\ lease' = Marked(l, c)
              /\ driver' = [by |-> c, age |-> 0]
         ELSE /\ lease' = l
              /\ UNCHANGED driver
  /\ UNCHANGED up

-----------------------------------------------------------------------------
(* The publisher thread, the passage of time, and clients that die *)

Status ==
  /\ lease' = Expire(lease)
  /\ UNCHANGED <<up, driver>>

\* Nobody changed the instrument within DRIVING_S.
NoDriver == [by |-> Nobody, age |-> Driving]

Older(age, limit) == IF age > limit THEN age ELSE age + 1

Tick ==
  /\ lease' = [lease EXCEPT
                 !.holderAge = IF lease.holder = Nobody THEN 0
                               ELSE Older(@, Lease),
                 !.scanAge = IF lease.scan = Nobody THEN 0
                             ELSE Older(@, Lease),
                 !.heard = [c \in Clients |-> Older(@[c], Forget)],
                 !.changed = [c \in Clients |-> Older(@[c], Driving)]]
  /\ driver' = IF driver.age < Driving THEN [driver EXCEPT !.age = @ + 1]
               ELSE NoDriver
  /\ UNCHANGED up

\* A program ends without releasing anything.  A restarted one comes back with
\* a fresh id, that is, as another member of Clients.
Crash(c) ==
  /\ c \in up \cap Mortal
  /\ up' = up \ {c}
  /\ UNCHANGED <<lease, driver>>

-----------------------------------------------------------------------------
NewLease ==
  [holder |-> Nobody, byScan |-> FALSE, holderAge |-> 0,
   scan |-> Nobody, scanAge |-> 0,
   listed |-> {},
   heard |-> [c \in Clients |-> Forget + 1],
   changed |-> [c \in Clients |-> Driving + 1]]

Init ==
  /\ lease = NewLease
  /\ up = Clients
  /\ driver = NoDriver

\* What the client programs send: every client may talk and try to write;
\* GUIs, scripts and the anonymous take and release control; scan engines claim
\* (a suite's own "Take control" button sends its GUI identity, another client).
Next ==
  \/ \E c \in Clients \cup {Anonymous} : Heartbeat(c) \/ Write(c)
  \/ \E c \in (Clients \ ScanEngines) \cup {Anonymous} :
       \/ \E force \in BOOLEAN : TakeControl(c, force)
       \/ ReleaseControl(c)
  \/ \E c \in ScanEngines : ClaimScan(c) \/ ReleaseScan(c)
  \/ \E c \in Clients : Crash(c)
  \/ Status
  \/ Tick

Spec == Init /\ [][Next]_vars

\* Time passes and the publisher thread of a running service keeps publishing.
\* Nothing is assumed of the clients.
FairSpec == Spec /\ WF_vars(Tick) /\ WF_vars(Status)

-----------------------------------------------------------------------------
(* Properties *)

\* The values a lease can have.
Leases ==
  [holder : Clients \cup {Nobody}, byScan : BOOLEAN, holderAge : 0 .. Lease + 1,
   scan : Clients \cup {Nobody}, scanAge : 0 .. Lease + 1,
   listed : SUBSET Clients,
   heard : [Clients -> 0 .. Forget + 1],
   changed : [Clients -> 0 .. Driving + 1]]

\* Every variable stays in its range (the type invariant).
TypeOK ==
  /\ lease \in Leases
  /\ up \subseteq Clients
  /\ driver \in [by : Clients \cup {Anonymous, Nobody}, age : 0 .. Driving]

\* The age of the lease is the silence of the holder's PC: no window of it was
\* heard from more recently, and as long as the lease has not run out the
\* holder or another window of its PC was heard from that recently.
MeasuresPC(l) ==
  l.holder # Nobody =>
    /\ \A c \in l.listed : SamePC(l.holder, c) => l.holderAge <= l.heard[c]
    /\ l.holderAge <= Lease =>
         \E c \in l.listed :
           (c = l.holder \/ SamePC(c, l.holder)) /\ l.heard[c] <= l.holderAge

\* The age of the claim is the silence of the one client that owns it, and
\* that client is on the client list.
MeasuresScan(l) ==
  l.scan # Nobody =>
    /\ l.scan \in l.listed
    /\ l.scanAge = IF l.heard[l.scan] > Lease THEN Lease + 1
                   ELSE l.heard[l.scan]

\* What _expire compares with lease_s is the silence of the holder's whole PC
\* and of the scanning client, kept right by _seen, _take, _claim_scan and the
\* order "expire, then seen" of handle().
LeaseMeasuresSilence == MeasuresPC(lease) /\ MeasuresScan(lease)

\* Control that a scan took only for itself never outlives that scan's claim:
\* whatever ends the claim (_end_scan, _expire, a forced take) ends it too.
ByScanEnds(l) == l.byScan => l.holder # Nobody /\ l.scan = l.holder

ByScanOnlyDuringScan == ByScanEnds(lease)

\* Control leaves a holder only by a release from its own PC, a forced take,
\* the silence of its PC, or the end of the scan it was taken for.
HandsOver ==
  lease.holder # Nobody /\ lease'.holder # lease.holder =>
    \/ HolderLapsed(lease)
    \/ lease.byScan /\ ScanLapsed(lease)
    \/ lease.byScan /\ ReleaseScan(lease.scan)
    \/ \E c \in Clients :
         \/ TakeControl(c, TRUE)
         \/ ReleaseControl(c) /\ (c = lease.holder \/ SamePC(c, lease.holder))

ControlMovesDeliberately == [][HandsOver]_vars

\* A scan claim ends only by its owner's release or its owner's silence, so
\* no second scan gets in while the first one is alive.
ClaimPasses ==
  lease.scan # Nobody /\ lease'.scan # lease.scan =>
    ScanLapsed(lease) \/ ReleaseScan(lease.scan)

OneScanAtATime == [][ClaimPasses]_vars

\* "A stage moving under a person's GUI is never a mystery": a machine that
\* changed the instrument within DRIVING_S is on the status's client list, marked
\* as driving, whatever else the service was asked and whomever it forgot since.
MovesAreShown ==
  driver.by \in Machines =>
    driver.by \in lease.listed /\ lease.changed[driver.by] <= Driving

\* A holder whose whole PC has died loses control: nothing stays locked.  (Only
\* the mortal can have died.)
PCDead(c) == \A d \in up : d # c /\ ~SamePC(c, d)

SilentPCLosesControl ==
  \A c \in Mortal : (lease.holder = c /\ PCDead(c)) ~> lease.holder # c

\* A scan whose process has died frees the instrument for the next scan.
CrashedScanFreesInstrument ==
  \A c \in Mortal : (lease.scan = c /\ c \notin up) ~> lease.scan # c

\* Whatever dies without giving anything back, the service lets both go.
DeadLockNothing == SilentPCLosesControl /\ CrashedScanFreesInstrument

=============================================================================
