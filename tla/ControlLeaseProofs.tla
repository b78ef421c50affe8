------------------------- MODULE ControlLeaseProofs -------------------------
(***************************************************************************)
(* Proofs about ControlLease, for every set of clients, every assignment   *)
(* of PCs, machines and scan engines, and every lease_s, CLIENT_FORGET_S   *)
(* and DRIVING_S with lease_s <= CLIENT_FORGET_S.                          *)
(*                                                                         *)
(* Sound(l) is what every critical section of the lock finds and leaves.   *)
(* A handler is a composition of functions of the lease, so each of them   *)
(* gets a lemma "keeps Sound", and a step of the specification composes    *)
(* the lemmas of the functions its handler calls.                          *)
(***************************************************************************)
EXTENDS ControlLease, TLAPS

Sound(l) == l \in Leases /\ MeasuresPC(l) /\ MeasuresScan(l) /\ ByScanEnds(l)

\* What _seen leaves behind for the verb of the same request.
Fresh(l, c) == c \in Clients /\ c \in l.listed /\ l.heard[c] = 0

-----------------------------------------------------------------------------
(* The functions a handler is made of *)

\* The ages a function of the lease writes are in range.
LEMMA Ages ==
  /\ 0 \in 0 .. Lease + 1
  /\ 0 \in 0 .. Forget + 1
  /\ 0 \in 0 .. Driving + 1
  /\ Driving + 1 \in 0 .. Driving + 1
  BY TimesAssumption

\* Giving control back keeps a sound lease sound.
LEMMA FreedSound == ASSUME NEW l, Sound(l) PROVE Sound(Freed(l))
<1>1. Freed(l) \in Leases
  BY Ages DEF Sound, Freed, Leases
<1>2. MeasuresPC(Freed(l)) /\ MeasuresScan(Freed(l)) /\ ByScanEnds(Freed(l))
  BY DEF Sound, Freed, Leases, MeasuresPC, MeasuresScan, ByScanEnds
<1> QED BY <1>1, <1>2 DEF Sound

\* Ending the scan claim keeps a sound lease sound.
LEMMA EndScanSound == ASSUME NEW l, Sound(l) PROVE Sound(EndScan(l))
<1> DEFINE ended == [l EXCEPT !.scan = Nobody, !.scanAge = 0]
<1>0. ended \in Leases
  BY Ages DEF Sound, Leases
<1>1. MeasuresPC(ended) /\ MeasuresScan(ended)
  BY DEF Sound, Leases, MeasuresPC, MeasuresScan
<1>2. CASE l.byScan /\ l.holder = l.scan
  <2>1. Freed(ended) \in Leases
    BY <1>0, Ages DEF Freed, Leases
  <2>2. /\ MeasuresPC(Freed(ended))
        /\ MeasuresScan(Freed(ended))
        /\ ByScanEnds(Freed(ended))
    BY <1>0 DEF Freed, Leases, MeasuresPC, MeasuresScan, ByScanEnds
  <2> QED BY <1>2, <2>1, <2>2 DEF EndScan, Sound
<1>3. CASE ~(l.byScan /\ l.holder = l.scan)
  <2>1. ByScanEnds(ended)
    BY <1>3 DEF Sound, ByScanEnds, Leases
  <2> QED BY <1>0, <1>1, <1>3, <2>1 DEF EndScan, Sound
<1> QED BY <1>2, <1>3

\* Dropping silent clients from the list keeps a sound lease sound, once a
\* lapsed claim is gone: the owner of a live claim is never among them.
LEMMA ForgetSound ==
  ASSUME NEW l, Sound(l), ~ScanLapsed(l) PROVE Sound(ForgetClients(l))
<1> DEFINE gone == {c \in l.listed : l.heard[c] > Forget}
           f == ForgetClients(l)
<1>1. f \in Leases
  BY Ages DEF Sound, ForgetClients, Leases
<1>2. /\ f.holder = l.holder /\ f.holderAge = l.holderAge /\ f.heard = l.heard
      /\ f.scan = l.scan /\ f.scanAge = l.scanAge /\ f.byScan = l.byScan
      /\ f.listed = l.listed \ gone
  BY DEF Sound, ForgetClients, Leases
<1>3. MeasuresPC(f)
  <2> SUFFICES ASSUME l.holder # Nobody,
                      l.holderAge <= Lease
               PROVE  \E c \in f.listed :
                        /\ c = l.holder \/ SamePC(c, l.holder)
                        /\ l.heard[c] <= l.holderAge
    BY <1>2 DEF MeasuresPC, Sound
  <2>1. PICK c \in l.listed : /\ c = l.holder \/ SamePC(c, l.holder)
                              /\ l.heard[c] <= l.holderAge
    BY DEF Sound, MeasuresPC
  <2>2. c \notin gone
    BY <2>1, TimesAssumption DEF Sound, Leases
  <2> QED BY <1>2, <2>1, <2>2
<1>4. MeasuresScan(f)
  <2> SUFFICES ASSUME l.scan # Nobody PROVE l.scan \notin gone
    BY <1>2 DEF MeasuresScan, Sound
  <2> QED BY TimesAssumption DEF Sound, MeasuresScan, ScanLapsed, Leases
<1> QED BY <1>1, <1>2, <1>3, <1>4 DEF Sound, ByScanEnds

\* Ending a lapsed claim leaves no lapsed claim behind.
LEMMA EndScanFree ==
  ASSUME NEW l, Sound(l) PROVE ~ScanLapsed(EndScan(l))
  BY DEF Sound, EndScan, Freed, ScanLapsed, Leases

\* _expire as a whole.
LEMMA ExpireSound == ASSUME NEW l, Sound(l) PROVE Sound(Expire(l))
<1> DEFINE l1 == IF HolderLapsed(l) THEN Freed(l) ELSE l
           l2 == IF ScanLapsed(l1) THEN EndScan(l1) ELSE l1
<1>1. Sound(l1)
  BY FreedSound
<1>2. Sound(l2) /\ ~ScanLapsed(l2)
  BY <1>1, EndScanSound, EndScanFree
<1> QED BY <1>2, ForgetSound DEF Expire

\* _seen keeps the lease sound, and leaves its sender on the list, heard now.
LEMMA SeenSound ==
  ASSUME NEW l, Sound(l), NEW c \in Clients \cup {Anonymous}
  PROVE  /\ Sound(Seen(l, c))
         /\ c # Anonymous => Fresh(Seen(l, c), c)
<1>1. CASE c = Anonymous
  BY <1>1 DEF Seen
<1>2. CASE c # Anonymous
  <2> DEFINE s == Seen(l, c)
  <2>1. c \in Clients
    BY <1>2
  <2>2. /\ s.holder = l.holder /\ s.scan = l.scan /\ s.byScan = l.byScan
        /\ s.listed = l.listed \cup {c}
        /\ s.heard = [d \in Clients |-> IF d = c THEN 0 ELSE l.heard[d]]
        /\ s.holderAge = IF l.holder # Nobody /\ SamePC(l.holder, c) THEN 0
                         ELSE l.holderAge
        /\ s.scanAge = IF l.scan = c THEN 0 ELSE l.scanAge
    BY SMTT(60), <1>2 DEF Seen, Heard, Sound, Leases
  <2>3. s \in Leases
    BY <1>2, <2>1, Ages DEF Seen, Heard, Sound, Leases
  <2>4. MeasuresPC(s)
    <3> SUFFICES ASSUME l.holder # Nobody PROVE MeasuresPC(s)
      BY <2>2 DEF MeasuresPC
    <3>1. \A d \in s.listed : SamePC(s.holder, d) => s.holderAge <= s.heard[d]
      BY <2>1, <2>2, <2>3 DEF MeasuresPC, Sound, Leases
    <3>2. ASSUME s.holderAge <= Lease
          PROVE  \E d \in s.listed : /\ d = s.holder \/ SamePC(d, s.holder)
                                     /\ s.heard[d] <= s.holderAge
      <4>1. CASE SamePC(l.holder, c)
        BY <4>1, <2>1, <2>2 DEF SamePC
      <4>2. CASE ~SamePC(l.holder, c)
        <5>1. PICK d \in l.listed : /\ d = l.holder \/ SamePC(d, l.holder)
                                    /\ l.heard[d] <= l.holderAge
          BY <3>2, <4>2, <2>2 DEF MeasuresPC, Sound
        <5>2. d \in Clients /\ s.heard[d] <= l.heard[d]
          BY <2>2 DEF Sound, Leases
        <5>3. s.heard[d] \in Nat /\ l.heard[d] \in Nat /\ l.holderAge \in Nat
          BY <5>2, <2>3, TimesAssumption DEF Sound, Leases
        <5> QED BY <4>2, <5>1, <5>2, <5>3, <2>2
      <4> QED BY <4>1, <4>2
    <3> QED BY <3>1, <3>2 DEF MeasuresPC
  <2>5. MeasuresScan(s)
    BY <2>1, <2>2, TimesAssumption DEF MeasuresScan, Sound, Leases
  <2>6. ByScanEnds(s)
    BY <2>2 DEF ByScanEnds, Sound
  <2>7. Fresh(s, c)
    BY <2>1, <2>2 DEF Fresh
  <2> QED BY <2>3, <2>4, <2>5, <2>6, <2>7 DEF Sound
<1> QED BY <1>1, <1>2

\* take_control keeps the lease sound.
LEMMA TakeSound ==
  ASSUME NEW l, Sound(l), NEW c, NEW force, c # Anonymous => Fresh(l, c)
  PROVE  Sound(Take(l, c, force))
<1>1. CASE ~TakeGranted(l, c, force) \/ Holds(l, c)
  BY <1>1 DEF Take
<1>2. CASE TakeGranted(l, c, force) /\ ~Holds(l, c)
  <2>1. Fresh(l, c)
    BY <1>2 DEF TakeGranted
  <2> DEFINE t == [l EXCEPT !.holder = c, !.byScan = FALSE, !.holderAge = 0]
  <2>2. t \in Leases
    BY <2>1, Ages DEF Sound, Fresh, Leases
  <2>4. MeasuresScan(t) /\ ByScanEnds(t)
    BY DEF Sound, Leases, MeasuresScan, ByScanEnds
  <2>3. MeasuresPC(t)
    BY <2>1, TimesAssumption DEF Sound, Fresh, Leases, MeasuresPC
  <2> QED BY <1>2, <2>2, <2>3, <2>4 DEF Take, Sound
<1> QED BY <1>1, <1>2

\* claim_scan keeps the lease sound.
LEMMA ClaimSound ==
  ASSUME NEW l, Sound(l), NEW c, c # Anonymous => Fresh(l, c)
  PROVE  Sound(Claim(l, c))
<1>1. CASE ~ClaimGranted(l, c)
  BY <1>1 DEF Claim
<1>2. CASE ClaimGranted(l, c)
  <2>1. Fresh(l, c)
    BY <1>2 DEF ClaimGranted
  <2> DEFINE held == IF l.holder = Nobody
                     THEN [l EXCEPT !.holder = c, !.byScan = TRUE, !.holderAge = 0]
                     ELSE l
             claimed == [held EXCEPT !.scan = c, !.scanAge = 0]
  <2>0. held \in Leases
    BY <2>1, Ages DEF Sound, Fresh, Leases
  <2>2. claimed \in Leases
    BY ZenonT(60), <2>0, <2>1, Ages DEF Fresh, Leases
  <2>3. MeasuresPC(claimed)
    BY <2>1, TimesAssumption, ClientsAssumption DEF Sound, Fresh, Leases, MeasuresPC
  <2>4. MeasuresScan(claimed)
    BY <2>1, TimesAssumption DEF Sound, Fresh, Leases, MeasuresScan
  <2>5. ByScanEnds(claimed)
    BY <1>2, <2>1, ClientsAssumption
    DEF Sound, Fresh, Leases, ByScanEnds, ClaimGranted
  <2> QED BY <1>2, <2>2, <2>3, <2>4, <2>5 DEF Claim, Sound
<1> QED BY <1>1, <1>2

\* Marking a machine as driving keeps the lease sound.
LEMMA MarkedSound ==
  ASSUME NEW l, Sound(l), NEW c PROVE Sound(Marked(l, c))
  BY TimesAssumption
  DEF Sound, Marked, Leases, MeasuresPC, MeasuresScan, ByScanEnds

-----------------------------------------------------------------------------
(* The inductive invariant: the lease is sound whenever the lock is free *)

IInv ==
  /\ Sound(lease)
  /\ up \subseteq Clients
  /\ driver \in [by : Clients \cup {Anonymous, Nobody}, age : 0 .. Driving]

\* A verb finds a sound lease on which its sender has just been heard.
LEMMA EnteredSound ==
  ASSUME IInv, NEW c \in Clients \cup {Anonymous}
  PROVE  Sound(Entered(c)) /\ (c # Anonymous => Fresh(Entered(c), c))
  BY ExpireSound, SeenSound DEF IInv, Entered

\* A new service has a sound lease.
LEMMA InitSound == Init => IInv
<1> SUFFICES ASSUME Init PROVE IInv
  OBVIOUS
<1>1. lease \in Leases
  <2>1. /\ Forget + 1 \in 0 .. Forget + 1
        /\ Driving + 1 \in 0 .. Driving + 1
    BY TimesAssumption
  <2> QED BY <2>1, Ages DEF Init, NewLease, Leases
<1>2. MeasuresPC(lease) /\ MeasuresScan(lease) /\ ByScanEnds(lease)
  BY DEF Init, NewLease, MeasuresPC, MeasuresScan, ByScanEnds
<1>3. driver \in [by : Clients \cup {Anonymous, Nobody}, age : 0 .. Driving]
  BY TimesAssumption DEF Init, NoDriver
<1> QED BY <1>1, <1>2, <1>3 DEF IInv, Sound, Init

\* Ageing by one tick keeps a sound lease sound: the ages of the lease and of
\* the clients it measures grow together.
LEMMA TickSound == ASSUME IInv, Tick PROVE IInv'
<1> DEFINE l == lease'
<1>0. Sound(lease) /\ lease \in Leases
  BY DEF IInv, Sound
<1>1. /\ l.holder = lease.holder /\ l.scan = lease.scan
      /\ l.byScan = lease.byScan /\ l.listed = lease.listed
      /\ l.heard = [c \in Clients |-> Older(lease.heard[c], Forget)]
      /\ l.holderAge = IF lease.holder = Nobody THEN 0
                       ELSE Older(lease.holderAge, Lease)
      /\ l.scanAge = IF lease.scan = Nobody THEN 0
                     ELSE Older(lease.scanAge, Lease)
  BY SMTT(60), <1>0 DEF Tick, Leases
<1>2. l \in Leases
  <2>1. \A a \in 0 .. Lease + 1 : Older(a, Lease) \in 0 .. Lease + 1
    BY TimesAssumption DEF Older
  <2>2. \A a \in 0 .. Forget + 1 : Older(a, Forget) \in 0 .. Forget + 1
    BY TimesAssumption DEF Older
  <2>3. \A a \in 0 .. Driving + 1 : Older(a, Driving) \in 0 .. Driving + 1
    BY TimesAssumption DEF Older
  <2> QED BY <1>0, <2>1, <2>2, <2>3, Ages DEF Tick, Leases
<1>3. MeasuresPC(l)
  <2> SUFFICES ASSUME lease.holder # Nobody PROVE MeasuresPC(l)
    BY <1>1 DEF MeasuresPC
  <2>1. ASSUME NEW c \in lease.listed, lease.holderAge <= lease.heard[c]
        PROVE  l.holderAge <= l.heard[c]
    BY <1>0, <1>1, <2>1, TimesAssumption DEF Leases, Older
  <2>2. ASSUME l.holderAge <= Lease
        PROVE  \E c \in l.listed : /\ c = l.holder \/ SamePC(c, l.holder)
                                   /\ l.heard[c] <= l.holderAge
    <3>1. lease.holderAge <= Lease /\ l.holderAge = lease.holderAge + 1
      BY <1>0, <1>1, <2>2, TimesAssumption DEF Leases, Older
    <3>2. PICK c \in lease.listed : /\ c = lease.holder \/ SamePC(c, lease.holder)
                                    /\ lease.heard[c] <= lease.holderAge
      BY <1>0, <3>1 DEF Sound, MeasuresPC
    <3>3. l.heard[c] <= l.holderAge
      BY <1>0, <1>1, <3>1, <3>2, TimesAssumption DEF Leases, Older
    <3> QED BY <1>1, <3>2, <3>3
  <2> QED BY <1>0, <1>1, <2>1, <2>2 DEF MeasuresPC, Sound
<1>4. MeasuresScan(l)
  <2> SUFFICES ASSUME lease.scan # Nobody PROVE MeasuresScan(l)
    BY <1>1 DEF MeasuresScan
  <2>1. /\ lease.scan \in lease.listed /\ lease.scan \in Clients
        /\ lease.scanAge = IF lease.heard[lease.scan] > Lease THEN Lease + 1
                           ELSE lease.heard[lease.scan]
        /\ lease.heard[lease.scan] \in 0 .. Forget + 1
    BY <1>0 DEF Sound, MeasuresScan, Leases
  <2> QED BY <1>1, <2>1, TimesAssumption DEF MeasuresScan, Older
<1>5. ByScanEnds(l)
  BY <1>0, <1>1 DEF Sound, ByScanEnds
<1>6. driver' \in [by : Clients \cup {Anonymous, Nobody}, age : 0 .. Driving]
  BY TimesAssumption DEF IInv, Tick, NoDriver
<1> QED BY <1>2, <1>3, <1>4, <1>5, <1>6 DEF IInv, Sound, Tick

\* Every step of the service, its clients and time keeps the invariant.
LEMMA NextSound == ASSUME IInv, [Next]_vars PROVE IInv'
<1> USE DEF IInv
<1>1. ASSUME NEW c \in Clients \cup {Anonymous}, Heartbeat(c) PROVE IInv'
  BY <1>1, EnteredSound DEF Heartbeat
<1>2. ASSUME NEW c \in Clients \cup {Anonymous}, Write(c) PROVE IInv'
  <2>1. Sound(lease')
    BY <1>2, EnteredSound, MarkedSound DEF Write
  <2>2. driver' \in [by : Clients \cup {Anonymous, Nobody}, age : 0 .. Driving]
    BY <1>2, TimesAssumption DEF Write
  <2> QED BY <1>2, <2>1, <2>2 DEF Write
<1>3. ASSUME NEW c \in Clients \cup {Anonymous}, NEW force \in BOOLEAN,
             TakeControl(c, force)
      PROVE  IInv'
  BY <1>3, EnteredSound, TakeSound DEF TakeControl
<1>4. ASSUME NEW c \in Clients \cup {Anonymous}, ReleaseControl(c) PROVE IInv'
  BY <1>4, EnteredSound, FreedSound DEF ReleaseControl
<1>5. ASSUME NEW c \in ScanEngines, ClaimScan(c) PROVE IInv'
  <2>1. c \in Clients \cup {Anonymous}
    BY ClientsAssumption
  <2> QED BY <1>5, <2>1, EnteredSound, ClaimSound DEF ClaimScan
<1>6. ASSUME NEW c \in ScanEngines, ReleaseScan(c) PROVE IInv'
  <2>1. c \in Clients \cup {Anonymous}
    BY ClientsAssumption
  <2> QED BY <1>6, <2>1, EnteredSound, EndScanSound DEF ReleaseScan
<1>7. ASSUME NEW c \in Clients, Crash(c) PROVE IInv'
  BY <1>7 DEF Crash
<1>8. CASE Status
  BY <1>8, ExpireSound DEF Status
<1>9. CASE Tick
  BY <1>9, TickSound
<1>10. CASE UNCHANGED vars
  BY <1>10 DEF vars
<1> QED BY <1>1, <1>2, <1>3, <1>4, <1>5, <1>6, <1>7, <1>8, <1>9, <1>10 DEF Next

THEOREM Invariance == Spec => []IInv
<1>1. Init => IInv
  BY InitSound
<1>2. IInv /\ [Next]_vars => IInv'
  BY NextSound
<1> QED BY <1>1, <1>2, PTL DEF Spec

-----------------------------------------------------------------------------
(* Who drives *)

\* Client c changed the instrument a ticks ago.
Shows(l, c, a) == c \in l.listed /\ l.changed[c] <= a /\ l.heard[c] <= a

Shown == driver.by \in Machines => Shows(lease, driver.by, driver.age)

\* No verb but a change touches a mark, or takes a client off the list.
LEMMA VerbShows ==
  ASSUME NEW l \in Leases, NEW d, NEW c, NEW a, Shows(l, d, a), NEW force
  PROVE  /\ Shows(Freed(l), d, a)
         /\ Shows(EndScan(l), d, a)
         /\ Shows(Take(l, c, force), d, a)
         /\ Shows(Claim(l, c), d, a)
  BY DEF Shows, Freed, EndScan, Take, Claim, Leases

\* A client that changed something within DRIVING_S is not forgotten.
LEMMA ExpireShows ==
  ASSUME NEW l, Sound(l), NEW d \in Clients, NEW a \in 0 .. Driving, Shows(l, d, a)
  PROVE  Shows(Expire(l), d, a)
<1>1. \A m \in Leases : Shows(m, d, a) => Shows(ForgetClients(m), d, a)
  BY TimesAssumption DEF Shows, ForgetClients, Leases
<1> DEFINE l1 == IF HolderLapsed(l) THEN Freed(l) ELSE l
           l2 == IF ScanLapsed(l1) THEN EndScan(l1) ELSE l1
<1>2. Sound(l1) /\ Shows(l1, d, a)
  BY FreedSound, VerbShows DEF Sound
<1>3. Sound(l2) /\ Shows(l2, d, a)
  BY <1>2, EndScanSound, VerbShows DEF Sound
<1> QED BY <1>1, <1>3 DEF Sound, Expire

\* Every request leaves it shown.
LEMMA EnteredShows ==
  ASSUME IInv, NEW c \in Clients \cup {Anonymous}, NEW d \in Clients,
         NEW a \in 0 .. Driving, Shows(lease, d, a)
  PROVE  Entered(c) \in Leases /\ Shows(Entered(c), d, a)
<1>1. Shows(Expire(lease), d, a) /\ Expire(lease) \in Leases
  BY ExpireShows, ExpireSound DEF IInv, Sound
<1>2. Shows(Seen(Expire(lease), c), d, a)
  BY <1>1, TimesAssumption DEF Shows, Seen, Heard, Leases
<1> QED BY <1>2, EnteredSound DEF Entered, Sound

\* Every step keeps the last machine that changed the instrument shown.
LEMMA ShownStep == ASSUME IInv, Shown, [Next]_vars PROVE Shown'
<1> SUFFICES ASSUME driver'.by \in Machines
             PROVE  Shows(lease', driver'.by, driver'.age)
  BY DEF Shown
<1>1. Machines \subseteq Clients /\ Anonymous \notin Machines /\ Nobody \notin Machines
  BY ClientsAssumption
<1>2. driver.age \in 0 .. Driving /\ lease \in Leases
  BY DEF IInv, Sound
<1> DEFINE d == driver.by
           a == driver.age
<1>3. ASSUME driver' = driver, lease' = lease PROVE Shows(lease', driver'.by, driver'.age)
  BY <1>3 DEF Shown
<1>4. ASSUME NEW c \in Clients \cup {Anonymous}, driver' = driver, NEW force,
             \/ lease' \in {Entered(c), Freed(Entered(c)), EndScan(Entered(c))}
             \/ lease' \in {Take(Entered(c), c, force), Claim(Entered(c), c)}
      PROVE  Shows(lease', driver'.by, driver'.age)
  <2>1. d \in Clients /\ Shows(lease, d, a)
    BY <1>1, <1>4 DEF Shown
  <2>2. Entered(c) \in Leases /\ Shows(Entered(c), d, a)
    BY <1>2, <2>1, EnteredShows
  <2>3. /\ Shows(Freed(Entered(c)), d, a) /\ Shows(EndScan(Entered(c)), d, a)
        /\ Shows(Take(Entered(c), c, force), d, a) /\ Shows(Claim(Entered(c), c), d, a)
    BY <2>2, VerbShows
  <2> QED BY <1>4, <2>2, <2>3
<1>5. ASSUME NEW c \in Clients \cup {Anonymous}, Heartbeat(c)
      PROVE  Shows(lease', driver'.by, driver'.age)
  BY <1>4, <1>5 DEF Heartbeat
<1>6. ASSUME NEW c \in Clients \cup {Anonymous}, Write(c)
      PROVE  Shows(lease', driver'.by, driver'.age)
  <2>1. CASE Passes(Entered(c), c)
    <3>1. lease' = Marked(Entered(c), c) /\ driver' = [by |-> c, age |-> 0]
      BY <1>6, <2>1 DEF Write
    <3>2. c \in Machines /\ c \in Clients
      BY <1>1, <3>1
    <3>3. Entered(c) \in Leases /\ Fresh(Entered(c), c)
      BY <1>1, <3>2, EnteredSound DEF Sound
    <3> QED BY <3>1, <3>2, <3>3 DEF Shows, Marked, Fresh, Leases
  <2>2. CASE ~Passes(Entered(c), c)
    BY <1>4, <1>6, <2>2 DEF Write
  <2> QED BY <2>1, <2>2
<1>7. ASSUME NEW c \in Clients \cup {Anonymous}, NEW force, TakeControl(c, force)
      PROVE  Shows(lease', driver'.by, driver'.age)
  BY <1>4, <1>7 DEF TakeControl
<1>8. ASSUME NEW c \in Clients \cup {Anonymous}, ReleaseControl(c)
      PROVE  Shows(lease', driver'.by, driver'.age)
  BY <1>4, <1>8 DEF ReleaseControl
<1>9. ASSUME NEW c \in ScanEngines, ClaimScan(c) \/ ReleaseScan(c)
      PROVE  Shows(lease', driver'.by, driver'.age)
  BY <1>4, <1>9, ClientsAssumption DEF ClaimScan, ReleaseScan
<1>10. CASE Status
  <2>1. driver' = driver /\ lease' = Expire(lease) /\ d \in Clients /\ Shows(lease, d, a)
    BY <1>1, <1>10 DEF Status, Shown
  <2> QED BY <1>2, <2>1, ExpireShows DEF IInv
<1>11. CASE Tick
  <2>1. driver.age < Driving /\ driver' = [driver EXCEPT !.age = @ + 1]
    BY <1>1, <1>11 DEF Tick, NoDriver
  <2>2. driver'.by = d /\ driver'.age = a + 1 /\ d \in Clients
    BY <1>1, <2>1 DEF IInv
  <2>3. d \in Machines
    BY <2>2
  <2>4. Shows(lease, d, a)
    BY <2>3 DEF Shown
  <2>5. /\ lease'.listed = lease.listed
        /\ lease'.heard[d] = Older(lease.heard[d], Forget)
        /\ lease'.changed[d] = Older(lease.changed[d], Driving)
    BY <1>2, <1>11, <2>2 DEF Tick, Leases
  <2>6. lease.heard[d] \in Nat /\ lease.changed[d] \in Nat
    BY <1>2, <2>2, TimesAssumption DEF Leases
  <2> QED BY <1>2, <2>1, <2>2, <2>4, <2>5, <2>6, TimesAssumption DEF Shows, Older
<1>12. ASSUME NEW c \in Clients, Crash(c) PROVE Shows(lease', driver'.by, driver'.age)
  BY <1>3, <1>12 DEF Crash
<1>13. CASE UNCHANGED vars
  BY <1>3, <1>13 DEF vars
<1> QED BY <1>5, <1>6, <1>7, <1>8, <1>9, <1>10, <1>11, <1>12, <1>13 DEF Next

-----------------------------------------------------------------------------
(* The theorems *)

\* The type invariant holds for every set of clients and every lease time.
THEOREM TypeCorrect == Spec => []TypeOK
<1>1. IInv => TypeOK
  BY DEF IInv, Sound, TypeOK
<1> QED BY <1>1, Invariance, PTL

\* The ages _expire looks at always are the silence of the holder's whole PC
\* and of the scanning client: no lease ends while a window of the PC talks,
\* and none is kept alive by a stranger.
THEOREM SilenceMeasured == Spec => []LeaseMeasuresSilence
<1>1. IInv => LeaseMeasuresSilence
  BY DEF IInv, Sound, LeaseMeasuresSilence
<1> QED BY <1>1, Invariance, PTL

\* Control a scan took for itself never outlives its claim.
THEOREM ByScanControlEnds == Spec => []ByScanOnlyDuringScan
<1>1. IInv => ByScanOnlyDuringScan
  BY DEF IInv, Sound, ByScanOnlyDuringScan
<1> QED BY <1>1, Invariance, PTL

-----------------------------------------------------------------------------
(* What a step may never do *)

\* _expire takes a scan claim away only when it has lapsed, and _seen never.
LEMMA EnteredScan ==
  ASSUME IInv, ~ScanLapsed(lease), NEW c
  PROVE  /\ Expire(lease).scan = lease.scan
         /\ Entered(c).scan = lease.scan
<1> DEFINE l1 == IF HolderLapsed(lease) THEN Freed(lease) ELSE lease
<1>1. lease \in Leases
  BY DEF IInv, Sound
<1>2. l1.scan = lease.scan /\ l1.scanAge = lease.scanAge /\ l1 \in Leases
  BY <1>1, FreedSound DEF Freed, Leases, IInv, Sound
<1>3. Expire(lease) = ForgetClients(l1)
  BY <1>2 DEF Expire, ScanLapsed
<1>4. Expire(lease).scan = lease.scan /\ Expire(lease) \in Leases
  BY <1>2, <1>3, ExpireSound DEF ForgetClients, Leases, IInv, Sound
<1>5. Seen(Expire(lease), c).scan = Expire(lease).scan
  BY <1>4 DEF Seen, Heard, Leases
<1> QED BY <1>4, <1>5 DEF Entered

\* A scan claim in force ends only by its owner's release or silence: no
\* request of any client, in any order, moves it to another scan.
THEOREM ClaimsDoNotPass == Spec => OneScanAtATime
<1>1. IInv /\ [Next]_vars => [ClaimPasses]_vars
  <2> SUFFICES ASSUME IInv, Next, lease.scan # Nobody, ~ScanLapsed(lease),
                      lease'.scan # lease.scan
               PROVE  ReleaseScan(lease.scan)
    BY DEF ClaimPasses
  <2>0. \A c \in Clients \cup {Anonymous} : Entered(c) \in Leases
    BY EnteredSound DEF Sound
  <2>1. ASSUME NEW c \in Clients \cup {Anonymous}, Heartbeat(c) PROVE FALSE
    BY <2>1, EnteredScan DEF Heartbeat
  <2>2. ASSUME NEW c \in Clients \cup {Anonymous}, Write(c) PROVE FALSE
    BY <2>0, <2>2, EnteredScan DEF Write, Marked, Leases
  <2>3. ASSUME NEW c \in Clients \cup {Anonymous}, NEW force \in BOOLEAN,
               TakeControl(c, force)
        PROVE  FALSE
    BY <2>0, <2>3, EnteredScan DEF TakeControl, Take, Leases
  <2>4. ASSUME NEW c \in Clients \cup {Anonymous}, ReleaseControl(c) PROVE FALSE
    BY <2>0, <2>4, EnteredScan DEF ReleaseControl, Freed, Leases
  <2>5. ASSUME NEW c \in ScanEngines, ClaimScan(c) PROVE FALSE
    <3>1. Entered(c) \in Leases /\ Entered(c).scan = lease.scan
      BY <2>0, EnteredScan, ClientsAssumption
    <3>2. CASE ~ClaimGranted(Entered(c), c)
      BY <2>5, <3>1, <3>2 DEF ClaimScan, Claim
    <3>3. CASE ClaimGranted(Entered(c), c)
      <4>1. c = lease.scan
        BY <3>1, <3>3 DEF ClaimGranted
      <4>2. lease'.scan = c
        BY <2>5, <3>1, <3>3 DEF ClaimScan, Claim, Leases
      <4> QED BY <4>1, <4>2
    <3> QED BY <3>2, <3>3
  <2>6. ASSUME NEW c \in ScanEngines, ReleaseScan(c) PROVE c = lease.scan
    BY <2>6, EnteredScan DEF ReleaseScan
  <2>7. ASSUME NEW c \in Clients, Crash(c) PROVE FALSE
    BY <2>7 DEF Crash
  <2>8. CASE Status
    BY <2>8, EnteredScan DEF Status
  <2>9. CASE Tick
    BY <2>9 DEF Tick, IInv, Sound, Leases
  <2> QED BY <2>1, <2>2, <2>3, <2>4, <2>5, <2>6, <2>7, <2>8, <2>9 DEF Next
<1> QED BY <1>1, Invariance, PTL DEF Spec, OneScanAtATime

\* A machine that changed the instrument lately is shown as driving it, however
\* long the client list is kept beyond DRIVING_S.
THEOREM NoMysteriousMoves == Spec => []MovesAreShown
<1>1. Init => Shown
  BY ClientsAssumption DEF Init, NoDriver, Shown
<1>2. IInv /\ Shown /\ [Next]_vars => Shown'
  BY ShownStep
<1>3. IInv /\ Shown => MovesAreShown
  BY TimesAssumption DEF IInv, Sound, Leases, Shown, Shows, MovesAreShown
<1> QED BY <1>1, <1>2, <1>3, Invariance, PTL DEF Spec

\* Neither _expire nor _seen takes control from a holder whose PC was heard
\* from, unless it came with a scan claim that lapsed.
LEMMA EnteredHolder ==
  ASSUME IInv, ~HolderLapsed(lease), ~(lease.byScan /\ ScanLapsed(lease)), NEW c
  PROVE  /\ Expire(lease).holder = lease.holder
         /\ Entered(c).holder = lease.holder
         /\ Entered(c).byScan = lease.byScan
         /\ ~ScanLapsed(lease) => Entered(c).scan = lease.scan
<1> DEFINE l2 == IF ScanLapsed(lease) THEN EndScan(lease) ELSE lease
<1>1. lease \in Leases /\ Sound(lease)
  BY DEF IInv, Sound
<1>2. l2.holder = lease.holder /\ l2.byScan = lease.byScan /\ l2 \in Leases
  <2>1. l2 \in Leases
    BY <1>1, EndScanSound DEF Sound
  <2>2. l2.holder = lease.holder /\ l2.byScan = lease.byScan
    BY <1>1 DEF EndScan, Leases
  <2> QED BY <2>1, <2>2
<1>3. Expire(lease) = ForgetClients(l2)
  BY SMTT(30) DEF Expire
<1>4. /\ Expire(lease).holder = lease.holder
      /\ Expire(lease).byScan = lease.byScan
      /\ Expire(lease) \in Leases
  BY <1>1, <1>2, <1>3, ExpireSound DEF ForgetClients, Leases, Sound
<1>5. /\ Seen(Expire(lease), c).holder = lease.holder
      /\ Seen(Expire(lease), c).byScan = lease.byScan
  BY <1>4 DEF Seen, Heard, Leases
<1> QED BY <1>4, <1>5, EnteredScan DEF Entered

\* Control is never lost by accident: only a release from the holder's own PC,
\* a forced take, the silence of the holder's PC or the end of the scan it was
\* taken for ends it, whatever order the requests come in.
THEOREM NoAccidentalHandover == Spec => ControlMovesDeliberately
<1>1. IInv /\ [Next]_vars => [HandsOver]_vars
  <2> SUFFICES ASSUME IInv, Next, lease.holder # Nobody,
                      lease'.holder # lease.holder, ~HolderLapsed(lease),
                      ~(lease.byScan /\ ScanLapsed(lease))
               PROVE  HandsOver
    BY DEF HandsOver
  <2>0. \A c \in Clients \cup {Anonymous} : Entered(c) \in Leases
    BY EnteredSound DEF Sound
  <2>1. ASSUME NEW c \in Clients \cup {Anonymous}, Heartbeat(c) PROVE FALSE
    BY <2>1, EnteredHolder DEF Heartbeat
  <2>2. ASSUME NEW c \in Clients \cup {Anonymous}, Write(c) PROVE FALSE
    BY <2>0, <2>2, EnteredHolder DEF Write, Marked, Leases
  <2>3. ASSUME NEW c \in Clients \cup {Anonymous}, NEW force \in BOOLEAN,
               TakeControl(c, force)
        PROVE  c \in Clients /\ force
    <3>1. Entered(c).holder = lease.holder
      BY EnteredHolder
    <3> QED BY <2>0, <2>3, <3>1 DEF TakeControl, Take, TakeGranted
  <2>4. ASSUME NEW c \in Clients \cup {Anonymous}, ReleaseControl(c)
        PROVE  c \in Clients /\ (c = lease.holder \/ SamePC(c, lease.holder))
    <3>1. Entered(c).holder = lease.holder
      BY EnteredHolder
    <3>2. Holds(Entered(c), c)
      BY <2>4, <3>1 DEF ReleaseControl
    <3> QED BY <3>1, <3>2 DEF Holds
  <2>5. ASSUME NEW c \in ScanEngines, ClaimScan(c) PROVE FALSE
    <3>1. Entered(c) \in Leases /\ Entered(c).holder = lease.holder
      BY <2>0, EnteredHolder, ClientsAssumption
    <3> QED BY <2>5, <3>1 DEF ClaimScan, Claim, Leases
  <2>6. ASSUME NEW c \in ScanEngines, ReleaseScan(c)
        PROVE  lease.byScan /\ c = lease.scan
    <3>1. /\ Entered(c) \in Leases
          /\ Entered(c).holder = lease.holder
          /\ Entered(c).byScan = lease.byScan
          /\ ~ScanLapsed(lease) => Entered(c).scan = lease.scan
      BY <2>0, EnteredHolder, ClientsAssumption
    <3>2. Entered(c).byScan /\ c = Entered(c).scan
      BY <2>6, <3>1 DEF ReleaseScan, EndScan, Leases
    <3> QED BY <3>1, <3>2
  <2>7. ASSUME NEW c \in Clients, Crash(c) PROVE FALSE
    BY <2>7 DEF Crash
  <2>8. CASE Status
    BY <2>8, EnteredHolder DEF Status
  <2>9. CASE Tick
    BY <2>9 DEF Tick, IInv, Sound, Leases
  <2>10. ASSUME NEW c \in Clients, TakeControl(c, TRUE) PROVE HandsOver
    BY <2>10 DEF HandsOver
  <2>11. ASSUME NEW c \in Clients, ReleaseControl(c),
                c = lease.holder \/ SamePC(c, lease.holder)
         PROVE  HandsOver
    BY <2>11 DEF HandsOver
  <2>12. ASSUME lease.byScan, ReleaseScan(lease.scan) PROVE HandsOver
    BY <2>12 DEF HandsOver
  <2>13. ASSUME NEW c \in Clients \cup {Anonymous}, NEW force \in BOOLEAN,
                TakeControl(c, force)
         PROVE  HandsOver
    <3>1. c \in Clients /\ force = TRUE
      BY <2>3, <2>13
    <3> QED BY <2>10, <2>13, <3>1
  <2>14. ASSUME NEW c \in Clients \cup {Anonymous}, ReleaseControl(c)
         PROVE  HandsOver
    BY <2>4, <2>11, <2>14
  <2>15. ASSUME NEW c \in ScanEngines, ReleaseScan(c) PROVE HandsOver
    BY <2>6, <2>12, <2>15
  <2> QED
    BY <2>1, <2>2, <2>5, <2>7, <2>8, <2>9, <2>13, <2>14, <2>15 DEF Next
<1> QED BY <1>1, Invariance, PTL DEF Spec, ControlMovesDeliberately

=============================================================================
