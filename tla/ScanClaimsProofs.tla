-------------------------- MODULE ScanClaimsProofs --------------------------
(***************************************************************************)
(* What a scan has on its instruments, proved for any engines, instruments *)
(* and bounds: scans, heartbeats and services in any order, requests given *)
(* up at any moment and carried out later.                                 *)
(*                                                                         *)
(* The inductive invariant says where each connection, claim and request   *)
(* stands: the request of a connection fits the phase of its scan (Fits)   *)
(* and waits at the service, everything else there being old (Awaited); a  *)
(* heartbeat is decided on anew only when the last has its reply (Decided);*)
(* a claim is kept alive from its reply to the beginning of its release    *)
(* (Beats), so that it is in force and young unless it slipped (Kept); and *)
(* while no request is lost, the owner of a claim has only later names to  *)
(* claim still (Ordered).                                                  *)
(***************************************************************************)
EXTENDS ScanClaims, NaturalsLemmas

\* A lease of the range, whose control by a scan is the claiming scan's own and
\* whose claim is as old as its owner has been silent.
Sound(i, l) ==
  /\ l \in Service(i)!Leases
  /\ l.holder # Nobody => l.byScan
  /\ l.byScan => l.holder # Nobody /\ l.scan = l.holder
  /\ l.scan # Nobody =>
       l.scanAge = IF l.heard[l.scan] > Lease THEN Lease + 1 ELSE l.heard[l.scan]

\* The ages a verb writes are in range.
LEMMA Ages ==
  /\ 0 \in 0 .. Lease + 1
  /\ 0 \in 0 .. Forget + 1 /\ Forget + 1 \in 0 .. Forget + 1
  /\ Driving + 1 \in 0 .. Driving + 1
  BY LeaseAssumption

\* Control given back leaves the claim as it is.
LEMMA FreedSound ==
  ASSUME NEW i \in Instruments, NEW l, l \in Service(i)!Leases
  PROVE  LET f == Service(i)!Freed(l)
         IN  /\ f \in Service(i)!Leases /\ f.holder = Nobody /\ f.byScan = FALSE
             /\ f.scan = l.scan /\ f.scanAge = l.scanAge /\ f.heard = l.heard
<1>1. Service(i)!Freed(l) \in Service(i)!Leases
  BY Ages DEF Service!Freed, Service!Leases
<1> QED BY <1>1 DEF Service!Freed, Service!Leases

\* The end of a claim ends the control that came with it.
LEMMA EndScanSound ==
  ASSUME NEW i \in Instruments, NEW l, Sound(i, l)
  PROVE  Sound(i, Service(i)!EndScan(l)) /\ Service(i)!EndScan(l).scan = Nobody
<1> DEFINE ended == [l EXCEPT !.scan = Nobody, !.scanAge = 0]
<1>1. ended \in Service(i)!Leases
  BY Ages DEF Sound, Service!Leases
<1>2. /\ ended.scan = Nobody /\ ended.holder = l.holder /\ ended.byScan = l.byScan
  BY DEF Sound, Service!Leases
<1>3. Service(i)!EndScan(l) =
        IF l.byScan /\ l.holder = l.scan THEN Service(i)!Freed(ended) ELSE ended
  BY DEF Service!EndScan
<1> HIDE DEF ended
<1> QED BY <1>1, <1>2, <1>3, FreedSound DEF Sound

\* _expire takes away the control of a silent holder and the claim of a silent
\* scan, and nothing else.
LEMMA ExpireSound ==
  ASSUME NEW i \in Instruments, NEW l, Sound(i, l)
  PROVE  LET x == Service(i)!Expire(l)
         IN  /\ Sound(i, x)
             /\ x.scan = IF Service(i)!ScanLapsed(l) THEN Nobody ELSE l.scan
             /\ x.scan # Nobody => x.scanAge = l.scanAge /\ x.scanAge <= Lease
<1> DEFINE l1 == IF Service(i)!HolderLapsed(l) THEN Service(i)!Freed(l) ELSE l
           l2 == IF Service(i)!ScanLapsed(l1) THEN Service(i)!EndScan(l1) ELSE l1
           x == Service(i)!Expire(l)
<1>1. Sound(i, l1) /\ l1.scan = l.scan /\ l1.scanAge = l.scanAge
  BY FreedSound DEF Sound
<1>2. /\ Sound(i, l2)
      /\ l2.scan = IF Service(i)!ScanLapsed(l) THEN Nobody ELSE l.scan
      /\ l2.scan # Nobody => l2.scanAge = l.scanAge
  <2>1. Service(i)!ScanLapsed(l1) <=> Service(i)!ScanLapsed(l)
    BY <1>1 DEF Service!ScanLapsed
  <2> HIDE DEF l1
  <2> QED BY <1>1, <2>1, EndScanSound
<1>3. /\ x \in Service(i)!Leases
      /\ x.holder = l2.holder /\ x.byScan = l2.byScan /\ x.heard = l2.heard
      /\ x.scan = l2.scan /\ x.scanAge = l2.scanAge
  <2>1. x = Service(i)!ForgetClients(l2)
    BY DEF Service!Expire
  <2> HIDE DEF l2, x
  <2>2. Service(i)!ForgetClients(l2) \in Service(i)!Leases
    BY <1>2, Ages DEF Sound, Service!ForgetClients, Service!Leases
  <2> QED BY <1>2, <2>1, <2>2 DEF Sound, Service!ForgetClients, Service!Leases
<1>4. l2.scan # Nobody => l2.scanAge <= Lease
  <2> HIDE DEF l1, l2
  <2> QED BY <1>2, LeaseAssumption DEF Service!ScanLapsed, Sound, Service!Leases
<1> HIDE DEF l2, x
<1> QED BY <1>2, <1>3, <1>4 DEF Sound, x

\* _seen: the sender has just been heard; a claim of its own is young again.
LEMMA SeenSound ==
  ASSUME NEW i \in Instruments, NEW e \in Engines, NEW l, Sound(i, l)
  PROVE  LET s == Service(i)!Seen(l, e)
         IN  /\ Sound(i, s)
             /\ s.scan = l.scan
             /\ s.scanAge = IF l.scan = e THEN 0 ELSE l.scanAge
             /\ s.heard[e] = 0
<1> DEFINE s == Service(i)!Seen(l, e)
<1>1. s = Service(i)!Heard(l, e, l.holder # Nobody /\ Service(i)!SamePC(l.holder, e), l.scan = e)
  BY EnginesAssumption DEF Service!Seen
<1>2. /\ s.holder = l.holder /\ s.scan = l.scan /\ s.byScan = l.byScan
      /\ s.heard = [d \in Engines |-> IF d = e THEN 0 ELSE l.heard[d]]
      /\ s.scanAge = IF l.scan = e THEN 0 ELSE l.scanAge
  BY <1>1, SMTT(60) DEF Service!Heard, Sound, Service!Leases
<1>3. \A kc, ks : Service(i)!Heard(l, e, kc, ks) \in Service(i)!Leases
  BY Ages DEF Service!Heard, Sound, Service!Leases
<1> HIDE DEF s
<1>4. Sound(i, s)
  BY <1>1, <1>2, <1>3, LeaseAssumption DEF Sound, Service!Leases
<1> QED BY <1>2, <1>4 DEF s

\* claim_scan: granted, the claim is the sender's and young; refused, somebody
\* has a claim.
LEMMA ClaimSound ==
  ASSUME NEW i \in Instruments, NEW e \in Engines, NEW l, Sound(i, l), l.heard[e] = 0
  PROVE  LET c == Service(i)!Claim(l, e)
         IN  /\ Sound(i, c)
             /\ Service(i)!ClaimGranted(l, e) =>
                  l.scan \in {Nobody, e} /\ c.scan = e /\ c.scanAge = 0
             /\ ~Service(i)!ClaimGranted(l, e) => c = l /\ l.scan # Nobody
<1> DEFINE held == IF l.holder = Nobody
                   THEN [l EXCEPT !.holder = e, !.byScan = TRUE, !.holderAge = 0]
                   ELSE l
           c == [held EXCEPT !.scan = e, !.scanAge = 0]
<1>1. held \in Service(i)!Leases
  BY Ages DEF Sound, Service!Leases
<1>2. c \in Service(i)!Leases
  <2> HIDE DEF held
  <2> QED BY <1>1, Ages DEF Service!Leases
<1>3. /\ c.scan = e /\ c.scanAge = 0 /\ c.heard = l.heard
      /\ c.holder = IF l.holder = Nobody THEN e ELSE l.holder
      /\ c.byScan = IF l.holder = Nobody THEN TRUE ELSE l.byScan
  BY DEF Sound, Service!Leases
<1>4. Service(i)!Claim(l, e) = IF Service(i)!ClaimGranted(l, e) THEN c ELSE l
  BY DEF Service!Claim
<1> HIDE DEF c
<1>5. Service(i)!ClaimGranted(l, e) => l.scan \in {Nobody, e} /\ Sound(i, c)
  BY <1>2, <1>3, LeaseAssumption, EnginesAssumption DEF Service!ClaimGranted, Sound
<1>6. ~Service(i)!ClaimGranted(l, e) => l.scan # Nobody
  BY EnginesAssumption DEF Service!ClaimGranted, Sound
<1> QED BY <1>3, <1>4, <1>5, <1>6

\* What a verb of e makes of the lease it finds.
LEMMA VerbSound ==
  ASSUME NEW i \in Instruments, NEW e \in Engines, NEW l, Sound(i, l), l.heard[e] = 0,
         NEW cmd \in Commands
  PROVE  LET d == Verb(i, l, e, cmd)
         IN  /\ Sound(i, d.lease)
             /\ cmd = "claim_scan" /\ d.ok =>
                  l.scan \in {Nobody, e} /\ d.lease.scan = e /\ d.lease.scanAge = 0
             /\ cmd = "claim_scan" /\ ~d.ok => d.lease = l /\ l.scan # Nobody
             /\ cmd = "release_scan" =>
                  d.lease = IF l.scan = e THEN Service(i)!EndScan(l) ELSE l
             /\ cmd = "release_scan" => d.lease.scan = IF l.scan = e THEN Nobody ELSE l.scan
             /\ cmd \in {"heartbeat", "write"} => d.lease = l
<1>1. CASE cmd = "claim_scan"
  BY <1>1, ClaimSound DEF Verb
<1>2. CASE cmd = "release_scan"
  BY <1>2, EndScanSound DEF Verb
<1>3. CASE cmd = "write"
  BY <1>3 DEF Verb
<1>4. CASE cmd = "heartbeat"
  BY <1>4 DEF Verb
<1> QED BY <1>1, <1>2, <1>3, <1>4 DEF Commands

\* A tick: the age of the claim and the silence of its owner grow together.
LEMMA AgedSound ==
  ASSUME NEW i \in Instruments, NEW l, Sound(i, l)
  PROVE  /\ Sound(i, Aged(l))
         /\ Aged(l).scan = l.scan
         /\ Aged(l).scan = Nobody => Aged(l).scanAge = 0
         /\ l.scan # Nobody => Aged(l).scanAge <= l.scanAge + 1
<1> DEFINE older(age, limit) == IF age > limit THEN age ELSE age + 1
           a == Aged(l)
<1>1. /\ \A n \in 0 .. Lease + 1 : older(n, Lease) \in 0 .. Lease + 1
      /\ \A n \in 0 .. Forget + 1 : older(n, Forget) \in 0 .. Forget + 1
      /\ \A n \in 0 .. Driving + 1 : older(n, Driving) \in 0 .. Driving + 1
  BY LeaseAssumption
<1>2. /\ a.holder = l.holder /\ a.scan = l.scan /\ a.byScan = l.byScan
      /\ a.scanAge = IF l.scan = Nobody THEN 0 ELSE older(l.scanAge, Lease)
      /\ a.heard = [e \in Engines |-> older(l.heard[e], Forget)]
  BY SMTT(60) DEF Aged, Sound, Service!Leases
<1>3. a \in Service(i)!Leases
  <2> HIDE DEF older
  <2>1. a = [l EXCEPT !.holderAge = IF l.holder = Nobody THEN 0 ELSE older(@, Lease),
                !.scanAge = IF l.scan = Nobody THEN 0 ELSE older(@, Lease),
                !.heard = [e \in Engines |-> older(@[e], Forget)],
                !.changed = [e \in Engines |-> older(@[e], Driving)]]
    BY DEF Aged, older
  <2> HIDE DEF a
  <2> QED BY <1>1, <2>1, Ages DEF Sound, Service!Leases
<1> HIDE DEF a
<1>4. l.scan # Nobody =>
        a.scanAge = IF a.heard[l.scan] > Lease THEN Lease + 1 ELSE a.heard[l.scan]
  BY <1>2, LeaseAssumption DEF Sound, Service!Leases
<1>5. Sound(i, a)
  BY <1>2, <1>3, <1>4 DEF Sound
<1>6. l.scanAge \in Nat
  BY LeaseAssumption DEF Sound, Service!Leases
<1> QED BY <1>2, <1>5, <1>6 DEF a

-----------------------------------------------------------------------------
(* The inductive invariant *)

Typed ==
  /\ DOMAIN leases = Instruments /\ \A i \in Instruments : Sound(i, leases[i])
  /\ inbox \in [Instruments -> SUBSET Requests]
  /\ busy \in [Instruments -> BOOLEAN]
  /\ pc \in [Engines -> {"idle", "claiming", "running", "releasing"}]
  /\ outcome \in [Engines -> Outcomes \cup {None}]
  /\ todo \in [Engines -> SUBSET Instruments]
  /\ claimed \in [Engines -> SUBSET Instruments]
  /\ \A e \in Engines : todo[e] \subseteq Uses[e] /\ claimed[e] \subseteq Uses[e]
  /\ DOMAIN call = Engines /\ DOMAIN beating = Engines /\ DOMAIN due = Engines
  /\ \A e \in Engines : call[e] \in [Uses[e] -> Commands \cup {None}]
  /\ \A e \in Engines : beating[e] \in [Uses[e] -> BOOLEAN]
  /\ \A e \in Engines : due[e] \in [Uses[e] -> BOOLEAN]
  /\ left \in [scans : [Engines -> Nat], blocks : 0..MaxBlocks]
  /\ \A e \in Engines : left.scans[e] <= MaxScans[e]
  /\ slipped \subseteq Engines \X Instruments
  /\ lost \in BOOLEAN

Started(e) == left.scans[e] < MaxScans[e]

\* Which instruments a scan has claimed and has still to claim.
Phases ==
  \A e \in Engines :
    /\ pc[e] # "idle" => Started(e)
    /\ pc[e] = "idle" => claimed[e] = {}
    /\ pc[e] = "claiming" => todo[e] # {} /\ claimed[e] = Uses[e] \ todo[e]
    /\ pc[e] = "running" => claimed[e] = Uses[e]
    /\ pc[e] = "releasing" => claimed[e] # {}
    /\ pc[e] \in {"claiming", "running"} => outcome[e] # "refused"

\* The request of a connection fits what its scan is doing.
Fits ==
  \A e \in Engines : \A i \in Uses[e] :
    /\ call[e][i] = "claim_scan" => pc[e] = "claiming" /\ i = Min(todo[e])
    /\ call[e][i] = "write" =>
         /\ pc[e] = "running"
         /\ \A j \in Uses[e] \ {i} : call[e][j] \in {None, "heartbeat"}
    /\ call[e][i] = "release_scan" => pc[e] = "releasing" /\ i = Min(claimed[e])

\* A heartbeat that has been sent is no longer to be sent.
Decided ==
  \A e \in Engines : \A i \in Uses[e] : call[e][i] = "heartbeat" => ~due[e][i]

\* The request of a connection waits at the service; whatever else of it waits
\* there has been given up.
Awaited ==
  /\ RepliesCome
  /\ \A i \in Instruments : \A r \in inbox[i] :
       i \in Uses[r.from] /\ (r.live => call[r.from][i] = r.cmd)

\* A claim is kept alive until its release begins.
Beats ==
  \A e \in Engines : \A i \in Uses[e] :
    /\ beating[e][i] => i \in claimed[e]
    /\ pc[e] = "releasing" => ~beating[e][Min(claimed[e])]
    /\ pc[e] \in {"claiming", "running"} /\ i \in claimed[e] => beating[e][i]

\* A claim that has not slipped is in force, and young enough to stay so.
InForce(e, i) == leases[i].scan = e /\ leases[i].scanAge <= Lease
Kept ==
  \A e \in Engines : \A i \in claimed[e] :
    pc[e] \in {"claiming", "running"} /\ <<e, i>> \notin slipped => InForce(e, i)

NoneLost == ~lost => \A i \in Instruments : \A r \in inbox[i] : r.live

\* While each engine is at its first scan: the scan that has an instrument is
\* past it in the order of the names, and so is somebody of whatever refused e.
FirstScans == \A e \in Engines : left.scans[e] + 1 >= MaxScans[e]
Past(e, i) == Started(e) /\ \A j \in todo[e] : j > i
Ordered ==
  ~lost /\ FirstScans =>
    /\ \A i \in Instruments : leases[i].scan # Nobody => Past(leases[i].scan, i)
    /\ \A e \in Engines : outcome[e] = "refused" =>
         todo[e] # {} /\ \E d \in Engines : Past(d, Min(todo[e]))

IInv ==
  /\ Typed /\ Phases /\ Fits /\ Decided /\ Awaited /\ Beats /\ Kept
  /\ NoneLost /\ Ordered

-----------------------------------------------------------------------------
(* The scan's thread *)

\* The lowest instrument of a set is one of it.
LEMMA Lowest ==
  ASSUME NEW S \in SUBSET Instruments, S # {}
  PROVE  Min(S) \in S /\ \A n \in S : Min(S) <= n
<1>1. S \subseteq Nat
  BY UsesAssumption DEF Instruments
<1> QED BY <1>1, Least DEF Min

LEMMA UsedInstruments ==
  \A e \in Engines : Uses[e] \subseteq Instruments /\ Uses[e] # {} /\ Instruments \subseteq Nat
  BY UsesAssumption DEF Instruments

\* Everything a reply, or the want of one, may make the scan's thread do.
Proceeds(e, i, cmd) ==
  \/ cmd = "claim_scan" /\ Claimed(e, i)
  \/ cmd = "claim_scan" /\ GiveUp(e, "refused")
  \/ cmd \in {"claim_scan", "write"} /\ GiveUp(e, "error")
  \/ cmd = "release_scan" /\ LetGo(e, i)
  \/ cmd \in {"heartbeat", "write"} /\ UNCHANGED <<scans, beating>>

\* The claimed instruments are silenced one by one, as they are given back.
LEMMA SilencedBeats ==
  ASSUME Typed, NEW e \in Engines, NEW S \in SUBSET Uses[e],
         beating' = Silenced(e, S)
  PROVE  /\ DOMAIN beating' = Engines
         /\ \A d \in Engines : beating'[d] \in [Uses[d] -> BOOLEAN]
         /\ \A d \in Engines : \A j \in Uses[d] : beating'[d][j] => beating[d][j]
         /\ \A d \in Engines \ {e} : beating'[d] = beating[d]
         /\ S # {} => ~beating'[e][Min(S)]
<1>1. CASE S = {}
  BY <1>1 DEF Silenced, Typed
<1>2. CASE S # {}
  <2>1. Min(S) \in Uses[e]
    BY <1>2, Lowest, UsedInstruments
  <2>2. beating' = [beating EXCEPT ![e] = [beating[e] EXCEPT ![Min(S)] = FALSE]]
    BY <1>2 DEF Silenced, NextToRelease
  <2> QED BY <1>2, <2>1, <2>2 DEF Typed
<1> QED BY <1>1, <1>2

\* The end of a scan, however it comes about: what it has is to be given back.
LEMMA GiveUpSound ==
  ASSUME Typed, Phases, Fits, Beats, UNCHANGED left,
         NEW e \in Engines, NEW why \in Outcomes, GiveUp(e, why),
         pc[e] \in {"claiming", "running"},
         DOMAIN call' = Engines,
         \A d \in Engines : call'[d] \in [Uses[d] -> Commands \cup {None}],
         \A d \in Engines : \A j \in Uses[d] :
           call'[d][j] = IF d = e /\ call[d][j] # "heartbeat" THEN None ELSE call[d][j]
  PROVE  /\ pc' \in [Engines -> {"idle", "claiming", "running", "releasing"}]
         /\ outcome' \in [Engines -> Outcomes \cup {None}]
         /\ DOMAIN beating' = Engines
         /\ \A d \in Engines : beating'[d] \in [Uses[d] -> BOOLEAN]
         /\ Phases' /\ Fits' /\ Beats'
<1>1. /\ pc' \in [Engines -> {"idle", "claiming", "running", "releasing"}]
      /\ outcome' \in [Engines -> Outcomes \cup {None}]
      /\ \A d \in Engines \ {e} : pc'[d] = pc[d]
      /\ pc'[e] = IF claimed[e] = {} THEN "idle" ELSE "releasing"
      /\ todo' = todo /\ claimed' = claimed
      /\ \A d \in Engines \ {e} : outcome'[d] = outcome[d]
  BY DEF GiveUp, Typed
<1>2. claimed[e] \in SUBSET Uses[e]
  BY DEF Typed
<1>3. /\ DOMAIN beating' = Engines
      /\ \A d \in Engines : beating'[d] \in [Uses[d] -> BOOLEAN]
      /\ \A d \in Engines : \A j \in Uses[d] : beating'[d][j] => beating[d][j]
      /\ \A d \in Engines \ {e} : beating'[d] = beating[d]
      /\ claimed[e] # {} => ~beating'[e][Min(claimed[e])]
  BY <1>2, SilencedBeats DEF GiveUp
<1>4. Phases'
  BY <1>1 DEF Phases, Started
<1>5. Fits'
  BY <1>1, NoneAssumption DEF Fits, Commands
<1>6. Beats'
  BY <1>1, <1>3 DEF Beats
<1> QED BY <1>1, <1>3, <1>4, <1>5, <1>6

\* Whatever the thread does next fits what it has claimed, asked and kept alive.
LEMMA ProceedsSound ==
  ASSUME Typed, Phases, Fits, Beats, UNCHANGED left,
         NEW e \in Engines, NEW i \in Uses[e], NEW cmd \in Commands,
         call[e][i] = cmd, Return(e, i), Proceeds(e, i, cmd)
  PROVE  /\ pc' \in [Engines -> {"idle", "claiming", "running", "releasing"}]
         /\ outcome' \in [Engines -> Outcomes \cup {None}]
         /\ todo' \in [Engines -> SUBSET Instruments]
         /\ claimed' \in [Engines -> SUBSET Instruments]
         /\ \A d \in Engines : todo'[d] \subseteq todo[d] /\ claimed'[d] \subseteq Uses[d]
         /\ DOMAIN call' = Engines /\ DOMAIN beating' = Engines
         /\ \A d \in Engines : call'[d] \in [Uses[d] -> Commands \cup {None}]
         /\ \A d \in Engines : beating'[d] \in [Uses[d] -> BOOLEAN]
         /\ \A d \in Engines : \A j \in Uses[d] :
              call'[d][j] = IF d = e /\ j = i THEN None ELSE call[d][j]
         /\ Phases' /\ Fits' /\ Beats'
<1>1. /\ DOMAIN call' = Engines
      /\ \A d \in Engines : call'[d] \in [Uses[d] -> Commands \cup {None}]
      /\ \A d \in Engines : \A j \in Uses[d] :
           call'[d][j] = IF d = e /\ j = i THEN None ELSE call[d][j]
  BY DEF Return, Typed
<1>2. i \in Instruments /\ \A d \in Engines : Uses[d] \subseteq Instruments
  BY UsedInstruments
<1>3. CASE cmd = "claim_scan" /\ Claimed(e, i)
  <2>1. pc[e] = "claiming" /\ i = Min(todo[e]) /\ i \in todo[e]
    BY <1>3, Lowest DEF Fits, Phases, Typed
  <2>2. /\ claimed' = [claimed EXCEPT ![e] = @ \cup {i}]
        /\ beating' = [beating EXCEPT ![e] = [beating[e] EXCEPT ![i] = TRUE]]
        /\ todo' = [todo EXCEPT ![e] = @ \ {i}]
        /\ pc' = [pc EXCEPT ![e] = IF todo'[e] = {} THEN "running" ELSE @]
        /\ outcome' = outcome
    BY <1>3 DEF Claimed
  <2>3. /\ pc' \in [Engines -> {"idle", "claiming", "running", "releasing"}]
        /\ outcome' \in [Engines -> Outcomes \cup {None}]
        /\ todo' \in [Engines -> SUBSET Instruments]
        /\ claimed' \in [Engines -> SUBSET Instruments]
        /\ DOMAIN beating' = Engines
        /\ \A d \in Engines : beating'[d] \in [Uses[d] -> BOOLEAN]
    BY <2>2, <1>2 DEF Typed
  <2>4. /\ \A d \in Engines \ {e} : /\ pc'[d] = pc[d] /\ todo'[d] = todo[d]
                                    /\ claimed'[d] = claimed[d] /\ beating'[d] = beating[d]
        /\ todo'[e] = todo[e] \ {i} /\ claimed'[e] = claimed[e] \cup {i}
        /\ pc'[e] = IF todo'[e] = {} THEN "running" ELSE "claiming"
        /\ \A j \in Uses[e] : beating'[e][j] = IF j = i THEN TRUE ELSE beating[e][j]
    BY <2>1, <2>2 DEF Typed
  <2>5. \A d \in Engines : todo'[d] \subseteq todo[d] /\ claimed'[d] \subseteq Uses[d]
    BY <2>4 DEF Typed
  <2>a. /\ outcome[e] # "refused" /\ Started(e)
        /\ todo[e] # {} /\ todo[e] \subseteq Uses[e] /\ claimed[e] = Uses[e] \ todo[e]
    BY <2>1 DEF Phases, Typed
  <2>6. Phases'
    <3> SUFFICES ASSUME NEW d \in Engines
                 PROVE  /\ pc'[d] # "idle" => Started(d)'
                        /\ pc'[d] = "idle" => claimed'[d] = {}
                        /\ pc'[d] = "claiming" =>
                             todo'[d] # {} /\ claimed'[d] = Uses[d] \ todo'[d]
                        /\ pc'[d] = "running" => claimed'[d] = Uses[d]
                        /\ pc'[d] = "releasing" => claimed'[d] # {}
                        /\ pc'[d] \in {"claiming", "running"} => outcome'[d] # "refused"
      BY DEF Phases
    <3>1. CASE d = e
      <4>1. Started(e)'
        BY <2>a DEF Started
      <4>2. claimed'[e] = Uses[e] \ todo'[e]
        BY <2>1, <2>4, <2>a
      <4>3. outcome'[e] # "refused"
        BY <2>2, <2>a
      <4> QED BY <2>4, <3>1, <4>1, <4>2, <4>3
    <3>2. CASE d # e
      <4>1. /\ pc'[d] = pc[d] /\ todo'[d] = todo[d] /\ claimed'[d] = claimed[d]
            /\ outcome'[d] = outcome[d]
        BY <2>2, <2>4, <3>2
      <4>2. Started(d)' <=> Started(d)
        BY DEF Started
      <4> QED BY <4>1, <4>2 DEF Phases
    <3> QED BY <3>1, <3>2
  <2>b. \A j \in Uses[e] : call'[e][j] \in {None, "heartbeat"}
    <3>1. ASSUME NEW j \in Uses[e], j # i PROVE call[e][j] \in {None, "heartbeat"}
      BY <2>1, <3>1 DEF Fits, Typed, Commands
    <3> QED BY <1>1, <3>1
  <2>7. Fits'
    <3> SUFFICES ASSUME NEW d \in Engines, NEW j \in Uses[d] PROVE
           /\ call'[d][j] = "claim_scan" => pc'[d] = "claiming" /\ j = Min(todo'[d])
           /\ call'[d][j] = "write" =>
                /\ pc'[d] = "running"
                /\ \A k \in Uses[d] \ {j} : call'[d][k] \in {None, "heartbeat"}
           /\ call'[d][j] = "release_scan" => pc'[d] = "releasing" /\ j = Min(claimed'[d])
      BY DEF Fits
    <3>1. CASE d = e
      BY <1>1, <2>4, <2>b, <3>1, NoneAssumption DEF Fits, Commands
    <3>2. CASE d # e
      BY <1>1, <2>4, <3>2 DEF Fits
    <3> QED BY <3>1, <3>2
  <2>8. Beats'
    <3> SUFFICES ASSUME NEW d \in Engines, NEW j \in Uses[d] PROVE
           /\ beating'[d][j] => j \in claimed'[d]
           /\ pc'[d] = "releasing" => ~beating'[d][Min(claimed'[d])]
           /\ pc'[d] \in {"claiming", "running"} /\ j \in claimed'[d] => beating'[d][j]
      BY DEF Beats
    <3>1. CASE d = e
      BY <2>1, <2>4, <3>1 DEF Beats
    <3>2. CASE d # e
      BY <2>4, <3>2 DEF Beats
    <3> QED BY <3>1, <3>2
  <2> QED BY <1>1, <2>3, <2>5, <2>6, <2>7, <2>8
<1>4. ASSUME NEW why \in Outcomes, cmd \in {"claim_scan", "write"}, GiveUp(e, why)
      PROVE  /\ pc' \in [Engines -> {"idle", "claiming", "running", "releasing"}]
             /\ outcome' \in [Engines -> Outcomes \cup {None}]
             /\ DOMAIN beating' = Engines
             /\ \A d \in Engines : beating'[d] \in [Uses[d] -> BOOLEAN]
             /\ Phases' /\ Fits' /\ Beats'
             /\ todo' = todo /\ claimed' = claimed
  <2>1. pc[e] \in {"claiming", "running"}
    BY <1>4 DEF Fits
  <2>2. \A j \in Uses[e] : j # i => call[e][j] \in {None, "heartbeat"}
    BY <1>4 DEF Fits, Typed, Commands
  <2>3. \A d \in Engines : \A j \in Uses[d] :
          call'[d][j] = IF d = e /\ call[d][j] # "heartbeat" THEN None ELSE call[d][j]
    BY <1>1, <1>4, <2>2
  <2> QED BY <1>1, <1>4, <2>1, <2>3, GiveUpSound DEF GiveUp
<1>5. CASE cmd = "release_scan" /\ LetGo(e, i)
  <2>1. pc[e] = "releasing" /\ i \in claimed[e]
    BY <1>5, Lowest DEF Fits, Phases, Typed
  <2>2. /\ claimed' = [claimed EXCEPT ![e] = @ \ {i}]
        /\ pc' = [pc EXCEPT ![e] = IF claimed'[e] = {} THEN "idle" ELSE @]
        /\ todo' = todo /\ outcome' = outcome
        /\ beating' = Silenced(e, claimed'[e])
    BY <1>5 DEF LetGo
  <2>3. /\ pc' \in [Engines -> {"idle", "claiming", "running", "releasing"}]
        /\ claimed' \in [Engines -> SUBSET Instruments]
        /\ \A d \in Engines \ {e} : pc'[d] = pc[d] /\ claimed'[d] = claimed[d]
        /\ claimed'[e] = claimed[e] \ {i}
        /\ pc'[e] = IF claimed'[e] = {} THEN "idle" ELSE "releasing"
    BY <2>1, <2>2 DEF Typed
  <2>4. claimed'[e] \in SUBSET Uses[e]
    BY <2>3 DEF Typed
  <2>5. /\ DOMAIN beating' = Engines
        /\ \A d \in Engines : beating'[d] \in [Uses[d] -> BOOLEAN]
        /\ \A d \in Engines : \A j \in Uses[d] : beating'[d][j] => beating[d][j]
        /\ \A d \in Engines \ {e} : beating'[d] = beating[d]
        /\ claimed'[e] # {} => ~beating'[e][Min(claimed'[e])]
    BY <2>2, <2>4, SilencedBeats
  <2>6. Phases'
    BY <2>1, <2>2, <2>3 DEF Phases, Started
  <2>9. \A j \in Uses[e] : call'[e][j] \in {None, "heartbeat"}
    BY <1>1, <1>5, <2>1 DEF Fits, Typed, Commands
  <2>7. Fits'
    BY SMTT(30), <1>1, <2>2, <2>3, <2>9, NoneAssumption DEF Fits, Commands
  <2>8. Beats'
    <3>1. ~beating[e][i]
      BY <1>5, <2>1 DEF Beats, Fits
    <3> SUFFICES ASSUME NEW d \in Engines, NEW j \in Uses[d] PROVE
           /\ beating'[d][j] => j \in claimed'[d]
           /\ pc'[d] = "releasing" => ~beating'[d][Min(claimed'[d])]
           /\ pc'[d] \in {"claiming", "running"} /\ j \in claimed'[d] => beating'[d][j]
      BY DEF Beats
    <3>2. CASE d = e
      <4>1. beating[e][j] => j \in claimed[e] /\ j # i
        BY <3>1, <3>2 DEF Beats
      <4> QED BY <2>3, <2>5, <3>2, <4>1
    <3>3. CASE d # e
      BY <2>3, <2>5, <3>3 DEF Beats
    <3> QED BY <3>2, <3>3
  <2> QED BY <1>1, <2>2, <2>3, <2>4, <2>5, <2>6, <2>7, <2>8 DEF Typed
<1>6. CASE cmd \in {"heartbeat", "write"} /\ UNCHANGED <<scans, beating>>
  <2>1. UNCHANGED <<pc, todo, claimed, outcome, beating>>
    BY <1>6 DEF scans
  <2>2. Phases' /\ Beats'
    BY <2>1 DEF Phases, Beats, Started
  <2>3. Fits'
    BY <1>1, <2>1, NoneAssumption DEF Fits, Commands
  <2> QED BY <1>1, <2>1, <2>2, <2>3 DEF Typed
<1> QED BY <1>1, <1>3, <1>4, <1>5, <1>6 DEF Proceeds, Typed, Outcomes

-----------------------------------------------------------------------------
(* What a service does with a request *)

\* What a request makes of the lease: a claim in force ends by the release of
\* its owner alone.
LeaseMoves(i, e, cmd, n, ok) ==
  /\ Sound(i, n)
  /\ cmd = "claim_scan" /\ ok => n.scan = e /\ n.scanAge = 0
  /\ cmd = "claim_scan" /\ ~ok => n.scan = leases[i].scan /\ n.scan # Nobody
  /\ n.scan \in {Nobody, leases[i].scan} \/ (cmd = "claim_scan" /\ ok)
  /\ \A d \in Engines : InForce(d, i) =>
       (n.scan = d /\ n.scanAge <= Lease) \/ (d = e /\ cmd = "release_scan")

LEMMA HandleParts ==
  ASSUME Typed, NEW i \in Instruments, NEW e \in Engines, Handle(i, e)
  PROVE  /\ \E r \in inbox[i] : \E d :
           /\ r.from = e /\ r.cmd \in Commands /\ r.live \in BOOLEAN
           /\ Answer(i, e, r, d) /\ LeaseMoves(i, e, r.cmd, d.lease, d.ok)
         /\ UNCHANGED <<busy, due, left, lost>>
<1> DEFINE x == Service(i)!Expire(leases[i])
           l == Service(i)!Seen(x, e)
<1>1. PICK r \in {q \in inbox[i] : q.from = e} : Answer(i, e, r, Verb(i, l, e, r.cmd))
  BY DEF Handle
<1> DEFINE done == Verb(i, l, e, r.cmd)
<1>2. r.cmd \in Commands /\ r.live \in BOOLEAN
  BY DEF Typed, Requests
<1>3. Sound(i, leases[i]) /\ leases[i].scan \in Engines \cup {Nobody}
  BY DEF Typed, Sound, Service!Leases
<1>4. /\ Sound(i, x)
      /\ x.scan = IF Service(i)!ScanLapsed(leases[i]) THEN Nobody ELSE leases[i].scan
      /\ x.scan # Nobody => x.scanAge = leases[i].scanAge /\ x.scanAge <= Lease
  BY <1>3, ExpireSound
<1>5. /\ Sound(i, l) /\ l.scan = x.scan /\ l.heard[e] = 0
      /\ l.scanAge = IF x.scan = e THEN 0 ELSE x.scanAge
  <2> HIDE DEF x
  <2> QED BY <1>4, SeenSound
<1> HIDE DEF x, l
<1>6. /\ Sound(i, done.lease)
      /\ r.cmd = "claim_scan" /\ done.ok =>
           l.scan \in {Nobody, e} /\ done.lease.scan = e /\ done.lease.scanAge = 0
      /\ r.cmd = "claim_scan" /\ ~done.ok => done.lease = l /\ l.scan # Nobody
      /\ r.cmd = "release_scan" =>
           done.lease = IF l.scan = e THEN Service(i)!EndScan(l) ELSE l
      /\ r.cmd = "release_scan" => done.lease.scan = IF l.scan = e THEN Nobody ELSE l.scan
      /\ r.cmd \in {"heartbeat", "write"} => done.lease = l
  BY <1>2, <1>5, VerbSound
<1>7. LeaseMoves(i, e, r.cmd, done.lease, done.ok)
  <2> DEFINE n == done.lease
             ok == done.ok
  <2> HIDE DEF done
  <2>1. \A d \in Engines : InForce(d, i) =>
          l.scan = d /\ l.scanAge <= Lease /\ d # Nobody
    BY <1>3, <1>4, <1>5, EnginesAssumption, LeaseAssumption DEF InForce, Service!ScanLapsed,
       Sound, Service!Leases
  <2>2. \A d \in Engines : InForce(d, i) =>
          (n.scan = d /\ n.scanAge <= Lease) \/ (d = e /\ r.cmd = "release_scan")
    BY <1>2, <1>6, <2>1, LeaseAssumption DEF Commands
  <2>3. r.cmd = "claim_scan" /\ ~ok => n.scan = leases[i].scan /\ n.scan # Nobody
    BY <1>4, <1>5, <1>6
  <2>4. n.scan \in {Nobody, leases[i].scan} \/ (r.cmd = "claim_scan" /\ ok)
    BY <1>2, <1>4, <1>5, <1>6 DEF Commands
  <2> QED BY <1>6, <2>2, <2>3, <2>4 DEF LeaseMoves
<1> HIDE DEF done
<1> QED BY <1>1, <1>2, <1>7 DEF Handle, done

\* The reply, when there is somebody to hear it, lets the scan proceed.
LEMMA ReplyProceeds ==
  ASSUME NEW e, NEW i, NEW cmd \in Commands, NEW ok, Reply(e, i, cmd, ok)
  PROVE  /\ Proceeds(e, i, cmd)
         /\ cmd = "claim_scan" /\ ~ok => GiveUp(e, "refused")
         /\ cmd = "claim_scan" /\ ok => Claimed(e, i)
         /\ cmd = "write" => UNCHANGED <<scans, beating>> \/ GiveUp(e, "error")
         /\ cmd = "release_scan" => LetGo(e, i)
         /\ cmd = "heartbeat" => UNCHANGED <<scans, beating>>
  BY DEF Reply, Proceeds, Commands

-----------------------------------------------------------------------------
(* Every step keeps the invariant *)

LEMMA InitInv == Init => IInv
<1> SUFFICES ASSUME Init PROVE IInv
  OBVIOUS
<1>0. ~(Nobody \in Engines) /\ MaxScans \in [Engines -> Nat] /\ MaxBlocks \in Nat
  BY EnginesAssumption, ClaimBoundsAssumption
<1>1. ASSUME NEW i \in Instruments PROVE Sound(i, leases[i]) /\ leases[i].scan = Nobody
  <2>1. leases[i] = Service(i)!NewLease
    BY DEF Init
  <2>2. Service(i)!NewLease \in Service(i)!Leases
    BY Ages DEF Service!NewLease, Service!Leases
  <2> QED BY <2>1, <2>2 DEF Sound, Service!NewLease
<1>2. Typed
  <2>1. /\ DOMAIN leases = Instruments
        /\ inbox \in [Instruments -> SUBSET Requests]
        /\ busy \in [Instruments -> BOOLEAN]
        /\ slipped \subseteq Engines \X Instruments /\ lost \in BOOLEAN
    BY DEF Init
  <2>2. /\ pc \in [Engines -> {"idle", "claiming", "running", "releasing"}]
        /\ outcome \in [Engines -> Outcomes \cup {None}]
        /\ todo \in [Engines -> SUBSET Instruments]
        /\ claimed \in [Engines -> SUBSET Instruments]
        /\ \A e \in Engines : todo[e] \subseteq Uses[e] /\ claimed[e] \subseteq Uses[e]
    BY DEF Init
  <2>3. /\ DOMAIN call = Engines /\ DOMAIN beating = Engines /\ DOMAIN due = Engines
        /\ \A e \in Engines : call[e] \in [Uses[e] -> Commands \cup {None}]
        /\ \A e \in Engines : beating[e] \in [Uses[e] -> BOOLEAN]
        /\ \A e \in Engines : due[e] \in [Uses[e] -> BOOLEAN]
    BY DEF Init
  <2>4. /\ left \in [scans : [Engines -> Nat], blocks : 0..MaxBlocks]
        /\ \A e \in Engines : left.scans[e] <= MaxScans[e]
    BY <1>0 DEF Init
  <2> QED BY <1>1, <2>1, <2>2, <2>3, <2>4 DEF Typed
<1>3. Phases /\ Beats /\ Kept /\ NoneLost
  BY DEF Init, Phases, Beats, Kept, NoneLost
<1>4. Fits /\ Decided /\ Awaited
  BY NoneAssumption DEF Init, Fits, Decided, Awaited, RepliesCome, Commands
<1>6. Ordered
  BY <1>1, NoneAssumption DEF Ordered, Init, Outcomes
<1> QED BY <1>2, <1>3, <1>4, <1>6 DEF IInv

\* A request sent at a moment it belongs to.
LEMMA SendSound ==
  ASSUME IInv, NEW e \in Engines, NEW i \in Uses[e], NEW cmd \in Commands,
         Send(e, i, cmd),
         UNCHANGED <<leases, busy, scans, beating, left, history>>,
         cmd # "heartbeat" => Quiet(e),
         cmd = "claim_scan" => pc[e] = "claiming" /\ i = Min(todo[e]),
         cmd = "write" => pc[e] = "running",
         cmd = "release_scan" => pc[e] = "releasing" /\ i = Min(claimed[e]),
         IF cmd = "heartbeat" THEN due' = [due EXCEPT ![e][i] = FALSE] ELSE due' = due
  PROVE  IInv'
<1> USE DEF IInv
<1>0. i \in Instruments
  BY UsedInstruments
<1>1. /\ UNCHANGED <<leases, busy, pc, todo, claimed, outcome, beating, left, slipped,
                     lost>>
      /\ call[e][i] = None
      /\ inbox' = [inbox EXCEPT ![i] = @ \cup {Request(e, cmd, TRUE)}]
  BY DEF Send, scans, history
<1>2. /\ DOMAIN call' = Engines
      /\ \A d \in Engines : call'[d] \in [Uses[d] -> Commands \cup {None}]
      /\ \A d \in Engines : \A j \in Uses[d] :
           call'[d][j] = IF d = e /\ j = i THEN cmd ELSE call[d][j]
      /\ DOMAIN due' = Engines
      /\ \A d \in Engines : due'[d] \in [Uses[d] -> BOOLEAN]
      /\ \A d \in Engines : \A j \in Uses[d] :
           due'[d][j] => due[d][j] /\ ~(cmd = "heartbeat" /\ d = e /\ j = i)
  <2>1. /\ DOMAIN call' = Engines
        /\ \A d \in Engines : call'[d] \in [Uses[d] -> Commands \cup {None}]
        /\ \A d \in Engines : \A j \in Uses[d] :
             call'[d][j] = IF d = e /\ j = i THEN cmd ELSE call[d][j]
    BY DEF Send, Typed
  <2>2. CASE cmd = "heartbeat"
    <3>1. due' = [due EXCEPT ![e] = [due[e] EXCEPT ![i] = FALSE]]
      BY <2>2
    <3> QED BY <2>1, <3>1 DEF Typed
  <2>3. CASE cmd # "heartbeat"
    BY <2>1, <2>3 DEF Typed
  <2> QED BY <2>2, <2>3
<1>3. /\ inbox' \in [Instruments -> SUBSET Requests]
      /\ \A j \in Instruments : inbox'[j] =
           IF j = i THEN inbox[j] \cup {[from |-> e, cmd |-> cmd, live |-> TRUE]} ELSE inbox[j]
  <2> DEFINE r == Request(e, cmd, TRUE)
  <2>1. r \in Requests
    BY DEF Request, Requests
  <2>2. r = [from |-> e, cmd |-> cmd, live |-> TRUE]
    BY DEF Request
  <2>3. inbox \in [Instruments -> SUBSET Requests]
    BY DEF Typed
  <2>4. inbox' = [inbox EXCEPT ![i] = inbox[i] \cup {r}]
    BY <1>1
  <2> HIDE DEF r
  <2>5. \A j \in Instruments : inbox'[j] = IF j = i THEN inbox[j] \cup {r} ELSE inbox[j]
    BY <1>0, <2>3, <2>4
  <2>6. inbox' \in [Instruments -> SUBSET Requests]
    BY <1>0, <2>1, <2>3, <2>4
  <2> QED BY <2>2, <2>5, <2>6
<1>4. Typed'
  <2>1. \A j \in Instruments : Sound(j, leases[j])'
    BY <1>1 DEF Typed, Sound, Service!Leases
  <2> QED BY ZenonT(60), <1>1, <1>2, <1>3, <2>1 DEF Typed
<1>5. Phases' /\ Beats' /\ Kept' /\ Ordered' /\ Decided'
  <2>1. Phases' /\ Beats'
    BY <1>1 DEF Phases, Started, Beats
  <2>2. Kept'
    BY <1>1 DEF Kept, InForce
  <2>3. Ordered'
    BY <1>1 DEF Ordered, FirstScans, Past, Started
  <2>4. Decided'
    BY <1>2 DEF Decided
  <2> QED BY <2>1, <2>2, <2>3, <2>4
<1>6. NoneLost'
  <2> SUFFICES ASSUME ~lost, NEW j \in Instruments, NEW r \in inbox'[j] PROVE r.live
    BY <1>1 DEF NoneLost
  <2>1. CASE r \in inbox[j]
    BY <2>1 DEF NoneLost
  <2>2. CASE r \notin inbox[j]
    BY <1>3, <2>2
  <2> QED BY <2>1, <2>2
<1>7. Fits'
  <2> SUFFICES ASSUME NEW d \in Engines, NEW j \in Uses[d] PROVE
         /\ call'[d][j] = "claim_scan" => pc[d] = "claiming" /\ j = Min(todo[d])
         /\ call'[d][j] = "write" =>
              /\ pc[d] = "running"
              /\ \A k \in Uses[d] \ {j} : call'[d][k] \in {None, "heartbeat"}
         /\ call'[d][j] = "release_scan" => pc[d] = "releasing" /\ j = Min(claimed[d])
    BY <1>1 DEF Fits
  <2>1. CASE d = e /\ j = i
    BY <1>2, <2>1 DEF Quiet
  <2>2. CASE ~(d = e /\ j = i)
    <3>1. call'[d][j] = call[d][j]
      BY <1>2, <2>2
    <3>2. ASSUME call[d][j] = "write", NEW k \in Uses[d] \ {j}
          PROVE  call'[d][k] \in {None, "heartbeat"}
      <4>1. call[d][k] \in {None, "heartbeat"}
        BY <3>2 DEF Fits
      <4>2. CASE d = e /\ k = i
        BY <1>2, <3>2, <4>2, NoneAssumption DEF Quiet, Commands
      <4> QED BY <1>2, <4>1, <4>2
    <3> QED BY <3>1, <3>2 DEF Fits
  <2> QED BY <2>1, <2>2
<1>8. Awaited'
  <2>1. RepliesCome'
    BY <1>2, <1>3, UsedInstruments DEF Awaited, RepliesCome, Request
  <2>2. ASSUME NEW j \in Instruments, NEW r \in inbox'[j]
        PROVE  j \in Uses[r.from] /\ (r.live => call'[r.from][j] = r.cmd)
    <3>1. CASE r \in inbox[j]
      <4>1. j \in Uses[r.from] /\ (r.live => call[r.from][j] = r.cmd)
        BY <3>1 DEF Awaited
      <4>2. r.from \in Engines /\ r.cmd \in Commands
        BY <3>1 DEF Typed, Requests
      <4> QED BY <1>1, <1>2, <4>1, <4>2, NoneAssumption
    <3>2. CASE r \notin inbox[j]
      <4>1. j = i /\ r = [from |-> e, cmd |-> cmd, live |-> TRUE]
        BY <1>3, <3>2
      <4> QED BY <1>2, <4>1
    <3> QED BY <3>1, <3>2
  <2> QED BY <2>1, <2>2 DEF Awaited
<1> QED BY <1>4, <1>5, <1>6, <1>7, <1>8

\* A heartbeat that is decided on, and waits for the lock.
LEMMA BeatSound ==
  ASSUME IInv, NEW e \in Engines, NEW i \in Uses[e], Beat(e, i)
  PROVE  IInv'
<1>0. /\ Typed /\ Phases /\ Fits /\ Decided /\ Awaited /\ Beats /\ Kept /\ NoneLost /\ Ordered
  BY DEF IInv
<1>1. /\ UNCHANGED <<leases, inbox, busy, pc, todo, claimed, outcome, call, beating, left,
                     slipped, lost>>
      /\ call[e][i] # "heartbeat"
      /\ due' = [due EXCEPT ![e] = [due[e] EXCEPT ![i] = TRUE]]
  BY DEF Beat, services, scans, history
<1>2. /\ DOMAIN due' = Engines
      /\ \A d \in Engines : due'[d] \in [Uses[d] -> BOOLEAN]
      /\ \A d \in Engines : \A j \in Uses[d] : due'[d][j] => due[d][j] \/ (d = e /\ j = i)
  BY <1>0, <1>1 DEF Typed
<1>3. Typed'
  <2>1. \A j \in Instruments : Sound(j, leases[j])'
    BY <1>0, <1>1 DEF Typed, Sound, Service!Leases
  <2> QED BY <1>0, <1>1, <1>2, <2>1 DEF Typed
<1>4. Phases' /\ Fits' /\ Beats'
  BY <1>0, <1>1 DEF Phases, Fits, Beats, Started
<1>5. Decided'
  BY <1>0, <1>1, <1>2 DEF Decided
<1>6. Awaited' /\ NoneLost' /\ Kept'
  BY <1>0, <1>1 DEF Awaited, RepliesCome, NoneLost, Kept, InForce
<1>7. Ordered'
  BY <1>0, <1>1 DEF Ordered, FirstScans, Past, Started
<1> QED BY <1>3, <1>4, <1>5, <1>6, <1>7 DEF IInv

\* What a step of e's thread leaves of the scans.
LEMMA ProceedsFrame ==
  ASSUME Typed, Phases, Fits,
         NEW e \in Engines, NEW i \in Uses[e], NEW cmd \in Commands,
         call[e][i] = cmd, Proceeds(e, i, cmd)
  PROVE  /\ \A d \in Engines \ {e} : /\ pc'[d] = pc[d] /\ claimed'[d] = claimed[d]
                                     /\ todo'[d] = todo[d] /\ outcome'[d] = outcome[d]
         /\ pc'[e] \in {"claiming", "running"} =>
              /\ pc[e] \in {"claiming", "running"}
              /\ claimed'[e] = IF cmd = "claim_scan" THEN claimed[e] \cup {i} ELSE claimed[e]
         /\ todo'[e] = todo[e] \/ (cmd = "claim_scan" /\ todo'[e] = todo[e] \ {i} /\ Claimed(e, i))
         /\ cmd = "claim_scan" /\ Claimed(e, i) => todo'[e] = todo[e] \ {i}
         /\ outcome'[e] = "refused" =>
              outcome[e] = "refused" \/ (cmd = "claim_scan" /\ GiveUp(e, "refused"))
<1>1. CASE cmd = "claim_scan" /\ Claimed(e, i)
  <2>1. pc[e] = "claiming"
    BY <1>1 DEF Fits
  <2>2. /\ \A d \in Engines \ {e} : claimed'[d] = claimed[d] /\ todo'[d] = todo[d]
        /\ claimed'[e] = claimed[e] \cup {i} /\ todo'[e] = todo[e] \ {i}
    BY <1>1 DEF Claimed, Typed
  <2>3. /\ outcome' = outcome
        /\ \A d \in Engines \ {e} : pc'[d] = pc[d]
    BY <1>1 DEF Claimed, Typed
  <2>4. outcome'[e] = outcome[e]
    BY <2>3
  <2>5. \A d \in Engines \ {e} : outcome'[d] = outcome[d]
    BY <2>3
  <2> HIDE DEF Claimed
  <2>6. pc[e] \in {"claiming", "running"}
    BY <2>1
  <2>7. outcome'[e] = "refused" => outcome[e] = "refused"
    BY <2>4
  <2>8. claimed'[e] = IF cmd = "claim_scan" THEN claimed[e] \cup {i} ELSE claimed[e]
    BY <1>1, <2>2
  <2>9. \A d \in Engines \ {e} : /\ pc'[d] = pc[d] /\ claimed'[d] = claimed[d]
                                   /\ todo'[d] = todo[d] /\ outcome'[d] = outcome[d]
    BY <2>2, <2>3, <2>5
  <2> QED BY <1>1, <2>2, <2>6, <2>7, <2>8, <2>9
<1>2. ASSUME NEW why \in Outcomes, cmd \in {"claim_scan", "write"}, GiveUp(e, why)
      PROVE  /\ \A d \in Engines \ {e} : /\ pc'[d] = pc[d] /\ claimed'[d] = claimed[d]
                                         /\ todo'[d] = todo[d] /\ outcome'[d] = outcome[d]
             /\ pc'[e] \in {"idle", "releasing"} /\ todo'[e] = todo[e] /\ outcome'[e] = why
             /\ todo' = todo
  BY <1>2 DEF GiveUp, Typed
<1>3. CASE cmd = "release_scan" /\ LetGo(e, i)
  <2>1. pc[e] = "releasing"
    BY <1>3 DEF Fits
  <2> QED BY <1>3, <2>1 DEF LetGo, Typed
<1>4. CASE cmd \in {"heartbeat", "write"} /\ UNCHANGED <<scans, beating>>
  BY <1>4 DEF scans, Typed
<1>5. CASE cmd = "claim_scan" /\ GiveUp(e, "refused") /\ ~Claimed(e, i)
  BY <1>2, <1>5 DEF Outcomes
<1>6. CASE cmd \in {"claim_scan", "write"} /\ GiveUp(e, "error")
               /\ ~(cmd = "claim_scan" /\ Claimed(e, i))
  BY <1>2, <1>6 DEF Outcomes
<1> QED BY <1>1, <1>3, <1>4, <1>5, <1>6 DEF Proceeds

\* A request that is given up.
LEMMA TimeOutSound ==
  ASSUME IInv, NEW e \in Engines, NEW i \in Uses[e], TimeOut(e, i)
  PROVE  IInv'
<1> USE DEF IInv
<1> DEFINE cmd == call[e][i]
           r == Request(e, cmd, TRUE)
           old == [r EXCEPT !.live = FALSE]
<1>0. i \in Instruments
  BY UsedInstruments
<1>1. cmd \in Commands /\ r \in inbox[i]
  BY ZenonT(60) DEF TimeOut, Typed
<1>2. /\ Proceeds(e, i, cmd) /\ Return(e, i) /\ ~(cmd = "claim_scan" /\ Claimed(e, i))
      /\ UNCHANGED <<leases, busy, due, left, slipped>> /\ lost' = TRUE
      /\ inbox' = [inbox EXCEPT ![i] = (@ \ {r}) \cup {old}]
  <2>1. cmd = "claim_scan" => ~Claimed(e, i)
    <3> SUFFICES ASSUME cmd = "claim_scan", Claimed(e, i) PROVE FALSE
      OBVIOUS
    <3>1. pc[e] = "claiming"
      BY DEF Fits
    <3>2. pc'[e] \in {"idle", "releasing"}
      BY DEF TimeOut, GiveUp, Typed
    <3>3. pc'[e] \in {"claiming", "running"}
      BY <3>1 DEF Claimed, Typed
    <3> QED BY <3>2, <3>3
  <2>2. Proceeds(e, i, cmd) /\ Return(e, i)
    BY DEF TimeOut, Proceeds
  <2> QED BY <2>1, <2>2 DEF TimeOut
<1>3. /\ r = [from |-> e, cmd |-> cmd, live |-> TRUE]
      /\ old \in Requests /\ old.from = e /\ old.cmd = cmd /\ old.live = FALSE
  <2>1. r = [from |-> e, cmd |-> cmd, live |-> TRUE]
    BY DEF Request
  <2> HIDE DEF r
  <2>2. r \in Requests
    BY <1>1, <2>1 DEF Requests
  <2> HIDE DEF r
  <2> QED BY <2>1, <2>2 DEF Requests
<1> HIDE DEF r, old
<1>4. /\ inbox' \in [Instruments -> SUBSET Requests]
      /\ \A j \in Instruments : inbox'[j] = IF j = i THEN (inbox[j] \ {r}) \cup {old} ELSE inbox[j]
  <2>1. inbox \in [Instruments -> SUBSET Requests]
    BY DEF Typed
  <2> QED BY <1>0, <1>2, <1>3, <2>1
<1>5. /\ pc' \in [Engines -> {"idle", "claiming", "running", "releasing"}]
      /\ outcome' \in [Engines -> Outcomes \cup {None}]
      /\ todo' \in [Engines -> SUBSET Instruments]
      /\ claimed' \in [Engines -> SUBSET Instruments]
      /\ \A d \in Engines : todo'[d] \subseteq todo[d] /\ claimed'[d] \subseteq Uses[d]
      /\ DOMAIN call' = Engines /\ DOMAIN beating' = Engines
      /\ \A d \in Engines : call'[d] \in [Uses[d] -> Commands \cup {None}]
      /\ \A d \in Engines : beating'[d] \in [Uses[d] -> BOOLEAN]
      /\ \A d \in Engines : \A j \in Uses[d] :
           call'[d][j] = IF d = e /\ j = i THEN None ELSE call[d][j]
      /\ Phases' /\ Fits' /\ Beats'
  BY <1>1, <1>2, ProceedsSound
<1>6. Typed'
  <2>1. \A j \in Instruments : Sound(j, leases[j])'
    BY <1>2 DEF Typed, Sound, Service!Leases
  <2> QED BY <1>2, <1>4, <1>5, <2>1 DEF Typed
<1>7. Awaited'
  <2>1. RepliesCome'
    <3> SUFFICES ASSUME NEW d \in Engines, NEW j \in Uses[d], call'[d][j] # None
                 PROVE  Request(d, call'[d][j], TRUE) \in inbox'[j]
      BY DEF RepliesCome
    <3>1. ~(d = e /\ j = i) /\ call'[d][j] = call[d][j]
      BY <1>5
    <3>2. Request(d, call[d][j], TRUE) \in inbox[j] /\ j \in Instruments
      BY <3>1, UsedInstruments DEF Awaited, RepliesCome
    <3>3. j = i => Request(d, call[d][j], TRUE) # r
      BY <1>3, <3>1 DEF Request
    <3> QED BY <1>4, <3>1, <3>2, <3>3
  <2>2. ASSUME NEW j \in Instruments, NEW q \in inbox'[j]
        PROVE  j \in Uses[q.from] /\ (q.live => call'[q.from][j] = q.cmd)
    <3>1. CASE q \in inbox[j] /\ ~(j = i /\ q = r)
      <4>1. j \in Uses[q.from] /\ (q.live => call[q.from][j] = q.cmd)
        BY <3>1 DEF Awaited
      <4>2. q.from \in Engines /\ q.cmd \in Commands /\ q.live \in BOOLEAN
            /\ q = [from |-> q.from, cmd |-> q.cmd, live |-> q.live]
        BY <3>1 DEF Typed, Requests
      <4>3. q.from = e /\ j = i => ~q.live
        BY <1>3, <3>1, <4>1, <4>2
      <4> QED BY <1>5, <4>1, <4>2, <4>3
    <3>2. CASE ~(q \in inbox[j] /\ ~(j = i /\ q = r))
      <4>1. j = i /\ q = old
        BY <1>3, <1>4, <3>2
      <4> QED BY <1>3, <4>1
    <3> QED BY <3>1, <3>2
  <2> QED BY <2>1, <2>2 DEF Awaited
<1>c. /\ \A d \in Engines \ {e} : pc'[d] = pc[d] /\ claimed'[d] = claimed[d]
      /\ pc'[e] \in {"claiming", "running"} =>
           /\ pc[e] \in {"claiming", "running"}
           /\ claimed'[e] = IF cmd = "claim_scan" THEN claimed[e] \cup {i} ELSE claimed[e]
  <2>1. Typed /\ Phases /\ Fits
    OBVIOUS
  <2>2. cmd \in Commands /\ call[e][i] = cmd /\ Proceeds(e, i, cmd)
    BY <1>1, <1>2
  <2> HIDE DEF cmd, IInv
  <2> QED BY <2>1, <2>2, ProceedsFrame
<1>8. Kept'
  <2> SUFFICES ASSUME NEW d \in Engines, NEW j \in claimed'[d],
                      pc'[d] \in {"claiming", "running"}, <<d, j>> \notin slipped
               PROVE  InForce(d, j)'
    BY <1>2 DEF Kept
  <2>1. CASE d = e
    <3>1. cmd # "claim_scan"
      <4> SUFFICES ASSUME cmd = "claim_scan" PROVE FALSE
        OBVIOUS
      <4>1. GiveUp(e, "error")
        BY DEF TimeOut
      <4> QED BY <2>1, <4>1 DEF GiveUp, Typed
    <3>2. pc[e] \in {"claiming", "running"} /\ claimed'[e] = claimed[e]
      BY <1>c, <2>1, <3>1
    <3> QED BY <1>2, <2>1, <3>2 DEF Kept, InForce
  <2>2. CASE d # e
    <3>1. pc'[d] = pc[d] /\ claimed'[d] = claimed[d]
      BY <1>c, <2>2
    <3> QED BY <1>2, <3>1 DEF Kept, InForce
  <2> QED BY <2>1, <2>2
<1>9. Decided' /\ NoneLost' /\ Ordered'
  BY <1>2, <1>5, NoneAssumption DEF Decided, NoneLost, Ordered, Commands
<1> QED BY <1>5, <1>6, <1>7, <1>8, <1>9


\* A request that is answered.
LEMMA HandleSound ==
  ASSUME IInv, NEW i \in Instruments, NEW e \in Engines, Handle(i, e)
  PROVE  IInv'
<1>0. /\ Typed /\ Phases /\ Fits /\ Decided /\ Awaited /\ Beats /\ Kept /\ NoneLost /\ Ordered
  BY DEF IInv
<1>1. /\ UNCHANGED <<busy, due, left, lost>>
      /\ \E r \in inbox[i] : \E d :
           /\ r.from = e /\ r.cmd \in Commands /\ r.live \in BOOLEAN
           /\ Answer(i, e, r, d) /\ LeaseMoves(i, e, r.cmd, d.lease, d.ok)
  BY <1>0, HandleParts
<1>2. PICK r \in inbox[i] : \E d :
           /\ r.from = e /\ r.cmd \in Commands /\ r.live \in BOOLEAN
           /\ Answer(i, e, r, d) /\ LeaseMoves(i, e, r.cmd, d.lease, d.ok)
  BY <1>1
<1>3. PICK d :
           /\ r.from = e /\ r.cmd \in Commands /\ r.live \in BOOLEAN
           /\ Answer(i, e, r, d) /\ LeaseMoves(i, e, r.cmd, d.lease, d.ok)
  BY <1>2
<1> DEFINE cmd == r.cmd
           n == d.lease
           ok == d.ok
           granted == cmd = "claim_scan" /\ ok
<1>4. i \in Uses[e] /\ (r.live => call[e][i] = cmd)
  BY <1>0, <1>3 DEF Awaited
<1>5. /\ leases' = [leases EXCEPT ![i] = n]
      /\ inbox' = [inbox EXCEPT ![i] = @ \ {r}]
      /\ slipped' =
           IF granted THEN slipped \ {<<e, i>>}
           ELSE IF cmd = "release_scan" /\ ~r.live /\ i \in claimed[e]
           THEN slipped \cup {<<e, i>>} ELSE slipped
      /\ r.live => Return(e, i) /\ Reply(e, i, cmd, ok)
      /\ ~r.live => UNCHANGED <<scans, call, beating>>
  BY <1>3 DEF Answer
<1>6. LeaseMoves(i, e, cmd, n, ok) /\ cmd \in Commands
  BY <1>3
<1> HIDE DEF n, ok
\* The scans and the connections.
<1>7. r.live => /\ Proceeds(e, i, cmd)
                /\ cmd = "claim_scan" /\ ~ok => GiveUp(e, "refused")
                /\ granted => Claimed(e, i)
                /\ cmd = "release_scan" => LetGo(e, i)
  BY <1>5, <1>6 DEF Reply, Proceeds, Commands
<1>8. /\ pc' \in [Engines -> {"idle", "claiming", "running", "releasing"}]
      /\ outcome' \in [Engines -> Outcomes \cup {None}]
      /\ todo' \in [Engines -> SUBSET Instruments]
      /\ claimed' \in [Engines -> SUBSET Instruments]
      /\ \A c \in Engines : todo'[c] \subseteq todo[c] /\ claimed'[c] \subseteq Uses[c]
      /\ DOMAIN call' = Engines /\ DOMAIN beating' = Engines
      /\ \A c \in Engines : call'[c] \in [Uses[c] -> Commands \cup {None}]
      /\ \A c \in Engines : beating'[c] \in [Uses[c] -> BOOLEAN]
      /\ \A c \in Engines : \A j \in Uses[c] :
           call'[c][j] = IF r.live /\ c = e /\ j = i THEN None ELSE call[c][j]
      /\ Phases' /\ Fits' /\ Beats'
  <2>1. CASE r.live
    BY <1>0, <1>1, <1>4, <1>5, <1>6, <1>7, <2>1, ProceedsSound
  <2>2. CASE ~r.live
    <3>1. UNCHANGED <<pc, todo, claimed, outcome, call, beating, left>>
      BY <1>1, <1>5, <2>2 DEF scans
    <3>2. Phases' /\ Fits' /\ Beats'
      BY <1>0, <3>1 DEF Phases, Fits, Beats, Started
    <3> QED BY <1>0, <2>2, <3>1, <3>2 DEF Typed
  <2> QED BY <2>1, <2>2
<1>9. /\ \A c \in Engines \ {e} : /\ pc'[c] = pc[c] /\ claimed'[c] = claimed[c]
                                  /\ todo'[c] = todo[c] /\ outcome'[c] = outcome[c]
      /\ pc'[e] \in {"claiming", "running"} =>
           /\ pc[e] \in {"claiming", "running"}
           /\ \/ claimed'[e] = claimed[e]
              \/ claimed'[e] = claimed[e] \cup {i} /\ r.live /\ cmd = "claim_scan"
      /\ r.live \/ (UNCHANGED <<pc, todo, claimed, outcome>>)
      /\ todo'[e] = todo[e] \/ (r.live /\ cmd = "claim_scan")
      /\ outcome'[e] = "refused" =>
           \/ outcome[e] = "refused"
           \/ r.live /\ cmd = "claim_scan" /\ GiveUp(e, "refused")
  <2>1. CASE r.live
    <3>1. /\ Typed /\ Phases /\ Fits /\ i \in Uses[e] /\ cmd \in Commands
          /\ call[e][i] = cmd /\ Proceeds(e, i, cmd)
      BY <1>0, <1>4, <1>6, <1>7, <2>1
    <3>2. /\ \A c \in Engines \ {e} : /\ pc'[c] = pc[c] /\ claimed'[c] = claimed[c]
                                        /\ todo'[c] = todo[c] /\ outcome'[c] = outcome[c]
          /\ pc'[e] \in {"claiming", "running"} =>
               /\ pc[e] \in {"claiming", "running"}
               /\ claimed'[e] = IF cmd = "claim_scan" THEN claimed[e] \cup {i} ELSE claimed[e]
          /\ todo'[e] = todo[e] \/ cmd = "claim_scan"
          /\ outcome'[e] = "refused" =>
               outcome[e] = "refused" \/ (cmd = "claim_scan" /\ GiveUp(e, "refused"))
      <4> HIDE DEF cmd
      <4> QED BY <3>1, ProceedsFrame
    <3> QED BY <2>1, <3>2
  <2>2. CASE ~r.live
    BY <1>5, <2>2 DEF scans
  <2> QED BY <2>1, <2>2
\* The services.
<1>10. /\ DOMAIN leases' = Instruments
       /\ \A j \in Instruments : leases'[j] = IF j = i THEN n ELSE leases[j]
  BY <1>0, <1>5 DEF Typed
<1>11. /\ inbox' \in [Instruments -> SUBSET Requests]
       /\ \A j \in Instruments : inbox'[j] = IF j = i THEN inbox[j] \ {r} ELSE inbox[j]
  <2>1. inbox \in [Instruments -> SUBSET Requests]
    BY <1>0 DEF Typed
  <2> QED BY <1>5, <2>1
<1>12. Typed'
  <2>1. ASSUME NEW j \in Instruments PROVE Sound(j, leases[j])'
    <3>1. leases'[j] = IF j = i THEN n ELSE leases[j]
      BY <1>10
    <3>2. Sound(j, leases'[j])
      BY <1>0, <1>6, <3>1 DEF Typed, LeaseMoves
    <3> QED BY <3>2 DEF Sound, Service!Leases
  <2>2. slipped' \subseteq Engines \X Instruments
    BY <1>0, <1>5 DEF Typed
  <2> QED BY <1>0, <1>1, <1>8, <1>10, <1>11, <2>1, <2>2 DEF Typed
<1>13. Awaited'
  <2>1. ASSUME NEW q \in inbox[i], q.from = e, q.live, r.live PROVE q = r
    <3>1. q.cmd = r.cmd /\ q \in Requests /\ r \in Requests
      BY <1>0, <1>3, <1>4, <2>1 DEF Awaited, Typed
    <3> QED BY <1>3, <2>1, <3>1 DEF Requests
  <2>2. RepliesCome'
    <3> SUFFICES ASSUME NEW c \in Engines, NEW j \in Uses[c], call'[c][j] # None
                 PROVE  Request(c, call'[c][j], TRUE) \in inbox'[j]
      BY DEF RepliesCome
    <3>1. ~(r.live /\ c = e /\ j = i) /\ call'[c][j] = call[c][j]
      BY <1>8
    <3>2. Request(c, call[c][j], TRUE) \in inbox[j] /\ j \in Instruments
      BY <1>0, <3>1, UsedInstruments DEF Awaited, RepliesCome
    <3>3. j = i => Request(c, call[c][j], TRUE) # r
      BY <1>3, <3>1 DEF Request
    <3> QED BY <1>11, <3>1, <3>2, <3>3
  <2>3. ASSUME NEW j \in Instruments, NEW q \in inbox'[j]
        PROVE  j \in Uses[q.from] /\ (q.live => call'[q.from][j] = q.cmd)
    <3>1. q \in inbox[j] /\ (j = i => q # r)
      BY <1>11
    <3>2. /\ j \in Uses[q.from] /\ (q.live => call[q.from][j] = q.cmd)
          /\ q.from \in Engines
      BY <1>0, <3>1 DEF Awaited, Typed, Requests
    <3>3. q.live => ~(r.live /\ q.from = e /\ j = i)
      BY <2>1, <3>1
    <3> QED BY <1>8, <3>2, <3>3
  <2> QED BY <2>2, <2>3 DEF Awaited
<1>14. Kept'
  <2> SUFFICES ASSUME NEW c \in Engines, NEW j \in claimed'[c],
                      pc'[c] \in {"claiming", "running"}, <<c, j>> \notin slipped'
               PROVE  leases'[j].scan = c /\ leases'[j].scanAge <= Lease
    BY DEF Kept, InForce
  <2>1. pc[c] \in {"claiming", "running"} /\ j \in Instruments
    BY <1>8, <1>9, UsedInstruments
  <2>2. CASE j # i
    <3>1. <<c, j>> \notin slipped
      BY <1>5, <2>2
    <3>2. j \in claimed[c]
      BY <1>9, <2>2
    <3> QED BY <1>0, <1>10, <2>1, <2>2, <3>1, <3>2 DEF Kept, InForce
  <2>3. CASE j = i /\ granted /\ c = e
    BY <1>6, <1>10, <2>3, LeaseAssumption DEF LeaseMoves
  <2>4. CASE j = i /\ ~(granted /\ c = e)
    <3>1. <<c, i>> \notin slipped
      BY <1>5, <2>4
    <3>2. c # e \/ ~r.live \/ cmd # "claim_scan"
      <4> SUFFICES ASSUME c = e, r.live, cmd = "claim_scan" PROVE FALSE
        OBVIOUS
      <4>1. GiveUp(e, "refused")
        BY <1>7, <2>4
      <4>2. pc'[e] \notin {"claiming", "running"}
        BY <1>0, <4>1 DEF GiveUp, Typed
      <4> QED BY <4>2
    <3>3. i \in claimed[c]
      BY <1>9, <2>4, <3>2
    <3>4. ~(c = e /\ cmd = "release_scan")
      <4> SUFFICES ASSUME c = e, cmd = "release_scan" PROVE FALSE
        OBVIOUS
      <4>1. r.live
        BY <1>5, <2>4, <3>3
      <4>2. pc[e] = "releasing"
        BY <1>0, <1>4, <4>1 DEF Fits
      <4> QED BY <2>1, <4>2
    <3>5. InForce(c, i)
      BY <1>0, <2>1, <3>1, <3>3 DEF Kept
    <3> QED BY <1>6, <1>10, <2>4, <3>4, <3>5 DEF LeaseMoves
  <2> QED BY <2>2, <2>3, <2>4
<1>15. Decided'
  BY <1>0, <1>1, <1>8, NoneAssumption DEF Decided, Commands
<1>16. NoneLost'
  BY <1>0, <1>1, <1>11 DEF NoneLost
<1>17. Ordered'
  <2>0. lost' = lost /\ (FirstScans' <=> FirstScans)
    BY <1>1 DEF FirstScans
  <2> DEFINE PastNow(c, k) == left'.scans[c] < MaxScans[c] /\ \A j \in todo'[c] : j > k
  <2> SUFFICES ASSUME ~lost, FirstScans
               PROVE  /\ \A j \in Instruments :
                           leases'[j].scan # Nobody => PastNow(leases'[j].scan, j)
                      /\ \A c \in Engines : outcome'[c] = "refused" =>
                           todo'[c] # {} /\ \E b \in Engines : PastNow(b, Min(todo'[c]))
    BY <2>0 DEF Ordered, Past, Started
  <2>1. /\ \A j \in Instruments : leases[j].scan # Nobody => Past(leases[j].scan, j)
        /\ \A c \in Engines : outcome[c] = "refused" =>
             todo[c] # {} /\ \E b \in Engines : Past(b, Min(todo[c]))
        /\ r.live
    BY <1>0 DEF Ordered, NoneLost
  <2>2. ASSUME NEW c \in Engines, NEW k, Past(c, k) PROVE PastNow(c, k)
    BY <1>1, <1>8, <2>2 DEF Past, Started
  <2>3. ASSUME NEW j \in Instruments PROVE leases[j].scan \in Engines \cup {Nobody}
    BY <1>0 DEF Typed, Sound, Service!Leases
  <2>4. granted => PastNow(e, i)
    <3> SUFFICES ASSUME granted PROVE PastNow(e, i)
      OBVIOUS
    <3>1. pc[e] = "claiming" /\ i = Min(todo[e])
      BY <1>0, <1>4, <2>1 DEF Fits
    <3>2. todo[e] # {} /\ todo[e] \in SUBSET Instruments /\ Started(e)
      BY <1>0, <3>1 DEF Phases, Typed
    <3>3. todo'[e] = todo[e] \ {i}
      BY <1>0, <1>7, <2>1 DEF Claimed, Typed
    <3>4. \A j \in todo[e] : i <= j /\ i \in Nat /\ j \in Nat
      BY <3>1, <3>2, Lowest, UsedInstruments
    <3>5. left'.scans[e] < MaxScans[e]
      BY <1>1, <3>2 DEF Started
    <3> QED BY <3>3, <3>4, <3>5
  <2> HIDE DEF PastNow
  <2>5. ASSUME NEW j \in Instruments, leases'[j].scan # Nobody
        PROVE  PastNow(leases'[j].scan, j)
    <3>1. CASE leases'[j].scan = leases[j].scan
      <4>1. leases[j].scan \in Engines /\ Past(leases[j].scan, j)
        BY <2>1, <2>3, <2>5, <3>1
      <4> QED BY <2>2, <3>1, <4>1
    <3>2. CASE leases'[j].scan # leases[j].scan
      <4>1. j = i /\ granted /\ leases'[j].scan = e
        BY <1>6, <1>10, <2>5, <3>2 DEF LeaseMoves
      <4> QED BY <2>4, <4>1
    <3> QED BY <3>1, <3>2
  <2>6. ASSUME NEW c \in Engines, outcome'[c] = "refused"
        PROVE  todo'[c] # {} /\ \E b \in Engines : PastNow(b, Min(todo'[c]))
    <3>1. CASE outcome[c] = "refused"
      <4>1. todo'[c] = todo[c]
        BY <1>0, <1>4, <1>9, <3>1 DEF Fits, Phases
      <4>2. PICK b \in Engines : Past(b, Min(todo[c]))
        BY <2>1, <3>1
      <4> QED BY <2>1, <2>2, <3>1, <4>1, <4>2
    <3>2. CASE outcome[c] # "refused"
      <4>1. c = e /\ cmd = "claim_scan" /\ GiveUp(e, "refused")
        BY <1>9, <2>6, <3>2
      <4>2. ~ok
        <5> SUFFICES ASSUME ok PROVE FALSE
          OBVIOUS
        <5>1. outcome' = outcome
          BY <1>7, <2>1, <4>1 DEF Claimed
        <5> QED BY <2>6, <3>2, <5>1
      <4>3. leases[i].scan # Nobody /\ leases[i].scan \in Engines
        BY <1>6, <2>3, <4>1, <4>2 DEF LeaseMoves
      <4>4. pc[e] = "claiming" /\ i = Min(todo[e]) /\ todo[e] # {}
        BY <1>0, <1>4, <2>1, <4>1 DEF Fits, Phases
      <4>5. todo' = todo
        BY <4>1 DEF GiveUp
      <4> QED BY <2>1, <2>2, <4>1, <4>3, <4>4, <4>5
    <3> QED BY <3>1, <3>2
  <2> QED BY <2>5, <2>6
<1> QED BY <1>8, <1>12, <1>13, <1>14, <1>15, <1>16, <1>17 DEF IInv


\* A scan begins: none of its requests is about, and it has nothing yet.
LEMMA StartScanSound ==
  ASSUME IInv, NEW e \in Engines, StartScan(e)
  PROVE  IInv'
<1>0. /\ Typed /\ Phases /\ Fits /\ Decided /\ Awaited /\ Beats /\ Kept /\ NoneLost /\ Ordered
  BY DEF IInv
<1>1. /\ UNCHANGED <<leases, inbox, busy, claimed, call, beating, due, slipped, lost>>
      /\ pc[e] = "idle" /\ left.scans[e] > 0
      /\ pc' = [pc EXCEPT ![e] = "claiming"]
      /\ todo' = [todo EXCEPT ![e] = Uses[e]]
      /\ outcome' = [outcome EXCEPT ![e] = None]
      /\ left' = [left EXCEPT !.scans[e] = @ - 1]
  BY DEF StartScan, services, connections, history
<1>2. left \in [scans : [Engines -> Nat], blocks : 0..MaxBlocks] /\ left.scans[e] \in Nat
  BY <1>0 DEF Typed
<1>3. /\ left' \in [scans : [Engines -> Nat], blocks : 0..MaxBlocks]
      /\ left'.scans[e] = left.scans[e] - 1
      /\ \A d \in Engines \ {e} : left'.scans[d] = left.scans[d]
  BY <1>1, <1>2
<1>4. /\ pc' \in [Engines -> {"idle", "claiming", "running", "releasing"}]
      /\ pc'[e] = "claiming" /\ todo'[e] = Uses[e] /\ outcome'[e] = None
      /\ \A d \in Engines \ {e} : pc'[d] = pc[d] /\ todo'[d] = todo[d] /\ outcome'[d] = outcome[d]
  BY <1>0, <1>1 DEF Typed
<1>5. Typed'
  <2>1. \A j \in Instruments : Sound(j, leases[j])'
    BY <1>0, <1>1 DEF Typed, Sound, Service!Leases
  <2>2. /\ todo' \in [Engines -> SUBSET Instruments]
        /\ outcome' \in [Engines -> Outcomes \cup {None}]
        /\ \A d \in Engines : todo'[d] \subseteq Uses[d]
    BY <1>0, <1>1, UsedInstruments DEF Typed
  <2>3. \A d \in Engines : left'.scans[d] <= MaxScans[d]
    BY SMTT(30), <1>0, <1>2, <1>3, ClaimBoundsAssumption DEF Typed
  <2> QED BY <1>0, <1>1, <1>3, <1>4, <2>1, <2>2, <2>3 DEF Typed
<1>6. claimed[e] = {} /\ Uses[e] # {}
  BY <1>0, <1>1, UsedInstruments DEF Phases
<1>7. Phases'
  <2> SUFFICES ASSUME NEW d \in Engines
               PROVE  /\ pc'[d] # "idle" => left'.scans[d] < MaxScans[d]
                      /\ pc'[d] = "idle" => claimed'[d] = {}
                      /\ pc'[d] = "claiming" =>
                           todo'[d] # {} /\ claimed'[d] = Uses[d] \ todo'[d]
                      /\ pc'[d] = "running" => claimed'[d] = Uses[d]
                      /\ pc'[d] = "releasing" => claimed'[d] # {}
                      /\ pc'[d] \in {"claiming", "running"} => outcome'[d] # "refused"
    BY DEF Phases, Started
  <2>1. CASE d = e
    <3>1. left'.scans[e] < MaxScans[e]
      BY <1>0, <1>2, <1>3, ClaimBoundsAssumption DEF Typed
    <3> QED BY <1>1, <1>4, <1>6, <2>1, <3>1, NoneAssumption DEF Outcomes
  <2>2. CASE d # e
    BY <1>0, <1>1, <1>3, <1>4, <2>2 DEF Phases, Started
  <2> QED BY <2>1, <2>2
<1>8. \A j \in Uses[e] : call[e][j] \in {None, "heartbeat"}
  BY SMTT(30), <1>0, <1>1, <1>6 DEF Typed, Fits, Commands
<1>9. Fits'
  <2> SUFFICES ASSUME NEW d \in Engines, NEW j \in Uses[d] PROVE
         /\ call[d][j] = "claim_scan" => pc'[d] = "claiming" /\ j = Min(todo'[d])
         /\ call[d][j] = "write" =>
              /\ pc'[d] = "running"
              /\ \A k \in Uses[d] \ {j} : call[d][k] \in {None, "heartbeat"}
         /\ call[d][j] = "release_scan" => pc'[d] = "releasing" /\ j = Min(claimed[d])
    BY <1>1 DEF Fits
  <2>1. CASE d = e
    BY <1>8, <2>1, NoneAssumption DEF Commands
  <2>2. CASE d # e
    BY <1>0, <1>4, <2>2 DEF Fits
  <2> QED BY <2>1, <2>2
<1>10. Awaited' /\ Decided' /\ NoneLost'
  BY <1>0, <1>1 DEF Awaited, RepliesCome, Decided, NoneLost
<1>11. Beats' /\ Kept'
  <2>1. Beats'
    BY <1>0, <1>1, <1>4, <1>6 DEF Beats
  <2>2. Kept'
    BY <1>0, <1>1, <1>4, <1>6 DEF Kept, InForce
  <2> QED BY <2>1, <2>2
<1>12. Ordered'
  <2> DEFINE PastNow(c, k) == left'.scans[c] < MaxScans[c] /\ \A j \in todo'[c] : j > k
  <2> SUFFICES ASSUME ~lost, FirstScans'
               PROVE  /\ \A j \in Instruments :
                           leases[j].scan # Nobody => PastNow(leases[j].scan, j)
                      /\ \A c \in Engines : outcome'[c] = "refused" =>
                           todo'[c] # {} /\ \E b \in Engines : PastNow(b, Min(todo'[c]))
    BY <1>1 DEF Ordered, Past, Started
  <2>a. /\ \A d \in Engines : left.scans[d] \in Nat /\ MaxScans[d] \in Nat
        /\ left.scans[e] <= MaxScans[e]
    BY <1>0, <1>2, ClaimBoundsAssumption DEF Typed
  <2>b. \A d \in Engines : left'.scans[d] + 1 >= MaxScans[d]
    BY DEF FirstScans
  <2>c. left.scans[e] >= MaxScans[e]
    BY <1>3, <2>a, <2>b
  <2>d. \A d \in Engines \ {e} : left.scans[d] + 1 >= MaxScans[d]
    BY <1>3, <2>b
  <2>1. FirstScans /\ ~Started(e)
    BY <2>a, <2>c, <2>d DEF FirstScans, Started
  <2>2. ASSUME NEW c \in Engines, NEW k, Past(c, k) PROVE PastNow(c, k)
    BY <1>3, <1>4, <2>1, <2>2 DEF Past, Started
  <2>3. \A j \in Instruments : leases[j].scan # Nobody =>
          leases[j].scan \in Engines /\ Past(leases[j].scan, j)
    BY <1>0, <2>1 DEF Ordered, Typed, Sound, Service!Leases
  <2> HIDE DEF PastNow
  <2>4. ASSUME NEW c \in Engines, outcome'[c] = "refused"
        PROVE  todo'[c] # {} /\ \E b \in Engines : PastNow(b, Min(todo'[c]))
    <3>1. c # e
      BY <1>4, <2>4, NoneAssumption DEF Outcomes
    <3>2. outcome[c] = "refused" /\ todo'[c] = todo[c]
      BY <1>4, <2>4, <3>1
    <3>3. todo[c] # {} /\ \E b \in Engines : Past(b, Min(todo[c]))
      BY <1>0, <2>1, <3>2 DEF Ordered
    <3> QED BY <2>2, <3>2, <3>3
  <2> QED BY <2>2, <2>3, <2>4
<1> QED BY <1>5, <1>7, <1>9, <1>10, <1>11, <1>12 DEF IInv

\* A scan ends by itself.
LEMMA ScanEndsSound ==
  ASSUME IInv, NEW e \in Engines, ScanEnds(e)
  PROVE  IInv'
<1>0. /\ Typed /\ Phases /\ Fits /\ Decided /\ Awaited /\ Beats /\ Kept /\ NoneLost /\ Ordered
  BY DEF IInv
<1>1. /\ UNCHANGED <<leases, inbox, busy, call, due, left, slipped, lost>>
      /\ pc[e] = "running" /\ Quiet(e) /\ GiveUp(e, "done")
  BY DEF ScanEnds, services, history
<1>2. /\ todo' = todo /\ claimed' = claimed
      /\ \A d \in Engines \ {e} : pc'[d] = pc[d] /\ outcome'[d] = outcome[d]
      /\ pc'[e] \in {"idle", "releasing"} /\ outcome'[e] = "done"
  BY <1>0, <1>1 DEF GiveUp, Typed
<1>3. /\ DOMAIN call' = Engines
      /\ \A d \in Engines : call'[d] \in [Uses[d] -> Commands \cup {None}]
      /\ \A d \in Engines : \A j \in Uses[d] :
           call'[d][j] = IF d = e /\ call[d][j] # "heartbeat" THEN None ELSE call[d][j]
  BY <1>0, <1>1 DEF Typed, Quiet
<1>4. /\ pc' \in [Engines -> {"idle", "claiming", "running", "releasing"}]
      /\ outcome' \in [Engines -> Outcomes \cup {None}]
      /\ DOMAIN beating' = Engines
      /\ \A d \in Engines : beating'[d] \in [Uses[d] -> BOOLEAN]
      /\ Phases' /\ Fits' /\ Beats'
  BY <1>0, <1>1, <1>3, GiveUpSound DEF Outcomes
<1>5. Typed'
  <2>1. \A j \in Instruments : Sound(j, leases[j])'
    BY <1>0, <1>1 DEF Typed, Sound, Service!Leases
  <2> QED BY <1>0, <1>1, <1>2, <1>3, <1>4, <2>1 DEF Typed
<1>6. Awaited' /\ Decided' /\ NoneLost'
  BY <1>0, <1>1 DEF Awaited, RepliesCome, Decided, NoneLost
<1>7. Kept'
  BY <1>0, <1>1, <1>2 DEF Kept, InForce
<1>8. Ordered'
  BY <1>0, <1>1, <1>2 DEF Ordered, FirstScans, Past, Started
<1> QED BY <1>4, <1>5, <1>6, <1>7, <1>8 DEF IInv

-----------------------------------------------------------------------------
(* The services and time *)

\* A service changes its lease alone, and takes no claim in force away.
LEMMA LeaseStepSound ==
  ASSUME IInv,
         UNCHANGED <<inbox, busy, scans, connections, left, lost>>,
         DOMAIN leases' = Instruments,
         \A j \in Instruments : Sound(j, leases'[j]),
         slipped \subseteq slipped', slipped' \subseteq Engines \X Instruments,
         \A j \in Instruments : leases'[j].scan \in {Nobody, leases[j].scan},
         \A c \in Engines : \A j \in claimed[c] :
           /\ pc[c] \in {"claiming", "running"} /\ <<c, j>> \notin slipped'
           /\ InForce(c, j)
           => leases'[j].scan = c /\ leases'[j].scanAge <= Lease
  PROVE  IInv'
<1>0. /\ Typed /\ Phases /\ Fits /\ Decided /\ Awaited /\ Beats /\ Kept /\ NoneLost /\ Ordered
  BY DEF IInv
<1>1. UNCHANGED <<inbox, busy, pc, todo, claimed, outcome, call, beating, due, left, lost>>
  BY DEF scans, connections
<1>2. Typed'
  <2>1. \A j \in Instruments : Sound(j, leases[j])'
    BY DEF Sound, Service!Leases
  <2> QED BY <1>0, <1>1, <2>1 DEF Typed
<1>3. Phases' /\ Fits' /\ Decided' /\ Beats'
  BY <1>0, <1>1 DEF Phases, Fits, Decided, Beats, Started
<1>4. Awaited' /\ NoneLost'
  <2>1. RepliesCome'
    BY <1>0, <1>1 DEF Awaited, RepliesCome
  <2> QED BY <1>0, <1>1, <2>1 DEF Awaited, NoneLost
<1>5. Kept'
  BY <1>0, <1>1 DEF Kept, InForce
<1>6. Ordered'
  <2> SUFFICES ASSUME ~lost, FirstScans
               PROVE  /\ \A j \in Instruments :
                           leases'[j].scan # Nobody => Past(leases'[j].scan, j)
                      /\ \A c \in Engines : outcome[c] = "refused" =>
                           todo[c] # {} /\ \E b \in Engines : Past(b, Min(todo[c]))
    BY SMTT(30), <1>1 DEF Ordered, FirstScans, Past, Started
  <2> QED BY <1>0 DEF Ordered
<1> QED BY <1>2, <1>3, <1>4, <1>5, <1>6 DEF IInv

\* A long verb of somebody else begins or ends.
LEMMA BlockSound ==
  ASSUME IInv, NEW i \in Instruments, Block(i) \/ Unblock(i)
  PROVE  IInv'
<1>0. /\ Typed /\ Phases /\ Fits /\ Decided /\ Awaited /\ Beats /\ Kept /\ NoneLost /\ Ordered
  BY DEF IInv
<1>1. /\ UNCHANGED <<leases, inbox, pc, todo, claimed, outcome, call, beating, due,
                     slipped, lost>>
      /\ busy' \in [Instruments -> BOOLEAN]
  BY <1>0 DEF Block, Unblock, Typed, scans, connections, history
<1>2. left' \in [scans : [Engines -> Nat], blocks : 0..MaxBlocks] /\ left'.scans = left.scans
  <2>1. left \in [scans : [Engines -> Nat], blocks : 0..MaxBlocks]
    BY <1>0 DEF Typed
  <2>2. CASE Block(i)
    <3>1. left.blocks > 0 /\ left' = [left EXCEPT !.blocks = @ - 1]
      BY <2>2 DEF Block
    <3>2. left.blocks - 1 \in 0..MaxBlocks
      BY <2>1, <3>1, ClaimBoundsAssumption
    <3> QED BY <2>1, <3>1, <3>2
  <2>3. CASE Unblock(i)
    BY <2>1, <2>3 DEF Unblock
  <2> QED BY <2>2, <2>3
<1>3. Typed'
  <2>1. \A j \in Instruments : Sound(j, leases[j])'
    BY <1>0, <1>1 DEF Typed, Sound, Service!Leases
  <2> QED BY <1>0, <1>1, <1>2, <2>1 DEF Typed
<1>4. Phases' /\ Fits' /\ Decided' /\ Beats'
  BY <1>0, <1>1, <1>2 DEF Phases, Fits, Decided, Beats, Started
<1>5. Awaited' /\ NoneLost' /\ Kept'
  BY <1>0, <1>1 DEF Awaited, RepliesCome, NoneLost, Kept, InForce
<1>6. Ordered'
  BY <1>0, <1>1, <1>2 DEF Ordered, FirstScans, Past, Started
<1> QED BY <1>3, <1>4, <1>5, <1>6 DEF IInv

\* The publisher's thread: what it lets expire had lapsed.
LEMMA StatusSound ==
  ASSUME IInv, NEW i \in Instruments, Status(i)
  PROVE  IInv'
<1>0. Typed
  BY DEF IInv
<1> DEFINE x == Service(i)!Expire(leases[i])
<1>1. /\ UNCHANGED <<inbox, busy, scans, connections, left, slipped, lost>>
      /\ leases' = [leases EXCEPT ![i] = x]
  BY DEF Status, history
<1>2. Sound(i, leases[i])
  BY <1>0 DEF Typed
<1>3. /\ Sound(i, x)
      /\ x.scan = IF Service(i)!ScanLapsed(leases[i]) THEN Nobody ELSE leases[i].scan
      /\ x.scan # Nobody => x.scanAge = leases[i].scanAge /\ x.scanAge <= Lease
  BY <1>2, ExpireSound
<1> HIDE DEF x
<1>4. /\ DOMAIN leases' = Instruments
      /\ \A j \in Instruments : leases'[j] = IF j = i THEN x ELSE leases[j]
  BY <1>0, <1>1 DEF Typed
<1>5. \A j \in Instruments : Sound(j, leases'[j])
  BY <1>0, <1>3, <1>4 DEF Typed
<1>6. \A j \in Instruments : leases'[j].scan \in {Nobody, leases[j].scan}
  BY <1>3, <1>4
<1>7. ASSUME NEW c \in Engines, NEW j \in claimed[c], InForce(c, j)
      PROVE  leases'[j].scan = c /\ leases'[j].scanAge <= Lease
  <2>1. j \in Instruments
    BY <1>0, UsedInstruments DEF Typed
  <2>2. CASE j # i
    BY <1>4, <1>7, <2>1, <2>2 DEF InForce
  <2>3. CASE j = i
    <3>1. ~(leases[i].scanAge > Lease) /\ leases[i].scan = c /\ c # Nobody
      BY <1>2, <1>7, <2>3, LeaseAssumption, EnginesAssumption DEF InForce, Sound, Service!Leases
    <3> QED BY <1>3, <1>4, <2>1, <2>3, <3>1 DEF Service!ScanLapsed
  <2> QED BY <2>2, <2>3
<1>8. slipped \subseteq slipped' /\ slipped' \subseteq Engines \X Instruments
  BY <1>0, <1>1 DEF Typed
<1> QED BY <1>1, <1>4, <1>5, <1>6, <1>7, <1>8, LeaseStepSound

\* A tick: a claim that is kept alive stays young, unless the service is busy.
LEMMA TickSound ==
  ASSUME IInv, Tick
  PROVE  IInv'
<1>0. Typed /\ Beats
  BY DEF IInv
<1> DEFINE late == {<<leases[i].scan, i>> :
                      i \in {j \in Instruments : busy[j] /\ leases'[j].scanAge > Lease}}
<1>1. /\ UNCHANGED <<inbox, busy, scans, connections, left, lost>>
      /\ \A e \in Engines : \A i \in Uses[e] :
           beating[e][i] /\ ~busy[i] => leases[i].heard[e] = 0
      /\ leases' = [i \in Instruments |-> Aged(leases[i])]
      /\ slipped' = slipped \cup late
  BY DEF Tick
<1>2. \A i \in Instruments : /\ Sound(i, leases[i])
                             /\ leases[i].scan \in Engines \cup {Nobody}
  BY <1>0 DEF Typed, Sound, Service!Leases
<1>3. /\ DOMAIN leases' = Instruments
      /\ \A i \in Instruments :
           /\ leases'[i] = Aged(leases[i]) /\ Sound(i, leases'[i])
           /\ leases'[i].scan = leases[i].scan
           /\ leases'[i].scan = Nobody => leases'[i].scanAge = 0
           /\ leases[i].scan # Nobody => leases'[i].scanAge <= leases[i].scanAge + 1
  BY <1>1, <1>2, AgedSound
<1>4. \A i \in Instruments : leases'[i].scanAge \in Nat
  BY <1>3, LeaseAssumption DEF Sound, Service!Leases
<1>5. late \subseteq Engines \X Instruments
  BY <1>2, <1>3, LeaseAssumption
<1>6. ASSUME NEW c \in Engines, NEW j \in claimed[c], pc[c] \in {"claiming", "running"},
             <<c, j>> \notin slipped', InForce(c, j)
      PROVE  leases'[j].scan = c /\ leases'[j].scanAge <= Lease
  <2>1. j \in Uses[c] /\ j \in Instruments /\ leases[j].scan = c /\ c # Nobody
    BY <1>0, <1>6, UsedInstruments, EnginesAssumption DEF Typed, InForce
  <2>2. CASE busy[j]
    <3>1. ~(leases'[j].scanAge > Lease)
      BY <1>1, <1>6, <2>1, <2>2
    <3> QED BY <1>3, <1>4, <2>1, <3>1, LeaseAssumption
  <2>3. CASE ~busy[j]
    <3>1. leases[j].heard[c] = 0
      BY <1>0, <1>1, <1>6, <2>1, <2>3 DEF Beats
    <3>2. leases[j].scanAge = 0
      BY <1>2, <2>1, <3>1, LeaseAssumption DEF Sound
    <3> QED BY <1>3, <1>4, <2>1, <3>2, LeaseAssumption
  <2> QED BY <2>2, <2>3
<1>7. slipped \subseteq slipped' /\ slipped' \subseteq Engines \X Instruments
  BY <1>0, <1>1, <1>5 DEF Typed
<1> HIDE DEF late
<1> QED BY <1>1, <1>3, <1>6, <1>7, LeaseStepSound

-----------------------------------------------------------------------------
(* The theorems *)

LEMMA NextInv == IInv /\ [Next]_vars => IInv'
<1> SUFFICES ASSUME IInv, [Next]_vars PROVE IInv'
  OBVIOUS
<1>0. Typed /\ Phases /\ Beats
  BY DEF IInv
<1>1. ASSUME NEW e \in Engines, StartScan(e) PROVE IInv'
  BY <1>1, StartScanSound
<1>2. ASSUME NEW e \in Engines, SendClaim(e) PROVE IInv'
  <2> DEFINE i == Min(todo[e])
  <2>1. /\ pc[e] = "claiming" /\ Quiet(e) /\ Send(e, i, "claim_scan")
        /\ UNCHANGED <<leases, busy, scans, beating, due, left, history>>
    BY <1>2 DEF SendClaim, NextToClaim
  <2>2. i \in Uses[e]
    BY <1>0, <2>1, Lowest DEF Typed, Phases
  <2> QED BY <2>1, <2>2, SendSound DEF Commands
<1>3. ASSUME NEW e \in Engines, SendWrite(e) PROVE IInv'
  <2>1. PICK i \in Uses[e] : Send(e, i, "write")
    BY <1>3 DEF SendWrite
  <2> QED BY <1>3, <2>1, SendSound DEF SendWrite, Commands
<1>4. ASSUME NEW e \in Engines, ScanEnds(e) PROVE IInv'
  BY <1>4, ScanEndsSound
<1>5. ASSUME NEW e \in Engines, SendRelease(e) PROVE IInv'
  <2> DEFINE i == Min(claimed[e])
  <2>1. /\ pc[e] = "releasing" /\ Quiet(e) /\ Send(e, i, "release_scan")
        /\ UNCHANGED <<leases, busy, scans, beating, due, left, history>>
    BY <1>5 DEF SendRelease, NextToRelease
  <2>2. i \in Uses[e]
    BY <1>0, <2>1, Lowest DEF Typed, Phases
  <2> QED BY <2>1, <2>2, SendSound DEF Commands
<1>6. ASSUME NEW e \in Engines, NEW i \in Uses[e], Beat(e, i) PROVE IInv'
  BY <1>6, BeatSound
<1>13. ASSUME NEW e \in Engines, NEW i \in Uses[e], SendBeat(e, i) PROVE IInv'
  BY <1>13, SendSound DEF SendBeat, Commands
<1>7. ASSUME NEW e \in Engines, NEW i \in Uses[e], TimeOut(e, i) PROVE IInv'
  BY <1>7, TimeOutSound
<1>8. ASSUME NEW i \in Instruments, NEW e \in Engines, Handle(i, e) PROVE IInv'
  BY <1>8, HandleSound
<1>9. ASSUME NEW i \in Instruments, Block(i) \/ Unblock(i) PROVE IInv'
  BY <1>9, BlockSound
<1>10. ASSUME NEW i \in Instruments, Status(i) PROVE IInv'
  BY <1>10, StatusSound
<1>11. CASE Tick
  BY <1>11, TickSound
<1>12. CASE UNCHANGED vars
  <2>1. UNCHANGED <<leases, inbox, busy, scans, connections, left, slipped, lost>>
    BY <1>12 DEF vars, services, history
  <2>2. \A c \in Engines : \A j \in claimed[c] : InForce(c, j) =>
          leases'[j].scan = c /\ leases'[j].scanAge <= Lease
    BY <2>1 DEF InForce
  <2>3. \A j \in Instruments : leases[j].scan \in {Nobody, leases[j].scan}
    OBVIOUS
  <2> QED BY <1>0, <2>1, <2>2, <2>3, LeaseStepSound DEF Typed
<1> QED BY <1>1, <1>2, <1>3, <1>4, <1>5, <1>6, <1>7, <1>8, <1>9, <1>10, <1>11, <1>12, <1>13
    DEF Next

\* The inductive invariant holds in every state of every behaviour.
THEOREM Invariance == Spec => []IInv
BY InitInv, NextInv, PTL DEF Spec

\* Every variable of the services, the connections and the scans stays in its
\* range, whatever is lost, and a scan that is over has given back everything.
THEOREM Types == Spec => []TypeOK
<1>1. IInv => TypeOK
  <2> SUFFICES ASSUME IInv PROVE TypeOK
    OBVIOUS
  <2>1. Typed /\ Phases
    BY DEF IInv
  <2>2. \A i \in Instruments : leases[i] \in Service(i)!Leases
    BY <2>1 DEF Typed, Sound
  <2>3. /\ \A e \in Engines : left.scans[e] \in 0..MaxScans[e]
        /\ left.blocks \in 0..MaxBlocks
    BY <2>1, ClaimBoundsAssumption DEF Typed
  <2> QED BY <2>1, <2>2, <2>3 DEF TypeOK, Typed, Phases
<1> QED BY <1>1, Invariance, PTL

\* Instrument.claim_scan to release_scan: a running scan holds every instrument
\* whose service neither was busy until the claim lapsed nor carried out an old
\* release, however heartbeats, time-outs and other scans' requests fall.
THEOREM ClaimsAreKept == Spec => []ClaimKept
<1>1. IInv => ClaimKept
  BY DEF IInv, Kept, InForce, Phases, ClaimKept, HoldsClaims
<1> QED BY <1>1, Invariance, PTL

\* A request given up leaves neither a claim that is kept alive nor a connection
\* that waits for ever.
THEOREM NothingStaysLocked == Spec => []TimeoutsLockNothing
<1>1. IInv => TimeoutsLockNothing
  <2> SUFFICES ASSUME IInv PROVE TimeoutsLockNothing
    OBVIOUS
  <2>1. Typed /\ Phases /\ Fits /\ Decided /\ Awaited /\ Beats
    BY DEF IInv
  <2>2. LeftoversLapse
    <3> SUFFICES ASSUME NEW e \in Engines, NEW i \in Uses[e], pc[e] = "idle"
                 PROVE  /\ ~beating[e][i] /\ call[e][i] \in {None, "heartbeat"}
                        /\ call[e][i] = "heartbeat" => ~due[e][i]
      BY DEF LeftoversLapse
    <3>1. claimed[e] = {}
      BY <2>1 DEF Phases
    <3>2. call[e][i] \in Commands \cup {None} /\ beating[e][i] \in BOOLEAN
      BY <2>1 DEF Typed
    <3> QED BY <2>1, <3>1, <3>2 DEF Fits, Decided, Beats, Commands
  <2> QED BY <2>1, <2>2 DEF Awaited, TimeoutsLockNothing
<1> QED BY <1>1, Invariance, PTL

\* Lab.claim_scan claims in the order of the names: of first scans that want the
\* same instruments, one is not refused.  Whoever was refused was so by a scan
\* that is past the refused instrument; of the refused, the one that came
\* furthest would have been refused by nobody.
THEOREM SomebodyRuns == Spec => []SomeScanRuns
<1>1. IInv => SomeScanRuns
  <2> SUFFICES ASSUME IInv, ~lost, FirstScans,
                      \A e \in Engines : outcome[e] = "refused"
               PROVE  FALSE
    BY DEF SomeScanRuns, FirstScans
  <2>1. Typed /\ Ordered
    BY DEF IInv
  <2>2. \A e \in Engines : todo[e] # {} /\ \E d \in Engines : Past(d, Min(todo[e]))
    BY <2>1 DEF Ordered
  <2>3. \A e \in Engines : Min(todo[e]) \in todo[e] /\ Min(todo[e]) \in Nat
    BY ZenonT(60), <2>1, <2>2, Lowest, UsedInstruments DEF Typed
  <2> DEFINE furthest == [e \in Engines |-> Min(todo[e])]
  <2>4. furthest \in [Engines -> Nat]
    BY <2>3
  <2>5. PICK e \in Engines : \A d \in Engines : furthest[d] <= furthest[e]
    BY <2>4, EnginesAssumption, Greatest
  <2>6. PICK d \in Engines : Past(d, Min(todo[e]))
    BY <2>2
  <2>7. Min(todo[d]) > Min(todo[e])
    BY <2>3, <2>6 DEF Past
  <2>8. Min(todo[d]) <= Min(todo[e])
    BY <2>5
  <2> QED BY <2>3, <2>7, <2>8
<1> QED BY <1>1, Invariance, PTL

=============================================================================
