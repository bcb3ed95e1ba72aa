----------------------- MODULE PastTendersRunProofs -------------------------
(***************************************************************************)
(* That Run keeps every record it read in one place, for any number of     *)
(* portals, records, workers and sessions that fail, and a channel of any  *)
(* capacity.                                                               *)
(***************************************************************************)
EXTENDS PastTendersRun, TLAPS

Chan   == Elements(recordsCh)
Hand   == {held[w] : w \in Busy}
Done   == ({writing} \ {NoRecord}) \cup written \cup dropped
Placed == Chan \cup Hand \cup Done

OneTime(s) == \A i, k \in 1..Len(s) : s[i] = s[k] => i = k

(* A record is in one place, once; none that is still to be read is in     *)
(* any, so what the feeder sends next is new; and none of a portal that    *)
(* has, or may still get, a session is missing.                            *)
PlaceInv ==
  /\ OneTime(recordsCh)
  /\ \A v, w \in Busy : held[v] = held[w] => v = w
  /\ Chan \cap (Hand \cup Done) = {}
  /\ Hand \cap Done = {}
  /\ writing \notin written \cup dropped
  /\ written \cap dropped = {}
  /\ Placed \subseteq Read
  /\ \A r \in Read : r[1] \in established => r \in Placed
  /\ main \in {"feed", "wait"} => \A r \in Read : r[1] = portal => r \in Placed

(* A portal that got a session has a worker to read its channel until it   *)
(* is closed and empty, so what is left behind is of portals without one.  *)
PhaseInv ==
  /\ main \in {"feed", "wait"} => portal \in Portals /\ \A r \in Chan : r[1] = portal
  /\ main = "wait" => next > NumRecords[portal]
  /\ main \in {"feed", "wait"} /\ portal \in established =>
       \/ main = "wait" /\ recordsCh = <<>>
       \/ \E w \in WorkerIds : pc[w] \in {"range", "extract", "send"}
  /\ main \notin {"feed", "wait"} =>
       WorkersDone /\ \A r \in Chan : r[1] \notin established
  /\ \A p \in established : p < portal \/ (p = portal /\ main \in {"feed", "wait"})

(* The writer is through before Run returns.                               *)
EndInv ==
  /\ main \in {"drain", "returned"} => portal > NumPortals
  /\ writer = "done" => main \in {"drain", "returned"} /\ writing = NoRecord
  /\ main = "returned" => writer = "done"

Inv == TypeOK /\ PlaceInv /\ PhaseInv /\ EndInv

-----------------------------------------------------------------------------
(* The constants, and the channel.                                         *)

LEMMA Constants ==
  /\ NumPortals \in Nat /\ RecordsCap \in Nat \ {0}
  /\ \A p \in Portals : p \in Nat /\ NumRecords[p] \in Nat
  /\ \A p \in Portals, n \in Nat \ {0} : n <= NumRecords[p] => <<p, n>> \in Records
  /\ \A r \in Records : r[1] \in Portals /\ r[2] \in Nat \ {0} /\ r[2] <= NumRecords[r[1]]
  /\ NoRecord \notin Records
<1>1. /\ NumPortals \in Nat /\ RecordsCap \in Nat \ {0}
      /\ \A p \in Portals : p \in Nat \ {0} /\ NumRecords[p] \in Nat
  BY PastTendersAssumption DEF Portals
<1>2. \A r \in Records : \E p \in Portals : r \in {p} \X (1..NumRecords[p])
  BY DEF Records
<1>3. ASSUME NEW r \in Records
      PROVE  r[1] \in Portals /\ r[2] \in Nat \ {0} /\ r[2] <= NumRecords[r[1]] /\ r[1] # 0
  <2>1. PICK p \in Portals : r \in {p} \X (1..NumRecords[p])
    BY <1>2
  <2>2. r[1] = p /\ r[2] \in 1..NumRecords[p]
    BY <2>1
  <2> QED
    BY <1>1, <2>2
<1>4. ASSUME NEW p \in Portals, NEW n \in Nat \ {0}, n <= NumRecords[p]
      PROVE  <<p, n>> \in Records
  <2>1. n \in 1..NumRecords[p]
    BY <1>1, <1>4
  <2>2. <<p, n>> \in {p} \X (1..NumRecords[p])
    BY <2>1
  <2> QED
    BY <2>2 DEF Records
<1>5. NoRecord \notin Records
  <2>1. NoRecord[1] = 0
    BY DEF NoRecord
  <2> QED
    BY <1>3, <2>1
<1> QED
  BY <1>1, <1>3, <1>4, <1>5

LEMMA SentLast ==
  ASSUME NEW s \in Seq(Records), NEW r \in Records
  PROVE  /\ Append(s, r) \in Seq(Records)
         /\ Len(Append(s, r)) = Len(s) + 1
         /\ Elements(Append(s, r)) = Elements(s) \cup {r}
         /\ OneTime(s) /\ r \notin Elements(s) => OneTime(Append(s, r))
<1>1. /\ Append(s, r) \in Seq(Records) /\ Len(Append(s, r)) = Len(s) + 1
      /\ \A i \in 1..Len(s) : Append(s, r)[i] = s[i]
      /\ Append(s, r)[Len(s) + 1] = r
      /\ Len(s) \in Nat
  OBVIOUS
<1>2. ASSUME NEW x \in Elements(Append(s, r)) PROVE x \in Elements(s) \cup {r}
  <2>1. PICK i \in 1..Len(s) + 1 : x = Append(s, r)[i]
    BY <1>1 DEF Elements
  <2>2. i = Len(s) + 1 \/ i \in 1..Len(s)
    BY <1>1
  <2> QED
    BY <1>1, <2>1, <2>2 DEF Elements
<1>3. ASSUME NEW x \in Elements(s) PROVE x \in Elements(Append(s, r))
  BY <1>1 DEF Elements
<1>4. r \in Elements(Append(s, r))
  BY <1>1 DEF Elements
<1>5. ASSUME OneTime(s), r \notin Elements(s) PROVE OneTime(Append(s, r))
  BY <1>1, <1>5 DEF OneTime, Elements
<1> QED
  BY <1>1, <1>2, <1>3, <1>4, <1>5

LEMMA TakenFirst ==
  ASSUME NEW s \in Seq(Records), s # <<>>, OneTime(s)
  PROVE  /\ Tail(s) \in Seq(Records)
         /\ Len(Tail(s)) = Len(s) - 1
         /\ Head(s) \in Elements(s) /\ Head(s) \in Records
         /\ Elements(Tail(s)) = Elements(s) \ {Head(s)}
         /\ OneTime(Tail(s))
<1>1. /\ Tail(s) \in Seq(Records) /\ Len(Tail(s)) = Len(s) - 1
      /\ Len(s) \in Nat \ {0} /\ Head(s) = s[1] /\ Head(s) \in Records
      /\ \A i \in 1..Len(s) - 1 : Tail(s)[i] = s[i + 1]
  OBVIOUS
<1>2. Head(s) \in Elements(s)
  BY <1>1 DEF Elements
<1>3. ASSUME NEW x \in Elements(Tail(s)) PROVE x \in Elements(s) \ {Head(s)}
  <2>1. PICK i \in 1..Len(s) - 1 : x = s[i + 1]
    BY <1>1 DEF Elements
  <2> QED
    BY <1>1, <2>1 DEF Elements, OneTime
<1>4. ASSUME NEW x \in Elements(s) \ {Head(s)} PROVE x \in Elements(Tail(s))
  <2>1. PICK i \in 1..Len(s) : x = s[i]
    BY DEF Elements
  <2>2. i # 1 /\ i - 1 \in 1..Len(s) - 1
    BY <1>1, <1>4, <2>1
  <2>3. x = Tail(s)[i - 1]
    BY <1>1, <2>1, <2>2
  <2> QED
    BY <1>1, <2>2, <2>3 DEF Elements
<1>5. OneTime(Tail(s))
  <2> SUFFICES ASSUME NEW i \in 1..Len(s) - 1, NEW k \in 1..Len(s) - 1, s[i + 1] = s[k + 1]
               PROVE  i = k
    BY <1>1 DEF OneTime
  <2>1. i + 1 \in 1..Len(s) /\ k + 1 \in 1..Len(s)
    BY <1>1
  <2> QED
    BY <1>1, <2>1 DEF OneTime
<1> QED
  BY <1>1, <1>2, <1>3, <1>4, <1>5

-----------------------------------------------------------------------------
(* The workers' hands.                                                     *)

LEMMA HandTaken ==
  ASSUME TypeOK, PlaceInv, NEW w \in WorkerIds, NEW r \in Records, pc[w] = "range",
         held' = [held EXCEPT ![w] = r]
  PROVE  /\ Busy' = Busy \cup {w} /\ Hand' = Hand \cup {r}
         /\ r \notin Hand => \A u, v \in Busy' : held'[u] = held'[v] => u = v
<1>1. w \notin Busy /\ r # NoRecord
  BY Constants DEF TypeOK, Busy
<1>2. held'[w] = r /\ \A v \in WorkerIds \ {w} : held'[v] = held[v]
  BY DEF TypeOK
<1>3. Busy' = Busy \cup {w}
  BY <1>1, <1>2 DEF Busy
<1>4. \A v \in Busy : v \in WorkerIds /\ v # w /\ held'[v] = held[v] /\ held[v] \in Hand
  BY <1>1, <1>2 DEF Busy, Hand
<1>5. Hand' = Hand \cup {r}
  BY <1>2, <1>3, <1>4 DEF Hand
<1>6. ASSUME r \notin Hand, NEW u \in Busy', NEW v \in Busy', held'[u] = held'[v] PROVE u = v
  BY <1>2, <1>3, <1>4, <1>6 DEF PlaceInv
<1> QED
  BY <1>3, <1>5, <1>6

LEMMA HandReleased ==
  ASSUME TypeOK, PlaceInv, NEW w \in WorkerIds, pc[w] \in {"extract", "send"},
         held' = [held EXCEPT ![w] = NoRecord]
  PROVE  /\ w \in Busy /\ held[w] \in Hand /\ held[w] \in Records
         /\ Hand' = Hand \ {held[w]}
         /\ \A u, v \in Busy' : held'[u] = held'[v] => u = v
<1>1. w \in Busy /\ held[w] \in Records /\ held[w] \in Hand
  BY Constants DEF TypeOK, Busy, Hand
<1>2. held'[w] = NoRecord /\ \A v \in WorkerIds \ {w} : held'[v] = held[v]
  BY DEF TypeOK
<1>3. Busy' = Busy \ {w}
  BY <1>1, <1>2 DEF Busy
<1>4. \A v \in Busy' : v \in Busy /\ v # w /\ held'[v] = held[v]
  BY <1>2, <1>3 DEF Busy
<1>5. Hand' = Hand \ {held[w]}
  BY <1>1, <1>3, <1>4 DEF Hand, PlaceInv
<1>6. \A u, v \in Busy' : held'[u] = held'[v] => u = v
  BY <1>4 DEF PlaceInv
<1> QED
  BY <1>1, <1>5, <1>6

-----------------------------------------------------------------------------
(* Every step keeps the types.                                             *)

LEMMA TypeStep ==
  ASSUME TypeOK, PhaseInv, PlaceInv, [Next]_vars PROVE TypeOK'
<1> USE DEF workerVars, writerVars
<1>1. ASSUME skipPortal \/ nextPortal PROVE TypeOK'
  <2>1. portal \in Portals
    BY <1>1 DEF skipPortal, nextPortal, PhaseInv
  <2>2. portal + 1 \in 1..(NumPortals + 1)
    BY <2>1, Constants DEF Portals
  <2> QED
    BY <1>1, <2>2 DEF skipPortal, nextPortal, TypeOK
<1>2. ASSUME launch PROVE TypeOK'
  <2>1. pc' \in [WorkerIds -> PCs] /\ \A w \in WorkerIds : pc'[w] \in {"limit", "gone"}
    BY <1>2 DEF launch, PCs
  <2>2. \A w \in WorkerIds : pc[w] = "gone"
    BY <1>2 DEF launch, PhaseInv, WorkersDone
  <2>3. recordsCh' \in Seq(Records) /\ Len(recordsCh') <= RecordsCap
    BY <1>2, Constants DEF launch
  <2> QED
    BY <1>2, <2>1, <2>2, <2>3 DEF launch, TypeOK
<1>3. ASSUME feed PROVE TypeOK'
  <2>1. portal \in Portals /\ next \in Nat \ {0} /\ next <= NumRecords[portal]
    BY <1>3 DEF feed, PhaseInv, TypeOK
  <2>2. <<portal, next>> \in Records
    BY <2>1, Constants
  <2>3. recordsCh' \in Seq(Records) /\ Len(recordsCh') = Len(recordsCh) + 1
    BY <1>3, <2>2, SentLast DEF feed, TypeOK
  <2>4. Len(recordsCh') <= RecordsCap
    BY <1>3, <2>3, Constants DEF feed, TypeOK
  <2> QED
    BY <1>3, <2>3, <2>4 DEF feed, TypeOK
<1>4. ASSUME closeRecords \/ closeWriteCh \/ return PROVE TypeOK'
  BY <1>4 DEF closeRecords, closeWriteCh, return, TypeOK
<1>5. ASSUME NEW w \in WorkerIds, worker(w) PROVE TypeOK'
  <2>1. ASSUME acquire(w) \/ leave(w) PROVE TypeOK'
    BY <2>1 DEF acquire, leave, Go, TypeOK, PCs
  <2>2. ASSUME sessionOk(w) PROVE TypeOK'
    <3>1. portal \in Portals
      <4>1. pc[w] # "gone"
        BY <2>2 DEF sessionOk, Go
      <4> QED
        BY <4>1 DEF PhaseInv, WorkersDone
    <3> QED
      BY <2>2, <3>1 DEF sessionOk, Go, TypeOK, PCs
  <2>3. ASSUME sessionFails(w) PROVE TypeOK'
    <3>1. failures' \in 0..MaxSessionFailures
      BY <2>3, PastTendersAssumption DEF sessionFails, TypeOK
    <3> QED
      BY <2>3, <3>1 DEF sessionFails, Go, TypeOK, PCs
  <2>4. ASSUME take(w) PROVE TypeOK'
    <3>1. Head(recordsCh) \in Records /\ Head(recordsCh) # NoRecord
          /\ recordsCh' \in Seq(Records) /\ Len(recordsCh') <= RecordsCap
      BY <2>4, TakenFirst, Constants DEF take, TypeOK, PlaceInv
    <3> QED
      BY <2>4, <3>1 DEF take, Go, TypeOK, PCs
  <2>5. ASSUME extractOk(w) PROVE TypeOK'
    BY <2>5 DEF extractOk, Go, TypeOK, PCs
  <2>6. ASSUME extractFails(w) PROVE TypeOK'
    <3>1. held[w] \in Records
      BY <2>6, HandReleased DEF extractFails, Go
    <3> QED
      BY <2>6, <3>1 DEF extractFails, Go, TypeOK, PCs
  <2>7. ASSUME sendTender(w) PROVE TypeOK'
    <3>1. held[w] \in Records
      BY <2>7, HandReleased DEF sendTender, Go
    <3> QED
      BY <2>7, <3>1 DEF sendTender, Go, TypeOK, PCs
  <2> QED
    BY <1>5, <2>1, <2>2, <2>3, <2>4, <2>5, <2>6, <2>7 DEF worker
<1>6. ASSUME write \/ writerEnds PROVE TypeOK'
  BY <1>6 DEF write, writerEnds, TypeOK
<1>7. ASSUME UNCHANGED vars PROVE TypeOK'
  BY <1>7 DEF vars, TypeOK
<1> QED
  BY <1>1, <1>2, <1>3, <1>4, <1>5, <1>6, <1>7 DEF Next, run

-----------------------------------------------------------------------------
(* The records stay in their places.                                       *)

(* A step that reads no record and moves none.                             *)
LEMMA SamePlaces ==
  ASSUME PlaceInv, UNCHANGED <<recordsCh, held, writing, written, dropped, established>>,
         Read' = Read,
         main' \in {"feed", "wait"} => main \in {"feed", "wait"} /\ portal' = portal
  PROVE  PlaceInv'
<1>1. UNCHANGED <<Chan, Busy, Hand, Done, Placed>>
  BY DEF Chan, Busy, Hand, Done, Placed
<1> QED
  BY <1>1 DEF PlaceInv

LEMMA PlaceStep ==
  ASSUME Inv, TypeOK', [Next]_vars PROVE PlaceInv'
<1> USE DEF workerVars, writerVars
<1>0. TypeOK /\ PlaceInv /\ PhaseInv
  BY DEF Inv
<1>1. ASSUME UNCHANGED <<main, portal, next>> PROVE Read' = Read
  BY <1>1 DEF Read
<1>2. ASSUME skipPortal PROVE PlaceInv'
  <2>1. \A r \in Records : r[1] # portal
    BY <1>2, Constants DEF skipPortal
  <2>2. \A r \in Records : r[1] < portal + 1 <=> r[1] < portal
    BY <1>0, <2>1, Constants DEF TypeOK
  <2>3. Read' = Read
    BY <1>2, <2>1, <2>2 DEF skipPortal, Read
  <2> QED
    BY <1>0, <1>2, <2>3, SamePlaces DEF skipPortal
<1>3. ASSUME launch PROVE PlaceInv'
  <2>1. \A r \in Records : ~(r[2] < 1)
    BY Constants
  <2>2. Read' = {r \in Records : r[1] < portal} /\ Read' = Read
    BY <1>3, <2>1 DEF launch, Read
  <2>3. Chan' = {} /\ OneTime(recordsCh')
    BY <1>3 DEF launch, Chan, Elements, OneTime
  <2>4. UNCHANGED <<Busy, Hand, Done>>
    BY <1>3 DEF launch, Busy, Hand, Done
  <2>5. \A r \in Chan : r[1] \notin established
    BY <1>0, <1>3 DEF launch, PhaseInv
  <2>6. \A r \in Read' : r[1] # portal
    BY <1>0, <2>2, Constants DEF TypeOK
  <2> QED
    BY <1>0, <1>3, <2>2, <2>3, <2>4, <2>5, <2>6 DEF launch, PlaceInv, Placed
<1>4. ASSUME feed PROVE PlaceInv'
  <2>1. portal \in Portals /\ next \in Nat \ {0} /\ next <= NumRecords[portal]
    BY <1>0, <1>4 DEF feed, PhaseInv, TypeOK
  <2> DEFINE r0 == <<portal, next>>
  <2>2. r0 \in Records /\ r0[1] = portal /\ r0[2] = next
    BY <2>1, Constants
  <2>3. r0 \notin Read
    BY <1>0, <2>1, <2>2, Constants DEF Read, TypeOK
  <2>4. \A r \in Records : r[1] = portal /\ r[2] = next => r = r0
    <3>1. \A r \in Records : \E p \in Portals : r \in {p} \X (1..NumRecords[p])
      BY DEF Records
    <3> QED
      BY <3>1
  <2>5. \A r \in Records : r[2] < next + 1 <=> r[2] < next \/ r[2] = next
    BY <2>1, Constants
  <2>6. Read' = Read \cup {r0}
    BY <1>4, <2>2, <2>4, <2>5 DEF feed, Read
  <2>7. UNCHANGED <<Busy, Hand, Done, established, portal, held, writing, written, dropped>>
    BY <1>4 DEF feed, Busy, Hand, Done
  <2>8. r0 \notin Placed
    BY <1>0, <2>3 DEF PlaceInv
  <2> HIDE DEF r0
  <2>9. recordsCh' = Append(recordsCh, r0)
    BY <1>4 DEF feed, r0
  <2>10. Chan' = Chan \cup {r0} /\ OneTime(recordsCh')
    BY <1>0, <2>2, <2>8, <2>9, SentLast DEF TypeOK, PlaceInv, Placed, Chan
  <2>11. main = "feed"
    BY <1>4 DEF feed
  <2> QED
    BY <1>0, <2>6, <2>7, <2>8, <2>10, <2>11 DEF PlaceInv, Placed
<1>5. ASSUME closeRecords PROVE PlaceInv'
  <2>1. Read' = Read
    BY <1>5 DEF closeRecords, Read
  <2> QED
    BY <1>0, <1>5, <2>1, SamePlaces DEF closeRecords
<1>6. ASSUME nextPortal PROVE PlaceInv'
  <2>1. portal \in Portals /\ next > NumRecords[portal] /\ main = "wait"
    BY <1>0, <1>6 DEF nextPortal, PhaseInv
  <2>2. \A r \in Records : r[1] = portal => r[2] < next
    BY <1>0, <2>1, Constants DEF TypeOK
  <2>3. \A r \in Records : r[1] < portal + 1 <=> r[1] < portal \/ r[1] = portal
    BY <2>1, Constants
  <2>4. Read' = Read
    BY <1>6, <2>1, <2>2, <2>3 DEF nextPortal, Read
  <2> QED
    BY <1>0, <1>6, <2>4, SamePlaces DEF nextPortal
<1>7. ASSUME closeWriteCh \/ return PROVE PlaceInv'
  <2>1. portal > NumPortals /\ portal \in Nat
    BY <1>0, <1>7, Constants DEF closeWriteCh, return, Inv, EndInv, TypeOK
  <2>2. \A r \in Records : r[1] # portal
    BY <2>1, Constants DEF Portals
  <2>3. Read' = Read
    BY <1>7, <2>2 DEF closeWriteCh, return, Read
  <2> QED
    BY <1>0, <1>7, <2>3, SamePlaces DEF closeWriteCh, return
<1>8. ASSUME NEW w \in WorkerIds, worker(w) PROVE PlaceInv'
  <2>0. UNCHANGED <<main, portal, next>> /\ Read' = Read
    BY <1>1, <1>8 DEF worker, acquire, sessionOk, sessionFails, take, leave, extractOk,
                      extractFails, sendTender
  <2>1. ASSUME acquire(w) \/ sessionFails(w) \/ leave(w) \/ extractOk(w) PROVE PlaceInv'
    BY <1>0, <2>0, <2>1, SamePlaces DEF acquire, sessionFails, leave, extractOk
  <2>2. ASSUME sessionOk(w) PROVE PlaceInv'
    <3>1. UNCHANGED <<Chan, Busy, Hand, Done, Placed, held, recordsCh, writing, written, dropped>>
      BY <2>2 DEF sessionOk, Chan, Busy, Hand, Done, Placed
    <3>2. pc[w] # "gone"
      BY <2>2 DEF sessionOk, Go
    <3>3. main \in {"feed", "wait"}
      BY <1>0, <3>2 DEF PhaseInv, WorkersDone
    <3>4. established' = established \cup {portal}
      BY <2>2 DEF sessionOk
    <3> QED
      BY <1>0, <2>0, <3>1, <3>3, <3>4 DEF PlaceInv
  <2>3. ASSUME take(w) PROVE PlaceInv'
    <3>1. PICK r : r = Head(recordsCh)
      OBVIOUS
    <3>2. /\ r \in Chan /\ r \in Records /\ Chan' = Chan \ {r} /\ OneTime(recordsCh')
      BY <1>0, <2>3, <3>1, TakenFirst DEF take, TypeOK, PlaceInv, Chan
    <3>3. held' = [held EXCEPT ![w] = r] /\ pc[w] = "range"
      BY <2>3, <3>1 DEF take, Go
    <3>4. r \notin Hand /\ r \notin Done
      BY <1>0, <3>2 DEF PlaceInv
    <3>5. Hand' = Hand \cup {r} /\ \A u, v \in Busy' : held'[u] = held'[v] => u = v
      BY <1>0, <3>2, <3>3, <3>4, HandTaken
    <3>6. UNCHANGED <<Done, writing, written, dropped, established>>
      BY <2>3 DEF take, Done
    <3>7. Placed' = Placed
      BY <3>2, <3>5, <3>6 DEF Placed
    <3> QED
      BY <1>0, <2>0, <3>2, <3>4, <3>5, <3>6, <3>7 DEF PlaceInv
  <2>4. ASSUME extractFails(w) \/ sendTender(w) PROVE PlaceInv'
    <3>1. PICK r : r = held[w]
      OBVIOUS
    <3>2. pc[w] \in {"extract", "send"} /\ held' = [held EXCEPT ![w] = NoRecord]
      BY <2>4 DEF extractFails, sendTender, Go
    <3>3. /\ r \in Hand /\ r \in Records /\ Hand' = Hand \ {r}
          /\ \A u, v \in Busy' : held'[u] = held'[v] => u = v
      BY <1>0, <3>1, <3>2, HandReleased
    <3>4. r # NoRecord
      BY <3>3, Constants
    <3>5. UNCHANGED <<recordsCh, Chan, established>>
      BY <2>4 DEF extractFails, sendTender, Chan
    <3>6. r \notin Chan /\ r \notin Done
      BY <1>0, <3>3 DEF PlaceInv
    <3>7. CASE extractFails(w)
      <4>1. dropped' = dropped \cup {r} /\ UNCHANGED <<writing, written>>
        BY <3>1, <3>7 DEF extractFails
      <4>2. Done' = Done \cup {r} /\ Placed' = Placed
        BY <3>3, <3>5, <4>1 DEF Done, Placed
      <4>3. writing # r /\ r \notin written
        BY <3>4, <3>6 DEF Done
      <4> QED
        BY <1>0, <2>0, <3>3, <3>5, <3>6, <4>1, <4>2, <4>3 DEF PlaceInv
    <3>8. CASE sendTender(w)
      <4>1. writing = NoRecord /\ writing' = r /\ UNCHANGED <<written, dropped>>
        BY <3>1, <3>8 DEF sendTender
      <4>2. Done' = Done \cup {r} /\ Placed' = Placed
        BY <3>3, <3>4, <3>5, <4>1 DEF Done, Placed
      <4>3. r \notin written \cup dropped
        BY <3>6 DEF Done
      <4> QED
        BY <1>0, <2>0, <3>3, <3>5, <3>6, <4>1, <4>2, <4>3 DEF PlaceInv
    <3> QED
      BY <2>4, <3>7, <3>8
  <2> QED
    BY <1>8, <2>1, <2>2, <2>3, <2>4 DEF worker
<1>9. ASSUME write PROVE PlaceInv'
  <2>1. UNCHANGED <<Chan, Busy, Hand, held, recordsCh, established, main, portal>> /\ Read' = Read
    BY <1>1, <1>9 DEF write, Chan, Busy, Hand
  <2>2. writing # NoRecord /\ writing' = NoRecord /\ writing \notin written \cup dropped
    BY <1>0, <1>9 DEF write, PlaceInv
  <2>3. NoRecord \notin written' \cup dropped'
    BY Constants DEF TypeOK
  <2>4. Done' = Done /\ Placed' = Placed
    BY <1>9, <2>1, <2>2 DEF write, Done, Placed
  <2>5. written' \cap dropped' = {}
    BY <1>0, <1>9, <2>2 DEF write, PlaceInv
  <2> QED
    BY <1>0, <2>1, <2>2, <2>3, <2>4, <2>5 DEF PlaceInv
<1>10. ASSUME writerEnds \/ UNCHANGED vars PROVE PlaceInv'
  BY <1>0, <1>1, <1>10, SamePlaces DEF writerEnds, vars
<1> QED
  BY <1>2, <1>3, <1>4, <1>5, <1>6, <1>7, <1>8, <1>9, <1>10 DEF Next, run

-----------------------------------------------------------------------------
(* The portals, their sessions and the end.                                *)

LEMMA PhaseStep ==
  ASSUME Inv, TypeOK', [Next]_vars PROVE PhaseInv'
<1> USE DEF workerVars, writerVars
<1>0. TypeOK /\ PlaceInv /\ PhaseInv
  BY DEF Inv
<1>1. portal \in Nat /\ \A p \in established : p \in Portals /\ p \in Nat
  BY <1>0, Constants DEF TypeOK
<1>2. ASSUME skipPortal \/ closeWriteCh PROVE PhaseInv'
  <2>1. main = "portal" /\ main' \in {"portal", "drain"}
        /\ UNCHANGED <<pc, recordsCh, established>>
    BY <1>2 DEF skipPortal, closeWriteCh
  <2>2. WorkersDone' /\ \A r \in Chan' : r[1] \notin established'
    BY <1>0, <2>1 DEF PhaseInv, WorkersDone, Chan
  <2>3. portal' = portal \/ portal' = portal + 1
    BY <1>2 DEF skipPortal, closeWriteCh
  <2>4. \A p \in established' : p < portal'
    BY <1>0, <1>1, <2>1, <2>3 DEF PhaseInv
  <2> QED
    BY <2>1, <2>2, <2>4 DEF PhaseInv
<1>3. ASSUME launch PROVE PhaseInv'
  <2>1. main' = "feed" /\ portal' = portal /\ portal \in Portals /\ established' = established
    BY <1>3 DEF launch
  <2>2. portal \notin established /\ \A p \in established : p < portal
    BY <1>0, <1>1, <1>3 DEF launch, PhaseInv
  <2>3. Chan' = {}
    BY <1>3 DEF launch, Chan, Elements
  <2> QED
    BY <2>1, <2>2, <2>3 DEF PhaseInv
<1>4. ASSUME feed PROVE PhaseInv'
  <2>1. portal \in Portals /\ next \in Nat \ {0} /\ next <= NumRecords[portal]
    BY <1>0, <1>4 DEF feed, PhaseInv, TypeOK
  <2>2. PICK r : r = <<portal, next>>
    OBVIOUS
  <2>3. r \in Records /\ r[1] = portal /\ recordsCh' = Append(recordsCh, r)
    BY <1>4, <2>1, <2>2, Constants DEF feed
  <2>4. Chan' = Chan \cup {r}
    BY <1>0, <2>3, SentLast DEF TypeOK, Chan
  <2> QED
    BY <1>0, <1>4, <2>3, <2>4 DEF feed, PhaseInv
<1>5. ASSUME closeRecords PROVE PhaseInv'
  BY <1>0, <1>5 DEF closeRecords, PhaseInv, Chan
<1>6. ASSUME nextPortal PROVE PhaseInv'
  <2>1. main = "wait" /\ main' = "portal" /\ WorkersDone /\ portal' = portal + 1
        /\ UNCHANGED <<pc, recordsCh, established>>
    BY <1>6 DEF nextPortal
  <2>2. WorkersDone' /\ Chan' = Chan
    BY <2>1 DEF WorkersDone, Chan
  <2>3. ASSUME NEW r \in Chan, r[1] \in established PROVE FALSE
    <3>1. recordsCh # <<>>
      <4>1. CASE recordsCh = <<>>
        BY <2>3, <4>1 DEF Chan, Elements
      <4> QED
        BY <4>1
    <3>2. portal \notin established
      BY <1>0, <2>1, <3>1 DEF PhaseInv, WorkersDone
    <3> QED
      BY <1>0, <2>1, <2>3, <3>2 DEF PhaseInv
  <2>4. \A p \in established' : p < portal'
    BY <1>0, <1>1, <2>1 DEF PhaseInv
  <2> QED
    BY <2>1, <2>2, <2>3, <2>4 DEF PhaseInv
<1>7. ASSUME return PROVE PhaseInv'
  BY <1>0, <1>7 DEF return, PhaseInv, WorkersDone, Chan
<1>8. ASSUME NEW w \in WorkerIds, worker(w) PROVE PhaseInv'
  <2>0. UNCHANGED <<main, portal, next>> /\ pc[w] # "gone"
        /\ \A v \in WorkerIds \ {w} : pc'[v] = pc[v]
    BY <1>0, <1>8 DEF worker, acquire, sessionOk, sessionFails, take, leave, extractOk,
                      extractFails, sendTender, Go, TypeOK
  <2>1. main \in {"feed", "wait"}
    BY <1>0, <2>0 DEF PhaseInv, WorkersDone
  <2>2. established' \subseteq established \cup {portal}
    BY <1>8 DEF worker, acquire, sessionOk, sessionFails, take, leave, extractOk,
                      extractFails, sendTender
  <2>3. portal \in established' =>
          \/ main = "wait" /\ recordsCh' = <<>>
          \/ \E v \in WorkerIds : pc'[v] \in {"range", "extract", "send"}
    <3>1. ASSUME sessionOk(w) \/ take(w) \/ extractOk(w) \/ extractFails(w) \/ sendTender(w)
          PROVE  pc'[w] \in {"range", "extract", "send"}
      BY <1>0, <3>1 DEF sessionOk, take, extractOk, extractFails, sendTender, Go, TypeOK
    <3>2. ASSUME acquire(w) \/ sessionFails(w)
          PROVE  /\ pc[w] \notin {"range", "extract", "send"}
                 /\ UNCHANGED <<recordsCh, established>>
      BY <3>2 DEF acquire, sessionFails, Go
    <3>3. ASSUME leave(w) PROVE main = "wait" /\ recordsCh' = <<>>
      BY <3>3 DEF leave
    <3>4. ASSUME acquire(w) \/ sessionFails(w), portal \in established'
          PROVE  \/ main = "wait" /\ recordsCh' = <<>>
                 \/ \E v \in WorkerIds : pc'[v] \in {"range", "extract", "send"}
      BY <1>0, <2>0, <2>1, <3>2, <3>4 DEF PhaseInv
    <3> QED
      BY <1>8, <3>1, <3>3, <3>4 DEF worker
  <2>4. \A p \in established' : p < portal' \/ (p = portal' /\ main' \in {"feed", "wait"})
    BY <1>0, <2>0, <2>1, <2>2 DEF PhaseInv
  <2>5. Chan' \subseteq Chan
    <3>1. CASE take(w)
      BY <1>0, <3>1, TakenFirst DEF take, TypeOK, PlaceInv, Chan
    <3>2. CASE UNCHANGED recordsCh
      BY <3>2 DEF Chan
    <3> QED
      BY <1>8, <3>1, <3>2 DEF worker, acquire, sessionOk, sessionFails, leave, extractOk,
                              extractFails, sendTender
  <2> QED
    BY <1>0, <2>0, <2>1, <2>3, <2>4, <2>5 DEF PhaseInv
<1>9. ASSUME write \/ writerEnds \/ UNCHANGED vars PROVE PhaseInv'
  <2>1. UNCHANGED <<main, portal, next, recordsCh, pc, established>>
    BY <1>9 DEF write, writerEnds, vars
  <2> QED
    BY <1>0, <2>1 DEF PhaseInv, WorkersDone, Chan
<1> QED
  BY <1>2, <1>3, <1>4, <1>5, <1>6, <1>7, <1>8, <1>9 DEF Next, run

LEMMA EndStep ==
  ASSUME Inv, [Next]_vars PROVE EndInv'
<1> USE DEF workerVars, writerVars
<1>0. EndInv
  BY DEF Inv
<1>1. ASSUME run PROVE EndInv'
  BY <1>0, <1>1 DEF run, skipPortal, launch, feed, closeRecords, nextPortal, closeWriteCh, return,
                    EndInv
<1>2. ASSUME NEW w \in WorkerIds, worker(w) PROVE EndInv'
  <2>1. UNCHANGED <<main, portal, writer>> /\ (writing' = writing \/ writer = "on")
    BY <1>2 DEF worker, acquire, sessionOk, sessionFails, take, leave, extractOk, extractFails,
                sendTender
  <2> QED
    BY <1>0, <2>1 DEF EndInv
<1>3. ASSUME write \/ writerEnds \/ UNCHANGED vars PROVE EndInv'
  BY <1>0, <1>3 DEF write, writerEnds, vars, EndInv
<1> QED
  BY <1>1, <1>2, <1>3 DEF Next

LEMMA InitInv == Init => Inv
<1> SUFFICES ASSUME Init PROVE Inv
  OBVIOUS
<1>1. TypeOK
  <2>1. portal \in 1..(NumPortals + 1) /\ next \in Nat \ {0}
    BY Constants DEF Init
  <2>2. recordsCh \in Seq(Records) /\ Len(recordsCh) <= RecordsCap
    BY Constants DEF Init
  <2>3. failures \in 0..MaxSessionFailures
    BY PastTendersAssumption DEF Init
  <2> QED
    BY <2>1, <2>2, <2>3 DEF Init, TypeOK, PCs
<1>2. Chan = {} /\ Busy = {} /\ Hand = {} /\ Done = {} /\ Placed = {} /\ OneTime(recordsCh)
  BY DEF Init, Chan, Elements, Busy, Hand, Done, Placed, OneTime
<1>3. PlaceInv
  BY <1>2 DEF Init, PlaceInv
<1>4. PhaseInv
  BY <1>2 DEF Init, PhaseInv, WorkersDone
<1>5. EndInv
  BY DEF Init, EndInv
<1> QED
  BY <1>1, <1>3, <1>4, <1>5 DEF Inv

-----------------------------------------------------------------------------
(* The records of every portal stay in one place each, its workers go only *)
(* when its channel is empty or none of them got a session, and the writer *)
(* is through before Run returns: the inductive invariant of Run, the      *)
(* types included.                                                         *)
THEOREM Invariance == Spec => []Inv
<1>1. Inv /\ [Next]_vars => Inv'
  <2> SUFFICES ASSUME Inv, [Next]_vars PROVE Inv'
    OBVIOUS
  <2>1. TypeOK'
    BY TypeStep DEF Inv
  <2> QED
    BY <2>1, PlaceStep, PhaseStep, EndStep DEF Inv
<1> QED
  BY InitInv, <1>1, PTL DEF Spec

LEMMA InvKept == Inv => RecordKeptOnce
<1> SUFFICES ASSUME Inv PROVE RecordKeptOnce
  OBVIOUS
<1> DEFINE Held == {writing} \ {NoRecord}
           places == <<Chan, Hand, Held, written, dropped>>
<1>0. TypeOK /\ PlaceInv /\ PhaseInv /\ EndInv
  BY DEF Inv
<1>1. \A i, k \in 1..Len(places) : i # k => places[i] \cap places[k] = {}
  <2>1. /\ Chan \cap Hand = {} /\ Chan \cap Held = {} /\ Chan \cap written = {}
        /\ Chan \cap dropped = {} /\ Hand \cap Held = {} /\ Hand \cap written = {}
        /\ Hand \cap dropped = {} /\ Held \cap written = {} /\ Held \cap dropped = {}
        /\ written \cap dropped = {}
    BY <1>0 DEF PlaceInv, Done
  <2> HIDE DEF Held
  <2>2. Len(places) = 5
    OBVIOUS
  <2>3. \A i \in 1..5 : i = 1 \/ i = 2 \/ i = 3 \/ i = 4 \/ i = 5
    OBVIOUS
  <2>4. /\ places[1] = Chan /\ places[2] = Hand /\ places[3] = Held
        /\ places[4] = written /\ places[5] = dropped
    OBVIOUS
  <2> HIDE DEF places
  <2> QED
    BY <2>1, <2>2, <2>3, <2>4
<1>2. UNION Elements(places) = Placed
  <2>1. /\ Len(places) = 5
        /\ places[1] = Chan /\ places[2] = Hand /\ places[3] = Held
        /\ places[4] = written /\ places[5] = dropped
    OBVIOUS
  <2> HIDE DEF places
  <2>2. Elements(places) = {Chan, Hand, Held, written, dropped}
    BY <2>1 DEF Elements
  <2> QED
    BY <2>2 DEF Placed, Done
<1>3. {r \in Read : r[1] \in established} \subseteq Placed
  BY <1>0 DEF PlaceInv
<1>4. ASSUME main = "returned", NEW r \in Records, r[1] \in established
      PROVE  r \in written \cup dropped
  <2>1. portal > NumPortals /\ portal \in Nat /\ writing = NoRecord /\ WorkersDone
    BY <1>0, <1>4, Constants DEF EndInv, PhaseInv, TypeOK
  <2>2. r[1] < portal
    BY <2>1, <1>4, Constants DEF Portals
  <2>3. r \in Placed
    BY <1>0, <1>4, <2>2 DEF Read, PlaceInv
  <2>4. r \notin Chan
    BY <1>0, <1>4 DEF PhaseInv
  <2>5. Hand = {}
    BY <1>0, <2>1 DEF Hand, Busy, TypeOK, WorkersDone
  <2> QED
    BY <2>1, <2>3, <2>4, <2>5 DEF Placed, Done
<1> HIDE DEF places
<1>5. \A v, w \in Busy : held[v] = held[w] => v = w
  BY <1>0 DEF PlaceInv
<1> QED
  BY <1>1, <1>2, <1>3, <1>4, <1>5 DEF RecordKeptOnce, places, Chan, Hand

(* No record is lost, doubled or left in a channel of a portal that got a  *)
(* session, whatever fails and however the goroutines are scheduled.       *)
THEOREM RecordKeptOnceAlways == Spec => []RecordKeptOnce
  BY Invariance, InvKept, PTL
=============================================================================
