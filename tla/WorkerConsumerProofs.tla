------------------------ MODULE WorkerConsumerProofs ------------------------
(***************************************************************************)
(* That the consumer never has a message in two hands, loses one, or       *)
(* leaves one with the broker as unacknowledged that nobody holds, for     *)
(* every number of messages and workers and every prefetch window.         *)
(***************************************************************************)
EXTENDS WorkerConsumer, TLAPS

Held    == {holds[w] : w \in {v \in Workers : holds[v] # NoMessage}}
Offered == {offer} \ {NoMessage}

(* What the two invariants rest on: a message still in the channel is in   *)
(* nobody's hands; a channel whose connection is gone is empty; and a      *)
(* worker that has left holds nothing, which makes the wait for all of     *)
(* them a wait for all their messages.                                     *)
Inv ==
  /\ TypeOK
  /\ HeldOnce
  /\ MessageAccounted
  /\ msgs \cap (Offered \cup Held) = {}
  /\ ~connected => msgs = {}
  /\ \A w \in exited : holds[w] = NoMessage
  /\ feeder = "returned" => exited = Workers

LEMMA InitInv == Init => Inv
<1> SUFFICES ASSUME Init PROVE Inv
  OBVIOUS
<1>1. TypeOK
  <2>1. nacks \in 0..MaxNacks /\ holds \in [Workers -> Messages \cup {NoMessage}]
    BY ConsumerAssumption DEF Init
  <2>2. offer # NoMessage <=> feeder \in {"send", "panicked"}
    BY DEF Init
  <2> QED
    BY <2>1, <2>2, Zenon DEF Init, TypeOK
<1>2. Held = {} /\ Offered = {}
  BY DEF Init, Held, Offered
<1> QED
  BY <1>1, <1>2 DEF Init, Inv, HeldOnce, MessageAccounted, Held, Offered

(* Every step keeps the types.                                             *)
LEMMA TypeStep == TypeOK /\ [Next]_vars => TypeOK'
<1> SUFFICES ASSUME TypeOK, [Next]_vars PROVE TypeOK'
  OBVIOUS
<1> USE ConsumerAssumption DEF TypeOK, brokerVars, poolVars
<1>1. ASSUME broker PROVE TypeOK'
  BY <1>1 DEF broker, prefetch
<1>2. ASSUME loseConnection PROVE TypeOK'
  BY <1>2 DEF loseConnection, ConnectionEnds
<1>3. ASSUME feedLoop PROVE TypeOK'
  <2>1. ASSUME NEW m \in Messages, feedReceive(m) PROVE TypeOK'
    BY <2>1 DEF feedReceive
  <2>2. ASSUME NEW w \in Workers, feedSend(w) PROVE TypeOK'
    BY <2>2 DEF feedSend
  <2>3. ASSUME feedEnd PROVE TypeOK'
    BY <2>3 DEF feedEnd
  <2>4. ASSUME feedCancel PROVE TypeOK'
    BY <2>4 DEF feedCancel, Nack
  <2>5. ASSUME feedPanic PROVE TypeOK'
    BY <2>5 DEF feedPanic, ConnectionEnds
  <2>6. ASSUME feedReturn PROVE TypeOK'
    BY <2>6 DEF feedReturn, ConnectionEnds
  <2> QED
    BY <1>3, <2>1, <2>2, <2>3, <2>4, <2>5, <2>6 DEF feedLoop
<1>4. ASSUME monitorWakes \/ monitorCloses \/ cancel PROVE TypeOK'
  BY <1>4 DEF monitorWakes, monitorCloses, cancel
<1>5. ASSUME NEW w \in Workers, worker(w) PROVE TypeOK'
  <2>1. ASSUME finishAck(w) PROVE TypeOK'
    BY <2>1 DEF finishAck, Ack
  <2>2. ASSUME finishNack(w) PROVE TypeOK'
    BY <2>2 DEF finishNack, Nack
  <2>3. ASSUME exitWorker(w) PROVE TypeOK'
    BY <2>3 DEF exitWorker
  <2> QED
    BY <1>5, <2>1, <2>2, <2>3 DEF worker
<1>6. ASSUME UNCHANGED vars PROVE TypeOK'
  BY <1>6 DEF vars
<1> QED
  BY <1>1, <1>2, <1>3, <1>4, <1>5, <1>6 DEF Next

(* What one worker's hand means for the set of messages held.              *)
LEMMA HeldTaken ==
  ASSUME TypeOK, NEW w \in Workers, NEW m \in Messages, holds[w] = NoMessage,
         holds' = [holds EXCEPT ![w] = m]
  PROVE  Held' = Held \cup {m}
  BY ConsumerAssumption DEF TypeOK, Held

LEMMA HeldReleased ==
  ASSUME TypeOK, HeldOnce, NEW w \in Workers, holds[w] # NoMessage,
         holds' = [holds EXCEPT ![w] = NoMessage]
  PROVE  Held' = Held \ {holds[w]}
  BY ConsumerAssumption DEF TypeOK, Held, HeldOnce

(* A step that changes neither hands nor channel nor the broker's books.   *)
LEMMA QuietStep ==
  ASSUME Inv, TypeOK', UNCHANGED <<brokerVars, holds, offer>>, exited' = exited,
         feeder' # "returned"
  PROVE  Inv'
  BY DEF Inv, HeldOnce, MessageAccounted, Held, Offered, brokerVars

(* A connection that ends gives every message back and leaves the rest.    *)
LEMMA EndStep ==
  ASSUME Inv, TypeOK', ConnectionEnds, UNCHANGED <<holds, offer, exited>>,
         feeder' = "returned" => exited = Workers
  PROVE  Inv'
<1>1. HeldOnce'
  BY DEF Inv, HeldOnce
<1>2. MessageAccounted'
  BY DEF Inv, MessageAccounted, ConnectionEnds, TypeOK
<1> QED
  BY <1>1, <1>2 DEF Inv, ConnectionEnds, Held, Offered

LEMMA NextInv == Inv /\ [Next]_vars => Inv'
<1> SUFFICES ASSUME Inv, [Next]_vars PROVE Inv'
  OBVIOUS
<1> USE ConsumerAssumption
<1>0. TypeOK'
  BY TypeStep DEF Inv
<1>1. ASSUME broker PROVE Inv'
  <2> PICK m \in Messages : prefetch(m)
    BY <1>1 DEF broker
  <2>1. HeldOnce'
    BY DEF Inv, HeldOnce, prefetch, poolVars
  <2>2. Held' = Held /\ Offered' = Offered
    BY DEF prefetch, poolVars, Held, Offered
  <2>3. m \notin Offered \cup Held
    BY DEF Inv, MessageAccounted, prefetch, Held, Offered
  <2>4. MessageAccounted'
    BY <2>2 DEF Inv, MessageAccounted, prefetch, Held, Offered
  <2> QED
    BY <1>0, <2>1, <2>2, <2>3, <2>4 DEF Inv, prefetch, poolVars
<1>2. ASSUME loseConnection PROVE Inv'
  BY <1>0, <1>2, EndStep DEF loseConnection, poolVars, Inv
<1>3. ASSUME NEW m \in Messages, feedReceive(m) PROVE Inv'
  <2>1. Held' = Held /\ Offered = {} /\ Offered' = {m}
    BY <1>3 DEF feedReceive, poolVars, Held, Offered, Inv, TypeOK
  <2>2. HeldOnce'
    BY <1>3 DEF Inv, HeldOnce, feedReceive, poolVars, Held
  <2>3. MessageAccounted'
    BY <1>3, <2>1 DEF Inv, MessageAccounted, feedReceive, Held, Offered
  <2> QED
    BY <1>0, <1>3, <2>1, <2>2, <2>3 DEF Inv, feedReceive, poolVars
<1>4. ASSUME NEW w \in Workers, feedSend(w) PROVE Inv'
  <2>1. offer \in Messages /\ holds[w] = NoMessage /\ w \notin exited
    BY <1>4 DEF feedSend, Idle, Inv, TypeOK
  <2>2. Held' = Held \cup {offer} /\ Offered = {offer} /\ Offered' = {}
    BY <1>4, <2>1, HeldTaken DEF feedSend, Offered, Inv
  <2>3. HeldOnce'
    BY <1>4, <2>1 DEF Inv, HeldOnce, feedSend, TypeOK
  <2>4. MessageAccounted'
    BY <1>4, <2>2 DEF Inv, MessageAccounted, feedSend, brokerVars, Held, Offered
  <2>5. \A v \in exited' : holds'[v] = NoMessage
    BY <1>4, <2>1 DEF Inv, TypeOK, feedSend
  <2> QED
    BY <1>0, <1>4, <2>2, <2>3, <2>4, <2>5 DEF Inv, feedSend, brokerVars
<1>5. ASSUME feedCancel PROVE Inv'
  <2>1. offer \in Messages /\ Held' = Held /\ Offered = {offer} /\ Offered' = {}
    BY <1>5 DEF feedCancel, poolVars, Held, Offered, Inv, TypeOK
  <2>2. offer \notin Held /\ offer \notin msgs
    BY <2>1 DEF Inv, HeldOnce, Held
  <2>3. HeldOnce'
    BY <1>5 DEF Inv, HeldOnce, feedCancel, poolVars
  <2>4. MessageAccounted'
    <3>1. /\ queued' \cup unacked' \cup acked' = Messages
          /\ queued' \cap unacked' = {} /\ queued' \cap acked' = {} /\ unacked' \cap acked' = {}
      BY <1>5, <2>1 DEF Inv, MessageAccounted, feedCancel, Nack
    <3>2. connected' => unacked' = msgs' \cup Offered' \cup Held'
      BY <1>5, <2>1, <2>2 DEF Inv, MessageAccounted, feedCancel, Nack, Held, Offered
    <3> QED
      BY <3>1, <3>2 DEF MessageAccounted, Held, Offered
  <2> QED
    BY <1>0, <1>5, <2>1, <2>3, <2>4 DEF Inv, feedCancel, Nack, poolVars
<1>6. ASSUME feedPanic \/ feedReturn PROVE Inv'
  BY <1>0, <1>6, EndStep DEF feedPanic, feedReturn, poolVars
<1>7. ASSUME feedEnd \/ monitorWakes \/ monitorCloses \/ cancel PROVE Inv'
  <2>1. CASE feeder' # "returned"
    BY <1>0, <1>7, <2>1, QuietStep
       DEF feedEnd, monitorWakes, monitorCloses, cancel, brokerVars, poolVars
  <2>2. CASE feeder' = "returned"
    BY <1>0, <1>7, <2>2 DEF feedEnd, monitorWakes, monitorCloses, cancel, brokerVars, poolVars,
       Inv, HeldOnce, MessageAccounted, Held, Offered
  <2> QED
    BY <2>1, <2>2
<1>8. ASSUME NEW w \in Workers, finishAck(w) \/ finishNack(w) PROVE Inv'
  <2>1. /\ holds[w] \in Messages
        /\ holds' = [holds EXCEPT ![w] = NoMessage]
        /\ UNCHANGED <<msgs, connected, feeder, offer, exited>>
    BY <1>8 DEF finishAck, finishNack, Ack, Nack, Inv, TypeOK
  <2>2. Held' = Held \ {holds[w]} /\ Offered' = Offered
    BY <2>1, HeldReleased DEF Inv, Offered
  <2>3. holds[w] \notin Offered /\ holds[w] \notin msgs
    BY <2>1 DEF Inv, HeldOnce, Held, Offered
  <2>4. HeldOnce'
    BY <2>1 DEF Inv, HeldOnce, TypeOK
  <2>5. MessageAccounted'
    BY <1>8, <2>1, <2>2, <2>3
       DEF Inv, MessageAccounted, finishAck, finishNack, Ack, Nack, Held, Offered
  <2>6. \A v \in exited' : holds'[v] = NoMessage
    BY <2>1 DEF Inv, TypeOK
  <2> QED
    BY <1>0, <2>1, <2>2, <2>4, <2>5, <2>6 DEF Inv
<1>9. ASSUME NEW w \in Workers, exitWorker(w) PROVE Inv'
  <2>1. HeldOnce' /\ MessageAccounted'
    BY <1>9 DEF exitWorker, brokerVars, Inv, HeldOnce, MessageAccounted
  <2> QED
    BY <1>0, <1>9, <2>1 DEF exitWorker, Idle, brokerVars, Inv, TypeOK, Held, Offered
<1>10. ASSUME UNCHANGED vars PROVE Inv'
  BY <1>0, <1>10 DEF vars, brokerVars, poolVars, Inv, HeldOnce, MessageAccounted, Held, Offered
<1> QED
  BY <1>1, <1>2, <1>3, <1>4, <1>5, <1>6, <1>7, <1>8, <1>9, <1>10 DEF Next, feedLoop, worker

(* The types, the invariant and the two properties, for every instance.    *)
THEOREM Invariance == Spec => []Inv
  BY InitInv, NextInv, PTL DEF Spec

(* No message is ever in the hands of two goroutines, and startGoWorker-   *)
(* Consumer returns with none in hand.                                     *)
THEOREM HeldOnceAlways == Spec => []HeldOnce
<1>1. Inv => HeldOnce
  BY DEF Inv
<1> QED
  BY <1>1, Invariance, PTL

(* No message vanishes, and the broker's window is never used up by        *)
(* messages nobody will acknowledge.                                       *)
THEOREM MessageAccountedAlways == Spec => []MessageAccounted
<1>1. Inv => MessageAccounted
  BY DEF Inv
<1> QED
  BY <1>1, Invariance, PTL
=============================================================================
