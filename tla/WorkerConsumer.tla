--------------------------- MODULE WorkerConsumer ---------------------------
(***************************************************************************)
(* startGoWorkerConsumer of src/http/worker_consumer.go, goroutine by      *)
(* goroutine: the feed loop takes deliveries from the channel of the AMQP  *)
(* library and offers each to a pool of workers over the unbuffered        *)
(* channel `deliveries`; a monitor closes `deliveries` when the context is *)
(* cancelled.  What a worker does with a message is JobPipeline's subject, *)
(* here it only ends in an ack or a nack.                                  *)
(*                                                                         *)
(* The broker and the library are external: up to Prefetch messages are    *)
(* unacknowledged at a time, and when the connection goes they return to   *)
(* the queue and the library closes `msgs`, dropping what it had buffered. *)
(***************************************************************************)
EXTENDS Integers, FiniteSets

CONSTANTS
  Messages,
  Workers,
  NoMessage,
  Prefetch,     \* rabbitPrefetchCount
  MaxNacks      \* bound: deliveries a worker returns to the queue

ASSUME ConsumerAssumption ==
  /\ NoMessage \notin Messages
  /\ Prefetch \in Nat \ {0}
  /\ MaxNacks \in Nat

VARIABLES
  queued, unacked, acked, \* the broker's view of the messages
  connected,              \* the connection and its channel are open
  msgs,                   \* deliveries buffered in the channel `msgs`
  feeder,                 \* the feed loop: "recv", "send", "wait", "returned" or "panicked"
  offer,                  \* d, the delivery it offers to the workers
  monitor,                \* the monitor: "waiting", "closing" or "done"
  cancelled,              \* ctx is done
  closed,                 \* close(deliveries) has run
  holds,                  \* what each worker processes
  exited,                 \* workers whose range over deliveries has ended
  nacks

brokerVars == <<queued, unacked, acked, connected, msgs>>
poolVars   == <<holds, exited>>
vars == <<brokerVars, feeder, offer, monitor, cancelled, closed, poolVars, nacks>>

TypeOK ==
  /\ queued \subseteq Messages
  /\ unacked \subseteq Messages
  /\ acked \subseteq Messages
  /\ msgs \subseteq Messages
  /\ connected \in BOOLEAN
  /\ feeder \in {"recv", "send", "wait", "returned", "panicked"}
  /\ offer \in Messages \cup {NoMessage}
  /\ offer # NoMessage <=> feeder \in {"send", "panicked"}
  /\ monitor \in {"waiting", "closing", "done"}
  /\ cancelled \in BOOLEAN
  /\ closed \in BOOLEAN
  /\ holds \in [Workers -> Messages \cup {NoMessage}]
  /\ exited \subseteq Workers
  /\ nacks \in 0..MaxNacks

Init ==
  /\ queued = Messages /\ unacked = {} /\ acked = {}
  /\ connected = TRUE
  /\ msgs = {}
  /\ feeder = "recv" /\ offer = NoMessage
  /\ monitor = "waiting" /\ cancelled = FALSE /\ closed = FALSE
  /\ holds = [w \in Workers |-> NoMessage]
  /\ exited = {}
  /\ nacks = 0

Running == feeder # "panicked"

-----------------------------------------------------------------------------
(* The broker.                                                             *)

prefetch(m) ==
  /\ connected
  /\ m \in queued
  /\ Cardinality(unacked) < Prefetch
  /\ queued' = queued \ {m}
  /\ unacked' = unacked \cup {m}
  /\ msgs' = msgs \cup {m}
  /\ UNCHANGED <<acked, connected, feeder, offer, monitor, cancelled, closed, poolVars, nacks>>

ConnectionEnds ==
  /\ connected' = FALSE
  /\ queued' = queued \cup unacked
  /\ unacked' = {}
  /\ msgs' = {}
  /\ UNCHANGED acked

loseConnection ==
  /\ connected /\ Running
  /\ ConnectionEnds
  /\ UNCHANGED <<feeder, offer, monitor, cancelled, closed, poolVars, nacks>>

(* A definition named X_Slip is a plausible mistake in X; no action uses   *)
(* it, it is there to show which property would notice.                    *)

(* Ack and nack reach the broker only on the open channel; their errors    *)
(* are ignored.                                                            *)
Ack(m) ==
  /\ unacked' = unacked \ {m}
  /\ acked' = IF m \in unacked THEN acked \cup {m} ELSE acked
  /\ UNCHANGED <<queued, connected, msgs>>

Nack_NoRequeue(m) ==
  /\ unacked' = unacked \ {m}
  /\ UNCHANGED <<queued, acked, connected, msgs>>

Nack(m) ==
  /\ unacked' = unacked \ {m}
  /\ queued' = IF m \in unacked THEN queued \cup {m} ELSE queued
  /\ UNCHANGED <<acked, connected, msgs>>

-----------------------------------------------------------------------------
(* The feed loop.                                                          *)

(* for d := range msgs: the loop does not look at the context here.        *)
feedReceive(m) ==
  /\ feeder = "recv"
  /\ m \in msgs
  /\ msgs' = msgs \ {m}
  /\ feeder' = "send"
  /\ offer' = m
  /\ UNCHANGED <<queued, unacked, acked, connected, monitor, cancelled, closed, poolVars, nacks>>

feedEnd ==
  /\ feeder = "recv"
  /\ ~connected /\ msgs = {}
  /\ feeder' = "wait"
  /\ UNCHANGED <<brokerVars, offer, monitor, cancelled, closed, poolVars, nacks>>

Idle(w) == holds[w] = NoMessage /\ w \notin exited

(* case deliveries <- d, with a worker waiting in its range.               *)
feedSend_KeepsOffer(w) ==
  /\ feeder = "send"
  /\ ~closed
  /\ Idle(w)
  /\ holds' = [holds EXCEPT ![w] = offer]
  /\ UNCHANGED <<brokerVars, feeder, offer, monitor, cancelled, closed, exited, nacks>>

feedSend(w) ==
  /\ feeder = "send"
  /\ ~closed
  /\ Idle(w)
  /\ holds' = [holds EXCEPT ![w] = offer]
  /\ feeder' = "recv"
  /\ offer' = NoMessage
  /\ UNCHANGED <<brokerVars, monitor, cancelled, closed, exited, nacks>>

(* case <-ctx.Done(): nack the delivery and leave the loop.                *)
feedCancel_NoNack ==
  /\ feeder = "send"
  /\ cancelled
  /\ feeder' = "wait"
  /\ offer' = NoMessage
  /\ UNCHANGED <<brokerVars, monitor, cancelled, closed, poolVars, nacks>>

feedCancel ==
  /\ feeder = "send"
  /\ cancelled
  /\ Nack(offer)
  /\ feeder' = "wait"
  /\ offer' = NoMessage
  /\ UNCHANGED <<monitor, cancelled, closed, poolVars, nacks>>

(* A select may choose the send on a closed channel, which panics and ends *)
(* the process with its connection.                                        *)
feedPanic ==
  /\ feeder = "send"
  /\ closed
  /\ feeder' = "panicked"
  /\ ConnectionEnds
  /\ UNCHANGED <<offer, monitor, cancelled, closed, poolVars, nacks>>

(* wg.Wait, then r.Close.                                                  *)
feedReturn ==
  /\ feeder = "wait"
  /\ exited = Workers
  /\ feeder' = "returned"
  /\ ConnectionEnds
  /\ UNCHANGED <<offer, monitor, cancelled, closed, poolVars, nacks>>

-----------------------------------------------------------------------------
(* The monitor.  channel.Cancel("") names no consumer (the consumer's tag  *)
(* was generated), so deliveries keep coming.                              *)

monitorWakes ==
  /\ Running
  /\ monitor = "waiting" /\ cancelled
  /\ monitor' = "closing"
  /\ UNCHANGED <<brokerVars, feeder, offer, cancelled, closed, poolVars, nacks>>

monitorCloses_NotClosed ==
  /\ Running
  /\ monitor = "closing"
  /\ monitor' = "done"
  /\ UNCHANGED <<brokerVars, feeder, offer, cancelled, closed, poolVars, nacks>>

monitorCloses ==
  /\ Running
  /\ monitor = "closing"
  /\ monitor' = "done"
  /\ closed' = TRUE
  /\ UNCHANGED <<brokerVars, feeder, offer, cancelled, poolVars, nacks>>

-----------------------------------------------------------------------------
(* A worker.                                                               *)

finishAck(w) ==
  /\ Running
  /\ holds[w] # NoMessage
  /\ Ack(holds[w])
  /\ holds' = [holds EXCEPT ![w] = NoMessage]
  /\ UNCHANGED <<feeder, offer, monitor, cancelled, closed, exited, nacks>>

finishNack(w) ==
  /\ Running
  /\ holds[w] # NoMessage
  /\ nacks < MaxNacks
  /\ nacks' = nacks + 1
  /\ Nack(holds[w])
  /\ holds' = [holds EXCEPT ![w] = NoMessage]
  /\ UNCHANGED <<feeder, offer, monitor, cancelled, closed, exited>>

exitWorker(w) ==
  /\ Running
  /\ Idle(w) /\ closed
  /\ exited' = exited \cup {w}
  /\ UNCHANGED <<brokerVars, feeder, offer, monitor, cancelled, closed, holds, nacks>>

(* main calls cancel() on a signal.                                        *)
cancel ==
  /\ ~cancelled /\ Running
  /\ cancelled' = TRUE
  /\ UNCHANGED <<brokerVars, feeder, offer, monitor, closed, poolVars, nacks>>

-----------------------------------------------------------------------------
broker == \E m \in Messages : prefetch(m)

feedLoop ==
  \/ \E m \in Messages : feedReceive(m)
  \/ \E w \in Workers : feedSend(w)
  \/ feedEnd \/ feedCancel \/ feedPanic \/ feedReturn

worker(w) == finishAck(w) \/ finishNack(w) \/ exitWorker(w)

Next ==
  \/ broker \/ loseConnection
  \/ feedLoop
  \/ monitorWakes \/ monitorCloses
  \/ \E w \in Workers : worker(w)
  \/ cancel

Spec == Init /\ [][Next]_vars

(* The broker delivers while it may, and every goroutine that can run is   *)
(* scheduled.  Cancellation and loss of the connection need not happen.    *)
Fairness ==
  /\ WF_vars(broker)
  /\ WF_vars(feedLoop)
  /\ WF_vars(monitorWakes) /\ WF_vars(monitorCloses)
  /\ \A w \in Workers : WF_vars(worker(w))

FairSpec == Spec /\ Fairness

-----------------------------------------------------------------------------
(* Properties.                                                             *)

(* HeldOnce: a message is in the hands of one goroutine at most, offered   *)
(* by the feed loop or processed by one worker; and of none once           *)
(* startGoWorkerConsumer has closed the connection and returned.           *)
HeldOnce ==
  /\ \A v, w \in Workers : holds[v] = holds[w] /\ holds[v] # NoMessage => v = w
  /\ \A w \in Workers : offer # NoMessage => holds[w] # offer
  /\ feeder = "returned" => \A w \in Workers : holds[w] = NoMessage

(* MessageAccounted: no message vanishes or is both done and still to do;  *)
(* and on an open connection the broker waits only for acknowledgements    *)
(* that will come: an unacknowledged message is buffered, offered or in    *)
(* the hands of a worker.  A leaked one would use up the prefetch window.  *)
MessageAccounted ==
  /\ queued \cup unacked \cup acked = Messages
  /\ queued \cap unacked = {} /\ queued \cap acked = {} /\ unacked \cap acked = {}
  /\ connected => unacked = msgs \cup ({offer} \ {NoMessage})
                                \cup {holds[w] : w \in {v \in Workers : holds[v] # NoMessage}}

(* EveryMessageDone: every message is eventually acknowledged, however     *)
(* often it is returned, unless somebody cancels or the connection goes.   *)
EveryMessageDone ==
  \A m \in Messages : m \in queued ~> m \in acked \/ cancelled \/ ~connected

Ended == feeder \in {"returned", "panicked"}

(* EveryConsumerEnds: a cancelled consumer ends unless its queue ran dry,  *)
(* because the feed loop looks at the context only with a message in hand; *)
(* and one that lost its connection ends unless nobody cancels, because    *)
(* only a cancellation closes `deliveries` for the workers it waits for.   *)
EveryConsumerEnds ==
  /\ cancelled ~> Ended \/ acked = Messages
  /\ ~connected ~> Ended \/ (feeder = "wait" /\ ~cancelled)
=============================================================================
