---------------------------- MODULE ExtractLedger ----------------------------
(***************************************************************************)
(* What an extraction promises of its inputs, however many sessions fail   *)
(* and whatever its workers do meanwhile: an input is queued once, taken   *)
(* once, and then written, logged as failed or, by a panic or a failed     *)
(* write, lost; and nothing is in anybody's hands when it returns.  Inputs *)
(* may be left in the queue.  ConcurrentExtract implements this.           *)
(***************************************************************************)
CONSTANT Inputs

VARIABLES
  queued,   \* the inputs that wait for a worker
  inHand,   \* those a worker or the writer has
  written, logged, lost,
  returned

vars == <<queued, inHand, written, logged, lost, returned>>

Init ==
  /\ queued = {} /\ inHand = {}
  /\ written = {} /\ logged = {} /\ lost = {}
  /\ returned = FALSE

Known == queued \cup inHand \cup written \cup logged \cup lost

(* Also after the return: nobody waits for the producer.                   *)
Queue(i) ==
  /\ i \notin Known
  /\ queued' = queued \cup {i}
  /\ UNCHANGED <<inHand, written, logged, lost, returned>>

Take(i) ==
  /\ ~returned
  /\ i \in queued
  /\ queued' = queued \ {i}
  /\ inHand' = inHand \cup {i}
  /\ UNCHANGED <<written, logged, lost, returned>>

Settle(i) ==
  /\ i \in inHand
  /\ inHand' = inHand \ {i}
  /\ \/ written' = written \cup {i} /\ UNCHANGED <<logged, lost>>
     \/ logged' = logged \cup {i} /\ UNCHANGED <<written, lost>>
     \/ lost' = lost \cup {i} /\ UNCHANGED <<written, logged>>
  /\ UNCHANGED <<queued, returned>>

Return ==
  /\ inHand = {}
  /\ returned' = TRUE
  /\ UNCHANGED <<queued, inHand, written, logged, lost>>

Next ==
  \/ \E i \in Inputs : Queue(i) \/ Take(i) \/ Settle(i)
  \/ Return

Spec == Init /\ [][Next]_vars
=============================================================================
