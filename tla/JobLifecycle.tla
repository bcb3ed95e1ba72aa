---------------------------- MODULE JobLifecycle ----------------------------
(***************************************************************************)
(* What the HTTP service promises of one job, whatever happens to its      *)
(* messages, connections and processes: an attempt starts only on a        *)
(* pending job and counts, a job is handed to the Python stage at most     *)
(* once and never attempted again, and it fails only after MaxAttempts     *)
(* attempts.  JobPipeline implements this specification.                   *)
(***************************************************************************)
EXTENDS Integers

CONSTANTS Jobs, MaxAttempts

VARIABLES
  status,     \* jobs.status
  attempts,   \* jobs.attempts
  handedOff   \* a jobs.python outbox row exists

vars == <<status, attempts, handedOff>>

Init ==
  /\ status = [j \in Jobs |-> "none"]
  /\ attempts = [j \in Jobs |-> 0]
  /\ handedOff = [j \in Jobs |-> FALSE]

Submit(j) ==
  /\ status[j] = "none"
  /\ status' = [status EXCEPT ![j] = "pending"]
  /\ UNCHANGED <<attempts, handedOff>>

Attempt(j) ==
  /\ status[j] = "pending"
  /\ status' = [status EXCEPT ![j] = "running_go"]
  /\ attempts' = [attempts EXCEPT ![j] = @ + 1]
  /\ UNCHANGED handedOff

(* From "failed" too: another worker may have given the job up while the   *)
(* attempt was running, and the hand-over UPDATE has no status guard.      *)
HandOff(j) ==
  /\ status[j] \in {"running_go", "failed"}
  /\ ~handedOff[j]
  /\ status' = [status EXCEPT ![j] = "pending_python"]
  /\ handedOff' = [handedOff EXCEPT ![j] = TRUE]
  /\ UNCHANGED attempts

Fail(j) ==
  /\ status[j] # "none"
  /\ attempts[j] >= MaxAttempts
  /\ status' = [status EXCEPT ![j] = "failed"]
  /\ UNCHANGED <<attempts, handedOff>>

(* Every running attempt is abandoned at once.                             *)
Reset ==
  /\ status' = [j \in Jobs |-> IF status[j] = "running_go" THEN "pending" ELSE status[j]]
  /\ UNCHANGED <<attempts, handedOff>>

Next ==
  \/ \E j \in Jobs : Submit(j) \/ Attempt(j) \/ HandOff(j) \/ Fail(j)
  \/ Reset

Spec == Init /\ [][Next]_vars
=============================================================================
