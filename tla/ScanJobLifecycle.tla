--------------------------- MODULE ScanJobLifecycle ---------------------------
(***************************************************************************)
(* What the orchestrator promises about the row of a scan job: it is       *)
(* created queued, may be marked running, is given one final result, and   *)
(* may be deleted, alone or with others, at any time.  A deleted job never *)
(* comes back and a result is never overwritten.                           *)
(***************************************************************************)
CONSTANTS Jobs

VARIABLE state

Results == {"succeeded", "failed", "rejected"}

Init == state = [j \in Jobs |-> "unused"]

Create(j) == state[j] = "unused" /\ state' = [state EXCEPT ![j] = "queued"]

Start(j) == state[j] = "queued" /\ state' = [state EXCEPT ![j] = "running"]

\* The running mark is best effort, so a result may follow "queued" directly.
Finish(j) ==
  /\ state[j] \in {"queued", "running"}
  /\ \E result \in Results : state' = [state EXCEPT ![j] = result]

Delete(D) ==
  /\ \A j \in D : state[j] \notin {"unused", "deleted"}
  /\ state' = [j \in Jobs |-> IF j \in D THEN "deleted" ELSE state[j]]

Next ==
  \/ \E j \in Jobs : Create(j) \/ Start(j) \/ Finish(j)
  \/ \E D \in SUBSET Jobs : Delete(D)

Spec == Init /\ [][Next]_state
===============================================================================
