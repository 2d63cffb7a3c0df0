----------------------- MODULE InvestigationLifecycle -----------------------
(***************************************************************************)
(* What the backend promises the reader of an investigation, whatever jobs,*)
(* workers and restarts are behind it: its status moves through the stages *)
(* of an analysis, and the rows shown for it change in one step only, the  *)
(* one that makes it COMPLETED.                                            *)
(***************************************************************************)
CONSTANTS Investigations, Runs, NoRun

VARIABLES status, shown

vars == <<status, shown>>

Init ==
    /\ status = [i \in Investigations |-> "ABSENT"]
    /\ shown = [i \in Investigations |-> NoRun]

Move(i, from, to) ==
    /\ status[i] \in from
    /\ status' = [status EXCEPT ![i] = to]

Create(i) == Move(i, {"ABSENT"}, "QUEUED") /\ UNCHANGED shown

(* An analysis may be asked for again at any time.                          *)
Queue(i) ==
    Move(i, {"QUEUED", "RUNNING", "COMPLETED", "FAILED"}, "QUEUED") /\ UNCHANGED shown

Begin(i) == Move(i, {"QUEUED"}, "RUNNING") /\ UNCHANGED shown

(* The rows of a finished analysis replace the earlier ones as a whole.     *)
Publish(i) ==
    /\ Move(i, {"RUNNING"}, "COMPLETED")
    /\ \E r \in Runs \ {shown[i]} : shown' = [shown EXCEPT ![i] = r]

(* A failed analysis leaves the rows of the last good one in place.  A      *)
(* restart fails all that was interrupted at once.                          *)
Fail(lost) ==
    /\ \A i \in lost : status[i] \in {"QUEUED", "RUNNING"}
    /\ status' = [i \in Investigations |-> IF i \in lost THEN "FAILED" ELSE status[i]]
    /\ UNCHANGED shown

Next ==
    \/ \E i \in Investigations : Create(i) \/ Queue(i) \/ Begin(i) \/ Publish(i)
    \/ \E lost \in SUBSET Investigations : Fail(lost)

Spec == Init /\ [][Next]_vars
=============================================================================
