----------------------------- MODULE JobService -----------------------------
(***************************************************************************)
(* The analysis service of the local backend (backend/service.py) with the *)
(* job and investigation rows of its database (backend/database.py) and    *)
(* the processes that host it (backend/server.py).                         *)
(*                                                                         *)
(* An HTTP handler queues an analysis; a thread of a bounded pool executes *)
(* it as a sequence of database transactions, each of them one action      *)
(* here.  A process can be stopped, killed and started again between any   *)
(* two of them; starting one runs the recovery of interrupted jobs.        *)
(*                                                                         *)
(* What an analysis computes is left to module Backend: here a run either  *)
(* produces results or fails, and the rows it stores are named by the job. *)
(***************************************************************************)
EXTENDS Integers, FiniteSets

CONSTANTS
    Processes,       \* processes that may open the data directory
    Investigations,  \* investigation ids
    Jobs,            \* job ids
    NoJob,           \* "no job": the results of an investigation never analysed
    NoInvestigation, \* the investigation of a job that has no row yet
    NoProcess,       \* owner of a job that was never submitted
    MaxWorkers,      \* MAX_CONCURRENT_JOBS, the pool size of one process
    DatabaseFaults   \* TRUE iff a transaction may fail (disk full, lock timeout)

ASSUME PoolAssumption == MaxWorkers \in Nat \ {0}
ASSUME ValuesAssumption ==
    /\ NoJob \notin Jobs
    /\ NoProcess \notin Processes
    /\ NoInvestigation \notin Investigations
ASSUME FaultAssumption == DatabaseFaults \in BOOLEAN

VARIABLES
    invStatus,  \* InvestigationRow.status, "ABSENT" before the row exists
    jobStatus,  \* JobRow.status, "ABSENT" before the row exists
    jobInv,     \* JobRow.investigation_id
    results,    \* the job whose sessions and findings the investigation holds
    mode,       \* of each process: "off", "serving" or "stopping"
    running,    \* AnalysisService._running: the future last submitted
    owner,      \* the process a future was submitted in
    pc          \* where the future of a job stands

database == <<invStatus, jobStatus, jobInv, results>>
volatile == <<mode, running, owner, pc>>
vars == <<invStatus, jobStatus, jobInv, results, mode, running, owner, pc>>

Unfinished == {"QUEUED", "RUNNING"}
Terminal == {"COMPLETED", "FAILED"}
Statuses == {"ABSENT"} \cup Unfinished \cup Terminal

(* A future is queued in the pool ("pending"), executed by a worker         *)
(* (Working), finished, with an exception nobody reads ("raised") or        *)
(* without, cancelled by the shutdown, or gone with its process.            *)
Working == {"claimed", "load", "analyse", "saving", "complete",
            "failJob", "failInv"}
Live == {"pending"} \cup Working
Stages == {"none", "done", "raised", "cancelled", "gone"} \cup Live

FutureDone(j) == pc[j] \in {"done", "raised", "cancelled"}
WorkersOf(p) == {j \in Jobs : owner[j] = p /\ pc[j] \in Working}

TypeOK ==
    /\ invStatus \in [Investigations -> Statuses]
    /\ jobStatus \in [Jobs -> Statuses]
    /\ jobInv \in [Jobs -> Investigations \cup {NoInvestigation}]
    /\ results \in [Investigations -> Jobs \cup {NoJob}]
    /\ mode \in [Processes -> {"off", "serving", "stopping"}]
    /\ running \in [Processes -> [Investigations -> Jobs \cup {NoJob}]]
    /\ owner \in [Jobs -> Processes \cup {NoProcess}]
    /\ pc \in [Jobs -> Stages]

Init ==
    /\ invStatus = [i \in Investigations |-> "ABSENT"]
    /\ jobStatus = [j \in Jobs |-> "ABSENT"]
    /\ jobInv = [j \in Jobs |-> NoInvestigation]
    /\ results = [i \in Investigations |-> NoJob]
    /\ mode = [p \in Processes |-> "off"]
    /\ running = [p \in Processes |-> [i \in Investigations |-> NoJob]]
    /\ owner = [j \in Jobs |-> NoProcess]
    /\ pc = [j \in Jobs |-> "none"]

-----------------------------------------------------------------------------
(* Requests served by the HTTP application.                                *)

CreateInvestigation(i) ==
    /\ \E p \in Processes : mode[p] = "serving"
    /\ invStatus[i] = "ABSENT"
    /\ invStatus' = [invStatus EXCEPT ![i] = "QUEUED"]
    /\ UNCHANGED <<jobStatus, jobInv, results, volatile>>

(* Defect: the future of the investigation is not looked up.                *)
MayStartAlways(p, i) == TRUE

MayStart(p, i) ==
    \/ running[p][i] = NoJob
    \/ running[p][i] \in Jobs /\ FutureDone(running[p][i])

(* Defect: queueing a run leaves the status of the investigation as it was. *)
StartSilently(p, i, j) ==
    /\ mode[p] = "serving" /\ invStatus[i] # "ABSENT"
    /\ MayStart(p, i) /\ jobStatus[j] = "ABSENT"
    /\ jobStatus' = [jobStatus EXCEPT ![j] = "QUEUED"]
    /\ jobInv' = [jobInv EXCEPT ![j] = i]
    /\ pc' = [pc EXCEPT ![j] = "pending"]
    /\ owner' = [owner EXCEPT ![j] = p]
    /\ running' = [running EXCEPT ![p][i] = j]
    /\ UNCHANGED <<invStatus, results, mode>>

(* AnalysisService.start holds _lock from the test of the running future to *)
(* the assignment of the new one, so it is a single step.                   *)
Start(p, i, j) ==
    /\ mode[p] = "serving"
    /\ invStatus[i] # "ABSENT"
    /\ MayStart(p, i)
    /\ jobStatus[j] = "ABSENT"
    /\ jobStatus' = [jobStatus EXCEPT ![j] = "QUEUED"]
    /\ jobInv' = [jobInv EXCEPT ![j] = i]
    /\ invStatus' = [invStatus EXCEPT ![i] = "QUEUED"]
    /\ pc' = [pc EXCEPT ![j] = "pending"]
    /\ owner' = [owner EXCEPT ![j] = p]
    /\ running' = [running EXCEPT ![p][i] = j]
    /\ UNCHANGED <<results, mode>>

-----------------------------------------------------------------------------
(* AnalysisService._run, one action per transaction of the worker thread.   *)

Claim(j) ==
    /\ pc[j] = "pending"
    /\ Cardinality(WorkersOf(owner[j])) < MaxWorkers
    /\ pc' = [pc EXCEPT ![j] = "claimed"]
    /\ UNCHANGED <<database, mode, running, owner>>

MarkRunning(j) ==
    /\ pc[j] = "claimed"
    /\ jobStatus' = [jobStatus EXCEPT ![j] = "RUNNING"]
    /\ pc' = [pc EXCEPT ![j] = "load"]
    /\ UNCHANGED <<invStatus, jobInv, results, mode, running, owner>>

LoadCaptures(j) ==
    /\ pc[j] = "load"
    /\ invStatus' = [invStatus EXCEPT ![jobInv[j]] = "RUNNING"]
    /\ \E found \in BOOLEAN :
          pc' = [pc EXCEPT ![j] = IF found THEN "analyse" ELSE "failJob"]
    /\ UNCHANGED <<jobStatus, jobInv, results, mode, running, owner>>

Analyse(j) ==
    /\ pc[j] = "analyse"
    /\ \E raised \in BOOLEAN :
          pc' = [pc EXCEPT ![j] = IF raised THEN "failJob" ELSE "saving"]
    /\ UNCHANGED <<database, mode, running, owner>>

(* Defect: the rows are committed before the status of the investigation.   *)
PersistRowsOnly(j) ==
    /\ pc[j] = "saving"
    /\ results' = [results EXCEPT ![jobInv[j]] = j]
    /\ pc' = [pc EXCEPT ![j] = "complete"]
    /\ UNCHANGED <<invStatus, jobStatus, jobInv, mode, running, owner>>

(* AnalysisService._persist is one transaction: an exception inside it      *)
(* leaves every row as it was and is caught by _run.                        *)
Persist(j) ==
    /\ pc[j] = "saving"
    /\ results' = [results EXCEPT ![jobInv[j]] = j]
    /\ invStatus' = [invStatus EXCEPT ![jobInv[j]] = "COMPLETED"]
    /\ pc' = [pc EXCEPT ![j] = "complete"]
    /\ UNCHANGED <<jobStatus, jobInv, mode, running, owner>>

(* Defect: an exception in _persist is lost with the future.                *)
PersistRaises(j) ==
    /\ pc[j] = "saving"
    /\ pc' = [pc EXCEPT ![j] = "done"]
    /\ UNCHANGED <<database, mode, running, owner>>

(* Defect: an exception in _persist is logged and the job goes on.          *)
PersistSwallows(j) ==
    /\ pc[j] = "saving"
    /\ pc' = [pc EXCEPT ![j] = "complete"]
    /\ UNCHANGED <<database, mode, running, owner>>

PersistFails(j) ==
    /\ pc[j] = "saving"
    /\ pc' = [pc EXCEPT ![j] = "failJob"]
    /\ UNCHANGED <<database, mode, running, owner>>

Complete(j) ==
    /\ pc[j] = "complete"
    /\ jobStatus' = [jobStatus EXCEPT ![j] = "COMPLETED"]
    /\ pc' = [pc EXCEPT ![j] = "done"]
    /\ UNCHANGED <<invStatus, jobInv, results, mode, running, owner>>

(* AnalysisService._fail is two transactions: the job row, then the         *)
(* investigation row.                                                       *)
FailJob(j) ==
    /\ pc[j] = "failJob"
    /\ jobStatus' = [jobStatus EXCEPT ![j] = "FAILED"]
    /\ pc' = [pc EXCEPT ![j] = "failInv"]
    /\ UNCHANGED <<invStatus, jobInv, results, mode, running, owner>>

FailInvestigation(j) ==
    /\ pc[j] = "failInv"
    /\ invStatus' = [invStatus EXCEPT ![jobInv[j]] = "FAILED"]
    /\ pc' = [pc EXCEPT ![j] = "done"]
    /\ UNCHANGED <<jobStatus, jobInv, results, mode, running, owner>>

(* The transactions outside the two try blocks of _run: one that raises     *)
(* ends the worker's call, the future holds the exception and nothing else  *)
(* is written.                                                              *)
Unguarded == {"claimed", "load", "complete", "failJob", "failInv"}

WorkerRaises(j) ==
    /\ DatabaseFaults
    /\ pc[j] \in Unguarded
    /\ pc' = [pc EXCEPT ![j] = "raised"]
    /\ UNCHANGED <<database, mode, running, owner>>

WorkerStep(j) ==
    \/ MarkRunning(j) \/ LoadCaptures(j) \/ Analyse(j)
    \/ Persist(j) \/ PersistFails(j) \/ Complete(j)
    \/ FailJob(j) \/ FailInvestigation(j)

-----------------------------------------------------------------------------
(* The life of a process.                                                   *)

(* Defects: recovery forgets the queued jobs, or fails finished ones too.   *)
InterruptedRunning == {j \in Jobs : jobStatus[j] = "RUNNING"}
InterruptedAll == {j \in Jobs : jobStatus[j] # "ABSENT"}

Interrupted == {j \in Jobs : jobStatus[j] \in Unfinished}

(* Building AppState recovers interrupted jobs before anything is served.   *)
(* The process then serves, unless another one holds the port or it was     *)
(* only asked for the token, and leaves.                                    *)
Boot(p) ==
    /\ mode[p] = "off"
    /\ jobStatus' =
          [j \in Jobs |-> IF j \in Interrupted THEN "FAILED" ELSE jobStatus[j]]
    /\ invStatus' =
          [i \in Investigations |->
              IF invStatus[i] \in Unfinished /\ \E j \in Interrupted : jobInv[j] = i
                THEN "FAILED" ELSE invStatus[i]]
    /\ \/ /\ \A q \in Processes : mode[q] # "serving"
          /\ mode' = [mode EXCEPT ![p] = "serving"]
       \/ mode' = mode
    /\ UNCHANGED <<jobInv, results, running, owner, pc>>

(* pool.shutdown(wait=False, cancel_futures=True): what is queued is        *)
(* cancelled, what a worker executes goes on.                               *)
Shutdown(p) ==
    /\ mode[p] = "serving"
    /\ mode' = [mode EXCEPT ![p] = "stopping"]
    /\ pc' = [j \in Jobs |-> IF owner[j] = p /\ pc[j] = "pending"
                               THEN "cancelled" ELSE pc[j]]
    /\ UNCHANGED <<database, running, owner>>

Vanish(p) ==
    /\ mode' = [mode EXCEPT ![p] = "off"]
    /\ running' = [running EXCEPT ![p] = [i \in Investigations |-> NoJob]]
    /\ pc' = [j \in Jobs |-> IF owner[j] = p THEN "gone" ELSE pc[j]]
    /\ UNCHANGED <<database, owner>>

(* The interpreter joins the pool's threads before it exits.                *)
Exit(p) ==
    /\ mode[p] = "stopping"
    /\ WorkersOf(p) = {}
    /\ Vanish(p)

Crash(p) ==
    /\ mode[p] # "off"
    /\ Vanish(p)

-----------------------------------------------------------------------------
Next ==
    \/ \E i \in Investigations : CreateInvestigation(i)
    \/ \E p \in Processes, i \in Investigations, j \in Jobs : Start(p, i, j)
    \/ \E j \in Jobs : Claim(j) \/ WorkerStep(j) \/ WorkerRaises(j)
    \/ \E p \in Processes : Boot(p) \/ Shutdown(p) \/ Exit(p) \/ Crash(p)

Spec == Init /\ [][Next]_vars

(* A worker thread keeps running, the pool hands a queued future to an idle *)
(* thread, a stopping process exits, and the user starts the application    *)
(* again.  Nobody is obliged to send a request, to stop or to crash.        *)
Serve(p) == Boot(p) /\ mode'[p] = "serving"

Fairness ==
    /\ \A j \in Jobs : WF_vars(Claim(j)) /\ WF_vars(WorkerStep(j))
    /\ \A p \in Processes : WF_vars(Exit(p)) /\ WF_vars(Serve(p))

FairSpec == Spec /\ Fairness

-----------------------------------------------------------------------------
(* Properties.                                                             *)

(* Two workers of one process never write the rows of one investigation:    *)
(* start() refuses an investigation whose last future is not done, and a    *)
(* worker's investigation always has that worker's job as its last future.  *)
NoTwoWriters ==
    \A j, k \in Jobs :
        /\ pc[j] \in Live /\ pc[k] \in Live
        /\ owner[j] = owner[k] /\ jobInv[j] = jobInv[k]
        => j = k

(* While the application serves, a job shown as queued or running is one    *)
(* that this process will finish: recovery left none of a dead process, and *)
(* a path through _run leaves the job unfinished only by an exception from  *)
(* one of its unguarded transactions.                                       *)
NoStaleJob ==
    \A j \in Jobs :
        /\ jobStatus[j] \in Unfinished
        /\ \E p \in Processes : mode[p] = "serving"
        => pc[j] \in Live \cup {"raised"}

(* "No COMPLETED job references results that were not written": a completed *)
(* job's investigation holds the rows of a run that was not rolled back,    *)
(* that run's own or those of a later one.                                  *)
CompletedHasResults ==
    \A j \in Jobs :
        jobStatus[j] = "COMPLETED" =>
            /\ results[jobInv[j]] \in Jobs
            /\ jobInv[results[jobInv[j]]] = jobInv[j]

(* An investigation shown as completed holds the rows of its last analysis  *)
(* and no other analysis of it is under way.                                *)
CompletedIsSettled ==
    \A i \in Investigations :
        invStatus[i] = "COMPLETED" =>
            /\ results[i] \in Jobs
            /\ \A j \in Jobs : jobInv[j] = i /\ pc[j] \in Live => j = results[i]

(* What a job says when it is over is final: a worker that is still running *)
(* never overwrites COMPLETED or FAILED, and recovery touches neither.      *)
TerminalIsFinal ==
    [][\A j \in Jobs : jobStatus[j] \in Terminal => jobStatus'[j] = jobStatus[j]]_vars

(* What the reader of an investigation is promised.                         *)
Lifecycle == INSTANCE InvestigationLifecycle
                WITH status <- invStatus, shown <- results, Runs <- Jobs, NoRun <- NoJob
ImplementsLifecycle == Lifecycle!Spec

(* Every analysis that was accepted ends, as COMPLETED or as FAILED,        *)
(* whatever is stopped or killed meanwhile, unless an unguarded transaction *)
(* of its worker raised.                                                    *)
JobsFinishUnlessRaised ==
    \A j \in Jobs :
        jobStatus[j] \in Unfinished ~> jobStatus[j] \in Terminal \/ pc[j] = "raised"
=============================================================================
