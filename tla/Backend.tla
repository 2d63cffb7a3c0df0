------------------------------- MODULE Backend -------------------------------
(***************************************************************************)
(* The local backend as a whole: the analysis service (JobService) at work *)
(* on stored captures (CaptureStore), with the requests that create        *)
(* investigations, change the settings and export reports.                 *)
(*                                                                         *)
(* Each action joins a step of one component with what the same code does  *)
(* to the other: a worker's transaction reads paths, analyses files and    *)
(* stores documents; the death of a process drops the requests in flight.  *)
(***************************************************************************)
EXTENDS JobService, CaptureStore, Sequences

CONSTANTS Selections, \* the capture lists an investigation may be created with
          NoSelection \* that of an investigation without a row

ASSUME SelectionAssumption == Selections \subseteq Seq(Captures) \ {<<>>}

VARIABLES
    settings,   \* AppState.config, replaced as a whole by update_settings
    selection,  \* InvestigationRow.capture_ids
    batch,      \* local state of analyze_batch in the worker of each job
    stored      \* what the last persist stored for an investigation

backendVars == <<settings, selection, batch, stored>>
allVars == <<vars, storeVars, backendVars>>

(* next: index of the capture to analyse; paths: as read by the load        *)
(* transaction; config: what analyze_batch was called with; analysed: the   *)
(* results so far, each a capture with the settings it was analysed under.  *)
NoBatch ==
    [next |-> 0, paths |-> [c \in Captures |-> NoFile], config |-> NoDocument,
     analysed |-> {}, duplicates |-> {}]

BackendTypeOK ==
    /\ TypeOK
    /\ StoreTypeOK
    /\ settings \in Settings
    /\ selection \in [Investigations -> Selections \cup {NoSelection}]
    /\ batch \in [Jobs -> [next : Nat,
                           paths : [Captures -> StorageIds \cup {NoFile}],
                           config : Settings \cup {NoDocument},
                           analysed : SUBSET (Captures \X Settings),
                           duplicates : SUBSET Captures]]
    /\ stored \in [Investigations -> SUBSET (Captures \X Settings)]

BackendInit ==
    /\ Init
    /\ StoreInit
    /\ settings \in Settings
    /\ selection = [i \in Investigations |-> NoSelection]
    /\ batch = [j \in Jobs |-> NoBatch]
    /\ stored = [i \in Investigations |-> {}]

Serving == \E p \in Processes : mode[p] = "serving"

-----------------------------------------------------------------------------
(* Requests.                                                               *)

UploadOrDelete ==
    /\ \/ Serving /\ \E c \in Captures : \/ \E s \in StorageIds : Receive(c, s)
                                         \/ DeleteRow(c)
       \/ \E s \in StorageIds : Register(s)
       \/ \E c \in Captures : Unlink(c)
    /\ UNCHANGED <<vars, backendVars>>

(* A deleted capture is still a known one and may be selected.              *)
Create(i, list) ==
    /\ \A k \in DOMAIN list : Known(list[k])
    /\ CreateInvestigation(i)
    /\ selection' = [selection EXCEPT ![i] = list]
    /\ UNCHANGED <<storeVars, settings, batch, stored>>

UpdateSettings(new) ==
    /\ Serving
    /\ settings' = new
    /\ UNCHANGED <<vars, storeVars, selection, batch, stored>>

Queue ==
    /\ \E p \in Processes, i \in Investigations, j \in Jobs : Start(p, i, j)
    /\ UNCHANGED <<storeVars, backendVars>>

-----------------------------------------------------------------------------
(* The worker of job j.                                                    *)

ListOf(j) == selection[jobInv[j]]

CapturesOf(pairs) == {pair[1] : pair \in pairs}

Load(j) ==
    /\ LoadCaptures(j)
    /\ pc'[j] = "analyse" <=> \E k \in DOMAIN ListOf(j) : Known(ListOf(j)[k])
    /\ batch' = [batch EXCEPT ![j] = [NoBatch EXCEPT !.next = 1, !.paths = path]]
    /\ UNCHANGED <<storeVars, settings, selection, stored>>

(* Defect: every capture is analysed under the settings of the moment.      *)
ConfigNow(j) == settings

ConfigOf(j) == IF batch[j].next = 1 THEN settings ELSE batch[j].config

(* One turn of the loop of analyze_batch: a capture whose file is gone is   *)
(* recorded as failed, one already seen as a duplicate.  The configuration  *)
(* is the one in force when analyze_batch was called.                       *)
AnalyseCapture(j) ==
    LET b == batch[j]
        c == ListOf(j)[b.next]
        config == ConfigOf(j)
        readable == b.paths[c] # NoFile /\ file[b.paths[c]] = c
        seen == c \in CapturesOf(b.analysed)
    IN
    /\ pc[j] = "analyse"
    /\ b.next \in DOMAIN ListOf(j)
    /\ batch' = [batch EXCEPT ![j] =
          [b EXCEPT !.next = @ + 1,
                    !.config = config,
                    !.duplicates = IF readable /\ seen THEN @ \cup {c} ELSE @,
                    !.analysed = IF readable /\ ~ seen THEN @ \cup {<<c, config>>} ELSE @]]
    /\ UNCHANGED <<vars, storeVars, settings, selection, stored>>

(* analyze_batch returns after its last capture; any other exception than   *)
(* a rejected capture leaves it early.                                      *)
FinishAnalysis(j) ==
    /\ Analyse(j)
    /\ pc'[j] = "saving" => batch[j].next > Len(ListOf(j))
    /\ UNCHANGED <<storeVars, backendVars>>

(* build_report refuses a batch without any result.                         *)
Save(j) ==
    LET b == batch[j] IN
    /\ b.analysed # {}
    /\ Persist(j)
    /\ SaveCaptures(b.analysed, b.duplicates)
    /\ stored' = [stored EXCEPT ![jobInv[j]] = b.analysed]
    /\ UNCHANGED <<settings, selection, batch>>

(* The other steps of a worker concern the job and its investigation only.  *)
Advance(j) ==
    /\ \/ Claim(j) \/ MarkRunning(j) \/ PersistFails(j) \/ Complete(j)
       \/ FailJob(j) \/ FailInvestigation(j)
    /\ UNCHANGED <<storeVars, backendVars>>

-----------------------------------------------------------------------------
ProcessStep(p) ==
    \/ (Boot(p) \/ Shutdown(p)) /\ UNCHANGED <<storeVars, backendVars>>
    \/ /\ Exit(p) /\ incoming = {} /\ removing = {}
       /\ UNCHANGED <<storeVars, backendVars>>
    \/ Crash(p) /\ StoreCrash /\ UNCHANGED backendVars

BackendNext ==
    \/ UploadOrDelete
    \/ \E i \in Investigations, list \in Selections : Create(i, list)
    \/ \E new \in Settings : UpdateSettings(new)
    \/ Queue
    \/ \E j \in Jobs : \/ Load(j) \/ AnalyseCapture(j) \/ FinishAnalysis(j)
                       \/ Save(j) \/ Advance(j)
    \/ \E p \in Processes : ProcessStep(p)

BackendSpec == BackendInit /\ [][BackendNext]_allVars

-----------------------------------------------------------------------------
(* Exports (_results_for and _export in backend/app.py) deserialise the     *)
(* documents the captures of the investigation hold now.                    *)
SelectedBy(i) == {selection[i][k] : k \in DOMAIN selection[i]}

Report(i) == {<<c, document[c]>> :
                 c \in {d \in SelectedBy(i) : document[d] # NoDocument}}

(* A completed investigation can be exported, and every capture whose rows  *)
(* it shows has a document in the report: no deletion, failure or restart   *)
(* takes that away.                                                         *)
CompletedIsExportable ==
    \A i \in Investigations :
        invStatus[i] = "COMPLETED" =>
            Report(i) # {} /\ CapturesOf(stored[i]) \subseteq CapturesOf(Report(i))

(* "A changed threshold applies to the next analysis": the rows of an       *)
(* investigation come from one configuration, however the settings change   *)
(* while its captures are analysed one after the other.                     *)
OneConfiguration ==
    \A i \in Investigations : \A r1, r2 \in stored[i] : r1[2] = r2[2]
=============================================================================
