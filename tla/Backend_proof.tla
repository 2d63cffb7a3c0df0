---------------------------- MODULE Backend_proof ----------------------------
(***************************************************************************)
(* Proofs about the backend: the capture store for any contents, storage   *)
(* ids and settings; the job service for every number of processes,        *)
(* investigations, jobs and workers, with and without failing              *)
(* transactions; and the two together, for any captures, settings and      *)
(* selections.                                                             *)
(***************************************************************************)
EXTENDS Backend, TLAPS

-----------------------------------------------------------------------------
(* The capture store.                                                       *)

(* Rows never share a storage id, a stored path is the row's own id, and an *)
(* upload in progress uses an id that no row has.                           *)
RowInv ==
    /\ \A c \in Captures : path[c] # NoFile => path[c] = sid[c] /\ file[sid[c]] = c
    /\ \A c, d \in Captures : sid[c] = sid[d] /\ sid[c] # NoFile => c = d
    /\ \A c \in Captures : Known(c) <=> sid[c] \in StorageIds
    /\ \A c \in removing : Known(c) /\ path[c] = NoFile
    /\ \A s \in incoming : file[s] \in Captures /\ \A c \in Captures : sid[c] # s

StoreIInv == StoreTypeOK /\ RowInv

(* What persist does to the capture rows, for any results of known captures *)
(* and whatever record of duplicates: rows stay known, only the analysed    *)
(* captures get a document, and no document is ever taken away.             *)
LEMMA SavePreserves ==
    ASSUME StoreIInv, NEW analysed \in SUBSET (Captures \X Settings),
           NEW duplicates \in SUBSET Captures,
           \A r \in analysed : Known(r[1]),
           SaveCaptures(analysed, duplicates)
    PROVE  /\ StoreIInv'
           /\ UNCHANGED <<path, sid, file, incoming, removing, stray>>
           /\ \A r \in analysed : document'[r[1]] \in Settings
           /\ \A c \in Captures : Known(c)' <=> Known(c)
           /\ \A c \in Captures : document'[c] \in {document[c]} \cup Settings
<1> DEFINE Chosen(c) == CHOOSE r \in analysed : r[1] = c
<1>1. ASSUME NEW c \in Captures, \E r \in analysed : r[1] = c
      PROVE  Chosen(c)[2] \in Settings
  <2>1. Chosen(c) \in analysed
    BY <1>1
  <2> HIDE DEF Chosen
  <2> QED
    BY <2>1
<1>2. \A c \in Captures :
         /\ row'[c] = IF \E r \in analysed : r[1] = c THEN Outcome(c, duplicates) ELSE row[c]
         /\ document'[c] = IF \E r \in analysed : r[1] = c
                             THEN Chosen(c)[2] ELSE document[c]
  BY DEF SaveCaptures
<1>3. \A c \in Captures : Outcome(c, duplicates) \in RowStatuses \ {"ABSENT"}
  BY DEF Outcome, RowStatuses
<1>4. /\ row' = [c \in Captures |-> row'[c]]
      /\ document' = [c \in Captures |-> document'[c]]
      /\ UNCHANGED <<path, sid, file, incoming, removing, stray>>
  BY DEF SaveCaptures
<1> HIDE DEF Chosen
<1>5. \A c \in Captures : document'[c] \in {document[c]} \cup Settings
  BY <1>1, <1>2
<1>6. \A r \in analysed : document'[r[1]] \in Settings
  BY <1>1, <1>2
<1>7. StoreTypeOK'
  BY <1>2, <1>3, <1>4, <1>5 DEF StoreIInv, StoreTypeOK
<1>8. \A c \in Captures : Known(c)' <=> Known(c)
  BY <1>2, <1>3 DEF Known
<1> QED
  BY <1>4, <1>5, <1>6, <1>7, <1>8 DEF StoreIInv, StoreTypeOK, RowInv

LEMMA StoreStep == StoreIInv /\ [StoreNext]_storeVars => StoreIInv'
<1> SUFFICES ASSUME StoreIInv, [StoreNext]_storeVars PROVE StoreIInv'
  OBVIOUS
<1> USE DEF StoreIInv, StoreTypeOK, RowInv, RowStatuses, Known
<1>1. ASSUME NEW c \in Captures, NEW s \in StorageIds, Receive(c, s) PROVE StoreIInv'
  BY <1>1, StoreAssumption DEF Receive, Unused
<1>2. ASSUME NEW s \in StorageIds, Register(s) PROVE StoreIInv'
  <2>1. file[s] \in Captures /\ s \in incoming /\ \A c \in Captures : sid[c] # s
    BY <1>2 DEF Register
  <2>2. CASE UNCHANGED <<row, path, sid, file>>
    BY <1>2, <2>1, <2>2, StoreAssumption DEF Register
  <2>3. CASE Known(file[s]) /\ file' = [file EXCEPT ![s] = NoCapture]
    BY <1>2, <2>1, <2>3, StoreAssumption DEF Register
  <2>4. CASE ~ Known(file[s]) /\ row' = [row EXCEPT ![file[s]] = "UPLOADED"]
    BY <1>2, <2>1, <2>4, StoreAssumption DEF Register
  <2> QED
    BY <1>2, <2>2, <2>3, <2>4 DEF Register
<1>3. ASSUME NEW c \in Captures, DeleteRow(c) PROVE StoreIInv'
  BY <1>3 DEF DeleteRow
<1>4. ASSUME NEW c \in Captures, Unlink(c) PROVE StoreIInv'
  BY <1>4, StoreAssumption DEF Unlink
<1>5. ASSUME NEW c \in Captures, NEW used \in Settings, NEW twice \in BOOLEAN, Known(c),
             SaveCaptures({<<c, used>>}, IF twice THEN {c} ELSE {})
      PROVE StoreIInv'
  <2> DEFINE analysed == {<<c, used>>}
             duplicates == IF twice THEN {c} ELSE {}
  <2> HIDE DEF StoreIInv, Known
  <2>1. analysed \in SUBSET (Captures \X Settings) /\ duplicates \in SUBSET Captures
    OBVIOUS
  <2>2. (\A r \in analysed : Known(r[1])) /\ SaveCaptures(analysed, duplicates)
    BY <1>5
  <2> HIDE DEF analysed, duplicates
  <2> QED
    BY <2>1, <2>2, SavePreserves
<1>6. CASE StoreCrash
  BY <1>6 DEF StoreCrash
<1>7. CASE UNCHANGED storeVars
  BY <1>7 DEF storeVars
<1> QED
  BY <1>1, <1>2, <1>3, <1>4, <1>5, <1>6, <1>7 DEF StoreNext

LEMMA StoreInductive == StoreSpec => []StoreIInv
<1>1. StoreInit => StoreIInv
  BY StoreAssumption
     DEF StoreInit, StoreIInv, StoreTypeOK, RowInv, RowStatuses, Known
<1> QED
  BY <1>1, StoreStep, PTL DEF StoreSpec

(* A row never names a file that is missing or holds other bytes, in any    *)
(* order of uploads, deletions, analyses and crashes.                       *)
THEOREM PathsAreSound == StoreSpec => []RowNamesItsBytes
<1>1. StoreIInv => RowNamesItsBytes
  BY DEF StoreIInv, RowInv, RowNamesItsBytes
<1> QED
  BY <1>1, StoreInductive, PTL

LEMMA AccountedStep ==
    StoreIInv /\ FilesAccounted /\ [StoreNext]_storeVars => FilesAccounted'
<1> SUFFICES ASSUME StoreIInv, FilesAccounted, [StoreNext]_storeVars
             PROVE  FilesAccounted'
  OBVIOUS
<1> USE DEF FilesAccounted, StoreIInv, StoreTypeOK, RowInv
<1>0. /\ \A s \in StorageIds, t \in incoming : s = t => \A c \in Captures : path[c] # s
      /\ \A c \in removing, d \in Captures : path[d] # sid[c] /\ sid[c] \in StorageIds
  BY StoreAssumption
<1>1. ASSUME NEW c \in Captures, NEW s \in StorageIds, Receive(c, s) PROVE FilesAccounted'
  <2>1. /\ file[s] = NoCapture /\ incoming = {} /\ incoming' = {s}
        /\ \A t \in StorageIds : file'[t] = IF t = s THEN c ELSE file[t]
        /\ UNCHANGED <<path, sid, removing, stray>>
    BY <1>1 DEF Receive, Unused
  <2> QED
    BY <2>1, StoreAssumption
<1>2. ASSUME NEW s \in StorageIds, Register(s) PROVE FilesAccounted'
  <2>1. /\ file[s] \in Captures /\ s \in incoming
        /\ \A c \in Captures : sid[c] # s /\ path[c] # s
    BY <1>2, StoreAssumption DEF Register
  <2>2. CASE UNCHANGED <<row, path, sid, file>>
    BY <1>2, <2>1, <2>2, StoreAssumption DEF Register
  <2>3. CASE UNCHANGED stray /\ file' = [file EXCEPT ![s] = NoCapture]
                            /\ UNCHANGED <<row, path, sid>>
    <3>1. \A t \in StorageIds : file'[t] = IF t = s THEN NoCapture ELSE file[t]
      BY <2>3
    <3>2. incoming' = incoming \ {s} /\ UNCHANGED removing
      BY <1>2 DEF Register
    <3>3. s \notin stray'
      BY <2>1, <2>3
    <3> QED
      BY <1>0, <2>1, <2>3, <3>1, <3>2, <3>3, StoreAssumption
  <2>4. CASE UNCHANGED stray /\ ~ Known(file[s]) /\ row' = [row EXCEPT ![file[s]] = "UPLOADED"]
    BY <1>2, <2>1, <2>4, StoreAssumption DEF Register, Known
  <2> QED
    BY <1>2, <2>2, <2>3, <2>4 DEF Register
<1>3. ASSUME NEW c \in Captures, DeleteRow(c) PROVE FilesAccounted'
  BY <1>3, StoreAssumption DEF DeleteRow
<1>4. ASSUME NEW c \in Captures, Unlink(c) PROVE FilesAccounted'
  <2>1. CASE UNCHANGED file /\ file[sid[c]] # NoCapture /\ stray' = stray \cup {sid[c]}
    BY <1>4, <2>1, <1>0 DEF Unlink
  <2>2. CASE /\ file' = [file EXCEPT ![sid[c]] = NoCapture]
             /\ stray' = stray \ {sid[c]}
    <3>1. \A t \in StorageIds : file'[t] = IF t = sid[c] THEN NoCapture ELSE file[t]
      BY <2>2
    <3>2. UNCHANGED <<path, sid, incoming>> /\ removing' = removing \ {c}
      BY <1>4 DEF Unlink
    <3> QED
      BY <1>0, <2>2, <3>1, <3>2, StoreAssumption
  <2> QED
    BY <1>4, <2>1, <2>2 DEF Unlink
<1>5. ASSUME NEW c \in Captures, NEW used \in Settings, NEW twice \in BOOLEAN, Known(c),
             SaveCaptures({<<c, used>>}, IF twice THEN {c} ELSE {})
      PROVE FilesAccounted'
  BY <1>5 DEF SaveCaptures
<1>6. CASE StoreCrash
  BY <1>0, <1>6 DEF StoreCrash
<1>7. CASE UNCHANGED storeVars
  BY <1>7 DEF storeVars
<1> QED
  BY <1>1, <1>2, <1>3, <1>4, <1>5, <1>6, <1>7 DEF StoreNext

(* A file without a row and without a request in progress is one that a     *)
(* crash or an error cut short: no order of uploads and deletions leaves    *)
(* any other, and no row ever names it afterwards.                          *)
THEOREM NoOrphans == StoreSpec => []FilesAccounted
<1>1. StoreInit => FilesAccounted
  BY DEF StoreInit, FilesAccounted
<1> QED
  BY <1>1, AccountedStep, StoreInductive, PTL DEF StoreSpec

-----------------------------------------------------------------------------
(* The job service.                                                         *)

(* A future that is queued or executed belongs to a process that has not    *)
(* ended, has a job row, and is the last one its process submitted for its  *)
(* investigation.                                                           *)
FutureInv ==
    \A j \in Jobs :
        /\ jobStatus[j] = "ABSENT" => pc[j] = "none" /\ owner[j] = NoProcess
        /\ jobStatus[j] # "ABSENT" => jobInv[j] \in Investigations
        /\ pc[j] \in Live =>
              /\ jobStatus[j] # "ABSENT"
              /\ owner[j] \in Processes
              /\ mode[owner[j]] # "off"
              /\ running[owner[j]][jobInv[j]] = j

LEMMA Typing == Spec => []TypeOK
<1> USE DEF TypeOK, Statuses, Unfinished, Terminal, Stages, Live, Working,
            database, volatile
<1>1. Init => TypeOK
  BY DEF Init
<1>2. TypeOK /\ [Next]_vars => TypeOK'
  <2> SUFFICES ASSUME TypeOK, [Next]_vars PROVE TypeOK'
    OBVIOUS
  <2>1. ASSUME NEW i \in Investigations, CreateInvestigation(i) PROVE TypeOK'
    BY <2>1 DEF CreateInvestigation
  <2>2. ASSUME NEW p \in Processes, NEW i \in Investigations, NEW j \in Jobs,
               Start(p, i, j)
        PROVE TypeOK'
    BY <2>2 DEF Start
  <2>3. ASSUME NEW j \in Jobs, Claim(j) PROVE TypeOK'
    BY <2>3 DEF Claim
  <2>4. ASSUME NEW j \in Jobs, WorkerStep(j) PROVE TypeOK'
    <3>1. CASE MarkRunning(j)
      BY <3>1 DEF MarkRunning
    <3>2. CASE LoadCaptures(j)
      BY <3>2 DEF LoadCaptures
    <3>3. CASE Analyse(j)
      BY <3>3 DEF Analyse
    <3>4. CASE Persist(j)
      BY <3>4 DEF Persist
    <3>5. CASE PersistFails(j)
      BY <3>5 DEF PersistFails
    <3>6. CASE Complete(j)
      BY <3>6 DEF Complete
    <3>7. CASE FailJob(j)
      BY <3>7 DEF FailJob
    <3>8. CASE FailInvestigation(j)
      BY <3>8 DEF FailInvestigation
    <3> QED
      BY <2>4, <3>1, <3>2, <3>3, <3>4, <3>5, <3>6, <3>7, <3>8 DEF WorkerStep
  <2>5. ASSUME NEW j \in Jobs, WorkerRaises(j) PROVE TypeOK'
    BY <2>5 DEF WorkerRaises
  <2>6. ASSUME NEW p \in Processes, Boot(p) PROVE TypeOK'
    BY <2>6 DEF Boot
  <2>7. ASSUME NEW p \in Processes, Shutdown(p) PROVE TypeOK'
    BY <2>7 DEF Shutdown
  <2>8. ASSUME NEW p \in Processes, Exit(p) \/ Crash(p) PROVE TypeOK'
    <3>1. Vanish(p)
      BY <2>8 DEF Exit, Crash
    <3>2. /\ mode' \in [Processes -> {"off", "serving", "stopping"}]
          /\ running' \in [Processes -> [Investigations -> Jobs \cup {NoJob}]]
      BY <3>1 DEF Vanish
    <3>3. pc' \in [Jobs -> Stages]
      BY <3>1 DEF Vanish
    <3> QED
      BY <3>1, <3>2, <3>3 DEF Vanish
  <2>9. CASE UNCHANGED vars
    BY <2>9 DEF vars
  <2> QED
    BY <2>1, <2>2, <2>3, <2>4, <2>5, <2>6, <2>7, <2>8, <2>9 DEF Next
<1> QED
  BY <1>1, <1>2, PTL DEF Spec

-----------------------------------------------------------------------------
(* The steps of a worker touch their own job only and submit nothing.       *)
LEMMA WorkerFrame ==
    ASSUME TypeOK, NEW j \in Jobs, Claim(j) \/ WorkerStep(j) \/ WorkerRaises(j)
    PROVE  /\ pc[j] \in Live
           /\ pc'[j] # "none"
           /\ \A k \in Jobs \ {j} : pc'[k] = pc[k] /\ jobStatus'[k] = jobStatus[k]
           /\ jobStatus'[j] \in {jobStatus[j], "RUNNING", "COMPLETED", "FAILED"}
           /\ UNCHANGED <<jobInv, mode, running, owner>>
<1> USE DEF TypeOK, Live, Working, database
<1>1. CASE Claim(j) \/ WorkerRaises(j)
  BY <1>1 DEF Claim, WorkerRaises, Unguarded
<1>2. CASE MarkRunning(j) \/ Complete(j) \/ FailJob(j)
  BY <1>2 DEF MarkRunning, Complete, FailJob
<1>3. CASE LoadCaptures(j) \/ Analyse(j) \/ Persist(j)
  BY <1>3 DEF LoadCaptures, Analyse, Persist
<1>4. CASE PersistFails(j) \/ FailInvestigation(j)
  BY <1>4 DEF PersistFails, FailInvestigation
<1> QED
  BY <1>1, <1>2, <1>3, <1>4 DEF WorkerStep

LEMMA FutureStep == TypeOK /\ TypeOK' /\ FutureInv /\ [Next]_vars => FutureInv'
<1> SUFFICES ASSUME TypeOK, TypeOK', FutureInv, [Next]_vars
             PROVE  FutureInv'
  OBVIOUS
<1>1. ASSUME NEW i \in Investigations, CreateInvestigation(i) PROVE FutureInv'
  BY <1>1 DEF CreateInvestigation, FutureInv, volatile
<1>2. ASSUME NEW p \in Processes, NEW i \in Investigations, NEW j \in Jobs,
             Start(p, i, j)
      PROVE FutureInv'
  <2>1. /\ jobStatus' = [jobStatus EXCEPT ![j] = "QUEUED"]
        /\ jobInv' = [jobInv EXCEPT ![j] = i]
        /\ pc' = [pc EXCEPT ![j] = "pending"]
        /\ owner' = [owner EXCEPT ![j] = p]
        /\ running' = [running EXCEPT ![p][i] = j]
        /\ mode' = mode /\ mode[p] = "serving"
    BY <1>2 DEF Start
  <2>2. pc[j] = "none"
    BY <1>2 DEF Start, FutureInv
  <2> SUFFICES ASSUME NEW k \in Jobs
               PROVE  /\ jobStatus'[k] = "ABSENT" =>
                            pc'[k] = "none" /\ owner'[k] = NoProcess
                      /\ jobStatus'[k] # "ABSENT" => jobInv'[k] \in Investigations
                      /\ pc'[k] \in Live =>
                            /\ jobStatus'[k] # "ABSENT"
                            /\ owner'[k] \in Processes
                            /\ mode'[owner'[k]] # "off"
                            /\ running'[owner'[k]][jobInv'[k]] = k
    BY DEF FutureInv
  <2>3. CASE k = j
    BY <2>1, <2>3 DEF TypeOK
  <2>4. CASE k # j
    <3>1. UNCHANGED <<jobStatus[k], jobInv[k], pc[k], owner[k]>>
      BY <2>1, <2>4 DEF TypeOK
    <3>2. ASSUME pc[k] \in Live PROVE running'[owner[k]][jobInv[k]] = k
      <4>1. /\ owner[k] \in Processes /\ jobInv[k] \in Investigations
            /\ running[owner[k]][jobInv[k]] = k
        BY <3>2 DEF FutureInv
      <4>2. ~ (owner[k] = p /\ jobInv[k] = i)
        BY <4>1, <1>2, <3>2, ValuesAssumption
           DEF Start, MayStart, FutureDone, Live, Working
      <4> QED
        BY <4>1, <4>2, <2>1 DEF TypeOK
    <3> QED
      BY <3>1, <3>2, <2>1 DEF FutureInv
  <2> QED
    BY <2>3, <2>4
<1>3. ASSUME NEW j \in Jobs, Claim(j) \/ WorkerStep(j) \/ WorkerRaises(j)
      PROVE FutureInv'
  <2>1. /\ pc[j] \in Live /\ pc'[j] # "none"
        /\ \A k \in Jobs \ {j} : pc'[k] = pc[k] /\ jobStatus'[k] = jobStatus[k]
        /\ jobStatus'[j] \in {jobStatus[j], "RUNNING", "COMPLETED", "FAILED"}
        /\ UNCHANGED <<jobInv, mode, running, owner>>
    BY <1>3, WorkerFrame
  <2>2. jobStatus[j] # "ABSENT" /\ jobStatus'[j] # "ABSENT"
    BY <2>1 DEF FutureInv
  <2> QED
    BY <2>1, <2>2 DEF FutureInv
<1>4. ASSUME NEW p \in Processes, Boot(p) PROVE FutureInv'
  <2>1. /\ \A j \in Jobs : jobStatus'[j] = "ABSENT" <=> jobStatus[j] = "ABSENT"
        /\ \A q \in Processes : mode[q] # "off" => mode'[q] # "off"
        /\ UNCHANGED <<jobInv, running, owner, pc>>
    BY <1>4 DEF Boot, Interrupted, Unfinished, TypeOK
  <2> QED
    BY <2>1 DEF FutureInv
<1>5. ASSUME NEW p \in Processes, Shutdown(p) PROVE FutureInv'
  <2>1. /\ \A j \in Jobs : pc'[j] = pc[j] \/ (pc[j] = "pending" /\ pc'[j] = "cancelled")
        /\ \A q \in Processes : mode[q] # "off" => mode'[q] # "off"
        /\ UNCHANGED <<jobStatus, jobInv, running, owner>>
    BY <1>5 DEF Shutdown, TypeOK, database
  <2>2. "pending" \in Live /\ "cancelled" \notin Live /\ "none" \notin Live
    BY DEF Live, Working
  <2> QED
    BY <2>1, <2>2 DEF FutureInv
<1>6. ASSUME NEW p \in Processes, Exit(p) \/ Crash(p) PROVE FutureInv'
  <2>1. Vanish(p) /\ mode[p] # "off"
    BY <1>6 DEF Exit, Crash
  <2>2. /\ UNCHANGED <<jobStatus, jobInv, owner>>
        /\ \A j \in Jobs : pc'[j] = IF owner[j] = p THEN "gone" ELSE pc[j]
        /\ \A q \in Processes \ {p} : mode'[q] = mode[q] /\ running'[q] = running[q]
    BY <2>1 DEF Vanish, TypeOK, database
  <2>3. "gone" \notin Live /\ NoProcess # p
    BY ValuesAssumption DEF Live, Working
  <2> SUFFICES ASSUME NEW j \in Jobs
               PROVE  /\ jobStatus[j] = "ABSENT" =>
                            pc'[j] = "none" /\ owner[j] = NoProcess
                      /\ pc'[j] \in Live =>
                            /\ pc[j] \in Live
                            /\ mode'[owner[j]] # "off"
                            /\ running'[owner[j]] = running[owner[j]]
    BY <2>2 DEF FutureInv
  <2> QED
    BY <2>2, <2>3 DEF FutureInv
<1>7. CASE UNCHANGED vars
  BY <1>7 DEF vars, FutureInv
<1> QED
  BY <1>1, <1>2, <1>3, <1>4, <1>5, <1>6, <1>7 DEF Next

-----------------------------------------------------------------------------
(* The rows an investigation holds come from a job of that investigation,   *)
(* and a job past the commit of _persist has an investigation with rows.    *)
ResultsInv ==
    /\ \A i \in Investigations :
          results[i] \in Jobs =>
              jobStatus[results[i]] # "ABSENT" /\ jobInv[results[i]] = i
    /\ \A j \in Jobs :
          pc[j] = "complete" \/ jobStatus[j] = "COMPLETED" =>
              results[jobInv[j]] \in Jobs

IInv == TypeOK /\ FutureInv /\ ResultsInv

LEMMA ResultsStep == TypeOK /\ FutureInv /\ ResultsInv /\ [Next]_vars => ResultsInv'
<1> SUFFICES ASSUME TypeOK, FutureInv, ResultsInv, [Next]_vars
             PROVE  ResultsInv'
  OBVIOUS
<1>1. ASSUME NEW i \in Investigations, CreateInvestigation(i) PROVE ResultsInv'
  BY <1>1 DEF CreateInvestigation, ResultsInv, volatile
<1>2. ASSUME NEW p \in Processes, NEW i \in Investigations, NEW j \in Jobs,
             Start(p, i, j)
      PROVE ResultsInv'
  <2>1. /\ jobStatus[j] = "ABSENT" /\ jobStatus'[j] = "QUEUED" /\ pc'[j] = "pending"
        /\ \A k \in Jobs \ {j} :
              UNCHANGED <<jobStatus[k], jobInv[k], pc[k]>>
        /\ UNCHANGED results
    BY <1>2 DEF Start, TypeOK
  <2> QED
    BY <2>1 DEF ResultsInv
<1>3. ASSUME NEW j \in Jobs, Claim(j) \/ WorkerStep(j) \/ WorkerRaises(j)
      PROVE ResultsInv'
  <2>1. /\ pc[j] \in Live /\ pc'[j] # "none"
        /\ \A k \in Jobs \ {j} : pc'[k] = pc[k] /\ jobStatus'[k] = jobStatus[k]
        /\ jobStatus'[j] \in {jobStatus[j], "RUNNING", "COMPLETED", "FAILED"}
        /\ UNCHANGED <<jobInv, mode, running, owner>>
    BY <1>3, WorkerFrame
  <2>2. jobStatus[j] # "ABSENT" /\ jobStatus'[j] # "ABSENT"
    BY <2>1 DEF FutureInv
  <2>3. CASE Persist(j)
    <3>1. /\ results' = [results EXCEPT ![jobInv[j]] = j]
          /\ jobStatus' = jobStatus
      BY <2>3 DEF Persist
    <3>2. jobInv[j] \in Investigations /\ results'[jobInv[j]] = j
      BY <3>1, <2>2 DEF FutureInv, TypeOK
    <3>3. \A i \in Investigations : results'[i] = results[i] \/ (i = jobInv[j] /\ results'[i] = j)
      BY <3>1, <3>2 DEF TypeOK
    <3>4. \A k \in Jobs : jobStatus[k] # "ABSENT" \/ pc[k] = "complete" =>
              jobInv[k] \in Investigations
      BY DEF FutureInv
    <3>5. ASSUME NEW k \in Jobs, pc'[k] = "complete" \/ jobStatus'[k] = "COMPLETED"
          PROVE  results'[jobInv'[k]] \in Jobs
      <4>1. CASE k = j
        BY <4>1, <3>2, <2>1
      <4>2. CASE k # j
        <5>1. results[jobInv[k]] \in Jobs /\ jobInv[k] \in Investigations
          BY <4>2, <3>5, <2>1, <3>4 DEF ResultsInv
        <5> QED
          BY <5>1, <3>3, <2>1
      <4> QED
        BY <4>1, <4>2
    <3> QED
      BY <3>1, <3>3, <3>5, <2>1, <2>2 DEF ResultsInv
  <2>4. CASE ~ Persist(j)
    <3>1. results' = results
      BY <1>3, <2>4
         DEF Claim, WorkerRaises, WorkerStep, MarkRunning, LoadCaptures, Analyse,
             PersistFails, Complete, FailJob, FailInvestigation, database
    <3>2. /\ pc'[j] = "complete" => pc[j] = "complete"
          /\ jobStatus'[j] = "COMPLETED" => jobStatus[j] = "COMPLETED" \/ pc[j] = "complete"
      BY <1>3, <2>4
         DEF Claim, WorkerRaises, WorkerStep, MarkRunning, LoadCaptures, Analyse,
             PersistFails, Complete, FailJob, FailInvestigation, database, TypeOK
    <3> QED
      BY <3>1, <3>2, <2>1, <2>2 DEF ResultsInv
  <2> QED
    BY <2>3, <2>4
<1>4. ASSUME NEW p \in Processes, Boot(p) PROVE ResultsInv'
  <2>1. /\ \A j \in Jobs : jobStatus'[j] = jobStatus[j] \/
              (jobStatus[j] # "ABSENT" /\ jobStatus'[j] = "FAILED")
        /\ UNCHANGED <<jobInv, results, pc>>
    BY <1>4 DEF Boot, Interrupted, Unfinished, TypeOK
  <2> QED
    BY <2>1 DEF ResultsInv
<1>5. ASSUME NEW p \in Processes, Shutdown(p) \/ Exit(p) \/ Crash(p) PROVE ResultsInv'
  <2>1. /\ UNCHANGED <<jobStatus, jobInv, results>>
        /\ \A j \in Jobs : pc'[j] \in {pc[j], "cancelled", "gone"}
    BY <1>5 DEF Shutdown, Exit, Crash, Vanish, database, TypeOK
  <2> QED
    BY <2>1 DEF ResultsInv
<1>6. CASE UNCHANGED vars
  BY <1>6 DEF vars, ResultsInv
<1> QED
  BY <1>1, <1>2, <1>3, <1>4, <1>5, <1>6 DEF Next

LEMMA Inductive == Spec => []IInv
<1>1. Init => FutureInv /\ ResultsInv
  BY ValuesAssumption DEF Init, FutureInv, ResultsInv, Live, Working
<1>2. FutureInv /\ ResultsInv /\ TypeOK /\ TypeOK' /\ [Next]_vars
        => FutureInv' /\ ResultsInv'
  BY FutureStep, ResultsStep
<1> QED
  BY <1>1, <1>2, Typing, PTL DEF Spec, IInv

(* Duplicate work is refused (AnalysisService.start): no two futures of one *)
(* process that are queued or executed belong to the same investigation.    *)
THEOREM OneWriter == Spec => []NoTwoWriters
<1>1. IInv => NoTwoWriters
  BY DEF IInv, FutureInv, NoTwoWriters
<1> QED
  BY <1>1, Inductive, PTL

(* No COMPLETED job references results that were not written, with any      *)
(* number of processes, crashes and failing transactions.                   *)
THEOREM CompletedWrote == Spec => []CompletedHasResults
<1>1. IInv => CompletedHasResults
  <2> SUFFICES ASSUME IInv, NEW j \in Jobs, jobStatus[j] = "COMPLETED"
               PROVE  /\ results[jobInv[j]] \in Jobs
                      /\ jobInv[results[jobInv[j]]] = jobInv[j]
    BY DEF CompletedHasResults
  <2>1. jobInv[j] \in Investigations
    BY DEF IInv, FutureInv
  <2> QED
    BY <2>1 DEF IInv, ResultsInv
<1> QED
  BY <1>1, Inductive, PTL

-----------------------------------------------------------------------------
(* With one process at a time over the data directory, recovery never meets *)
(* a live worker, and the rows follow the stage of the worker.              *)
SingleProcess == \A p, q \in Processes : p = q

StageOf(j) ==
    /\ pc[j] \in {"pending", "claimed"} => jobStatus[j] = "QUEUED"
    /\ pc[j] \in {"load", "analyse", "saving", "complete", "failJob"} =>
          jobStatus[j] = "RUNNING"
    /\ pc[j] \in {"pending", "claimed", "load"} => invStatus[jobInv[j]] = "QUEUED"
    /\ pc[j] \in {"analyse", "saving", "failJob", "failInv"} =>
          invStatus[jobInv[j]] = "RUNNING"
    /\ (\E i \in Investigations : results[i] = j) => pc[j] \in {"complete", "done", "raised", "gone"}

StageInv == \A j \in Jobs : StageOf(j)

LEMMA OnlyFuture ==
    ASSUME SingleProcess, IInv, NEW j \in Jobs, NEW k \in Jobs,
           pc[j] \in Live, pc[k] \in Live, jobInv[j] = jobInv[k]
    PROVE  j = k
BY DEF SingleProcess, IInv, FutureInv

(* A worker's step keeps the stage of its own job and of every other one.   *)
LEMMA StageWorker ==
    ASSUME SingleProcess, IInv, StageInv, NEW j \in Jobs,
           Claim(j) \/ WorkerStep(j) \/ WorkerRaises(j)
    PROVE  StageInv'
<1>1. /\ pc[j] \in Live /\ pc'[j] # "none"
      /\ \A k \in Jobs \ {j} : pc'[k] = pc[k] /\ jobStatus'[k] = jobStatus[k]
      /\ UNCHANGED jobInv
  BY WorkerFrame DEF IInv
<1>2. jobInv[j] \in Investigations
  BY <1>1 DEF IInv, FutureInv
<1>3. /\ \A i \in Investigations \ {jobInv[j]} : invStatus'[i] = invStatus[i]
      /\ \A i \in Investigations : results'[i] = results[i] \/ results'[i] = j
  BY <1>2
     DEF Claim, WorkerRaises, WorkerStep, MarkRunning, LoadCaptures, Analyse, Persist,
         PersistFails, Complete, FailJob, FailInvestigation, database, IInv, TypeOK
<1>4. ASSUME NEW k \in Jobs, k # j PROVE StageOf(k)'
  <2>1. UNCHANGED <<pc[k], jobStatus[k], jobInv[k]>>
    BY <1>1, <1>4
  <2>2. (\E i \in Investigations : results'[i] = k) =>
           \E i \in Investigations : results[i] = k
    BY <1>3, <1>4
  <2>3. ASSUME pc[k] \in Live PROVE UNCHANGED invStatus[jobInv[k]]
    <3>1. jobInv[k] # jobInv[j]
      BY <1>1, <1>4, <2>3, OnlyFuture
    <3>2. jobInv[k] \in Investigations
      BY <2>3 DEF IInv, FutureInv
    <3> QED
      BY <3>1, <3>2, <1>3, <2>1
  <2> QED
    BY <2>1, <2>2, <2>3 DEF StageInv, StageOf, Live, Working
<1>5. StageOf(j)'
  <2> USE DEF StageInv, StageOf, IInv, TypeOK
  <2>1. CASE Claim(j)
    BY <2>1, <1>1 DEF Claim, database
  <2>2. CASE MarkRunning(j)
    BY <2>2, <1>1 DEF MarkRunning
  <2>3. CASE LoadCaptures(j)
    BY <2>3, <1>1, <1>2 DEF LoadCaptures
  <2>4. CASE Analyse(j)
    BY <2>4, <1>1 DEF Analyse, database
  <2>5. CASE Persist(j)
    BY <2>5, <1>1, <1>2 DEF Persist
  <2>6. CASE PersistFails(j)
    BY <2>6, <1>1 DEF PersistFails, database
  <2>7. CASE Complete(j)
    BY <2>7, <1>1 DEF Complete
  <2>8. CASE FailJob(j)
    BY <2>8, <1>1 DEF FailJob
  <2>9. CASE FailInvestigation(j)
    BY <2>9, <1>1 DEF FailInvestigation
  <2>10. CASE WorkerRaises(j)
    BY <2>10, <1>1 DEF WorkerRaises, Unguarded, database
  <2> QED
    BY <2>1, <2>2, <2>3, <2>4, <2>5, <2>6, <2>7, <2>8, <2>9, <2>10 DEF WorkerStep
<1> QED
  BY <1>4, <1>5 DEF StageInv

LEMMA StageStep == SingleProcess /\ IInv /\ StageInv /\ [Next]_vars => StageInv'
<1> SUFFICES ASSUME SingleProcess, IInv, StageInv, [Next]_vars
             PROVE  StageInv'
  OBVIOUS
<1>1. ASSUME NEW i \in Investigations, CreateInvestigation(i) PROVE StageInv'
  BY <1>1 DEF CreateInvestigation, StageInv, StageOf, IInv, TypeOK, FutureInv,
              Live, Working, volatile
<1>2. ASSUME NEW p \in Processes, NEW i \in Investigations, NEW j \in Jobs,
             Start(p, i, j)
      PROVE StageInv'
  <2>1. /\ jobStatus[j] = "ABSENT" /\ pc[j] = "none"
        /\ jobStatus'[j] = "QUEUED" /\ pc'[j] = "pending" /\ jobInv'[j] = i
        /\ invStatus'[i] = "QUEUED"
        /\ \A k \in Jobs \ {j} : UNCHANGED <<jobStatus[k], jobInv[k], pc[k]>>
        /\ \A h \in Investigations \ {i} : invStatus'[h] = invStatus[h]
        /\ UNCHANGED results
    BY <1>2 DEF Start, IInv, TypeOK, FutureInv
  <2>2. ASSUME NEW k \in Jobs, k # j PROVE StageOf(k)'
    <3>1. ASSUME pc[k] \in Live
          PROVE  jobInv[k] \in Investigations \ {i}
      <4>1. /\ owner[k] = p /\ jobInv[k] \in Investigations
            /\ running[p][jobInv[k]] = k
        BY <3>1 DEF IInv, FutureInv, SingleProcess
      <4>2. running[p][i] # k
        BY <1>2, <3>1, ValuesAssumption
           DEF Start, MayStart, FutureDone, Live, Working
      <4> QED
        BY <4>1, <4>2
    <3> QED
      BY <2>1, <2>2, <3>1 DEF StageInv, StageOf, Live, Working
  <2>3. StageOf(j)'
    BY <2>1 DEF StageInv, StageOf
  <2> QED
    BY <2>2, <2>3 DEF StageInv
<1>3. ASSUME NEW j \in Jobs, Claim(j) \/ WorkerStep(j) \/ WorkerRaises(j)
      PROVE StageInv'
  BY <1>3, StageWorker
<1>4. ASSUME NEW p \in Processes, Boot(p) PROVE StageInv'
  <2>1. \A j \in Jobs : pc[j] \notin Live
    BY <1>4 DEF Boot, IInv, FutureInv, SingleProcess
  <2>2. UNCHANGED <<pc, results>>
    BY <1>4 DEF Boot
  <2> QED
    BY <2>1, <2>2 DEF StageInv, StageOf, Live, Working
<1>5. ASSUME NEW p \in Processes, Shutdown(p) \/ Exit(p) \/ Crash(p) PROVE StageInv'
  <2>1. /\ UNCHANGED database
        /\ \A j \in Jobs : \/ pc'[j] = pc[j]
                           \/ pc'[j] = "gone"
                           \/ pc[j] = "pending" /\ pc'[j] = "cancelled"
    BY <1>5 DEF Shutdown, Exit, Crash, Vanish, IInv, TypeOK
  <2> QED
    BY <2>1 DEF StageInv, StageOf, database
<1>6. CASE UNCHANGED vars
  BY <1>6 DEF vars, StageInv, StageOf
<1> QED
  BY <1>1, <1>2, <1>3, <1>4, <1>5, <1>6 DEF Next

LEMMA Staged == ASSUME SingleProcess PROVE Spec => []StageInv
<1>1. Init => StageInv
  BY ValuesAssumption DEF Init, StageInv, StageOf
<1>2. IInv /\ StageInv /\ [Next]_vars => StageInv'
  BY StageStep
<1> QED
  BY <1>1, <1>2, Inductive, PTL DEF Spec

(* A job that ended, as COMPLETED or as FAILED, keeps that status for good. *)
THEOREM FinalStatus == ASSUME SingleProcess PROVE Spec => TerminalIsFinal
<1>1. IInv /\ StageInv /\ [Next]_vars =>
        [\A j \in Jobs : jobStatus[j] \in Terminal => jobStatus'[j] = jobStatus[j]]_vars
  <2> SUFFICES ASSUME IInv, StageInv, [Next]_vars,
                      NEW j \in Jobs, jobStatus[j] \in Terminal
               PROVE  jobStatus'[j] = jobStatus[j]
    OBVIOUS
  <2>1. ASSUME NEW k \in Jobs, Claim(k) \/ WorkerStep(k) \/ WorkerRaises(k)
        PROVE  jobStatus'[j] = jobStatus[j]
    <3>1. CASE k # j
      BY <2>1, <3>1, WorkerFrame DEF IInv
    <3>2. CASE k = j
      BY <2>1, <3>2
         DEF Claim, WorkerRaises, WorkerStep, MarkRunning, LoadCaptures, Analyse, Persist,
             PersistFails, Complete, FailJob, FailInvestigation, database,
             StageInv, StageOf, Terminal
    <3> QED
      BY <3>1, <3>2
  <2>2. ASSUME NEW p \in Processes, NEW i \in Investigations, NEW k \in Jobs, Start(p, i, k)
        PROVE  jobStatus'[j] = jobStatus[j]
    BY <2>2 DEF Start, Terminal, IInv, TypeOK
  <2>3. ASSUME NEW p \in Processes, Boot(p) PROVE jobStatus'[j] = jobStatus[j]
    BY <2>3 DEF Boot, Interrupted, Unfinished, Terminal
  <2>4. ASSUME NEW p \in Processes, Shutdown(p) \/ Exit(p) \/ Crash(p)
        PROVE  jobStatus'[j] = jobStatus[j]
    BY <2>4 DEF Shutdown, Exit, Crash, Vanish, database
  <2>5. ASSUME NEW i \in Investigations, CreateInvestigation(i)
        PROVE  jobStatus'[j] = jobStatus[j]
    BY <2>5 DEF CreateInvestigation
  <2>6. CASE UNCHANGED vars
    BY <2>6 DEF vars
  <2> QED
    BY <2>1, <2>2, <2>3, <2>4, <2>5, <2>6 DEF Next
<1>2. Spec => []StageInv
  BY Staged
<1> QED
  BY <1>1, <1>2, Inductive, PTL DEF Spec, TerminalIsFinal

(* The jobs, workers and restarts implement the lifecycle promised to the   *)
(* reader: rows change only in the step that makes them COMPLETED.          *)
THEOREM Refinement == ASSUME SingleProcess PROVE Spec => ImplementsLifecycle
<1>1. Init => Lifecycle!Init
  BY DEF Init, Lifecycle!Init
<1>2. IInv /\ StageInv /\ [Next]_vars => [Lifecycle!Next]_(Lifecycle!vars)
  <2> SUFFICES ASSUME IInv, StageInv, [Next]_vars
               PROVE  Lifecycle!Next \/ UNCHANGED <<invStatus, results>>
    BY DEF Lifecycle!vars
  <2> USE DEF IInv, TypeOK
  <2>1. ASSUME NEW i \in Investigations, CreateInvestigation(i)
        PROVE  Lifecycle!Create(i)
    BY <2>1 DEF CreateInvestigation, Lifecycle!Create, Lifecycle!Move
  <2>2. ASSUME NEW p \in Processes, NEW i \in Investigations, NEW j \in Jobs, Start(p, i, j)
        PROVE  Lifecycle!Queue(i)
    BY <2>2 DEF Start, Lifecycle!Queue, Lifecycle!Move, Statuses, Unfinished, Terminal
  <2>3. ASSUME NEW j \in Jobs, Claim(j) \/ WorkerStep(j) \/ WorkerRaises(j)
        PROVE  Lifecycle!Next \/ UNCHANGED <<invStatus, results>>
    <3>1. jobInv[j] \in Investigations /\ StageOf(j)
      BY <2>3, WorkerFrame DEF FutureInv, StageInv
    <3>2. CASE LoadCaptures(j)
      <4>1. Lifecycle!Begin(jobInv[j])
        BY <3>1, <3>2 DEF LoadCaptures, StageOf, Lifecycle!Begin, Lifecycle!Move
      <4> QED
        BY <3>1, <4>1 DEF Lifecycle!Next
    <3>3. CASE Persist(j)
      <4>1. j # results[jobInv[j]]
        BY <3>1, <3>3 DEF Persist, StageOf
      <4>2. Lifecycle!Publish(jobInv[j])
        BY <3>1, <3>3, <4>1 DEF Persist, StageOf, Lifecycle!Publish, Lifecycle!Move
      <4> QED
        BY <3>1, <4>2 DEF Lifecycle!Next
    <3>4. CASE FailInvestigation(j)
      <4>1. Lifecycle!Fail({jobInv[j]})
        BY <3>1, <3>4 DEF FailInvestigation, StageOf, Lifecycle!Fail
      <4> QED
        BY <3>1, <4>1 DEF Lifecycle!Next
    <3>5. CASE ~ (LoadCaptures(j) \/ Persist(j) \/ FailInvestigation(j))
      BY <2>3, <3>5 DEF Claim, WorkerRaises, WorkerStep, MarkRunning, Analyse,
                        PersistFails, Complete, FailJob, database
    <3> QED
      BY <3>2, <3>3, <3>4, <3>5
  <2>4. ASSUME NEW p \in Processes, Boot(p) PROVE Lifecycle!Next
    <3> DEFINE lost == {i \in Investigations :
                           invStatus[i] \in Unfinished /\ \E j \in Interrupted : jobInv[j] = i}
    <3>1. Lifecycle!Fail(lost)
      BY <2>4 DEF Boot, Lifecycle!Fail, Unfinished
    <3> QED
      BY <3>1 DEF Lifecycle!Next
  <2>5. ASSUME NEW p \in Processes, Shutdown(p) \/ Exit(p) \/ Crash(p)
        PROVE  UNCHANGED <<invStatus, results>>
    BY <2>5 DEF Shutdown, Exit, Crash, Vanish, database
  <2>6. CASE UNCHANGED vars
    BY <2>6 DEF vars
  <2> QED
    BY <2>1, <2>2, <2>3, <2>4, <2>5, <2>6 DEF Next, Lifecycle!Next
<1>3. Spec => []StageInv
  BY Staged
<1> QED
  BY <1>1, <1>2, <1>3, Inductive, PTL DEF Spec, ImplementsLifecycle, Lifecycle!Spec

-----------------------------------------------------------------------------
(* What a user of the running application relies on.  A worker that goes on *)
(* to fail the investigation has failed its job before.                     *)
FailedInv == \A j \in Jobs : pc[j] = "failInv" => jobStatus[j] = "FAILED"

ServingInv == FailedInv /\ NoStaleJob /\ CompletedIsSettled

(* Of the steps of a worker, the one of _persist alone makes an             *)
(* investigation COMPLETED, and one that ends the call leaves the job over. *)
LEMMA ServingWorker ==
    ASSUME SingleProcess, IInv, StageInv, ServingInv, NEW j \in Jobs,
           Claim(j) \/ WorkerStep(j) \/ WorkerRaises(j)
    PROVE  ServingInv'
<1>1. /\ pc[j] \in Live
      /\ \A k \in Jobs \ {j} : pc'[k] = pc[k] /\ jobStatus'[k] = jobStatus[k]
      /\ UNCHANGED <<jobInv, mode, running, owner>>
  BY WorkerFrame DEF IInv
<1>2. jobInv[j] \in Investigations /\ StageOf(j)
  BY <1>1 DEF IInv, FutureInv, StageInv
<1> USE DEF IInv, TypeOK
<1>3. /\ pc'[j] = "failInv" => jobStatus'[j] = "FAILED"
      /\ jobStatus'[j] \in Unfinished => pc'[j] \in Live \cup {"raised"}
  <2> USE DEF Unfinished, Live, Working
  <2>1. CASE Claim(j)
    BY <2>1, <1>1 DEF Claim, database
  <2>2. CASE MarkRunning(j)
    BY <2>2, <1>1 DEF MarkRunning
  <2>3. CASE LoadCaptures(j)
    BY <2>3, <1>1 DEF LoadCaptures
  <2>4. CASE Analyse(j)
    BY <2>4, <1>1 DEF Analyse, database
  <2>5. CASE Persist(j)
    BY <2>5, <1>1 DEF Persist
  <2>6. CASE PersistFails(j)
    BY <2>6, <1>1 DEF PersistFails, database
  <2>7. CASE Complete(j)
    BY <2>7, <1>1 DEF Complete
  <2>8. CASE FailJob(j)
    BY <2>8, <1>1 DEF FailJob
  <2>9. CASE FailInvestigation(j)
    BY <2>9, <1>1 DEF FailInvestigation, ServingInv, FailedInv
  <2>10. CASE WorkerRaises(j)
    BY <2>10, <1>1 DEF WorkerRaises, Unguarded, database
  <2> QED
    BY <2>1, <2>2, <2>3, <2>4, <2>5, <2>6, <2>7, <2>8, <2>9, <2>10 DEF WorkerStep
<1>4. FailedInv' /\ NoStaleJob'
  BY <1>1, <1>3 DEF ServingInv, FailedInv, NoStaleJob
<1>5. CompletedIsSettled'
  <2>1. CASE Persist(j)
    <3>1. /\ results'[jobInv[j]] = j
          /\ \A i \in Investigations \ {jobInv[j]} : UNCHANGED <<results[i], invStatus[i]>>
          /\ pc'[j] = "complete"
      BY <1>2, <2>1 DEF Persist
    <3>2. \A k \in Jobs : pc[k] \in Live /\ jobInv[k] = jobInv[j] => k = j
      BY <1>1, OnlyFuture
    <3>3. \A k \in Jobs : pc'[k] \in Live => pc[k] \in Live
      BY <1>1
    <3> QED
      BY <1>1, <3>1, <3>2, <3>3 DEF ServingInv, CompletedIsSettled
  <2>2. CASE ~Persist(j)
    <3>1. results' = results
          /\ \A i \in Investigations : invStatus'[i] = "COMPLETED" => invStatus[i] = "COMPLETED"
      BY <1>2, <2>2
         DEF Claim, WorkerRaises, WorkerStep, MarkRunning, LoadCaptures, Analyse,
             PersistFails, Complete, FailJob, FailInvestigation, database
    <3>2. \A k \in Jobs : pc'[k] \in Live => pc[k] \in Live
      BY <1>1
    <3> QED
      BY <1>1, <3>1, <3>2 DEF ServingInv, CompletedIsSettled
  <2> QED
    BY <2>1, <2>2
<1> QED
  BY <1>4, <1>5 DEF ServingInv

LEMMA ServingStep ==
    SingleProcess /\ IInv /\ StageInv /\ ServingInv /\ [Next]_vars => ServingInv'
<1> SUFFICES ASSUME SingleProcess, IInv, StageInv, ServingInv, [Next]_vars
             PROVE  ServingInv'
  OBVIOUS
<1> USE DEF IInv, TypeOK
<1>1. ASSUME NEW i \in Investigations, CreateInvestigation(i) PROVE ServingInv'
  <2>1. /\ UNCHANGED <<jobStatus, jobInv, results, mode, pc>>
        /\ \A h \in Investigations : invStatus'[h] = "COMPLETED" => invStatus[h] = "COMPLETED"
    BY <1>1 DEF CreateInvestigation, volatile
  <2> QED
    BY <2>1 DEF ServingInv, FailedInv, NoStaleJob, CompletedIsSettled
<1>2. ASSUME NEW p \in Processes, NEW i \in Investigations, NEW j \in Jobs, Start(p, i, j)
      PROVE ServingInv'
  <2>1. /\ pc'[j] = "pending" /\ jobInv'[j] = i /\ invStatus'[i] = "QUEUED"
        /\ \A k \in Jobs \ {j} : UNCHANGED <<jobStatus[k], jobInv[k], pc[k]>>
        /\ \A h \in Investigations \ {i} : invStatus'[h] = invStatus[h]
        /\ UNCHANGED <<results, mode>>
    BY <1>2 DEF Start
  <2>2. "pending" \in Live
    BY DEF Live
  <2>3. FailedInv' /\ NoStaleJob'
    <3>1. FailedInv /\ NoStaleJob /\ "pending" # "failInv"
      BY DEF ServingInv
    <3>2. FailedInv'
      <4> HIDE DEF IInv, TypeOK
      <4>1. ASSUME NEW k \in Jobs, pc'[k] = "failInv" PROVE jobStatus'[k] = "FAILED"
        BY <2>1, <3>1, <4>1 DEF FailedInv
      <4> QED
        BY <4>1 DEF FailedInv
    <3>3. NoStaleJob'
      <4> HIDE DEF IInv, TypeOK
      <4>1. ASSUME NEW k \in Jobs, jobStatus'[k] \in Unfinished,
                   \E q \in Processes : mode'[q] = "serving"
            PROVE  pc'[k] \in Live \cup {"raised"}
        BY <2>1, <2>2, <3>1, <4>1 DEF NoStaleJob
      <4> QED
        BY <4>1 DEF NoStaleJob
    <3> QED
      BY <3>2, <3>3
  <2>4. CompletedIsSettled'
    BY <2>1 DEF ServingInv, CompletedIsSettled
  <2> QED
    BY <2>3, <2>4 DEF ServingInv
<1>3. ASSUME NEW j \in Jobs, Claim(j) \/ WorkerStep(j) \/ WorkerRaises(j)
      PROVE ServingInv'
  BY <1>3, ServingWorker
<1>4. ASSUME NEW p \in Processes, Boot(p) PROVE ServingInv'
  <2>1. \A j \in Jobs : pc[j] \notin Live
    BY <1>4 DEF Boot, FutureInv, SingleProcess
  <2>2. /\ UNCHANGED <<pc, results, jobInv>>
        /\ \A j \in Jobs : jobStatus'[j] \notin Unfinished
        /\ \A i \in Investigations : invStatus'[i] = "COMPLETED" => invStatus[i] = "COMPLETED"
    BY <1>4 DEF Boot, Interrupted, Unfinished
  <2>3. "failInv" \in Live
    BY DEF Live, Working
  <2> QED
    BY <2>1, <2>2, <2>3 DEF ServingInv, FailedInv, NoStaleJob, CompletedIsSettled
<1>5. ASSUME NEW p \in Processes, Shutdown(p) \/ Exit(p) \/ Crash(p) PROVE ServingInv'
  <2>1. /\ UNCHANGED database
        /\ \A q \in Processes : mode'[q] # "serving"
        /\ \A j \in Jobs : pc'[j] = pc[j] \/ pc'[j] \in {"gone", "cancelled"}
    BY <1>5 DEF Shutdown, Exit, Crash, Vanish, SingleProcess
  <2>2. "gone" \notin Live /\ "cancelled" \notin Live
    BY DEF Live, Working
  <2> QED
    BY <2>1, <2>2 DEF ServingInv, FailedInv, NoStaleJob, CompletedIsSettled, database
<1>6. CASE UNCHANGED vars
  BY <1>6 DEF vars, ServingInv, FailedInv, NoStaleJob, CompletedIsSettled
<1> QED
  BY <1>1, <1>2, <1>3, <1>4, <1>5, <1>6 DEF Next

LEMMA ServingInductive == ASSUME SingleProcess PROVE Spec => []ServingInv
<1>1. Init => ServingInv
  BY DEF Init, ServingInv, FailedInv, NoStaleJob, CompletedIsSettled, Unfinished
<1>2. IInv /\ StageInv /\ ServingInv /\ [Next]_vars => ServingInv'
  BY ServingStep
<1>3. Spec => []StageInv
  BY Staged
<1> QED
  BY <1>1, <1>2, <1>3, Inductive, PTL DEF Spec

(* recover_interrupted_jobs: while the application serves, a job shown as   *)
(* queued or running is one its workers will finish, whatever crashed, was  *)
(* stopped or failed before, but for an unguarded transaction that raised.  *)
THEOREM ServedJobsProceed == ASSUME SingleProcess PROVE Spec => []NoStaleJob
  BY ServingInductive, PTL DEF ServingInv

(* service.py _persist and start(): an investigation shown as COMPLETED     *)
(* holds the rows of its last analysis and none other of it is under way.   *)
THEOREM CompletedSettled == ASSUME SingleProcess PROVE Spec => []CompletedIsSettled
  BY ServingInductive, PTL DEF ServingInv

-----------------------------------------------------------------------------
(* The backend as a whole.                                                  *)

(* A stored investigation keeps the known captures it was created with, and *)
(* a job is about an investigation that has a row.                          *)
SelectionInv ==
    /\ selection \in [Investigations -> Selections \cup {NoSelection}]
    /\ \A i \in Investigations :
          invStatus[i] # "ABSENT" =>
              selection[i] \in Selections /\ \A c \in SelectedBy(i) : Known(c)
    /\ \A j \in Jobs : jobStatus[j] # "ABSENT" => invStatus[jobInv[j]] # "ABSENT"

(* The results a worker holds are of selected captures, and of the one      *)
(* configuration in force when its loop began.                              *)
Loaded(j) == pc[j] \in {"analyse", "saving"}

BatchOf(j) ==
    LET b == batch[j] IN
    /\ b.next \in Nat \ {0}
    /\ b.analysed \in SUBSET (Captures \X Settings)
    /\ b.duplicates \in SUBSET Captures
    /\ b.next = 1 => b.analysed = {}
    /\ b.next # 1 => b.config \in Settings
    /\ \A r \in b.analysed : r[1] \in SelectedBy(jobInv[j]) /\ r[2] = b.config

Batches == [next : Nat,
            paths : [Captures -> StorageIds \cup {NoFile}],
            config : Settings \cup {NoDocument},
            analysed : SUBSET (Captures \X Settings),
            duplicates : SUBSET Captures]

BatchInv ==
    /\ settings \in Settings
    /\ batch \in [Jobs -> Batches]
    /\ \A j \in Jobs : Loaded(j) => BatchOf(j)

(* What persist stored is about selected captures, each of which has had a  *)
(* document since, and it is all an investigation needs to be COMPLETED.    *)
StoredInv ==
    /\ stored \in [Investigations -> SUBSET (Captures \X Settings)]
    /\ \A i \in Investigations :
          /\ invStatus[i] = "ABSENT" => stored[i] = {}
          /\ invStatus[i] = "COMPLETED" => stored[i] # {}
          /\ \A r \in stored[i] : r[1] \in SelectedBy(i) /\ document[r[1]] # NoDocument

BackendIInv ==
    /\ IInv
    /\ StoreIInv
    /\ FilesAccounted
    /\ SelectionInv
    /\ BatchInv
    /\ StoredInv
    /\ OneConfiguration


-----------------------------------------------------------------------------
(* Every step of the backend is one of the service or leaves it alone.      *)
LEMMA BackendIsService == [BackendNext]_allVars => [Next]_vars
<1> SUFFICES ASSUME [BackendNext]_allVars PROVE [Next]_vars
  OBVIOUS
<1>1. CASE UploadOrDelete
  BY <1>1 DEF UploadOrDelete
<1>2. ASSUME NEW i \in Investigations, NEW list \in Selections, Create(i, list) PROVE Next
  BY <1>2 DEF Create, Next
<1>3. ASSUME NEW new \in Settings, UpdateSettings(new) PROVE UNCHANGED vars
  BY <1>3 DEF UpdateSettings
<1>4. CASE Queue
  BY <1>4 DEF Queue, Next
<1>5. ASSUME NEW j \in Jobs, AnalyseCapture(j) PROVE UNCHANGED vars
  BY <1>5 DEF AnalyseCapture
<1>6. ASSUME NEW j \in Jobs, Load(j) \/ FinishAnalysis(j) \/ Save(j) \/ Advance(j) PROVE Next
  BY <1>6 DEF Load, FinishAnalysis, Save, Advance, Next, WorkerStep
<1>7. ASSUME NEW p \in Processes, ProcessStep(p) PROVE Next
  BY <1>7 DEF ProcessStep, Next
<1>8. CASE UNCHANGED allVars
  BY <1>8 DEF allVars
<1> QED
  BY <1>1, <1>2, <1>3, <1>4, <1>5, <1>6, <1>7, <1>8 DEF BackendNext

(* What the service promises of its jobs it promises at work on the stored  *)
(* captures: joining the two components adds no behaviour to it.            *)
THEOREM BackendUsesTheService == BackendSpec => Spec
<1>1. BackendInit => Init
  BY DEF BackendInit
<1> QED
  BY <1>1, BackendIsService, PTL DEF BackendSpec, Spec

-----------------------------------------------------------------------------
(* A step of the service that begins no batch, completes no investigation   *)
(* and creates none; and one of the backend that leaves the batches alone   *)
(* and neither forgets a capture nor drops a document.                      *)
Uneventful ==
    /\ \A j \in Jobs : /\ jobStatus'[j] # "ABSENT" => invStatus[jobInv'[j]] # "ABSENT"
                       /\ jobStatus'[j] # "ABSENT" => jobInv'[j] \in Investigations
                       /\ Loaded(j)' => Loaded(j) /\ jobInv'[j] = jobInv[j]
    /\ \A i \in Investigations :
          /\ invStatus'[i] = "COMPLETED" => invStatus[i] = "COMPLETED"
          /\ invStatus'[i] = "ABSENT" <=> invStatus[i] = "ABSENT"

Bystanding ==
    /\ Uneventful
    /\ UNCHANGED backendVars
    /\ \A c \in Captures : /\ Known(c) => Known(c)'
                           /\ document'[c] \in {document[c]} \cup Settings

LEMMA SelectedAreCaptures ==
    ASSUME NEW i \in Investigations, selection[i] \in Selections
    PROVE  /\ selection[i] \in Seq(Captures)
           /\ SelectedBy(i) \subseteq Captures
  BY SelectionAssumption DEF SelectedBy

LEMMA Bystander ==
    ASSUME SelectionInv, BatchInv, StoredInv, OneConfiguration, Bystanding
    PROVE  SelectionInv' /\ BatchInv' /\ StoredInv' /\ OneConfiguration'
<1>1. /\ UNCHANGED <<settings, selection, batch, stored>>
      /\ \A i \in Investigations : SelectedBy(i)' = SelectedBy(i)
      /\ \A i \in Investigations : selection[i] \in Selections => SelectedBy(i) \subseteq Captures
  BY SelectedAreCaptures DEF Bystanding, Uneventful, backendVars, SelectedBy
<1>2. SelectionInv'
  <2>1. \A i \in Investigations :
           invStatus'[i] # "ABSENT" =>
              selection[i] \in Selections /\ \A c \in SelectedBy(i) : Known(c)'
    BY <1>1 DEF Bystanding, Uneventful, SelectionInv
  <2>2. \A j \in Jobs : jobStatus'[j] # "ABSENT" => invStatus'[jobInv'[j]] # "ABSENT"
    BY DEF Bystanding, Uneventful
  <2> QED
    BY <1>1, <2>1, <2>2 DEF SelectionInv
<1>3. BatchInv'
  <2>1. ASSUME NEW j \in Jobs, Loaded(j)' PROVE BatchOf(j)'
    <3>1. BatchOf(j) /\ jobInv'[j] = jobInv[j] /\ batch'[j] = batch[j]
      BY <1>1, <2>1 DEF Bystanding, Uneventful, BatchInv
    <3>2. SelectedBy(jobInv[j])' = SelectedBy(jobInv[j])
      BY <1>1, <3>1 DEF SelectedBy
    <3> QED
      BY <3>1, <3>2, <1>1 DEF BatchOf, SelectedBy
  <2> QED
    BY <1>1, <2>1 DEF BatchInv
<1>4. StoredInv' /\ OneConfiguration'
  <2>1. ASSUME NEW i \in Investigations, NEW r \in stored[i]
        PROVE  r[1] \in SelectedBy(i) /\ document'[r[1]] # NoDocument
    <3>1. r[1] \in Captures /\ r[1] \in SelectedBy(i) /\ document[r[1]] # NoDocument
      BY <2>1 DEF StoredInv
    <3> QED
      BY <3>1, StoreAssumption DEF Bystanding, Uneventful
  <2> QED
    BY <1>1, <2>1 DEF StoredInv, OneConfiguration, Bystanding, Uneventful
<1> QED
  BY <1>2, <1>3, <1>4

(* The steps of the service, in what they do to a batch.                    *)
LEMMA ServiceBystands ==
    ASSUME IInv, SelectionInv, UNCHANGED backendVars, UNCHANGED <<row, document>>,
           \/ Queue
           \/ \E j \in Jobs : FinishAnalysis(j) \/ Advance(j)
           \/ \E p \in Processes : Boot(p) \/ Shutdown(p) \/ Exit(p) \/ Crash(p)
    PROVE  Bystanding
<1> USE DEF IInv, TypeOK, Loaded, Uneventful
<1>0. \A c \in Captures : /\ Known(c) => Known(c)'
                          /\ document'[c] = document[c]
  BY DEF Known
<1> SUFFICES Uneventful
  BY <1>0 DEF Bystanding
<1>1. ASSUME NEW p \in Processes, NEW i \in Investigations, NEW j \in Jobs, Start(p, i, j)
      PROVE  Uneventful
  BY <1>1 DEF Start, SelectionInv, FutureInv
<1>2. ASSUME NEW j \in Jobs, FinishAnalysis(j) \/ Advance(j)
      PROVE  Uneventful
  <2>1. Claim(j) \/ WorkerStep(j)
    BY <1>2 DEF FinishAnalysis, Advance, WorkerStep
  <2>2. /\ pc[j] \in Live /\ UNCHANGED jobInv
        /\ \A k \in Jobs \ {j} : pc'[k] = pc[k] /\ jobStatus'[k] = jobStatus[k]
    BY <2>1, WorkerFrame
  <2>3. jobStatus[j] # "ABSENT" /\ jobInv[j] \in Investigations /\ invStatus[jobInv[j]] # "ABSENT"
    BY <2>2 DEF FutureInv, SelectionInv
  <2>4. Loaded(j)' => Loaded(j)
    BY <1>2 DEF FinishAnalysis, Advance, Analyse, Claim, MarkRunning, PersistFails,
                Complete, FailJob, FailInvestigation
  <2>5. \A h \in Investigations : \/ invStatus'[h] = invStatus[h]
                                  \/ h = jobInv[j] /\ invStatus'[h] = "FAILED"
    BY <1>2, <2>3 DEF FinishAnalysis, Advance, Analyse, Claim, MarkRunning, PersistFails,
                Complete, FailJob, FailInvestigation, database
  <2> QED
    BY <2>2, <2>3, <2>4, <2>5 DEF SelectionInv, FutureInv
<1>3. ASSUME NEW p \in Processes, Boot(p) \/ Shutdown(p) \/ Exit(p) \/ Crash(p)
      PROVE  Uneventful
  <2>1. /\ UNCHANGED jobInv
        /\ \A k \in Jobs : jobStatus'[k] = "ABSENT" <=> jobStatus[k] = "ABSENT"
        /\ \A k \in Jobs : pc'[k] \in {pc[k], "cancelled", "gone"}
        /\ \A h \in Investigations : \/ invStatus'[h] = invStatus[h]
                                     \/ invStatus[h] \in Unfinished /\ invStatus'[h] = "FAILED"
    BY <1>3 DEF Boot, Shutdown, Exit, Crash, Vanish, database, Interrupted, Unfinished
  <2> QED
    BY <2>1 DEF SelectionInv, FutureInv, Unfinished
<1> QED
  BY <1>1, <1>2, <1>3 DEF Queue

-----------------------------------------------------------------------------
(* The steps that prepare, feed and store a batch.                          *)
LEMMA CreateStep ==
    ASSUME BackendIInv, NEW i \in Investigations, NEW list \in Selections, Create(i, list)
    PROVE  SelectionInv' /\ BatchInv' /\ StoredInv' /\ OneConfiguration'
<1> USE DEF BackendIInv, IInv, TypeOK
<1>1. /\ invStatus[i] = "ABSENT" /\ invStatus' = [invStatus EXCEPT ![i] = "QUEUED"]
      /\ selection' = [selection EXCEPT ![i] = list]
      /\ \A k \in DOMAIN list : Known(list[k])
      /\ UNCHANGED <<jobStatus, jobInv, results, pc, storeVars, settings, batch, stored>>
  BY DEF Create, CreateInvestigation, volatile
<1>2. /\ selection'[i] = list
      /\ \A h \in Investigations \ {i} : /\ UNCHANGED <<selection[h], invStatus[h]>>
                                         /\ SelectedBy(h)' = SelectedBy(h)
  BY <1>1 DEF SelectionInv, SelectedBy
<1>3. \A c \in Captures : UNCHANGED <<Known(c), document[c]>>
  BY <1>1 DEF storeVars, Known
<1>4. \A c \in SelectedBy(i)' : c \in Captures /\ Known(c)
  BY <1>1, <1>2, SelectionAssumption DEF SelectedBy
<1>5. \A h \in Investigations : selection[h] \in Selections => SelectedBy(h) \subseteq Captures
  BY SelectedAreCaptures
<1>6. SelectionInv'
  <2>1. ASSUME NEW h \in Investigations, invStatus'[h] # "ABSENT"
        PROVE  selection'[h] \in Selections /\ \A c \in SelectedBy(h)' : Known(c)'
    BY <1>2, <1>3, <1>4, <1>5, <2>1 DEF SelectionInv
  <2>2. selection' \in [Investigations -> Selections \cup {NoSelection}]
    BY <1>1 DEF SelectionInv
  <2>3. \A j \in Jobs : jobStatus'[j] # "ABSENT" => invStatus'[jobInv'[j]] # "ABSENT"
    BY <1>1 DEF SelectionInv
  <2> QED
    BY <2>1, <2>2, <2>3 DEF SelectionInv
<1>7. BatchInv'
  <2>1. ASSUME NEW j \in Jobs, Loaded(j)' PROVE BatchOf(j)'
    <3>1. BatchOf(j) /\ jobInv'[j] = jobInv[j] /\ batch'[j] = batch[j]
      BY <1>1, <2>1 DEF Loaded, BatchInv
    <3>2. jobInv[j] \in Investigations \ {i}
      BY <1>1, <2>1 DEF Loaded, FutureInv, Live, Working, SelectionInv
    <3>3. SelectedBy(jobInv[j])' = SelectedBy(jobInv[j])
      BY <1>2, <3>1, <3>2 DEF SelectedBy
    <3> QED
      BY <3>1, <3>3 DEF BatchOf
  <2> QED
    BY <1>1, <2>1 DEF BatchInv
<1>8. StoredInv' /\ OneConfiguration'
  <2>1. stored' = stored /\ stored[i] = {} /\ invStatus'[i] = "QUEUED" /\ document' = document
    BY <1>1 DEF StoredInv, storeVars
  <2>2. ASSUME NEW h \in Investigations
        PROVE  /\ invStatus'[h] = "ABSENT" => stored'[h] = {}
               /\ invStatus'[h] = "COMPLETED" => stored'[h] # {}
               /\ \A r \in stored'[h] : r[1] \in SelectedBy(h)' /\ document'[r[1]] # NoDocument
    <3>1. CASE h = i
      BY <2>1, <3>1
    <3>2. CASE h # i
      BY <1>2, <2>1, <3>2 DEF StoredInv
    <3> QED
      BY <3>1, <3>2
  <2> QED
    BY <2>1, <2>2 DEF StoredInv, OneConfiguration
<1> QED
  BY <1>6, <1>7, <1>8

(* The transaction that reads the paths begins a batch without results.     *)
LEMMA LoadStep ==
    ASSUME BackendIInv, NEW j \in Jobs, Load(j)
    PROVE  SelectionInv' /\ BatchInv' /\ StoredInv' /\ OneConfiguration'
<1> USE DEF BackendIInv, IInv, TypeOK
<1>1. /\ pc[j] = "load" /\ \A k \in Jobs \ {j} : pc'[k] = pc[k]
      /\ invStatus' = [invStatus EXCEPT ![jobInv[j]] = "RUNNING"]
      /\ batch' = [batch EXCEPT ![j] = [NoBatch EXCEPT !.next = 1, !.paths = path]]
      /\ UNCHANGED <<jobStatus, jobInv, storeVars, settings, selection, stored>>
  BY DEF Load, LoadCaptures
<1>2. jobInv[j] \in Investigations /\ invStatus[jobInv[j]] # "ABSENT"
  BY <1>1 DEF FutureInv, Live, Working, SelectionInv
<1>3. /\ \A c \in Captures : UNCHANGED <<Known(c), document[c]>>
      /\ \A i \in Investigations : SelectedBy(i)' = SelectedBy(i)
      /\ \A i \in Investigations : selection[i] \in Selections => SelectedBy(i) \subseteq Captures
  BY <1>1, SelectedAreCaptures DEF storeVars, Known, SelectedBy
<1>4. \A i \in Investigations : /\ invStatus'[i] = "COMPLETED" => invStatus[i] = "COMPLETED"
                               /\ invStatus'[i] = "ABSENT" <=> invStatus[i] = "ABSENT"
  BY <1>1, <1>2
<1>5. SelectionInv'
  <2>1. \A k \in Jobs : jobStatus[k] # "ABSENT" => invStatus'[jobInv[k]] # "ABSENT"
    BY <1>1, <1>4 DEF SelectionInv, FutureInv
  <2> QED
    BY <1>1, <1>3, <1>4, <2>1 DEF SelectionInv
<1>6. BatchInv'
  <2>1. batch'[j] = [next |-> 1, paths |-> path, config |-> NoDocument,
                     analysed |-> {}, duplicates |-> {}]
    BY <1>1 DEF BatchInv, NoBatch
  <2>2. batch' = [batch EXCEPT ![j] = batch'[j]]
    BY <1>1 DEF BatchInv
  <2>3. path \in [Captures -> StorageIds \cup {NoFile}]
    BY DEF StoreIInv, StoreTypeOK
  <2>4. ASSUME NEW k \in Jobs, Loaded(k)' PROVE BatchOf(k)'
    <3>1. CASE k = j
      BY <2>1, <3>1 DEF BatchOf
    <3>2. CASE k # j
      <4>1. BatchOf(k) /\ batch'[k] = batch[k] /\ jobInv'[k] = jobInv[k]
        BY <1>1, <2>2, <2>4, <3>2 DEF Loaded, BatchInv
      <4>2. SelectedBy(jobInv[k])' = SelectedBy(jobInv[k])
        BY <1>1 DEF SelectedBy
      <4> QED
        BY <4>1, <4>2 DEF BatchOf
    <3> QED
      BY <3>1, <3>2
  <2>5. batch'[j] \in Batches
    BY <2>1, <2>3 DEF Batches
  <2>6. batch' \in [Jobs -> Batches]
    BY <2>2, <2>5 DEF BatchInv
  <2> QED
    BY <1>1, <2>4, <2>6 DEF BatchInv
<1>7. StoredInv' /\ OneConfiguration'
  BY <1>1, <1>3, <1>4 DEF StoredInv, OneConfiguration, storeVars
<1> QED
  BY <1>5, <1>6, <1>7

(* One turn of analyze_batch adds at most the capture whose turn it is,     *)
(* under the configuration the loop began with.                             *)
LEMMA AnalyseStep ==
    ASSUME BackendIInv, NEW j \in Jobs, AnalyseCapture(j)
    PROVE  SelectionInv' /\ BatchInv' /\ StoredInv' /\ OneConfiguration'
<1> USE DEF BackendIInv, IInv, TypeOK
<1> DEFINE b == batch[j]
           c == ListOf(j)[b.next]
           config == ConfigOf(j)
           readable == b.paths[c] # NoFile /\ file[b.paths[c]] = c
           seen == c \in CapturesOf(b.analysed)
           new == batch'[j]
<1>1. /\ pc[j] = "analyse" /\ b.next \in DOMAIN ListOf(j)
      /\ UNCHANGED <<vars, storeVars, settings, selection, stored>>
      /\ batch' = [batch EXCEPT ![j] =
            [b EXCEPT !.next = @ + 1,
                      !.config = config,
                      !.duplicates = IF readable /\ seen THEN @ \cup {c} ELSE @,
                      !.analysed = IF readable /\ ~ seen THEN @ \cup {<<c, config>>} ELSE @]]
  BY DEF AnalyseCapture
<1>2. BatchOf(j) /\ b \in Batches
  BY <1>1 DEF BatchInv, Loaded
<1>3. /\ jobInv[j] \in Investigations /\ ListOf(j) \in Selections
      /\ c \in Captures /\ c \in SelectedBy(jobInv[j])
  <2>1. jobInv[j] \in Investigations /\ invStatus[jobInv[j]] # "ABSENT"
    BY <1>1 DEF FutureInv, Live, Working, SelectionInv
  <2>2. ListOf(j) \in Selections /\ c \in SelectedBy(jobInv[j])
    BY <1>1, <2>1 DEF ListOf, SelectionInv, SelectedBy
  <2> QED
    BY <2>1, <2>2, SelectedAreCaptures DEF ListOf
<1>4. config \in Settings /\ (b.next # 1 => config = b.config)
  BY <1>2 DEF ConfigOf, BatchOf, BatchInv
<1>5. /\ new.next = b.next + 1 /\ new.paths = b.paths /\ new.config = config
      /\ new.duplicates \in {b.duplicates, b.duplicates \cup {c}}
      /\ new.analysed \in {b.analysed, b.analysed \cup {<<c, config>>}}
      /\ new = [next |-> new.next, paths |-> new.paths, config |-> new.config,
                analysed |-> new.analysed, duplicates |-> new.duplicates]
  <2>1. new = [b EXCEPT !.next = @ + 1,
                        !.config = config,
                        !.duplicates = IF readable /\ seen THEN @ \cup {c} ELSE @,
                        !.analysed = IF readable /\ ~ seen THEN @ \cup {<<c, config>>} ELSE @]
    BY <1>1 DEF BatchInv
  <2> HIDE DEF c, config, readable, seen, new, b
  <2>2. new = [next |-> b.next + 1, paths |-> b.paths, config |-> config,
               analysed |-> IF readable /\ ~ seen
                              THEN b.analysed \cup {<<c, config>>} ELSE b.analysed,
               duplicates |-> IF readable /\ seen
                                THEN b.duplicates \cup {c} ELSE b.duplicates]
    BY <1>2, <2>1 DEF Batches
  <2> QED
    BY <2>2
<1>6. \A i \in Investigations : SelectedBy(i)' = SelectedBy(i)
  BY <1>1 DEF SelectedBy
<1> HIDE DEF c, config, readable, seen, new, b
<1>7. SelectionInv' /\ StoredInv' /\ OneConfiguration'
  <2>1. \A d \in Captures : UNCHANGED <<Known(d), document[d]>>
    BY <1>1 DEF storeVars, Known
  <2>2. \A i \in Investigations : selection[i] \in Selections => SelectedBy(i) \subseteq Captures
    BY SelectedAreCaptures
  <2> QED
    BY <1>1, <1>6, <2>1, <2>2 DEF SelectionInv, StoredInv, OneConfiguration, vars, storeVars
<1>8. BatchOf(j)'
  <2>1. /\ b.next \in Nat \ {0} /\ b.analysed \in SUBSET (Captures \X Settings)
        /\ b.duplicates \in SUBSET Captures
        /\ b.next = 1 => b.analysed = {}
        /\ \A r \in b.analysed : r[1] \in SelectedBy(jobInv[j]) /\ r[2] = b.config
    BY <1>2 DEF BatchOf, b
  <2>2. \A r \in new.analysed : r[1] \in SelectedBy(jobInv[j]) /\ r[2] = config
    <3>1. \A r \in b.analysed : r[2] = config
      BY <1>4, <2>1
    <3> QED
      BY <1>3, <1>5, <2>1, <3>1
  <2>3. /\ new.analysed \in SUBSET (Captures \X Settings)
        /\ new.duplicates \in SUBSET Captures
    BY <1>3, <1>4, <1>5, <2>1
  <2>4. SelectedBy(jobInv[j])' = SelectedBy(jobInv[j])
    BY <1>1 DEF SelectedBy, vars
  <2>5. new.next \in Nat \ {0} /\ new.next # 1
    BY <1>5, <2>1
  <2> QED
    BY <1>4, <1>5, <2>2, <2>3, <2>4, <2>5 DEF BatchOf, new
<1>9. BatchInv'
  <2>1. new \in Batches
    BY <1>5, <1>8, <1>2, <1>4 DEF Batches, BatchOf, BatchInv, new
  <2>2. batch' = [batch EXCEPT ![j] = new]
    BY <1>1 DEF new, BatchInv
  <2>3. ASSUME NEW k \in Jobs, k # j, Loaded(k)' PROVE BatchOf(k)'
    <3>1. BatchOf(k) /\ batch'[k] = batch[k] /\ jobInv'[k] = jobInv[k]
      BY <1>1, <2>2, <2>3 DEF Loaded, BatchInv, vars
    <3>2. SelectedBy(jobInv[k])' = SelectedBy(jobInv[k])
      BY <1>1 DEF SelectedBy, vars
    <3> QED
      BY <3>1, <3>2 DEF BatchOf
  <2> QED
    BY <1>1, <1>8, <2>1, <2>2, <2>3 DEF BatchInv
<1> QED
  BY <1>7, <1>9

(* persist makes an investigation COMPLETED in the transaction that stores  *)
(* its results and gives each of their captures a document.                 *)
LEMMA SaveStep ==
    ASSUME BackendIInv, NEW j \in Jobs, Save(j)
    PROVE  /\ StoreIInv' /\ FilesAccounted'
           /\ SelectionInv' /\ BatchInv' /\ StoredInv' /\ OneConfiguration'
<1> USE DEF BackendIInv, IInv, TypeOK
<1> DEFINE i == jobInv[j]
           analysed == batch[j].analysed
<1>1. /\ pc[j] = "saving" /\ analysed # {}
      /\ SaveCaptures(analysed, batch[j].duplicates)
      /\ stored' = [stored EXCEPT ![i] = analysed]
      /\ invStatus' = [invStatus EXCEPT ![i] = "COMPLETED"]
      /\ \A k \in Jobs \ {j} : pc'[k] = pc[k]
      /\ pc'[j] = "complete"
      /\ UNCHANGED <<jobStatus, jobInv, settings, selection, batch>>
  BY DEF Save, Persist
<1>2. BatchOf(j)
  BY <1>1 DEF BatchInv, Loaded
<1>3. /\ i \in Investigations /\ invStatus[i] # "ABSENT"
      /\ \A c \in SelectedBy(i) : c \in Captures /\ Known(c)
  <2>1. i \in Investigations /\ invStatus[i] # "ABSENT"
    BY <1>1 DEF FutureInv, Live, Working, SelectionInv
  <2> QED
    BY <2>1, SelectedAreCaptures DEF SelectionInv
<1>4. /\ analysed \in SUBSET (Captures \X Settings)
      /\ batch[j].duplicates \in SUBSET Captures
      /\ \A r \in analysed : r[1] \in SelectedBy(i) /\ Known(r[1]) /\ r[2] = batch[j].config
  BY <1>2, <1>3 DEF BatchOf
<1>5. /\ StoreIInv'
      /\ UNCHANGED <<path, sid, file, incoming, removing, stray>>
      /\ \A r \in analysed : document'[r[1]] \in Settings
      /\ \A c \in Captures : Known(c)' <=> Known(c)
      /\ \A c \in Captures : document'[c] \in {document[c]} \cup Settings
  <2> HIDE DEF analysed, BackendIInv, IInv, TypeOK
  <2>1. StoreIInv
    BY DEF BackendIInv
  <2> QED
    BY <1>1, <1>4, <2>1, SavePreserves
<1> HIDE DEF analysed, i
<1>6. FilesAccounted'
  BY <1>5 DEF FilesAccounted
<1>7. \A h \in Investigations :
         /\ SelectedBy(h)' = SelectedBy(h)
         /\ selection[h] \in Selections => SelectedBy(h) \subseteq Captures
         /\ invStatus'[h] = IF h = i THEN "COMPLETED" ELSE invStatus[h]
         /\ stored'[h] = IF h = i THEN analysed ELSE stored[h]
  BY <1>1, SelectedAreCaptures DEF SelectedBy, StoredInv
<1>8. SelectionInv'
  <2>1. \A h \in Investigations : invStatus'[h] # "ABSENT" =>
           selection[h] \in Selections /\ \A c \in SelectedBy(h) : Known(c)'
    BY <1>3, <1>5, <1>7 DEF SelectionInv
  <2>2. \A k \in Jobs : jobStatus[k] # "ABSENT" => invStatus'[jobInv[k]] # "ABSENT"
    BY <1>3, <1>7 DEF SelectionInv, FutureInv
  <2> QED
    BY <1>1, <1>7, <2>1, <2>2 DEF SelectionInv
<1>9. BatchInv'
  <2>1. ASSUME NEW k \in Jobs, Loaded(k)' PROVE BatchOf(k)'
    <3>1. BatchOf(k) /\ batch'[k] = batch[k] /\ jobInv'[k] = jobInv[k]
      BY <1>1, <2>1 DEF Loaded, BatchInv
    <3>2. SelectedBy(jobInv[k])' = SelectedBy(jobInv[k])
      BY <1>1 DEF SelectedBy
    <3> QED
      BY <3>1, <3>2 DEF BatchOf
  <2> QED
    BY <1>1, <2>1 DEF BatchInv
<1>10. StoredInv'
  <2>1. stored' \in [Investigations -> SUBSET (Captures \X Settings)]
    BY <1>1, <1>4 DEF StoredInv
  <2>2. ASSUME NEW h \in Investigations
        PROVE  /\ invStatus'[h] = "ABSENT" => stored'[h] = {}
               /\ invStatus'[h] = "COMPLETED" => stored'[h] # {}
               /\ \A r \in stored'[h] : r[1] \in SelectedBy(h)' /\ document'[r[1]] # NoDocument
    <3>1. CASE h = i
      BY <1>1, <1>4, <1>5, <1>7, <3>1, StoreAssumption
    <3>2. CASE h # i
      <4>1. \A r \in stored[h] : r[1] \in Captures /\ document[r[1]] # NoDocument
        BY DEF StoredInv
      <4> QED
        BY <1>5, <1>7, <3>2, <4>1, StoreAssumption DEF StoredInv
    <3> QED
      BY <3>1, <3>2
  <2> QED
    BY <2>1, <2>2 DEF StoredInv
<1>11. OneConfiguration'
  BY <1>4, <1>7 DEF OneConfiguration
<1> QED
  BY <1>5, <1>6, <1>8, <1>9, <1>10, <1>11

LEMMA BackendStep ==
    BackendIInv /\ IInv' /\ [BackendNext]_allVars => BackendIInv'
<1> SUFFICES ASSUME BackendIInv, IInv', [BackendNext]_allVars PROVE BackendIInv'
  OBVIOUS
<1>1. ASSUME StoreNext \/ UNCHANGED storeVars PROVE StoreIInv' /\ FilesAccounted'
  BY <1>1, StoreStep, AccountedStep DEF BackendIInv
<1>2. ASSUME Bystanding PROVE SelectionInv' /\ BatchInv' /\ StoredInv' /\ OneConfiguration'
  BY <1>2, Bystander DEF BackendIInv
<1>3. CASE UploadOrDelete
  <2>1. StoreNext /\ UNCHANGED <<vars, backendVars>>
    BY <1>3 DEF UploadOrDelete, StoreNext
  <2>2. /\ \A c \in Captures : Known(c) => Known(c)'
        /\ UNCHANGED document
    BY <1>3 DEF UploadOrDelete, Receive, Register, DeleteRow, Unlink, Known,
                BackendIInv, StoreIInv, StoreTypeOK
  <2>3. Bystanding
    BY <2>1, <2>2 DEF Bystanding, Uneventful, vars, Loaded, BackendIInv, SelectionInv,
                      IInv, FutureInv
  <2> QED
    BY <1>1, <1>2, <2>1, <2>3 DEF BackendIInv
<1>4. ASSUME NEW i \in Investigations, NEW list \in Selections, Create(i, list)
      PROVE  BackendIInv'
  <2>1. UNCHANGED storeVars
    BY <1>4 DEF Create
  <2> QED
    BY <1>1, <1>4, <2>1, CreateStep DEF BackendIInv
<1>5. ASSUME NEW new \in Settings, UpdateSettings(new) PROVE BackendIInv'
  <2>1. settings' \in Settings /\ UNCHANGED <<vars, storeVars, selection, batch, stored>>
    BY <1>5 DEF UpdateSettings
  <2>2. /\ \A c \in Captures : UNCHANGED <<Known(c), document[c]>>
        /\ \A i \in Investigations : SelectedBy(i)' = SelectedBy(i)
        /\ \A j \in Jobs : /\ Loaded(j)' <=> Loaded(j)
                           /\ SelectedBy(jobInv[j])' = SelectedBy(jobInv[j])
    BY <2>1 DEF storeVars, vars, Known, SelectedBy, Loaded
  <2>3. \A i \in Investigations : selection[i] \in Selections => SelectedBy(i) \subseteq Captures
    BY SelectedAreCaptures
  <2>4. SelectionInv' /\ StoredInv' /\ OneConfiguration'
    BY <2>1, <2>2, <2>3 DEF BackendIInv, SelectionInv, StoredInv, OneConfiguration, vars, storeVars
  <2>5. BatchInv'
    BY <2>1, <2>2 DEF BackendIInv, BatchInv, BatchOf, vars
  <2> QED
    BY <1>1, <2>1, <2>4, <2>5 DEF BackendIInv
<1>6. CASE Queue \/ \E j \in Jobs : FinishAnalysis(j) \/ Advance(j)
  <2>1. UNCHANGED storeVars /\ UNCHANGED backendVars
    BY <1>6 DEF Queue, FinishAnalysis, Advance
  <2>2. Bystanding
    BY <1>6, <2>1, ServiceBystands DEF BackendIInv, storeVars
  <2> QED
    BY <1>1, <1>2, <2>1, <2>2 DEF BackendIInv
<1>7. ASSUME NEW j \in Jobs, Load(j) PROVE BackendIInv'
  <2>1. UNCHANGED storeVars
    BY <1>7 DEF Load
  <2> QED
    BY <1>1, <1>7, <2>1, LoadStep DEF BackendIInv
<1>8. ASSUME NEW j \in Jobs, AnalyseCapture(j) PROVE BackendIInv'
  <2>1. UNCHANGED storeVars
    BY <1>8 DEF AnalyseCapture
  <2> QED
    BY <1>1, <1>8, <2>1, AnalyseStep DEF BackendIInv
<1>9. ASSUME NEW j \in Jobs, Save(j) PROVE BackendIInv'
  BY <1>9, SaveStep DEF BackendIInv
<1>10. ASSUME NEW p \in Processes, ProcessStep(p) PROVE BackendIInv'
  <2>1. /\ Boot(p) \/ Shutdown(p) \/ Exit(p) \/ Crash(p)
        /\ UNCHANGED backendVars
        /\ StoreCrash \/ UNCHANGED storeVars
    BY <1>10 DEF ProcessStep
  <2>2. /\ StoreNext \/ UNCHANGED storeVars
        /\ UNCHANGED <<row, document>>
    BY <2>1 DEF StoreNext, StoreCrash, storeVars
  <2>3. Bystanding
    BY <2>1, <2>2, ServiceBystands DEF BackendIInv
  <2> QED
    BY <1>1, <1>2, <2>2, <2>3 DEF BackendIInv
<1>11. CASE UNCHANGED allVars
  <2>1. UNCHANGED <<vars, storeVars, backendVars>>
    BY <1>11 DEF allVars
  <2>2. Bystanding
    BY <2>1 DEF Bystanding, Uneventful, vars, storeVars, Known, Loaded, BackendIInv,
                SelectionInv, IInv, FutureInv
  <2> QED
    BY <1>1, <1>2, <2>1, <2>2 DEF BackendIInv
<1> QED
  BY <1>3, <1>4, <1>5, <1>6, <1>7, <1>8, <1>9, <1>10, <1>11 DEF BackendNext

LEMMA BackendInductive == BackendSpec => []BackendIInv
<1>1. BackendInit /\ IInv => BackendIInv
  <2> SUFFICES ASSUME BackendInit, IInv PROVE BackendIInv
    OBVIOUS
  <2>1. StoreIInv /\ FilesAccounted
    BY StoreAssumption DEF BackendInit, StoreInit, StoreIInv, StoreTypeOK, RowInv,
                           RowStatuses, Known, FilesAccounted
  <2>2. SelectionInv
    BY DEF BackendInit, Init, SelectionInv
  <2>3. BatchInv
    BY DEF BackendInit, Init, BatchInv, Batches, NoBatch, Loaded
  <2>4. StoredInv /\ OneConfiguration
    BY DEF BackendInit, Init, StoredInv, OneConfiguration
  <2> QED
    BY <2>1, <2>2, <2>3, <2>4 DEF BackendIInv
<1>2. BackendSpec => []IInv
  BY BackendUsesTheService, Inductive, PTL
<1> QED
  BY <1>1, <1>2, BackendStep, PTL DEF BackendSpec

-----------------------------------------------------------------------------
(* Every variable of the backend has its type.                              *)
THEOREM BackendTyped == BackendSpec => []BackendTypeOK
<1>1. BackendIInv => BackendTypeOK
  BY DEF BackendIInv, IInv, StoreIInv, SelectionInv, BatchInv, Batches, StoredInv,
         BackendTypeOK
<1> QED
  BY <1>1, BackendInductive, PTL

(* storage.py and app.py, with analyses at work on the stored captures: a   *)
(* row never names a file that is missing or holds other bytes, and a file  *)
(* without a row or a request is one that a crash or an error cut short,    *)
(* which no row names afterwards.                                           *)
THEOREM CapturesAreSound == BackendSpec => [](RowNamesItsBytes /\ FilesAccounted)
<1>1. BackendIInv => RowNamesItsBytes /\ FilesAccounted
  BY DEF BackendIInv, StoreIInv, RowInv, RowNamesItsBytes
<1> QED
  BY <1>1, BackendInductive, PTL

(* analyze_batch: the rows of an investigation come from one configuration, *)
(* however often the settings change while its captures are analysed.       *)
THEOREM ResultsOfOneConfiguration == BackendSpec => []OneConfiguration
<1>1. BackendIInv => OneConfiguration
  BY DEF BackendIInv
<1> QED
  BY <1>1, BackendInductive, PTL

(* _results_for and _export of app.py find a document for every capture     *)
(* whose rows a COMPLETED investigation shows, and at least one, with any   *)
(* number of processes, deletions, failures and restarts.                   *)
THEOREM CompletedExports == BackendSpec => []CompletedIsExportable
<1>1. BackendIInv => CompletedIsExportable
  <2> SUFFICES ASSUME BackendIInv, NEW i \in Investigations, invStatus[i] = "COMPLETED"
               PROVE  Report(i) # {} /\ CapturesOf(stored[i]) \subseteq CapturesOf(Report(i))
    BY DEF CompletedIsExportable
  <2>1. ASSUME NEW r \in stored[i]
        PROVE  <<r[1], document[r[1]]>> \in Report(i)
    BY <2>1 DEF BackendIInv, StoredInv, Report
  <2>2. stored[i] # {}
    BY DEF BackendIInv, StoredInv
  <2>3. CapturesOf(stored[i]) \subseteq CapturesOf(Report(i))
    <3> SUFFICES ASSUME NEW r \in stored[i] PROVE r[1] \in CapturesOf(Report(i))
      BY DEF CapturesOf
    <3>1. <<r[1], document[r[1]]>>[1] = r[1]
      OBVIOUS
    <3> QED
      BY <2>1, <3>1 DEF CapturesOf
  <2> QED
    BY <2>1, <2>2, <2>3
<1> QED
  BY <1>1, BackendInductive, PTL

(* With one process over the data directory, the investigations of the      *)
(* whole backend go through the lifecycle that its reader is promised.      *)
THEOREM BackendImplementsLifecycle ==
    ASSUME SingleProcess PROVE BackendSpec => ImplementsLifecycle
  BY BackendUsesTheService, Refinement, PTL
=============================================================================
