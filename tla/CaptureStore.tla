---------------------------- MODULE CaptureStore ----------------------------
(***************************************************************************)
(* Stored captures: the files of CaptureStorage (backend/storage.py) and   *)
(* the rows that name them, as the upload and delete handlers of           *)
(* backend/app.py and the persist step of backend/service.py change them.  *)
(*                                                                         *)
(* A capture is its content (its id is the SHA-256 of the bytes); a        *)
(* storage id names one file.  File system and database are changed one    *)
(* after the other: the process may die in between, and either of the two  *)
(* steps may raise after the other was made.                               *)
(***************************************************************************)
EXTENDS FiniteSets

CONSTANTS
    Captures,      \* contents a user may upload
    StorageIds,    \* server-generated names of files
    Settings,      \* configurations an analysis may run with
    NoCapture,     \* content of a storage id without a file
    NoFile,        \* a row's stored_path when it is empty
    NoDocument,    \* a row's result_json when it is empty
    EmptyCaptures  \* the contents that hold no TCP session

ASSUME StoreAssumption ==
    /\ NoCapture \notin Captures
    /\ NoFile \notin StorageIds
    /\ NoDocument \notin Settings
    /\ EmptyCaptures \subseteq Captures

VARIABLES
    row,       \* CaptureRow.status, "ABSENT" before the row exists
    path,      \* CaptureRow.stored_path, as the storage id it names
    sid,       \* CaptureRow.storage_id, which a deletion keeps
    document,  \* CaptureRow.result_json, as the settings it was computed with
    file,      \* the content of each file on disk
    incoming,  \* uploads stored on disk whose row is not committed yet
    removing,  \* deletions whose row is committed and whose file is not unlinked
    stray      \* observed: files on disk of the requests a crash or an error cut short

storeVars == <<row, path, sid, document, file, incoming, removing, stray>>

RowStatuses == {"ABSENT", "UPLOADED", "ANALYZED", "EMPTY", "DUPLICATE", "DELETED"}

StoreTypeOK ==
    /\ row \in [Captures -> RowStatuses]
    /\ path \in [Captures -> StorageIds \cup {NoFile}]
    /\ sid \in [Captures -> StorageIds \cup {NoFile}]
    /\ document \in [Captures -> Settings \cup {NoDocument}]
    /\ file \in [StorageIds -> Captures \cup {NoCapture}]
    /\ incoming \subseteq StorageIds
    /\ removing \subseteq Captures
    /\ stray \subseteq StorageIds

StoreInit ==
    /\ row = [c \in Captures |-> "ABSENT"]
    /\ path = [c \in Captures |-> NoFile]
    /\ sid = [c \in Captures |-> NoFile]
    /\ document = [c \in Captures |-> NoDocument]
    /\ file = [s \in StorageIds |-> NoCapture]
    /\ incoming = {}
    /\ removing = {}
    /\ stray = {}

Known(c) == row[c] # "ABSENT"

(* A storage id is a fresh random token: no row has ever used it.           *)
Unused(s) == file[s] = NoCapture /\ \A c \in Captures : sid[c] # s

(* CaptureStorage.store, called by upload_capture.  The handler is a        *)
(* coroutine without an await: one upload at a time is between its two      *)
(* steps.  A rejected upload leaves nothing and is not a step.              *)
Receive(c, s) ==
    /\ incoming = {}
    /\ Unused(s)
    /\ file' = [file EXCEPT ![s] = c]
    /\ incoming' = {s}
    /\ UNCHANGED <<row, path, sid, document, removing, stray>>

(* The rest of upload_capture: a known content keeps its row, whatever its  *)
(* status, and the new file is discarded.  The transaction, or the unlink   *)
(* in it, may raise: no handler removes the file that store has written.    *)
Register(s) ==
    LET c == file[s] IN
    /\ s \in incoming
    /\ incoming' = incoming \ {s}
    /\ \/ /\ Known(c)
          /\ file' = [file EXCEPT ![s] = NoCapture]
          /\ UNCHANGED <<row, path, sid, stray>>
       \/ /\ ~ Known(c)
          /\ row' = [row EXCEPT ![c] = "UPLOADED"]
          /\ path' = [path EXCEPT ![c] = s]
          /\ sid' = [sid EXCEPT ![c] = s]
          /\ UNCHANGED <<file, stray>>
       \/ /\ stray' = stray \cup {s}
          /\ UNCHANGED <<row, path, sid, file>>
    /\ UNCHANGED <<document, removing>>

(* Defects: the row goes on naming the file; the stored document is dropped;*)
(* the file is left on disk.                                                *)
DeleteRowKeepsPath(c) ==
    /\ Known(c)
    /\ row' = [row EXCEPT ![c] = "DELETED"]
    /\ removing' = removing \cup {c}
    /\ UNCHANGED <<path, sid, document, file, incoming, stray>>
DeleteRowAndDocument(c) ==
    /\ Known(c)
    /\ row' = [row EXCEPT ![c] = "DELETED"]
    /\ path' = [path EXCEPT ![c] = NoFile]
    /\ document' = [document EXCEPT ![c] = NoDocument]
    /\ removing' = removing \cup {c}
    /\ UNCHANGED <<sid, file, incoming, stray>>
UnlinkNothing(c) ==
    /\ c \in removing
    /\ removing' = removing \ {c}
    /\ UNCHANGED <<row, path, sid, document, file, incoming, stray>>

(* delete_capture commits the row first and unlinks the file afterwards.    *)
DeleteRow(c) ==
    /\ Known(c)
    /\ row' = [row EXCEPT ![c] = "DELETED"]
    /\ path' = [path EXCEPT ![c] = NoFile]
    /\ removing' = removing \cup {c}
    /\ UNCHANGED <<sid, document, file, incoming, stray>>

(* A file that is gone already is no error; an unlink that raises leaves it.*)
Unlink(c) ==
    /\ c \in removing
    /\ removing' = removing \ {c}
    /\ \/ /\ file' = [file EXCEPT ![sid[c]] = NoCapture]
          /\ stray' = stray \ {sid[c]}
       \/ /\ file[sid[c]] # NoCapture
          /\ stray' = stray \cup {sid[c]}
          /\ UNCHANGED file
    /\ UNCHANGED <<row, path, sid, document, incoming>>

(* The status a capture that was analysed successfully is left with: the    *)
(* records of the batch are applied after its results, and a content that   *)
(* was listed twice has a DUPLICATE record.  A capture that could not be    *)
(* analysed is recorded under another id and no row is changed for it.      *)
Outcome(c, duplicates) ==
    IF c \in duplicates THEN "DUPLICATE"
    ELSE IF c \in EmptyCaptures THEN "EMPTY" ELSE "ANALYZED"

(* The part of AnalysisService._persist that writes capture rows.           *)
SaveCaptures(analysed, duplicates) ==
    /\ row' = [c \in Captures |->
                  IF \E r \in analysed : r[1] = c THEN Outcome(c, duplicates) ELSE row[c]]
    /\ document' = [c \in Captures |->
                       IF \E r \in analysed : r[1] = c
                         THEN (CHOOSE r \in analysed : r[1] = c)[2] ELSE document[c]]
    /\ UNCHANGED <<path, sid, file, incoming, removing, stray>>

(* The process dies: its requests are forgotten, the disk stays.            *)
StoreCrash ==
    /\ stray' = stray \cup {s \in incoming \cup {sid[c] : c \in removing} :
                              file[s] # NoCapture}
    /\ incoming' = {}
    /\ removing' = {}
    /\ UNCHANGED <<row, path, sid, document, file>>

(* Taken alone, the store is used by requests in any order and by analyses  *)
(* that save one capture at any time.                                       *)
StoreNext ==
    \/ \E c \in Captures, s \in StorageIds : Receive(c, s)
    \/ \E s \in StorageIds : Register(s)
    \/ \E c \in Captures : DeleteRow(c) \/ Unlink(c)
    \/ \E c \in Captures, used \in Settings, twice \in BOOLEAN :
          /\ Known(c)
          /\ SaveCaptures({<<c, used>>}, IF twice THEN {c} ELSE {})
    \/ StoreCrash

StoreSpec == StoreInit /\ [][StoreNext]_storeVars

-----------------------------------------------------------------------------
(* A row that names a file names one that is there and holds the bytes the  *)
(* row is about: an upload writes the file before the row, a deletion       *)
(* clears the row before it unlinks the file, and a crash keeps the order.  *)
RowNamesItsBytes ==
    \A c \in Captures : path[c] # NoFile => file[path[c]] = c

(* storage.py and app.py keep no list of files: one that is on disk is the  *)
(* one a row names, is held by a request in progress, or was left by a      *)
(* request that a crash or an error cut short.  No order of uploads,        *)
(* uploads of the same content, deletions and analyses leaves any other,    *)
(* and what was left is never taken for the evidence of a row afterwards.   *)
FilesAccounted ==
    /\ \A s \in StorageIds :
          file[s] # NoCapture =>
              \/ s \in incoming
              \/ path[file[s]] = s
              \/ file[s] \in removing /\ sid[file[s]] = s
              \/ s \in stray
    /\ \A s \in stray : /\ file[s] # NoCapture /\ s \notin incoming
                        /\ \A c \in Captures : path[c] # s
=============================================================================
