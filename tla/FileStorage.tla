---------------------------- MODULE FileStorage ----------------------------
(***************************************************************************)
(* The records of all keys in one file (core/storage/file.rs).  A process  *)
(* reads the file once and answers reads from its cache.  A write changes  *)
(* the cache, writes all records to a temporary file, synchronises it and  *)
(* renames it over the old one; when one of these steps fails the cache is *)
(* rolled back.  The process may end between any two of them.              *)
(*                                                                         *)
(* A file is its contents and whether they have reached the device.  What  *)
(* is written but not synchronised may be torn by a loss of power.         *)
(***************************************************************************)
EXTENDS Naturals, FiniteSets

CONSTANTS
  Keys,
  Values,   \* what a record may hold
  Bad,      \* a record that no codec accepts
  None,     \* no record
  MaxUnflushed   \* renames before the file system has to flush the directory

Records == Values \cup {Bad, None}
Image == [Keys -> Records]
Torn == [k \in Keys |-> "torn"]
File == [image : Image \cup {Torn}, synced : BOOLEAN]
NoFile == [image |-> Torn, synced |-> FALSE]

ASSUME UnflushedAssumption == MaxUnflushed \in Nat \ {0}
ASSUME ValuesAssumption ==
  Values # {} /\ Bad \notin Values /\ None \notin Values /\ Bad # None

VARIABLES
  disk,     \* the file at the path
  older,    \* images it replaced since the directory was flushed
  tmp,      \* the file at the temporary path
  opened,   \* whether a process has the storage open
  cache,    \* its cache
  io        \* the request being served: where it is, and what it replaced

storageVars == <<disk, older, tmp, opened, cache, io>>

IoIdle == [step |-> "idle"]
Steps == {"create", "write", "sync", "rename", "accepted", "refused"}
Io == {IoIdle} \cup [step : Steps, key : Keys, record : Records, previous : Records]

StorageInit ==
  /\ disk \in [image : [Keys -> {Bad, None} \cup Values], synced : {TRUE}]
  /\ older = {}
  /\ tmp = NoFile
  /\ opened = FALSE
  /\ cache = disk.image
  /\ io = IoIdle

(* FileStorage::open; a missing file is one without records. *)
Open ==
  /\ ~opened
  /\ disk.image # Torn
  /\ opened' = TRUE
  /\ cache' = disk.image
  /\ UNCHANGED <<disk, older, tmp, io>>

(* write, when the cache has the record already; remove of an absent key. *)
SameRecord(k, r) ==
  /\ io = IoIdle
  /\ cache[k] = r
  /\ io' = [step |-> "accepted", key |-> k, record |-> r, previous |-> r]
  /\ UNCHANGED <<disk, older, tmp, opened, cache>>

(* write and remove change the cache before the file. *)
ChangeCache(k, r) ==
  /\ io = IoIdle
  /\ cache[k] # r
  /\ cache' = [cache EXCEPT ![k] = r]
  /\ io' = [step |-> "create", key |-> k, record |-> r, previous |-> cache[k]]
  /\ UNCHANGED <<disk, older, tmp, opened>>

WriteRecord(k, r) == SameRecord(k, r) \/ ChangeCache(k, r)
RemoveRecord(k) == WriteRecord(k, None)

(* fs::File::create: it truncates what an earlier attempt left. *)
CreateTmp ==
  /\ io.step = "create"
  /\ tmp' = NoFile
  /\ io' = [io EXCEPT !.step = "write"]
  /\ UNCHANGED <<disk, older, opened, cache>>

WriteAll ==
  /\ io.step = "write"
  /\ tmp' = [image |-> cache, synced |-> FALSE]
  /\ io' = [io EXCEPT !.step = "sync"]
  /\ UNCHANGED <<disk, older, opened, cache>>

SyncAll ==
  /\ io.step = "sync"
  /\ tmp' = [tmp EXCEPT !.synced = TRUE]
  /\ io' = [io EXCEPT !.step = "rename"]
  /\ UNCHANGED <<disk, older, opened, cache>>

Rename ==
  /\ io.step = "rename"
  /\ Cardinality(older) < MaxUnflushed
  /\ disk' = tmp
  /\ older' = older \cup {disk.image}
  /\ tmp' = NoFile
  /\ io' = [io EXCEPT !.step = "accepted"]
  /\ UNCHANGED <<opened, cache>>

\* Mutant: the cache keeps what the file did not get.
FailUnrolled ==
  /\ io.step \in {"create", "write", "sync", "rename"}
  /\ io' = [io EXCEPT !.step = "refused"]
  /\ tmp' = NoFile
  /\ UNCHANGED <<disk, older, opened, cache>>

(* One of the steps fails: the caller rolls back its cache.  What is left  *)
(* at the temporary path is truncated by the next attempt; it is dropped   *)
(* here and when the process ends.                                         *)
Fail ==
  /\ io.step \in {"create", "write", "sync", "rename"}
  /\ cache' = [cache EXCEPT ![io.key] = io.previous]
  /\ io' = [io EXCEPT !.step = "refused"]
  /\ tmp' = NoFile
  /\ UNCHANGED <<disk, older, opened>>

(* The caller has its answer. *)
Answered ==
  /\ io.step \in {"accepted", "refused"}
  /\ io' = IoIdle
  /\ UNCHANGED <<disk, older, tmp, opened, cache>>

Advance == CreateTmp \/ WriteAll \/ SyncAll \/ Rename

(* The end of the process. *)
Close ==
  /\ opened
  /\ opened' = FALSE
  /\ io' = IoIdle
  /\ cache' = disk.image
  /\ tmp' = NoFile
  /\ UNCHANGED <<disk, older>>

PowerLoss ==
  /\ opened' = FALSE
  /\ io' = IoIdle
  /\ disk' \in [image : older \cup IF disk.synced THEN {disk.image} ELSE {disk.image, Torn},
                synced : {TRUE}]
  /\ cache' = disk'.image
  /\ older' = {}
  /\ tmp' = NoFile

(* The file system writes the directory when it likes. *)
FlushDirectory ==
  /\ older # {}
  /\ older' = {}
  /\ UNCHANGED <<disk, tmp, opened, cache, io>>

-----------------------------------------------------------------------------

StorageTypeOK ==
  /\ disk \in File
  /\ older \subseteq Image
  /\ tmp \in File
  /\ opened \in BOOLEAN
  /\ cache \in Image \cup {Torn}
  /\ io \in Io

(* The request as the caller of the store sees it. *)
AskedRequest ==
  IF io = IoIdle THEN [state |-> "idle"]
  ELSE [key |-> io.key, record |-> io.record,
        state |-> IF io.step \in {"accepted", "refused"} THEN io.step ELSE "asked"]

Store == INSTANCE RecordStore WITH
  stored <- disk.image, recent <- older, request <- AskedRequest
=============================================================================
