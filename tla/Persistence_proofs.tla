------------------------ MODULE Persistence_proofs ------------------------
(***************************************************************************)
(* The safety of persistence for any number of keys, values, faults and    *)
(* unflushed renames, and that the file is the store its contract names.   *)
(***************************************************************************)
EXTENDS Persistence, TLAPS

Busy == io.step \in {"create", "write", "sync", "rename"}

\* The cache is the file, with the record that is being written in place of what it
\* replaces; the temporary file is the cache once it is complete.
CacheInv ==
  /\ disk.image \in Image /\ disk.synced = TRUE
  /\ ~opened => io = IoIdle
  /\ ~Busy => cache = disk.image
  /\ Busy => cache = [disk.image EXCEPT ![io.key] = io.record] /\ io.previous = disk.image[io.key]
  /\ io.step = "accepted" => disk.image[io.key] = io.record
  /\ io.step = "sync" => tmp.image = cache
  /\ io.step = "rename" => tmp.image = cache /\ tmp.synced = TRUE

\* Nothing writes a record that no codec accepts, and none of the contents that a
\* loss of power may bring back has a better one.
BadInv ==
  /\ io # IoIdle => io.record # Bad
  /\ \A k \in Keys : disk.image[k] = Bad => \A im \in older : im[k] = Bad

StoreInv == StorageTypeOK /\ CacheInv /\ BadInv

LEMMA IoFields ==
  ASSUME StorageTypeOK
  PROVE  /\ io = IoIdle <=> io.step = "idle"
         /\ io # IoIdle => /\ io \in [step : Steps, key : Keys, record : Records, previous : Records]
                           /\ io.step \in Steps /\ io.key \in Keys
                           /\ io.record \in Records /\ io.previous \in Records
BY DEF StorageTypeOK, Io, IoIdle, Steps

-----------------------------------------------------------------------------
(***************************************************************************)
(* The file: what each step keeps, and which step of the store it is.      *)
(***************************************************************************)
StoreStep == Store!Next \/ UNCHANGED <<disk.image, older, AskedRequest>>

LEMMA OpenStep ==
  ASSUME StoreInv, Open
  PROVE  StoreInv' /\ StoreStep
<1>1. StorageTypeOK'
  BY DEF StoreInv, Open, StorageTypeOK, CacheInv
<1>2. CacheInv'
  BY IoFields DEF StoreInv, Open, StorageTypeOK, CacheInv, Busy
<1>3. BadInv' /\ StoreStep
  BY DEF StoreInv, Open, BadInv, StoreStep, AskedRequest
<1> QED
  BY <1>1, <1>2, <1>3 DEF StoreInv

LEMMA SameRecordStep ==
  ASSUME StoreInv, NEW k \in Keys, NEW r \in Records \ {Bad}, opened, SameRecord(k, r)
  PROVE  StoreInv' /\ StoreStep
<1>0. io = IoIdle /\ io.step = "idle" /\ ~Busy /\ cache[k] = r
  BY IoFields DEF StoreInv, SameRecord, Busy
<1>1. StorageTypeOK'
  BY DEF StoreInv, SameRecord, StorageTypeOK, Io, Steps
<1>2. CacheInv'
  BY <1>0 DEF StoreInv, SameRecord, CacheInv, Busy
<1>3. BadInv'
  BY DEF StoreInv, SameRecord, BadInv
<1>4. Store!Unchanged(k, r)
  BY <1>0 DEF StoreInv, CacheInv, SameRecord, Store!Unchanged, Store!Idle, AskedRequest, IoIdle
<1> QED
  BY <1>1, <1>2, <1>3, <1>4 DEF StoreInv, StoreStep, Store!Next

LEMMA ChangeCacheStep ==
  ASSUME StoreInv, NEW k \in Keys, NEW r \in Records \ {Bad}, opened, ChangeCache(k, r)
  PROVE  StoreInv' /\ StoreStep
<1>0. io = IoIdle /\ io.step = "idle" /\ ~Busy /\ cache = disk.image /\ cache \in Image
  BY IoFields DEF StoreInv, CacheInv, ChangeCache, Busy
<1>1. StorageTypeOK'
  BY <1>0 DEF StoreInv, ChangeCache, StorageTypeOK, Io, Steps, Image
<1>2. CacheInv'
  BY <1>0 DEF StoreInv, ChangeCache, CacheInv, Busy
<1>3. BadInv'
  BY DEF StoreInv, ChangeCache, BadInv
<1>4. Store!Ask(k, r)
  BY <1>0 DEF ChangeCache, Store!Ask, Store!Idle, AskedRequest, IoIdle
<1> QED
  BY <1>1, <1>2, <1>3, <1>4 DEF StoreInv, StoreStep, Store!Next

LEMMA AdvanceStep ==
  ASSUME StoreInv, CreateTmp \/ WriteAll \/ SyncAll
  PROVE  StoreInv' /\ StoreStep
<1>0. /\ io.step \in {"create", "write", "sync"} /\ io.step \in Steps /\ io # IoIdle
      /\ io \in [step : Steps, key : Keys, record : Records, previous : Records]
  BY IoFields DEF StoreInv, CreateTmp, WriteAll, SyncAll, IoIdle
<1>1. PICK next \in {"write", "sync", "rename"} : io' = [io EXCEPT !.step = next]
  BY DEF CreateTmp, WriteAll, SyncAll
<1>2. /\ io' \in [step : Steps, key : Keys, record : Records, previous : Records]
      /\ io'.key = io.key /\ io'.record = io.record /\ io'.previous = io.previous
      /\ io'.step = next /\ io' # IoIdle
  BY <1>0, <1>1 DEF Steps, IoIdle
<1>3. cache \in Image
  BY <1>0, <1>2 DEF StoreInv, CacheInv, Busy, Image
<1>4. StorageTypeOK'
  <2>1. tmp' \in File
    <3>1. CASE CreateTmp
      BY <3>1 DEF CreateTmp, NoFile, File
    <3>2. CASE WriteAll
      BY <1>3, <3>2 DEF WriteAll, File
    <3>3. CASE SyncAll
      BY <3>3 DEF StoreInv, StorageTypeOK, SyncAll, File
    <3> QED
      BY <3>1, <3>2, <3>3
  <2>2. UNCHANGED <<disk, older, opened, cache>>
    BY DEF CreateTmp, WriteAll, SyncAll
  <2> QED
    BY <1>2, <2>1, <2>2 DEF StoreInv, StorageTypeOK, Io
<1>5. CacheInv'
  <2>1. Busy /\ Busy' /\ io'.step # "accepted"
    BY <1>0, <1>2 DEF Busy
  <2>2. io'.step = "sync" => tmp'.image = cache'
    BY <1>0, <1>1, <1>2 DEF CreateTmp, WriteAll, SyncAll
  <2>3. io'.step = "rename" => tmp'.image = cache' /\ tmp'.synced = TRUE
    BY <1>0, <1>1, <1>2 DEF CreateTmp, WriteAll, SyncAll, StoreInv, CacheInv, StorageTypeOK, File
  <2>4. UNCHANGED <<disk, cache, opened>>
    BY DEF CreateTmp, WriteAll, SyncAll
  <2> QED
    BY <1>0, <1>2, <2>1, <2>2, <2>3, <2>4 DEF StoreInv, CacheInv
<1>6. BadInv'
  BY <1>0, <1>2 DEF StoreInv, BadInv, CreateTmp, WriteAll, SyncAll
<1>7. UNCHANGED <<disk.image, older, AskedRequest>>
  BY <1>0, <1>2 DEF CreateTmp, WriteAll, SyncAll, AskedRequest
<1> QED
  BY <1>4, <1>5, <1>6, <1>7 DEF StoreInv, StoreStep

LEMMA RenameStep ==
  ASSUME StoreInv, Rename
  PROVE  StoreInv' /\ StoreStep
<1>0. /\ io.step = "rename" /\ io.key \in Keys /\ io # IoIdle /\ io.record # Bad
      /\ io \in [step : Steps, key : Keys, record : Records, previous : Records]
  BY IoFields DEF StoreInv, BadInv, Rename, IoIdle
<1>1. /\ cache = [disk.image EXCEPT ![io.key] = io.record] /\ cache \in Image
      /\ disk' = tmp /\ tmp \in File /\ tmp.image = cache /\ tmp.synced = TRUE
      /\ older' = older \cup {disk.image} /\ tmp' = NoFile /\ UNCHANGED <<opened, cache>>
  BY <1>0 DEF StoreInv, CacheInv, StorageTypeOK, Rename, Busy, Image
<1>2. /\ io' = [io EXCEPT !.step = "accepted"]
      /\ io' \in [step : Steps, key : Keys, record : Records, previous : Records]
      /\ io'.key = io.key /\ io'.record = io.record /\ io'.step = "accepted" /\ io' # IoIdle
  BY <1>0 DEF Rename, Steps, IoIdle
<1>3. disk'.image[io.key] = io.record
  BY <1>0, <1>1 DEF StoreInv, CacheInv, Image
<1>4. StorageTypeOK'
  BY <1>1, <1>2 DEF StoreInv, CacheInv, StorageTypeOK, Io, File, NoFile
<1>5. CacheInv'
  BY <1>0, <1>1, <1>2, <1>3 DEF StoreInv, CacheInv, Busy
<1>6. BadInv'
  <2>1. ASSUME NEW k \in Keys, disk'.image[k] = Bad
        PROVE  \A im \in older' : im[k] = Bad
    <3>1. disk.image[k] = Bad
      BY <1>0, <1>1, <2>1 DEF StoreInv, CacheInv, Image
    <3> QED
      BY <1>1, <3>1 DEF StoreInv, BadInv
  <2> QED
    BY <1>0, <1>2, <2>1 DEF BadInv
<1>7. Store!Commit
  <2>1. AskedRequest = [key |-> io.key, record |-> io.record, state |-> "asked"]
    BY <1>0 DEF AskedRequest
  <2>2. AskedRequest' = [key |-> io.key, record |-> io.record, state |-> "accepted"]
    BY <1>2 DEF AskedRequest
  <2> QED
    BY <1>1, <2>1, <2>2 DEF Store!Commit
<1> QED
  BY <1>4, <1>5, <1>6, <1>7 DEF StoreInv, StoreStep, Store!Next

LEMMA FailStep ==
  ASSUME StoreInv, Fail
  PROVE  StoreInv' /\ StoreStep
<1>0. /\ Busy /\ io.key \in Keys /\ io # IoIdle /\ io.record # Bad
      /\ io \in [step : Steps, key : Keys, record : Records, previous : Records]
  BY IoFields DEF StoreInv, BadInv, Fail, IoIdle, Busy
<1>1. /\ cache' = disk.image /\ disk.image \in Image /\ tmp' = NoFile
      /\ UNCHANGED <<disk, older, opened>>
  BY <1>0 DEF StoreInv, CacheInv, Fail, Image
<1>2. /\ io' = [io EXCEPT !.step = "refused"]
      /\ io' \in [step : Steps, key : Keys, record : Records, previous : Records]
      /\ io'.key = io.key /\ io'.record = io.record /\ io'.step = "refused" /\ io' # IoIdle
  BY <1>0 DEF Fail, Steps, IoIdle
<1>3. StorageTypeOK'
  BY <1>1, <1>2 DEF StoreInv, StorageTypeOK, Io, File, NoFile
<1>4. CacheInv' /\ BadInv'
  BY <1>0, <1>1, <1>2 DEF StoreInv, CacheInv, BadInv, Busy
<1>5. Store!Refuse
  <2>1. AskedRequest = [key |-> io.key, record |-> io.record, state |-> "asked"]
    BY <1>0 DEF AskedRequest, Busy
  <2>2. AskedRequest' = [key |-> io.key, record |-> io.record, state |-> "refused"]
    BY <1>2 DEF AskedRequest
  <2> QED
    BY <1>1, <2>1, <2>2 DEF Store!Refuse
<1> QED
  BY <1>3, <1>4, <1>5 DEF StoreInv, StoreStep, Store!Next

LEMMA AnsweredStep ==
  ASSUME StoreInv, Answered
  PROVE  StoreInv' /\ StoreStep
<1>0. ~Busy /\ io # IoIdle /\ io.step \in {"accepted", "refused"}
  BY DEF Answered, Busy, IoIdle
<1>1. io' = IoIdle /\ io'.step = "idle" /\ UNCHANGED <<disk, older, tmp, opened, cache>>
  BY DEF Answered, IoIdle
<1>2. StorageTypeOK' /\ CacheInv' /\ BadInv'
  BY <1>0, <1>1 DEF StoreInv, StorageTypeOK, CacheInv, BadInv, Io, Busy
<1>3. Store!Return
  BY <1>0, <1>1 DEF Store!Return, Store!Idle, AskedRequest
<1> QED
  BY <1>2, <1>3 DEF StoreInv, StoreStep, Store!Next

LEMMA CloseStep ==
  ASSUME StoreInv, Close
  PROVE  StoreInv' /\ StoreStep
<1>1. /\ io' = IoIdle /\ io'.step = "idle" /\ cache' = disk.image /\ tmp' = NoFile
      /\ UNCHANGED <<disk, older>> /\ opened' = FALSE
  BY DEF Close, IoIdle
<1>2. StorageTypeOK' /\ CacheInv' /\ BadInv'
  BY <1>1 DEF StoreInv, StorageTypeOK, CacheInv, BadInv, Io, Busy, File, NoFile
<1>3. Store!Crash
  BY <1>1 DEF Store!Crash, Store!Idle, AskedRequest
<1> QED
  BY <1>2, <1>3 DEF StoreInv, StoreStep, Store!Next

LEMMA PowerLossStep ==
  ASSUME StoreInv, PowerLoss
  PROVE  StoreInv' /\ StoreStep
<1>1. /\ io' = IoIdle /\ io'.step = "idle" /\ cache' = disk'.image /\ tmp' = NoFile
      /\ older' = {} /\ opened' = FALSE
      /\ disk' \in [image : older \cup {disk.image}, synced : {TRUE}]
  BY DEF PowerLoss, IoIdle, StoreInv, CacheInv
<1>2. disk'.image \in older \cup {disk.image} /\ disk'.image \in Image /\ disk'.synced = TRUE
  BY <1>1 DEF StoreInv, CacheInv, StorageTypeOK
<1>3. disk' \in File
  BY <1>1, <1>2 DEF File
<1>4. StorageTypeOK' /\ CacheInv' /\ BadInv'
  BY <1>1, <1>2, <1>3 DEF StorageTypeOK, CacheInv, BadInv, Io, Busy, File, NoFile
<1>5. Store!PowerLoss
  BY <1>1, <1>2 DEF Store!PowerLoss, Store!Idle, AskedRequest
<1> QED
  BY <1>4, <1>5 DEF StoreInv, StoreStep, Store!Next

LEMMA FlushDirectoryStep ==
  ASSUME StoreInv, FlushDirectory
  PROVE  StoreInv' /\ StoreStep
<1>1. older' = {} /\ UNCHANGED <<disk, tmp, opened, cache, io>>
  BY DEF FlushDirectory
<1>2. StorageTypeOK' /\ CacheInv' /\ BadInv'
  BY <1>1 DEF StoreInv, StorageTypeOK, CacheInv, BadInv, Busy
<1>3. Store!FlushDirectory
  BY <1>1 DEF Store!FlushDirectory, AskedRequest
<1> QED
  BY <1>2, <1>3 DEF StoreInv, StoreStep, Store!Next

LEMMA StorageStays ==
  ASSUME StoreInv, UNCHANGED storageVars
  PROVE  StoreInv' /\ StoreStep
BY DEF StoreInv, storageVars, StorageTypeOK, CacheInv, BadInv, Busy, StoreStep, AskedRequest

-----------------------------------------------------------------------------
(***************************************************************************)
(* The registry.                                                           *)
(***************************************************************************)

\* An operation has the registry whenever a request is out; a removal is its request;
\* the items a save of everything has yet to reach are registered.
JobInv ==
  /\ ~opened => job = JobIdle
  /\ io # IoIdle => job.kind # "none"
  /\ job.kind = "remove" => io # IoIdle /\ io.record = None
  /\ job.kind = "all" => \A k \in job.todo \ Models : entry[k].live

\* The Model being written is a candidate, and has the value being written for as long
\* as its revision is the one the write will confirm.
StampInv ==
  io # IoIdle /\ job.kind \in {"save", "all"} /\ io.key \in Models /\ entry[io.key].live
    => /\ entry[io.key].pending
       /\ job.stamp <= entry[io.key].revision
       /\ entry[io.key].revision = job.stamp /\ job.stamp # Width
            => entry[io.key].value = io.record

\* While the unreadable record of a key is there, a Model is protected and an item is
\* not registered; a save of everything is not about to replace it.
UnreadInv ==
  /\ \A k \in unread : disk.image[k] = Bad =>
       IF k \in Models THEN entry[k].live /\ entry[k].protected ELSE ~entry[k].live
  /\ io # IoIdle /\ job.kind = "all" => ~(io.key \in unread /\ disk.image[io.key] = Bad)

IInv == TypeOK /\ StoreInv /\ JobInv /\ StampInv /\ NoLostChange /\ UnreadInv

\* All that the steps below have to show of the registry.
RegistryInv == JobInv /\ StampInv /\ NoLostChange /\ UnreadInv

LEMMA AbsentEntry ==
  ASSUME NEW k
  PROVE  Absent(k) \in Entry /\ ~Absent(k).live
BY ValuesAssumption, WidthAssumption DEF Absent, Entry

LEMMA ChangedEntry ==
  ASSUME NEW e \in Entry
  PROVE  /\ Changed(e) \in Entry /\ Changed(e).pending = TRUE
         /\ Changed(e).live = e.live /\ Changed(e).value = e.value
         /\ Changed(e).protected = e.protected
         /\ Changed(e).revision = Bump(e.revision)
         /\ Bump(e.revision) >= e.revision
         /\ e.revision = Width \/ Bump(e.revision) > e.revision
<1>1. /\ Bump(e.revision) \in 0..Width /\ Bump(e.revision) >= e.revision
      /\ e.revision = Width \/ Bump(e.revision) > e.revision
  <2>1. e.revision \in 0..Width
    BY DEF Entry
  <2> QED
    BY <2>1, WidthAssumption DEF Bump
<1>2. Changed(e) = [e EXCEPT !.revision = Bump(e.revision), !.pending = TRUE]
  BY DEF Changed, Entry
<1> HIDE DEF Changed
<1> QED
  BY <1>1, <1>2 DEF Entry

LEMMA ConfirmedEntry ==
  ASSUME NEW e \in Entry, NEW stamp
  PROVE  /\ Confirmed(e, stamp) \in Entry
         /\ Confirmed(e, stamp).live = e.live /\ Confirmed(e, stamp).value = e.value
         /\ Confirmed(e, stamp).protected = e.protected
         /\ Confirmed(e, stamp).revision = e.revision
         /\ ~(stamp # Width /\ e.revision = stamp) => Confirmed(e, stamp) = e
BY DEF Confirmed, Entry

\* Between operations no request is out, and the cache is the file.
LEMMA OperableFacts ==
  ASSUME IInv, CanOperate
  PROVE  /\ opened /\ job = JobIdle /\ job.kind = "none" /\ job.todo = {}
         /\ io = IoIdle /\ ~Busy /\ cache = disk.image /\ cache \in [Keys -> Records]
         /\ entry \in [Keys -> Entry]
<1>1. opened /\ job = JobIdle /\ job.kind = "none" /\ job.todo = {}
  BY DEF CanOperate, JobIdle
<1>2. io = IoIdle /\ io.step = "idle" /\ ~Busy
  BY <1>1 DEF IInv, JobInv, IoIdle, Busy
<1> QED
  BY <1>1, <1>2 DEF IInv, TypeOK, StoreInv, CacheInv, Image

-----------------------------------------------------------------------------
(***************************************************************************)
(* Steps that leave storage alone.                                         *)
(***************************************************************************)

LEMMA RegisterModelKeeps ==
  ASSUME IInv, NEW k \in Keys, RegisterModel(k)
  PROVE  IInv' /\ StoreStep
<1> DEFINE read == ReadOutcome(k)
           e == [live |-> TRUE, revision |-> 0, pending |-> TRUE,
                 protected |-> read = "failed",
                 value |-> IF read = "restored" THEN cache[k] ELSE entry[k].value]
<1>0. CanOperate /\ k \in Models /\ UNCHANGED storageVars
  BY DEF RegisterModel
<1>1. StoreInv' /\ StoreStep
  BY <1>0, StorageStays DEF IInv
<1>2. /\ opened /\ job.kind = "none" /\ job = JobIdle /\ io = IoIdle
      /\ cache = disk.image /\ cache \in [Keys -> Records] /\ entry \in [Keys -> Entry]
  BY <1>0, OperableFacts
<1>3. read = "restored" => cache[k] \in Values
  BY <1>2 DEF ReadOutcome, Records
<1>4. e \in Entry
  <2>1. entry[k].value \in Values
    BY <1>2 DEF Entry
  <2> QED
    BY <1>3, <2>1, WidthAssumption DEF Entry
<1>5. /\ entry' = [entry EXCEPT ![k] = IF read = "restored" THEN Confirmed(e, 0) ELSE e]
      /\ unread' = IF read = "failed" THEN unread \cup {k} ELSE unread \ {k}
      /\ UNCHANGED <<disk, older, tmp, opened, cache, io, enabled, suspended, elapsed, job, changes, faults>>
  BY DEF RegisterModel, storageVars
<1>6. /\ e.live = TRUE /\ e.pending = TRUE /\ e.protected = (read = "failed")
      /\ read = "restored" => e.value = cache[k]
  OBVIOUS
<1> HIDE DEF e, read
<1>7. /\ entry'[k] \in Entry /\ entry'[k].live = TRUE
      /\ read = "failed" => entry'[k].protected = TRUE /\ entry'[k].pending = TRUE
      /\ read = "restored" => entry'[k].value = cache[k]
      /\ read # "restored" => entry'[k].pending = TRUE
      /\ \A j \in Keys \ {k} : entry'[j] = entry[j]
      /\ entry' \in [Keys -> Entry]
  BY <1>2, <1>4, <1>5, <1>6, ConfirmedEntry
<1>8. TypeOK'
  BY <1>1, <1>5, <1>7 DEF IInv, TypeOK, StoreInv
<1>9. JobInv' /\ StampInv'
  BY <1>2, <1>5, <1>7 DEF IInv, JobInv, StampInv
<1>10. NoLostChange'
  BY <1>2, <1>5, <1>7, ModelsAssumption DEF IInv, NoLostChange
<1>11. UnreadInv'
  BY <1>0, <1>2, <1>5, <1>7 DEF IInv, UnreadInv, TypeOK
<1> QED
  BY <1>1, <1>8, <1>9, <1>10, <1>11 DEF IInv

LEMMA RegisterItemKeeps ==
  ASSUME IInv, NEW k \in Keys, RegisterItem(k)
  PROVE  IInv' /\ StoreStep
<1>0. CanOperate /\ k \notin Models /\ ~entry[k].live /\ UNCHANGED storageVars
  BY DEF RegisterItem
<1>1. StoreInv' /\ StoreStep
  BY <1>0, StorageStays DEF IInv
<1>2. /\ opened /\ job.kind = "none" /\ job = JobIdle /\ io = IoIdle
      /\ cache = disk.image /\ cache \in [Keys -> Records] /\ entry \in [Keys -> Entry]
  BY <1>0, OperableFacts
<1> DEFINE read == ReadOutcome(k)
<1>3. read = "restored" => cache[k] \in Values
  BY <1>2 DEF ReadOutcome, Records
<1>5. /\ entry' = IF read = "failed" THEN entry
                  ELSE [entry EXCEPT ![k].live = TRUE,
                                     ![k].value = IF read = "restored" THEN cache[k] ELSE @]
      /\ unread' = IF read = "failed" THEN unread \cup {k} ELSE unread \ {k}
      /\ UNCHANGED <<disk, older, tmp, opened, cache, io, enabled, suspended, elapsed, job, changes, faults>>
  BY DEF RegisterItem, storageVars
<1> HIDE DEF read
<1>7. /\ \A j \in Keys \ {k} : entry'[j] = entry[j]
      /\ read = "failed" => entry' = entry
      /\ entry' \in [Keys -> Entry]
  BY <1>2, <1>3, <1>5 DEF Entry
<1>8. TypeOK'
  BY <1>1, <1>5, <1>7 DEF IInv, TypeOK, StoreInv
<1>9. JobInv' /\ StampInv'
  BY <1>2, <1>5, <1>7 DEF IInv, JobInv, StampInv
<1>10. NoLostChange'
  BY <1>0, <1>2, <1>5, <1>7, ModelsAssumption DEF IInv, NoLostChange
<1>11. UnreadInv'
  BY <1>0, <1>2, <1>5, <1>7 DEF IInv, UnreadInv, TypeOK
<1> QED
  BY <1>1, <1>8, <1>9, <1>10, <1>11 DEF IInv

LEMMA ChangeKeeps ==
  ASSUME IInv, NEW k \in Keys, Change(k)
  PROVE  IInv' /\ StoreStep
<1>0. UNCHANGED storageVars
  BY DEF Change
<1>1. StoreInv' /\ StoreStep
  BY <1>0, StorageStays DEF IInv
<1>2. PICK v \in Values :
        entry' = [entry EXCEPT ![k] = IF k \in Models THEN Changed([entry[k] EXCEPT !.value = v])
                                      ELSE [entry[k] EXCEPT !.value = v]]
  BY DEF Change
<1> DEFINE e == [entry[k] EXCEPT !.value = v]
<1>3. /\ UNCHANGED <<disk, older, tmp, opened, cache, io, enabled, suspended, elapsed, job, faults, unread>>
      /\ changes' = changes + 1 /\ changes < MaxChanges /\ entry[k].live
  BY DEF Change, storageVars
<1>4. entry \in [Keys -> Entry] /\ entry[k] \in Entry
  BY DEF IInv, TypeOK
<1>5. /\ e \in Entry /\ e.live = entry[k].live /\ e.protected = entry[k].protected
      /\ e.revision = entry[k].revision
  BY <1>4 DEF Entry
<1>6. /\ entry'[k] = IF k \in Models THEN Changed(e) ELSE e
      /\ \A j \in Keys \ {k} : entry'[j] = entry[j]
  BY <1>2, <1>4
<1> HIDE DEF e
<1>7. /\ entry' \in [Keys -> Entry]
      /\ entry'[k].live = entry[k].live /\ entry'[k].protected = entry[k].protected
      /\ k \in Models => /\ entry'[k].pending = TRUE
                         /\ entry'[k].revision = Bump(entry[k].revision)
                         /\ Bump(entry[k].revision) >= entry[k].revision
                         /\ entry[k].revision = Width \/ Bump(entry[k].revision) > entry[k].revision
  <2>1. entry'[k] \in Entry
    BY <1>5, <1>6, ChangedEntry
  <2>2. entry' \in [Keys -> Entry]
    BY <1>2, <1>4, <2>1
  <2> QED
    BY <1>5, <1>6, <2>2, ChangedEntry
<1>8. TypeOK'
  BY <1>1, <1>3, <1>7, BoundsAssumption DEF IInv, TypeOK, StoreInv
<1>9. JobInv'
  BY <1>3, <1>6, <1>7 DEF IInv, JobInv, TypeOK, Job
<1>10. StampInv'
  <2>1. SUFFICES ASSUME io # IoIdle, job.kind \in {"save", "all"}, io.key \in Models,
                        entry'[io.key].live
                 PROVE  /\ entry'[io.key].pending
                        /\ job.stamp <= entry'[io.key].revision
                        /\ entry'[io.key].revision = job.stamp /\ job.stamp # Width
                             => entry'[io.key].value = io.record
    BY <1>3 DEF StampInv
  <2>2. CASE io.key # k
    BY <1>6, <2>1, <2>2, ModelsAssumption DEF IInv, StampInv
  <2>3. CASE io.key = k
    <3>1. job.stamp <= entry[k].revision
      BY <1>7, <2>1, <2>3 DEF IInv, StampInv
    <3>2. job.stamp \in 0..Width /\ entry[k].revision \in 0..Width /\ entry'[k].revision \in 0..Width
      BY <1>4, <1>7 DEF IInv, TypeOK, Job, Entry
    <3> QED
      BY <1>7, <2>1, <2>3, <3>1, <3>2, WidthAssumption
  <2> QED
    BY <2>2, <2>3
<1>11. NoLostChange'
  BY <1>3, <1>6, <1>7, ModelsAssumption DEF IInv, NoLostChange
<1>12. UnreadInv'
  BY <1>3, <1>6, <1>7 DEF IInv, UnreadInv, TypeOK
<1> QED
  BY <1>1, <1>8, <1>9, <1>10, <1>11, <1>12 DEF IInv

LEMMA RetireKeeps ==
  ASSUME IInv, NEW k \in Keys, Retire(k)
  PROVE  IInv' /\ StoreStep
<1>0. UNCHANGED storageVars
  BY DEF Retire
<1>1. StoreInv' /\ StoreStep
  BY <1>0, StorageStays DEF IInv
<1>3. /\ UNCHANGED <<disk, older, tmp, opened, cache, io, enabled, suspended, elapsed, job, changes, faults>>
      /\ k \in Models /\ unread' = unread \ {k}
      /\ entry' = [entry EXCEPT ![k] = Absent(k)]
  BY DEF Retire, storageVars
<1>4. entry \in [Keys -> Entry]
  BY DEF IInv, TypeOK
<1>7. /\ entry' \in [Keys -> Entry] /\ ~entry'[k].live
      /\ \A j \in Keys \ {k} : entry'[j] = entry[j]
  BY <1>3, <1>4, AbsentEntry
<1>8. TypeOK'
  BY <1>1, <1>3, <1>7 DEF IInv, TypeOK, StoreInv
<1>9. JobInv'
  BY <1>3, <1>7 DEF IInv, JobInv, TypeOK, Job
<1>10. StampInv'
  BY <1>3, <1>7, ModelsAssumption DEF IInv, StampInv
<1>11. NoLostChange'
  BY <1>3, <1>7, ModelsAssumption DEF IInv, NoLostChange
<1>12. UnreadInv'
  BY <1>3, <1>7 DEF IInv, UnreadInv, TypeOK
<1> QED
  BY <1>1, <1>8, <1>9, <1>10, <1>11, <1>12 DEF IInv

LEMMA RestoreKeeps ==
  ASSUME IInv, NEW k \in Keys, Restore(k)
  PROVE  IInv' /\ StoreStep
<1>0. CanOperate /\ k \in Models /\ entry[k].live /\ cache[k] # None /\ UNCHANGED storageVars
  BY DEF Restore
<1>1. StoreInv' /\ StoreStep
  BY <1>0, StorageStays DEF IInv
<1>2. /\ opened /\ job.kind = "none" /\ job = JobIdle /\ io = IoIdle
      /\ cache = disk.image /\ cache \in [Keys -> Records] /\ entry \in [Keys -> Entry]
  BY <1>0, OperableFacts
<1>3. UNCHANGED <<disk, older, tmp, opened, cache, io, enabled, suspended, elapsed, job, changes, faults>>
  BY DEF Restore, storageVars
<1>7. /\ entry' \in [Keys -> Entry] /\ entry'[k].live
      /\ \A j \in Keys \ {k} : entry'[j] = entry[j]
      /\ unread' \subseteq Keys /\ unread' \ {k} = unread \ {k}
      /\ k \in unread' => entry'[k].protected = TRUE
      /\ \/ entry'[k].value = cache[k]
         \/ entry'[k].pending = entry[k].pending /\ entry'[k].value = entry[k].value
  <2>1. CASE cache[k] = Bad
    <3>1. entry' = [entry EXCEPT ![k].protected = TRUE] /\ unread' = unread \cup {k}
      BY <2>1 DEF Restore
    <3> QED
      BY <1>0, <1>2, <3>1 DEF Entry, IInv, TypeOK
  <2>2. CASE cache[k] # Bad
    <3> DEFINE a == [entry[k] EXCEPT !.value = cache[k], !.protected = FALSE]
    <3>1. entry' = [entry EXCEPT ![k] = Confirmed(Changed(a), Changed(a).revision)]
          /\ unread' = unread \ {k}
      BY <2>2 DEF Restore
    <3>2. a \in Entry /\ a.live = entry[k].live /\ a.value = cache[k]
      BY <1>0, <1>2, <2>2 DEF Entry, Records
    <3> HIDE DEF a
    <3> DEFINE b == Changed(a)
    <3>3. b \in Entry /\ b.live = entry[k].live /\ b.value = cache[k]
      BY <3>2, ChangedEntry
    <3> HIDE DEF b
    <3> DEFINE c == Confirmed(b, b.revision)
    <3>4. c \in Entry /\ c.live = entry[k].live /\ c.value = cache[k]
      BY <3>3, ConfirmedEntry
    <3>5. entry' = [entry EXCEPT ![k] = c]
      BY <3>1 DEF b
    <3> HIDE DEF c
    <3>6. /\ entry' \in [Keys -> Entry] /\ entry'[k] = c
          /\ \A j \in Keys \ {k} : entry'[j] = entry[j]
      BY <1>2, <3>4, <3>5
    <3>7. unread \subseteq Keys
      BY DEF IInv, TypeOK
    <3>8. unread' \subseteq Keys /\ unread' \ {k} = unread \ {k} /\ k \notin unread'
      BY <3>1, <3>7
    <3>9. entry'[k].live /\ entry'[k].value = cache[k]
      BY <1>0, <3>4, <3>6
    <3>10. k \in unread' => entry'[k].protected = TRUE
      BY <3>8
    <3>11. \/ entry'[k].value = cache[k]
           \/ entry'[k].pending = entry[k].pending /\ entry'[k].value = entry[k].value
      BY <3>9
    <3> QED
      BY <3>6, <3>8, <3>9, <3>10, <3>11
  <2> QED
    BY <2>1, <2>2
<1>8. TypeOK'
  BY <1>1, <1>3, <1>7 DEF IInv, TypeOK, StoreInv
<1>9. JobInv' /\ StampInv'
  BY <1>2, <1>3, <1>7 DEF IInv, JobInv, StampInv
<1>10. NoLostChange'
  BY <1>0, <1>2, <1>3, <1>7, ModelsAssumption DEF IInv, NoLostChange
<1>11. UnreadInv'
  BY <1>0, <1>2, <1>3, <1>7 DEF IInv, UnreadInv, TypeOK
<1> QED
  BY <1>1, <1>8, <1>9, <1>10, <1>11 DEF IInv

LEMMA SetEnabledKeeps ==
  ASSUME IInv, SetEnabled
  PROVE  IInv' /\ StoreStep
<1>0. CanOperate /\ UNCHANGED storageVars
  BY DEF SetEnabled
<1>1. StoreInv' /\ StoreStep
  BY <1>0, StorageStays DEF IInv
<1>2. /\ opened /\ job.kind = "none" /\ job = JobIdle /\ io = IoIdle
      /\ entry \in [Keys -> Entry]
  BY <1>0, OperableFacts
<1>3. /\ UNCHANGED <<disk, older, tmp, opened, cache, io, suspended, elapsed, job, changes, faults, unread>>
      /\ enabled' = ~enabled
      /\ entry' = [k \in Keys |->
           IF enabled' /\ k \in Models /\ entry[k].live THEN Changed(entry[k]) ELSE entry[k]]
  BY DEF SetEnabled, storageVars
<1>4. ASSUME NEW k \in Keys
      PROVE  /\ entry'[k] \in Entry /\ entry'[k].live = entry[k].live
             /\ entry'[k].protected = entry[k].protected
             /\ entry'[k].pending = TRUE \/ entry'[k] = entry[k]
  BY <1>2, <1>3, ChangedEntry
<1>5. entry' \in [Keys -> Entry]
  BY <1>3, <1>4
<1>6. enabled' \in BOOLEAN
  BY <1>3
<1>7. TypeOK'
  BY <1>1, <1>3, <1>5, <1>6 DEF IInv, TypeOK, StoreInv
<1>8. JobInv' /\ StampInv'
  BY <1>2, <1>3 DEF IInv, JobInv, StampInv
<1>9. NoLostChange'
  BY <1>3, <1>4, ModelsAssumption DEF IInv, NoLostChange
<1>10. UnreadInv'
  BY <1>2, <1>3, <1>4 DEF IInv, UnreadInv, TypeOK
<1> QED
  BY <1>1, <1>7, <1>8, <1>9, <1>10 DEF IInv

\* An operation that starts a save, or none, leaves the entries and the file as they are.
LEMMA JobKeeps ==
  ASSUME IInv, UNCHANGED <<storageVars, entry, enabled, changes, faults, unread>>,
         suspended' \in BOOLEAN, elapsed' \in 0..Interval, opened, io = IoIdle,
         job' \in Job, job'.kind # "remove",
         job'.kind = "all" => \A k \in job'.todo \ Models : entry[k].live
  PROVE  IInv' /\ StoreStep
<1>1. StoreInv' /\ StoreStep
  BY StorageStays DEF IInv
<1>2. UNCHANGED <<disk, older, tmp, opened, cache, io>>
  BY DEF storageVars
<1>3. TypeOK'
  BY <1>1 DEF IInv, TypeOK, StoreInv
<1>4. JobInv' /\ StampInv'
  BY <1>2 DEF JobInv, StampInv
<1>5. NoLostChange' /\ UnreadInv'
  BY <1>2 DEF IInv, NoLostChange, UnreadInv
<1> QED
  BY <1>1, <1>3, <1>4, <1>5 DEF IInv

LEMMA JobTypes ==
  /\ JobIdle \in Job /\ JobIdle.kind = "none"
  /\ AllJob \in Job /\ AllJob.kind = "all" /\ \A k \in AllJob.todo : entry[k].live
  /\ \A k \in Keys : [kind |-> "save", todo |-> {k}, stamp |-> 0] \in Job
BY WidthAssumption DEF JobIdle, AllJob, LiveKeys, Job

LEMMA ElapsedTime ==
  ASSUME TypeOK, NEW d \in 0..1
  PROVE  Elapsed(d) \in 0..Interval
BY WidthAssumption DEF TypeOK, Elapsed

LEMMA BeginningKeeps ==
  ASSUME IInv,
         \/ \E k \in Keys : Save(k)
         \/ SaveAll \/ Stop \/ Resume
         \/ \E d \in 0..1 : Frame(d)
  PROVE  IInv' /\ StoreStep
<1>1. CanOperate /\ UNCHANGED <<storageVars, entry, enabled, changes, faults, unread>>
  BY DEF Save, SaveAll, Stop, Resume, Frame
<1>2. opened /\ io = IoIdle /\ job = JobIdle
  BY <1>1, OperableFacts
<1>3. suspended' \in BOOLEAN
  BY DEF Save, SaveAll, Stop, Resume, Frame, IInv, TypeOK
<1>4. elapsed' \in 0..Interval
  <2>1. 0 \in 0..Interval /\ elapsed \in 0..Interval
    BY WidthAssumption DEF IInv, TypeOK
  <2>2. \A d \in 0..1 : Elapsed(d) \in 0..Interval
    BY ElapsedTime DEF IInv
  <2> QED
    BY <2>1, <2>2 DEF Save, SaveAll, Stop, Resume, Frame
<1>5. \/ job' = JobIdle \/ job' = AllJob
      \/ \E k \in Keys : job' = [kind |-> "save", todo |-> {k}, stamp |-> 0]
  BY <1>2 DEF Save, SaveAll, Stop, Resume, Frame
<1>6. /\ job' \in Job /\ job'.kind # "remove"
      /\ job'.kind = "all" => \A k \in job'.todo \ Models : entry[k].live
  BY <1>5, JobTypes
<1> QED
  BY <1>1, <1>2, <1>3, <1>4, <1>6, JobKeeps

LEMMA WithoutTarget ==
  ASSUME IInv, NEW k, job.kind \in {"save", "all"}
  PROVE  /\ Without(k) \in Job /\ Without(k).kind = job.kind
         /\ Without(k).todo = job.todo \ {k}
BY DEF IInv, TypeOK, Job, Without

LEMMA SkipKeeps ==
  ASSUME IInv, NEW k \in Keys, Skip(k)
  PROVE  IInv' /\ StoreStep
<1>1. /\ io = IoIdle /\ job.kind \in {"save", "all"} /\ job' = Without(k)
      /\ UNCHANGED <<storageVars, entry, enabled, suspended, elapsed, changes, faults, unread>>
  BY DEF Skip, Saving
<1>2. opened
  BY <1>1 DEF IInv, JobInv, JobIdle
<1>3. /\ job' \in Job /\ job'.kind # "remove"
      /\ job'.kind = "all" => \A j \in job'.todo \ Models : entry[j].live
  BY <1>1, WithoutTarget DEF IInv, JobInv
<1> QED
  BY <1>1, <1>2, <1>3, JobKeeps DEF IInv, TypeOK

LEMMA DoneKeeps ==
  ASSUME IInv, Done
  PROVE  IInv' /\ StoreStep
<1>1. /\ io = IoIdle /\ job.kind \in {"save", "all"} /\ job' = JobIdle
      /\ UNCHANGED <<storageVars, entry, enabled, suspended, elapsed, changes, faults, unread>>
  BY DEF Done, Saving
<1>2. opened
  BY <1>1 DEF IInv, JobInv, JobIdle
<1> QED
  BY <1>1, <1>2, JobKeeps, JobTypes DEF IInv, TypeOK

\* A forced save makes a Model a candidate; nothing else of its entry changes.
LEMMA AskedEntry ==
  ASSUME entry \in [Keys -> Entry], NEW k \in Keys
  PROVE  /\ Asked(k) \in Entry
         /\ Asked(k).live = entry[k].live /\ Asked(k).value = entry[k].value
         /\ Asked(k).protected = entry[k].protected
         /\ Asked(k) = entry[k] \/ Asked(k).pending = TRUE
         /\ k \in Models /\ (Forced \/ entry[k].pending) => Asked(k).pending
BY ChangedEntry DEF Asked

LEMMA DeferKeeps ==
  ASSUME IInv, NEW k \in Keys, Defer(k)
  PROVE  IInv' /\ StoreStep
<1>1. /\ io = IoIdle /\ job.kind \in {"save", "all"} /\ job' = Without(k)
      /\ entry' = [entry EXCEPT ![k] = Asked(k)]
      /\ faults' = faults + 1 /\ faults < MaxFaults
      /\ UNCHANGED <<disk, older, tmp, opened, cache, io, enabled, suspended, elapsed, changes, unread>>
      /\ UNCHANGED storageVars
  BY DEF Defer, Saving, storageVars
<1>2. StoreInv' /\ StoreStep
  BY <1>1, StorageStays DEF IInv
<1>3. /\ entry' \in [Keys -> Entry]
      /\ \A j \in Keys : /\ entry'[j].live = entry[j].live
                         /\ entry'[j].protected = entry[j].protected
                         /\ entry'[j] = entry[j] \/ entry'[j].pending = TRUE
  <2>1. entry \in [Keys -> Entry]
    BY DEF IInv, TypeOK
  <2> QED
    BY <1>1, <2>1, AskedEntry
<1>4. /\ job' \in Job /\ job'.kind = job.kind /\ job'.todo \subseteq job.todo
      /\ job.todo \subseteq Keys
  BY <1>1, WithoutTarget DEF IInv, TypeOK, Job
<1>5. faults' \in 0..MaxFaults
  BY <1>1, BoundsAssumption DEF IInv, TypeOK
<1>6. TypeOK'
  BY <1>1, <1>2, <1>3, <1>4, <1>5 DEF IInv, TypeOK, StoreInv
<1>7. JobInv' /\ StampInv'
  BY <1>1, <1>3, <1>4 DEF IInv, JobInv, StampInv, JobIdle
<1>8. NoLostChange'
  BY <1>1, <1>3, ModelsAssumption DEF IInv, NoLostChange
<1>9. UnreadInv'
  BY <1>1, <1>3 DEF IInv, UnreadInv, TypeOK
<1> QED
  BY <1>2, <1>6, <1>7, <1>8, <1>9 DEF IInv

-----------------------------------------------------------------------------
(***************************************************************************)
(* Steps of storage.                                                       *)
(***************************************************************************)

\* A process that has just started, or ended, has nothing registered.
LEMMA FreshKeeps ==
  ASSUME IInv, StoreInv', Fresh, io' = IoIdle, enabled' \in BOOLEAN, UNCHANGED faults
  PROVE  IInv'
<1>1. entry' = [k \in Keys |-> Absent(k)] /\ job' = JobIdle /\ unread' = {} /\ changes' = 0
      /\ suspended' = FALSE /\ elapsed' = 0
  BY DEF Fresh
<1>2. entry' \in [Keys -> Entry] /\ \A k \in Keys : ~entry'[k].live
  BY <1>1, AbsentEntry
<1>3. 0 \in 0..Interval /\ 0 \in 0..MaxChanges
  BY WidthAssumption, BoundsAssumption
<1>4. TypeOK'
  BY <1>1, <1>2, <1>3, JobTypes DEF IInv, TypeOK, StoreInv
<1>5. JobInv' /\ StampInv'
  BY <1>1 DEF JobInv, StampInv, JobIdle
<1>6. NoLostChange' /\ UnreadInv'
  BY <1>1, <1>2, ModelsAssumption DEF NoLostChange, UnreadInv
<1> QED
  BY <1>4, <1>5, <1>6 DEF IInv

LEMMA StartKeeps ==
  ASSUME IInv, Start
  PROVE  IInv' /\ StoreStep
<1>1. StoreInv' /\ StoreStep
  BY OpenStep DEF IInv, Start
<1>2. io' = IoIdle
  BY DEF IInv, StoreInv, CacheInv, Start, Open
<1> QED
  BY <1>1, <1>2, FreshKeeps DEF Start

LEMMA EndKeeps ==
  ASSUME IInv, Crash \/ LosePower
  PROVE  IInv' /\ StoreStep
<1>1. StoreInv' /\ StoreStep
  BY CloseStep, PowerLossStep DEF IInv, Crash, LosePower
<1>2. io' = IoIdle /\ enabled' \in BOOLEAN /\ Fresh /\ UNCHANGED faults
  BY DEF Crash, LosePower, Close, PowerLoss, IInv, TypeOK
<1> QED
  BY <1>1, <1>2, FreshKeeps

\* A request starts with the record it asks for, and the file as it was.
LEMMA RequestStarts ==
  ASSUME StoreInv, NEW k \in Keys, NEW r \in Records \ {Bad}, opened, WriteRecord(k, r)
  PROVE  /\ StoreInv' /\ StoreStep
         /\ io = IoIdle /\ io' # IoIdle /\ io'.key = k /\ io'.record = r
         /\ UNCHANGED <<disk, opened>>
<1>1. StoreInv' /\ StoreStep
  BY SameRecordStep, ChangeCacheStep DEF WriteRecord
<1>2. PICK step \in Steps, previous \in {r, cache[k]} :
        io' = [step |-> step, key |-> k, record |-> r, previous |-> previous]
  BY DEF WriteRecord, SameRecord, ChangeCache, Steps
<1>3. io' # IoIdle /\ io'.key = k /\ io'.record = r
  BY <1>2 DEF IoIdle, Steps
<1>4. io = IoIdle /\ UNCHANGED <<disk, opened>>
  BY DEF WriteRecord, SameRecord, ChangeCache
<1> QED
  BY <1>1, <1>3, <1>4

LEMMA RemoveKeeps ==
  ASSUME IInv, NEW k \in Keys, Remove(k)
  PROVE  IInv' /\ StoreStep
<1>1. /\ CanOperate /\ WriteRecord(k, None)
      /\ job' = [kind |-> "remove", todo |-> {}, stamp |-> 0]
      /\ UNCHANGED <<entry, enabled, suspended, elapsed, changes, faults, unread>>
  BY DEF Remove, RemoveRecord
<1>2. opened
  BY <1>1 DEF CanOperate
<1>3. /\ StoreInv' /\ StoreStep /\ io' # IoIdle /\ io'.record = None
      /\ UNCHANGED <<disk, opened>>
  BY <1>1, <1>2, RequestStarts, ValuesAssumption DEF IInv, Records
<1>4. job' \in Job /\ job'.kind = "remove"
  BY <1>1, WidthAssumption DEF Job
<1>5. TypeOK'
  BY <1>1, <1>3, <1>4 DEF IInv, TypeOK, StoreInv
<1>6. JobInv' /\ StampInv'
  BY <1>2, <1>3, <1>4 DEF JobInv, StampInv
<1>7. NoLostChange' /\ UnreadInv'
  BY <1>1, <1>3, <1>4 DEF IInv, NoLostChange, UnreadInv
<1> QED
  BY <1>3, <1>5, <1>6, <1>7 DEF IInv

LEMMA EncodeKeeps ==
  ASSUME IInv, NEW k \in Keys, Encode(k)
  PROVE  IInv' /\ StoreStep
<1>1. /\ job.kind \in {"save", "all"} /\ k \in job.todo
      /\ ~Refused(k) /\ ~Clean(k)
      /\ WriteRecord(k, entry[k].value)
      /\ entry' = [entry EXCEPT ![k] = Asked(k)]
      /\ job' = [job EXCEPT !.stamp = entry'[k].revision]
      /\ UNCHANGED <<enabled, suspended, elapsed, changes, faults, unread>>
  BY DEF Encode, Saving, Turn
<1>2. opened
  BY <1>1 DEF IInv, JobInv, JobIdle
<1>3. entry \in [Keys -> Entry] /\ job \in Job
  BY DEF IInv, TypeOK
<1>4. entry[k].value \in Records \ {Bad}
  BY <1>3, ValuesAssumption DEF Entry, Records
<1>5. /\ StoreInv' /\ StoreStep
      /\ io' # IoIdle /\ io'.key = k /\ io'.record = entry[k].value
      /\ UNCHANGED <<disk, opened>>
  BY <1>1, <1>2, <1>4, RequestStarts DEF IInv
<1>6. /\ entry' \in [Keys -> Entry] /\ entry'[k] = Asked(k)
      /\ entry'[k].value = entry[k].value
      /\ \A j \in Keys : /\ entry'[j].live = entry[j].live
                         /\ entry'[j].protected = entry[j].protected
                         /\ entry'[j] = entry[j] \/ entry'[j].pending = TRUE
  BY <1>1, <1>3, AskedEntry
<1>7. k \in Models => entry'[k].pending
  BY <1>1, <1>3, <1>6, AskedEntry DEF Clean
<1>8. /\ job' \in Job /\ job'.kind = job.kind /\ job'.todo = job.todo
      /\ job'.stamp = entry'[k].revision /\ entry'[k].revision \in 0..Width
  BY <1>1, <1>3, <1>6 DEF Job, Entry
<1>9. TypeOK'
  BY <1>1, <1>5, <1>6, <1>8 DEF IInv, TypeOK, StoreInv
<1>10. JobInv'
  BY <1>1, <1>2, <1>3, <1>5, <1>6, <1>8 DEF IInv, JobInv, Job
<1>11. StampInv'
  BY <1>5, <1>6, <1>7, <1>8 DEF StampInv
<1>12. NoLostChange'
  BY <1>5, <1>6, ModelsAssumption DEF IInv, NoLostChange
<1>13. UnreadInv'
  <2>1. job.kind = "all" => ~(k \in unread /\ disk.image[k] = Bad)
    BY <1>1 DEF IInv, JobInv, UnreadInv, Refused, Forced
  <2> QED
    BY <1>1, <1>5, <1>6, <1>8, <2>1 DEF IInv, UnreadInv, TypeOK
<1> QED
  BY <1>5, <1>9, <1>10, <1>11, <1>12, <1>13 DEF IInv

\* A request on its way: only its rename changes the file, and only at its key.
LEMMA RequestMoves ==
  ASSUME StoreInv, Advance \/ Fail
  PROVE  /\ StoreInv' /\ StoreStep
         /\ io # IoIdle /\ io' # IoIdle /\ io'.key = io.key /\ io'.record = io.record
         /\ io.key \in Keys /\ io.record # Bad
         /\ disk' = disk \/ disk'.image = [disk.image EXCEPT ![io.key] = io.record]
         /\ disk.image \in Image /\ UNCHANGED opened
<1>1. StoreInv' /\ StoreStep
  BY AdvanceStep, RenameStep, FailStep DEF Advance
<1>2. /\ io # IoIdle /\ io.key \in Keys /\ io.record # Bad
      /\ io \in [step : Steps, key : Keys, record : Records, previous : Records]
  BY IoFields DEF StoreInv, BadInv, IoIdle, Advance, CreateTmp, WriteAll, SyncAll, Rename, Fail
<1>3. PICK s \in Steps : io' = [io EXCEPT !.step = s]
  BY DEF Advance, CreateTmp, WriteAll, SyncAll, Rename, Fail, Steps
<1>4. io' # IoIdle /\ io'.key = io.key /\ io'.record = io.record
  BY <1>2, <1>3 DEF IoIdle, Steps
<1>5. disk' = disk \/ disk'.image = [disk.image EXCEPT ![io.key] = io.record]
  BY DEF StoreInv, CacheInv, Busy, Advance, CreateTmp, WriteAll, SyncAll, Rename, Fail
<1>6. disk.image \in Image /\ UNCHANGED opened
  BY DEF StoreInv, CacheInv, Advance, CreateTmp, WriteAll, SyncAll, Rename, Fail
<1> QED
  BY <1>1, <1>2, <1>4, <1>5, <1>6

LEMMA StorageKeeps ==
  ASSUME IInv, StorageStep \/ StorageFails
  PROVE  IInv' /\ StoreStep
<1>1. /\ Advance \/ Fail
      /\ UNCHANGED <<entry, enabled, suspended, elapsed, job, changes, unread>>
  BY DEF StorageStep, StorageFails
<1>2. /\ StoreInv' /\ StoreStep
      /\ io # IoIdle /\ io' # IoIdle /\ io'.key = io.key /\ io'.record = io.record
      /\ io.key \in Keys /\ io.record # Bad
      /\ disk' = disk \/ disk'.image = [disk.image EXCEPT ![io.key] = io.record]
      /\ disk.image \in [Keys -> Records] /\ UNCHANGED opened
  BY <1>1, RequestMoves DEF IInv, Image
<1>3. faults' \in 0..MaxFaults
  BY BoundsAssumption DEF StorageStep, StorageFails, IInv, TypeOK
<1>4. TypeOK'
  BY <1>1, <1>2, <1>3 DEF IInv, TypeOK, StoreInv
<1>5. JobInv' /\ StampInv'
  BY <1>1, <1>2 DEF IInv, JobInv, StampInv
<1>6. NoLostChange'
  <2>1. SUFFICES ASSUME NEW k \in Models, opened, entry[k].live, ~entry[k].pending
                 PROVE  disk'.image[k] \in {entry[k].value, None}
    BY <1>1, <1>2 DEF NoLostChange
  <2>2. CASE disk'.image[k] = disk.image[k]
    BY <2>1, <2>2 DEF IInv, NoLostChange
  <2>3. CASE disk'.image[k] # disk.image[k]
    <3>1. k = io.key /\ disk'.image[k] = io.record
      BY <1>2, <2>1, <2>3, ModelsAssumption
    <3>2. job.kind = "remove"
      BY <1>2, <2>1, <3>1 DEF IInv, StampInv, JobInv, TypeOK, Job
    <3> QED
      BY <3>1, <3>2 DEF IInv, JobInv
  <2> QED
    BY <2>2, <2>3
<1>7. UnreadInv'
  <2>1. \A k \in Keys : disk'.image[k] = Bad => disk.image[k] = Bad
    BY <1>2
  <2> QED
    BY <1>1, <1>2, <2>1 DEF IInv, UnreadInv, TypeOK
<1> QED
  BY <1>2, <1>4, <1>5, <1>6, <1>7 DEF IInv

LEMMA WrittenKeeps ==
  ASSUME IInv, Written
  PROVE  IInv' /\ StoreStep
<1>1. /\ Answered /\ job.kind \in {"save", "all"} /\ job' = Without(io.key)
      /\ entry' = IF io.step = "accepted" THEN Receipt(io.key) ELSE entry
      /\ UNCHANGED <<enabled, suspended, elapsed, changes, faults, unread>>
  BY DEF Written
<1>2. /\ StoreInv' /\ StoreStep /\ io' = IoIdle /\ UNCHANGED <<disk, opened>>
      /\ io # IoIdle /\ io.key \in Keys
  BY <1>1, AnsweredStep, IoFields DEF IInv, StoreInv, Answered, IoIdle
<1>3. /\ job' \in Job /\ job'.kind = job.kind /\ job'.todo \subseteq job.todo /\ job.todo \subseteq Keys
  BY <1>1, WithoutTarget DEF IInv, TypeOK, Job
<1>4. entry \in [Keys -> Entry]
  BY DEF IInv, TypeOK
<1> DEFINE k == io.key
           c == Confirmed(entry[k], job.stamp)
<1>5. /\ c \in Entry /\ c.live = entry[k].live /\ c.value = entry[k].value
      /\ ~(job.stamp # Width /\ entry[k].revision = job.stamp) => c = entry[k]
  BY <1>2, <1>4, ConfirmedEntry
<1>6. CASE io.step = "accepted" /\ k \in Models /\ entry[k].live
  <2>1. entry' = [entry EXCEPT ![k] = [c EXCEPT !.protected = FALSE]]
    BY <1>1, <1>6 DEF Receipt
  <2>2. disk.image[k] = io.record /\ io.record # Bad
    BY <1>2, <1>6 DEF IInv, StoreInv, CacheInv, BadInv
  <2>3. /\ entry' \in [Keys -> Entry]
        /\ entry'[k].live = entry[k].live /\ entry'[k].value = entry[k].value
        /\ entry'[k].pending = c.pending
        /\ \A j \in Keys \ {k} : entry'[j] = entry[j]
    <3> HIDE DEF c, k
    <3> DEFINE d == [c EXCEPT !.protected = FALSE]
    <3>1. d \in Entry /\ d.live = c.live /\ d.value = c.value /\ d.pending = c.pending
      BY <1>5 DEF Entry
    <3> HIDE DEF d
    <3>2. k \in Keys
      BY <1>2 DEF k
    <3> QED
      BY <1>4, <1>5, <2>1, <3>1, <3>2 DEF d
  <2>4. TypeOK'
    BY <1>1, <1>2, <1>3, <2>3 DEF IInv, TypeOK, StoreInv
  <2>5. JobInv' /\ StampInv'
    BY <1>1, <1>2, <1>3, <2>3 DEF IInv, JobInv, StampInv, JobIdle
  <2>6. c.pending \/ disk.image[k] = entry[k].value
    BY <1>1, <1>2, <1>5, <1>6, <2>2 DEF IInv, StampInv
  <2>7. NoLostChange'
    BY <1>2, <2>3, <2>6, ModelsAssumption DEF IInv, NoLostChange
  <2>8. UnreadInv'
    BY <1>1, <1>2, <2>2, <2>3 DEF IInv, UnreadInv, TypeOK
  <2> QED
    BY <1>2, <2>4, <2>5, <2>7, <2>8 DEF IInv
<1>7. CASE ~(io.step = "accepted" /\ k \in Models /\ entry[k].live)
  <2>1. entry' = entry
    BY <1>1, <1>4, <1>7 DEF Receipt
  <2>2. TypeOK'
    BY <1>1, <1>2, <1>3, <2>1 DEF IInv, TypeOK, StoreInv
  <2>3. JobInv' /\ StampInv'
    BY <1>1, <1>2, <1>3, <2>1 DEF IInv, JobInv, StampInv, JobIdle
  <2>4. NoLostChange' /\ UnreadInv'
    BY <1>1, <1>2, <2>1 DEF IInv, NoLostChange, UnreadInv
  <2> QED
    BY <1>2, <2>2, <2>3, <2>4 DEF IInv
<1> QED
  BY <1>6, <1>7

LEMMA RemovedKeeps ==
  ASSUME IInv, Removed
  PROVE  IInv' /\ StoreStep
<1>1. /\ Answered /\ job' = JobIdle
      /\ UNCHANGED <<entry, enabled, suspended, elapsed, changes, faults, unread>>
  BY DEF Removed
<1>2. StoreInv' /\ StoreStep /\ io' = IoIdle /\ UNCHANGED <<disk, opened>>
  BY <1>1, AnsweredStep DEF IInv, Answered
<1>3. TypeOK'
  BY <1>1, <1>2, JobTypes DEF IInv, TypeOK, StoreInv
<1>4. JobInv' /\ StampInv'
  BY <1>1, <1>2 DEF JobInv, StampInv, JobIdle
<1>5. NoLostChange' /\ UnreadInv'
  BY <1>1, <1>2 DEF IInv, NoLostChange, UnreadInv
<1> QED
  BY <1>2, <1>3, <1>4, <1>5 DEF IInv

LEMMA FlushKeeps ==
  ASSUME IInv, Flush
  PROVE  IInv' /\ StoreStep
<1>1. /\ FlushDirectory
      /\ UNCHANGED <<disk, opened, io, entry, enabled, suspended, elapsed, job, changes, faults, unread>>
  BY DEF Flush, FlushDirectory
<1>2. StoreInv' /\ StoreStep
  BY <1>1, FlushDirectoryStep DEF IInv
<1> QED
  BY <1>1, <1>2 DEF IInv, TypeOK, StoreInv, JobInv, StampInv, NoLostChange, UnreadInv

LEMMA StutterKeeps ==
  ASSUME IInv, UNCHANGED vars
  PROVE  IInv' /\ StoreStep
<1>1. StoreInv' /\ StoreStep
  BY StorageStays DEF IInv, vars
<1> QED
  BY <1>1 DEF vars, storageVars, IInv, TypeOK, StoreInv, JobInv, StampInv, NoLostChange, UnreadInv

-----------------------------------------------------------------------------

LEMMA InitHolds ==
  ASSUME Init
  PROVE  IInv /\ Store!Init
<1>1. /\ disk \in [image : [Keys -> {Bad, None} \cup Values], synced : {TRUE}]
      /\ older = {} /\ tmp = NoFile /\ opened = FALSE /\ cache = disk.image /\ io = IoIdle
      /\ io.step = "idle"
  BY DEF Init, StorageInit, IoIdle
<1>2. disk.image \in Image /\ disk.synced = TRUE
  BY <1>1 DEF Image, Records
<1>3. StoreInv
  BY <1>1, <1>2 DEF StoreInv, StorageTypeOK, CacheInv, BadInv, Busy, Io, File, NoFile
<1>4. /\ entry = [k \in Keys |-> Absent(k)] /\ enabled = TRUE /\ suspended = FALSE
      /\ elapsed = 0 /\ job = JobIdle /\ changes = 0 /\ faults = 0 /\ unread = {}
  BY DEF Init
<1>5. entry \in [Keys -> Entry] /\ \A k \in Keys : ~entry[k].live
  BY <1>4, AbsentEntry
<1>6. 0 \in 0..Interval /\ 0 \in 0..MaxChanges /\ 0 \in 0..MaxFaults
  BY WidthAssumption, BoundsAssumption
<1>7. TypeOK
  BY <1>3, <1>4, <1>5, <1>6, JobTypes DEF TypeOK, StoreInv
<1>8. JobInv /\ StampInv
  BY <1>1, <1>4 DEF JobInv, StampInv, JobIdle
<1>9. NoLostChange /\ UnreadInv
  BY <1>1, <1>4 DEF NoLostChange, UnreadInv
<1>10. Store!Init
  BY <1>1, <1>2 DEF Store!Init, Store!Image, Store!Idle, Image, AskedRequest
<1> QED
  BY <1>3, <1>7, <1>8, <1>9, <1>10 DEF IInv

LEMMA NextKeeps ==
  ASSUME IInv, [Next]_vars
  PROVE  IInv' /\ StoreStep
<1>1. ASSUME NEW k \in Keys, Operation(k)
      PROVE  IInv' /\ StoreStep
  BY <1>1, RegisterModelKeeps, RegisterItemKeeps, ChangeKeeps, RetireKeeps, RestoreKeeps,
     BeginningKeeps, RemoveKeeps DEF Operation
<1>2. ASSUME Progress
      PROVE  IInv' /\ StoreStep
  BY <1>2, SkipKeeps, EncodeKeeps, DeferKeeps, StorageKeeps, WrittenKeeps, RemovedKeeps,
     DoneKeeps DEF Progress
<1> QED
  BY <1>1, <1>2, StartKeeps, SetEnabledKeeps, BeginningKeeps, EndKeeps, FlushKeeps, StutterKeeps
     DEF Next

\* An unreadable record is replaced at its key by an explicit save or removal: the file
\* changes only where the request is, and a save of everything is not at that key.
LEMMA UnreadStep ==
  ASSUME IInv, [Next]_vars, NEW k \in Keys,
         opened, k \in unread, disk.image[k] = Bad, disk'.image[k] # Bad
  PROVE  io # IoIdle /\ io.key = k /\ job.kind \in {"save", "remove"}
<1>1. CASE StorageStep \/ StorageFails
  <2>1. /\ io # IoIdle /\ disk.image \in [Keys -> Records]
        /\ disk' = disk \/ disk'.image = [disk.image EXCEPT ![io.key] = io.record]
    BY <1>1, RequestMoves DEF IInv, Image, StorageStep, StorageFails
  <2>2. io.key = k
    BY <2>1
  <2> QED
    BY <2>1, <2>2 DEF IInv, UnreadInv, JobInv, TypeOK, Job
<1>2. CASE LosePower
  <2>1. disk'.image \in older \cup {disk.image}
    BY <1>2 DEF LosePower, PowerLoss, IInv, StoreInv, CacheInv
  <2> QED
    BY <2>1 DEF IInv, StoreInv, BadInv
<1>3. CASE Written \/ Removed \/ Crash \/ Flush \/ Start
  BY <1>3 DEF Written, Removed, Answered, Crash, Close, Flush, FlushDirectory, Start, Open
<1>4. CASE \E j \in Keys : Remove(j) \/ Encode(j)
  BY <1>4 DEF Remove, RemoveRecord, Encode, WriteRecord, SameRecord, ChangeCache
<1>5. ASSUME UNCHANGED storageVars
      PROVE  FALSE
  BY <1>5 DEF storageVars
<1>6. CASE \/ SetEnabled \/ SaveAll \/ Stop \/ Resume \/ Done \/ \E d \in 0..1 : Frame(d)
           \/ UNCHANGED vars
  BY <1>5, <1>6 DEF SetEnabled, SaveAll, Stop, Resume, Done, Frame, vars
<1>7. CASE \E j \in Keys : RegisterModel(j) \/ RegisterItem(j) \/ Change(j) \/ Retire(j)
                           \/ Restore(j) \/ Save(j) \/ Skip(j) \/ Defer(j)
  BY <1>5, <1>7 DEF RegisterModel, RegisterItem, Change, Retire, Restore, Save, Skip, Defer
<1> QED
  BY <1>1, <1>2, <1>3, <1>4, <1>6, <1>7 DEF Next, Operation, Progress

(* The invariant that makes persistence safe, conjunct by conjunct as above. *)
THEOREM Inductive == Spec => []IInv
<1>1. Init => IInv
  BY InitHolds
<1>2. IInv /\ [Next]_vars => IInv'
  BY NextKeeps
<1> QED
  BY <1>1, <1>2, PTL DEF Spec

(* The state has the types that FileStorage, Candidate and the jobs of the *)
(* registry have, whatever fails.                                          *)
THEOREM Typing == Spec => []TypeOK
BY Inductive, PTL DEF IInv

(* A Model is off the list of candidates only while its value is in the    *)
(* file, or its record was removed (Candidate::confirm).                   *)
THEOREM ChangesKept == Spec => []NoLostChange
BY Inductive, PTL DEF IInv

(* A record that could not be read is replaced only by an explicit save or *)
(* removal of its key (models.rs, save).                                   *)
THEOREM UnreadableKept == Spec => UnreadKept
<1>1. IInv /\ [Next]_vars
        => [\A k \in Keys :
              opened /\ k \in unread /\ disk.image[k] = Bad /\ disk'.image[k] # Bad
                => io # IoIdle /\ io.key = k /\ job.kind \in {"save", "remove"}]_vars
  BY UnreadStep
<1> QED
  BY <1>1, Inductive, PTL DEF Spec, UnreadKept

(* The file, with its cache, its temporary file and the rename, implements *)
(* the store of records of the Storage contract: every step of the program *)
(* is a step of RecordStore, or leaves it as it is.                        *)
THEOREM Implementation == Spec => StoreImplemented
<1>1. Init => Store!Init
  BY InitHolds
<1>2. IInv /\ [Next]_vars => [Store!Next]_<<disk.image, older, AskedRequest>>
  BY NextKeeps DEF StoreStep
<1> QED
  BY <1>1, <1>2, Inductive, PTL DEF Spec, StoreImplemented, Store!Spec
=============================================================================
