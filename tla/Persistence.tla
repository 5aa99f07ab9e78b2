---------------------------- MODULE Persistence ----------------------------
(***************************************************************************)
(* The registry that saves Models and items (Signals, resources, custom    *)
(* bytes) under keys of a file: registration with its restore, protection  *)
(* of records that could not be read, save candidates, explicit saves,     *)
(* restores and removals, autosave at the end of a frame, and the saves on *)
(* suspend and quit (core/persistence, core/model/persistence).            *)
(*                                                                         *)
(* A save runs over its targets one after the other, and each may fail.    *)
(* The world's registry is taken out for the duration, so that no second   *)
(* operation starts meanwhile; the Models can change, when the backend     *)
(* passes on what it sees to one that updates them.  The process may end   *)
(* at any point and starts again from the file.                            *)
(*                                                                         *)
(* Which error a failure leaves for status is not modelled, nor ownership, *)
(* poisoned Models, or a reconfigured interval.                            *)
(***************************************************************************)
EXTENDS FileStorage

CONSTANTS
  Models,       \* keys of Models; the others are keys of items
  Width,        \* the last revision, u64::MAX in the code
  Interval,     \* of autosave, in clock samples
  MaxChanges,   \* how often a value changes in one run of the process
  MaxFaults     \* how often a codec or the file system fails, in all

ASSUME ModelsAssumption == Models \subseteq Keys
ASSUME WidthAssumption == Width \in Nat /\ Interval \in Nat \ {0}
ASSUME BoundsAssumption == MaxChanges \in Nat /\ MaxFaults \in Nat

VARIABLES
  entry,      \* of a key: its live registration and the value behind it
  enabled,
  suspended,
  elapsed,    \* autosave time since the last flush
  job,        \* the operation that has the registry
  changes, faults,
  unread      \* ghost: keys whose last read, to register or restore, failed

vars == <<storageVars, entry, enabled, suspended, elapsed, job, changes, faults, unread>>

Entry == [live : BOOLEAN, value : Values, revision : 0..Width,
          pending : BOOLEAN, protected : BOOLEAN]
JobIdle == [kind |-> "none", todo |-> {}, stamp |-> 0]
Job == [kind : {"none", "save", "all", "remove"}, todo : SUBSET Keys, stamp : 0..Width]

Absent(k) == [live |-> FALSE, value |-> CHOOSE v \in Values : TRUE, revision |-> 0,
              pending |-> TRUE, protected |-> FALSE]

(* Nothing of a process is there before it starts. *)
Fresh ==
  /\ entry' = [k \in Keys |-> Absent(k)]
  /\ suspended' = FALSE
  /\ elapsed' = 0
  /\ job' = JobIdle
  /\ changes' = 0
  /\ unread' = {}

Init ==
  /\ StorageInit
  /\ entry = [k \in Keys |-> Absent(k)]
  /\ enabled = TRUE
  /\ suspended = FALSE
  /\ elapsed = 0
  /\ job = JobIdle
  /\ changes = 0
  /\ faults = 0
  /\ unread = {}

\* Mutant: the revision does not saturate.
BumpUnbounded(r) == r + 1

Bump(r) == IF r = Width THEN Width ELSE r + 1

(* Candidate::changed and Candidate::confirm. *)
Changed(e) == [e EXCEPT !.revision = Bump(@), !.pending = TRUE]

\* Mutant: any write confirms whatever the Model holds by then.
ConfirmedBlindly(e, stamp) == [e EXCEPT !.pending = FALSE]

Confirmed(e, stamp) ==
  IF stamp # Width /\ e.revision = stamp THEN [e EXCEPT !.pending = FALSE] ELSE e

CanOperate == opened /\ job = JobIdle

-----------------------------------------------------------------------------

(* PersistencePlugin::build on a storage that could be opened. *)
Start ==
  /\ Open
  /\ enabled' \in BOOLEAN
  /\ Fresh
  /\ UNCHANGED faults

ReadOutcome(k) ==
  CASE ~enabled -> "none"
    [] enabled /\ cache[k] = None -> "none"
    [] enabled /\ cache[k] = Bad -> "failed"
    [] OTHER -> "restored"

(* register_with_codec: a Model whose record cannot be read is registered  *)
(* all the same and protected.                                             *)
RegisterModel(k) ==
  LET read == ReadOutcome(k)
      e == [live |-> TRUE, revision |-> 0, pending |-> TRUE,
            protected |-> read = "failed",
            value |-> IF read = "restored" THEN cache[k] ELSE entry[k].value]
  IN /\ CanOperate
     /\ k \in Models
     /\ ~entry[k].live
     /\ entry' = [entry EXCEPT ![k] = IF read = "restored" THEN Confirmed(e, 0) ELSE e]
     /\ unread' = IF read = "failed" THEN unread \cup {k} ELSE unread \ {k}
     /\ UNCHANGED <<storageVars, enabled, suspended, elapsed, job, changes, faults>>

(* signal, resource and bytes: an item whose record cannot be read is not  *)
(* registered.                                                             *)
RegisterItem(k) ==
  LET read == ReadOutcome(k)
  IN /\ CanOperate
     /\ k \in Keys \ Models
     /\ ~entry[k].live
     /\ entry' = IF read = "failed" THEN entry
                 ELSE [entry EXCEPT ![k].live = TRUE,
                                    ![k].value = IF read = "restored" THEN cache[k] ELSE @]
     /\ unread' = IF read = "failed" THEN unread \cup {k} ELSE unread \ {k}
     /\ UNCHANGED <<storageVars, enabled, suspended, elapsed, job, changes, faults>>

(* The program changes a value; a Model records a candidate. *)
Change(k) ==
  /\ opened
  /\ entry[k].live
  /\ changes < MaxChanges
  /\ changes' = changes + 1
  /\ \E v \in Values \ {entry[k].value} :
       LET e == [entry[k] EXCEPT !.value = v]
       IN entry' = [entry EXCEPT ![k] = IF k \in Models THEN Changed(e) ELSE e]
  /\ UNCHANGED <<storageVars, enabled, suspended, elapsed, job, faults, unread>>

(* A Model goes away; its entry is dropped before the next save. *)
Retire(k) ==
  /\ opened
  /\ k \in Models
  /\ entry[k].live
  /\ entry' = [entry EXCEPT ![k] = Absent(k)]
  /\ unread' = unread \ {k}
  /\ UNCHANGED <<storageVars, enabled, suspended, elapsed, job, changes, faults>>

(* Persistence::restore. *)
Restore(k) ==
  /\ CanOperate
  /\ enabled
  /\ k \in Models
  /\ entry[k].live
  /\ cache[k] # None
  /\ IF cache[k] = Bad
     THEN /\ entry' = [entry EXCEPT ![k].protected = TRUE]
          /\ unread' = unread \cup {k}
     ELSE /\ LET e == Changed([entry[k] EXCEPT !.value = cache[k], !.protected = FALSE])
             IN entry' = [entry EXCEPT ![k] = Confirmed(e, e.revision)]
          /\ unread' = unread \ {k}
  /\ UNCHANGED <<storageVars, enabled, suspended, elapsed, job, changes, faults>>

SetEnabled ==
  /\ CanOperate
  /\ enabled' = ~enabled
  /\ entry' = [k \in Keys |->
       IF enabled' /\ k \in Models /\ entry[k].live THEN Changed(entry[k]) ELSE entry[k]]
  /\ UNCHANGED <<storageVars, suspended, elapsed, job, changes, faults, unread>>

-----------------------------------------------------------------------------

(* An explicit save of one target. *)
Save(k) ==
  /\ CanOperate
  /\ enabled
  /\ entry[k].live
  /\ job' = [kind |-> "save", todo |-> {k}, stamp |-> 0]
  /\ UNCHANGED <<storageVars, entry, enabled, suspended, elapsed, changes, faults, unread>>

LiveKeys == {k \in Keys : entry[k].live}
AllJob == [kind |-> "all", todo |-> LiveKeys, stamp |-> 0]

SaveAll ==
  /\ CanOperate
  /\ enabled
  /\ job' = AllJob
  /\ UNCHANGED <<storageVars, entry, enabled, suspended, elapsed, changes, faults, unread>>

Remove(k) ==
  /\ CanOperate
  /\ enabled
  /\ RemoveRecord(k)
  /\ job' = [kind |-> "remove", todo |-> {}, stamp |-> 0]
  /\ UNCHANGED <<entry, enabled, suspended, elapsed, changes, faults, unread>>

(* Autosave::due, of the time d since the previous frame. *)
Elapsed(d) == IF elapsed + d > Interval THEN Interval ELSE elapsed + d
Due(time) == time >= Interval

(* post_render, and flush_and_stamp when the interval is over. *)
Frame(d) ==
  /\ CanOperate
  /\ ~suspended
  /\ enabled
  /\ elapsed' = IF Due(Elapsed(d)) THEN 0 ELSE Elapsed(d)
  /\ job' = IF Due(Elapsed(d)) THEN AllJob ELSE JobIdle
  /\ UNCHANGED <<storageVars, entry, enabled, suspended, changes, faults, unread>>

(* on_suspend, and on_quit, after which the process ends before long. *)
Stop ==
  /\ CanOperate
  /\ suspended' = TRUE
  /\ elapsed' = IF enabled THEN 0 ELSE elapsed
  /\ job' = IF enabled THEN AllJob ELSE JobIdle
  /\ UNCHANGED <<storageVars, entry, enabled, changes, faults, unread>>

Resume ==
  /\ CanOperate
  /\ suspended
  /\ suspended' = FALSE
  /\ UNCHANGED <<storageVars, entry, enabled, elapsed, job, changes, faults, unread>>

-----------------------------------------------------------------------------

Saving == job.kind \in {"save", "all"} /\ io = IoIdle
Forced == job.kind = "save"

(* Items come before Models. *)
Turn(k) == k \in job.todo /\ (k \in Models => job.todo \subseteq Models)
Without(k) == [job EXCEPT !.todo = @ \ {k}]

\* Mutant: a save does not look at the protection of the record.
RefusedRetired(k) == k \in Models /\ ~entry[k].live

(* What stands between a Model and its save. *)
Refused(k) == k \in Models /\ (~entry[k].live \/ (~Forced /\ entry[k].protected))
Clean(k) == k \in Models /\ ~Forced /\ ~entry[k].pending

Skip(k) ==
  /\ Saving
  /\ Turn(k)
  /\ Refused(k) \/ Clean(k)
  /\ job' = Without(k)
  /\ UNCHANGED <<storageVars, entry, enabled, suspended, elapsed, changes, faults, unread>>

(* An explicit save makes a clean Model a candidate first. *)
Asked(k) == IF k \in Models /\ Forced THEN Changed(entry[k]) ELSE entry[k]

(* The codec encodes the value and the storage is asked to write it. *)
Encode(k) ==
  /\ Saving
  /\ Turn(k)
  /\ ~Refused(k) /\ ~Clean(k)
  /\ entry' = [entry EXCEPT ![k] = Asked(k)]
  /\ WriteRecord(k, entry[k].value)
  /\ job' = [job EXCEPT !.stamp = entry'[k].revision]
  /\ UNCHANGED <<enabled, suspended, elapsed, changes, faults, unread>>

\* Mutant: a deferred Model is no longer a candidate.
DeferConfirming(k) ==
  /\ Saving
  /\ Turn(k)
  /\ ~Refused(k) /\ ~Clean(k)
  /\ faults < MaxFaults
  /\ faults' = faults + 1
  /\ entry' = [entry EXCEPT ![k].pending = FALSE]
  /\ job' = Without(k)
  /\ UNCHANGED <<storageVars, enabled, suspended, elapsed, changes, unread>>

(* The codec defers, fails, or has no value. *)
Defer(k) ==
  /\ Saving
  /\ Turn(k)
  /\ ~Refused(k) /\ ~Clean(k)
  /\ faults < MaxFaults
  /\ faults' = faults + 1
  /\ entry' = [entry EXCEPT ![k] = Asked(k)]
  /\ job' = Without(k)
  /\ UNCHANGED <<storageVars, enabled, suspended, elapsed, changes, unread>>

StorageStep ==
  /\ Advance
  /\ UNCHANGED <<entry, enabled, suspended, elapsed, job, changes, faults, unread>>

StorageFails ==
  /\ faults < MaxFaults
  /\ faults' = faults + 1
  /\ Fail
  /\ UNCHANGED <<entry, enabled, suspended, elapsed, job, changes, unread>>

(* A write that succeeded confirms the candidate it encoded, if the Model  *)
(* is still there, and ends the protection.                                *)
Receipt(k) ==
  [entry EXCEPT ![k] = IF k \in Models /\ @.live
                       THEN [Confirmed(@, job.stamp) EXCEPT !.protected = FALSE] ELSE @]

Written ==
  /\ Answered
  /\ job.kind \in {"save", "all"}
  /\ entry' = IF io.step = "accepted" THEN Receipt(io.key) ELSE entry
  /\ job' = Without(io.key)
  /\ UNCHANGED <<enabled, suspended, elapsed, changes, faults, unread>>

Removed ==
  /\ Answered
  /\ job.kind = "remove"
  /\ job' = JobIdle
  /\ UNCHANGED <<entry, enabled, suspended, elapsed, changes, faults, unread>>

(* The registry goes back into the world. *)
Done ==
  /\ Saving
  /\ job.todo = {}
  /\ job' = JobIdle
  /\ UNCHANGED <<storageVars, entry, enabled, suspended, elapsed, changes, faults, unread>>

-----------------------------------------------------------------------------

(* The process ends, after on_quit or at any other point. *)
Crash ==
  /\ Close
  /\ Fresh
  /\ UNCHANGED <<enabled, faults>>

LosePower ==
  /\ PowerLoss
  /\ Fresh
  /\ UNCHANGED <<enabled, faults>>

Flush ==
  /\ FlushDirectory
  /\ UNCHANGED <<entry, enabled, suspended, elapsed, job, changes, faults, unread>>

Operation(k) ==
  \/ RegisterModel(k) \/ RegisterItem(k) \/ Change(k) \/ Retire(k)
  \/ Restore(k) \/ Save(k) \/ Remove(k)

Progress ==
  \/ \E k \in Keys : Skip(k) \/ Encode(k) \/ Defer(k)
  \/ StorageStep \/ StorageFails
  \/ Written \/ Removed \/ Done

Next ==
  \/ Start
  \/ \E k \in Keys : Operation(k)
  \/ SetEnabled \/ SaveAll
  \/ \E d \in 0..1 : Frame(d)
  \/ Stop \/ Resume
  \/ Progress
  \/ Crash \/ LosePower \/ Flush

Spec == Init /\ [][Next]_vars

(* An operation runs to its end once it has the registry, and the host     *)
(* loop gets to the next frame between two of them.                        *)
FairSpec == Spec /\ WF_vars(Progress) /\ WF_vars(Flush) /\ SF_vars(Frame(1))

-----------------------------------------------------------------------------

TypeOK ==
  /\ StorageTypeOK
  /\ entry \in [Keys -> Entry]
  /\ enabled \in BOOLEAN
  /\ suspended \in BOOLEAN
  /\ elapsed \in 0..Interval
  /\ job \in Job
  /\ changes \in 0..MaxChanges /\ faults \in 0..MaxFaults
  /\ unread \subseteq Keys

(* A Model that is not a candidate for a save has its value in the file,   *)
(* or somebody removed the record: a write that failed, or that encoded an *)
(* older value than the present one, does not take it off the list         *)
(* (Candidate::confirm; endpoint.rs, save).                                *)
NoLostChange ==
  \A k \in Models :
    opened /\ entry[k].live /\ ~entry[k].pending
      => disk.image[k] \in {entry[k].value, None}

(* A record that could not be read when its value was registered or        *)
(* restored is replaced only by an explicit save or removal of that key:   *)
(* not by autosave, a suspend, or a save of another key (models.rs, save;  *)
(* docs/persistence.md:130).                                               *)
UnreadKept ==
  [][\A k \in Keys :
       opened /\ k \in unread /\ disk.image[k] = Bad /\ disk'.image[k] # Bad
         => io # IoIdle /\ io.key = k /\ job.kind \in {"save", "remove"}]_vars

(* The file behaves as the store of records that the Storage contract      *)
(* promises: see RecordStore.                                              *)
StoreImplemented == Store!Spec

(* A change is saved in time without anyone asking: a candidate that is    *)
(* not protected is in the file eventually, unless the process stops or is *)
(* suspended, saving is disabled, or the Model goes away (Autosave::due;   *)
(* PersistencePlugin, post_render).                                        *)
Running == opened /\ enabled /\ suspended = FALSE
AutosaveSaves ==
  \A k \in Models :
    (Running /\ entry[k].live /\ entry[k].pending /\ ~entry[k].protected)
      ~> (~Running \/ ~entry[k].live \/ entry[k].protected
            \/ disk.image[k] = entry[k].value)
=============================================================================
