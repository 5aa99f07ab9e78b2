---------------------------- MODULE RecordStore ----------------------------
(***************************************************************************)
(* What the contract of core/storage/mod.rs promises a caller, and what    *)
(* core/storage/file.rs promises of the next start: a record changes       *)
(* whole, together with no other; a request that was refused changed       *)
(* nothing, then or later; one that was accepted survives the end of the   *)
(* process.  A loss of power may bring back contents the file had before,  *)
(* for the directory entry is not flushed, but never a mixture.            *)
(***************************************************************************)
CONSTANTS Keys, Records

VARIABLES
  stored,   \* what a new process would read
  recent,   \* contents replaced since the directory was last flushed
  request   \* the request being served

Idle == [state |-> "idle"]
Image == [Keys -> Records]
Request == [key : Keys, record : Records, state : {"asked", "accepted", "refused"}]

Init ==
  /\ stored \in Image
  /\ recent = {}
  /\ request = Idle

(* A caller asks for a record to be written, or removed. *)
Ask(k, r) ==
  /\ request = Idle
  /\ request' = [key |-> k, record |-> r, state |-> "asked"]
  /\ UNCHANGED <<stored, recent>>

(* The record is there already. *)
Unchanged(k, r) ==
  /\ request = Idle
  /\ stored[k] = r
  /\ request' = [key |-> k, record |-> r, state |-> "accepted"]
  /\ UNCHANGED <<stored, recent>>

Commit ==
  /\ request.state = "asked"
  /\ stored' = [stored EXCEPT ![request.key] = request.record]
  /\ recent' = recent \cup {stored}
  /\ request' = [request EXCEPT !.state = "accepted"]

Refuse ==
  /\ request.state = "asked"
  /\ request' = [request EXCEPT !.state = "refused"]
  /\ UNCHANGED <<stored, recent>>

(* The caller has seen the answer. *)
Return ==
  /\ request.state \in {"accepted", "refused"}
  /\ request' = Idle
  /\ UNCHANGED <<stored, recent>>

(* The process ends, whatever it was doing. *)
Crash ==
  /\ request' = Idle
  /\ UNCHANGED <<stored, recent>>

PowerLoss ==
  /\ stored' \in recent \cup {stored}
  /\ recent' = {}
  /\ request' = Idle

FlushDirectory ==
  /\ recent' = {}
  /\ UNCHANGED <<stored, request>>

Next ==
  \/ \E k \in Keys, r \in Records : Ask(k, r) \/ Unchanged(k, r)
  \/ Commit \/ Refuse \/ Return
  \/ Crash \/ PowerLoss \/ FlushDirectory

Spec == Init /\ [][Next]_<<stored, recent, request>>
=============================================================================
