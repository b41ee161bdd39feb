---------------------------- MODULE UploadStore ----------------------------
(***************************************************************************)
(* One upload of the LogAgent server: its payload file, its record, the    *)
(* request handlers that send chunks, complete it or receive it as a       *)
(* multipart body, and the task creations that copy it.                    *)
(*                                                                         *)
(* UploadStore holds one write lock across its file operations. A handler  *)
(* whose client goes away is dropped at an await point: its lock is free   *)
(* again while a write it handed to the blocking pool may still land. The  *)
(* bytes of the file are positions 1, 2, ...: what a client sends for a    *)
(* position is always the same byte. A record is on disk before it is in   *)
(* memory, without an await in between, and is one variable.               *)
(***************************************************************************)
EXTENDS Integers

CONSTANTS
  Sizes,         \* the sizes clients declare
  MaxUpload,     \* storage.max_upload_bytes
  MaxChunk,      \* storage.max_chunk_bytes
  Handlers,      \* request handlers in progress
  NoHandler,     \* nobody holds the write lock
  MaxCrashes,    \* bound: how often the server process dies
  MaxFaults      \* bound: failed writes and dropped request handlers

ASSUME LimitsAreNaturals ==
  Sizes \subseteq Nat /\ MaxUpload \in Nat /\ MaxChunk \in Nat
ASSUME NoHandlerIsNone == NoHandler \notin Handlers
ASSUME BoundsAreNaturals == MaxCrashes \in Nat /\ MaxFaults \in Nat

VARIABLES
  record,    \* UploadRecord: its status, size and expected size
  origin,    \* how the upload began
  filled,    \* the positions of the payload file that were written
  len,       \* the length of the payload file
  lock,      \* who holds the write lock of the store
  pc, op,    \* the next step of a handler, and what it works on
  detached,  \* writes of dropped handlers that the blocking pool still runs
  acked,     \* the bytes a client was told are received
  raw,       \* the copies of the payload in the workspaces of tasks
  mode, crashes, faults

fileVars == <<filled, len>>
envVars  == <<mode, crashes, faults>>
vars == <<record, origin, fileVars, lock, pc, op, detached, acked, raw, envVars>>

-----------------------------------------------------------------------------
(* A write in progress: bytes first .. last of it are still to land; a chunk
   handler also keeps the length of the file it was told. *)
Idle == [first |-> 1, last |-> 0, stat |-> 0]

Steps == {"idle", "chunk", "chunk_check", "writing", "complete", "complete_check",
          "receiving", "copying"}

Goto(h, step) == pc' = [pc EXCEPT ![h] = step]

(* The handler of h answers, or is gone: the guard releases the lock. *)
Leave(h) ==
  /\ Goto(h, "idle")
  /\ op' = [op EXCEPT ![h] = Idle]
  /\ lock' = IF lock = h THEN NoHandler ELSE lock

Init ==
  /\ record = [status |-> "none", size |-> 0, expected |-> 0]
  /\ origin = "none"
  /\ filled = {} /\ len = 0
  /\ lock = NoHandler
  /\ pc = [h \in Handlers |-> "idle"]
  /\ op = [h \in Handlers |-> Idle]
  /\ detached = {}
  /\ acked = 0
  /\ raw = {}
  /\ mode = "serving" /\ crashes = 0 /\ faults = 0

-----------------------------------------------------------------------------
(* init_upload: an empty payload file, then a record. *)
InitUpload ==
  /\ mode = "serving" /\ origin = "none"
  /\ origin' = "chunked"
  /\ \E size \in Sizes :
       /\ size <= MaxUpload
       /\ record' = [status |-> "UPLOADING", size |-> 0, expected |-> size]
  /\ UNCHANGED <<fileVars, lock, pc, op, detached, acked, raw, envVars>>

(* append_chunk takes the write lock. A chunk that is too large, or for an
   upload that is unknown or complete, is refused without effect. *)
BeginChunk(h, offset, bytes) ==
  /\ mode = "serving" /\ pc[h] = "idle" /\ lock = NoHandler
  /\ bytes <= MaxChunk
  /\ record.status = "UPLOADING"
  /\ lock' = h
  /\ op' = [op EXCEPT ![h] = [first |-> offset + 1, last |-> offset + bytes, stat |-> 0]]
  /\ Goto(h, "chunk")
  /\ UNCHANGED <<record, origin, fileVars, detached, acked, raw, envVars>>

(* complete takes the write lock, of a complete upload as well. *)
BeginComplete(h) ==
  /\ mode = "serving" /\ pc[h] = "idle" /\ lock = NoHandler
  /\ record.status # "none"
  /\ lock' = h
  /\ Goto(h, "complete")
  /\ UNCHANGED <<record, origin, fileVars, op, detached, acked, raw, envVars>>

(* Both ask for the length of the file; it may have grown when they use it. *)
Stat(h) ==
  /\ \/ pc[h] = "chunk" /\ Goto(h, "chunk_check")
     \/ pc[h] = "complete" /\ Goto(h, "complete_check")
  /\ op' = [op EXCEPT ![h].stat = len]
  /\ UNCHANGED <<record, origin, fileVars, lock, detached, acked, raw, envVars>>

(* MUTANT of Fits: the offset is not compared. *)
FitsAnywhere(o) == o.last <= MaxUpload /\ o.last <= record.expected

(* MUTANT of Fits: the declared size is not a limit. *)
FitsUnlimited(o) == o.first = o.stat + 1 /\ o.last <= MaxUpload

(* A chunk must begin where the file ends and keep within both limits. *)
Fits(o) ==
  /\ o.first = o.stat + 1
  /\ o.last <= MaxUpload /\ o.last <= record.expected

(* append_chunk corrects the record to the file, then accepts or refuses. *)
CheckChunk(h) ==
  /\ pc[h] = "chunk_check"
  /\ record' = [record EXCEPT !.size = op[h].stat]
  /\ IF Fits(op[h]) THEN Goto(h, "writing") /\ UNCHANGED <<lock, op>> ELSE Leave(h)
  /\ UNCHANGED <<origin, fileVars, detached, acked, raw, envVars>>

(* A byte reaches the file. *)
Put(position) ==
  /\ filled' = filled \union {position}
  /\ len' = IF position > len THEN position ELSE len

(* MUTANT of RecordChunk: the record is written and the client told before
   the bytes are flushed. *)
RecordChunkEarly(h) ==
  /\ pc[h] = "writing"
  /\ record' = [record EXCEPT !.size = op[h].last]
  /\ acked' = IF op[h].last > acked THEN op[h].last ELSE acked
  /\ Leave(h)
  /\ UNCHANGED <<origin, fileVars, detached, raw, envVars>>

(* The next byte of a handler's write lands. *)
LandByte(h) ==
  /\ pc[h] \in {"writing", "receiving"}
  /\ op[h].first <= op[h].last
  /\ Put(op[h].first)
  /\ op' = [op EXCEPT ![h].first = @ + 1]
  /\ UNCHANGED <<record, origin, lock, pc, detached, acked, raw, envVars>>

(* MUTANT of RecordChunk: the bytes that remain, subtracted the wrong way. *)
RecordRemaining(h) ==
  /\ pc[h] = "writing" /\ op[h].first > op[h].last
  /\ record' = [record EXCEPT !.size = op[h].last - record.expected]
  /\ acked' = IF op[h].last > acked THEN op[h].last ELSE acked
  /\ Leave(h)
  /\ UNCHANGED <<origin, fileVars, detached, raw, envVars>>

(* append_chunk: every byte is flushed, and the record tells so. *)
RecordChunk(h) ==
  /\ pc[h] = "writing" /\ op[h].first > op[h].last
  /\ record' = [record EXCEPT !.size = op[h].last]
  /\ acked' = IF op[h].last > acked THEN op[h].last ELSE acked
  /\ Leave(h)
  /\ UNCHANGED <<origin, fileVars, detached, raw, envVars>>

(* complete: the file must have the declared size. *)
CheckComplete(h) ==
  /\ pc[h] = "complete_check"
  /\ record' = IF op[h].stat = record.expected
               THEN [record EXCEPT !.size = op[h].stat, !.status = "COMPLETE"]
               ELSE record
  /\ Leave(h)
  /\ UNCHANGED <<origin, fileVars, detached, acked, raw, envVars>>

-----------------------------------------------------------------------------
(* A multipart body: the upload has no record, and so no other request can
   name it, until all of it is received. *)
BeginMultipart(h) ==
  /\ mode = "serving" /\ pc[h] = "idle"
  /\ origin = "none" /\ origin' = "multipart"
  /\ Goto(h, "receiving")
  /\ UNCHANGED <<record, fileVars, lock, op, detached, acked, raw, envVars>>

(* One more byte is received and handed to the file. *)
ReceiveByte(h) ==
  /\ pc[h] = "receiving"
  /\ op[h].last < MaxUpload
  /\ op' = [op EXCEPT ![h].last = @ + 1]
  /\ UNCHANGED <<record, origin, fileVars, lock, pc, detached, acked, raw, envVars>>

(* MUTANT of CreateComplete: without the flush and without validate_payload. *)
CreateUnflushed(h) ==
  /\ pc[h] = "receiving"
  /\ record' = [status |-> "COMPLETE", size |-> op[h].last, expected |-> op[h].last]
  /\ acked' = op[h].last
  /\ Leave(h)
  /\ UNCHANGED <<origin, fileVars, detached, raw, envVars>>

(* The body ends, the file is flushed and the record created as COMPLETE,
   after validate_payload compared its size with the file's. *)
CreateComplete(h) ==
  /\ pc[h] = "receiving" /\ op[h].first > op[h].last
  /\ len = op[h].last
  /\ record' = [status |-> "COMPLETE", size |-> op[h].last, expected |-> op[h].last]
  /\ acked' = op[h].last
  /\ Leave(h)
  /\ UNCHANGED <<origin, fileVars, detached, raw, envVars>>

-----------------------------------------------------------------------------
(* MUTANT of BeginCopy: an upload in progress is as good. *)
BeginCopyAny(h) ==
  /\ mode = "serving" /\ pc[h] = "idle"
  /\ record.status # "none"
  /\ Goto(h, "copying")
  /\ UNCHANGED <<record, origin, fileVars, lock, op, detached, acked, raw, envVars>>

(* create_log_analysis_task takes complete uploads only. *)
BeginCopy(h) ==
  /\ mode = "serving" /\ pc[h] = "idle"
  /\ record.status = "COMPLETE"
  /\ Goto(h, "copying")
  /\ UNCHANGED <<record, origin, fileVars, lock, op, detached, acked, raw, envVars>>

(* prepare_raw_snapshot copies the payload, without the lock of the store. *)
Copy(h) ==
  /\ pc[h] = "copying"
  /\ raw' = raw \union {filled}
  /\ Leave(h)
  /\ UNCHANGED <<record, origin, fileVars, detached, acked, envVars>>

-----------------------------------------------------------------------------
(* A multipart body is longer than allowed, a read or write fails, or the
   client goes away. What the handler has of a write may land later, or a part
   of it. *)
Fail(h) ==
  /\ \/ pc[h] = "receiving" /\ op[h].last = MaxUpload /\ faults' = faults
     \/ pc[h] # "idle" /\ faults < MaxFaults /\ faults' = faults + 1
  /\ \/ UNCHANGED detached
     \/ \E last \in op[h].first .. op[h].last :
          /\ pc[h] \in {"writing", "receiving"}
          /\ detached' = detached \union {[first |-> op[h].first, last |-> last]}
  /\ Leave(h)
  /\ UNCHANGED <<record, origin, fileVars, acked, raw, mode, crashes>>

LandDetached(d) ==
  /\ d \in detached
  /\ Put(d.first)
  /\ detached' = (detached \ {d})
       \union (IF d.first < d.last THEN {[first |-> d.first + 1, last |-> d.last]} ELSE {})
  /\ UNCHANGED <<record, origin, lock, pc, op, acked, raw, envVars>>

-----------------------------------------------------------------------------
Crash ==
  /\ mode = "serving" /\ crashes < MaxCrashes
  /\ mode' = "down" /\ crashes' = crashes + 1
  /\ lock' = NoHandler
  /\ pc' = [h \in Handlers |-> "idle"]
  /\ op' = [h \in Handlers |-> Idle]
  /\ detached' = {}
  /\ UNCHANGED <<record, origin, fileVars, acked, raw, faults>>

(* MUTANT of Consistent: the record of an upload in progress must agree too. *)
ConsistentAlways == record.status = "none" \/ record.size = len

(* What load demands of a record and its payload. *)
Consistent ==
  /\ record.status # "none" => len <= record.expected
  /\ record.status = "COMPLETE" => record.size = len /\ len = record.expected

(* UploadStore::load: the record of an upload in progress is corrected to the
   file; an inconsistent one keeps the server from starting. *)
Load ==
  /\ mode = "down"
  /\ IF Consistent
     THEN /\ mode' = "serving"
          /\ record' = IF record.status = "UPLOADING" THEN [record EXCEPT !.size = len] ELSE record
     ELSE mode' = "refused" /\ UNCHANGED record
  /\ UNCHANGED <<origin, fileVars, lock, pc, op, detached, acked, raw, crashes, faults>>

-----------------------------------------------------------------------------
Chunk(h) ==
  \/ \E offset \in 0 .. MaxUpload, bytes \in 0 .. MaxChunk : BeginChunk(h, offset, bytes)
  \/ CheckChunk(h) \/ RecordChunk(h)

Complete(h) == BeginComplete(h) \/ CheckComplete(h)

Multipart(h) == BeginMultipart(h) \/ ReceiveByte(h) \/ CreateComplete(h)

Handle(h) ==
  \/ Chunk(h) \/ Complete(h) \/ Stat(h) \/ Multipart(h) \/ LandByte(h)
  \/ BeginCopy(h) \/ Copy(h)
  \/ Fail(h)

Next ==
  \/ InitUpload
  \/ \E h \in Handlers : Handle(h)
  \/ \E d \in detached : LandDetached(d)
  \/ Crash \/ Load

Spec == Init /\ [][Next]_vars

-----------------------------------------------------------------------------
(* Properties *)

Write == [first : Nat, last : Nat]

TypeOK ==
  /\ record \in [status : {"none", "UPLOADING", "COMPLETE"}, size : Nat, expected : Nat]
  /\ origin \in {"none", "chunked", "multipart"}
  /\ filled \in SUBSET Nat /\ len \in Nat
  /\ lock \in Handlers \union {NoHandler}
  /\ pc \in [Handlers -> Steps]
  /\ op \in [Handlers -> [first : Nat, last : Nat, stat : Nat]]
  /\ detached \in SUBSET Write
  /\ acked \in Nat
  /\ raw \in SUBSET (SUBSET Nat)
  /\ mode \in {"serving", "down", "refused"}
  /\ crashes \in 0 .. MaxCrashes /\ faults \in 0 .. MaxFaults

(* The payload never has a hole: its bytes are the first bytes of the client's
   file, whatever chunks are repeated, reordered, cut short or land after
   their request is gone (upload_store.rs append_chunk). *)
PayloadIsPrefix == filled = 1 .. len

(* The bytes a client was told are received are in the file, and stay there
   over failed writes, dropped requests and restarts (upload_store.rs
   append_chunk flushes before it records). *)
AckedBytesKept == acked <= len

(* A complete upload is the whole file the client declared, also when a write
   of an earlier request lands after the completion (upload_store.rs
   complete). *)
CompletedIsWhole ==
  record.status = "COMPLETE" =>
    filled = 1 .. record.expected /\ record.size = record.expected

(* A restart never finds an upload that keeps the server from starting:
   whatever step a crash interrupts, load can correct the record
   (upload_store.rs load). *)
StartupNeverRefused == mode # "refused"

(* The raw snapshot a task works from is a whole file, though it is copied
   without the lock (pipeline/mod.rs prepare_raw_snapshot). *)
SnapshotIsWhole == \A copied \in raw : copied = 1 .. record.expected

(* A complete upload is final: no late write, repeated completion or restart
   changes its record or its payload. *)
CompletedIsFinal ==
  [][record.status = "COMPLETE" => UNCHANGED <<record, filled, len>>]_vars

=============================================================================
