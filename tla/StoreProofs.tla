---------------------------- MODULE StoreProofs ----------------------------
(***************************************************************************)
(* Proofs about the two stores whose files this project models write by    *)
(* write: UploadStore, one upload behind a lock, and MetadataStore, whose  *)
(* three files are saved one after the other.  They share nothing.         *)
(*                                                                         *)
(* UploadStore, for every number of requests, every size and every limit:  *)
(* the payload is a prefix of the client's file, what was acknowledged     *)
(* stays, a complete upload is whole and final, and a restart is never     *)
(* refused.  The argument does not need the write lock for the file        *)
(* itself: a write begins where the file ended at some earlier time, and   *)
(* the file only grows.  It needs the lock for the record, which a chunk   *)
(* handler rewrites from a copy.                                           *)
(*                                                                         *)
(* MetadataStore, for any templates, raw documents and queries: the store  *)
(* has what the last answered change left, an import replaces what it      *)
(* brings again, and the pages of a query are its section.                 *)
(***************************************************************************)
EXTENDS UploadStore, MetadataStore, FiniteSetTheorems, FunctionTheorems, SequenceTheorems,
        WellFoundedInduction, TLAPS

-----------------------------------------------------------------------------
(* The inductive invariant *)

Locked == {"chunk", "chunk_check", "writing", "complete", "complete_check"}

(* A handler at a locked step holds the lock of a recorded upload, and a chunk
   is only worked on while the upload is in progress. *)
LockInv ==
  \A h \in Handlers :
    /\ pc[h] \in Locked => lock = h /\ record.status # "none"
    /\ pc[h] \in {"chunk", "chunk_check", "writing"} => record.status = "UPLOADING"

(* Where a write begins and how far it may go. *)
WriteInv ==
  \A h \in Handlers :
    /\ pc[h] \in {"chunk_check", "complete_check"} => op[h].stat <= len
    /\ pc[h] = "writing" =>
         op[h].first >= 1 /\ op[h].first <= len + 1 /\ op[h].last <= record.expected
    /\ pc[h] = "receiving" => op[h].first >= 1 /\ op[h].first <= len + 1
    /\ pc[h] = "idle" => op[h].first = 1

DetachedInv ==
  \A d \in detached :
    /\ d.first >= 1 /\ d.first <= len + 1 /\ d.first <= d.last
    /\ record.status # "none" => d.last <= record.expected

(* A multipart upload has one handler and no record until it is received, and
   a record only if no write was left behind. *)
OriginInv ==
  /\ origin = "none" => record.status = "none" /\ detached = {} /\ len = 0
  /\ origin = "chunked" => record.status # "none"
  /\ record.status = "UPLOADING" => origin = "chunked"
  /\ \A h \in Handlers : pc[h] = "receiving" =>
       /\ origin = "multipart" /\ record.status = "none" /\ detached = {}
       /\ \A g \in Handlers : pc[g] = "receiving" => g = h

(* What the record says of the file. *)
RecordInv ==
  /\ record.status # "none" => len <= record.expected
  /\ record.status = "COMPLETE" => record.size = len /\ len = record.expected
  /\ acked <= len
  /\ raw # {} => record.status = "COMPLETE"
  /\ \A h \in Handlers : pc[h] = "copying" => record.status = "COMPLETE"

UploadInv ==
  /\ TypeOK /\ PayloadIsPrefix /\ LockInv /\ WriteInv /\ DetachedInv /\ OriginInv
  /\ RecordInv /\ SnapshotIsWhole /\ StartupNeverRefused

-----------------------------------------------------------------------------
(* A byte put where the file ends, or before, leaves no hole. *)
LEMMA PutKeepsPrefix ==
  ASSUME len \in Nat, PayloadIsPrefix,
         NEW position \in Nat, position >= 1, position <= len + 1,
         Put(position)
  PROVE  /\ PayloadIsPrefix'
         /\ len' \in Nat /\ len <= len' /\ position <= len'
         /\ len' = len \/ len' = position
         /\ filled' \in SUBSET Nat
  BY DEF Put, PayloadIsPrefix

LEMMA InitUploadInv == Init => UploadInv
  BY NoHandlerIsNone, BoundsAreNaturals
  DEF Init, Idle, UploadInv, TypeOK, Steps, PayloadIsPrefix, LockInv, WriteInv, DetachedInv,
      OriginInv, RecordInv, SnapshotIsWhole, StartupNeverRefused, Write, Locked

(* Every step keeps the type invariant. *)
LEMMA TypeStep == ASSUME TypeOK, [Next]_vars PROVE TypeOK'
<1> USE LimitsAreNaturals, BoundsAreNaturals DEF TypeOK, Write, Steps
<1>1. CASE InitUpload
  BY <1>1 DEF InitUpload, envVars, fileVars
<1>2. ASSUME NEW h \in Handlers, Handle(h) PROVE TypeOK'
  <2> DEFINE LeaveFacts == /\ pc' \in [Handlers -> Steps]
                           /\ op' \in [Handlers -> [first : Nat, last : Nat, stat : Nat]]
                           /\ lock' \in Handlers \union {NoHandler}
  <2>0. Leave(h) => LeaveFacts
    BY DEF Leave, Goto, Idle
  <2>1. ASSUME NEW offset \in 0 .. MaxUpload, NEW bytes \in 0 .. MaxChunk,
               BeginChunk(h, offset, bytes)
        PROVE  TypeOK'
    BY <2>1 DEF BeginChunk, Goto, envVars, fileVars
  <2>2. CASE CheckChunk(h)
    <3>1. op[h].stat \in Nat
      OBVIOUS
    <3>2. LeaveFacts
      BY <2>2, <2>0 DEF CheckChunk, Goto
    <3> QED
      BY <2>2, <3>1, <3>2 DEF CheckChunk, envVars, fileVars
  <2>3. CASE RecordChunk(h)
    BY <2>3, <2>0 DEF RecordChunk, envVars, fileVars
  <2>4. CASE BeginComplete(h)
    BY <2>4 DEF BeginComplete, Goto, envVars, fileVars
  <2>5. CASE CheckComplete(h)
    BY <2>5, <2>0 DEF CheckComplete, envVars, fileVars
  <2>6. CASE Stat(h)
    BY <2>6 DEF Stat, Goto, envVars, fileVars
  <2>7. CASE BeginMultipart(h)
    BY <2>7 DEF BeginMultipart, Goto, envVars, fileVars
  <2>8. CASE ReceiveByte(h)
    BY <2>8 DEF ReceiveByte, envVars, fileVars
  <2>9. CASE CreateComplete(h)
    BY <2>9, <2>0 DEF CreateComplete, envVars, fileVars
  <2>10. CASE LandByte(h)
    BY <2>10 DEF LandByte, Put, envVars
  <2>11. CASE BeginCopy(h)
    BY <2>11 DEF BeginCopy, Goto, envVars, fileVars
  <2>12. CASE Copy(h)
    BY <2>12, <2>0 DEF Copy, envVars, fileVars
  <2>13. CASE Fail(h)
    <3>1. LeaveFacts
      BY <2>13, <2>0 DEF Fail
    <3>2. detached' \in SUBSET Write
      BY <2>13 DEF Fail
    <3> QED
      BY <2>13, <3>1, <3>2 DEF Fail, fileVars
  <2> QED
    BY <1>2, <2>1, <2>2, <2>3, <2>4, <2>5, <2>6, <2>7, <2>8, <2>9, <2>10, <2>11, <2>12, <2>13
    DEF Handle, Chunk, Complete, Multipart
<1>3. ASSUME NEW d \in detached, LandDetached(d) PROVE TypeOK'
  <2>1. d \in Write
    OBVIOUS
  <2>2. detached' \in SUBSET Write
    BY <1>3, <2>1 DEF LandDetached
  <2> QED
    BY <1>3, <2>1, <2>2 DEF LandDetached, Put, envVars
<1>4. CASE Crash
  BY <1>4 DEF Crash, Idle, fileVars
<1>5. CASE Load
  BY <1>5 DEF Load, fileVars
<1>6. CASE UNCHANGED vars
  BY <1>6 DEF vars, fileVars, envVars
<1> QED
  BY <1>1, <1>2, <1>3, <1>4, <1>5, <1>6 DEF Next

-----------------------------------------------------------------------------
(* The invariant is inductive *)

(* A step of the server as a whole, or of a late write. *)
LEMMA ServerStep ==
  ASSUME UploadInv,
         InitUpload \/ (\E d \in detached : LandDetached(d)) \/ Crash \/ Load \/ UNCHANGED vars
  PROVE  UploadInv'
<1>0. TypeOK'
  BY TypeStep DEF UploadInv, Next
<1> USE DEF UploadInv
<1>1. CASE InitUpload
  <2> USE <1>1 DEF InitUpload, fileVars, envVars
  <2> QED
    BY <1>0
    DEF TypeOK, PayloadIsPrefix, LockInv, WriteInv, DetachedInv, OriginInv, RecordInv,
        SnapshotIsWhole, StartupNeverRefused
<1>2. ASSUME NEW d \in detached, LandDetached(d) PROVE UploadInv'
  <2>1. d.first \in Nat /\ d.first >= 1 /\ d.first <= len + 1 /\ d.first <= d.last /\ d.last \in Nat
    BY DEF TypeOK, Write, DetachedInv
  <2>2. /\ PayloadIsPrefix' /\ len' \in Nat /\ len <= len' /\ d.first <= len'
        /\ len' = len \/ len' = d.first
    BY <1>2, <2>1, PutKeepsPrefix DEF LandDetached, TypeOK
  <2>3. UNCHANGED <<record, origin, lock, pc, op, acked, raw, mode>>
    BY <1>2 DEF LandDetached, envVars
  <2>4. record.status # "none" => len' <= record.expected
    <3>1. ASSUME record.status # "none" PROVE d.first <= record.expected
      <4>1. d.last <= record.expected /\ record.expected \in Nat
        BY <3>1 DEF DetachedInv, TypeOK
      <4> QED
        BY <4>1, <2>1
    <3> QED
      BY <2>2, <3>1 DEF RecordInv
  <2>5. record.status = "COMPLETE" => len' = len
    BY <2>2, <2>4 DEF RecordInv, TypeOK
  <2>6. LockInv' /\ OriginInv'
    BY <1>2, <2>3 DEF LockInv, OriginInv, LandDetached
  <2>7. WriteInv'
    BY <2>2, <2>3 DEF WriteInv, TypeOK
  <2>8. DetachedInv'
    BY <1>2, <2>1, <2>2, <2>3 DEF DetachedInv, LandDetached, TypeOK, Write
  <2>9. RecordInv'
    BY <2>2, <2>3, <2>4, <2>5 DEF RecordInv, TypeOK
  <2> QED
    BY <1>0, <2>2, <2>3, <2>6, <2>7, <2>8, <2>9 DEF SnapshotIsWhole, StartupNeverRefused
<1>3. CASE Crash
  BY <1>0, <1>3
  DEF Crash, Locked, Idle, fileVars, TypeOK, PayloadIsPrefix, LockInv, WriteInv, DetachedInv,
      OriginInv, RecordInv, SnapshotIsWhole, StartupNeverRefused
<1>4. CASE Load
  BY <1>0, <1>4
  DEF Load, Consistent, fileVars, TypeOK, PayloadIsPrefix, LockInv, WriteInv, DetachedInv,
      OriginInv, RecordInv, SnapshotIsWhole, StartupNeverRefused
<1>5. CASE UNCHANGED vars
  BY <1>0, <1>5
  DEF vars, fileVars, envVars, TypeOK, PayloadIsPrefix, LockInv, WriteInv, DetachedInv,
      OriginInv, RecordInv, SnapshotIsWhole, StartupNeverRefused
<1> QED
  BY <1>1, <1>2, <1>3, <1>4, <1>5

(* A step of a request handler. Leaving gives up the lock and the write. *)
LEMMA Leaving ==
  ASSUME TypeOK, NEW h \in Handlers, Leave(h)
  PROVE  /\ pc' = [pc EXCEPT ![h] = "idle"]
         /\ \A g \in Handlers : g # h => pc'[g] = pc[g] /\ op'[g] = op[g]
         /\ pc'[h] = "idle" /\ op'[h].first = 1
         /\ \A g \in Handlers : g # h /\ lock = g => lock' = g
  BY DEF Leave, Goto, Idle, TypeOK

LEMMA ChunkStep ==
  ASSUME UploadInv, NEW h \in Handlers, Chunk(h) \/ Complete(h) \/ Stat(h)
  PROVE  UploadInv'
<1>0. TypeOK'
  BY TypeStep DEF UploadInv, Next, Handle
<1> USE DEF UploadInv
<1>1. ASSUME NEW offset \in 0 .. MaxUpload, NEW bytes \in 0 .. MaxChunk,
             BeginChunk(h, offset, bytes)
      PROVE  UploadInv'
  BY <1>0, <1>1, NoHandlerIsNone
  DEF BeginChunk, Goto, TypeOK, PayloadIsPrefix, LockInv, Locked, WriteInv, DetachedInv,
      OriginInv, RecordInv, SnapshotIsWhole, StartupNeverRefused, fileVars, envVars
<1>2. CASE CheckChunk(h)
  <2>1. /\ record.status = "UPLOADING" /\ lock = h /\ op[h].stat <= len
        /\ record'.status = "UPLOADING" /\ record'.expected = record.expected
        /\ raw = {}
    BY <1>2 DEF CheckChunk, LockInv, Locked, WriteInv, RecordInv, TypeOK
  <2>2. UNCHANGED <<origin, filled, len, detached, acked, raw, mode>>
    BY <1>2 DEF CheckChunk, fileVars, envVars
  <2>3. \A g \in Handlers : g # h => pc'[g] = pc[g] /\ op'[g] = op[g] /\ pc[g] \notin Locked
    BY <1>2, <2>1, Leaving DEF CheckChunk, Goto, TypeOK, LockInv
  <2>4. \/ pc'[h] = "idle" /\ op'[h].first = 1
        \/ /\ pc'[h] = "writing" /\ lock' = h /\ op'[h] = op[h]
           /\ op[h].first = op[h].stat + 1 /\ op[h].last <= record.expected
    BY <1>2, <2>1, Leaving DEF CheckChunk, Fits, Goto, TypeOK
  <2>5. LockInv'
    BY <2>1, <2>3, <2>4 DEF LockInv, Locked
  <2>6. WriteInv'
    BY <2>1, <2>2, <2>3, <2>4 DEF WriteInv, Locked, TypeOK
  <2>7. DetachedInv' /\ OriginInv' /\ RecordInv'
    BY <2>1, <2>2, <2>3, <2>4 DEF DetachedInv, OriginInv, RecordInv
  <2> QED
    BY <1>0, <2>1, <2>2, <2>5, <2>6, <2>7 DEF PayloadIsPrefix, SnapshotIsWhole, StartupNeverRefused
<1>3. CASE RecordChunk(h)
  <2>1. /\ record.status = "UPLOADING" /\ lock = h /\ op[h].last <= len
        /\ record'.status = "UPLOADING" /\ record'.expected = record.expected
        /\ acked' <= len /\ raw = {}
    BY <1>3 DEF RecordChunk, LockInv, Locked, WriteInv, RecordInv, TypeOK
  <2>2. UNCHANGED <<origin, filled, len, detached, raw, mode>>
    BY <1>3 DEF RecordChunk, fileVars, envVars
  <2>3. /\ \A g \in Handlers : g # h => pc'[g] = pc[g] /\ op'[g] = op[g] /\ pc[g] \notin Locked
        /\ pc'[h] = "idle" /\ op'[h].first = 1
    BY <1>3, <2>1, Leaving DEF RecordChunk, LockInv
  <2>4. LockInv' /\ WriteInv'
    BY <2>1, <2>2, <2>3 DEF LockInv, WriteInv, Locked
  <2>5. DetachedInv' /\ OriginInv' /\ RecordInv'
    BY <2>1, <2>2, <2>3 DEF DetachedInv, OriginInv, RecordInv
  <2> QED
    BY <1>0, <2>1, <2>2, <2>4, <2>5 DEF PayloadIsPrefix, SnapshotIsWhole, StartupNeverRefused
<1>4. CASE BeginComplete(h)
  BY <1>0, <1>4, NoHandlerIsNone
  DEF BeginComplete, Goto, TypeOK, PayloadIsPrefix, LockInv, Locked, WriteInv, DetachedInv,
      OriginInv, RecordInv, SnapshotIsWhole, StartupNeverRefused, fileVars, envVars
<1>5. CASE CheckComplete(h)
  <2>1. lock = h /\ record.status # "none" /\ op[h].stat <= len /\ op[h].stat \in Nat
    BY <1>5 DEF CheckComplete, LockInv, Locked, WriteInv, TypeOK
  <2>2. UNCHANGED <<origin, filled, len, detached, acked, raw, mode>>
    BY <1>5 DEF CheckComplete, fileVars, envVars
  <2>3. /\ \A g \in Handlers : g # h => pc'[g] = pc[g] /\ op'[g] = op[g] /\ pc[g] \notin Locked
        /\ pc'[h] = "idle" /\ op'[h].first = 1
    BY <1>5, <2>1, Leaving DEF CheckComplete, LockInv
  <2>4. CASE op[h].stat # record.expected
    <3>1. record' = record
      BY <1>5, <2>4 DEF CheckComplete
    <3>2. LockInv' /\ WriteInv'
      BY <2>1, <2>2, <2>3, <3>1 DEF LockInv, WriteInv, Locked
    <3>3. DetachedInv' /\ OriginInv' /\ RecordInv'
      BY <2>2, <2>3, <3>1 DEF DetachedInv, OriginInv, RecordInv
    <3> QED
      BY <1>0, <2>2, <3>1, <3>2, <3>3 DEF PayloadIsPrefix, SnapshotIsWhole, StartupNeverRefused
  <2>5. CASE op[h].stat = record.expected
    <3>1. /\ record'.status = "COMPLETE" /\ record'.expected = record.expected
          /\ record'.size = len /\ len = record.expected
      BY <1>5, <2>1, <2>5 DEF CheckComplete, RecordInv, TypeOK
    <3>2. LockInv' /\ WriteInv'
      BY <2>1, <2>2, <2>3, <3>1 DEF LockInv, WriteInv, Locked
    <3>3. DetachedInv' /\ OriginInv' /\ RecordInv'
      BY <2>1, <2>2, <2>3, <3>1 DEF DetachedInv, OriginInv, RecordInv, TypeOK
    <3> QED
      BY <1>0, <2>2, <3>1, <3>2, <3>3 DEF PayloadIsPrefix, SnapshotIsWhole, StartupNeverRefused
  <2> QED
    BY <2>4, <2>5
<1>6. CASE Stat(h)
  <2>1. UNCHANGED <<record, origin, filled, len, lock, detached, acked, raw, mode>>
    BY <1>6 DEF Stat, fileVars, envVars
  <2>2. \A g \in Handlers : g # h => pc'[g] = pc[g] /\ op'[g] = op[g]
    BY <1>6 DEF Stat, Goto, TypeOK
  <2>3. /\ op'[h].stat = len /\ len \in Nat
        /\ \/ pc[h] = "chunk" /\ pc'[h] = "chunk_check"
           \/ pc[h] = "complete" /\ pc'[h] = "complete_check"
    BY <1>6 DEF Stat, Goto, TypeOK
  <2>4. LockInv'
    BY <2>1, <2>2, <2>3 DEF LockInv, Locked
  <2>5. WriteInv'
    BY <2>1, <2>2, <2>3 DEF WriteInv
  <2>6. DetachedInv' /\ OriginInv' /\ RecordInv'
    BY <2>1, <2>2, <2>3 DEF DetachedInv, OriginInv, RecordInv
  <2> QED
    BY <1>0, <2>1, <2>4, <2>5, <2>6 DEF PayloadIsPrefix, SnapshotIsWhole, StartupNeverRefused
<1> QED
  BY <1>1, <1>2, <1>3, <1>4, <1>5, <1>6 DEF Chunk, Complete

LEMMA FileStep ==
  ASSUME UploadInv, NEW h \in Handlers,
         Multipart(h) \/ LandByte(h) \/ BeginCopy(h) \/ Copy(h) \/ Fail(h)
  PROVE  UploadInv'
<1>0. TypeOK'
  BY TypeStep DEF UploadInv, Next, Handle
<1> USE DEF UploadInv
<1>1. CASE BeginMultipart(h)
  <2>1. /\ UNCHANGED <<record, filled, len, lock, op, detached, acked, raw, mode>>
        /\ origin = "none" /\ origin' = "multipart" /\ pc[h] = "idle" /\ pc'[h] = "receiving"
        /\ \A g \in Handlers : g # h => pc'[g] = pc[g]
    BY <1>1 DEF BeginMultipart, Goto, TypeOK, fileVars, envVars
  <2>2. op[h].first >= 1 /\ op[h].first <= len + 1
    BY <1>1 DEF BeginMultipart, WriteInv, TypeOK
  <2>3. LockInv' /\ WriteInv' /\ DetachedInv' /\ OriginInv' /\ RecordInv'
    BY <2>1, <2>2 DEF LockInv, Locked, WriteInv, DetachedInv, OriginInv, RecordInv
  <2> QED
    BY <1>0, <2>1, <2>3 DEF PayloadIsPrefix, SnapshotIsWhole, StartupNeverRefused
<1>2. CASE ReceiveByte(h)
  <2>1. /\ UNCHANGED <<record, origin, filled, len, lock, pc, detached, acked, raw, mode>>
        /\ pc[h] = "receiving" /\ op'[h].first = op[h].first
        /\ \A g \in Handlers : g # h => op'[g] = op[g]
    BY <1>2 DEF ReceiveByte, TypeOK, fileVars, envVars
  <2>2. LockInv' /\ WriteInv' /\ DetachedInv' /\ OriginInv' /\ RecordInv'
    BY <2>1 DEF LockInv, Locked, WriteInv, DetachedInv, OriginInv, RecordInv
  <2> QED
    BY <1>0, <2>1, <2>2 DEF PayloadIsPrefix, SnapshotIsWhole, StartupNeverRefused
<1>3. CASE CreateComplete(h)
  <2>1. /\ UNCHANGED <<origin, filled, len, detached, raw, mode>>
        /\ pc[h] = "receiving" /\ len \in Nat /\ acked' = len
        /\ record'.status = "COMPLETE" /\ record'.size = len /\ record'.expected = len
    BY <1>3 DEF CreateComplete, TypeOK, fileVars, envVars
  <2>2. /\ record.status = "none" /\ detached = {} /\ origin = "multipart" /\ raw = {}
        /\ \A g \in Handlers : pc[g] = "receiving" => g = h
    BY <2>1 DEF OriginInv, RecordInv
  <2>3. /\ \A g \in Handlers : g # h => pc'[g] = pc[g] /\ op'[g] = op[g] /\ pc[g] \notin Locked
        /\ pc'[h] = "idle" /\ op'[h].first = 1
    BY <1>3, <2>2, Leaving DEF CreateComplete, LockInv
  <2>4. LockInv' /\ WriteInv' /\ DetachedInv' /\ OriginInv' /\ RecordInv'
    BY <2>1, <2>2, <2>3 DEF LockInv, Locked, WriteInv, DetachedInv, OriginInv, RecordInv
  <2> QED
    BY <1>0, <2>1, <2>2, <2>4 DEF PayloadIsPrefix, SnapshotIsWhole, StartupNeverRefused
<1>4. CASE LandByte(h)
  <2>1. /\ op[h].first \in Nat /\ op[h].last \in Nat /\ op[h].first <= op[h].last
        /\ op[h].first >= 1 /\ op[h].first <= len + 1
        /\ pc[h] \in {"writing", "receiving"}
    BY <1>4 DEF LandByte, WriteInv, TypeOK
  <2>2. /\ PayloadIsPrefix' /\ len' \in Nat /\ len <= len' /\ op[h].first <= len'
        /\ len' = len \/ len' = op[h].first
    BY <1>4, <2>1, PutKeepsPrefix DEF LandByte, TypeOK
  <2>3. /\ UNCHANGED <<record, origin, lock, pc, detached, acked, raw, mode>>
        /\ op'[h].first = op[h].first + 1 /\ op'[h].last = op[h].last
        /\ \A g \in Handlers : g # h => op'[g] = op[g]
    BY <1>4 DEF LandByte, TypeOK, envVars
  <2>4. record.status # "none" => len' <= record.expected /\ record.status = "UPLOADING"
    <3>1. CASE pc[h] = "receiving"
      BY <3>1 DEF OriginInv
    <3>2. CASE pc[h] = "writing"
      BY <3>2, <2>1, <2>2 DEF WriteInv, LockInv, RecordInv, TypeOK
    <3> QED
      BY <2>1, <3>1, <3>2
  <2>5. LockInv' /\ OriginInv'
    BY <2>1, <2>3 DEF LockInv, OriginInv
  <2>6. WriteInv'
    BY <2>1, <2>2, <2>3 DEF WriteInv, TypeOK
  <2>7. DetachedInv'
    BY <2>2, <2>3 DEF DetachedInv, TypeOK, Write
  <2>8. RecordInv'
    BY <2>2, <2>3, <2>4 DEF RecordInv, TypeOK
  <2> QED
    BY <1>0, <2>2, <2>3, <2>5, <2>6, <2>7, <2>8 DEF SnapshotIsWhole, StartupNeverRefused
<1>5. CASE BeginCopy(h)
  <2>1. /\ UNCHANGED <<record, origin, filled, len, lock, op, detached, acked, raw, mode>>
        /\ record.status = "COMPLETE" /\ pc'[h] = "copying"
        /\ \A g \in Handlers : g # h => pc'[g] = pc[g]
    BY <1>5 DEF BeginCopy, Goto, TypeOK, fileVars, envVars
  <2>2. LockInv' /\ WriteInv' /\ DetachedInv' /\ OriginInv' /\ RecordInv'
    BY <2>1 DEF LockInv, Locked, WriteInv, DetachedInv, OriginInv, RecordInv
  <2> QED
    BY <1>0, <2>1, <2>2 DEF PayloadIsPrefix, SnapshotIsWhole, StartupNeverRefused
<1>6. CASE Copy(h)
  <2>1. /\ UNCHANGED <<record, origin, filled, len, detached, acked, mode>>
        /\ pc[h] = "copying" /\ record.status = "COMPLETE" /\ filled = 1 .. record.expected
        /\ raw' = raw \union {filled}
    BY <1>6 DEF Copy, RecordInv, PayloadIsPrefix, fileVars, envVars
  <2>2. /\ \A g \in Handlers : g # h => /\ pc'[g] = pc[g] /\ op'[g] = op[g]
                                        /\ lock = g => lock' = g
        /\ pc'[h] = "idle" /\ op'[h].first = 1
    BY <1>6, Leaving DEF Copy
  <2>3. LockInv' /\ WriteInv' /\ DetachedInv' /\ OriginInv' /\ RecordInv'
    <3>1. LockInv' /\ WriteInv'
      BY <2>1, <2>2 DEF LockInv, Locked, WriteInv
    <3>2. DetachedInv' /\ RecordInv'
      BY <2>1, <2>2 DEF DetachedInv, RecordInv
    <3>3. OriginInv'
      BY <2>1, <2>2 DEF OriginInv
    <3> QED
      BY <3>1, <3>2, <3>3
  <2> QED
    BY <1>0, <2>1, <2>3 DEF PayloadIsPrefix, SnapshotIsWhole, StartupNeverRefused
<1>7. CASE Fail(h)
  <2>1. UNCHANGED <<record, origin, filled, len, acked, raw, mode>>
    BY <1>7 DEF Fail, fileVars
  <2>2. /\ \A g \in Handlers : g # h => /\ pc'[g] = pc[g] /\ op'[g] = op[g]
                                        /\ lock = g => lock' = g
        /\ pc'[h] = "idle" /\ op'[h].first = 1
    BY <1>7, Leaving DEF Fail
  <2>3. LockInv' /\ WriteInv' /\ RecordInv'
    <3>1. LockInv' /\ WriteInv'
      BY <2>1, <2>2 DEF LockInv, Locked, WriteInv
    <3>2. RecordInv'
      BY <2>1, <2>2 DEF RecordInv
    <3> QED
      BY <3>1, <3>2
  <2>4. CASE UNCHANGED detached
    <3>1. DetachedInv'
      BY <2>1, <2>4 DEF DetachedInv
    <3>2. OriginInv'
      BY <2>1, <2>2, <2>4 DEF OriginInv
    <3> QED
      BY <1>0, <2>1, <2>3, <3>1, <3>2 DEF PayloadIsPrefix, SnapshotIsWhole, StartupNeverRefused
  <2>5. ASSUME NEW last \in op[h].first .. op[h].last, pc[h] \in {"writing", "receiving"},
               detached' = detached \union {[first |-> op[h].first, last |-> last]}
        PROVE  UploadInv'
    <3>1. /\ op[h].first \in Nat /\ op[h].last \in Nat /\ last \in Nat
          /\ op[h].first >= 1 /\ op[h].first <= len + 1
          /\ op[h].first <= last /\ last <= op[h].last
      BY <2>5 DEF WriteInv, TypeOK
    <3>2. record.status # "none" => last <= record.expected
      BY <2>5, <3>1 DEF WriteInv, OriginInv, TypeOK
    <3>3. DetachedInv'
      BY <2>1, <2>5, <3>1, <3>2 DEF DetachedInv
    <3>4. origin # "none" /\ \A g \in Handlers : pc'[g] # "receiving"
      <4>1. CASE pc[h] = "receiving"
        BY <2>2, <4>1 DEF OriginInv
      <4>2. CASE pc[h] = "writing"
        BY <2>2, <4>2 DEF OriginInv, LockInv
      <4> QED
        BY <2>5, <4>1, <4>2
    <3>5. OriginInv'
      BY <2>1, <3>4 DEF OriginInv
    <3> QED
      BY <1>0, <2>1, <2>3, <3>3, <3>5 DEF PayloadIsPrefix, SnapshotIsWhole, StartupNeverRefused
  <2> QED
    BY <1>7, <2>4, <2>5 DEF Fail
<1> QED
  BY <1>1, <1>2, <1>3, <1>4, <1>5, <1>6, <1>7 DEF Multipart

LEMMA UploadStep == UploadInv /\ [Next]_vars => UploadInv'
  BY ServerStep, ChunkStep, FileStep DEF Next, Handle

-----------------------------------------------------------------------------
(* Theorems *)

(* The invariant holds in every behaviour. *)
THEOREM Upload == Spec => []UploadInv
  BY InitUploadInv, UploadStep, PTL DEF Spec

(* Every variable keeps its type. *)
THEOREM UploadTypeCorrect == Spec => []TypeOK
<1>1. UploadInv => TypeOK
  BY DEF UploadInv
<1> QED
  BY <1>1, Upload, PTL

(* Whatever chunks are repeated, reordered, cut short or land after their
   request is gone, the payload never has a hole (append_chunk). *)
THEOREM PayloadStaysPrefix == Spec => []PayloadIsPrefix
<1>1. UploadInv => PayloadIsPrefix
  BY DEF UploadInv
<1> QED
  BY <1>1, Upload, PTL

(* What a client was told is received is in the file (append_chunk). *)
THEOREM AckedBytesStay == Spec => []AckedBytesKept
<1>1. UploadInv => AckedBytesKept
  BY DEF UploadInv, RecordInv, AckedBytesKept
<1> QED
  BY <1>1, Upload, PTL

(* A complete upload is the whole declared file (complete, create). *)
THEOREM CompletedStaysWhole == Spec => []CompletedIsWhole
<1>1. UploadInv => CompletedIsWhole
  BY DEF UploadInv, RecordInv, PayloadIsPrefix, CompletedIsWhole
<1> QED
  BY <1>1, Upload, PTL

(* No crash leaves an upload that load refuses (load). *)
THEOREM StartupSucceeds == Spec => []StartupNeverRefused
<1>1. UploadInv => StartupNeverRefused
  BY DEF UploadInv
<1> QED
  BY <1>1, Upload, PTL

(* The raw snapshot of a task is a whole file (prepare_raw_snapshot). *)
THEOREM SnapshotStaysWhole == Spec => []SnapshotIsWhole
<1>1. UploadInv => SnapshotIsWhole
  BY DEF UploadInv
<1> QED
  BY <1>1, Upload, PTL

(* No late write, repeated completion or restart changes a complete upload. *)
THEOREM CompletedStaysFinal == Spec => CompletedIsFinal
<1>1. UploadInv /\ [Next]_vars =>
        [record.status = "COMPLETE" => UNCHANGED <<record, filled, len>>]_vars
  <2> SUFFICES ASSUME UploadInv, Next, record.status = "COMPLETE"
               PROVE  UNCHANGED <<record, filled, len>>
    OBVIOUS
  <2>0. /\ len' \in Nat /\ len \in Nat /\ filled = 1 .. len /\ filled' = 1 .. len'
        /\ len = record.expected /\ record.size = len
    BY UploadStep DEF UploadInv, TypeOK, RecordInv, PayloadIsPrefix
  <2>1. \A h \in Handlers : pc[h] \notin {"chunk", "chunk_check", "writing", "receiving"}
    BY DEF UploadInv, LockInv, OriginInv
  <2>2. CASE InitUpload
    BY <2>2 DEF InitUpload, UploadInv, OriginInv
  <2>3. ASSUME NEW h \in Handlers, Handle(h)
        PROVE  UNCHANGED <<record, filled, len>>
    <3>1. CASE CheckComplete(h)
      <4>1. record' = record
        BY <3>1, <2>0 DEF CheckComplete, UploadInv, TypeOK
      <4> QED
        BY <3>1, <4>1 DEF CheckComplete, fileVars
    <3>2. CASE BeginComplete(h) \/ Stat(h) \/ BeginCopy(h) \/ Copy(h) \/ Fail(h)
      BY <3>2 DEF BeginComplete, Stat, BeginCopy, Copy, Fail, fileVars
    <3>3. CASE BeginMultipart(h) \/ ReceiveByte(h) \/ CreateComplete(h) \/ LandByte(h)
      BY <2>1, <3>3
      DEF BeginMultipart, ReceiveByte, CreateComplete, LandByte, UploadInv, OriginInv
    <3>4. CASE Chunk(h)
      BY <2>1, <3>4 DEF Chunk, BeginChunk, CheckChunk, RecordChunk
    <3> QED
      BY <2>3, <3>1, <3>2, <3>3, <3>4 DEF Handle, Complete, Multipart
  <2>4. ASSUME NEW d \in detached, LandDetached(d)
        PROVE  UNCHANGED <<record, filled, len>>
    <3>1. d.first \in Nat /\ d.last \in Nat /\ d.first <= d.last /\ d.last <= record.expected
      BY DEF UploadInv, DetachedInv, TypeOK, Write
    <3>2. UNCHANGED <<record, len>>
      BY <2>0, <2>4, <3>1 DEF LandDetached, Put
    <3> QED
      BY <2>0, <3>2
  <2>5. CASE Crash \/ Load
    BY <2>5 DEF Crash, Load, fileVars
  <2> QED
    BY <2>2, <2>3, <2>4, <2>5 DEF Next
<1> QED
  BY <1>1, Upload, PTL DEF Spec, CompletedIsFinal

-----------------------------------------------------------------------------
(* The metadata store, which saves its maps the way this store does not:    *)
(* file by file, each in place.                                             *)

FileNames == {"instances", "clusters", "nodes"}

StoreTypes ==
  /\ DOMAIN disk = FileNames
  /\ records = [f \in FileNames |-> records[f]]
  /\ writer.at \in 0 .. 3 /\ (writer.at = 0 <=> writer = NoWriter)
  /\ DOMAIN writer = {"op", "at", "about", "brought"}
  /\ DOMAIN hist = {"imports", "faults", "acked", "damaged", "about", "strays"}

(* The files a save has written hold what is in memory. *)
SavedOf(n) ==
  /\ n >= 1 => disk["instances"] = Saved(records["instances"])
  /\ n >= 2 => disk["clusters"] = Saved(records["clusters"])
  /\ n >= 3 => disk["nodes"] = Saved(records["nodes"])

(* Until a save fails or is cut off: at rest all files hold what is in memory
   and was answered last; a save has written the files before the one it is at. *)
AnswerIsSaved ==
  ~hist.damaged =>
    /\ writer.at = 0 => SavedOf(3) /\ records = hist.acked
    /\ SavedOf(writer.at - 1)

LEMMA FilesAre ==
  /\ Files[1] = "instances" /\ Files[2] = "clusters" /\ Files[3] = "nodes"
  /\ Range(Files) = FileNames
<1>1. DOMAIN Files = {1, 2, 3}
  BY DEF Files
<1> QED
  BY <1>1 DEF Files, FileNames, Range

(* What a change leaves in memory are three maps. *)
LEMMA ThreeMaps ==
  ASSUME NEW a, NEW b, NEW c, NEW r, r = [instances |-> a, clusters |-> b, nodes |-> c]
  PROVE  r = [f \in FileNames |-> r[f]]
  BY DEF FileNames

LEMMA RemovedIs ==
  ASSUME StoreTypes, NEW i
  PROVE  RemoveInstance(records, i) = [f \in FileNames |-> RemoveInstance(records, i)[f]]
<1>1. \/ RemoveInstance(records, i) = records
      \/ \E a, b, c : RemoveInstance(records, i) = [instances |-> a, clusters |-> b, nodes |-> c]
  BY Zenon DEF RemoveInstance
<1>2. CASE RemoveInstance(records, i) = records
  BY <1>2, Zenon DEF StoreTypes
<1>3. CASE \E a, b, c : RemoveInstance(records, i) = [instances |-> a, clusters |-> b, nodes |-> c]
  BY <1>3, ThreeMaps
<1> QED
  BY <1>1, <1>2, <1>3

LEMMA AppliedIs ==
  ASSUME NEW t
  PROVE  ApplyTemplate(records, t) = [f \in FileNames |-> ApplyTemplate(records, t)[f]]
<1>1. \E a, b, c : ApplyTemplate(records, t) = [instances |-> a, clusters |-> b, nodes |-> c]
  BY Zenon DEF ApplyTemplate
<1> QED
  BY <1>1, ThreeMaps

(* A change in memory: its save starts at the first file. *)
LEMMA Changed ==
  ASSUME StoreTypes, NEW verb, NEW new, NEW about, NEW brought, Change(verb, new, about, brought),
         new = [f \in FileNames |-> new[f]], UNCHANGED disk
  PROVE  (StoreTypes /\ AnswerIsSaved)'
<1>1. /\ records' = new /\ writer' = [op |-> verb, at |-> 1, about |-> about, brought |-> brought]
      /\ hist' = [hist EXCEPT !.about = about,
                              !.strays = (@ \ brought) \union (brought \intersect Orphans(new))]
  BY DEF Change
<1>2. writer'.at = 1 /\ DOMAIN writer' = {"op", "at", "about", "brought"}
  BY <1>1
<1>3. DOMAIN hist' = DOMAIN hist
  BY <1>1
<1>4. writer' # NoWriter
  BY <1>2 DEF NoWriter
<1>5. StoreTypes'
  BY <1>1, <1>2, <1>3, <1>4 DEF StoreTypes
<1> QED
  BY <1>2, <1>5 DEF AnswerIsSaved, SavedOf

(* A restart that finds nothing damaged loads what the server had. *)
LEMMA RestartLoads ==
  ASSUME StoreTypes, AnswerIsSaved, Restart, ~hist'.damaged
  PROVE  ~hist.damaged /\ records' = records /\ disk' = disk /\ hist'.acked = records /\ SavedOf(3)
<1>0. /\ DOMAIN disk = FileNames /\ records = [f \in FileNames |-> records[f]]
      /\ writer.at \in 0 .. 3
      /\ DOMAIN hist = {"imports", "faults", "acked", "damaged", "about", "strays"}
  BY DEF StoreTypes
<1>1. PICK left :
        /\ disk' = IF writer.at \in 1 .. 3 THEN [disk EXCEPT ![Files[writer.at]] = left] ELSE disk
        /\ records' = Loaded(disk')
  BY DEF Restart
<1>2. PICK answered, lost :
        /\ hist' = [hist EXCEPT !.faults = @ + 1, !.damaged = @ \/ writer.at \in 1 .. 3,
                                !.acked = answered, !.about = Instances, !.strays = lost]
        /\ answered = IF writer.at \in 1 .. 3 THEN Loaded(disk') ELSE hist.acked
  BY DEF Restart
<1>3. hist'.acked = answered /\ hist'.damaged = (hist.damaged \/ writer.at \in 1 .. 3)
  BY <1>0, <1>2
<1>4. writer.at = 0 /\ ~hist.damaged
  <2>1. ~hist.damaged /\ ~(writer.at \in 1 .. 3)
    BY <1>3, Zenon
  <2> QED
    BY <1>0, <2>1
<1>5. SavedOf(3) /\ records = hist.acked
  BY <1>4 DEF AnswerIsSaved
<1>6. disk' = disk /\ hist'.acked = hist.acked
  BY <1>1, <1>2, <1>3, <1>4
<1>7. \A f \in FileNames : disk[f].rows = records[f]
  BY <1>5 DEF SavedOf, FileNames, Saved
<1>8. records' = [f \in FileNames |-> records[f]]
  BY <1>0, <1>1, <1>6, <1>7 DEF Loaded
<1> QED
  BY <1>0, <1>4, <1>5, <1>6, <1>8

LEMMA SaveStep == StoreTypes /\ AnswerIsSaved /\ [MetaNext]_metaVars => (StoreTypes /\ AnswerIsSaved)'
<1> SUFFICES ASSUME StoreTypes, AnswerIsSaved, [MetaNext]_metaVars PROVE (StoreTypes /\ AnswerIsSaved)'
  OBVIOUS
<1>0. /\ DOMAIN disk = FileNames /\ records = [f \in FileNames |-> records[f]]
      /\ writer.at \in 0 .. 3 /\ (writer.at = 0 <=> writer = NoWriter)
      /\ DOMAIN writer = {"op", "at", "about", "brought"}
      /\ DOMAIN hist = {"imports", "faults", "acked", "damaged", "about", "strays"}
  BY DEF StoreTypes
<1>1. CASE UNCHANGED <<records, disk, writer, hist>>
  BY <1>1 DEF StoreTypes, AnswerIsSaved, SavedOf
<1>2. ASSUME NEW t, CreateImportPreview(t) PROVE (StoreTypes /\ AnswerIsSaved)'
  <2>1. UNCHANGED <<records, disk, writer>> /\ hist' = [hist EXCEPT !.imports = @ + 1]
    BY <1>2 DEF CreateImportPreview
  <2>2. DOMAIN hist' = DOMAIN hist /\ hist'.damaged = hist.damaged /\ hist'.acked = hist.acked
    BY <1>0, <2>1
  <2> QED
    BY <2>1, <2>2 DEF StoreTypes, AnswerIsSaved, SavedOf
<1>3. ASSUME NEW id, ConfirmImport(id) PROVE (StoreTypes /\ AnswerIsSaved)'
  <2>1. UNCHANGED disk
    BY <1>3 DEF ConfirmImport
  <2>2. CASE UNCHANGED <<records, writer, hist>>
    BY <1>1, <2>1, <2>2
  <2>3. CASE ~UNCHANGED <<records, writer, hist>>
    <3>1. PICK t, about, brought : Change("import", ApplyTemplate(records, t), about, brought)
      BY <1>3, <2>3, Zenon DEF ConfirmImport
    <3> QED
      BY <2>1, <3>1, AppliedIs, Changed
  <2> QED
    BY <2>2, <2>3
<1>4. ASSUME NEW i, DeleteInstance(i) PROVE (StoreTypes /\ AnswerIsSaved)'
  <2>1. Change("delete", RemoveInstance(records, i), {i}, {}) /\ UNCHANGED disk
    BY <1>4 DEF DeleteInstance
  <2> QED
    BY <2>1, RemovedIs, Changed
<1>5. CASE RefreshApplies
  <2>1. PICK t, about, brought :
          Change("import", ApplyTemplate(records, t), about, brought) /\ UNCHANGED disk
    BY <1>5, Zenon DEF RefreshApplies
  <2> QED
    BY <2>1, AppliedIs, Changed
<1>6. CASE WriteFile
  <2>1. PICK at \in 1 .. 3 : at = writer.at
    BY <1>6 DEF WriteFile
  <2>2. disk' = [disk EXCEPT ![Files[at]] = Saved(records[Files[at]])] /\ UNCHANGED records
    BY <1>6, <2>1 DEF WriteFile
  <2>3. DOMAIN disk' = FileNames /\ \A f \in FileNames :
          disk'[f] = IF f = Files[at] THEN Saved(records[f]) ELSE disk[f]
    BY <1>0, <2>2
  <2>4. ~hist.damaged => SavedOf(at - 1)
    BY <2>1 DEF AnswerIsSaved
  <2>5. ~hist.damaged => SavedOf(at)'
    <3>1. CASE at = 1
      BY <2>2, <2>3, <3>1, FilesAre DEF SavedOf, FileNames
    <3>2. CASE at = 2
      BY <2>2, <2>3, <2>4, <3>2, FilesAre DEF SavedOf, FileNames
    <3>3. CASE at = 3
      BY <2>2, <2>3, <2>4, <3>3, FilesAre DEF SavedOf, FileNames
    <3> QED
      BY <3>1, <3>2, <3>3
  <2>6. CASE at = 3
    <3>1. writer' = NoWriter /\ hist' = [hist EXCEPT !.acked = records]
      BY <1>6, <2>1, <2>6 DEF WriteFile, Answered
    <3>2. writer'.at = 0 /\ DOMAIN writer' = {"op", "at", "about", "brought"}
      BY <3>1 DEF NoWriter
    <3>3. DOMAIN hist' = DOMAIN hist /\ hist'.damaged = hist.damaged /\ hist'.acked = records
      BY <1>0, <3>1
    <3>4. StoreTypes'
      BY <1>0, <2>2, <2>3, <3>1, <3>2, <3>3 DEF StoreTypes
    <3>5. AnswerIsSaved'
      BY <2>2, <2>5, <2>6, <3>2, <3>3 DEF AnswerIsSaved, SavedOf
    <3> QED
      BY <3>4, <3>5
  <2>7. CASE at # 3
    <3>1. writer' = [writer EXCEPT !.at = @ + 1] /\ UNCHANGED hist
      BY <1>6, <2>1, <2>7 DEF WriteFile
    <3>2. writer'.at = at + 1 /\ DOMAIN writer' = DOMAIN writer
      BY <1>0, <2>1, <3>1
    <3>3. writer' # NoWriter
      BY <3>2 DEF NoWriter
    <3>4. StoreTypes'
      BY <1>0, <2>1, <2>2, <2>3, <2>7, <3>1, <3>2, <3>3 DEF StoreTypes
    <3>5. AnswerIsSaved'
      BY <2>1, <2>5, <3>1, <3>2 DEF AnswerIsSaved
    <3> QED
      BY <3>4, <3>5
  <2> QED
    BY <2>6, <2>7
<1>7. CASE WriteFileFails
  <2>1. writer' = NoWriter /\ UNCHANGED records
        /\ hist' = [hist EXCEPT !.faults = @ + 1, !.damaged = TRUE]
    BY <1>7 DEF WriteFileFails
  <2>2. DOMAIN disk' = DOMAIN disk
    BY <1>7 DEF WriteFileFails
  <2>3. DOMAIN hist' = DOMAIN hist /\ hist'.damaged
    BY <1>0, <2>1
  <2>4. writer'.at = 0 /\ DOMAIN writer' = {"op", "at", "about", "brought"}
    BY <2>1 DEF NoWriter
  <2> QED
    BY <1>0, <2>1, <2>2, <2>3, <2>4 DEF StoreTypes, AnswerIsSaved
<1>8. CASE Restart
  <2>1. PICK left :
          /\ disk' = IF writer.at \in 1 .. 3 THEN [disk EXCEPT ![Files[writer.at]] = left] ELSE disk
          /\ records' = Loaded(disk')
    BY <1>8 DEF Restart
  <2>2. writer' = NoWriter
    BY <1>8 DEF Restart
  <2>3. PICK answered, lost :
          /\ hist' = [hist EXCEPT !.faults = @ + 1, !.damaged = @ \/ writer.at \in 1 .. 3,
                                  !.acked = answered, !.about = Instances, !.strays = lost]
          /\ answered = IF writer.at \in 1 .. 3 THEN Loaded(disk') ELSE hist.acked
    BY <1>8 DEF Restart
  <2>4. /\ DOMAIN hist' = DOMAIN hist /\ hist'.acked = answered
        /\ hist'.damaged = (hist.damaged \/ writer.at \in 1 .. 3)
    BY <1>0, <2>3
  <2>5. DOMAIN disk' = FileNames /\ records' = [f \in FileNames |-> disk'[f].rows]
    BY <1>0, <2>1 DEF Loaded
  <2>6. writer'.at = 0 /\ DOMAIN writer' = {"op", "at", "about", "brought"}
    BY <2>2 DEF NoWriter
  <2>7. StoreTypes'
    BY <1>0, <2>2, <2>4, <2>5, <2>6 DEF StoreTypes
  <2>8. ~hist'.damaged =>
          records' = records /\ disk' = disk /\ hist'.acked = records /\ SavedOf(3)
    BY <1>8, RestartLoads
  <2>9. AnswerIsSaved'
    BY <2>6, <2>8 DEF AnswerIsSaved, SavedOf
  <2> QED
    BY <2>7, <2>9
<1>9. CASE TakeContext \/ ReaderNext \/ \E i \in Instances : RefreshReads(i)
  BY <1>1, <1>9 DEF TakeContext, ReaderNext, RefreshReads, QueryMetadata,
     GetMetadataFieldTypes, StoreVars
<1>10. CASE UNCHANGED metaVars
  BY <1>1, <1>10 DEF metaVars
<1> QED
  BY <1>2, <1>3, <1>4, <1>5, <1>6, <1>7, <1>8, <1>9, <1>10 DEF MetaNext, StoreNext

LEMMA SavedAtStart == MetaInit => StoreTypes /\ AnswerIsSaved
<1> SUFFICES ASSUME MetaInit PROVE StoreTypes /\ AnswerIsSaved
  OBVIOUS
<1>1. records = [f \in FileNames |-> records[f]] /\ \A f \in FileNames : records[f] = Empty
  BY DEF MetaInit, NoRecords, FileNames
<1>2. disk = [f \in FileNames |-> Saved(Empty)]
  BY FilesAre DEF MetaInit
<1>3. writer = NoWriter /\ writer.at = 0 /\ DOMAIN writer = {"op", "at", "about", "brought"}
  BY DEF MetaInit, NoWriter
<1>4. DOMAIN hist = {"imports", "faults", "acked", "damaged", "about", "strays"} /\ hist.acked = records
  BY DEF MetaInit
<1> QED
  BY <1>1, <1>2, <1>3, <1>4 DEF StoreTypes, AnswerIsSaved, SavedOf, FileNames

(* Whatever restarts happen, the server has the records that the last answered
   change left, unless a save failed or a crash cut one off: a change is answered
   when all three files are written, and no write is under way then. *)
THEOREM LastAnswerStays == MetaSpec => []LastAnswerStands
<1>1. MetaInit => StoreTypes /\ AnswerIsSaved
  BY SavedAtStart
<1>2. StoreTypes /\ AnswerIsSaved => LastAnswerStands
  BY DEF StoreTypes, AnswerIsSaved, LastAnswerStands, Unlocked
<1> QED
  BY <1>1, <1>2, SaveStep, PTL DEF MetaSpec
(* Induction over the naturals, for a set: the library states it for an
   operator, which none of the provers can take. *)
LEMMA SmallestSubset ==
  ASSUME NEW S, NEW T, T \subseteq FiniteSubsetsOf(S), T # {}
  PROVE  \E x \in T : \A y \in T : y \subseteq x => y = x
<1>1. \E x \in T : \A y \in T : ~ (<<y, x>> \in StrictSubsetOrdering(S))
  BY FS_StrictSubsetOrderingWellFounded, WFMin
<1> QED
  BY <1>1 DEF StrictSubsetOrdering, FiniteSubsetsOf

LEMMA SetInduction ==
  ASSUME NEW T, 0 \in T, \A n \in Nat : n \in T => n + 1 \in T
  PROVE  Nat \subseteq T
<1> SUFFICES ASSUME Nat \ T # {} PROVE FALSE
  OBVIOUS
<1> DEFINE Lacking == {1 .. n : n \in Nat \ T}
<1>1. PICK x \in Lacking : \A y \in Lacking : y \subseteq x => y = x
  <2>1. \A n \in Nat : 1 .. n \subseteq Nat /\ IsFiniteSet(1 .. n)
    BY FS_Interval
  <2>2. Lacking \subseteq FiniteSubsetsOf(Nat) /\ Lacking # {}
    BY <2>1 DEF FiniteSubsetsOf
  <2> HIDE DEF Lacking
  <2> QED
    BY <2>2, SmallestSubset
<1>2. PICK n \in Nat \ T : x = 1 .. n
  OBVIOUS
<1>3. n # 0 /\ n - 1 \in Nat \ T
  OBVIOUS
<1>4. 1 .. (n - 1) \in Lacking
  BY <1>3
<1>5. n \in 1 .. n /\ n \notin 1 .. (n - 1) /\ 1 .. (n - 1) \subseteq 1 .. n
  OBVIOUS
<1> QED
  BY <1>1, <1>2, <1>4, <1>5

LEMMA LastIsLargest ==
  ASSUME NEW n \in Nat, NEW s \in SUBSET (1 .. n), s # {}
  PROVE  Max(s) \in s /\ \A y \in s : y <= Max(s)
<1> DEFINE Tops == {k \in Nat : \A t \in SUBSET (1 .. k) : t # {} => \E m \in t : \A y \in t : m >= y}
<1>1. 0 \in Tops
  <2>1. 1 .. 0 = {}
    OBVIOUS
  <2> QED
    BY <2>1
<1>2. ASSUME NEW k \in Nat, k \in Tops PROVE k + 1 \in Tops
  <2> SUFFICES ASSUME NEW t \in SUBSET (1 .. (k + 1)), t # {}
               PROVE  \E m \in t : \A y \in t : m >= y
    OBVIOUS
  <2>1. CASE k + 1 \in t
    BY <2>1
  <2>2. CASE k + 1 \notin t
    <3>1. t \in SUBSET (1 .. k)
      BY <2>2
    <3> QED
      BY <3>1, <1>2
  <2> QED
    BY <2>1, <2>2
<1>3. n \in Tops
  <2> HIDE DEF Tops
  <2> QED
    BY <1>1, <1>2, SetInduction
<1>4. \E m \in s : \A y \in s : m >= y
  BY <1>3
<1> QED
  BY <1>4 DEF Max

-----------------------------------------------------------------------------
(* Removing instances one after the other, as an import does. *)

(* The records after each set of the positions, the largest last. *)
Cleared(iter, n, r, ids) ==
  \A s \in SUBSET (1 .. n) :
    iter[s] = IF s = {} THEN r ELSE RemoveInstance(iter[s \ {Max(s)}], ids[Max(s)])

LEMMA ClearedIsThere ==
  ASSUME NEW n \in Nat, NEW r, NEW ids
  PROVE  \E iter : iter = [s \in SUBSET (1 .. n) |-> iter[s]] /\ Cleared(iter, n, r, ids)
<1> DEFINE Good(k) == \E iter : /\ iter = [s \in SUBSET (1 .. k) |-> iter[s]]
                                /\ Cleared(iter, k, r, ids)
           Reached == {k \in Nat : Good(k)}
<1>1. 0 \in Reached
  <2> DEFINE iter == [s \in SUBSET (1 .. 0) |-> r]
  <2>1. SUBSET (1 .. 0) = {{}}
    OBVIOUS
  <2>2. iter = [s \in SUBSET (1 .. 0) |-> iter[s]] /\ iter[{}] = r
    BY <2>1
  <2> HIDE DEF iter
  <2>3. Cleared(iter, 0, r, ids)
    BY <2>1, <2>2 DEF Cleared
  <2> QED
    BY <2>2, <2>3
<1>2. ASSUME NEW k \in Nat, k \in Reached PROVE k + 1 \in Reached
  <2>0. Good(k)
    BY <1>2
  <2>1. PICK g : g = [s \in SUBSET (1 .. k) |-> g[s]] /\ Cleared(g, k, r, ids)
    BY <2>0
  <2> DEFINE iter == [s \in SUBSET (1 .. (k + 1)) |->
                        IF k + 1 \in s THEN RemoveInstance(g[s \ {k + 1}], ids[k + 1]) ELSE g[s]]
  <2>2. \A s \in SUBSET (1 .. (k + 1)) : k + 1 \notin s => s \in SUBSET (1 .. k)
    OBVIOUS
  <2>3. iter = [s \in SUBSET (1 .. (k + 1)) |-> iter[s]]
    OBVIOUS
  <2>4. \A s \in SUBSET (1 .. (k + 1)) :
          iter[s] = IF k + 1 \in s THEN RemoveInstance(g[s \ {k + 1}], ids[k + 1]) ELSE g[s]
    BY Zenon
  <2> HIDE DEF iter
  <2>5. ASSUME NEW s \in SUBSET (1 .. (k + 1))
        PROVE  iter[s] = IF s = {} THEN r ELSE RemoveInstance(iter[s \ {Max(s)}], ids[Max(s)])
    <3>1. CASE k + 1 \in s
      <4>1. Max(s) = k + 1
        <5>1. Max(s) \in s /\ \A y \in s : y <= Max(s)
          BY <3>1, LastIsLargest, k + 1 \in Nat
        <5>2. Max(s) \in 1 .. (k + 1) /\ k + 1 <= Max(s)
          BY <5>1, <3>1
        <5> QED
          BY <5>2
      <4>2. s \ {k + 1} \in SUBSET (1 .. (k + 1)) /\ k + 1 \notin s \ {k + 1}
        OBVIOUS
      <4>3. iter[s \ {k + 1}] = g[s \ {k + 1}]
        BY <2>4, <4>2
      <4> QED
        BY <2>4, <3>1, <4>1, <4>3
    <3>2. CASE k + 1 \notin s
      <4>1. s \in SUBSET (1 .. k) /\ iter[s] = g[s]
        BY <3>2, <2>2, <2>4
      <4>2. g[s] = IF s = {} THEN r ELSE RemoveInstance(g[s \ {Max(s)}], ids[Max(s)])
        BY <2>1, <4>1 DEF Cleared
      <4>3. s \ {Max(s)} \in SUBSET (1 .. (k + 1)) /\ k + 1 \notin s \ {Max(s)}
        BY <3>2
      <4>4. iter[s \ {Max(s)}] = g[s \ {Max(s)}]
        BY <2>4, <4>3
      <4> QED
        BY <4>1, <4>2, <4>4
    <3> QED
      BY <3>1, <3>2
  <2>6. Cleared(iter, k + 1, r, ids)
    BY <2>5 DEF Cleared
  <2>7. Good(k + 1)
    BY <2>3, <2>6
  <2> HIDE DEF Good
  <2> QED
    BY <2>7
<1>3. n \in Reached
  <2> HIDE DEF Reached
  <2> QED
    BY <1>1, <1>2, SetInduction
<1> QED
  BY <1>3

(* One instance removed: it is gone with the nodes that name it, no other is,
   and what stays of the nodes is as it was. *)
LEMMA RemovedOne ==
  ASSUME NEW r, NEW i, NEW out, out = RemoveInstance(r, i)
  PROVE  /\ DOMAIN out.instances = DOMAIN r.instances \ {i}
         /\ DOMAIN out.nodes \subseteq DOMAIN r.nodes
         /\ \A n \in DOMAIN out.nodes : out.nodes[n] = r.nodes[n]
         /\ i \in DOMAIN r.instances => NodesOfInstance(out, i) = {}
         /\ DOMAIN out.clusters \subseteq DOMAIN r.clusters
         /\ \A c \in DOMAIN out.clusters : out.clusters[c] = r.clusters[c]
<1>1. CASE i \notin DOMAIN r.instances
  BY <1>1 DEF RemoveInstance
<1>2. CASE i \in DOMAIN r.instances
  <2>1. PICK dropped, gone : /\ out = [instances |-> Without(r.instances, {i}),
                                       clusters |-> Without(r.clusters, dropped),
                                       nodes |-> Without(r.nodes, gone)]
                             /\ NodesOfInstance(r, i) \subseteq gone
    BY <1>2, Zenon DEF RemoveInstance
  <2>2. /\ out.instances = Without(r.instances, {i}) /\ out.nodes = Without(r.nodes, gone)
        /\ out.clusters = Without(r.clusters, dropped)
    BY <2>1
  <2>3. /\ DOMAIN out.instances = DOMAIN r.instances \ {i} /\ DOMAIN out.nodes = DOMAIN r.nodes \ gone
        /\ \A n \in DOMAIN out.nodes : out.nodes[n] = r.nodes[n]
        /\ DOMAIN out.clusters \subseteq DOMAIN r.clusters
        /\ \A c \in DOMAIN out.clusters : out.clusters[c] = r.clusters[c]
    BY <2>2 DEF Without
  <2>4. NodesOfInstance(out, i) = {}
    BY <2>1, <2>3 DEF NodesOfInstance
  <2> QED
    BY <2>3, <2>4
<1> QED
  BY <1>1, <1>2

(* What removing the instances ids leaves of r. *)
LeftOf(out, r, ids) ==
  /\ DOMAIN out.instances = DOMAIN r.instances \ ids
  /\ DOMAIN out.nodes \subseteq DOMAIN r.nodes /\ DOMAIN out.clusters \subseteq DOMAIN r.clusters
  /\ \A c \in DOMAIN out.clusters : out.clusters[c] = r.clusters[c]
  /\ \A i \in ids \intersect DOMAIN r.instances : NodesOfInstance(out, i) = {}
  /\ \A n \in DOMAIN out.nodes : out.nodes[n] = r.nodes[n]
  /\ Orphans(out) \subseteq Orphans(r)

LEMMA RemovedMore ==
  ASSUME NEW r, NEW ids, NEW i, NEW mid, LeftOf(mid, r, ids), NEW out, out = RemoveInstance(mid, i)
  PROVE  LeftOf(out, r, ids \union {i})
<1>1. /\ DOMAIN out.instances = DOMAIN mid.instances \ {i}
      /\ DOMAIN out.nodes \subseteq DOMAIN mid.nodes
      /\ \A n \in DOMAIN out.nodes : out.nodes[n] = mid.nodes[n]
      /\ i \in DOMAIN mid.instances => NodesOfInstance(out, i) = {}
      /\ DOMAIN out.clusters \subseteq DOMAIN mid.clusters
      /\ \A c \in DOMAIN out.clusters : out.clusters[c] = mid.clusters[c]
  BY RemovedOne
<1>2. DOMAIN out.instances = DOMAIN r.instances \ (ids \union {i})
  BY <1>1 DEF LeftOf
<1>3. \A j : NodesOfInstance(mid, j) = {} => NodesOfInstance(out, j) = {}
  BY <1>1 DEF NodesOfInstance
<1>4. ASSUME NEW j \in (ids \union {i}) \intersect DOMAIN r.instances
      PROVE  NodesOfInstance(out, j) = {}
  BY <1>1, <1>3 DEF LeftOf
<1>5. Orphans(out) \subseteq Orphans(mid)
  <2> SUFFICES ASSUME NEW n \in DOMAIN out.nodes,
                      out.nodes[n].instance \notin {Nobody} \union DOMAIN out.instances
               PROVE  n \in Orphans(mid)
    BY DEF Orphans
  <2>1. ~(out.nodes[n].instance = i /\ i \in DOMAIN mid.instances)
    BY <1>1 DEF NodesOfInstance
  <2> QED
    BY <1>1, <2>1 DEF Orphans
<1> QED
  BY <1>1, <1>2, <1>4, <1>5 DEF LeftOf

(* The positions of a list, one after the other. *)
LEMMA ClearedAll ==
  ASSUME NEW n \in Nat, NEW r, NEW ids, NEW iter, Cleared(iter, n, r, ids)
  PROVE  LeftOf(iter[1 .. n], r, {ids[j] : j \in 1 .. n})
<1> DEFINE Reached == {k \in Nat : k <= n => LeftOf(iter[1 .. k], r, {ids[j] : j \in 1 .. k})}
<1>1. 0 \in Reached
  <2>1. 1 .. 0 = {} /\ {} \in SUBSET (1 .. n)
    OBVIOUS
  <2>2. iter[{}] = r
    BY <2>1 DEF Cleared
  <2>3. LeftOf(r, r, {})
    BY DEF LeftOf
  <2>4. {ids[j] : j \in 1 .. 0} = {}
    BY <2>1
  <2> QED
    BY <2>1, <2>2, <2>3, <2>4
<1>2. ASSUME NEW k \in Nat, k \in Reached PROVE k + 1 \in Reached
  <2> SUFFICES ASSUME k + 1 <= n
               PROVE  LeftOf(iter[1 .. (k + 1)], r, {ids[j] : j \in 1 .. (k + 1)})
    OBVIOUS
  <2>1. 1 .. (k + 1) \in SUBSET (1 .. n) /\ 1 .. (k + 1) # {}
    OBVIOUS
  <2>2. Max(1 .. (k + 1)) = k + 1
    <3> DEFINE s == 1 .. (k + 1)
    <3>0. s \in SUBSET (1 .. n) /\ s # {} /\ k + 1 \in s
      OBVIOUS
    <3> HIDE DEF s
    <3>2. Max(s) \in s /\ \A y \in s : y <= Max(s)
      BY <3>0, LastIsLargest
    <3>1. Max(1 .. (k + 1)) \in 1 .. (k + 1) /\ k + 1 <= Max(1 .. (k + 1))
      BY <3>0, <3>2 DEF s
    <3> QED
      BY <3>1
  <2>3. (1 .. (k + 1)) \ {k + 1} = 1 .. k
    OBVIOUS
  <2>4. iter[1 .. (k + 1)] = RemoveInstance(iter[1 .. k], ids[k + 1])
    BY <2>1, <2>2, <2>3 DEF Cleared
  <2>5. {ids[j] : j \in 1 .. (k + 1)} = {ids[j] : j \in 1 .. k} \union {ids[k + 1]}
    OBVIOUS
  <2>6. LeftOf(iter[1 .. k], r, {ids[j] : j \in 1 .. k})
    BY <1>2
  <2> QED
    BY <2>4, <2>5, <2>6, RemovedMore
<1>3. n \in Reached
  <2> HIDE DEF Reached
  <2> QED
    BY <1>1, <1>2, SetInduction
<1> QED
  BY <1>3

(* An import clears the instances it brings, one after the other. *)
LEMMA ClearsAll ==
  ASSUME NEW r, NEW list, list \in Seq(Range(list))
  PROVE  LeftOf(FoldLeft(LAMBDA acc, x : RemoveInstance(acc, x.id), r, list), r, Ids(list))
<1> DEFINE n == Len(list)
           ids == [k \in 1 .. n |-> list[k].id]
           Folds(iter) == iter = [s \in SUBSET DOMAIN list |->
              IF s = {} THEN r
              ELSE LET x == Max(s) IN RemoveInstance(iter[s \ {x}], list[x].id)]
           chosen == CHOOSE iter : Folds(iter)
<1>1. n \in Nat /\ DOMAIN list = 1 .. n
  BY LenProperties
<1>2. ASSUME NEW s \in SUBSET (1 .. n), s # {} PROVE Max(s) \in 1 .. n /\ ids[Max(s)] = list[Max(s)].id
  <2>1. Max(s) \in 1 .. n
    BY <1>1, <1>2, LastIsLargest
  <2> QED
    BY <2>1
<1>3. \E iter : Folds(iter)
  <2>1. PICK iter : iter = [s \in SUBSET (1 .. n) |-> iter[s]] /\ Cleared(iter, n, r, ids)
    BY <1>1, ClearedIsThere
  <2>2. ASSUME NEW s \in SUBSET (1 .. n)
        PROVE  iter[s] = IF s = {} THEN r ELSE RemoveInstance(iter[s \ {Max(s)}], list[Max(s)].id)
    BY <1>2, <2>1 DEF Cleared
  <2>3. iter = [s \in SUBSET (1 .. n) |->
                 IF s = {} THEN r ELSE RemoveInstance(iter[s \ {Max(s)}], list[Max(s)].id)]
    BY <2>1, <2>2
  <2> QED
    BY <1>1, <2>3
<1>4. Folds(chosen)
  <2> HIDE DEF Folds
  <2> QED
    BY <1>3
<1>5. Cleared(chosen, n, r, ids)
  <2> HIDE DEF chosen
  <2>1. \A s \in SUBSET (1 .. n) : chosen[s] =
           IF s = {} THEN r ELSE RemoveInstance(chosen[s \ {Max(s)}], list[Max(s)].id)
    BY <1>1, <1>4
  <2> HIDE DEF n, ids, Folds
  <2> QED
    BY <1>2, <2>1 DEF Cleared
<1>6. Ids(list) = {ids[j] : j \in 1 .. n}
  BY <1>1 DEF Ids, Range
<1>7. LeftOf(chosen[1 .. n], r, {ids[j] : j \in 1 .. n})
  <2> HIDE DEF chosen, n, ids, Folds
  <2> QED
    BY <1>1, <1>5, ClearedAll
<1>8. FoldLeft(LAMBDA acc, x : RemoveInstance(acc, x.id), r, list) = chosen[DOMAIN list]
  BY DEF FoldLeft, MapThenFoldSet
<1> HIDE DEF chosen, n, ids, Folds
<1> QED
  BY <1>1, <1>6, <1>7, <1>8, Zenon

-----------------------------------------------------------------------------
(* What an import leaves of the instances it brings. *)

LEMMA KeyedIs ==
  ASSUME NEW list
  PROVE  /\ DOMAIN Keyed(list) = Ids(list)
         /\ \A i \in Ids(list) : Keyed(list)[i] \in Range(list) /\ Keyed(list)[i].id = i
<1>1. DOMAIN Keyed(list) = Ids(list)
  BY DEF Keyed, Ids
<1>2. ASSUME NEW i \in Ids(list) PROVE Keyed(list)[i] \in Range(list) /\ Keyed(list)[i].id = i
  <2>1. Keyed(list)[i] = CHOOSE x \in Range(list) : x.id = i
    BY DEF Keyed, Ids
  <2>2. \E x \in Range(list) : x.id = i
    BY DEF Ids
  <2> QED
    BY <2>1, <2>2
<1> QED
  BY <1>1, <1>2

LEMMA Applied ==
  ASSUME NEW r, NEW t, t.instances \in Seq(Range(t.instances)), NEW out, out = ApplyTemplate(r, t)
  PROVE  /\ \A i \in Ids(t.instances) \intersect DOMAIN r.instances :
              NodesOfInstance(out, i) \subseteq Ids(t.nodes)
         /\ \A i \in Ids(t.instances) \ ({Nobody} \union DOMAIN r.instances) :
              NodesOfInstance(out, i) \subseteq Ids(t.nodes) \union Orphans(r)
         /\ Orphans(out) \subseteq Ids(t.nodes) \union Orphans(r)
<1> DEFINE cleared == FoldLeft(LAMBDA acc, x : RemoveInstance(acc, x.id), r, t.instances)
<1>1. LeftOf(cleared, r, Ids(t.instances))
  BY ClearsAll
<1>2. /\ out.instances = Over(cleared.instances, Keyed(t.instances))
      /\ out.nodes = Over(cleared.nodes, Keyed(t.nodes))
  BY DEF ApplyTemplate
<1> HIDE DEF cleared
<1>3. /\ DOMAIN out.instances = DOMAIN cleared.instances \union Ids(t.instances)
      /\ DOMAIN out.nodes = DOMAIN cleared.nodes \union Ids(t.nodes)
      /\ \A n \in DOMAIN cleared.nodes \ Ids(t.nodes) : out.nodes[n] = cleared.nodes[n]
  <2>1. /\ DOMAIN out.instances = DOMAIN cleared.instances \union DOMAIN Keyed(t.instances)
        /\ DOMAIN out.nodes = DOMAIN cleared.nodes \union DOMAIN Keyed(t.nodes)
        /\ \A n \in DOMAIN cleared.nodes \ DOMAIN Keyed(t.nodes) : out.nodes[n] = cleared.nodes[n]
    BY <1>2 DEF Over
  <2> QED
    BY <2>1, KeyedIs, Zenon
<1>4. \A i : NodesOfInstance(out, i) \subseteq Ids(t.nodes) \union NodesOfInstance(cleared, i)
  BY <1>3 DEF NodesOfInstance
<1>5. \A i \in Ids(t.instances) \intersect DOMAIN r.instances :
        NodesOfInstance(out, i) \subseteq Ids(t.nodes)
  BY <1>1, <1>4 DEF LeftOf
<1>6. ASSUME NEW i \in Ids(t.instances) \ ({Nobody} \union DOMAIN r.instances)
      PROVE  NodesOfInstance(out, i) \subseteq Ids(t.nodes) \union Orphans(r)
  <2>1. NodesOfInstance(cleared, i) \subseteq Orphans(cleared)
    BY <1>1 DEF LeftOf, Orphans, NodesOfInstance
  <2> QED
    BY <1>1, <1>4, <2>1 DEF LeftOf
<1>7. Orphans(out) \subseteq Ids(t.nodes) \union Orphans(cleared)
  BY <1>3 DEF Orphans
<1> QED
  BY <1>1, <1>5, <1>6, <1>7 DEF LeftOf

(* What a preview and a refresh hold is what was parsed. *)
PendingKnown ==
  /\ \A id \in DOMAIN imports : /\ imports[id].template \in ParsedTemplates
                                /\ imports[id].errors = PreviewErrors(imports[id].template)
  /\ refresh # NoRefresh => refresh.instance \in Instances

(* A node that names an instance the store does not have is a stray. *)
OrphansAreStrays == Orphans(records) \subseteq hist.strays

LEMMA TemplatesAreLists ==
  ASSUME NEW t \in ParsedTemplates
  PROVE  t.instances \in Seq(Range(t.instances))
<1>1. CASE t \in Templates
  BY <1>1, MetadataAssumption DEF IsList
<1>2. CASE t \notin Templates
  <2>1. PICK i \in Instances, doc \in Raws : t = OpenGemini(i, doc)
    BY <1>2 DEF ParsedTemplates
  <2>2. t.instances = <<[id |-> i, cluster |-> i, node |-> Nobody]>>
    BY <2>1 DEF OpenGemini
  <2> DEFINE x == [id |-> i, cluster |-> i, node |-> Nobody]
  <2> HIDE DEF x
  <2>3. t.instances = <<x>> /\ Range(<<x>>) = {x}
    BY <2>2 DEF x, Range
  <2> QED
    BY <2>3
<1> QED
  BY <1>1, <1>2

(* What a refresh imports: one instance. *)
LEMMA RefreshedIs ==
  ASSUME NEW i, NEW doc, NEW t, t = OpenGemini(i, doc)
  PROVE  t.instances \in Seq(Range(t.instances)) /\ Ids(t.instances) = {i}
<1>1. t.instances = <<[id |-> i, cluster |-> i, node |-> Nobody]>>
  BY DEF OpenGemini
<1> DEFINE x == [id |-> i, cluster |-> i, node |-> Nobody]
<1>2. x.id = i
  OBVIOUS
<1> HIDE DEF x
<1>3. t.instances = <<x>> /\ Range(<<x>>) = {x}
  BY <1>1 DEF x, Range
<1> QED
  BY <1>2, <1>3 DEF Ids

LEMMA PendingStep == PendingKnown /\ [MetaNext]_metaVars => PendingKnown'
<1> SUFFICES ASSUME PendingKnown, [MetaNext]_metaVars PROVE PendingKnown'
  OBVIOUS
<1>1. CASE UNCHANGED <<imports, refresh>>
  BY <1>1 DEF PendingKnown
<1>2. ASSUME NEW t \in ParsedTemplates, CreateImportPreview(t) PROVE PendingKnown'
  <2> DEFINE p == [template |-> t, errors |-> PreviewErrors(t)]
             one == [id \in {hist.imports + 1} |-> p]
  <2>1. imports' = Over(imports, one) /\ UNCHANGED refresh
    BY <1>2 DEF CreateImportPreview
  <2>2. \A id \in DOMAIN one : one[id] = p
    OBVIOUS
  <2>3. p.template = t /\ p.errors = PreviewErrors(p.template)
    OBVIOUS
  <2> HIDE DEF one, p
  <2>4. \A id \in DOMAIN imports' : imports'[id] = p \/ (id \in DOMAIN imports /\ imports'[id] = imports[id])
    BY <2>1, <2>2 DEF Over
  <2> QED
    BY <2>1, <2>3, <2>4 DEF PendingKnown
<1>3. ASSUME NEW id, ConfirmImport(id) PROVE PendingKnown'
  <2>1. imports' = Without(imports, {id}) /\ UNCHANGED refresh
    BY <1>3 DEF ConfirmImport
  <2> QED
    BY <2>1 DEF PendingKnown, Without
<1>4. ASSUME NEW i \in Instances, RefreshReads(i) PROVE PendingKnown'
  <2>1. refresh'.instance = i /\ UNCHANGED imports
    BY <1>4 DEF RefreshReads
  <2> QED
    BY <2>1 DEF PendingKnown
<1>5. CASE RefreshApplies
  BY <1>5 DEF RefreshApplies, PendingKnown
<1>6. CASE Restart
  BY <1>6 DEF Restart, PendingKnown, Empty
<1>7. CASE ReaderNext \/ TakeContext \/ WriteFile \/ WriteFileFails \/ \E i \in Instances : DeleteInstance(i)
  BY <1>1, <1>7 DEF ReaderNext, TakeContext, WriteFile, WriteFileFails, DeleteInstance, QueryMetadata,
     GetMetadataFieldTypes, StoreVars
<1>8. CASE UNCHANGED metaVars
  BY <1>1, <1>8 DEF metaVars
<1> QED
  BY <1>2, <1>3, <1>4, <1>5, <1>6, <1>7, <1>8 DEF MetaNext, StoreNext

(* The import of a template without errors, or of what a refresh has read. *)
LEMMA ImportIs ==
  ASSUME PendingKnown, MetaNext, writer'.op = "import", writer = NoWriter
  PROVE  \E t \in ParsedTemplates \union {OpenGemini(refresh.instance, refresh.raw)} :
           /\ t.instances \in Seq(Range(t.instances)) /\ Nobody \notin Ids(t.instances)
           /\ Change("import", ApplyTemplate(records, t), Ids(t.instances), Ids(t.nodes))
<1>1. CASE RefreshApplies
  <2> DEFINE t == OpenGemini(refresh.instance, refresh.raw)
  <2>1. /\ Change("import", ApplyTemplate(records, t), Ids(t.instances), Ids(t.nodes))
        /\ refresh.instance \in Instances
    BY <1>1 DEF RefreshApplies, PendingKnown
  <2>2. t.instances \in Seq(Range(t.instances)) /\ Ids(t.instances) = {refresh.instance}
    BY RefreshedIs
  <2> HIDE DEF t
  <2>3. Nobody \notin Ids(t.instances)
    BY <2>1, <2>2, MetadataAssumption
  <2> QED
    BY <2>1, <2>2, <2>3 DEF t
<1>2. ASSUME NEW id \in DOMAIN imports, ConfirmImport(id), writer' # writer
      PROVE  \E t \in ParsedTemplates :
               /\ t.instances \in Seq(Range(t.instances)) /\ Nobody \notin Ids(t.instances)
               /\ Change("import", ApplyTemplate(records, t), Ids(t.instances), Ids(t.nodes))
  <2> DEFINE t == imports[id].template
  <2>1. /\ ~imports[id].errors
        /\ Change("import", ApplyTemplate(records, t), Ids(t.instances), Ids(t.nodes))
    BY <1>2 DEF ConfirmImport
  <2>2. t \in ParsedTemplates /\ ~PreviewErrors(t)
    BY <2>1 DEF PendingKnown
  <2> HIDE DEF t
  <2>3. Nobody \notin Ids(t.instances)
    BY <2>2 DEF PreviewErrors, Faulty, Ids
  <2> QED
    BY <2>1, <2>2, <2>3, TemplatesAreLists
<1>3. writer' # writer
  BY DEF NoWriter
<1>4. ~WriteFile /\ ~WriteFileFails /\ ~Restart
  <2>1. writer.at = 0
    BY DEF NoWriter
  <2> QED
    BY <2>1 DEF WriteFile, WriteFileFails, Restart, NoWriter
<1>5. \A i : ~DeleteInstance(i)
  BY DEF DeleteInstance, Change
<1>6. ~TakeContext /\ ~ReaderNext /\ (\A t : ~CreateImportPreview(t)) /\ \A i : ~RefreshReads(i)
  BY <1>3 DEF TakeContext, ReaderNext, CreateImportPreview, RefreshReads, QueryMetadata,
     GetMetadataFieldTypes, StoreVars
<1> QED
  BY <1>1, <1>2, <1>3, <1>4, <1>5, <1>6 DEF MetaNext, StoreNext

LEMMA OrphansStep ==
  ASSUME StoreTypes, AnswerIsSaved, PendingKnown, OrphansAreStrays, [MetaNext]_metaVars
  PROVE  OrphansAreStrays'
<1>0. DOMAIN hist = {"imports", "faults", "acked", "damaged", "about", "strays"}
  BY DEF StoreTypes
<1>1. CASE UNCHANGED records /\ hist'.strays = hist.strays
  BY <1>1 DEF OrphansAreStrays, Orphans
<1>2. ASSUME NEW t, CreateImportPreview(t) PROVE OrphansAreStrays'
  <2>1. UNCHANGED records /\ hist' = [hist EXCEPT !.imports = @ + 1]
    BY <1>2 DEF CreateImportPreview
  <2> QED
    BY <1>0, <1>1, <2>1
<1>3. CASE MetaNext /\ writer = NoWriter /\ writer'.op = "import"
  <2>1. PICK t : /\ t.instances \in Seq(Range(t.instances))
                 /\ Change("import", ApplyTemplate(records, t), Ids(t.instances), Ids(t.nodes))
    BY <1>3, ImportIs
  <2> DEFINE out == ApplyTemplate(records, t)
             brought == Ids(t.nodes)
  <2>2. Orphans(out) \subseteq brought \union Orphans(records)
    BY <2>1, Applied
  <2>3. /\ records' = out
        /\ hist' = [hist EXCEPT !.about = Ids(t.instances),
                                !.strays = (@ \ brought) \union (brought \intersect Orphans(out))]
    BY <2>1 DEF Change
  <2> HIDE DEF out, brought
  <2>4. hist'.strays = (hist.strays \ brought) \union (brought \intersect Orphans(out))
    BY <1>0, <2>3
  <2>5. Orphans(records') \subseteq hist'.strays
    BY <2>2, <2>3, <2>4 DEF OrphansAreStrays
  <2> QED
    BY <2>5 DEF OrphansAreStrays, Orphans
<1>4. ASSUME NEW i, DeleteInstance(i) PROVE OrphansAreStrays'
  <2> DEFINE out == RemoveInstance(records, i)
  <2>1. records' = out /\ hist' = [hist EXCEPT !.about = {i},
                                     !.strays = (@ \ {}) \union ({} \intersect Orphans(out))]
    BY <1>4 DEF DeleteInstance, Change
  <2>2. LeftOf(records, records, {})
    BY DEF LeftOf
  <2>3. LeftOf(out, records, {} \union {i})
    BY <2>2, RemovedMore
  <2> HIDE DEF out
  <2>4. hist'.strays = hist.strays /\ Orphans(records') \subseteq hist'.strays
    BY <1>0, <2>1, <2>3 DEF OrphansAreStrays, LeftOf
  <2> QED
    BY <2>4 DEF OrphansAreStrays, Orphans
<1>5. CASE WriteFile \/ WriteFileFails
  <2>1. records' = records
    BY <1>5 DEF WriteFile, WriteFileFails
  <2>2. \/ hist' = hist
        \/ hist' = [hist EXCEPT !.acked = records]
        \/ hist' = [hist EXCEPT !.faults = @ + 1, !.damaged = TRUE]
    BY <1>5 DEF WriteFile, WriteFileFails, Answered
  <2>3. hist'.strays = hist.strays
    BY <1>0, <2>2
  <2> QED
    BY <1>1, <2>1, <2>3
<1>6. CASE Restart
  <2>1. PICK answered :
          hist' = [hist EXCEPT !.faults = @ + 1, !.damaged = @ \/ writer.at \in 1 .. 3,
                               !.acked = answered, !.about = Instances,
                               !.strays = IF hist.damaged \/ writer.at \in 1 .. 3
                                          THEN @ \union Orphans(records') ELSE @]
    BY <1>6 DEF Restart
  <2>2. /\ hist'.damaged = (hist.damaged \/ writer.at \in 1 .. 3)
        /\ hist'.strays = IF hist.damaged \/ writer.at \in 1 .. 3
                          THEN hist.strays \union Orphans(records') ELSE hist.strays
    BY <1>0, <2>1
  <2>3. CASE hist.damaged \/ writer.at \in 1 .. 3
    <3>1. Orphans(records') \subseteq hist'.strays
      BY <2>2, <2>3
    <3> QED
      BY <3>1 DEF OrphansAreStrays, Orphans
  <2>4. CASE ~(hist.damaged \/ writer.at \in 1 .. 3)
    <3>1. ~hist'.damaged /\ hist'.strays = hist.strays
      BY <2>2, <2>4, Zenon
    <3>2. records' = records
      BY <1>6, <3>1, RestartLoads
    <3> QED
      BY <1>1, <3>1, <3>2
  <2> QED
    BY <2>3, <2>4
<1>7. CASE ReaderNext \/ TakeContext \/ \E i \in Instances : RefreshReads(i)
  BY <1>1, <1>7 DEF ReaderNext, TakeContext, RefreshReads, QueryMetadata, GetMetadataFieldTypes, StoreVars
<1>8. CASE UNCHANGED metaVars
  BY <1>1, <1>8 DEF metaVars
<1>9. ASSUME NEW id, MetaNext, ConfirmImport(id) PROVE OrphansAreStrays'
  <2>1. CASE UNCHANGED <<records, writer, hist>>
    BY <2>1, <1>1
  <2>2. CASE ~UNCHANGED <<records, writer, hist>>
    <3>1. PICK new, about, brought : Change("import", new, about, brought)
      BY <1>9, <2>2, Zenon DEF ConfirmImport
    <3>2. writer = NoWriter /\ writer'.op = "import"
      BY <1>9, <3>1 DEF ConfirmImport, Change, Unlocked
    <3> QED
      BY <1>3, <1>9, <3>2
  <2> QED
    BY <2>1, <2>2
<1>10. CASE MetaNext /\ RefreshApplies
  <2>1. PICK new, about, brought : Change("import", new, about, brought)
    BY <1>10, Zenon DEF RefreshApplies
  <2>2. writer = NoWriter /\ writer'.op = "import"
    BY <1>10, <2>1 DEF RefreshApplies, Change, Unlocked
  <2> QED
    BY <1>3, <1>10, <2>2
<1> QED
  BY <1>2, <1>4, <1>5, <1>6, <1>7, <1>8, <1>9, <1>10 DEF MetaNext, StoreNext

(* An import, or a refresh, leaves of the instances it brings no node that it
   does not bring: none at all if the store has the instance, whatever failed or
   was cut off before, and none but strays if it does not.  No deletion and no
   re-import leaves a node behind that a later import would find (metadata.rs:
   apply_template_records, remove_instance_records). *)
THEOREM ReimportClears == MetaSpec => ReimportReplaces
<1> DEFINE Inv == StoreTypes /\ AnswerIsSaved /\ PendingKnown /\ OrphansAreStrays
<1>1. MetaInit => Inv
  <2>1. MetaInit => StoreTypes /\ AnswerIsSaved
    BY SavedAtStart
  <2>2. MetaInit => PendingKnown
    BY DEF MetaInit, PendingKnown, Empty
  <2>3. MetaInit => OrphansAreStrays
    BY DEF MetaInit, OrphansAreStrays, Orphans, NoRecords, Empty
  <2> QED
    BY <2>1, <2>2, <2>3
<1>2. Inv /\ [MetaNext]_metaVars => Inv'
  BY SaveStep, PendingStep, OrphansStep
<1>3. Inv /\ [MetaNext]_metaVars => [ImportReplaces]_metaVars
  <2> SUFFICES ASSUME Inv, MetaNext, writer = NoWriter, writer'.op = "import", NEW i \in writer'.about
               PROVE  NodesOfInstance(records', i) \subseteq writer'.brought \union
                        (IF i \in DOMAIN records.instances THEN {} ELSE hist.strays)
    BY DEF ImportReplaces
  <2>1. PICK t : /\ t.instances \in Seq(Range(t.instances)) /\ Nobody \notin Ids(t.instances)
                 /\ Change("import", ApplyTemplate(records, t), Ids(t.instances), Ids(t.nodes))
    BY ImportIs
  <2>2. /\ records' = ApplyTemplate(records, t)
        /\ writer'.about = Ids(t.instances) /\ writer'.brought = Ids(t.nodes)
    BY <2>1 DEF Change
  <2>3. CASE i \in DOMAIN records.instances
    <3>1. NodesOfInstance(ApplyTemplate(records, t), i) \subseteq Ids(t.nodes)
      BY <2>1, <2>2, <2>3, Applied
    <3> QED
      BY <2>2, <3>1
  <2>4. CASE i \notin DOMAIN records.instances
    <3>1. NodesOfInstance(ApplyTemplate(records, t), i) \subseteq Ids(t.nodes) \union Orphans(records)
      BY <2>1, <2>2, <2>4, Applied
    <3> QED
      BY <2>2, <2>4, <3>1 DEF OrphansAreStrays
  <2> QED
    BY <2>3, <2>4
<1> HIDE DEF Inv
<1> QED
  BY <1>1, <1>2, <1>3, PTL DEF MetaSpec, ReimportReplaces

-----------------------------------------------------------------------------
(* Lists: what the sections of a topology are made of. *)

LEMMA FunctionIsList ==
  ASSUME NEW n \in Nat, NEW f, f = [i \in 1 .. n |-> f[i]]
  PROVE  IsList(f) /\ Range(f) = {f[i] : i \in 1 .. n}
<1>1. DOMAIN f = 1 .. n
  OBVIOUS
<1>2. Range(f) = {f[i] : i \in 1 .. n}
  BY <1>1 DEF Range
<1>3. f \in [1 .. n -> Range(f)]
  BY <1>2
<1> QED
  BY <1>2, <1>3, SeqDef DEF IsList

LEMMA ListIs ==
  ASSUME NEW s, IsList(s)
  PROVE  /\ Len(s) \in Nat /\ DOMAIN s = 1 .. Len(s) /\ s = [i \in 1 .. Len(s) |-> s[i]]
         /\ Range(s) = {s[i] : i \in 1 .. Len(s)} /\ \A i \in 1 .. Len(s) : s[i] \in Range(s)
<1>1. /\ Len(s) \in Nat /\ DOMAIN s = 1 .. Len(s)
      /\ s \in [1 .. Len(s) -> Range(s)]
  BY LenProperties DEF IsList
<1> QED
  BY <1>1 DEF Range

(* A list of something else for each element of a list. *)
LEMMA MappedIs ==
  ASSUME NEW s, IsList(s), NEW f, f = [i \in DOMAIN s |-> f[i]]
  PROVE  IsList(f) /\ Len(f) = Len(s) /\ Range(f) = {f[i] : i \in DOMAIN s}
<1>1. Len(s) \in Nat /\ DOMAIN s = 1 .. Len(s)
  BY ListIs
<1> DEFINE n == Len(s)
<1>2. n \in Nat /\ f = [i \in 1 .. n |-> f[i]] /\ DOMAIN s = 1 .. n
  BY <1>1
<1> HIDE DEF n
<1>3. IsList(f) /\ Range(f) = {f[i] : i \in DOMAIN s}
  BY <1>2, FunctionIsList
<1>4. DOMAIN f = 1 .. n /\ DOMAIN f = 1 .. Len(f) /\ Len(f) \in Nat
  BY <1>2, <1>3, ListIs
<1>5. Len(f) = n
  BY <1>2, <1>4
<1> QED
  BY <1>3, <1>5 DEF n

LEMMA JoinedIs ==
  ASSUME NEW a, NEW b, IsList(a), IsList(b)
  PROVE  IsList(a \o b) /\ Range(a \o b) = Range(a) \union Range(b)
<1> DEFINE T == Range(a) \union Range(b)
<1>1. a \in Seq(T) /\ b \in Seq(T)
  BY DEF IsList
<1> HIDE DEF T
<1>2. a \o b \in Seq(T) /\ Range(a \o b) = Range(a) \union Range(b)
  BY <1>1, ConcatProperties, RangeConcatenation
<1> QED
  BY <1>2 DEF T, IsList

LEMMA NoneIsList == IsList(<< >>) /\ Range(<< >>) = {}
<1>1. Range(<< >>) = {}
  BY DEF Range
<1> QED
  BY <1>1 DEF IsList

LEMMA OneIsList == ASSUME NEW x PROVE IsList(<<x>>) /\ Range(<<x>>) = {x}
<1>1. Range(<<x>>) = {x}
  BY DEF Range
<1> QED
  BY <1>1 DEF IsList

(* Lists in a row are a list, of what is in them. *)
LEMMA FlattenedIs ==
  ASSUME NEW s, IsList(s), \A i \in DOMAIN s : IsList(s[i])
  PROVE  IsList(FlattenSeq(s)) /\ Range(FlattenSeq(s)) = UNION {Range(s[i]) : i \in DOMAIN s}
<1> DEFINE n == Len(s)
           Flat(g, k) == /\ g = [i \in 1 .. k |-> g[i]]
                         /\ \A i \in 1 .. k : g[i] = IF i = 1 THEN s[i] ELSE g[i - 1] \o s[i]
           There == {k \in Nat : \E g : Flat(g, k)}
<1>0. n \in Nat /\ DOMAIN s = 1 .. n
  BY ListIs
<1> HIDE DEF n
<1>1. 0 \in There
  <2> DEFINE g == [i \in 1 .. 0 |-> << >>]
  <2>1. Flat(g, 0)
    OBVIOUS
  <2> HIDE DEF Flat, g
  <2> QED
    BY <2>1
<1>2. ASSUME NEW k \in Nat, k \in There PROVE k + 1 \in There
  <2> HIDE DEF Flat
  <2>1. PICK g : Flat(g, k)
    BY <1>2
  <2> USE DEF Flat
  <2> DEFINE h == [i \in 1 .. (k + 1) |->
                     IF i <= k THEN g[i] ELSE IF i = 1 THEN s[i] ELSE g[k] \o s[i]]
  <2>a. \A i \in 1 .. k : i = 1 => g[i] = s[i]
    BY <2>1
  <2>b. \A i \in 1 .. (k + 1) : i <= k => h[i] = g[i]
    BY Zenon
  <2>c. \A i \in 1 .. (k + 1) : ~ (i <= k) /\ i # 1 => h[i] = g[k] \o s[i]
    BY Zenon
  <2>e. \A i \in 1 .. (k + 1) : ~ (i <= k) /\ i = 1 => h[i] = s[i]
    BY Zenon
  <2>d. h = [i \in 1 .. (k + 1) |-> h[i]]
    BY Zenon
  <2> HIDE DEF h
  <2>3. ASSUME NEW i \in 1 .. (k + 1)
        PROVE  h[i] = IF i = 1 THEN s[i] ELSE h[i - 1] \o s[i]
    <3>0. i <= k \/ ~ (i <= k)
      OBVIOUS
    <3>1. CASE i <= k /\ i = 1
      <4>1. i \in 1 .. k
        BY <3>1
      <4>2. g[i] = s[i]
        BY <2>a, <3>1, <4>1, Zenon
      <4>3. h[i] = g[i]
        BY <2>b, <3>1, Zenon
      <4> QED
        BY <3>1, <4>2, <4>3, Zenon
    <3>2. CASE i <= k /\ i # 1
      <4>1. i \in 1 .. k /\ i - 1 \in 1 .. (k + 1) /\ i - 1 <= k
        BY <3>2
      <4>2. g[i] = g[i - 1] \o s[i]
        BY <2>1, <3>2, <4>1
      <4>3. h[i] = g[i] /\ h[i - 1] = g[i - 1]
        BY <2>b, <3>2, <4>1, Zenon
      <4> QED
        BY <3>2, <4>2, <4>3, Zenon
    <3>3. CASE ~ (i <= k) /\ i = 1
      BY <2>e, <3>3, Zenon
    <3>4. CASE ~ (i <= k) /\ i # 1
      <4>1. i - 1 = k /\ k \in 1 .. (k + 1) /\ k <= k
        BY <3>4
      <4>2. h[k] = g[k]
        BY <2>b, <4>1, Zenon
      <4>3. h[i] = g[k] \o s[i]
        BY <2>c, <3>4, Zenon
      <4> QED
        BY <3>4, <4>1, <4>2, <4>3, Zenon
    <3> QED
      BY <3>0, <3>1, <3>2, <3>3, <3>4, Zenon
  <2>4. Flat(h, k + 1)
    BY <2>d, <2>3
  <2> HIDE DEF Flat
  <2> QED
    BY <2>4
<1>3. \E g : Flat(g, n)
  <2>1. n \in There
    <3> HIDE DEF There
    <3> QED
      BY <1>0, <1>1, <1>2, SetInduction
  <2> HIDE DEF Flat
  <2> QED
    BY <2>1
<1> DEFINE Flattens(g) ==
             g = [i \in 1 .. Len(s) |-> IF i = 1 THEN s[i] ELSE g[i - 1] \o s[i]]
           chosen == CHOOSE g : Flattens(g)
<1>5. Flattens(chosen)
  <2>1. PICK g : Flat(g, n)
    BY <1>3
  <2>2. Flattens(g)
    BY <2>1 DEF n
  <2> HIDE DEF Flattens
  <2> QED
    BY <2>2
<1>6. n # 0 => FlattenSeq(s) = chosen[n]
  BY DEF FlattenSeq, n
<1>7. \A i \in 1 .. n : chosen[i] = IF i = 1 THEN s[i] ELSE chosen[i - 1] \o s[i]
  <2> HIDE DEF chosen
  <2> QED
    BY <1>5 DEF n
<1> HIDE DEF chosen, Flattens
<1> DEFINE Good == {k \in Nat : k \in 1 .. n =>
                      /\ IsList(chosen[k]) /\ Range(chosen[k]) = UNION {Range(s[i]) : i \in 1 .. k}}
<1>8. 0 \in Good
  OBVIOUS
<1>9. ASSUME NEW k \in Nat, k \in Good PROVE k + 1 \in Good
  <2> SUFFICES ASSUME k + 1 \in 1 .. n
               PROVE  /\ IsList(chosen[k + 1])
                      /\ Range(chosen[k + 1]) = UNION {Range(s[i]) : i \in 1 .. (k + 1)}
    OBVIOUS
  <2>0. IsList(s[k + 1])
    BY <1>0
  <2>1. CASE k = 0
    <3>1. chosen[k + 1] = s[k + 1]
      BY <1>7, <2>1
    <3>2. {Range(s[i]) : i \in 1 .. (k + 1)} = {Range(s[k + 1])}
      BY <2>1
    <3> QED
      BY <2>0, <3>1, <3>2
  <2>2. CASE k # 0
    <3>1. k \in 1 .. n /\ (k + 1) - 1 = k /\ k + 1 # 1
      BY <1>0, <2>2
    <3>2. chosen[k + 1] = chosen[k] \o s[k + 1]
      BY <1>7, <3>1
    <3>3. IsList(chosen[k]) /\ Range(chosen[k]) = UNION {Range(s[i]) : i \in 1 .. k}
      BY <1>9, <3>1
    <3>4. UNION {Range(s[i]) : i \in 1 .. (k + 1)} =
            (UNION {Range(s[i]) : i \in 1 .. k}) \union Range(s[k + 1])
      <4>1. 1 .. (k + 1) = (1 .. k) \union {k + 1}
        OBVIOUS
      <4> QED
        BY <4>1
    <3> QED
      BY <2>0, <3>2, <3>3, <3>4, JoinedIs
  <2> QED
    BY <2>1, <2>2
<1>10. n # 0 => n \in Good
  <2> HIDE DEF Good
  <2> QED
    BY <1>0, <1>8, <1>9, SetInduction
<1>11. CASE n = 0
  <2>1. FlattenSeq(s) = s /\ DOMAIN s = {}
    BY <1>0, <1>11 DEF FlattenSeq, n
  <2> QED
    BY <2>1 DEF Range
<1>12. CASE n # 0
  BY <1>0, <1>6, <1>10, <1>12
<1> QED
  BY <1>11, <1>12

(* The elements of a list that pass a test, as Where has them. *)
LEMMA WhereIs ==
  ASSUME NEW s, IsList(s), NEW p, p = [i \in DOMAIN s |-> p[i]],
         \A i \in DOMAIN s : p[i] = <<s[i]>> \/ p[i] = << >>
  PROVE  IsList(FlattenSeq(p)) /\ Range(FlattenSeq(p)) \subseteq Range(s)
<1>1. IsList(p) /\ DOMAIN p = DOMAIN s
  BY MappedIs
<1>2. \A i \in DOMAIN s : IsList(p[i]) /\ Range(p[i]) \subseteq {s[i]}
  BY NoneIsList, OneIsList
<1>3. IsList(FlattenSeq(p)) /\ Range(FlattenSeq(p)) = UNION {Range(p[i]) : i \in DOMAIN p}
  BY <1>1, <1>2, FlattenedIs
<1>4. \A i \in DOMAIN s : s[i] \in Range(s)
  BY DEF Range
<1> QED
  BY <1>1, <1>2, <1>3, <1>4

-----------------------------------------------------------------------------
(* Sorting. *)

(* Every place of a sorted set is taken: as many elements come before one. *)
LEMMA PlacesAreTaken ==
  ASSUME NEW S, IsFiniteSet(S), NEW key \in [S -> Int], \A x, y \in S : key[x] = key[y] => x = y
  PROVE  /\ Cardinality(S) \in Nat
         /\ \A i \in 1 .. Cardinality(S) : \E x \in S : Cardinality({y \in S : key[y] < key[x]}) = i - 1
<1> DEFINE n == Cardinality(S)
           Below(x) == {y \in S : key[y] < key[x]}
           place == [x \in S |-> Cardinality(Below(x)) + 1]
<1>1. n \in Nat
  BY FS_CardinalityType
<1>2. ASSUME NEW x \in S
      PROVE  IsFiniteSet(Below(x)) /\ Cardinality(Below(x)) \in Nat /\ Cardinality(Below(x)) < n
  <2>1. Below(x) \in SUBSET S /\ x \notin Below(x)
    OBVIOUS
  <2> HIDE DEF Below
  <2>2. /\ IsFiniteSet(Below(x)) /\ Cardinality(Below(x)) <= n
        /\ n = Cardinality(Below(x)) => S = Below(x)
    BY <2>1, FS_Subset
  <2>3. Cardinality(Below(x)) \in Nat
    BY <2>2, FS_CardinalityType
  <2>4. Cardinality(Below(x)) # n
    BY <2>1, <2>2
  <2> HIDE DEF n
  <2> QED
    BY <1>1, <2>2, <2>3, <2>4
<1>3. ASSUME NEW x \in S, NEW y \in S, key[x] < key[y]
      PROVE  Cardinality(Below(x)) < Cardinality(Below(y))
  <2>1. Below(x) \in SUBSET Below(y) /\ x \in Below(y) /\ x \notin Below(x)
    <3>1. \A z \in S : key[z] \in Int
      OBVIOUS
    <3>2. \A z \in S : key[z] < key[x] => key[z] < key[y]
      BY <1>3, <3>1
    <3> QED
      BY <1>3, <3>1, <3>2
  <2> HIDE DEF Below
  <2>2. /\ IsFiniteSet(Below(y)) /\ Cardinality(Below(x)) \in Nat /\ Cardinality(Below(y)) \in Nat
    BY <1>2
  <2>3. /\ Cardinality(Below(x)) <= Cardinality(Below(y))
        /\ Cardinality(Below(y)) = Cardinality(Below(x)) => Below(y) = Below(x)
    BY <2>1, <2>2, FS_Subset
  <2> QED
    BY <2>1, <2>2, <2>3
<1>4. place \in [S -> 1 .. n]
  <2> SUFFICES ASSUME NEW x \in S PROVE Cardinality(Below(x)) + 1 \in 1 .. n
    OBVIOUS
  <2> HIDE DEF Below, n
  <2> QED
    BY <1>1, <1>2
<1>5. ASSUME NEW x \in S, NEW y \in S, place[x] = place[y] PROVE x = y
  <2>1. Cardinality(Below(x)) + 1 = Cardinality(Below(y)) + 1
    BY <1>5
  <2>2. key[x] \in Int /\ key[y] \in Int
    OBVIOUS
  <2> HIDE DEF Below, place
  <2>3. ~(key[x] < key[y]) /\ ~(key[y] < key[x])
    BY <1>2, <1>3, <2>1
  <2>4. key[x] = key[y]
    BY <2>2, <2>3
  <2> QED
    BY <2>4
<1>6. place \in Injection(S, 1 .. n)
  <2> HIDE DEF place
  <2> QED
    BY <1>4, <1>5 DEF Injection, IsInjective
<1>7. IsFiniteSet(1 .. n) /\ Cardinality(1 .. n) = n
  BY <1>1, FS_Interval
<1>8. place \in Surjection(S, 1 .. n)
  <2> HIDE DEF place
  <2> QED
    BY <1>6, <1>7, FS_Injection
<1>9. ASSUME NEW i \in 1 .. n PROVE \E x \in S : Cardinality(Below(x)) = i - 1
  <2>1. PICK x \in S : place[x] = i
    <3> HIDE DEF place
    <3> QED
      BY <1>8 DEF Surjection
  <2>2. Cardinality(Below(x)) + 1 = i
    BY <2>1
  <2> HIDE DEF Below
  <2> QED
    BY <1>1, <1>2, <2>2
<1> QED
  BY <1>1, <1>9

LEMMA SortedNames ==
  ASSUME NEW S, KeyedBy(S, Name)
  PROVE  IsList(Sorted(S, Name)) /\ Range(Sorted(S, Name)) \subseteq S
<1> DEFINE n == Cardinality(S)
           key == [x \in S |-> x.name]
           At(i) == CHOOSE x \in S : Cardinality({y \in S : y.name < x.name}) = i - 1
           f == [i \in 1 .. n |-> At(i)]
<1>1. IsFiniteSet(S) /\ \A x, y \in S : x.name \in Int /\ (x.name = y.name => x = y)
  BY DEF KeyedBy, Name
<1>2. key \in [S -> Int] /\ \A x, y \in S : key[x] = key[y] => x = y
  BY <1>1
<1>3. \A x \in S : {y \in S : key[y] < key[x]} = {y \in S : y.name < x.name}
  OBVIOUS
<1>4. n \in Nat /\ \A i \in 1 .. n : \E x \in S : Cardinality({y \in S : key[y] < key[x]}) = i - 1
  <2>1. IsFiniteSet(S)
    BY <1>1
  <2> HIDE DEF key, f
  <2> QED
    BY <1>2, <2>1, PlacesAreTaken
<1>5. \A i \in 1 .. n : \E x \in S : Cardinality({y \in S : y.name < x.name}) = i - 1
  <2> HIDE DEF key
  <2> QED
    BY <1>3, <1>4
<1>6. \A i \in 1 .. n : f[i] \in S
  <2> SUFFICES ASSUME NEW i \in 1 .. n
               PROVE  (CHOOSE x \in S : Cardinality({y \in S : y.name < x.name}) = i - 1) \in S
    OBVIOUS
  <2> QED
    BY <1>5
<1>7. f = [i \in 1 .. n |-> f[i]]
  <2> HIDE DEF At
  <2> QED
    OBVIOUS
<1>8. Sorted(S, Name) = f
  BY DEF Sorted, InOrder, Name
<1> HIDE DEF n, f
<1> QED
  BY <1>4, <1>6, <1>7, <1>8, FunctionIsList

LEMMA SortedIds ==
  ASSUME NEW S, KeyedBy(S, Id)
  PROVE  IsList(Sorted(S, Id)) /\ Range(Sorted(S, Id)) \subseteq S
<1> DEFINE n == Cardinality(S)
           key == [x \in S |-> x.id]
           At(i) == CHOOSE x \in S : Cardinality({y \in S : y.id < x.id}) = i - 1
           f == [i \in 1 .. n |-> At(i)]
<1>1. IsFiniteSet(S) /\ \A x, y \in S : x.id \in Int /\ (x.id = y.id => x = y)
  BY DEF KeyedBy, Id
<1>2. key \in [S -> Int] /\ \A x, y \in S : key[x] = key[y] => x = y
  BY <1>1
<1>3. \A x \in S : {y \in S : key[y] < key[x]} = {y \in S : y.id < x.id}
  OBVIOUS
<1>4. n \in Nat /\ \A i \in 1 .. n : \E x \in S : Cardinality({y \in S : key[y] < key[x]}) = i - 1
  <2>1. IsFiniteSet(S)
    BY <1>1
  <2> HIDE DEF key, f
  <2> QED
    BY <1>2, <2>1, PlacesAreTaken
<1>5. \A i \in 1 .. n : \E x \in S : Cardinality({y \in S : y.id < x.id}) = i - 1
  <2> HIDE DEF key
  <2> QED
    BY <1>3, <1>4
<1>6. \A i \in 1 .. n : f[i] \in S
  <2> SUFFICES ASSUME NEW i \in 1 .. n
               PROVE  (CHOOSE x \in S : Cardinality({y \in S : y.id < x.id}) = i - 1) \in S
    OBVIOUS
  <2> QED
    BY <1>5
<1>7. f = [i \in 1 .. n |-> f[i]]
  <2> HIDE DEF At
  <2> QED
    OBVIOUS
<1>8. Sorted(S, Id) = f
  BY DEF Sorted, InOrder, Id
<1> HIDE DEF n, f
<1> QED
  BY <1>4, <1>6, <1>7, <1>8, FunctionIsList

(* Whatever the order: a finite set in order is a list. *)
LEMMA InOrderIsList ==
  ASSUME NEW S, IsFiniteSet(S), NEW f, f = [i \in 1 .. Cardinality(S) |-> f[i]]
  PROVE  IsList(f)
  BY FS_CardinalityType, FunctionIsList

(* A finite set, each element replaced. *)
LEMMA ImageIsFinite ==
  ASSUME NEW S, IsFiniteSet(S), NEW f, f = [x \in S |-> f[x]]
  PROVE  IsFiniteSet({f[x] : x \in S})
<1> DEFINE T == {f[x] : x \in S}
<1>1. f \in [S -> T] /\ \A t \in T : \E x \in S : f[x] = t
  OBVIOUS
<1> HIDE DEF T
<1>2. f \in Surjection(S, T)
  BY <1>1 DEF Surjection
<1>3. IsFiniteSet(T)
  BY <1>2, FS_Surjection
<1> QED
  BY <1>3 DEF T

-----------------------------------------------------------------------------
(* A normalised topology is made of lists all the way down. *)

LEMMA NamedImage ==
  ASSUME NEW S, KeyedBy(S, Name), NEW f, f = [x \in S |-> f[x]], \A x \in S : f[x].name = x.name
  PROVE  KeyedBy({f[x] : x \in S}, Name)
<1>1. IsFiniteSet(S) /\ \A x, y \in S : x.name \in Int /\ (x.name = y.name => x = y)
  BY DEF KeyedBy, Name
<1>2. IsFiniteSet({f[x] : x \in S})
  BY <1>1, ImageIsFinite
<1>3. \A a, b \in {f[x] : x \in S} : a.name \in Int /\ (a.name = b.name => a = b)
  BY <1>1
<1> QED
  BY <1>2, <1>3 DEF KeyedBy, Name

LEMMA IdImage ==
  ASSUME NEW S, KeyedBy(S, Id), NEW f, f = [x \in S |-> f[x]], \A x \in S : f[x].id = x.id
  PROVE  KeyedBy({f[x] : x \in S}, Id)
<1>1. IsFiniteSet(S) /\ \A x, y \in S : x.id \in Int /\ (x.id = y.id => x = y)
  BY DEF KeyedBy, Id
<1>2. IsFiniteSet({f[x] : x \in S})
  BY <1>1, ImageIsFinite
<1>3. \A a, b \in {f[x] : x \in S} : a.id \in Int /\ (a.id = b.id => a = b)
  BY <1>1
<1> QED
  BY <1>2, <1>3 DEF KeyedBy, Id

LEMMA RangeIsFinite ==
  ASSUME NEW list, IsList(list)
  PROVE  IsFiniteSet(Range(list)) /\ IsFiniteSet(Ids(list))
<1> DEFINE n == Len(list)
           f == [i \in 1 .. n |-> list[i]]
           g == [i \in 1 .. n |-> list[i].id]
<1>1. n \in Nat /\ Range(list) = {list[i] : i \in 1 .. n}
  BY ListIs
<1>4. IsFiniteSet(1 .. n)
  BY <1>1, FS_Interval
<1>2. f = [i \in 1 .. n |-> f[i]] /\ g = [i \in 1 .. n |-> g[i]]
  OBVIOUS
<1>3. Range(list) = {f[i] : i \in 1 .. n} /\ Ids(list) = {g[i] : i \in 1 .. n}
  BY <1>1 DEF Ids
<1> HIDE DEF f, g, n
<1>5. IsFiniteSet({f[i] : i \in 1 .. n})
  BY <1>2, <1>4, ImageIsFinite
<1>6. IsFiniteSet({g[i] : i \in 1 .. n})
  BY <1>2, <1>4, ImageIsFinite
<1> QED
  BY <1>3, <1>5, <1>6

LEMMA SortedIsList ==
  ASSUME NEW S, IsFiniteSet(S)
  PROVE  IsList(Sorted(S, Name)) /\ IsList(Sorted(S, Id))
<1> DEFINE n == Cardinality(S)
           NameAt(i) == CHOOSE x \in S : Cardinality({y \in S : y.name < x.name}) = i - 1
           IdAt(i) == CHOOSE x \in S : Cardinality({y \in S : y.id < x.id}) = i - 1
           names == [i \in 1 .. n |-> NameAt(i)]
           ids == [i \in 1 .. n |-> IdAt(i)]
<1>1. Sorted(S, Name) = names /\ Sorted(S, Id) = ids
  BY DEF Sorted, InOrder, Name, Id
<1>2. names = [i \in 1 .. n |-> names[i]] /\ ids = [i \in 1 .. n |-> ids[i]]
  <2> HIDE DEF NameAt, IdAt
  <2> QED
    OBVIOUS
<1>3. n \in Nat
  BY FS_CardinalityType
<1> HIDE DEF n, names, ids
<1> QED
  BY <1>1, <1>2, <1>3, FunctionIsList

LEMMA MeasurementsListed ==
  ASSUME NEW p, RawPolicy(p)
  PROVE  /\ IsList(NormalizeMeasurements(p))
         /\ \A m \in Range(NormalizeMeasurements(p)) : IsList(m.fields)
<1> DEFINE f == [m \in p.measurements |-> NormalizeMeasurement(m, p.versions)]
           S == {f[m] : m \in p.measurements}
<1>1. \A m \in p.measurements : f[m].name = m.name /\ f[m].fields = Sorted(m.fields, Name)
  BY DEF NormalizeMeasurement
<1>2. f = [m \in p.measurements |-> f[m]]
  OBVIOUS
<1>3. S = {NormalizeMeasurement(m, p.versions) : m \in p.measurements}
  OBVIOUS
<1> HIDE DEF f
<1>4. KeyedBy(S, Name)
  BY <1>1, <1>2, NamedImage DEF RawPolicy
<1>5. \A m \in S : IsList(m.fields)
  BY <1>1, SortedIsList DEF RawPolicy
<1> HIDE DEF S
<1>6. IsList(Sorted(S, Name)) /\ Range(Sorted(S, Name)) \subseteq S
  BY <1>4, SortedNames
<1>7. NormalizeMeasurements(p) = Sorted(S, Name)
  BY <1>3 DEF NormalizeMeasurements
<1> QED
  BY <1>5, <1>6, <1>7

LEMMA ShardGroupsListed ==
  ASSUME NEW p, RawPolicy(p)
  PROVE  /\ IsList(NormalizeShardGroups(p))
         /\ \A g \in Range(NormalizeShardGroups(p)) : IsList(g.shards) /\ IsList(g.shardIds)
<1> DEFINE groups == {g \in p.shardGroups : g.id # Absent}
           f == [g \in groups |-> NormalizeShardGroup(g)]
           S == {f[g] : g \in groups}
<1>1. ASSUME NEW g \in groups PROVE f[g].id = g.id /\ IsList(f[g].shards) /\ IsList(f[g].shardIds)
  <2> DEFINE p0 == [i \in DOMAIN g.shards |-> IF g.shards[i].id # Absent THEN <<g.shards[i]>> ELSE << >>]
             shards == FlattenSeq(p0)
             S0 == {s.id : s \in Range(shards)}
             At(k) == CHOOSE x \in S0 : Cardinality({y \in S0 : y < x}) = k - 1
             ids == [k \in 1 .. Cardinality(S0) |-> At(k)]
  <2>1. f[g].id = g.id /\ f[g].shards = shards /\ f[g].shardIds = ids
    BY DEF NormalizeShardGroup, Where, FlatMap, InOrder
  <2>2. p0 = [i \in DOMAIN g.shards |-> p0[i]]
        /\ \A i \in DOMAIN g.shards : p0[i] = <<g.shards[i]>> \/ p0[i] = << >>
    OBVIOUS
  <2>3. IsList(g.shards)
    BY DEF RawPolicy
  <2>4. ids = [k \in 1 .. Cardinality(S0) |-> ids[k]]
    <3> HIDE DEF At
    <3> QED
      OBVIOUS
  <2> HIDE DEF p0, ids, At
  <2>5. IsList(shards)
    BY <2>2, <2>3, WhereIs
  <2>6. IsFiniteSet(S0)
    <3> HIDE DEF shards
    <3>1. IsFiniteSet(Ids(shards))
      BY <2>5, RangeIsFinite
    <3> QED
      BY <3>1 DEF Ids
  <2> HIDE DEF S0, shards
  <2>7. IsList(ids)
    BY <2>4, <2>6, InOrderIsList
  <2> QED
    BY <2>1, <2>5, <2>7
<1>2. f = [g \in groups |-> f[g]]
  OBVIOUS
<1>3. NormalizeShardGroups(p) = Sorted(S, Id)
  BY DEF NormalizeShardGroups
<1>4. KeyedBy(groups, Id)
  BY DEF RawPolicy
<1> HIDE DEF f, groups
<1>5. KeyedBy(S, Id)
  BY <1>1, <1>2, <1>4, IdImage
<1>6. \A g \in S : IsList(g.shards) /\ IsList(g.shardIds)
  BY <1>1
<1> HIDE DEF S
<1> QED
  BY <1>3, <1>5, <1>6, SortedIds

LEMMA IndexGroupsListed ==
  ASSUME NEW p, RawPolicy(p)
  PROVE  /\ IsList(NormalizeIndexGroups(p))
         /\ \A g \in Range(NormalizeIndexGroups(p)) : IsList(g.indexes)
<1> DEFINE groups == {g \in p.indexGroups : g.id # Absent}
           f == [g \in groups |-> NormalizeIndexGroup(g)]
           S == {f[g] : g \in groups}
<1>1. ASSUME NEW g \in groups PROVE f[g].id = g.id /\ IsList(f[g].indexes)
  <2> DEFINE p0 == [i \in DOMAIN g.indexes |-> IF g.indexes[i].id # Absent THEN <<g.indexes[i]>> ELSE << >>]
  <2>1. f[g].id = g.id /\ f[g].indexes = FlattenSeq(p0)
    BY DEF NormalizeIndexGroup, Where, FlatMap
  <2>2. p0 = [i \in DOMAIN g.indexes |-> p0[i]]
        /\ \A i \in DOMAIN g.indexes : p0[i] = <<g.indexes[i]>> \/ p0[i] = << >>
    OBVIOUS
  <2>3. IsList(g.indexes)
    BY DEF RawPolicy
  <2> HIDE DEF p0
  <2>4. IsList(FlattenSeq(p0))
    BY <2>2, <2>3, WhereIs
  <2> QED
    BY <2>1, <2>4
<1>2. f = [g \in groups |-> f[g]]
  OBVIOUS
<1>3. NormalizeIndexGroups(p) = Sorted(S, Id)
  BY DEF NormalizeIndexGroups
<1>4. KeyedBy(groups, Id)
  BY DEF RawPolicy
<1> HIDE DEF f, groups
<1>5. KeyedBy(S, Id)
  BY <1>1, <1>2, <1>4, IdImage
<1>6. \A g \in S : IsList(g.indexes)
  BY <1>1
<1> HIDE DEF S
<1> QED
  BY <1>3, <1>5, <1>6, SortedIds

LEMMA PoliciesListed ==
  ASSUME NEW d, KeyedBy(d.policies, Name), \A p \in d.policies : RawPolicy(p)
  PROVE  /\ IsList(NormalizePolicies(d))
         /\ \A p \in Range(NormalizePolicies(d)) : ListedPolicy(p)
<1> DEFINE Normal(p) == [name |-> p.name, measurements |-> NormalizeMeasurements(p),
                         shardGroups |-> NormalizeShardGroups(p),
                         indexGroups |-> NormalizeIndexGroups(p)]
           f == [p \in d.policies |-> Normal(p)]
           S == {f[p] : p \in d.policies}
<1>1. ASSUME NEW p \in d.policies PROVE f[p].name = p.name /\ ListedPolicy(f[p])
  <2>1. f[p] = Normal(p)
    OBVIOUS
  <2>2. /\ f[p].name = p.name /\ f[p].measurements = NormalizeMeasurements(p)
        /\ f[p].shardGroups = NormalizeShardGroups(p) /\ f[p].indexGroups = NormalizeIndexGroups(p)
    BY <2>1
  <2> HIDE DEF f
  <2> QED
    BY <2>2, MeasurementsListed, ShardGroupsListed, IndexGroupsListed DEF ListedPolicy
<1>2. f = [p \in d.policies |-> f[p]]
  OBVIOUS
<1>3. NormalizePolicies(d) = Sorted(S, Name)
  BY DEF NormalizePolicies
<1> HIDE DEF f
<1>5. KeyedBy(S, Name)
  BY <1>1, <1>2, NamedImage
<1>6. \A p \in S : ListedPolicy(p)
  BY <1>1
<1> HIDE DEF S
<1> QED
  BY <1>3, <1>5, <1>6, SortedNames

LEMMA TopologyListed ==
  ASSUME NEW doc, RawDocument(doc)
  PROVE  ListedTopology(NormalizeTopology(doc))
<1> DEFINE Normal(d) == [name |-> d.name, default |-> d.default, policies |-> NormalizePolicies(d)]
           f == [d \in doc.databases |-> Normal(d)]
           S == {f[d] : d \in doc.databases}
<1>1. ASSUME NEW d \in doc.databases
      PROVE  /\ f[d].name = d.name /\ IsList(f[d].policies)
             /\ \A p \in Range(f[d].policies) : ListedPolicy(p)
  <2>1. f[d].name = d.name /\ f[d].policies = NormalizePolicies(d)
    OBVIOUS
  <2> HIDE DEF f
  <2> QED
    BY <2>1, PoliciesListed DEF RawDocument
<1>2. f = [d \in doc.databases |-> f[d]]
  OBVIOUS
<1>3. NormalizeDatabases(doc) = Sorted(S, Name)
  BY DEF NormalizeDatabases
<1> HIDE DEF f
<1>4. KeyedBy(S, Name)
  BY <1>1, <1>2, NamedImage DEF RawDocument
<1>5. \A d \in S : IsList(d.policies) /\ \A p \in Range(d.policies) : ListedPolicy(p)
  BY <1>1
<1> HIDE DEF S
<1>6. IsList(NormalizeDatabases(doc)) /\ Range(NormalizeDatabases(doc)) \subseteq S
  BY <1>3, <1>4, SortedNames
<1>7. IsList(NormalizePtView(doc))
  <2> DEFINE views == {v \in doc.views : v.pt # Absent}
             At(i) == CHOOSE x \in views : Cardinality({y \in views :
                        y.database < x.database \/ (y.database = x.database /\ y.pt < x.pt)}) = i - 1
             list == [i \in 1 .. Cardinality(views) |-> At(i)]
  <2>1. NormalizePtView(doc) = list
    BY DEF NormalizePtView, InOrder
  <2>2. list = [i \in 1 .. Cardinality(views) |-> list[i]]
    <3> HIDE DEF At
    <3> QED
      OBVIOUS
  <2>3. IsFiniteSet(views)
    BY FS_Subset DEF RawDocument
  <2> HIDE DEF list, views
  <2> QED
    BY <2>1, <2>2, <2>3, InOrderIsList
<1> QED
  BY <1>5, <1>6, <1>7 DEF NormalizeTopology, ListedTopology

-----------------------------------------------------------------------------
(* What a query selects from lists are lists. *)

LEMMA DatabasesListed ==
  ASSUME NEW c, ListedTopology(c), NEW q
  PROVE  IsList(DatabasesOf(c, q)) /\ Range(DatabasesOf(c, q)) \subseteq Range(c.databases)
<1> DEFINE s == c.databases
           p == [i \in DOMAIN s |-> IF Passes(q, "database", s[i].name) THEN <<s[i]>> ELSE << >>]
<1>1. DatabasesOf(c, q) = FlattenSeq(p)
  BY DEF DatabasesOf, Where, FlatMap
<1>2. p = [i \in DOMAIN s |-> p[i]] /\ \A i \in DOMAIN s : p[i] = <<s[i]>> \/ p[i] = << >>
  OBVIOUS
<1>3. IsList(s)
  BY DEF ListedTopology
<1> HIDE DEF s, p
<1>4. IsList(FlattenSeq(p)) /\ Range(FlattenSeq(p)) \subseteq Range(s)
  BY <1>2, <1>3, WhereIs
<1> QED
  BY <1>1, <1>4 DEF s

LEMMA PoliciesSelected ==
  ASSUME NEW c, ListedTopology(c), NEW q
  PROVE  /\ IsList(PoliciesOf(c, q))
         /\ \A x \in Range(PoliciesOf(c, q)) : ListedPolicy(x.policy)
<1> DEFINE s == DatabasesOf(c, q)
           Chosen(d) == Where(d.policies, LAMBDA p : Passes(q, "policy", p.name))
           With(d) == [j \in DOMAIN Chosen(d) |-> [database |-> d.name, policy |-> Chosen(d)[j]]]
           f == [i \in DOMAIN s |-> With(s[i])]
<1>1. PoliciesOf(c, q) = FlattenSeq(f)
  BY DEF PoliciesOf, FlatMap, Mapped
<1>2. IsList(s) /\ Range(s) \subseteq Range(c.databases)
  BY DatabasesListed
<1>3. ASSUME NEW i \in DOMAIN s
      PROVE  IsList(f[i]) /\ \A x \in Range(f[i]) : ListedPolicy(x.policy)
  <2> DEFINE d == s[i]
             t == d.policies
             p == [j \in DOMAIN t |-> IF Passes(q, "policy", t[j].name) THEN <<t[j]>> ELSE << >>]
             w == Chosen(d)
             g == With(d)
  <2>1. d \in Range(c.databases)
    BY <1>2 DEF Range
  <2>2. IsList(t) /\ \A x \in Range(t) : ListedPolicy(x)
    BY <2>1 DEF ListedTopology
  <2>3. w = FlattenSeq(p)
    BY DEF Where, FlatMap
  <2>4. p = [j \in DOMAIN t |-> p[j]] /\ \A j \in DOMAIN t : p[j] = <<t[j]>> \/ p[j] = << >>
    OBVIOUS
  <2>5. g = [j \in DOMAIN w |-> [database |-> d.name, policy |-> w[j]]] /\ f[i] = g
    OBVIOUS
  <2> HIDE DEF d, t, p, w, g, f
  <2>6. IsList(w) /\ Range(w) \subseteq Range(t)
    BY <2>2, <2>3, <2>4, WhereIs
  <2>7. g = [j \in DOMAIN w |-> g[j]] /\ \A j \in DOMAIN w : g[j].policy = w[j]
    BY <2>5
  <2>8. IsList(g) /\ Range(g) = {g[j] : j \in DOMAIN w}
    BY <2>6, <2>7, MappedIs
  <2>9. \A j \in DOMAIN w : ListedPolicy(w[j])
    BY <2>2, <2>6 DEF Range
  <2> QED
    BY <2>5, <2>7, <2>8, <2>9
<1>4. f = [i \in DOMAIN s |-> f[i]]
  <2> HIDE DEF With
  <2> QED
    OBVIOUS
<1> HIDE DEF s, f
<1>5. IsList(f) /\ DOMAIN f = DOMAIN s
  BY <1>2, <1>4, MappedIs
<1>6. IsList(FlattenSeq(f)) /\ Range(FlattenSeq(f)) = UNION {Range(f[i]) : i \in DOMAIN f}
  BY <1>3, <1>5, FlattenedIs
<1> QED
  BY <1>1, <1>3, <1>5, <1>6

LEMMA MeasurementsSelected ==
  ASSUME NEW c, ListedTopology(c), NEW q
  PROVE  /\ IsList(MeasurementsOf(c, q))
         /\ \A x \in Range(MeasurementsOf(c, q)) : IsList(x.measurement.fields)
<1> DEFINE s == PoliciesOf(c, q)
           Matches(m) == q.filter["measurement"] = Absent \/ NameMatches(m, q.filter["measurement"])
           Chosen(dp) == Where(dp.policy.measurements, LAMBDA m :
                           q.filter["measurement"] = Absent \/ NameMatches(m, q.filter["measurement"]))
           With(dp) == [j \in DOMAIN Chosen(dp) |-> [at |-> dp, measurement |-> Chosen(dp)[j]]]
           f == [i \in DOMAIN s |-> With(s[i])]
<1>1. MeasurementsOf(c, q) = FlattenSeq(f)
  BY DEF MeasurementsOf, FlatMap, Mapped
<1>2. IsList(s) /\ \A x \in Range(s) : ListedPolicy(x.policy)
  BY PoliciesSelected
<1>3. ASSUME NEW i \in DOMAIN s
      PROVE  IsList(f[i]) /\ \A x \in Range(f[i]) : IsList(x.measurement.fields)
  <2> DEFINE dp == s[i]
             t == dp.policy.measurements
             p == [j \in DOMAIN t |-> IF Matches(t[j]) THEN <<t[j]>> ELSE << >>]
             w == Chosen(dp)
             g == With(dp)
  <2>1. dp \in Range(s)
    BY <1>2 DEF Range
  <2>2. IsList(t) /\ \A x \in Range(t) : IsList(x.fields)
    BY <1>2, <2>1 DEF ListedPolicy
  <2>3. w = FlattenSeq(p)
    BY DEF Where, FlatMap
  <2>4. p = [j \in DOMAIN t |-> p[j]] /\ \A j \in DOMAIN t : p[j] = <<t[j]>> \/ p[j] = << >>
    <3> HIDE DEF Matches
    <3> QED
      OBVIOUS
  <2>5. g = [j \in DOMAIN w |-> [at |-> dp, measurement |-> w[j]]] /\ f[i] = g
    OBVIOUS
  <2> HIDE DEF dp, t, p, w, g, f
  <2>6. IsList(w) /\ Range(w) \subseteq Range(t)
    BY <2>2, <2>3, <2>4, WhereIs
  <2>7. g = [j \in DOMAIN w |-> g[j]] /\ \A j \in DOMAIN w : g[j].measurement = w[j]
    BY <2>5
  <2>8. IsList(g) /\ Range(g) = {g[j] : j \in DOMAIN w}
    BY <2>6, <2>7, MappedIs
  <2>9. \A j \in DOMAIN w : IsList(w[j].fields)
    BY <2>2, <2>6 DEF Range
  <2> QED
    BY <2>5, <2>7, <2>8, <2>9
<1>4. f = [i \in DOMAIN s |-> f[i]]
  <2> HIDE DEF With
  <2> QED
    OBVIOUS
<1> HIDE DEF s, f
<1>5. IsList(f) /\ DOMAIN f = DOMAIN s
  BY <1>2, <1>4, MappedIs
<1>6. IsList(FlattenSeq(f)) /\ Range(FlattenSeq(f)) = UNION {Range(f[i]) : i \in DOMAIN f}
  BY <1>3, <1>5, FlattenedIs
<1> QED
  BY <1>1, <1>3, <1>5, <1>6

LEMMA GroupsSelected ==
  ASSUME NEW c, ListedTopology(c), NEW q
  PROVE  /\ IsList(ShardGroupsOf(c, q)) /\ IsList(IndexGroupsOf(c, q))
         /\ \A x \in Range(ShardGroupsOf(c, q)) : IsList(x.group.shards) /\ IsList(x.group.shardIds)
         /\ \A x \in Range(IndexGroupsOf(c, q)) : IsList(x.group.indexes)
<1> DEFINE s == PoliciesOf(c, q)
           Shards(dp) == [j \in DOMAIN dp.policy.shardGroups |->
             [database |-> dp.database, policy |-> dp.policy.name, group |-> dp.policy.shardGroups[j]]]
           Indexes(dp) == [j \in DOMAIN dp.policy.indexGroups |->
             [database |-> dp.database, policy |-> dp.policy.name, group |-> dp.policy.indexGroups[j]]]
           f == [i \in DOMAIN s |-> Shards(s[i])]
           h == [i \in DOMAIN s |-> Indexes(s[i])]
<1>1. ShardGroupsOf(c, q) = FlattenSeq(f) /\ IndexGroupsOf(c, q) = FlattenSeq(h)
  BY DEF ShardGroupsOf, IndexGroupsOf, FlatMap, Mapped
<1>2. IsList(s) /\ \A x \in Range(s) : ListedPolicy(x.policy)
  BY PoliciesSelected
<1>3. ASSUME NEW i \in DOMAIN s
      PROVE  /\ IsList(f[i]) /\ \A x \in Range(f[i]) : IsList(x.group.shards) /\ IsList(x.group.shardIds)
             /\ IsList(h[i]) /\ \A x \in Range(h[i]) : IsList(x.group.indexes)
  <2> DEFINE dp == s[i]
             t == dp.policy.shardGroups
             u == dp.policy.indexGroups
  <2>1. dp \in Range(s)
    BY <1>2 DEF Range
  <2>2. /\ IsList(t) /\ \A x \in Range(t) : IsList(x.shards) /\ IsList(x.shardIds)
        /\ IsList(u) /\ \A x \in Range(u) : IsList(x.indexes)
    BY <1>2, <2>1 DEF ListedPolicy
  <2>3. f[i] = [j \in DOMAIN t |-> [database |-> dp.database, policy |-> dp.policy.name, group |-> t[j]]]
    OBVIOUS
  <2>4. h[i] = [j \in DOMAIN u |-> [database |-> dp.database, policy |-> dp.policy.name, group |-> u[j]]]
    OBVIOUS
  <2> DEFINE a == f[i]
             b == h[i]
  <2> HIDE DEF dp, t, u, f, h
  <2>5. a = [j \in DOMAIN t |-> a[j]] /\ \A j \in DOMAIN t : a[j].group = t[j]
    BY <2>3
  <2>6. b = [j \in DOMAIN u |-> b[j]] /\ \A j \in DOMAIN u : b[j].group = u[j]
    BY <2>4
  <2> HIDE DEF a, b
  <2>7. IsList(a) /\ Range(a) = {a[j] : j \in DOMAIN t} /\ IsList(b) /\ Range(b) = {b[j] : j \in DOMAIN u}
    BY <2>2, <2>5, <2>6, MappedIs
  <2>8. /\ \A j \in DOMAIN t : IsList(t[j].shards) /\ IsList(t[j].shardIds)
        /\ \A j \in DOMAIN u : IsList(u[j].indexes)
    BY <2>2 DEF Range
  <2> QED
    BY <2>5, <2>6, <2>7, <2>8 DEF a, b
<1>4. f = [i \in DOMAIN s |-> f[i]] /\ h = [i \in DOMAIN s |-> h[i]]
  <2> HIDE DEF Shards, Indexes
  <2> QED
    OBVIOUS
<1> HIDE DEF s, f, h
<1>5. IsList(f) /\ DOMAIN f = DOMAIN s /\ IsList(h) /\ DOMAIN h = DOMAIN s
  BY <1>2, <1>4, MappedIs
<1>6. /\ IsList(FlattenSeq(f)) /\ Range(FlattenSeq(f)) = UNION {Range(f[i]) : i \in DOMAIN f}
      /\ IsList(FlattenSeq(h)) /\ Range(FlattenSeq(h)) = UNION {Range(h[i]) : i \in DOMAIN h}
  BY <1>3, <1>5, FlattenedIs
<1> QED
  BY <1>1, <1>3, <1>5, <1>6

(* A list of items for each element of a list, in a row. *)
LEMMA ItemsInARow ==
  ASSUME NEW s, IsList(s), NEW f, f = [i \in DOMAIN s |-> f[i]], \A i \in DOMAIN s : IsList(f[i])
  PROVE  IsList(FlattenSeq(f))
<1>1. IsList(f) /\ DOMAIN f = DOMAIN s
  BY MappedIs
<1> QED
  BY <1>1, FlattenedIs

LEMMA NodeItemsListed ==
  ASSUME NEW c, IsFiniteSet(c.nodes), NEW q
  PROVE  IsList(NodeItems(c, q))
<1> DEFINE nodes == IF c.nodes = {} /\ c.node # Absent THEN {c.node} ELSE c.nodes
           S == {n \in nodes : Passes(q, "node", n)}
           At(i) == CHOOSE x \in S : Cardinality({y \in S : y < x}) = i - 1
           list == [i \in 1 .. Cardinality(S) |-> At(i)]
<1>1. NodeItems(c, q) = list
  BY DEF NodeItems, InOrder
<1>2. IsFiniteSet(nodes)
  BY FS_Singleton
<1>3. IsFiniteSet(S)
  <2> HIDE DEF nodes
  <2> QED
    BY <1>2, FS_Subset
<1>4. list = [i \in 1 .. Cardinality(S) |-> list[i]]
  <2> HIDE DEF At
  <2> QED
    OBVIOUS
<1> HIDE DEF list, S
<1> QED
  BY <1>1, <1>3, <1>4, InOrderIsList

LEMMA ListedByName ==
  ASSUME NEW c, ListedTopology(c), NEW q
  PROVE  /\ IsList(Mapped(Name, DatabasesOf(c, q)))
         /\ IsList(Mapped(LAMBDA dp : <<dp.database, dp.policy.name>>, PoliciesOf(c, q)))
         /\ IsList(Mapped(MeasurementKey, MeasurementsOf(c, q)))
<1> DEFINE d == DatabasesOf(c, q)
           p == PoliciesOf(c, q)
           m == MeasurementsOf(c, q)
           fd == [i \in DOMAIN d |-> d[i].name]
           fp == [i \in DOMAIN p |-> <<p[i].database, p[i].policy.name>>]
           fm == [i \in DOMAIN m |-> MeasurementKey(m[i])]
<1>1. IsList(d) /\ IsList(p) /\ IsList(m)
  BY DatabasesListed, PoliciesSelected, MeasurementsSelected
<1>2. /\ fd = [i \in DOMAIN d |-> fd[i]] /\ fp = [i \in DOMAIN p |-> fp[i]]
      /\ fm = [i \in DOMAIN m |-> fm[i]]
  OBVIOUS
<1>3. /\ Mapped(Name, DatabasesOf(c, q)) = fd
      /\ Mapped(LAMBDA dp : <<dp.database, dp.policy.name>>, PoliciesOf(c, q)) = fp
      /\ Mapped(MeasurementKey, MeasurementsOf(c, q)) = fm
  BY DEF Mapped, Name
<1> HIDE DEF d, p, m, fd, fp, fm
<1>4. IsList(fd) /\ IsList(fp) /\ IsList(fm)
  BY <1>1, <1>2, MappedIs
<1> QED
  BY <1>3, <1>4, Zenon

LEMMA FieldItemsListed ==
  ASSUME NEW c, ListedTopology(c), NEW q
  PROVE  IsList(FieldItems(c, q))
<1> DEFINE s == MeasurementsOf(c, q)
           Items(m) == [j \in DOMAIN m.measurement.fields |->
                          Append(MeasurementKey(m), m.measurement.fields[j].name)]
           f == [i \in DOMAIN s |-> Items(s[i])]
<1>1. FieldItems(c, q) = FlattenSeq(f)
  BY DEF FieldItems, FlatMap, Mapped
<1>2. IsList(s) /\ \A x \in Range(s) : IsList(x.measurement.fields)
  BY MeasurementsSelected
<1>3. ASSUME NEW i \in DOMAIN s PROVE IsList(f[i])
  <2> DEFINE t == s[i].measurement.fields
             g == [j \in DOMAIN t |-> Append(MeasurementKey(s[i]), t[j].name)]
  <2>1. f[i] = g /\ g = [j \in DOMAIN t |-> g[j]]
    OBVIOUS
  <2>2. IsList(t)
    BY <1>2 DEF Range
  <2> HIDE DEF t, g, f
  <2> QED
    BY <2>1, <2>2, MappedIs
<1>4. f = [i \in DOMAIN s |-> f[i]]
  <2> HIDE DEF Items
  <2> QED
    OBVIOUS
<1> HIDE DEF s, f
<1> QED
  BY <1>1, <1>2, <1>3, <1>4, ItemsInARow

LEMMA GroupItemsListed ==
  ASSUME NEW c, ListedTopology(c), NEW q
  PROVE  IsList(ShardGroupItems(c, q)) /\ IsList(IndexGroupItems(c, q)) /\ IsList(PartitionViewItems(c, q))
<1> DEFINE s == ShardGroupsOf(c, q)
           x == IndexGroupsOf(c, q)
           v == c.views
           OfShards(g) == /\ q.filter["shard"] \in {Absent} \union Range(g.group.shardIds)
                          /\ PtOwnerMatches(c, g.database, g.group.owners, q)
           OfIndexes(g) ==
             /\ q.filter["index"] \in {Absent} \union {y.id : y \in Range(g.group.indexes)}
             /\ PtOwnerMatches(c, g.database, UNION {y.owners : y \in Range(g.group.indexes)}, q)
           OfViews(w) == Passes(q, "database", w.database) /\ Passes(q, "pt", w.pt)
                           /\ Passes(q, "owner", w.owner)
           fs == [i \in DOMAIN s |-> IF OfShards(s[i]) THEN <<s[i]>> ELSE << >>]
           fx == [i \in DOMAIN x |-> IF OfIndexes(x[i]) THEN <<x[i]>> ELSE << >>]
           fv == [i \in DOMAIN v |-> IF OfViews(v[i]) THEN <<v[i]>> ELSE << >>]
<1>1. IsList(s) /\ IsList(x) /\ IsList(v)
  BY GroupsSelected DEF ListedTopology
<1>2. ShardGroupItems(c, q) = FlattenSeq(fs)
  BY DEF ShardGroupItems, Where, FlatMap
<1>3. IndexGroupItems(c, q) = FlattenSeq(fx)
  BY DEF IndexGroupItems, Where, FlatMap
<1>4. PartitionViewItems(c, q) = FlattenSeq(fv)
  BY DEF PartitionViewItems, Where, FlatMap
<1>5. /\ fs = [i \in DOMAIN s |-> fs[i]] /\ \A i \in DOMAIN s : fs[i] = <<s[i]>> \/ fs[i] = << >>
      /\ fx = [i \in DOMAIN x |-> fx[i]] /\ \A i \in DOMAIN x : fx[i] = <<x[i]>> \/ fx[i] = << >>
      /\ fv = [i \in DOMAIN v |-> fv[i]] /\ \A i \in DOMAIN v : fv[i] = <<v[i]>> \/ fv[i] = << >>
  <2> HIDE DEF OfShards, OfIndexes, OfViews, s, x, v
  <2> QED
    OBVIOUS
<1> HIDE DEF s, x, v, fs, fx, fv
<1> QED
  BY <1>1, <1>2, <1>3, <1>4, <1>5, WhereIs

LEMMA ShardItemsListed ==
  ASSUME NEW c, ListedTopology(c), NEW q
  PROVE  IsList(ShardItems(c, q))
<1> DEFINE s == ShardGroupsOf(c, q)
           Passing(g, x) == /\ Passes(q, "shard", x.id)
                            /\ PtOwnerMatches(c, g.database, ShardOwners(x, g.group), q)
           Chosen(g) == Where(ShardsOfGroup(g.group), LAMBDA x :
                          /\ Passes(q, "shard", x.id)
                          /\ PtOwnerMatches(c, g.database, ShardOwners(x, g.group), q))
           Items(g) == [j \in DOMAIN Chosen(g) |->
                          <<g.database, g.policy, g.group.id, Chosen(g)[j].id>>]
           f == [i \in DOMAIN s |-> Items(s[i])]
<1>1. ShardItems(c, q) = FlattenSeq(f)
  BY DEF ShardItems, FlatMap, Mapped
<1>2. IsList(s) /\ \A x \in Range(s) : IsList(x.group.shards) /\ IsList(x.group.shardIds)
  BY GroupsSelected
<1>3. ASSUME NEW i \in DOMAIN s PROVE IsList(f[i])
  <2> DEFINE g == s[i]
             t == ShardsOfGroup(g.group)
             p == [j \in DOMAIN t |-> IF Passing(g, t[j]) THEN <<t[j]>> ELSE << >>]
             w == Chosen(g)
             items == Items(g)
  <2>1. IsList(g.group.shards) /\ IsList(g.group.shardIds)
    BY <1>2 DEF Range
  <2>2. IsList(t)
    <3> DEFINE ids == g.group.shardIds
               standIns == [j \in DOMAIN ids |-> [id |-> ids[j], owners |-> g.group.owners]]
    <3>1. t = g.group.shards \/ t = standIns
      BY DEF ShardsOfGroup, Mapped
    <3>2. standIns = [j \in DOMAIN ids |-> standIns[j]]
      OBVIOUS
    <3> HIDE DEF ids, standIns
    <3>3. IsList(standIns)
      BY <2>1, <3>2, MappedIs DEF ids
    <3> QED
      BY <2>1, <3>1, <3>3
  <2>3. w = FlattenSeq(p)
    BY DEF Where, FlatMap
  <2>4. p = [j \in DOMAIN t |-> p[j]] /\ \A j \in DOMAIN t : p[j] = <<t[j]>> \/ p[j] = << >>
    <3> HIDE DEF Passing, t
    <3> QED
      OBVIOUS
  <2>5. items = [j \in DOMAIN w |-> items[j]] /\ f[i] = items
    OBVIOUS
  <2> HIDE DEF g, t, p, w, items, f
  <2>6. IsList(w)
    BY <2>2, <2>3, <2>4, WhereIs
  <2> QED
    BY <2>5, <2>6, MappedIs
<1>4. f = [i \in DOMAIN s |-> f[i]]
  <2> HIDE DEF Items
  <2> QED
    OBVIOUS
<1> HIDE DEF s, f
<1> QED
  BY <1>1, <1>2, <1>3, <1>4, ItemsInARow

LEMMA IndexItemsListed ==
  ASSUME NEW c, ListedTopology(c), NEW q
  PROVE  IsList(IndexItems(c, q))
<1> DEFINE s == IndexGroupsOf(c, q)
           Passing(g, x) == /\ Passes(q, "index", x.id)
                            /\ PtOwnerMatches(c, g.database, x.owners, q)
           Chosen(g) == Where(g.group.indexes, LAMBDA x :
                          /\ Passes(q, "index", x.id)
                          /\ PtOwnerMatches(c, g.database, x.owners, q))
           Items(g) == [j \in DOMAIN Chosen(g) |->
                          <<g.database, g.policy, g.group.id, Chosen(g)[j].id>>]
           f == [i \in DOMAIN s |-> Items(s[i])]
<1>1. IndexItems(c, q) = FlattenSeq(f)
  BY DEF IndexItems, FlatMap, Mapped
<1>2. IsList(s) /\ \A x \in Range(s) : IsList(x.group.indexes)
  BY GroupsSelected
<1>3. ASSUME NEW i \in DOMAIN s PROVE IsList(f[i])
  <2> DEFINE g == s[i]
             t == g.group.indexes
             p == [j \in DOMAIN t |-> IF Passing(g, t[j]) THEN <<t[j]>> ELSE << >>]
             w == Chosen(g)
             items == Items(g)
  <2>2. IsList(t)
    BY <1>2 DEF Range
  <2>3. w = FlattenSeq(p)
    BY DEF Where, FlatMap
  <2>4. p = [j \in DOMAIN t |-> p[j]] /\ \A j \in DOMAIN t : p[j] = <<t[j]>> \/ p[j] = << >>
    <3> HIDE DEF Passing, t
    <3> QED
      OBVIOUS
  <2>5. items = [j \in DOMAIN w |-> items[j]] /\ f[i] = items
    OBVIOUS
  <2> HIDE DEF g, t, p, w, items, f
  <2>6. IsList(w)
    BY <2>2, <2>3, <2>4, WhereIs
  <2> QED
    BY <2>5, <2>6, MappedIs
<1>4. f = [i \in DOMAIN s |-> f[i]]
  <2> HIDE DEF Items
  <2> QED
    OBVIOUS
<1> HIDE DEF s, f
<1> QED
  BY <1>1, <1>2, <1>3, <1>4, ItemsInARow

(* Every section is a list of items. *)
LEMMA SectionsListed ==
  ASSUME NEW c, ListedTopology(c), IsFiniteSet(c.nodes), NEW q, q.section \in Sections
  PROVE  IsList(ItemsForSection(c, q))
<1>1. CASE q.section = "overview"
  BY <1>1, OneIsList DEF ItemsForSection
<1>2. CASE q.section = "nodes"
  BY <1>2, NodeItemsListed DEF ItemsForSection
<1>3. CASE q.section = "databases"
  BY <1>3, ListedByName DEF ItemsForSection
<1>4. CASE q.section = "retention_policies"
  BY <1>4, ListedByName DEF ItemsForSection
<1>5. CASE q.section = "measurements"
  BY <1>5, ListedByName DEF ItemsForSection
<1>6. CASE q.section = "fields"
  BY <1>6, FieldItemsListed DEF ItemsForSection
<1>7. CASE q.section \in {"shard_groups", "index_groups", "partition_views"}
  BY <1>7, GroupItemsListed DEF ItemsForSection
<1>8. CASE q.section = "shards"
  BY <1>8, ShardItemsListed DEF ItemsForSection
<1>9. CASE q.section = "indexes"
  BY <1>9, IndexItemsListed DEF ItemsForSection
<1> QED
  BY <1>1, <1>2, <1>3, <1>4, <1>5, <1>6, <1>7, <1>8, <1>9 DEF Sections

-----------------------------------------------------------------------------
(* The agent's pages. *)

(* A cluster has a topology, and its snapshot is a raw document. *)
SnapshotKept(cluster) == cluster.raw \in {NoRaw} \union Raws /\ ListedTopology(cluster.topology)

(* There are finitely many nodes. *)
RowsKept(nodes, clusters) ==
  /\ IsFiniteSet(DOMAIN nodes)
  /\ \A c \in DOMAIN clusters : SnapshotKept(clusters[c])

SnapshotsKnown ==
  /\ RowsKept(records.nodes, records.clusters)
  /\ RowsKept(disk["nodes"].rows, disk["clusters"].rows)
  /\ refresh # NoRefresh => refresh.raw \in Raws

ContextListed == context.taken => ListedTopology(context) /\ IsFiniteSet(context.nodes)

(* What the agent has is the section up to the page it asks for next. *)
PagesSoFar ==
  /\ DOMAIN reader = {"query", "cursor", "got", "answer", "types"}
  /\ reader.query = 0 => reader.cursor = 0 /\ reader.got = << >>
  /\ reader.query # 0 =>
       /\ context.taken /\ reader.query \in DOMAIN Queries /\ ValidQuery(Queries[reader.query])
       /\ LET items == ItemsForSection(context, Queries[reader.query]) IN
          \/ reader.cursor = Done /\ reader.got = items
          \/ reader.cursor \in 0 .. Len(items) /\ reader.got = SubSeq(items, 1, reader.cursor)

LEMMA TemplateRows ==
  ASSUME NEW t \in ParsedTemplates
  PROVE  /\ IsFiniteSet(Ids(t.nodes))
         /\ \A c \in Range(t.clusters) : SnapshotKept(c)
<1>1. CASE t \in Templates
  BY <1>1, MetadataAssumption, RangeIsFinite DEF SnapshotKept
<1>2. CASE t \notin Templates
  <2>1. PICK i \in Instances, doc \in Raws : t = OpenGemini(i, doc)
    BY <1>2 DEF ParsedTemplates
  <2> DEFINE S == RawNodes[doc][i]
             At(k) == CHOOSE x \in S : Cardinality({y \in S : y < x}) = k - 1
             nodes == [k \in 1 .. Cardinality(S) |-> At(k)]
             rows == [k \in DOMAIN nodes |-> [id |-> nodes[k], instance |-> i]]
             topology == NormalizeTopology(Topology[doc])
             x == [id |-> i, nodes |-> Range(nodes), raw |-> doc, topology |-> topology]
  <2>2. t.nodes = rows /\ t.clusters = <<x>>
    BY <2>1 DEF OpenGemini, InOrder, Mapped
  <2>3. nodes = [k \in 1 .. Cardinality(S) |-> nodes[k]]
    <3> HIDE DEF At
    <3> QED
      OBVIOUS
  <2>4. rows = [k \in DOMAIN nodes |-> rows[k]]
    <3> HIDE DEF nodes
    <3> QED
      OBVIOUS
  <2>5. x.raw = doc /\ x.topology = topology
    OBVIOUS
  <2>6. IsFiniteSet(S) /\ RawDocument(Topology[doc])
    BY MetadataAssumption
  <2>10. ListedTopology(topology)
    BY <2>6, TopologyListed
  <2> HIDE DEF S, nodes, rows, x, topology
  <2>11. SnapshotKept(x)
    BY <2>5, <2>10 DEF SnapshotKept
  <2>7. IsList(nodes)
    BY <2>3, <2>6, InOrderIsList
  <2>8. IsList(rows)
    BY <2>4, <2>7, MappedIs
  <2>9. Range(<<x>>) = {x}
    BY OneIsList
  <2> QED
    BY <2>2, <2>8, <2>9, <2>11, RangeIsFinite
<1> QED
  BY <1>1, <1>2

LEMMA AppliedRows ==
  ASSUME NEW t \in ParsedTemplates, RowsKept(records.nodes, records.clusters),
         NEW out, out = ApplyTemplate(records, t)
  PROVE  RowsKept(out.nodes, out.clusters)
<1> DEFINE cleared == FoldLeft(LAMBDA acc, x : RemoveInstance(acc, x.id), records, t.instances)
<1>1. LeftOf(cleared, records, Ids(t.instances))
  BY ClearsAll, TemplatesAreLists
<1>2. /\ out.clusters = Over(cleared.clusters, Keyed(t.clusters))
      /\ out.nodes = Over(cleared.nodes, Keyed(t.nodes))
  BY DEF ApplyTemplate
<1> HIDE DEF cleared
<1>3. /\ DOMAIN out.nodes = DOMAIN cleared.nodes \union DOMAIN Keyed(t.nodes)
      /\ DOMAIN out.clusters = DOMAIN cleared.clusters \union DOMAIN Keyed(t.clusters)
      /\ \A c \in DOMAIN Keyed(t.clusters) : out.clusters[c] = Keyed(t.clusters)[c]
      /\ \A c \in DOMAIN cleared.clusters \ DOMAIN Keyed(t.clusters) :
           out.clusters[c] = cleared.clusters[c]
  BY <1>2 DEF Over
<1>4. IsFiniteSet(DOMAIN cleared.nodes)
  BY <1>1, FS_Subset DEF LeftOf, RowsKept
<1>5. IsFiniteSet(DOMAIN out.nodes)
  <2>1. DOMAIN Keyed(t.nodes) = Ids(t.nodes)
    BY KeyedIs
  <2>2. IsFiniteSet(DOMAIN Keyed(t.nodes))
    BY <2>1, TemplateRows
  <2> DEFINE A == DOMAIN cleared.nodes
             B == DOMAIN Keyed(t.nodes)
  <2>3. DOMAIN out.nodes = A \union B /\ IsFiniteSet(A) /\ IsFiniteSet(B)
    BY <1>3, <1>4, <2>2
  <2> HIDE DEF A, B
  <2>4. IsFiniteSet(A \union B)
    BY ONLY <2>3, FS_Union
  <2> QED
    BY <2>3, <2>4
<1>6. ASSUME NEW c \in DOMAIN out.clusters PROVE SnapshotKept(out.clusters[c])
  <2>1. CASE c \in DOMAIN Keyed(t.clusters)
    <3>1. out.clusters[c] \in Range(t.clusters)
      BY <1>3, <2>1, KeyedIs
    <3> QED
      BY <3>1, TemplateRows
  <2>2. CASE c \notin DOMAIN Keyed(t.clusters)
    BY <1>1, <1>3, <2>2 DEF LeftOf, RowsKept
  <2> QED
    BY <2>1, <2>2
<1> QED
  BY <1>5, <1>6 DEF RowsKept

LEMMA DiskRows ==
  ASSUME SnapshotsKnown, NEW files,
         \A f \in FileNames : files[f].rows \in {records[f], Empty, disk[f].rows}
  PROVE  RowsKept(files["nodes"].rows, files["clusters"].rows)
<1>1. "nodes" \in FileNames /\ "clusters" \in FileNames
  BY DEF FileNames
<1>2. files["nodes"].rows \in {records["nodes"], Empty, disk["nodes"].rows}
  BY <1>1
<1>3. files["clusters"].rows \in {records["clusters"], Empty, disk["clusters"].rows}
  BY <1>1
<1>4. IsFiniteSet(DOMAIN Empty) /\ DOMAIN Empty = {}
  BY FS_EmptySet DEF Empty
<1> QED
  BY <1>2, <1>3, <1>4 DEF SnapshotsKnown, RowsKept

LEMMA SnapshotsStep ==
  ASSUME StoreTypes, PendingKnown, SnapshotsKnown, [MetaNext]_metaVars
  PROVE  SnapshotsKnown'
<1>1. CASE UNCHANGED <<records, disk, refresh>>
  BY <1>1 DEF SnapshotsKnown, RowsKept
<1>2. ASSUME NEW i, DeleteInstance(i) PROVE SnapshotsKnown'
  <2>1. records' = RemoveInstance(records, i) /\ UNCHANGED <<disk, refresh>>
    BY <1>2 DEF DeleteInstance, Change
  <2> DEFINE out == RemoveInstance(records, i)
  <2>2. /\ DOMAIN out.nodes \subseteq DOMAIN records.nodes
        /\ DOMAIN out.clusters \subseteq DOMAIN records.clusters
        /\ \A c \in DOMAIN out.clusters : out.clusters[c] = records.clusters[c]
    BY RemovedOne
  <2> HIDE DEF out
  <2>3. RowsKept(out.nodes, out.clusters)
    BY <2>2, FS_Subset DEF SnapshotsKnown, RowsKept
  <2> QED
    BY <2>1, <2>3 DEF SnapshotsKnown, out
<1>3. ASSUME NEW id \in DOMAIN imports, ConfirmImport(id) PROVE SnapshotsKnown'
  <2> DEFINE t == imports[id].template
  <2>1. UNCHANGED <<disk, refresh>> /\ (records' = records \/ records' = ApplyTemplate(records, t))
    BY <1>3 DEF ConfirmImport, Change
  <2>2. t \in ParsedTemplates
    BY DEF PendingKnown
  <2> HIDE DEF t
  <2>3. RowsKept(records'.nodes, records'.clusters)
    BY <2>1, <2>2, AppliedRows DEF SnapshotsKnown
  <2> QED
    BY <2>1, <2>3 DEF SnapshotsKnown
<1>4. CASE RefreshApplies
  <2> DEFINE t == OpenGemini(refresh.instance, refresh.raw)
  <2>1. refresh # NoRefresh /\ UNCHANGED disk /\ refresh' = NoRefresh /\ records' = ApplyTemplate(records, t)
    BY <1>4 DEF RefreshApplies, Change
  <2>2. t \in ParsedTemplates
    BY <2>1 DEF PendingKnown, SnapshotsKnown, ParsedTemplates
  <2> HIDE DEF t
  <2>3. RowsKept(records'.nodes, records'.clusters)
    BY <2>1, <2>2, AppliedRows DEF SnapshotsKnown
  <2> QED
    BY <2>1, <2>3 DEF SnapshotsKnown
<1>5. ASSUME NEW i \in Instances, RefreshReads(i) PROVE SnapshotsKnown'
  <2>1. /\ UNCHANGED <<records, disk>> /\ refresh'.raw = records.clusters[ClusterOf(records, i)].raw
        /\ refresh'.raw # NoRaw /\ ClusterOf(records, i) \in DOMAIN records.clusters
    BY <1>5 DEF RefreshReads, HasSnapshot
  <2> QED
    BY <2>1 DEF SnapshotsKnown, RowsKept, SnapshotKept
<1>6. CASE WriteFile
  <2>1. PICK at \in 1 .. 3 : /\ UNCHANGED <<records, refresh>>
                             /\ disk' = [disk EXCEPT ![Files[at]] = Saved(records[Files[at]])]
    BY <1>6 DEF WriteFile
  <2> DEFINE x == Saved(records[Files[at]])
             files == [disk EXCEPT ![Files[at]] = x]
  <2>2. x.rows = records[Files[at]] /\ disk' = files
    BY <2>1 DEF Saved
  <2> HIDE DEF x
  <2>3. \A f \in FileNames : files[f].rows \in {records[f], Empty, disk[f].rows}
    BY <2>2 DEF StoreTypes
  <2> HIDE DEF files
  <2>4. RowsKept(files["nodes"].rows, files["clusters"].rows)
    BY <2>3, DiskRows
  <2> QED
    BY <2>1, <2>2, <2>4 DEF SnapshotsKnown
<1>7. CASE WriteFileFails
  <2>1. writer.at \in 1 .. 3 /\ UNCHANGED <<records, refresh>>
    BY <1>7 DEF WriteFileFails
  <2>2. PICK left \in {Torn, disk[Files[writer.at]]} : disk' = [disk EXCEPT ![Files[writer.at]] = left]
    BY <1>7 DEF WriteFileFails
  <2> DEFINE files == [disk EXCEPT ![Files[writer.at]] = left]
  <2>3. left.rows \in {Empty, disk[Files[writer.at]].rows}
    BY <2>2 DEF Torn
  <2>4. disk' = files /\ \A f \in FileNames : files[f].rows \in {records[f], Empty, disk[f].rows}
    BY <2>2, <2>3 DEF StoreTypes
  <2> HIDE DEF files
  <2>5. RowsKept(files["nodes"].rows, files["clusters"].rows)
    BY <2>4, DiskRows
  <2> QED
    BY <2>1, <2>4, <2>5 DEF SnapshotsKnown
<1>8. CASE Restart
  <2>1. PICK left :
          /\ writer.at \in 1 .. 3 => left \in {Torn, disk[Files[writer.at]]}
          /\ disk' = IF writer.at \in 1 .. 3 THEN [disk EXCEPT ![Files[writer.at]] = left] ELSE disk
          /\ records' = Loaded(disk')
    BY <1>8 DEF Restart
  <2>2. refresh' = NoRefresh
    BY <1>8 DEF Restart
  <2>3. RowsKept(disk'["nodes"].rows, disk'["clusters"].rows)
    <3>1. CASE writer.at \in 1 .. 3
      <4>1. left.rows \in {Empty, disk[Files[writer.at]].rows}
        BY <2>1, <3>1 DEF Torn
      <4> DEFINE files == [disk EXCEPT ![Files[writer.at]] = left]
      <4>2. /\ disk' = files
            /\ \A f \in FileNames : files[f].rows \in {records[f], Empty, disk[f].rows}
        BY <2>1, <3>1, <4>1 DEF StoreTypes
      <4> HIDE DEF files
      <4>3. RowsKept(files["nodes"].rows, files["clusters"].rows)
        BY <4>2, DiskRows
      <4> QED
        BY <4>2, <4>3
    <3>2. CASE writer.at \notin 1 .. 3
      BY <2>1, <3>2 DEF SnapshotsKnown
    <3> QED
      BY <3>1, <3>2
  <2>4. DOMAIN disk' = FileNames
    BY <2>1 DEF StoreTypes
  <2>5. records'["nodes"] = disk'["nodes"].rows /\ records'["clusters"] = disk'["clusters"].rows
    BY <2>1, <2>4 DEF Loaded, FileNames
  <2> QED
    BY <2>2, <2>3, <2>5 DEF SnapshotsKnown
<1>9. CASE ReaderNext \/ TakeContext \/ \E t \in ParsedTemplates : CreateImportPreview(t)
  BY <1>1, <1>9 DEF ReaderNext, TakeContext, CreateImportPreview, QueryMetadata,
     GetMetadataFieldTypes, StoreVars
<1>10. CASE UNCHANGED metaVars
  BY <1>1, <1>10 DEF metaVars
<1> QED
  BY <1>2, <1>3, <1>4, <1>5, <1>6, <1>7, <1>8, <1>9, <1>10 DEF MetaNext, StoreNext

(* A context is a copy of one state of the store. *)
LEMMA ContextIsListed ==
  ASSUME SnapshotsKnown, NEW i, NEW c, NEW n, NEW ids \in ResolveTaskContext(records, i, c, n)
  PROVE  LET taken == ContextOf(records, ids) IN ListedTopology(taken) /\ IsFiniteSet(taken.nodes)
<1> DEFINE taken == ContextOf(records, ids)
           topology == IF ids.cluster = Nobody THEN NoTopology ELSE records.clusters[ids.cluster].topology
<1>1. ids.cluster \in {Nobody} \union DOMAIN records.clusters
  <2> DEFINE node == MergeRelatedId(n, FieldOf(records.instances, i, "node"))
             instance == MergeRelatedId(i, FieldOf(records.nodes, node.id, "instance"))
             cluster == MergeRelatedId(c, DerivedCluster(records, instance.id, node.id))
             given == /\ i \in {Nobody} \union DOMAIN records.instances
                      /\ Known(node, records.nodes) /\ Known(instance, records.instances)
                      /\ Known(cluster, records.clusters)
                      /\ (instance.id # Nobody /\ node.id # Nobody) =>
                            records.nodes[node.id].instance \in {Nobody, instance.id}
                      /\ (cluster.id # Nobody /\ node.id # Nobody) =>
                            Belongs(records, node.id, cluster.id)
             found == [instance |-> instance.id, cluster |-> cluster.id, node |-> node.id]
  <2>1. ids \in (IF given THEN {found} ELSE {})
    BY Zenon DEF ResolveTaskContext
  <2>2. found.cluster = cluster.id /\ (given => Known(cluster, records.clusters))
    OBVIOUS
  <2> HIDE DEF given, found, cluster
  <2> QED
    BY <2>1, <2>2 DEF Known
<1>3. /\ taken.databases = topology.databases /\ taken.views = topology.views
      /\ taken.nodes = IF ids.cluster = Nobody THEN {} ELSE ClusterNodes(records, ids.cluster)
  BY DEF ContextOf
<1>4. ListedTopology(topology)
  <2>1. CASE ids.cluster = Nobody
    BY <2>1, NoneIsList DEF NoTopology, ListedTopology
  <2>2. CASE ids.cluster # Nobody
    BY <1>1, <2>2 DEF SnapshotsKnown, RowsKept, SnapshotKept
  <2> QED
    BY <2>1, <2>2
<1>5. IsFiniteSet(taken.nodes)
  <2>1. ClusterNodes(records, ids.cluster) \in SUBSET DOMAIN records.nodes
    BY DEF ClusterNodes
  <2>2. IsFiniteSet(ClusterNodes(records, ids.cluster)) /\ IsFiniteSet({})
    BY <2>1, FS_Subset, FS_EmptySet DEF SnapshotsKnown, RowsKept
  <2> QED
    BY <1>3, <2>2
<1> HIDE DEF topology
<1> QED
  BY <1>3, <1>4, <1>5 DEF ListedTopology

LEMMA ContextStep ==
  ASSUME SnapshotsKnown, ContextListed, [MetaNext]_metaVars
  PROVE  ContextListed'
<1>1. CASE UNCHANGED context
  BY <1>1 DEF ContextListed
<1>2. CASE TakeContext
  <2>1. PICK i, c, n : \E ids \in ResolveTaskContext(records, i, c, n) : context' = ContextOf(records, ids)
    BY <1>2 DEF TakeContext
  <2>2. PICK ids \in ResolveTaskContext(records, i, c, n) : context' = ContextOf(records, ids)
    BY <2>1
  <2> DEFINE taken == ContextOf(records, ids)
  <2>3. ListedTopology(taken) /\ IsFiniteSet(taken.nodes)
    BY ContextIsListed
  <2> HIDE DEF taken
  <2>4. context' = taken
    BY <2>2 DEF taken
  <2> QED
    BY <2>3, <2>4 DEF ContextListed
<1>3. MetaNext => TakeContext \/ UNCHANGED context
  BY DEF MetaNext, StoreNext, ReaderNext, CreateImportPreview, ConfirmImport, DeleteInstance,
     RefreshReads, RefreshApplies, WriteFile, WriteFileFails, Restart, QueryMetadata,
     GetMetadataFieldTypes
<1> QED
  BY <1>1, <1>2, <1>3 DEF metaVars

(* A page continues what the pages before it gave. *)
LEMMA PageContinues ==
  ASSUME NEW items, IsList(items), NEW cursor \in 0 .. Len(items), NEW limit \in Nat \ {0},
         NEW page, page = Page(items, cursor, limit)
  PROVE  LET got == SubSeq(items, 1, cursor) \o page.items IN
         \/ page.next = Done /\ got = items
         \/ page.next \in 0 .. Len(items) /\ got = SubSeq(items, 1, page.next)
<1> DEFINE end == SmallerOf(cursor + limit, Len(items))
<1>1. Len(items) \in Nat /\ items \in Seq(Range(items))
  BY ListIs DEF IsList
<1>2. end \in cursor .. Len(items)
  BY <1>1 DEF SmallerOf
<1>3. page.items = SubSeq(items, cursor + 1, end) /\ page.next = IF end < Len(items) THEN end ELSE Done
  BY DEF Page
<1> HIDE DEF end
<1>4. SubSeq(items, 1, cursor) \o SubSeq(items, cursor + 1, end) = SubSeq(items, 1, end)
  BY <1>1, <1>2, ConcatAdjacentSubSeq
<1>5. SubSeq(items, 1, Len(items)) = items
  BY <1>1, SubSeqFull
<1>6. CASE end < Len(items)
  <2>1. page.next = end /\ end \in 0 .. Len(items)
    BY <1>1, <1>2, <1>3, <1>6
  <2> QED
    BY <1>3, <1>4, <2>1
<1>7. CASE ~(end < Len(items))
  <2>1. page.next = Done /\ end = Len(items)
    BY <1>1, <1>2, <1>3, <1>7
  <2> QED
    BY <1>3, <1>4, <1>5, <2>1
<1> QED
  BY <1>6, <1>7

LEMMA PagesStep ==
  ASSUME ContextListed, PagesSoFar, [MetaNext]_metaVars
  PROVE  PagesSoFar'
<1>1. CASE reader = NoReader /\ StoreNext
  <2>1. reader' = NoReader
    BY <1>1 DEF StoreNext, CreateImportPreview, ConfirmImport, DeleteInstance, RefreshReads,
       RefreshApplies, WriteFile, WriteFileFails, Restart, TakeContext
  <2> QED
    BY <2>1 DEF PagesSoFar, NoReader
<1>2. ASSUME NEW q \in DOMAIN Queries, QueryMetadata(q) PROVE PagesSoFar'
  <2> DEFINE items == ItemsForSection(context, Queries[q])
             page == Page(items, reader.cursor, Queries[q].limit)
  <2>1. context.taken /\ context' = context /\ ValidQuery(Queries[q])
    BY <1>2 DEF QueryMetadata
  <2>2. reader' = [reader EXCEPT !.query = q, !.cursor = page.next, !.got = @ \o page.items]
    BY <1>2 DEF QueryMetadata
  <2>3. /\ DOMAIN reader' = DOMAIN reader
        /\ reader'.query = q /\ reader'.cursor = page.next /\ reader'.got = reader.got \o page.items
    BY <2>2 DEF PagesSoFar
  <2>4. IsList(items) /\ Queries[q].limit \in Nat \ {0}
    BY <2>1, SectionsListed DEF ContextListed, ValidQuery
  <2>5. q # 0
    BY MetadataAssumption, ListIs
  <2>6. reader.cursor \in 0 .. Len(items) /\ reader.got = SubSeq(items, 1, reader.cursor)
    <3>1. CASE reader.query = 0
      <4>1. reader.cursor = 0 /\ reader.got = << >>
        BY <3>1 DEF PagesSoFar
      <4>2. Len(items) \in Nat /\ items \in Seq(Range(items))
        BY <2>4, ListIs DEF IsList
      <4> HIDE DEF items
      <4>3. SubSeq(items, 1, 0) = << >>
        BY <4>2, SubSeqEmpty
      <4> QED
        BY <4>1, <4>2, <4>3
    <3>2. CASE reader.query # 0
      <4>1. reader.query = q /\ reader.cursor # Done
        BY <1>2, <3>2 DEF QueryMetadata
      <4> QED
        BY <3>2, <4>1 DEF PagesSoFar
    <3> QED
      BY <3>1, <3>2
  <2> HIDE DEF items
  <2>7. page = Page(items, reader.cursor, Queries[q].limit)
    OBVIOUS
  <2> HIDE DEF page
  <2>8. \/ page.next = Done /\ reader.got \o page.items = items
        \/ /\ page.next \in 0 .. Len(items)
           /\ reader.got \o page.items = SubSeq(items, 1, page.next)
    BY <2>4, <2>6, <2>7, PageContinues
  <2>9. items = ItemsForSection(context', Queries[reader'.query])
    BY <2>1, <2>3 DEF items
  <2> DEFINE now == ItemsForSection(context', Queries[reader'.query])
  <2> HIDE DEF now
  <2>10. \/ reader'.cursor = Done /\ reader'.got = now
         \/ reader'.cursor \in 0 .. Len(now) /\ reader'.got = SubSeq(now, 1, reader'.cursor)
    BY <2>3, <2>8, <2>9 DEF now
  <2> QED
    BY <2>1, <2>3, <2>5, <2>10 DEF PagesSoFar, now
<1>3. ASSUME NEW f, GetMetadataFieldTypes(f) PROVE PagesSoFar'
  <2>1. reader = NoReader /\ \E types : reader' = [reader EXCEPT !.answer = f, !.types = types]
    BY <1>3 DEF GetMetadataFieldTypes
  <2>2. reader'.query = 0 /\ reader'.cursor = 0 /\ reader'.got = << >> /\ DOMAIN reader' = DOMAIN reader
    BY <2>1 DEF NoReader
  <2> QED
    BY <2>2 DEF PagesSoFar
<1>4. CASE UNCHANGED metaVars
  BY <1>4 DEF metaVars, PagesSoFar
<1> QED
  BY <1>1, <1>2, <1>3, <1>4 DEF MetaNext, ReaderNext

(* The pages that the agent follows, each call with the cursor the last one
   returned, are together the section it asked for: every item once and in
   order, for any raw document whose keys tell its parts apart (metadata.rs:
   query_metadata_context, mcp.rs: query_metadata_tool). *)
THEOREM PagesCover == MetaSpec => []PagesCoverSection
<1> DEFINE Inv == /\ StoreTypes /\ AnswerIsSaved /\ PendingKnown /\ SnapshotsKnown
                  /\ ContextListed /\ PagesSoFar
<1>1. MetaInit => Inv
  <2> SUFFICES ASSUME MetaInit PROVE Inv
    OBVIOUS
  <2>1. StoreTypes /\ AnswerIsSaved
    BY SavedAtStart
  <2>2. PendingKnown
    BY DEF MetaInit, PendingKnown, Empty
  <2>3. SnapshotsKnown
    <3>1. disk["nodes"].rows = Empty /\ disk["clusters"].rows = Empty
      BY FilesAre DEF MetaInit, FileNames, Saved
    <3>2. IsFiniteSet(DOMAIN Empty) /\ DOMAIN Empty = {}
      BY FS_EmptySet DEF Empty
    <3> QED
      BY <3>1, <3>2 DEF MetaInit, SnapshotsKnown, RowsKept, NoRecords
  <2>4. ContextListed /\ PagesSoFar
    BY DEF MetaInit, ContextListed, PagesSoFar, NoContext, NoReader
  <2> QED
    BY <2>1, <2>2, <2>3, <2>4
<1>2. Inv /\ [MetaNext]_metaVars => Inv'
  BY SaveStep, PendingStep, SnapshotsStep, ContextStep, PagesStep
<1>3. Inv => PagesCoverSection
  BY DEF PagesSoFar, PagesCoverSection, Done
<1> QED
  BY <1>1, <1>2, <1>3, PTL DEF MetaSpec
=============================================================================
