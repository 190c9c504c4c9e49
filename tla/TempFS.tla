------------------------------- MODULE TempFS -------------------------------
(***************************************************************************)
(* Temporary file storage: backend/src/tempfs/service.py and scheduler.py. *)
(*                                                                         *)
(* A file has bytes on disk, in up to three names ({id}.raw, {id}.zst and  *)
(* {id}), and metadata in one of two tables (temp_file and expired_file).  *)
(* Uploads, deletions, the expiry sweep and downloads run concurrently in  *)
(* one event loop: an action is what a coroutine does between two awaits,  *)
(* and a database transaction takes effect at its commit.                  *)
(*                                                                         *)
(* A file id is a fresh uuid, so it stands for the upload that made it.    *)
(***************************************************************************)
EXTENDS Naturals, FiniteSets, Functions

CONSTANTS
  Files,        \* the ids of all uploads of a behaviour
  Users,        \* callers that are logged in
  Anonymous,    \* a download without a valid token
  OwnerOf,      \* uploader_id of each file
  Admins,       \* the users for which is_user_admin holds
  Permission,   \* download_permission of each file
  NoFile,
  Requests,     \* DELETE requests that may be in flight at once
  Readers,      \* downloads that may be in flight at once
  Scheduler,    \* the one cleanup job (max_instances=1)
  TotalQuota,   \* TOTAL_SHARED_BYTES
  UserQuota,    \* USER_QUOTA_BYTES
  MaxFile,      \* MAX_FILE_SIZE
  MaxUploads,   \* bound: uploads in flight at once
  FaultKinds,   \* which faults the environment injects
  MaxFaults     \* bound: how many of them

ASSUME FilesAssumption ==
  /\ IsFiniteSet(Files)
  /\ NoFile \notin Files
  /\ OwnerOf \in [Files -> Users]
  /\ Anonymous \notin Users
  /\ Admins \subseteq Users
  /\ Permission \in [Files -> {"self", "password", "public"}]
ASSUME MoversAssumption == Scheduler \notin Requests
ASSUME BoundsAssumption ==
  /\ {TotalQuota, UserQuota, MaxFile, MaxUploads, MaxFaults} \subseteq Nat
  /\ MaxFile > 0
  /\ FaultKinds \subseteq {"unlink", "db", "log", "crash"}

VARIABLES
  up,        \* where the coroutine of each upload is
  size,      \* file_size, the bytes received
  stored,    \* stored_size, the bytes kept
  packed,    \* is_compressed
  disk,      \* the content under each of a file's three names
  temp,      \* rows of temp_file
  archive,   \* rows of expired_file
  due,       \* files with expires_at <= now
  phase,     \* how far each run of _move_to_expired is
  target,    \* the record it moves
  queue,     \* what is left of the sweep's list of due records
  reader,    \* downloads
  faults     \* faults of each kind injected so far

upVars == <<up, size, stored, packed>>
moveVars == <<phase, target, queue>>
vars == <<upVars, disk, temp, archive, due, moveVars, reader, faults>>

Movers == Requests \cup {Scheduler}
Slots == {"raw", "zst", "final"}
Content == {"none", "partial", "raw", "zst"}
Working == {"streaming", "received", "globalOk", "userOk", "compressing", "placed"}
Stage == Working \cup {"none", "committed", "done", "failed"}
InFlight == {f \in Files : up[f] \in Working \cup {"committed"}}

\* What the table says the bytes of f are.
Described(f) == IF packed[f] THEN "zst" ELSE "raw"
Empty == [s \in Slots |-> "none"]

TypeOK ==
  /\ up \in [Files -> Stage]
  /\ size \in [Files -> 0..MaxFile]
  /\ stored \in [Files -> 0..MaxFile]
  /\ packed \in [Files -> BOOLEAN]
  /\ disk \in [Files -> [Slots -> Content]]
  /\ temp \in SUBSET Files
  /\ archive \in SUBSET Files
  /\ due \in SUBSET Files
  /\ phase \in [Movers -> {"idle", "loaded", "unlinked"}]
  /\ target \in [Movers -> Files \cup {NoFile}]
  /\ queue \in SUBSET Files
  /\ reader \in [Readers -> [pc : {"idle", "admitted", "reading", "broken"},
                             file : Files \cup {NoFile},
                             packed : BOOLEAN,
                             got : Content]]
  /\ faults \in [FaultKinds -> Nat]

IdleReader == [pc |-> "idle", file |-> NoFile, packed |-> FALSE, got |-> "none"]

Init ==
  /\ up = [f \in Files |-> "none"]
  /\ size = [f \in Files |-> 0]
  /\ stored = [f \in Files |-> 0]
  /\ packed = [f \in Files |-> FALSE]
  /\ disk = [f \in Files |-> Empty]
  /\ temp = {}
  /\ archive = {}
  /\ due = {}
  /\ phase = [m \in Movers |-> "idle"]
  /\ target = [m \in Movers |-> NoFile]
  /\ queue = {}
  /\ reader = [r \in Readers |-> IdleReader]
  /\ faults = [k \in FaultKinds |-> 0]

\* One more fault of kind k.
Fault(k) ==
  /\ k \in FaultKinds
  /\ SumFunctionOnSet(faults, FaultKinds) < MaxFaults
  /\ faults' = [faults EXCEPT ![k] = @ + 1]

Happened(k) == k \in FaultKinds /\ faults[k] > 0

-----------------------------------------------------------------------------
(* Upload *)

\* _used_bytes and _user_used_bytes: the stored_size of the committed rows,
\* the ones that expired and await the sweep included.
UsedBytes == SumFunctionOnSet(stored, temp)
UserUsedBytes(u) == SumFunctionOnSet(stored, {f \in temp : OwnerOf[f] = u})

GoTo(f, stage) == up' = [up EXCEPT ![f] = stage]

\* The lifetime is clamped, the id drawn and {id}.raw opened for writing.
StartUpload(f) ==
  /\ up[f] = "none"
  /\ Cardinality(InFlight) < MaxUploads
  /\ GoTo(f, "streaming")
  /\ disk' = [disk EXCEPT ![f]["raw"] = "partial"]
  /\ UNCHANGED <<size, stored, packed, temp, archive, due, moveVars, reader, faults>>

\* The last chunk is written; the total is neither zero nor over the cap.
Receive(f) ==
  /\ up[f] = "streaming"
  /\ \E n \in 1..MaxFile : size' = [size EXCEPT ![f] = n]
  /\ disk' = [disk EXCEPT ![f]["raw"] = "raw"]
  /\ GoTo(f, "received")
  /\ UNCHANGED <<stored, packed, temp, archive, due, moveVars, reader, faults>>

\* Mutant of Discard: the except block unlinks the raw file alone.
DiscardRawOnly(f) ==
  /\ disk' = [disk EXCEPT ![f]["raw"] = "none"]
  /\ GoTo(f, "failed")
  /\ UNCHANGED <<size, stored, packed, temp, archive, due, moveVars, reader, faults>>

\* The except block: every name the upload may have used is unlinked, each
\* one's OSError suppressed, and the error goes to the caller.
Discard(f) ==
  /\ \/ /\ disk' = [disk EXCEPT ![f] = Empty]
        /\ UNCHANGED faults
     \/ /\ Fault("unlink")
        /\ \E kept \in SUBSET Slots :
             disk' = [disk EXCEPT ![f] = [s \in Slots |-> IF s \in kept THEN @[s] ELSE "none"]]
  /\ GoTo(f, "failed")
  /\ UNCHANGED <<size, stored, packed, temp, archive, due, moveVars, reader>>

\* Too large, empty, or an I/O error before the row is committed.
UploadFails(f) ==
  /\ up[f] \in Working
  /\ Discard(f)

\* The global quota, against the rows committed by now.
CheckGlobalQuota(f) ==
  /\ up[f] = "received"
  /\ IF UsedBytes + size[f] > TotalQuota
       THEN Discard(f)
       ELSE GoTo(f, "globalOk")
            /\ UNCHANGED <<size, stored, packed, disk, temp, archive, due, moveVars, reader, faults>>

\* Mutant of CheckUserQuota: the file itself is not counted.
CheckUserQuotaUncounted(f) ==
  /\ up[f] = "globalOk"
  /\ IF UserUsedBytes(OwnerOf[f]) > UserQuota
       THEN Discard(f)
       ELSE GoTo(f, "userOk")
            /\ UNCHANGED <<size, stored, packed, disk, temp, archive, due, moveVars, reader, faults>>

\* The uploader's quota, in a statement, and so a snapshot, of its own.
CheckUserQuota(f) ==
  /\ up[f] = "globalOk"
  /\ IF size[f] + UserUsedBytes(OwnerOf[f]) > UserQuota
       THEN Discard(f)
       ELSE GoTo(f, "userOk")
            /\ UNCHANGED <<size, stored, packed, disk, temp, archive, due, moveVars, reader, faults>>

\* Mutant of StartCompress: is_compressed is set before it is known.
StartCompressFlagged(f) ==
  /\ up[f] = "userOk"
  /\ GoTo(f, "compressing")
  /\ disk' = [disk EXCEPT ![f]["zst"] = "partial"]
  /\ packed' = [packed EXCEPT ![f] = TRUE]
  /\ UNCHANGED <<size, stored, temp, archive, due, moveVars, reader, faults>>

\* compress=True: a thread of the pool writes {id}.zst.
StartCompress(f) ==
  /\ up[f] = "userOk"
  /\ GoTo(f, "compressing")
  /\ disk' = [disk EXCEPT ![f]["zst"] = "partial"]
  /\ UNCHANGED <<size, stored, packed, temp, archive, due, moveVars, reader, faults>>

\* Mutant of KeepCompressed: is_compressed stays false.
KeepCompressedUnflagged(f) ==
  /\ up[f] = "compressing"
  /\ \E n \in 1..(size[f] - 1) : stored' = [stored EXCEPT ![f] = n]
  /\ disk' = [disk EXCEPT ![f] = [Empty EXCEPT !["final"] = "zst"]]
  /\ GoTo(f, "placed")
  /\ UNCHANGED <<size, packed, temp, archive, due, moveVars, reader, faults>>

\* The compressed copy is smaller: it becomes the file, the raw one goes.
KeepCompressed(f) ==
  /\ up[f] = "compressing"
  /\ \E n \in 1..(size[f] - 1) : stored' = [stored EXCEPT ![f] = n]
  /\ disk' = [disk EXCEPT ![f] = [Empty EXCEPT !["final"] = "zst"]]
  /\ packed' = [packed EXCEPT ![f] = TRUE]
  /\ GoTo(f, "placed")
  /\ UNCHANGED <<size, temp, archive, due, moveVars, reader, faults>>

\* Compression was not asked for, did not help, or failed (even after the
\* compressed copy was renamed: the raw file then replaces it).
KeepRaw(f) ==
  /\ up[f] \in {"userOk", "compressing"}
  /\ stored' = [stored EXCEPT ![f] = size[f]]
  /\ disk' = [disk EXCEPT ![f] = [Empty EXCEPT !["final"] = disk[f]["raw"]]]
  /\ GoTo(f, "placed")
  /\ UNCHANGED <<size, packed, temp, archive, due, moveVars, reader, faults>>

\* Mutant of CommitUpload: the row may be committed before the final rename.
CommitUploadEarly(f) ==
  /\ up[f] \in {"userOk", "placed"}
  /\ temp' = temp \cup {f}
  /\ GoTo(f, "committed")
  /\ UNCHANGED <<size, stored, packed, disk, archive, due, moveVars, reader, faults>>

\* session.add(record) and commit.
CommitUpload(f) ==
  /\ up[f] = "placed"
  /\ temp' = temp \cup {f}
  /\ GoTo(f, "committed")
  /\ UNCHANGED <<size, stored, packed, disk, archive, due, moveVars, reader, faults>>

\* refresh, the quota query and the log line succeed.
FinishUpload(f) ==
  /\ up[f] = "committed"
  /\ GoTo(f, "done")
  /\ UNCHANGED <<size, stored, packed, disk, temp, archive, due, moveVars, reader, faults>>

\* One of them fails: the same except block runs, with the row committed.
FailAfterCommit(f) ==
  /\ up[f] = "committed"
  /\ Fault("db") \/ Fault("log")
  /\ disk' = [disk EXCEPT ![f] = Empty]
  /\ GoTo(f, "failed")
  /\ UNCHANGED <<size, stored, packed, temp, archive, due, moveVars, reader>>

-----------------------------------------------------------------------------
(* Deletion and expiry *)

\* expires_at passes.
BecomeDue(f) ==
  /\ up[f] # "none"
  /\ f \notin due
  /\ due' = due \cup {f}
  /\ UNCHANGED <<upVars, disk, temp, archive, moveVars, reader, faults>>

\* delete_file up to the move: the record exists and the caller may remove it.
LoadForDelete(m, u, f) ==
  /\ phase[m] = "idle"
  /\ f \in temp
  /\ u \in Admins \/ OwnerOf[f] = u
  /\ phase' = [phase EXCEPT ![m] = "loaded"]
  /\ target' = [target EXCEPT ![m] = f]
  /\ UNCHANGED <<upVars, disk, temp, archive, due, queue, reader, faults>>

\* Mutant of StartSweep: records whose file is missing are not listed.
StartSweepOfPresent ==
  /\ phase[Scheduler] = "idle"
  /\ queue = {}
  /\ queue' = {f \in temp \cap due : disk[f]["final"] # "none"}
  /\ queue' # {}
  /\ UNCHANGED <<upVars, disk, temp, archive, due, phase, target, reader, faults>>

\* expire_due_files: the list of due records is read once.
StartSweep ==
  /\ phase[Scheduler] = "idle"
  /\ queue = {}
  /\ temp \cap due # {}
  /\ queue' = temp \cap due
  /\ UNCHANGED <<upVars, disk, temp, archive, due, phase, target, reader, faults>>

\* The loop takes its next record, in the order the database returned.
TakeDue(f) ==
  /\ phase[Scheduler] = "idle"
  /\ f \in queue
  /\ phase' = [phase EXCEPT ![Scheduler] = "loaded"]
  /\ target' = [target EXCEPT ![Scheduler] = f]
  /\ UNCHANGED <<upVars, disk, temp, archive, due, queue, reader, faults>>

\* Mutant of Unlink: the raw name is unlinked in place of the final one.
UnlinkRaw(m) ==
  /\ phase[m] = "loaded"
  /\ disk' = [disk EXCEPT ![target[m]]["raw"] = "none"]
  /\ phase' = [phase EXCEPT ![m] = "unlinked"]
  /\ UNCHANGED <<upVars, temp, archive, due, target, queue, reader, faults>>

\* _move_to_expired unlinks the file; an OSError is logged and ignored.
Unlink(m) ==
  /\ phase[m] = "loaded"
  /\ \/ /\ disk' = [disk EXCEPT ![target[m]]["final"] = "none"]
        /\ UNCHANGED faults
     \/ /\ Fault("unlink")
        /\ UNCHANGED disk
  /\ phase' = [phase EXCEPT ![m] = "unlinked"]
  /\ UNCHANGED <<upVars, temp, archive, due, target, queue, reader>>

\* A mover is done with its record.
Release(m) ==
  /\ phase' = [phase EXCEPT ![m] = "idle"]
  /\ target' = [target EXCEPT ![m] = NoFile]

\* Mutant of CommitMove: the row of temp_file is not deleted.
CommitMoveKeepsRow(m) ==
  /\ phase[m] = "unlinked"
  /\ target[m] \notin archive
  /\ archive' = archive \cup {target[m]}
  /\ queue' = IF m = Scheduler THEN queue \ {target[m]} ELSE queue
  /\ Release(m)
  /\ UNCHANGED <<upVars, disk, temp, due, reader, faults>>

\* One transaction inserts into expired_file and deletes from temp_file.
CommitMove(m) ==
  /\ phase[m] = "unlinked"
  /\ target[m] \notin archive
  /\ archive' = archive \cup {target[m]}
  /\ temp' = temp \ {target[m]}
  /\ queue' = IF m = Scheduler THEN queue \ {target[m]} ELSE queue
  /\ Release(m)
  /\ UNCHANGED <<upVars, disk, due, reader, faults>>

\* The transaction is rolled back; the error leaves the sweep's loop.
AbortMove(m) ==
  /\ queue' = IF m = Scheduler THEN {} ELSE queue
  /\ Release(m)
  /\ UNCHANGED <<upVars, disk, temp, archive, due, reader>>

\* Another mover archived the same record first: the primary key conflicts.
MoveConflicts(m) ==
  /\ phase[m] = "unlinked"
  /\ target[m] \in archive
  /\ AbortMove(m)
  /\ UNCHANGED faults

\* The commit fails, a log line after the unlink does, or the sweep's log_expire.
MoveFails(m) ==
  /\ \/ phase[m] = "unlinked" /\ (Fault("db") \/ Fault("log"))
     \/ m = Scheduler /\ phase[m] = "loaded" /\ Fault("log")
  /\ AbortMove(m)

-----------------------------------------------------------------------------
(* Download *)

\* u may read f; pw says whether the password sent is the right one.
MayDownload(f, u, pw) ==
  CASE Permission[f] = "self" -> u = OwnerOf[f]
    [] Permission[f] = "password" -> u = OwnerOf[f] \/ pw
    [] OTHER -> TRUE

\* get_file_for_download: the row, the permission and the file's presence.
AdmitDownload(r, f, u, pw) ==
  /\ reader[r].pc = "idle"
  /\ f \in temp \ due
  /\ MayDownload(f, u, pw)
  /\ disk[f]["final"] # "none"
  /\ reader' = [reader EXCEPT ![r] = [pc |-> "admitted", file |-> f,
                                      packed |-> packed[f], got |-> "none"]]
  /\ UNCHANGED <<upVars, disk, temp, archive, due, moveVars, faults>>

\* The response has begun when its generator first runs and opens the file.
OpenFile(r) ==
  /\ reader[r].pc = "admitted"
  /\ LET c == disk[reader[r].file]["final"] IN
       reader' = [reader EXCEPT ![r].got = c,
                                ![r].pc = IF c = "none" THEN "broken" ELSE "reading"]
  /\ UNCHANGED <<upVars, disk, temp, archive, due, moveVars, faults>>

EndDownload(r) ==
  /\ reader[r].pc \in {"reading", "broken"}
  /\ reader' = [reader EXCEPT ![r] = IdleReader]
  /\ UNCHANGED <<upVars, disk, temp, archive, due, moveVars, faults>>

-----------------------------------------------------------------------------

\* The process dies: coroutines are lost, tables and disk stay as they are.
Crash ==
  /\ Fault("crash")
  /\ up' = [f \in Files |-> IF f \in InFlight THEN "failed" ELSE up[f]]
  /\ phase' = [m \in Movers |-> "idle"]
  /\ target' = [m \in Movers |-> NoFile]
  /\ queue' = {}
  /\ reader' = [r \in Readers |-> IdleReader]
  /\ UNCHANGED <<size, stored, packed, disk, temp, archive, due>>

Upload(f) ==
  \/ StartUpload(f) \/ Receive(f) \/ UploadFails(f)
  \/ CheckGlobalQuota(f) \/ CheckUserQuota(f)
  \/ StartCompress(f) \/ KeepCompressed(f) \/ KeepRaw(f)
  \/ CommitUpload(f) \/ FinishUpload(f) \/ FailAfterCommit(f)

Move(m) == Unlink(m) \/ CommitMove(m) \/ MoveConflicts(m) \/ MoveFails(m)

Sweep == StartSweep \/ \E f \in Files : TakeDue(f)

Delete(m) == \E u \in Users, f \in Files : LoadForDelete(m, u, f)

Download(r) ==
  \/ \E f \in Files, u \in Users \cup {Anonymous}, pw \in BOOLEAN : AdmitDownload(r, f, u, pw)
  \/ OpenFile(r) \/ EndDownload(r)

Next ==
  \/ \E f \in Files : Upload(f) \/ BecomeDue(f)
  \/ \E m \in Requests : Delete(m)
  \/ Sweep
  \/ \E m \in Movers : Move(m)
  \/ \E r \in Readers : Download(r)
  \/ Crash

Spec == Init /\ [][Next]_vars

\* The job runs again every 30 minutes and the event loop runs its steps.
Fairness ==
  /\ WF_vars(Sweep)
  /\ WF_vars(Unlink(Scheduler) \/ CommitMove(Scheduler) \/ MoveConflicts(Scheduler))

FairSpec == Spec /\ Fairness

-----------------------------------------------------------------------------
(* Properties *)

\* The checks read committed rows only: uploads that overlap one that passes its
\* check may have passed theirs against the same rows.
Overshoot == IF MaxUploads = 0 THEN 0 ELSE (MaxUploads - 1) * MaxFile

\* "5 GB per-user quota", service.py:61: whatever is moved out or fails meanwhile,
\* both quotas bound what is stored, up to a file of full size for each upload
\* that may overlap another; without overlaps, exactly.
QuotasHeld ==
  /\ UsedBytes <= TotalQuota + Overshoot
  /\ \A u \in Users : UserUsedBytes(u) <= UserQuota + Overshoot

\* Whatever fails or dies on the way, when a row has a file, the file holds
\* the bytes that is_compressed says it holds.
RowDescribesBytes ==
  \A f \in temp : disk[f]["final"] \in {"none", Described(f)}

\* A download picks its decoder from the row and opens the file later, when
\* the row may be gone: it still opens nothing but bytes of that encoding.
ReaderDecodesWhatItOpens ==
  \A r \in Readers :
    reader[r].pc = "reading" => reader[r].got = IF reader[r].packed THEN "zst" ELSE "raw"

\* Deletions, sweeps, retries and crashes never lose a row, archive it while
\* it stays active, or bring an archived one back (_move_to_expired).
LedgerStep ==
  /\ archive \subseteq archive'
  /\ temp \ temp' \subseteq archive'
  /\ archive' \cap temp' = {}
LedgerExact == [][LedgerStep]_vars

\* Every error path gives the bytes back: without a crash or a failing unlink,
\* what is on disk belongs to a row or to an upload that still runs ("so we
\* don't leak disk space", service.py:306).
NoBytesLeaked ==
  \/ Happened("crash") \/ Happened("unlink")
  \/ \A f \in Files : disk[f] # Empty => f \in temp \/ up[f] \in Working

\* models.py:595, "The file on disk is gone; this row exists purely for
\* logging", holds of every archived file unless an unlink failed.
ArchivedIsGone ==
  Happened("unlink") \/ \A f \in archive : disk[f]["final"] = "none"

\* models.py:527: an active row has its file, unless some move has unlinked it
\* already.
RowHasFile ==
  \A f \in temp :
    disk[f]["final"] = "none" => \E m \in Movers : target[m] = f /\ phase[m] = "unlinked"

\* Only a failure after the commit of an upload, or between the unlink and the
\* commit of a move, leaves an active row without its file.
RowLosesFileByFault ==
  RowHasFile \/ Happened("crash") \/ Happened("db") \/ Happened("log")

\* A row past its expiry is archived in the end, although deletions race with
\* the sweep, moves fail, and a crash leaves rows whose file is gone.
DueIsRetired == \A f \in Files : f \in temp \cap due ~> f \notin temp
=============================================================================
