---------------------------- MODULE TempFSProofs ----------------------------
(***************************************************************************)
(* What TempFS guarantees for any number of files, requests and readers,   *)
(* any quotas and any faults.                                              *)
(***************************************************************************)
EXTENDS TempFS, FiniteSetTheorems, TLAPS

Settled == {"committed", "done", "failed"}
Unplaced == {"none", "streaming", "received", "globalOk", "userOk", "compressing"}

\* A row exists only once its upload has committed, in one of the two tables.
RowsInv ==
  /\ \A f \in temp \cup archive : up[f] \in Settled
  /\ temp \cap archive = {}

\* A file gets its final name once, together with its is_compressed.
BytesInv ==
  \A f \in Files :
    /\ disk[f]["final"] \in {"none", Described(f)}
    /\ up[f] \in Unplaced => disk[f]["final"] = "none" /\ ~ packed[f]
    /\ up[f] \in Unplaced \ {"none", "streaming"} => disk[f]["raw"] = "raw"

\* Only recorded files are moved.
MoversInv ==
  /\ queue \subseteq temp \cup archive
  /\ \A m \in Movers : phase[m] # "idle" => target[m] \in temp \cup archive

\* A download holds the encoding of a file whose encoding is settled.
ReadersInv ==
  \A r \in Readers :
    /\ reader[r].pc = "admitted" =>
         /\ reader[r].file \in Files
         /\ up[reader[r].file] \in Settled
         /\ reader[r].packed = packed[reader[r].file]
    /\ reader[r].pc = "reading" => reader[r].got = IF reader[r].packed THEN "zst" ELSE "raw"

IInv == TypeOK /\ RowsInv /\ BytesInv /\ MoversInv /\ ReadersInv

USE DEF IInv, TypeOK, RowsInv, BytesInv, MoversInv, ReadersInv, Stage, Working, Slots, Content,
       Empty, Described, GoTo, upVars, moveVars, Settled, Unplaced

LEMMA InitIInv == Init => IInv
<1> SUFFICES ASSUME Init PROVE IInv
  OBVIOUS
<1>1. Empty \in [Slots -> Content]
  OBVIOUS
<1>2. TypeOK
  <2>1. reader \in [Readers -> [pc : {"idle", "admitted", "reading", "broken"},
                               file : Files \cup {NoFile}, packed : BOOLEAN, got : Content]]
    BY DEF Init, IdleReader
  <2>2. /\ size \in [Files -> 0..MaxFile] /\ stored \in [Files -> 0..MaxFile]
        /\ faults \in [FaultKinds -> Nat]
    BY BoundsAssumption DEF Init
  <2>3. QED
    BY <1>1, <2>1, <2>2 DEF Init
<1>3. RowsInv /\ BytesInv /\ MoversInv /\ ReadersInv
  BY DEF Init, IdleReader
<1>4. QED
  BY <1>2, <1>3

\* The except block may leave names behind, but never new bytes.
LEMMA DiscardStep == ASSUME IInv, NEW f \in Files, up[f] \in Working, Discard(f) PROVE IInv'
<1>1. PICK d \in [Slots -> Content] :
        /\ disk' = [disk EXCEPT ![f] = d]
        /\ d["final"] \in {"none", disk[f]["final"]}
  <2>1. CASE disk' = [disk EXCEPT ![f] = Empty]
    <3>1. Empty \in [Slots -> Content] /\ Empty["final"] = "none"
      OBVIOUS
    <3> HIDE DEF Empty
    <3>2. QED
      BY <2>1, <3>1
  <2>2. CASE \E kept \in SUBSET Slots :
               disk' = [disk EXCEPT ![f] = [s \in Slots |-> IF s \in kept THEN @[s] ELSE "none"]]
    <3>1. PICK kept \in SUBSET Slots :
            disk' = [disk EXCEPT ![f] = [s \in Slots |-> IF s \in kept THEN disk[f][s] ELSE "none"]]
      BY <2>2
    <3> DEFINE d == [s \in Slots |-> IF s \in kept THEN disk[f][s] ELSE "none"]
    <3>2. disk[f] \in [Slots -> Content]
      OBVIOUS
    <3>3. d \in [Slots -> Content]
      BY <3>2
    <3>4. d["final"] \in {"none", disk[f]["final"]}
      OBVIOUS
    <3> HIDE DEF d
    <3>5. QED
      BY <3>1, <3>3, <3>4 DEF d
  <2>3. QED
    BY <2>1, <2>2 DEF Discard
<1>2. faults' \in [FaultKinds -> Nat]
  BY BoundsAssumption DEF Discard, Fault
<1>3. /\ up' = [up EXCEPT ![f] = "failed"]
      /\ UNCHANGED <<size, stored, packed, temp, archive, due, moveVars, reader>>
  BY DEF Discard
<1>4. TypeOK'
  BY <1>1, <1>2, <1>3
<1>5. RowsInv' /\ MoversInv'
  BY <1>3
<1>6. BytesInv'
  BY <1>1, <1>3
<1>7. ReadersInv'
  BY <1>3
<1>8. QED
  BY <1>4, <1>5, <1>6, <1>7

LEMMA StartUploadStep == ASSUME IInv, NEW f \in Files, StartUpload(f) PROVE IInv'
BY FilesAssumption, MoversAssumption, BoundsAssumption DEF StartUpload

LEMMA ReceiveStep == ASSUME IInv, NEW f \in Files, Receive(f) PROVE IInv'
BY FilesAssumption, MoversAssumption, BoundsAssumption DEF Receive

LEMMA UploadFailsStep == ASSUME IInv, NEW f \in Files, UploadFails(f) PROVE IInv'
BY DiscardStep DEF UploadFails

LEMMA CheckGlobalQuotaStep == ASSUME IInv, NEW f \in Files, CheckGlobalQuota(f) PROVE IInv'
<1>1. CASE Discard(f)
  BY <1>1, DiscardStep DEF CheckGlobalQuota
<1>2. CASE /\ GoTo(f, "globalOk")
           /\ UNCHANGED <<size, stored, packed, disk, temp, archive, due, moveVars, reader, faults>>
  BY <1>2 DEF CheckGlobalQuota
<1>3. QED
  BY <1>1, <1>2 DEF CheckGlobalQuota

LEMMA CheckUserQuotaStep == ASSUME IInv, NEW f \in Files, CheckUserQuota(f) PROVE IInv'
<1>1. CASE Discard(f)
  BY <1>1, DiscardStep DEF CheckUserQuota
<1>2. CASE /\ GoTo(f, "userOk")
           /\ UNCHANGED <<size, stored, packed, disk, temp, archive, due, moveVars, reader, faults>>
  BY <1>2 DEF CheckUserQuota
<1>3. QED
  BY <1>1, <1>2 DEF CheckUserQuota

LEMMA StartCompressStep == ASSUME IInv, NEW f \in Files, StartCompress(f) PROVE IInv'
BY FilesAssumption, MoversAssumption, BoundsAssumption DEF StartCompress

LEMMA KeepCompressedStep == ASSUME IInv, NEW f \in Files, KeepCompressed(f) PROVE IInv'
<1>1. stored' \in [Files -> 0..MaxFile]
  <2>1. PICK n \in 1..(size[f] - 1) : stored' = [stored EXCEPT ![f] = n]
    BY DEF KeepCompressed
  <2>2. n \in 0..MaxFile
    BY BoundsAssumption
  <2>3. QED
    BY <2>1, <2>2
<1>2. disk' = [disk EXCEPT ![f] = [Empty EXCEPT !["final"] = "zst"]]
  BY DEF KeepCompressed
<1>3. [Empty EXCEPT !["final"] = "zst"] \in [Slots -> Content]
  OBVIOUS
<1>4. TypeOK'
  BY <1>1, <1>2, <1>3 DEF KeepCompressed
<1>5. RowsInv' /\ MoversInv' /\ ReadersInv'
  BY DEF KeepCompressed
<1>6. BytesInv'
  <2>1. disk' \in [Files -> [Slots -> Content]] /\ disk'[f]["final"] = "zst" /\ packed'[f] /\ up'[f] = "placed"
    BY <1>2 DEF KeepCompressed
  <2>2. \A g \in Files \ {f} : disk'[g] = disk[g] /\ packed'[g] = packed[g] /\ up'[g] = up[g]
    BY <1>2 DEF KeepCompressed
  <2>3. QED
    BY <2>1, <2>2
<1>7. QED
  BY <1>4, <1>5, <1>6

LEMMA KeepRawStep == ASSUME IInv, NEW f \in Files, KeepRaw(f) PROVE IInv'
BY FilesAssumption, MoversAssumption, BoundsAssumption DEF KeepRaw

LEMMA CommitUploadStep == ASSUME IInv, NEW f \in Files, CommitUpload(f) PROVE IInv'
BY FilesAssumption, MoversAssumption, BoundsAssumption DEF CommitUpload

LEMMA FinishUploadStep == ASSUME IInv, NEW f \in Files, FinishUpload(f) PROVE IInv'
BY FilesAssumption, MoversAssumption, BoundsAssumption DEF FinishUpload

LEMMA FailAfterCommitStep == ASSUME IInv, NEW f \in Files, FailAfterCommit(f) PROVE IInv'
BY FilesAssumption, MoversAssumption, BoundsAssumption DEF FailAfterCommit, Fault

LEMMA BecomeDueStep == ASSUME IInv, NEW f \in Files, BecomeDue(f) PROVE IInv'
BY FilesAssumption, MoversAssumption, BoundsAssumption DEF BecomeDue

LEMMA LoadForDeleteStep == ASSUME IInv, NEW m \in Requests, NEW u \in Users, NEW f \in Files, LoadForDelete(m, u, f) PROVE IInv'
BY FilesAssumption, MoversAssumption, BoundsAssumption DEF LoadForDelete, Movers

LEMMA StartSweepStep == ASSUME IInv, StartSweep PROVE IInv'
BY FilesAssumption, MoversAssumption, BoundsAssumption DEF StartSweep

LEMMA TakeDueStep == ASSUME IInv, NEW f \in Files, TakeDue(f) PROVE IInv'
BY FilesAssumption, MoversAssumption, BoundsAssumption DEF TakeDue, Movers

LEMMA UnlinkStep == ASSUME IInv, NEW m \in Movers, Unlink(m) PROVE IInv'
<1>1. target[m] \in Files
  BY DEF Unlink
<1>2. /\ disk' \in [Files -> [Slots -> Content]]
      /\ \A f \in Files : disk'[f]["final"] \in {"none", disk[f]["final"]}
      /\ \A f \in Files : disk'[f]["raw"] = disk[f]["raw"]
  <2>1. CASE disk' = [disk EXCEPT ![target[m]]["final"] = "none"]
    <3>1. [disk[target[m]] EXCEPT !["final"] = "none"] \in [Slots -> Content]
      BY <1>1
    <3>2. disk' = [disk EXCEPT ![target[m]] = [disk[target[m]] EXCEPT !["final"] = "none"]]
      BY <2>1
    <3>3. QED
      BY <1>1, <3>1, <3>2
  <2>2. CASE UNCHANGED disk
    BY <2>2
  <2>3. QED
    BY <2>1, <2>2 DEF Unlink
<1>3. faults' \in [FaultKinds -> Nat]
  BY BoundsAssumption DEF Unlink, Fault
<1>4. TypeOK'
  BY <1>2, <1>3 DEF Unlink
<1>5. RowsInv' /\ MoversInv' /\ ReadersInv'
  BY DEF Unlink
<1>6. BytesInv'
  BY <1>2 DEF Unlink
<1>7. QED
  BY <1>4, <1>5, <1>6

LEMMA CommitMoveStep == ASSUME IInv, NEW m \in Movers, CommitMove(m) PROVE IInv'
BY FilesAssumption, MoversAssumption, BoundsAssumption DEF CommitMove, Release, AbortMove, Fault

LEMMA MoveConflictsStep == ASSUME IInv, NEW m \in Movers, MoveConflicts(m) PROVE IInv'
BY FilesAssumption, MoversAssumption, BoundsAssumption DEF MoveConflicts, Release, AbortMove, Fault

LEMMA MoveFailsStep == ASSUME IInv, NEW m \in Movers, MoveFails(m) PROVE IInv'
BY FilesAssumption, MoversAssumption, BoundsAssumption DEF MoveFails, Release, AbortMove, Fault

LEMMA AdmitDownloadStep ==
  ASSUME IInv, NEW r \in Readers, NEW f \in Files, NEW u, NEW pw, AdmitDownload(r, f, u, pw)
  PROVE  IInv'
BY FilesAssumption DEF AdmitDownload

LEMMA OpenFileStep == ASSUME IInv, NEW r \in Readers, OpenFile(r) PROVE IInv'
BY FilesAssumption, MoversAssumption, BoundsAssumption DEF OpenFile, IdleReader

LEMMA EndDownloadStep == ASSUME IInv, NEW r \in Readers, EndDownload(r) PROVE IInv'
BY FilesAssumption, MoversAssumption, BoundsAssumption DEF EndDownload, IdleReader

LEMMA CrashStep == ASSUME IInv, Crash PROVE IInv'
BY FilesAssumption, MoversAssumption, BoundsAssumption DEF Crash, Fault, InFlight, IdleReader

-----------------------------------------------------------------------------

LEMMA NextIInv == IInv /\ [Next]_vars => IInv'
<1> SUFFICES ASSUME IInv, [Next]_vars PROVE IInv'
  OBVIOUS
<1>1. ASSUME NEW f \in Files, Upload(f) PROVE IInv'
  BY <1>1, StartUploadStep, ReceiveStep, UploadFailsStep, CheckGlobalQuotaStep, CheckUserQuotaStep,
     StartCompressStep, KeepCompressedStep, KeepRawStep, CommitUploadStep, FinishUploadStep,
     FailAfterCommitStep DEF Upload
<1>2. ASSUME NEW f \in Files, BecomeDue(f) PROVE IInv'
  BY <1>2, BecomeDueStep
<1>3. ASSUME NEW m \in Requests, Delete(m) PROVE IInv'
  BY <1>3, LoadForDeleteStep DEF Delete
<1>4. CASE Sweep
  BY <1>4, StartSweepStep, TakeDueStep DEF Sweep
<1>5. ASSUME NEW m \in Movers, Move(m) PROVE IInv'
  BY <1>5, UnlinkStep, CommitMoveStep, MoveConflictsStep, MoveFailsStep DEF Move
<1>6. ASSUME NEW r \in Readers, Download(r) PROVE IInv'
  BY <1>6, AdmitDownloadStep, OpenFileStep, EndDownloadStep DEF Download
<1>7. CASE Crash
  BY <1>7, CrashStep
<1>8. CASE UNCHANGED vars
  BY <1>8 DEF vars
<1>9. QED
  BY <1>1, <1>2, <1>3, <1>4, <1>5, <1>6, <1>7, <1>8 DEF Next

\* Every reachable state satisfies the inductive invariant, and so its type.
THEOREM Invariance == Spec => []IInv
<1>1. QED
  BY InitIInv, NextIInv, PTL DEF Spec

THEOREM TypeCorrect == Spec => []TypeOK
<1>1. IInv => TypeOK
  OBVIOUS
<1>2. QED
  BY <1>1, Invariance, PTL

\* Whatever fails on the way, a row's file holds the bytes the row describes.
THEOREM RowsDescribeBytes == Spec => []RowDescribesBytes
<1>1. IInv => RowDescribesBytes
  BY DEF RowDescribesBytes
<1>2. QED
  BY <1>1, Invariance, PTL

\* A download opens nothing but bytes its chosen decoder reads.
THEOREM ReadersDecode == Spec => []ReaderDecodesWhatItOpens
<1>1. IInv => ReaderDecodesWhatItOpens
  BY DEF ReaderDecodesWhatItOpens
<1>2. QED
  BY <1>1, Invariance, PTL

-----------------------------------------------------------------------------

\* Only the two commits touch the tables.
LEMMA LedgerNext == IInv /\ [Next]_vars => [LedgerStep]_vars
<1> SUFFICES ASSUME IInv, Next PROVE LedgerStep
  BY DEF vars
<1> DEFINE Same == UNCHANGED <<temp, archive>>
<1>1. Same => LedgerStep
  BY DEF LedgerStep
<1>2. ASSUME NEW f \in Files, CommitUpload(f) PROVE LedgerStep
  BY <1>2 DEF CommitUpload, LedgerStep
<1>3. ASSUME NEW m \in Movers, CommitMove(m) PROVE LedgerStep
  BY <1>3 DEF CommitMove, LedgerStep
<1>4. ASSUME NEW f \in Files, Upload(f), ~ CommitUpload(f) PROVE Same
  BY <1>4 DEF Upload, StartUpload, Receive, UploadFails, CheckGlobalQuota, CheckUserQuota, Discard,
              StartCompress, KeepCompressed, KeepRaw, FinishUpload, FailAfterCommit
<1>5. ASSUME NEW f \in Files, BecomeDue(f) PROVE Same
  BY <1>5 DEF BecomeDue
<1>6. ASSUME NEW m \in Movers, Move(m), ~ CommitMove(m) PROVE Same
  BY <1>6 DEF Move, Unlink, MoveConflicts, MoveFails, AbortMove
<1>7. (\E m \in Requests : Delete(m)) \/ Sweep => Same
  BY DEF Delete, LoadForDelete, Sweep, StartSweep, TakeDue
<1>8. (\E r \in Readers : Download(r)) \/ Crash => Same
  BY DEF Download, AdmitDownload, OpenFile, EndDownload, Crash
<1>9. QED
  BY <1>1, <1>2, <1>3, <1>4, <1>5, <1>6, <1>7, <1>8 DEF Next

\* No interleaving of uploads, deletions, sweeps and crashes loses a row,
\* keeps it active once archived, or brings it back.
THEOREM LedgerIsExact == Spec => LedgerExact
<1>1. QED
  BY Invariance, LedgerNext, PTL DEF Spec, LedgerExact

-----------------------------------------------------------------------------

\* No unlink has failed yet.
Unlinks == ~ Happened("unlink")

\* What happened has happened.
LEMMA HappenedStays ==
  ASSUME IInv, [Next]_vars, NEW kind, Happened(kind) PROVE Happened(kind)'
<1>1. SUFFICES (UNCHANGED faults) \/ \E k \in FaultKinds : Fault(k)
  <2>1. ASSUME NEW k \in FaultKinds, Fault(k) PROVE Happened(kind)'
    <3>1. \A j \in FaultKinds : faults[j] > 0 => faults'[j] > 0
      BY <2>1 DEF Fault
    <3>2. QED
      BY <3>1 DEF Happened
  <2>2. (UNCHANGED faults) => Happened(kind)'
    BY DEF Happened
  <2>3. QED
    BY <2>1, <2>2
<1>2. ASSUME NEW k, Fault(k) PROVE k \in FaultKinds
  BY <1>2 DEF Fault
<1>3. ASSUME NEW f \in Files, Upload(f) PROVE (UNCHANGED faults) \/ \E k \in FaultKinds : Fault(k)
  BY <1>2, <1>3 DEF Upload, StartUpload, Receive, Discard, UploadFails, CheckGlobalQuota,
     CheckUserQuota, StartCompress, KeepCompressed, KeepRaw, CommitUpload, FinishUpload,
     FailAfterCommit
<1>4. ASSUME NEW m \in Movers, Move(m) PROVE (UNCHANGED faults) \/ \E k \in FaultKinds : Fault(k)
  BY <1>2, <1>4 DEF Move, Unlink, CommitMove, MoveConflicts, MoveFails
<1>5. CASE Sweep \/ (\E m \in Requests : Delete(m)) \/ (\E f \in Files : BecomeDue(f))
  BY <1>5 DEF Sweep, StartSweep, TakeDue, Delete, LoadForDelete, BecomeDue
<1>6. CASE \E r \in Readers : Download(r)
  BY <1>6 DEF Download, AdmitDownload, OpenFile, EndDownload
<1>7. CASE Crash
  BY <1>2, <1>7 DEF Crash
<1>8. CASE UNCHANGED vars
  BY <1>8 DEF vars
<1>9. QED
  BY <1>3, <1>4, <1>5, <1>6, <1>7, <1>8 DEF Next

\* A file that has been unlinked stays so until its row is archived, and after.
GoneInv ==
  /\ \A m \in Movers : phase[m] = "unlinked" => disk[target[m]]["final"] = "none"
  /\ \A f \in archive : disk[f]["final"] = "none"

LEMMA GoneNext ==
  IInv /\ GoneInv /\ [Next]_vars /\ Unlinks' => GoneInv'
<1> SUFFICES ASSUME IInv, GoneInv, [Next]_vars, Unlinks' PROVE GoneInv'
  OBVIOUS
<1> USE DEF GoneInv
<1>1. ASSUME NEW f \in Files, up[f] \in Unplaced \cup {"placed", "committed"},
             \A g \in Files \ {f} : disk'[g] = disk[g],
             up[f] \in Unplaced \cup {"placed"} \/ disk' = [disk EXCEPT ![f] = Empty],
             UNCHANGED <<archive, phase, target>>
      PROVE  GoneInv'
  <2>1. f \in temp \cup archive => disk' = [disk EXCEPT ![f] = Empty]
    BY <1>1
  <2>2. f \in temp \cup archive => disk'[f]["final"] = "none"
    BY <2>1
  <2>3. \A g \in temp \cup archive : disk[g]["final"] = "none" => disk'[g]["final"] = "none"
    BY <1>1, <2>2
  <2>4. QED
    BY <1>1, <2>3
<1>2. ASSUME NEW f \in Files, Upload(f) PROVE GoneInv'
  <2>1. CASE StartUpload(f)
    BY <2>1, <1>1 DEF StartUpload
  <2>2. CASE Receive(f)
    BY <2>2, <1>1 DEF Receive
  <2>3. CASE up[f] \in Working /\ Discard(f)
    <3>1. \A g \in Files \ {f} : disk'[g] = disk[g]
      BY <2>3 DEF Discard
    <3>2. QED
      BY <2>3, <3>1, <1>1 DEF Discard
  <2>4. CASE StartCompress(f)
    BY <2>4, <1>1 DEF StartCompress
  <2>5. CASE KeepCompressed(f)
    BY <2>5, <1>1 DEF KeepCompressed
  <2>6. CASE KeepRaw(f)
    BY <2>6, <1>1 DEF KeepRaw
  <2>7. CASE FailAfterCommit(f)
    BY <2>7, <1>1 DEF FailAfterCommit
  <2>8. CASE UNCHANGED <<disk, archive, phase, target>>
    BY <2>8
  <2>9. QED
    BY <1>2, <2>1, <2>2, <2>3, <2>4, <2>5, <2>6, <2>7, <2>8
       DEF Upload, UploadFails, CheckGlobalQuota, CheckUserQuota, CommitUpload, FinishUpload
<1>3. ASSUME NEW m \in Requests, Delete(m) PROVE GoneInv'
  BY <1>3 DEF Delete, LoadForDelete, Movers
<1>4. CASE Sweep
  BY <1>4 DEF Sweep, StartSweep, TakeDue, Movers
<1>5. ASSUME NEW m \in Movers, Unlink(m) PROVE GoneInv'
  <2>1. disk' = [disk EXCEPT ![target[m]]["final"] = "none"]
    BY <1>5 DEF Unlink, Fault, Unlinks, Happened
  <2>2. target[m] \in Files
    BY <1>5 DEF Unlink
  <2>3. /\ disk'[target[m]]["final"] = "none"
        /\ \A g \in Files \ {target[m]} : disk'[g] = disk[g]
    BY <2>1, <2>2
  <2>4. QED
    BY <1>5, <2>3 DEF Unlink
<1>6. ASSUME NEW m \in Movers, Move(m), ~ Unlink(m) PROVE GoneInv'
  <2>1. /\ UNCHANGED disk
        /\ phase' = [phase EXCEPT ![m] = "idle"]
        /\ target' = [target EXCEPT ![m] = NoFile]
        /\ archive' \subseteq archive \cup {g \in {target[m]} : phase[m] = "unlinked"}
    BY <1>6 DEF Move, CommitMove, MoveConflicts, MoveFails, AbortMove, Release
  <2>2. QED
    BY <2>1
<1>7. CASE (\E f \in Files : BecomeDue(f)) \/ (\E r \in Readers : Download(r))
  <2>1. UNCHANGED <<disk, archive, phase, target>>
    BY <1>7 DEF BecomeDue, Download, AdmitDownload, OpenFile, EndDownload
  <2>2. QED
    BY <2>1
<1>8. CASE Crash
  <2>1. UNCHANGED <<disk, archive>> /\ \A m \in Movers : phase'[m] = "idle"
    BY <1>8 DEF Crash
  <2>2. QED
    BY <2>1
<1>9. CASE UNCHANGED vars
  BY <1>9 DEF vars
<1>10. QED
  BY <1>2, <1>3, <1>4, <1>5, <1>6, <1>7, <1>8, <1>9 DEF Next

\* As long as no unlink has failed, an archived file has left the disk, crashes
\* and failed commits included: "disk first" keeps its promise.
THEOREM ArchivedFilesAreGone == Spec => []ArchivedIsGone
<1>1. Init => GoneInv
  BY DEF Init, GoneInv
<1>2. IInv /\ (Unlinks => GoneInv) /\ [Next]_vars => (Unlinks => GoneInv)'
  BY GoneNext, HappenedStays DEF Unlinks
<1>3. (Unlinks => GoneInv) => ArchivedIsGone
  BY DEF GoneInv, ArchivedIsGone, Unlinks
<1>4. QED
  BY <1>1, <1>2, <1>3, Invariance, PTL DEF Spec

-----------------------------------------------------------------------------

\* The names beside the final one are free before and after an upload, and the
\* final one belongs to a row or to an upload that still runs.
Tidy ==
  \A f \in Files :
    /\ up[f] \in {"none", "placed"} \cup Settled =>
         disk[f]["raw"] = "none" /\ disk[f]["zst"] = "none"
    /\ f \in temp \/ up[f] \in Working \/ disk[f]["final"] = "none"

\* An upload is about one file.
LEMMA UploadOfOne ==
  ASSUME IInv, NEW f \in Files, Upload(f)
  PROVE  /\ \A g \in Files \ {f} : disk'[g] = disk[g] /\ up'[g] = up[g]
         /\ temp' = temp \/ (up[f] = "placed" /\ temp' = temp \cup {f})
         /\ UNCHANGED <<archive, phase, target>>
<1>1. \A g \in Files \ {f} : disk'[g] = disk[g] /\ up'[g] = up[g]
  <2>1. ASSUME Discard(f) PROVE \A g \in Files \ {f} : disk'[g] = disk[g] /\ up'[g] = up[g]
    BY <2>1 DEF Discard
  <2>2. QED
    BY <2>1 DEF Upload, StartUpload, Receive, UploadFails, CheckGlobalQuota, CheckUserQuota,
       StartCompress, KeepCompressed, KeepRaw, CommitUpload, FinishUpload, FailAfterCommit
<1>2. /\ temp' = temp \/ (up[f] = "placed" /\ temp' = temp \cup {f})
      /\ UNCHANGED <<archive, phase, target>>
  BY DEF Upload, StartUpload, Receive, UploadFails, Discard, CheckGlobalQuota, CheckUserQuota,
     StartCompress, KeepCompressed, KeepRaw, CommitUpload, FinishUpload, FailAfterCommit
<1>3. QED
  BY <1>1, <1>2

LEMMA TidyUpload ==
  ASSUME IInv, Tidy, NEW f \in Files, Upload(f), Unlinks' PROVE Tidy'
<1> USE DEF Tidy
<1>1. /\ \A g \in Files \ {f} : disk'[g] = disk[g] /\ up'[g] = up[g]
      /\ temp \subseteq temp'
  BY UploadOfOne
<1>2. SUFFICES
        /\ up'[f] \in {"none", "placed"} \cup Settled =>
             disk'[f]["raw"] = "none" /\ disk'[f]["zst"] = "none"
        /\ f \in temp' \/ up'[f] \in Working \/ disk'[f]["final"] = "none"
  BY <1>1
<1>3. CASE up[f] \in Working /\ Discard(f)
  <2>1. disk' = [disk EXCEPT ![f] = Empty]
    BY <1>3 DEF Discard, Fault, Unlinks, Happened
  <2>2. \A s \in Slots : disk'[f][s] = "none"
    BY <2>1
  <2>3. QED
    BY <2>2
<1>4. CASE FailAfterCommit(f)
  <2>1. \A s \in Slots : disk'[f][s] = "none"
    BY <1>4 DEF FailAfterCommit
  <2>2. QED
    BY <2>1
<1>5. CASE StartUpload(f) \/ Receive(f) \/ StartCompress(f)
  BY <1>5 DEF StartUpload, Receive, StartCompress
<1>6. CASE KeepCompressed(f) \/ KeepRaw(f)
  <2>1. up'[f] = "placed"
    BY <1>6 DEF KeepCompressed, KeepRaw
  <2>2. disk'[f]["raw"] = "none" /\ disk'[f]["zst"] = "none"
    BY <1>6 DEF KeepCompressed, KeepRaw
  <2>3. QED
    BY <2>1, <2>2
<1>7. CASE CommitUpload(f) \/ FinishUpload(f)
  BY <1>7 DEF CommitUpload, FinishUpload
<1>8. CASE /\ up[f] \in Working /\ up'[f] \in Working \ {"placed"}
           /\ UNCHANGED disk
  BY <1>8
<1>9. QED
  BY <1>3, <1>4, <1>5, <1>6, <1>7, <1>8 DEF Upload, UploadFails, CheckGlobalQuota, CheckUserQuota

LEMMA TidyNext ==
  ASSUME IInv, GoneInv, Tidy, [Next]_vars, Unlinks', ~ Happened("crash")' PROVE Tidy'
<1> USE DEF Tidy
<1>1. ASSUME NEW f \in Files, Upload(f) PROVE Tidy'
  BY <1>1, TidyUpload
<1>2. CASE UNCHANGED <<disk, up, temp>>
  BY <1>2
<1>3. ASSUME NEW m \in Movers, Unlink(m) PROVE Tidy'
  <2>1. disk' = [disk EXCEPT ![target[m]]["final"] = "none"]
    BY <1>3 DEF Unlink, Fault, Unlinks, Happened
  <2>2. \A g \in Files :
          /\ disk'[g]["raw"] = disk[g]["raw"] /\ disk'[g]["zst"] = disk[g]["zst"]
          /\ disk'[g]["final"] \in {"none", disk[g]["final"]}
    BY <2>1
  <2>3. QED
    BY <1>3, <2>2 DEF Unlink
<1>4. ASSUME NEW m \in Movers, CommitMove(m) PROVE Tidy'
  <2>1. disk[target[m]]["final"] = "none" /\ UNCHANGED <<disk, up>> /\ temp' = temp \ {target[m]}
    BY <1>4 DEF CommitMove, GoneInv
  <2>2. QED
    BY <2>1
<1>5. ASSUME NEW m \in Movers, MoveConflicts(m) \/ MoveFails(m) PROVE UNCHANGED <<disk, up, temp>>
  BY <1>5 DEF MoveConflicts, MoveFails, AbortMove
<1>6. (\E m \in Requests : Delete(m)) \/ Sweep \/ (\E f \in Files : BecomeDue(f)) =>
        UNCHANGED <<disk, up, temp>>
  BY DEF Delete, LoadForDelete, Sweep, StartSweep, TakeDue, BecomeDue
<1>7. (\E r \in Readers : Download(r)) \/ UNCHANGED vars => UNCHANGED <<disk, up, temp>>
  BY DEF Download, AdmitDownload, OpenFile, EndDownload, vars
<1>8. ~ Crash
  BY DEF Crash, Fault, Happened
<1>9. QED
  BY <1>1, <1>2, <1>3, <1>4, <1>5, <1>6, <1>7, <1>8 DEF Next, Move

\* However many uploads, deletions, sweeps and failing transactions interleave,
\* bytes are left without an owner only by a crash or a failing unlink.
THEOREM NothingLeaks == Spec => []NoBytesLeaked
<1> DEFINE Unhurt == Unlinks /\ ~ Happened("crash")
<1>1. Init => GoneInv /\ Tidy
  BY DEF Init, GoneInv, Tidy
<1>2. IInv /\ (Unlinks => GoneInv) /\ [Next]_vars => (Unlinks => GoneInv)'
  BY GoneNext, HappenedStays DEF Unlinks
<1>3. IInv /\ (Unlinks => GoneInv) /\ (Unhurt => Tidy) /\ [Next]_vars => (Unhurt => Tidy)'
  BY TidyNext, HappenedStays DEF Unlinks
<1>4. IInv /\ (Unhurt => Tidy) => NoBytesLeaked
  <2> SUFFICES ASSUME IInv, Tidy, NEW f \in Files, f \notin temp, up[f] \notin Working
               PROVE  disk[f] = Empty
    BY DEF NoBytesLeaked, Unlinks
  <2>1. disk[f]["final"] = "none"
    BY DEF Tidy
  <2>2. up[f] \in {"none", "placed"} \cup Settled
    OBVIOUS
  <2>3. disk[f]["raw"] = "none" /\ disk[f]["zst"] = "none"
    BY <2>2 DEF Tidy
  <2>4. QED
    BY <2>1, <2>3
<1> HIDE DEF Unhurt
<1>5. QED
  BY <1>1, <1>2, <1>3, <1>4, Invariance, PTL DEF Spec

-----------------------------------------------------------------------------

\* Nothing has failed that leaves a row without its file.
Whole == ~ Happened("crash") /\ ~ Happened("db") /\ ~ Happened("log")

\* What is about to be recorded is there, and so is what was, until it is moved.
Present ==
  /\ \A f \in Files : up[f] = "placed" => disk[f]["final"] # "none"
  /\ RowHasFile

LEMMA PresentUpload ==
  ASSUME IInv, Present, NEW f \in Files, Upload(f), Whole' PROVE Present'
<1>1. /\ \A g \in Files \ {f} : disk'[g] = disk[g] /\ up'[g] = up[g]
      /\ temp' = temp \/ (up[f] = "placed" /\ temp' = temp \cup {f})
      /\ UNCHANGED <<phase, target>>
  BY UploadOfOne
<1>2. SUFFICES
        /\ up'[f] = "placed" => disk'[f]["final"] # "none"
        /\ f \in temp' =>
             disk'[f]["final"] # "none" \/ (f \in temp /\ disk'[f]["final"] = disk[f]["final"])
  BY <1>1 DEF Present, RowHasFile
<1>3. ~ FailAfterCommit(f)
  BY DEF FailAfterCommit, Fault, Whole, Happened
<1>4. CASE CommitUpload(f) \/ FinishUpload(f)
  BY <1>4 DEF CommitUpload, FinishUpload, Present
<1>5. CASE ~ CommitUpload(f) /\ ~ FinishUpload(f)
  <2>1. f \notin temp /\ temp' = temp
    BY <1>3, <1>5 DEF Upload, StartUpload, Receive, UploadFails, Discard, CheckGlobalQuota,
       CheckUserQuota, StartCompress, KeepCompressed, KeepRaw
  <2>2. CASE KeepCompressed(f) \/ KeepRaw(f)
    <3>1. disk'[f]["final"] # "none"
      BY <2>2 DEF KeepCompressed, KeepRaw
    <3>2. QED
      BY <2>1, <3>1
  <2>3. CASE ~ KeepCompressed(f) /\ ~ KeepRaw(f)
    <3>1. up'[f] # "placed"
      BY <1>3, <1>5, <2>3 DEF Upload, StartUpload, Receive, UploadFails, Discard,
         CheckGlobalQuota, CheckUserQuota, StartCompress
    <3>2. QED
      BY <2>1, <3>1
  <2>4. QED
    BY <2>2, <2>3
<1>6. QED
  BY <1>4, <1>5

LEMMA PresentNext ==
  ASSUME IInv, Present, [Next]_vars, Whole' PROVE Present'
<1> USE DEF Present, RowHasFile
<1>1. ASSUME NEW f \in Files, Upload(f) PROVE Present'
  BY <1>1, PresentUpload
<1>2. CASE UNCHANGED <<disk, up, temp, phase, target>>
  BY <1>2
<1>3. ASSUME NEW m \in Movers, phase[m] = "idle", UNCHANGED <<disk, up, temp>>,
             \A w \in Movers \ {m} : phase'[w] = phase[w] /\ target'[w] = target[w]
      PROVE  Present'
  BY <1>3
<1>4. ASSUME NEW m \in Requests, Delete(m) PROVE Present'
  BY <1>3, <1>4 DEF Delete, LoadForDelete, Movers
<1>5. CASE Sweep
  BY <1>2, <1>3, <1>5 DEF Sweep, StartSweep, TakeDue, Movers
<1>6. ASSUME NEW m \in Movers, Unlink(m) PROVE Present'
  <2>1. target[m] \in temp \cup archive /\ up[target[m]] # "placed"
    BY <1>6 DEF Unlink
  <2>2. \A g \in Files \ {target[m]} : disk'[g] = disk[g]
    BY <1>6 DEF Unlink
  <2>3. /\ phase'[m] = "unlinked" /\ \A w \in Movers \ {m} : phase'[w] = phase[w]
        /\ UNCHANGED <<up, temp, target>>
    BY <1>6 DEF Unlink
  <2>4. ASSUME NEW g \in Files, up'[g] = "placed" PROVE disk'[g]["final"] # "none"
    BY <2>1, <2>2, <2>3, <2>4
  <2>5. ASSUME NEW g \in temp, disk'[g]["final"] = "none"
        PROVE  \E w \in Movers : target'[w] = g /\ phase'[w] = "unlinked"
    <3>1. CASE g = target[m]
      BY <2>3, <3>1
    <3>2. CASE g # target[m]
      <4>1. PICK w \in Movers : target[w] = g /\ phase[w] = "unlinked"
        BY <2>2, <2>5, <3>2
      <4>2. QED
        BY <2>3, <3>2, <4>1
    <3>3. QED
      BY <3>1, <3>2
  <2>6. QED
    BY <2>3, <2>4, <2>5
<1>7. ASSUME NEW m \in Movers, CommitMove(m) \/ MoveConflicts(m) PROVE Present'
  <2>1. /\ UNCHANGED <<disk, up>> /\ temp' \subseteq temp /\ target[m] \notin temp'
        /\ \A w \in Movers \ {m} : phase'[w] = phase[w] /\ target'[w] = target[w]
    BY <1>7 DEF CommitMove, MoveConflicts, AbortMove, Release
  <2>2. QED
    BY <2>1
<1>8. ASSUME NEW m \in Movers PROVE ~ MoveFails(m)
  BY DEF MoveFails, Fault, Whole, Happened
<1>9. (\E r \in Readers : Download(r)) \/ (\E f \in Files : BecomeDue(f)) \/ UNCHANGED vars =>
        UNCHANGED <<disk, up, temp, phase, target>>
  BY DEF Download, AdmitDownload, OpenFile, EndDownload, BecomeDue, vars
<1>10. ~ Crash
  BY DEF Crash, Fault, Whole, Happened
<1>11. QED
  BY <1>1, <1>2, <1>4, <1>5, <1>6, <1>7, <1>8, <1>9, <1>10 DEF Next, Move

\* A failing unlink, a race of deletion and sweep, or an upload that fails before
\* its commit never leaves an active row without its file.
THEOREM RowsKeepTheirFiles == Spec => []RowLosesFileByFault
<1>1. Init => Present
  BY DEF Init, Present, RowHasFile
<1>2. IInv /\ (Whole => Present) /\ [Next]_vars => (Whole => Present)'
  BY PresentNext, HappenedStays DEF Whole
<1>3. (Whole => Present) => RowLosesFileByFault
  BY DEF Whole, Present, RowLosesFileByFault
<1>4. QED
  BY <1>1, <1>2, <1>3, Invariance, PTL DEF Spec

-----------------------------------------------------------------------------
(* Sums over finite sets *)

\* The element a fold takes out of a set first.
Chosen(s) == CHOOSE x \in s : TRUE

\* g sums f over each subset of S.
IsSum(g, f, S) ==
  g = [s \in SUBSET S |-> IF s = {} THEN 0 ELSE f[Chosen(s)] + g[s \ {Chosen(s)}]]

LEMMA SumIsIterated ==
  ASSUME NEW f, NEW S PROVE SumFunctionOnSet(f, S) = (CHOOSE g : IsSum(g, f, S))[S]
BY DEF SumFunctionOnSet, FoldFunctionOnSet, MapThenFoldSet, IsSum, Chosen

LEMMA ChosenIn == ASSUME NEW s, s # {} PROVE Chosen(s) \in s
BY DEF Chosen

\* Among finite sets one contains no other.
LEMMA LeastSubset ==
  ASSUME NEW S, IsFiniteSet(S), NEW B \in SUBSET SUBSET S, B # {}
  PROVE  \E s \in B : \A t \in B : t \subseteq s => t = s
<1>1. IsWellFoundedOn(StrictSubsetOrdering(S), SUBSET S)
  BY FS_StrictSubsetOrderingWellFounded, FS_FiniteSubsetsOfFinite
<1>2. \E s \in B : \A t \in B : ~ (<<t, s>> \in StrictSubsetOrdering(S))
  BY <1>1, WFMin
<1>3. PICK s \in B : \A t \in B : ~ (<<t, s>> \in StrictSubsetOrdering(S))
  BY <1>2
<1>4. ASSUME NEW t \in B, t \subseteq s, t # s PROVE FALSE
  <2>1. <<t, s>> \in (SUBSET S) \X (SUBSET S)
    OBVIOUS
  <2>2. QED
    BY <2>1, <1>3, <1>4 DEF StrictSubsetOrdering
<1>5. QED
  BY <1>4

\* Sums over the subsets of S and of a set within it are the same.
LEMMA SumsAgree ==
  ASSUME NEW S, IsFiniteSet(S), NEW T \in SUBSET S, NEW f, NEW g, NEW h,
         IsSum(g, f, S), IsSum(h, f, T)
  PROVE  \A s \in SUBSET T : g[s] = h[s]
<1> DEFINE Bad == {s \in SUBSET T : g[s] # h[s]}
<1> SUFFICES ASSUME Bad # {} PROVE FALSE
  OBVIOUS
<1>1. PICK s \in Bad : \A t \in Bad : t \subseteq s => t = s
  <2>1. Bad \in SUBSET SUBSET S
    OBVIOUS
  <2> HIDE DEF Bad
  <2>2. QED
    BY <2>1, LeastSubset
<1>2. /\ g[s] = IF s = {} THEN 0 ELSE f[Chosen(s)] + g[s \ {Chosen(s)}]
      /\ h[s] = IF s = {} THEN 0 ELSE f[Chosen(s)] + h[s \ {Chosen(s)}]
  <2>1. s \in SUBSET S /\ s \in SUBSET T
    OBVIOUS
  <2>2. QED
    BY <2>1 DEF IsSum
<1>3. s # {}
  BY <1>2
<1>4. Chosen(s) \in s
  BY <1>3, ChosenIn
<1>5. s \ {Chosen(s)} \notin Bad
  BY <1>1, <1>4
<1>6. g[s \ {Chosen(s)}] = h[s \ {Chosen(s)}]
  BY <1>5
<1>7. QED
  BY <1>2, <1>3, <1>6

\* Every finite set has its sums.
LEMMA SumsExist ==
  ASSUME NEW S, IsFiniteSet(S), NEW f PROVE \A s \in SUBSET S : \E g : IsSum(g, f, s)
<1> DEFINE Bad == {s \in SUBSET S : ~ \E g : IsSum(g, f, s)}
<1> SUFFICES ASSUME Bad # {} PROVE FALSE
  OBVIOUS
<1>1. PICK s \in Bad : \A t \in Bad : t \subseteq s => t = s
  <2>1. Bad \in SUBSET SUBSET S
    OBVIOUS
  <2> HIDE DEF Bad
  <2>2. QED
    BY <2>1, LeastSubset
<1> DEFINE V(t) == (CHOOSE g : IsSum(g, f, t))[t]
<1> DEFINE h == [t \in SUBSET s |-> IF t = {} THEN 0 ELSE f[Chosen(t)] + V(t \ {Chosen(t)})]
<1>2. ASSUME NEW t \in SUBSET s, t # s PROVE IsSum(CHOOSE g : IsSum(g, f, t), f, t)
  <2>1. t \notin Bad /\ t \in SUBSET S
    BY <1>1, <1>2
  <2>2. \E g : IsSum(g, f, t)
    BY <2>1
  <2>3. QED
    BY <2>2
<1>3. ASSUME NEW t \in SUBSET s, t # s PROVE h[t] = V(t)
  <2> DEFINE g == CHOOSE g : IsSum(g, f, t)
  <2>1. IsSum(g, f, t)
    BY <1>2, <1>3
  <2>2. g[t] = IF t = {} THEN 0 ELSE f[Chosen(t)] + g[t \ {Chosen(t)}]
    BY <2>1 DEF IsSum
  <2>3. ASSUME t # {} PROVE g[t \ {Chosen(t)}] = V(t \ {Chosen(t)})
    <3> DEFINE r == t \ {Chosen(t)}
    <3> DEFINE k == CHOOSE k : IsSum(k, f, r)
    <3>1. r \in SUBSET s /\ r # s /\ r \in SUBSET t /\ t \in SUBSET S
      BY <1>3
    <3>2. IsSum(k, f, r)
      BY <3>1, <1>2
    <3>3. IsFiniteSet(t)
      BY <3>1, FS_Subset
    <3> HIDE DEF g, k, r
    <3>4. \A x \in SUBSET r : g[x] = k[x]
      BY <2>1, <3>1, <3>2, <3>3, SumsAgree
    <3>5. g[r] = k[r]
      BY <3>4
    <3>6. QED
      BY <3>5 DEF k, r
  <2>4. QED
    BY <2>2, <2>3
<1>4. ASSUME NEW t \in SUBSET s, t # {} PROVE h[t \ {Chosen(t)}] = V(t \ {Chosen(t)})
  <2>1. Chosen(t) \in t
    BY <1>4, ChosenIn
  <2>2. t \ {Chosen(t)} \in SUBSET s /\ t \ {Chosen(t)} # s
    BY <2>1
  <2> HIDE DEF h, V
  <2>3. QED
    BY <2>2, <1>3
<1>5. IsSum(h, f, s)
  <2>1. \A t \in SUBSET s :
          (IF t = {} THEN 0 ELSE f[Chosen(t)] + V(t \ {Chosen(t)}))
             = IF t = {} THEN 0 ELSE f[Chosen(t)] + h[t \ {Chosen(t)}]
    <3> HIDE DEF h, V
    <3>1. QED
      BY <1>4
  <2>2. h = [t \in SUBSET s |-> IF t = {} THEN 0 ELSE f[Chosen(t)] + V(t \ {Chosen(t)})]
    OBVIOUS
  <2> HIDE DEF h, V
  <2>3. h = [t \in SUBSET s |-> IF t = {} THEN 0 ELSE f[Chosen(t)] + h[t \ {Chosen(t)}]]
    BY <2>1, <2>2
  <2>4. QED
    BY <2>3 DEF IsSum
<1>6. QED
  BY <1>5

\* What the recursion of the sum says.
LEMMA SumUnfolds ==
  ASSUME NEW S, IsFiniteSet(S), NEW f
  PROVE  SumFunctionOnSet(f, S) =
           IF S = {} THEN 0 ELSE f[Chosen(S)] + SumFunctionOnSet(f, S \ {Chosen(S)})
<1> DEFINE r == S \ {Chosen(S)}
<1> DEFINE g == CHOOSE g : IsSum(g, f, S)
<1> DEFINE h == CHOOSE h : IsSum(h, f, r)
<1>1. (\E k : IsSum(k, f, S)) /\ (\E k : IsSum(k, f, r))
  BY SumsExist
<1>2. IsSum(g, f, S) /\ IsSum(h, f, r)
  BY <1>1
<1>3. g[S] = IF S = {} THEN 0 ELSE f[Chosen(S)] + g[r]
  BY <1>2 DEF IsSum
<1>4. g[r] = h[r]
  <2>1. r \in SUBSET S
    OBVIOUS
  <2> HIDE DEF g, h, r
  <2>2. QED
    BY <1>2, <2>1, SumsAgree
<1>5. SumFunctionOnSet(f, S) = g[S] /\ SumFunctionOnSet(f, r) = h[r]
  BY SumIsIterated
<1>6. QED
  BY <1>3, <1>4, <1>5

LEMMA SumOfNone == ASSUME NEW f PROVE SumFunctionOnSet(f, {}) = 0
BY SumUnfolds, FS_EmptySet

LEMMA SumIsNat ==
  ASSUME NEW S, IsFiniteSet(S), NEW f \in [S -> Nat]
  PROVE  \A s \in SUBSET S : SumFunctionOnSet(f, s) \in Nat
<1> DEFINE Bad == {s \in SUBSET S : SumFunctionOnSet(f, s) \notin Nat}
<1> SUFFICES ASSUME Bad # {} PROVE FALSE
  OBVIOUS
<1>1. PICK s \in Bad : \A t \in Bad : t \subseteq s => t = s
  <2>1. Bad \in SUBSET SUBSET S
    OBVIOUS
  <2> HIDE DEF Bad
  <2>2. QED
    BY <2>1, LeastSubset
<1>2. SumFunctionOnSet(f, s) =
        IF s = {} THEN 0 ELSE f[Chosen(s)] + SumFunctionOnSet(f, s \ {Chosen(s)})
  BY SumUnfolds, FS_Subset
<1>3. s # {}
  BY <1>2
<1>4. Chosen(s) \in s /\ Chosen(s) \in S
  BY <1>3, ChosenIn
<1>5. s \ {Chosen(s)} \notin Bad
  BY <1>1, <1>4
<1>6. SumFunctionOnSet(f, s \ {Chosen(s)}) \in Nat
  BY <1>5
<1>7. QED
  BY <1>2, <1>3, <1>4, <1>6

\* Any element may be taken out first.
LEMMA SumTakesOut ==
  ASSUME NEW S, IsFiniteSet(S), NEW f \in [S -> Nat]
  PROVE  \A s \in SUBSET S : \A x \in s :
           SumFunctionOnSet(f, s) = f[x] + SumFunctionOnSet(f, s \ {x})
<1> DEFINE Bad == {s \in SUBSET S : \E x \in s :
                     SumFunctionOnSet(f, s) # f[x] + SumFunctionOnSet(f, s \ {x})}
<1> SUFFICES ASSUME Bad # {} PROVE FALSE
  OBVIOUS
<1>1. PICK s \in Bad : \A t \in Bad : t \subseteq s => t = s
  <2>1. Bad \in SUBSET SUBSET S
    OBVIOUS
  <2> HIDE DEF Bad
  <2>2. QED
    BY <2>1, LeastSubset
<1>2. PICK x \in s : SumFunctionOnSet(f, s) # f[x] + SumFunctionOnSet(f, s \ {x})
  OBVIOUS
<1> DEFINE c == Chosen(s)
<1>3. c \in s /\ c \in S /\ x \in S
  BY ChosenIn
<1>4. SumFunctionOnSet(f, s) = f[c] + SumFunctionOnSet(f, s \ {c})
  BY SumUnfolds, FS_Subset
<1>5. x # c
  BY <1>2, <1>4
<1>6. s \ {c} \notin Bad /\ s \ {x} \notin Bad
  BY <1>1, <1>3
<1>7. SumFunctionOnSet(f, s \ {c}) = f[x] + SumFunctionOnSet(f, (s \ {c}) \ {x})
  BY <1>3, <1>5, <1>6
<1>8. (s \ {c}) \ {x} = (s \ {x}) \ {c}
  OBVIOUS
<1>9. SumFunctionOnSet(f, s \ {x}) = f[c] + SumFunctionOnSet(f, (s \ {c}) \ {x})
  BY <1>3, <1>5, <1>6, <1>8
<1>10. SumFunctionOnSet(f, (s \ {c}) \ {x}) \in Nat /\ f[x] \in Nat /\ f[c] \in Nat
  BY SumIsNat, <1>3
<1> HIDE DEF c, Bad
<1>11. QED
  BY <1>2, <1>4, <1>7, <1>9, <1>10

LEMMA SumAdds ==
  ASSUME NEW S, IsFiniteSet(S), NEW f \in [S -> Nat], NEW s \in SUBSET S, NEW x \in S \ s
  PROVE  SumFunctionOnSet(f, s \cup {x}) = f[x] + SumFunctionOnSet(f, s)
<1> DEFINE r == s \cup {x}
<1>1. r \in SUBSET S /\ x \in r /\ r \ {x} = s
  OBVIOUS
<1> HIDE DEF r
<1>2. SumFunctionOnSet(f, r) = f[x] + SumFunctionOnSet(f, r \ {x})
  BY <1>1, SumTakesOut
<1>3. QED
  BY <1>1, <1>2 DEF r

\* A sum depends on the values summed alone.
LEMMA SumOfSame ==
  ASSUME NEW S, IsFiniteSet(S), NEW f, NEW h
  PROVE  \A s \in SUBSET S :
           (\A x \in s : f[x] = h[x]) => SumFunctionOnSet(f, s) = SumFunctionOnSet(h, s)
<1> DEFINE Bad == {s \in SUBSET S : (\A x \in s : f[x] = h[x])
                                     /\ SumFunctionOnSet(f, s) # SumFunctionOnSet(h, s)}
<1> SUFFICES ASSUME Bad # {} PROVE FALSE
  OBVIOUS
<1>1. PICK s \in Bad : \A t \in Bad : t \subseteq s => t = s
  <2>1. Bad \in SUBSET SUBSET S
    OBVIOUS
  <2> HIDE DEF Bad
  <2>2. QED
    BY <2>1, LeastSubset
<1>2. /\ SumFunctionOnSet(f, s) =
           IF s = {} THEN 0 ELSE f[Chosen(s)] + SumFunctionOnSet(f, s \ {Chosen(s)})
      /\ SumFunctionOnSet(h, s) =
           IF s = {} THEN 0 ELSE h[Chosen(s)] + SumFunctionOnSet(h, s \ {Chosen(s)})
  BY SumUnfolds, FS_Subset
<1>3. s # {}
  BY <1>2
<1>4. Chosen(s) \in s
  BY <1>3, ChosenIn
<1>5. s \ {Chosen(s)} \notin Bad
  BY <1>1, <1>4
<1>6. SumFunctionOnSet(f, s \ {Chosen(s)}) = SumFunctionOnSet(h, s \ {Chosen(s)})
  BY <1>5
<1>7. QED
  BY <1>2, <1>3, <1>4, <1>6

\* Fewer elements never sum to more.
LEMMA SumOfPart ==
  ASSUME NEW S, IsFiniteSet(S), NEW f \in [S -> Nat]
  PROVE  \A s \in SUBSET S : \A t \in SUBSET s :
           SumFunctionOnSet(f, t) <= SumFunctionOnSet(f, s)
<1> DEFINE Bad == {s \in SUBSET S : \E t \in SUBSET s :
                     ~ (SumFunctionOnSet(f, t) <= SumFunctionOnSet(f, s))}
<1> SUFFICES ASSUME Bad # {} PROVE FALSE
  OBVIOUS
<1>1. PICK s \in Bad : \A t \in Bad : t \subseteq s => t = s
  <2>1. Bad \in SUBSET SUBSET S
    OBVIOUS
  <2> HIDE DEF Bad
  <2>2. QED
    BY <2>1, LeastSubset
<1>2. PICK t \in SUBSET s : ~ (SumFunctionOnSet(f, t) <= SumFunctionOnSet(f, s))
  OBVIOUS
<1>3. SumFunctionOnSet(f, s) \in Nat /\ SumFunctionOnSet(f, t) \in Nat
  BY SumIsNat
<1>4. t # s
  BY <1>2, <1>3
<1>5. PICK x \in s : x \notin t
  BY <1>4
<1>6. s \ {x} \notin Bad /\ s \ {x} \in SUBSET S /\ t \in SUBSET (s \ {x})
  BY <1>1, <1>5
<1>7. SumFunctionOnSet(f, t) <= SumFunctionOnSet(f, s \ {x})
  BY <1>6
<1>8. SumFunctionOnSet(f, s) = f[x] + SumFunctionOnSet(f, s \ {x})
  BY SumTakesOut
<1>9. SumFunctionOnSet(f, s \ {x}) \in Nat /\ f[x] \in Nat
  BY SumIsNat, <1>6
<1>10. QED
  BY <1>2, <1>3, <1>7, <1>8, <1>9

\* Less from each element sums to no more.
LEMMA SumShrinks ==
  ASSUME NEW S, IsFiniteSet(S), NEW f \in [S -> Nat], NEW h \in [S -> Nat]
  PROVE  \A s \in SUBSET S :
           (\A x \in s : h[x] <= f[x]) => SumFunctionOnSet(h, s) <= SumFunctionOnSet(f, s)
<1> DEFINE Bad == {s \in SUBSET S : (\A x \in s : h[x] <= f[x])
                                     /\ ~ (SumFunctionOnSet(h, s) <= SumFunctionOnSet(f, s))}
<1> SUFFICES ASSUME Bad # {} PROVE FALSE
  OBVIOUS
<1>1. PICK s \in Bad : \A t \in Bad : t \subseteq s => t = s
  <2>1. Bad \in SUBSET SUBSET S
    OBVIOUS
  <2> HIDE DEF Bad
  <2>2. QED
    BY <2>1, LeastSubset
<1>2. s # {}
  BY SumOfNone
<1>3. PICK x \in s : TRUE
  BY <1>2
<1>4. s \ {x} \notin Bad
  BY <1>1
<1>5. SumFunctionOnSet(h, s \ {x}) <= SumFunctionOnSet(f, s \ {x})
  BY <1>4
<1>6. /\ SumFunctionOnSet(f, s) = f[x] + SumFunctionOnSet(f, s \ {x})
      /\ SumFunctionOnSet(h, s) = h[x] + SumFunctionOnSet(h, s \ {x})
  BY SumTakesOut
<1>7. /\ SumFunctionOnSet(f, s \ {x}) \in Nat /\ SumFunctionOnSet(h, s \ {x}) \in Nat
      /\ f[x] \in Nat /\ h[x] \in Nat /\ h[x] <= f[x]
  BY SumIsNat
<1>8. ~ (SumFunctionOnSet(h, s) <= SumFunctionOnSet(f, s))
  OBVIOUS
<1> HIDE DEF Bad
<1>9. QED
  BY <1>5, <1>6, <1>7, <1>8

\* Each element adds m at most.
LEMMA SumIsBounded ==
  ASSUME NEW S, IsFiniteSet(S), NEW m \in Nat, NEW f \in [S -> 0..m]
  PROVE  \A s \in SUBSET S : SumFunctionOnSet(f, s) <= Cardinality(s) * m
<1> DEFINE Bad == {s \in SUBSET S : ~ (SumFunctionOnSet(f, s) <= Cardinality(s) * m)}
<1> SUFFICES ASSUME Bad # {} PROVE FALSE
  OBVIOUS
<1>1. PICK s \in Bad : \A t \in Bad : t \subseteq s => t = s
  <2>1. Bad \in SUBSET SUBSET S
    OBVIOUS
  <2> HIDE DEF Bad
  <2>2. QED
    BY <2>1, LeastSubset
<1>2. s # {}
  BY SumOfNone, FS_EmptySet
<1>3. PICK x \in s : TRUE
  BY <1>2
<1>4. SumFunctionOnSet(f, s \ {x}) <= Cardinality(s \ {x}) * m
  BY <1>1
<1>5. f \in [S -> Nat]
  OBVIOUS
<1>6. SumFunctionOnSet(f, s) = f[x] + SumFunctionOnSet(f, s \ {x})
  BY <1>5, SumTakesOut
<1>7. SumFunctionOnSet(f, s \ {x}) \in Nat /\ f[x] \in 0..m
  BY <1>5, SumIsNat
<1>8. IsFiniteSet(s) /\ Cardinality(s) \in Nat /\ Cardinality(s \ {x}) = Cardinality(s) - 1
  BY FS_Subset, FS_CardinalityType, FS_RemoveElement
<1>9. (Cardinality(s) - 1) * m + m = Cardinality(s) * m
  BY <1>8
<1>10. ~ (SumFunctionOnSet(f, s) <= Cardinality(s) * m)
  OBVIOUS
<1> HIDE DEF Bad
<1>11. QED
  BY <1>4, <1>6, <1>7, <1>8, <1>9, <1>10

-----------------------------------------------------------------------------
(* Quotas *)

\* Where x fits, it fits beside what overlaps it.
LEMMA OneMoreFits ==
  ASSUME NEW h \in [Files -> 0..MaxFile], NEW s \in SUBSET Files, NEW x \in Files \ s,
         Cardinality(s \cup {x}) <= MaxUploads,
         NEW used \in Nat, NEW quota \in Nat, used + h[x] <= quota
  PROVE  used + SumFunctionOnSet(h, s \cup {x}) <= quota + Overshoot
<1>1. IsFiniteSet(Files) /\ MaxFile \in Nat /\ MaxUploads \in Nat /\ h \in [Files -> Nat]
  BY FilesAssumption, BoundsAssumption
<1>2. SumFunctionOnSet(h, s \cup {x}) = h[x] + SumFunctionOnSet(h, s)
  BY <1>1, SumAdds
<1>3. SumFunctionOnSet(h, s) <= Cardinality(s) * MaxFile
  BY <1>1, SumIsBounded
<1>4. /\ Cardinality(s) \in Nat /\ Cardinality(s \cup {x}) = Cardinality(s) + 1
  BY <1>1, FS_Subset, FS_CardinalityType, FS_AddElement
<1>5. \E d \in Nat : MaxUploads - 1 = Cardinality(s) + d
  <2>1. MaxUploads - 1 - Cardinality(s) \in Nat
    BY <1>1, <1>4
  <2>2. MaxUploads - 1 = Cardinality(s) + (MaxUploads - 1 - Cardinality(s))
    BY <1>1, <1>4
  <2>3. QED
    BY <2>1, <2>2
<1>6. PICK d \in Nat : MaxUploads - 1 = Cardinality(s) + d
  BY <1>5
<1>7. (Cardinality(s) + d) * MaxFile = Cardinality(s) * MaxFile + d * MaxFile
  BY <1>1, <1>4
<1>8. d * MaxFile \in Nat /\ Cardinality(s) * MaxFile \in Nat
  BY <1>1, <1>4
<1>9. Overshoot = Cardinality(s) * MaxFile + d * MaxFile
  BY <1>1, <1>4, <1>6, <1>7 DEF Overshoot
<1>10. h[x] \in Nat /\ SumFunctionOnSet(h, s) \in Nat
  BY <1>1, SumIsNat
<1>11. QED
  BY <1>2, <1>3, <1>8, <1>9, <1>10

LEMMA OvershootIsNat == Overshoot \in Nat
<1>1. MaxUploads \in Nat /\ MaxFile \in Nat
  BY BoundsAssumption
<1>2. MaxUploads # 0 => MaxUploads - 1 \in Nat
  BY <1>1
<1>3. MaxUploads # 0 => (MaxUploads - 1) * MaxFile \in Nat
  BY <1>1, <1>2
<1>4. QED
  BY <1>3 DEF Overshoot

\* Uploads past the first check of the quotas, and those past both, of u.
Checked == {"globalOk", "userOk", "compressing", "placed"}
Admitted == {"userOk", "compressing", "placed"}
Claimants == {f \in Files : up[f] \in Checked}
ClaimantsOf(u) == {f \in Files : up[f] \in Admitted /\ OwnerOf[f] = u}

\* What each of them will add at most, and all of them together.
Claim == [f \in Files |-> IF up[f] = "placed" THEN stored[f] ELSE size[f]]
Claimed == SumFunctionOnSet(Claim, Claimants)
ClaimedOf(u) == SumFunctionOnSet(Claim, ClaimantsOf(u))

Few == Cardinality(InFlight) <= MaxUploads

\* There is room for what is stored and for all that has passed a check.
RoomInv ==
  /\ UsedBytes + Claimed <= TotalQuota + Overshoot
  /\ \A u \in Users : UserUsedBytes(u) + ClaimedOf(u) <= UserQuota + Overshoot

USE DEF Checked, Admitted

\* What the sums range over.
Summands ==
  /\ stored \in [Files -> Nat] /\ Claim \in [Files -> 0..MaxFile] /\ Claim \in [Files -> Nat]
  /\ UsedBytes \in Nat /\ Claimed \in Nat
  /\ \A u : UserUsedBytes(u) \in Nat /\ ClaimedOf(u) \in Nat

LEMMA SummandsAreNat == IInv => Summands
<1> SUFFICES ASSUME IInv PROVE Summands
  OBVIOUS
<1>1. stored \in [Files -> Nat] /\ Claim \in [Files -> 0..MaxFile]
  BY BoundsAssumption DEF Claim
<1>2. Claim \in [Files -> Nat]
  BY <1>1, BoundsAssumption
<1>3. /\ temp \in SUBSET Files /\ \A u : {f \in temp : OwnerOf[f] = u} \in SUBSET Files
      /\ Claimants \in SUBSET Files /\ \A u : ClaimantsOf(u) \in SUBSET Files
  BY DEF Claimants, ClaimantsOf
<1>4. UsedBytes \in Nat /\ \A u : UserUsedBytes(u) \in Nat
  BY <1>1, <1>3, FilesAssumption, SumIsNat DEF UsedBytes, UserUsedBytes
<1>5. Claimed \in Nat /\ \A u : ClaimedOf(u) \in Nat
  BY <1>2, <1>3, FilesAssumption, SumIsNat DEF Claimed, ClaimedOf
<1>6. QED
  BY <1>1, <1>2, <1>4, <1>5 DEF Summands

LEMMA SummandsStayNat == IInv' => Summands'
BY SummandsAreNat, PTL

\* Fewer files with less each.
LEMMA LessOfFewer ==
  \A f, h \in [Files -> Nat] : \A s \in SUBSET Files : \A t \in SUBSET s :
    (\A x \in t : h[x] <= f[x]) => SumFunctionOnSet(h, t) <= SumFunctionOnSet(f, s)
<1> SUFFICES ASSUME NEW f \in [Files -> Nat], NEW h \in [Files -> Nat],
                    NEW s \in SUBSET Files, NEW t \in SUBSET s, \A x \in t : h[x] <= f[x]
             PROVE  SumFunctionOnSet(h, t) <= SumFunctionOnSet(f, s)
  OBVIOUS
<1>1. IsFiniteSet(Files) /\ t \in SUBSET Files
  BY FilesAssumption
<1>2. SumFunctionOnSet(h, t) <= SumFunctionOnSet(f, t)
  BY <1>1, SumShrinks
<1>3. SumFunctionOnSet(f, t) <= SumFunctionOnSet(f, s)
  BY <1>1, SumOfPart
<1>4. /\ SumFunctionOnSet(h, t) \in Nat /\ SumFunctionOnSet(f, t) \in Nat
      /\ SumFunctionOnSet(f, s) \in Nat
  BY <1>1, SumIsNat
<1>5. QED
  BY <1>2, <1>3, <1>4

\* Rows that go, and claims that shrink or go, give room.
LEMMA SumsShrink ==
  ASSUME IInv, IInv', temp' \subseteq temp, \A g \in temp : stored'[g] = stored[g],
         \A g \in Claimants' : g \in Claimants /\ Claim'[g] <= Claim[g],
         \A u : ClaimantsOf(u)' \subseteq ClaimantsOf(u)
  PROVE  /\ UsedBytes' <= UsedBytes /\ Claimed' <= Claimed
         /\ \A u : UserUsedBytes(u)' <= UserUsedBytes(u) /\ ClaimedOf(u)' <= ClaimedOf(u)
<1>1. /\ stored \in [Files -> Nat] /\ Claim \in [Files -> Nat]
      /\ stored' \in [Files -> Nat] /\ Claim' \in [Files -> Nat]
  BY SummandsAreNat, SummandsStayNat DEF Summands
<1>2. ASSUME NEW s \in SUBSET temp, NEW t \in SUBSET s
      PROVE  SumFunctionOnSet(stored', t) <= SumFunctionOnSet(stored, s)
  <2>1. s \in SUBSET Files /\ \A x \in t : stored'[x] <= stored[x]
    <3>1. \A x \in t : stored'[x] = stored[x] /\ stored[x] \in Nat
      BY <1>1
    <3>2. QED
      BY <3>1
  <2>2. QED
    BY <1>1, <2>1, LessOfFewer, Zenon
<1>3. ASSUME NEW s \in SUBSET Claimants, NEW t \in SUBSET s, t \subseteq Claimants'
      PROVE  SumFunctionOnSet(Claim', t) <= SumFunctionOnSet(Claim, s)
  <2>1. s \in SUBSET Files /\ \A x \in t : Claim'[x] <= Claim[x]
    BY <1>3 DEF Claimants
  <2>2. QED
    BY <1>1, <2>1, LessOfFewer, Zenon
<1>4. UsedBytes' <= UsedBytes
  BY <1>2 DEF UsedBytes
<1>5. Claimed' <= Claimed
  <2>1. Claimants' \subseteq Claimants
    OBVIOUS
  <2>2. QED
    BY <1>3, <2>1 DEF Claimed
<1>6. ASSUME NEW u PROVE UserUsedBytes(u)' <= UserUsedBytes(u)
  <2>1. {f \in temp' : OwnerOf[f] = u} \subseteq {f \in temp : OwnerOf[f] = u}
    OBVIOUS
  <2>2. QED
    BY <1>2, <2>1 DEF UserUsedBytes
<1>7. ASSUME NEW u PROVE ClaimedOf(u)' <= ClaimedOf(u)
  <2>1. ClaimantsOf(u) \subseteq Claimants
    BY DEF ClaimantsOf, Claimants
  <2>2. ClaimantsOf(u)' \subseteq Claimants'
    BY DEF ClaimantsOf, Claimants
  <2>3. QED
    BY <1>3, <2>1, <2>2 DEF ClaimedOf
<1>8. QED
  BY <1>4, <1>5, <1>6, <1>7

\* So room is kept by steps in which no upload passes a check or comes to claim more.
LEMMA RoomKept ==
  ASSUME IInv, IInv', RoomInv, temp' \subseteq temp, \A g \in temp : stored'[g] = stored[g],
         \A g \in Files :
           /\ up'[g] \in Checked => up[g] \in Checked /\ Claim'[g] <= Claim[g]
           /\ up'[g] \in Admitted => up[g] \in Admitted
  PROVE  RoomInv'
<1>1. /\ \A g \in Claimants' : g \in Claimants /\ Claim'[g] <= Claim[g]
      /\ \A u : ClaimantsOf(u)' \subseteq ClaimantsOf(u)
  BY DEF Claimants, ClaimantsOf
<1>2. /\ UsedBytes' <= UsedBytes /\ Claimed' <= Claimed
      /\ \A u : UserUsedBytes(u)' <= UserUsedBytes(u) /\ ClaimedOf(u)' <= ClaimedOf(u)
  BY <1>1, SumsShrink
<1>3. TotalQuota \in Nat /\ UserQuota \in Nat /\ Overshoot \in Nat
  BY BoundsAssumption, OvershootIsNat
<1>4. UsedBytes' + Claimed' <= TotalQuota + Overshoot
  <2>1. /\ UsedBytes \in Nat /\ Claimed \in Nat /\ UsedBytes' \in Nat /\ Claimed' \in Nat
    BY SummandsAreNat, SummandsStayNat DEF Summands
  <2>2. /\ UsedBytes' <= UsedBytes /\ Claimed' <= Claimed
        /\ UsedBytes + Claimed <= TotalQuota + Overshoot
    BY <1>2 DEF RoomInv
  <2>3. \A a, b, c, d, q \in Nat : c <= a /\ d <= b /\ a + b <= q => c + d <= q
    OBVIOUS
  <2>4. TotalQuota + Overshoot \in Nat
    BY <1>3
  <2>5. QED
    BY <2>1, <2>2, <2>3, <2>4, Zenon
<1>5. ASSUME NEW u \in Users
      PROVE  UserUsedBytes(u)' + ClaimedOf(u)' <= UserQuota + Overshoot
  <2>1. /\ UserUsedBytes(u) \in Nat /\ ClaimedOf(u) \in Nat
        /\ UserUsedBytes(u)' \in Nat /\ ClaimedOf(u)' \in Nat
    BY SummandsAreNat, SummandsStayNat DEF Summands
  <2>2. /\ UserUsedBytes(u)' <= UserUsedBytes(u) /\ ClaimedOf(u)' <= ClaimedOf(u)
        /\ UserUsedBytes(u) + ClaimedOf(u) <= UserQuota + Overshoot
    BY <1>2 DEF RoomInv
  <2>3. QED
    BY <1>3, <2>1, <2>2
<1>6. QED
  BY <1>4, <1>5 DEF RoomInv

\* What a step other than an upload's leaves alone.
LEMMA OthersKeepUploads ==
  ASSUME Next PROVE \/ \E f \in Files : Upload(f)
                    \/ Crash
                    \/ UNCHANGED upVars /\ temp' \subseteq temp
<1>1. ASSUME NEW m \in Movers, Move(m) PROVE UNCHANGED upVars /\ temp' \subseteq temp
  BY <1>1 DEF Move, Unlink, CommitMove, MoveConflicts, MoveFails, AbortMove
<1>2. (\E m \in Requests : Delete(m)) \/ Sweep \/ (\E f \in Files : BecomeDue(f)) =>
        UNCHANGED <<upVars, temp>>
  BY DEF Delete, LoadForDelete, Sweep, StartSweep, TakeDue, BecomeDue
<1>3. (\E r \in Readers : Download(r)) => UNCHANGED <<upVars, temp>>
  BY DEF Download, AdmitDownload, OpenFile, EndDownload
<1>4. QED
  BY <1>1, <1>2, <1>3 DEF Next

LEMMA FilesInFlight ==
  /\ IsFiniteSet(InFlight)
  /\ \A s \in SUBSET InFlight : Cardinality(s) \in Nat /\ Cardinality(s) <= Cardinality(InFlight)
<1>1. IsFiniteSet(InFlight)
  BY FilesAssumption, FS_Subset DEF InFlight
<1>2. QED
  BY <1>1, FS_Subset, FS_CardinalityType

\* An upload begins where one more is allowed, and no other step adds one.
LEMMA FewNext ==
  ASSUME IInv, Few, [Next]_vars PROVE Few'
<1>1. InFlight' \subseteq InFlight => Few'
  <2>1. Cardinality(InFlight) \in Nat /\ MaxUploads \in Nat
    BY FilesInFlight, BoundsAssumption
  <2>2. InFlight' \subseteq InFlight =>
          Cardinality(InFlight') \in Nat /\ Cardinality(InFlight') <= Cardinality(InFlight)
    BY FilesInFlight
  <2>3. QED
    BY <2>1, <2>2 DEF Few
<1>2. ASSUME NEW f \in Files, StartUpload(f) PROVE Few'
  <2>1. InFlight' = InFlight \cup {f} /\ f \notin InFlight
    BY <1>2 DEF StartUpload, InFlight
  <2>2. Cardinality(InFlight') = Cardinality(InFlight) + 1 /\ Cardinality(InFlight) \in Nat
    BY <2>1, FilesInFlight, FS_AddElement
  <2>3. Cardinality(InFlight) < MaxUploads /\ MaxUploads \in Nat
    BY <1>2, BoundsAssumption DEF StartUpload
  <2>4. QED
    BY <2>2, <2>3 DEF Few
<1>3. ASSUME NEW f \in Files, Upload(f), ~ StartUpload(f) PROVE InFlight' \subseteq InFlight
  <2>1. f \in InFlight
    BY <1>3 DEF Upload, Receive, UploadFails, CheckGlobalQuota, CheckUserQuota, StartCompress,
                KeepCompressed, KeepRaw, CommitUpload, FinishUpload, FailAfterCommit, InFlight
  <2>2. \A g \in Files \ {f} : up'[g] = up[g]
    BY <1>3, UploadOfOne
  <2>3. QED
    BY <2>1, <2>2 DEF InFlight
<1>4. Crash => InFlight' \subseteq InFlight
  BY DEF Crash, InFlight
<1>5. UNCHANGED upVars => InFlight' \subseteq InFlight
  BY DEF InFlight
<1>6. QED
  BY <1>1, <1>2, <1>3, <1>4, <1>5, OthersKeepUploads DEF vars

LEMMA FileAdds ==
  \A h \in [Files -> Nat] : \A s \in SUBSET Files : \A x \in Files \ s :
    SumFunctionOnSet(h, s \cup {x}) = h[x] + SumFunctionOnSet(h, s)
BY FilesAssumption, SumAdds

LEMMA FileSame ==
  \A h, k : \A s \in SUBSET Files :
    (\A x \in s : h[x] = k[x]) => SumFunctionOnSet(h, s) = SumFunctionOnSet(k, s)
BY FilesAssumption, SumOfSame

\* A committed row uses what it claimed.
LEMMA RoomCommit ==
  ASSUME IInv, IInv', RoomInv, NEW f \in Files, CommitUpload(f) PROVE RoomInv'
<1>1. /\ up[f] = "placed" /\ up' = [up EXCEPT ![f] = "committed"]
      /\ temp' = temp \cup {f} /\ f \notin temp /\ UNCHANGED <<size, stored>>
  BY DEF CommitUpload
<1>2. OwnerOf \in [Files -> Users]
  BY FilesAssumption
<1>3. stored \in [Files -> Nat] /\ Claim' \in [Files -> Nat] /\ Claim \in [Files -> Nat]
  BY SummandsAreNat, SummandsStayNat DEF Summands
<1>4. \A s \in SUBSET Files : \A x \in Files \ s :
        /\ SumFunctionOnSet(stored, s \cup {x}) = stored[x] + SumFunctionOnSet(stored, s)
        /\ SumFunctionOnSet(Claim, s \cup {x}) = Claim[x] + SumFunctionOnSet(Claim, s)
  <2> HIDE DEF IInv
  <2>1. stored \in [Files -> Nat]
    BY <1>3
  <2>2. Claim \in [Files -> Nat]
    BY <1>3
  <2>3. QED
    BY <2>1, <2>2, FileAdds, Zenon
<1>5. UsedBytes' = stored[f] + UsedBytes
  <2>1. UsedBytes' = SumFunctionOnSet(stored, temp \cup {f})
    BY <1>1 DEF UsedBytes
  <2>2. SumFunctionOnSet(stored, temp \cup {f}) = stored[f] + SumFunctionOnSet(stored, temp)
    BY <1>1, <1>4
  <2>3. QED
    BY <2>1, <2>2 DEF UsedBytes
<1>6. UserUsedBytes(OwnerOf[f])' = stored[f] + UserUsedBytes(OwnerOf[f])
  <2> DEFINE mine == {g \in temp : OwnerOf[g] = OwnerOf[f]}
  <2>1. {g \in temp' : OwnerOf[g] = OwnerOf[f]} = mine \cup {f}
    BY <1>1
  <2>2. UserUsedBytes(OwnerOf[f])' = SumFunctionOnSet(stored, mine \cup {f})
    BY <1>1, <2>1 DEF UserUsedBytes
  <2>3. mine \in SUBSET Files /\ f \notin mine
    BY <1>1
  <2> HIDE DEF mine
  <2>4. SumFunctionOnSet(stored, mine \cup {f}) = stored[f] + SumFunctionOnSet(stored, mine)
    BY <1>4, <2>3
  <2>5. QED
    BY <2>2, <2>4 DEF UserUsedBytes, mine
<1>7. ASSUME NEW u \in Users, u # OwnerOf[f] PROVE UserUsedBytes(u)' = UserUsedBytes(u)
  <2>1. {g \in temp' : OwnerOf[g] = u} = {g \in temp : OwnerOf[g] = u}
    BY <1>1, <1>7
  <2>2. QED
    BY <1>1, <2>1 DEF UserUsedBytes
<1>8. Claim[f] = stored[f] /\ \A g \in Files \ {f} : Claim'[g] = Claim[g]
  BY <1>1 DEF Claim
<1>9. ASSUME NEW s \in SUBSET Files, f \notin s
      PROVE  /\ SumFunctionOnSet(Claim', s) = SumFunctionOnSet(Claim, s)
             /\ SumFunctionOnSet(Claim, s \cup {f}) = stored[f] + SumFunctionOnSet(Claim, s)
  <2>1. \A g \in s : Claim'[g] = Claim[g]
    BY <1>8, <1>9
  <2>2. SumFunctionOnSet(Claim', s) = SumFunctionOnSet(Claim, s)
    <3> HIDE DEF IInv
    <3>1. QED
      BY <2>1, FileSame, Zenon
  <2>3. SumFunctionOnSet(Claim, s \cup {f}) = Claim[f] + SumFunctionOnSet(Claim, s)
    BY <1>4, <1>9
  <2>4. QED
    BY <1>8, <2>2, <2>3
<1>10. Claimed = stored[f] + Claimed'
  <2>1. /\ Claimants' \in SUBSET Files /\ f \notin Claimants'
        /\ Claimants = Claimants' \cup {f}
    BY <1>1 DEF Claimants
  <2>2. QED
    BY <1>9, <2>1 DEF Claimed
<1>11. ClaimedOf(OwnerOf[f]) = stored[f] + ClaimedOf(OwnerOf[f])'
  <2>1. /\ ClaimantsOf(OwnerOf[f])' \in SUBSET Files /\ f \notin ClaimantsOf(OwnerOf[f])'
        /\ ClaimantsOf(OwnerOf[f]) = ClaimantsOf(OwnerOf[f])' \cup {f}
    BY <1>1 DEF ClaimantsOf
  <2>2. QED
    BY <1>9, <2>1 DEF ClaimedOf
<1>12. ASSUME NEW u \in Users, u # OwnerOf[f] PROVE ClaimedOf(u)' = ClaimedOf(u)
  <2>1. /\ ClaimantsOf(u) \in SUBSET Files /\ f \notin ClaimantsOf(u)
        /\ ClaimantsOf(u)' = ClaimantsOf(u)
    BY <1>1, <1>12 DEF ClaimantsOf
  <2>2. QED
    BY <1>9, <2>1 DEF ClaimedOf
<1>13. /\ UsedBytes \in Nat /\ stored[f] \in Nat /\ Claimed' \in Nat
       /\ \A u : UserUsedBytes(u) \in Nat /\ ClaimedOf(u)' \in Nat
  BY <1>3, SummandsAreNat, SummandsStayNat DEF Summands
<1>14. UsedBytes' + Claimed' <= TotalQuota + Overshoot
  <2>1. UsedBytes + Claimed <= TotalQuota + Overshoot
    BY DEF RoomInv
  <2>2. UsedBytes' + Claimed' = UsedBytes + Claimed
    BY <1>5, <1>10, <1>13
  <2>3. QED
    BY <2>1, <2>2
<1>15. ASSUME NEW u \in Users
       PROVE  UserUsedBytes(u)' + ClaimedOf(u)' <= UserQuota + Overshoot
  <2>1. UserUsedBytes(u) + ClaimedOf(u) <= UserQuota + Overshoot
    BY DEF RoomInv
  <2>2. UserUsedBytes(u)' + ClaimedOf(u)' = UserUsedBytes(u) + ClaimedOf(u)
    <3>1. CASE u = OwnerOf[f]
      <4>1. UserUsedBytes(u) \in Nat /\ ClaimedOf(u)' \in Nat
        BY <1>13
      <4>2. QED
        BY <1>6, <1>11, <1>13, <3>1, <4>1
    <3>2. CASE u # OwnerOf[f]
      BY <1>7, <1>12, <3>2
    <3>3. QED
      BY <3>1, <3>2
  <2>3. QED
    BY <2>1, <2>2
<1>16. QED
  BY <1>14, <1>15 DEF RoomInv

\* A check that passes leaves room for the file beside the ones it did not see.
LEMMA RoomChecked ==
  ASSUME IInv, Few, RoomInv, NEW f \in Files, UNCHANGED <<size, stored, temp>>,
         \/ up[f] = "received" /\ UsedBytes + size[f] <= TotalQuota /\ GoTo(f, "globalOk")
         \/ /\ up[f] = "globalOk" /\ size[f] + UserUsedBytes(OwnerOf[f]) <= UserQuota
            /\ GoTo(f, "userOk")
  PROVE  RoomInv'
<1>1. UNCHANGED UsedBytes /\ \A u : UNCHANGED UserUsedBytes(u)
  BY DEF UsedBytes, UserUsedBytes
<1>2. /\ up' = [up EXCEPT ![f] = IF up[f] = "received" THEN "globalOk" ELSE "userOk"]
      /\ up[f] \in {"received", "globalOk"}
  OBVIOUS
<1>3. Claim' = Claim /\ Claim[f] = size[f]
  <2>1. \A g \in Files : Claim'[g] = Claim[g]
    BY <1>2 DEF Claim
  <2>2. QED
    BY <1>2, <2>1 DEF Claim
<1>4. Summands
  BY SummandsAreNat
<1>5. TotalQuota \in Nat /\ UserQuota \in Nat /\ MaxUploads \in Nat
  BY BoundsAssumption
<1>6. ASSUME NEW s \in SUBSET Claimants, f \notin s,
             NEW used \in Nat, NEW quota \in Nat, used + size[f] <= quota
      PROVE  used + SumFunctionOnSet(Claim, s \cup {f}) <= quota + Overshoot
  <2>1. s \cup {f} \subseteq InFlight /\ s \in SUBSET Files /\ f \in Files \ s
    BY <1>2, <1>6 DEF Claimants, InFlight
  <2>2. Cardinality(s \cup {f}) <= MaxUploads
    <3>1. /\ Cardinality(s \cup {f}) \in Nat
          /\ Cardinality(s \cup {f}) <= Cardinality(InFlight)
      BY <2>1, FilesInFlight
    <3>2. Cardinality(InFlight) \in Nat
      BY FilesInFlight
    <3>3. QED
      BY <1>5, <3>1, <3>2 DEF Few
  <2>3. Claim \in [Files -> 0..MaxFile] /\ used + Claim[f] <= quota
    BY <1>3, <1>4, <1>6 DEF Summands
  <2> HIDE DEF IInv, TypeOK
  <2>4. QED
    BY <2>1, <2>2, <2>3, OneMoreFits
<1>7. CASE up[f] = "received"
  <2>1. /\ Claimants' = Claimants \cup {f} /\ f \notin Claimants
        /\ \A u : ClaimantsOf(u)' = ClaimantsOf(u)
    BY <1>2, <1>7 DEF Claimants, ClaimantsOf
  <2>2. UsedBytes \in Nat /\ UsedBytes + size[f] <= TotalQuota
    BY <1>4, <1>7 DEF Summands
  <2>3. UsedBytes + SumFunctionOnSet(Claim, Claimants \cup {f}) <= TotalQuota + Overshoot
    BY <1>5, <1>6, <2>1, <2>2
  <2>4. UsedBytes' + Claimed' <= TotalQuota + Overshoot
    BY <1>1, <1>3, <2>1, <2>3 DEF Claimed
  <2>5. \A u : ClaimedOf(u)' = ClaimedOf(u)
    BY <1>3, <2>1 DEF ClaimedOf
  <2>6. QED
    BY <1>1, <2>4, <2>5 DEF RoomInv
<1>8. CASE up[f] = "globalOk"
  <2> DEFINE o == OwnerOf[f]
  <2>1. /\ Claimants' = Claimants
        /\ ClaimantsOf(o)' = ClaimantsOf(o) \cup {f} /\ f \notin ClaimantsOf(o)
        /\ ClaimantsOf(o) \subseteq Claimants
        /\ \A u : u # o => ClaimantsOf(u)' = ClaimantsOf(u)
    BY <1>2, <1>8 DEF Claimants, ClaimantsOf
  <2>2. UserUsedBytes(o) \in Nat /\ size[f] \in Nat /\ UserUsedBytes(o) + size[f] <= UserQuota
    BY <1>4, <1>8, BoundsAssumption DEF Summands
  <2>3. UserUsedBytes(o) + SumFunctionOnSet(Claim, ClaimantsOf(o) \cup {f})
          <= UserQuota + Overshoot
    BY <1>5, <1>6, <2>1, <2>2
  <2>4. UserUsedBytes(o)' + ClaimedOf(o)' <= UserQuota + Overshoot
    BY <1>1, <1>3, <2>1, <2>3 DEF ClaimedOf
  <2>5. Claimed' = Claimed /\ \A u : u # o => ClaimedOf(u)' = ClaimedOf(u)
    BY <1>3, <2>1 DEF Claimed, ClaimedOf
  <2>6. QED
    BY <1>1, <2>4, <2>5 DEF RoomInv
<1>9. QED
  BY <1>2, <1>7, <1>8

LEMMA RoomUpload ==
  ASSUME IInv, IInv', Few, RoomInv, NEW f \in Files, Upload(f) PROVE RoomInv'
<1>1. CASE CommitUpload(f)
  BY <1>1, RoomCommit
<1>2. CASE /\ UNCHANGED temp /\ \A g \in Files \ {f} : UNCHANGED <<up[g], size[g], stored[g]>>
           /\ up[f] \in Working \cup {"none", "committed"}
           /\ UNCHANGED stored[f] \/ up[f] \in Working
           /\ up'[f] \in Checked => up[f] \in Checked /\ Claim'[f] <= Claim[f]
           /\ up'[f] \in Admitted => up[f] \in Admitted
  <2>1. \A g \in temp : stored'[g] = stored[g]
    BY <1>2
  <2>2. \A g \in Files : Claim[g] \in Nat
    BY SummandsAreNat DEF Summands
  <2>3. \A g \in Files \ {f} : Claim'[g] = Claim[g] /\ up'[g] = up[g]
    BY <1>2 DEF Claim
  <2>4. \A g \in Files \ {f} : Claim'[g] <= Claim[g]
    BY <2>2, <2>3
  <2>5. QED
    BY <1>2, <2>1, <2>3, <2>4, RoomKept
<1>3. CASE up[f] \in Working /\ Discard(f)
  BY <1>2, <1>3 DEF Discard
<1>4. CASE StartUpload(f)
  BY <1>2, <1>4 DEF StartUpload
<1>5. CASE Receive(f)
  <2>1. /\ UNCHANGED <<stored, temp>> /\ up' = [up EXCEPT ![f] = "received"]
        /\ up[f] = "streaming" /\ \A g \in Files \ {f} : size'[g] = size[g]
    BY <1>5 DEF Receive
  <2>2. QED
    BY <1>2, <2>1
<1>6. CASE StartCompress(f)
  <2>1. /\ UNCHANGED <<stored, temp, size>> /\ up' = [up EXCEPT ![f] = "compressing"]
        /\ up[f] = "userOk"
    BY <1>6 DEF StartCompress
  <2>2. Claim'[f] = size[f] /\ Claim[f] = size[f] /\ size[f] \in Nat
    BY <2>1, BoundsAssumption DEF Claim
  <2>3. QED
    BY <1>2, <2>1, <2>2
<1>7. CASE KeepCompressed(f) \/ KeepRaw(f)
  <2>1. /\ UNCHANGED <<size, temp>> /\ up' = [up EXCEPT ![f] = "placed"]
        /\ up[f] \in {"userOk", "compressing"}
        /\ \A g \in Files \ {f} : stored'[g] = stored[g]
    BY <1>7 DEF KeepCompressed, KeepRaw
  <2>2. stored'[f] <= size[f]
    <3>1. size[f] \in Nat
      BY BoundsAssumption
    <3>2. CASE KeepCompressed(f)
      <4>1. PICK n \in 1..(size[f] - 1) : stored' = [stored EXCEPT ![f] = n]
        BY <3>2 DEF KeepCompressed
      <4>2. QED
        BY <3>1, <4>1
    <3>3. CASE KeepRaw(f)
      BY <3>1, <3>3 DEF KeepRaw
    <3>4. QED
      BY <1>7, <3>2, <3>3
  <2>3. Claim'[f] = stored'[f] /\ Claim[f] = size[f]
    BY <2>1 DEF Claim
  <2>4. QED
    BY <1>2, <2>1, <2>2, <2>3
<1>8. CASE FinishUpload(f) \/ FailAfterCommit(f)
  BY <1>2, <1>8 DEF FinishUpload, FailAfterCommit
<1>9. CASE CheckGlobalQuota(f)
  <2>1. UsedBytes \in Nat /\ size[f] \in Nat /\ TotalQuota \in Nat
    BY SummandsAreNat, BoundsAssumption DEF Summands
  <2>2. CASE UsedBytes + size[f] <= TotalQuota
    BY <1>9, <2>1, <2>2, RoomChecked DEF CheckGlobalQuota
  <2>3. QED
    BY <1>3, <1>9, <2>1, <2>2 DEF CheckGlobalQuota
<1>10. CASE CheckUserQuota(f)
  <2>1. UserUsedBytes(OwnerOf[f]) \in Nat /\ size[f] \in Nat /\ UserQuota \in Nat
    BY SummandsAreNat, BoundsAssumption DEF Summands
  <2>2. CASE size[f] + UserUsedBytes(OwnerOf[f]) <= UserQuota
    BY <1>10, <2>1, <2>2, RoomChecked DEF CheckUserQuota
  <2>3. QED
    BY <1>3, <1>10, <2>1, <2>2 DEF CheckUserQuota
<1>11. QED
  BY <1>1, <1>3, <1>4, <1>5, <1>6, <1>7, <1>8, <1>9, <1>10 DEF Upload, UploadFails

LEMMA RoomNext ==
  ASSUME IInv, IInv', Few, RoomInv, [Next]_vars PROVE RoomInv'
<1>1. \A g \in Files : Claim[g] \in Nat
  BY SummandsAreNat DEF Summands
<1>2. CASE UNCHANGED upVars /\ temp' \subseteq temp
  <2>1. \A g \in Files : Claim'[g] = Claim[g] /\ up'[g] = up[g]
    BY <1>2 DEF Claim
  <2>2. QED
    BY <1>1, <1>2, <2>1, RoomKept
<1>3. CASE Crash
  <2>1. UNCHANGED <<size, stored, temp>> /\ \A g \in Files : up'[g] \in {up[g], "failed"}
    BY <1>3 DEF Crash
  <2>2. \A g \in Files : up'[g] \in Checked => up'[g] = up[g] /\ Claim'[g] = Claim[g]
    BY <2>1 DEF Claim
  <2>3. QED
    BY <1>1, <2>1, <2>2, RoomKept
<1>4. QED
  BY <1>2, <1>3, RoomUpload, OthersKeepUploads DEF vars

\* Whatever is deleted, swept, moved, lost or killed meanwhile, each quota is
\* exceeded by a file of full size for each overlapping upload at most.
THEOREM QuotasAreHeld == Spec => []QuotasHeld
<1>1. Init => Few /\ RoomInv
  <2> SUFFICES ASSUME Init PROVE Few /\ RoomInv
    OBVIOUS
  <2>1. Few
    <3>1. InFlight = {}
      BY DEF Init, InFlight
    <3>2. QED
      BY <3>1, FS_EmptySet, BoundsAssumption DEF Few
  <2>2. UsedBytes = 0 /\ \A u : UserUsedBytes(u) = 0
    <3>1. temp = {} /\ \A u : {f \in temp : OwnerOf[f] = u} = {}
      BY DEF Init
    <3>2. QED
      BY <3>1, SumOfNone DEF UsedBytes, UserUsedBytes
  <2>3. Claimed = 0 /\ \A u : ClaimedOf(u) = 0
    <3>1. Claimants = {} /\ \A u : ClaimantsOf(u) = {}
      BY DEF Init, Claimants, ClaimantsOf
    <3>2. QED
      BY <3>1, SumOfNone DEF Claimed, ClaimedOf
  <2>4. QED
    BY <2>1, <2>2, <2>3, BoundsAssumption, OvershootIsNat DEF RoomInv
<1>2. IInv /\ IInv' /\ Few /\ RoomInv /\ [Next]_vars => (Few /\ RoomInv)'
  BY FewNext, RoomNext
<1>3. IInv /\ RoomInv => QuotasHeld
  <2> SUFFICES ASSUME IInv, RoomInv PROVE QuotasHeld
    OBVIOUS
  <2>1. Summands /\ TotalQuota \in Nat /\ UserQuota \in Nat /\ Overshoot \in Nat
    BY SummandsAreNat, BoundsAssumption, OvershootIsNat
  <2>2. UsedBytes <= TotalQuota + Overshoot
    BY <2>1 DEF Summands, RoomInv
  <2>3. ASSUME NEW u \in Users PROVE UserUsedBytes(u) <= UserQuota + Overshoot
    <3>1. /\ UserUsedBytes(u) \in Nat /\ ClaimedOf(u) \in Nat
          /\ UserUsedBytes(u) + ClaimedOf(u) <= UserQuota + Overshoot
      BY <2>1 DEF Summands, RoomInv
    <3>2. QED
      BY <2>1, <3>1
  <2>4. QED
    BY <2>2, <2>3 DEF QuotasHeld
<1>4. QED
  BY <1>1, <1>2, <1>3, Invariance, PTL DEF Spec
=============================================================================
