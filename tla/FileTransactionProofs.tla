----------------------- MODULE FileTransactionProofs -----------------------
(***************************************************************************)
(* Proofs about FileTransaction, for any set of paths, contents and modes  *)
(* and any number of calls in the body.                                    *)
(***************************************************************************)
EXTENDS FileTransaction, TLAPS

-----------------------------------------------------------------------------
(* Types *)

LEMMA EntryTypes ==
  /\ Absent \in Entry
  /\ WellFormedEntry \subseteq Entry
  /\ \A c \in Content \cup Path \cup {NoData}, m \in Mode : File(c, m) \in Entry
  /\ \A p \in Path : Link(p) \in Entry
BY ModeAssumption DEF Entry, WellFormedEntry, Absent, Other, File, Link

LEMMA SnapshotTypes ==
  /\ Uncaptured \in [Path -> SnapshotOrNone]
  /\ \A entry \in WellFormedEntry : TakeSnapshot(entry) \in Snapshot
  /\ NoSnapshot \notin Snapshot
BY ModeAssumption
DEF Uncaptured, SnapshotOrNone, TakeSnapshot, Snapshot, NoSnapshot, WellFormedEntry,
    Absent, Other, File, Link

LEMMA JobTypes ==
  NoJob \in [text : Content \cup {NoData}, rest : Seq(Path)]
BY DEF NoJob

\* Restoring the snapshot of an entry gives the entry back, unless it is a
\* directory, which capture refuses.
LEMMA SnapshotRestores ==
  ASSUME NEW entry \in WellFormedEntry, entry.kind # "other"
  PROVE  LET s == TakeSnapshot(entry)
         IN  /\ (entry.kind = "link") <=> (s.link # NoPath)
             /\ s.link # NoPath => Link(s.link) = entry
             /\ (entry.kind = "file") <=> s.backup
             /\ s.backup => File(entry.data, s.mode) = entry
             /\ (s.link = NoPath /\ ~ s.backup) => Absent = entry
<1> DEFINE s == TakeSnapshot(entry)
<1> USE DEF TakeSnapshot
<1>1. CASE entry = Absent
  BY <1>1 DEF Absent
<1>2. CASE entry = Other
  BY <1>2 DEF Other
<1>3. ASSUME NEW c \in Content, NEW m \in Mode, entry = File(c, m)
      PROVE  /\ entry.kind = "file" /\ s.backup /\ s.link = NoPath
             /\ File(entry.data, s.mode) = entry
  BY <1>3 DEF File
<1>4. ASSUME NEW p \in Path, entry = Link(p)
      PROVE  /\ entry.kind = "link" /\ ~ s.backup /\ s.link = p
             /\ Link(s.link) = entry
  BY <1>4 DEF Link
<1>5. QED
  BY <1>1, <1>2, <1>3, <1>4, PathAssumption DEF WellFormedEntry

-----------------------------------------------------------------------------
(* The inductive invariant.  OriginalOnDisk alone is not inductive: while   *)
(* the body or rollback runs, what memory holds must also agree with the    *)
(* manifest, and capture must have recorded every declared path.            *)

Captured(p) ==
  /\ orig[p].kind # "other"
  /\ snapshots[p] = TakeSnapshot(orig[p])
  /\ orig[p].kind = "file" => backup[p] = orig[p]

\* Before the manifest is written no path has been touched.
Untouched ==
  /\ pc \in {"closed", "capture"} => fs = orig /\ manifest.state = "none"
  /\ manifest.state = "none" => manifest.files = Uncaptured
  /\ pc \in {"closed", "capture"} => \A p \in Path \ declared : snapshots[p] = NoSnapshot
  /\ pc = "closed" => snapshots = Uncaptured
  /\ pc = "capture" => todo \subseteq declared /\ \A p \in declared \ todo : Captured(p)

\* While the body, commit or rollback runs every declared path is recorded, on
\* disk and in memory alike, and no other path is.
Recorded ==
  pc \in {"body", "rollback", "commit"} =>
    /\ manifest = [state |-> "pending", files |-> snapshots]
    /\ \A p \in declared : Captured(p)
    /\ \A p \in Path \ declared : snapshots[p] = NoSnapshot

\* Rollback has put back every path it visited, or remembers that it did not.
Unwinding ==
  /\ pc # "rollback" => relinking = NoPath
  /\ pc = "rollback" =>
       /\ todo \subseteq declared
       /\ relinking # NoPath => relinking \in todo /\ snapshots[relinking].link # NoPath
       /\ ~ errors => \A p \in declared \ todo : fs[p] = orig[p]

\* What was reported agrees with what is on disk.
Reported ==
  /\ pc # "done" => outcome = "none"
  /\ outcome = "failed" => fs = orig
  /\ manifest.state = "rolled_back" => fs = orig
  /\ manifest.state = "none" => fs = orig
  /\ manifest.state = "committed" => outcome = "ok"

\* An undeclared path keeps its entry, and modes are kept.
IInv ==
  /\ TypeOK
  /\ orig \in [Path -> WellFormedEntry]
  /\ Untouched
  /\ Recorded
  /\ Unwinding
  /\ Reported
  /\ OriginalOnDisk
  /\ ModeKept

LEMMA IInvInit == Init => IInv
<1> SUFFICES ASSUME Init PROVE IInv
  OBVIOUS
<1> USE DEF Init
<1>1. fs \in [Path -> Entry] /\ backup \in [Path -> Entry]
  BY EntryTypes
<1>2. manifest \in [state : ManifestState, files : [Path -> SnapshotOrNone]]
  BY SnapshotTypes DEF ManifestState
<1>4. calls \in 0..MaxCalls
  BY MaxCallsAssumption
<1>5. job \in [text : Content \cup {NoData}, rest : Seq(Path)]
  BY JobTypes
<1>6. snapshots \in [Path -> SnapshotOrNone]
  BY SnapshotTypes
<1>7. relinking \in Path \cup {NoPath} /\ errors \in BOOLEAN /\ todo \in SUBSET Path /\ declared \in SUBSET Path
  OBVIOUS
<1>8. TypeOK
  BY <1>1, <1>2, <1>4, <1>5, <1>6, <1>7 DEF TypeOK
<1>9. Untouched /\ Recorded /\ Unwinding /\ Reported
  BY DEF Untouched, Recorded, Unwinding, Reported, Uncaptured
<1>10. OriginalOnDisk /\ ModeKept
  BY DEF OriginalOnDisk, ModeKept, Recovered, Uncaptured
<1>11. QED
  BY <1>8, <1>9, <1>10 DEF IInv

\* What capture recorded of a path is enough to put it back.
LEMMA CapturedRestores ==
  ASSUME NEW p \in Path, orig \in [Path -> WellFormedEntry], Captured(p)
  PROVE  /\ snapshots[p] \in Snapshot
         /\ snapshots[p] # NoSnapshot
         /\ snapshots[p].link # NoPath => Link(snapshots[p].link) = orig[p]
         /\ (snapshots[p].link = NoPath /\ snapshots[p].backup)
              => File(backup[p].data, snapshots[p].mode) = orig[p]
         /\ (snapshots[p].link = NoPath /\ ~ snapshots[p].backup) => orig[p] = Absent
         /\ orig[p].kind = "file" => snapshots[p].mode = orig[p].mode
<1>1. orig[p] \in WellFormedEntry
  OBVIOUS
<1>2. snapshots[p] \in Snapshot /\ snapshots[p] # NoSnapshot
  BY <1>1, SnapshotTypes DEF Captured
<1>3. orig[p].kind = "file" => snapshots[p].mode = orig[p].mode
  BY DEF Captured, TakeSnapshot
<1>4. QED
  BY <1>1, <1>2, <1>3, SnapshotRestores DEF Captured

\* Changing what one declared path holds leaves the original recoverable: the
\* recovery of a declared path reads only its record and its backup.
LEMMA DeclaredFrame ==
  ASSUME IInv, pc \in {"body", "rollback"}, NEW p \in declared, NEW e \in Entry,
         fs' = [fs EXCEPT ![p] = e], UNCHANGED <<orig, backup, manifest>>
  PROVE  OriginalOnDisk'
<1>1. p \in Path /\ manifest.files[p] # NoSnapshot
  BY CapturedRestores DEF IInv, TypeOK, Recorded
<1>2. \A q \in Path : Recovered(q)' = Recovered(q)
  BY <1>1 DEF IInv, TypeOK, Recovered
<1>3. QED
  BY <1>2 DEF IInv, OriginalOnDisk

\* Changing what one declared path holds keeps the modes if the new entry is no
\* plain file or has the mode that was captured.
LEMMA ModeFrame ==
  ASSUME IInv, NEW p \in Path, NEW e \in Entry,
         fs' = [fs EXCEPT ![p] = e], UNCHANGED orig,
         (orig[p].kind = "file" /\ e.kind = "file") => e.mode = orig[p].mode
  PROVE  ModeKept'
BY DEF IInv, TypeOK, ModeKept

LEMMA IInvStep == IInv /\ [Next]_vars => IInv'
<1> SUFFICES ASSUME IInv, [Next]_vars PROVE IInv'
  OBVIOUS
<1>1. ASSUME NEW paths \in SUBSET Path, Open(paths)
      PROVE  IInv'
  <2> USE <1>1 DEF IInv, Open, End, disk
  <2>1. TypeOK'
    BY DEF TypeOK, ManifestState
  <2>2. Untouched' /\ Recorded'
    BY DEF TypeOK, Captured, Untouched, Recorded, Uncaptured
  <2>3. Unwinding' /\ Reported'
    BY DEF TypeOK, Untouched, Recorded, Unwinding, Reported
  <2>4. OriginalOnDisk' /\ ModeKept'
    BY DEF Recovered, Untouched, Recorded, OriginalOnDisk, ModeKept
  <2>5. QED
    BY <2>1, <2>2, <2>3, <2>4
<1>2. ASSUME NEW p \in Path, CaptureOne(p)
      PROVE  IInv'
  <2> USE <1>2 DEF IInv, CaptureOne
  <2>1. fs[p] \in WellFormedEntry /\ fs[p] = orig[p] /\ fs[p] \in Entry
    BY DEF Untouched, TypeOK
  <2>2. TakeSnapshot(fs[p]) \in SnapshotOrNone
    BY <2>1, SnapshotTypes DEF SnapshotOrNone
  <2>3. TypeOK'
    BY <2>1, <2>2 DEF TypeOK
  <2>4. Untouched'
    <3>1. p \in declared => \A q \in declared' \ todo' : Captured(q)'
      BY <2>1 DEF TypeOK, Captured, Untouched
    <3>2. \A q \in Path \ declared : q # p => snapshots'[q] = NoSnapshot
      BY DEF TypeOK, Untouched
    <3>3. todo \subseteq declared
      BY DEF Untouched
    <3>4. QED
      BY <3>1, <3>2, <3>3 DEF TypeOK, Untouched
  <2>5. Recorded' /\ Unwinding' /\ Reported' /\ ModeKept'
    BY DEF Recorded, Unwinding, Reported, ModeKept
  <2>6. OriginalOnDisk'
    BY DEF TypeOK, Untouched, Uncaptured, Recovered, OriginalOnDisk
  <2>7. QED
    BY <2>3, <2>4, <2>5, <2>6
<1>3. ASSUME WritePending
      PROVE  IInv'
  <2> USE <1>3 DEF IInv, WritePending, memory
  <2>1. \A p \in declared : Captured(p)
    BY DEF Untouched
  <2>2. \A p \in Path \ declared : snapshots[p] = NoSnapshot
    BY DEF Untouched
  <2>3. TypeOK'
    BY DEF TypeOK, ManifestState
  <2>4. Untouched' /\ Unwinding' /\ Reported' /\ ModeKept'
    BY DEF Untouched, Unwinding, Reported, ModeKept
  <2>5. Recorded'
    BY <2>1, <2>2 DEF Recorded, Captured
  <2>6. OriginalOnDisk'
    <3> SUFFICES ASSUME NEW p \in Path PROVE Recovered(p)' = orig[p]
      BY DEF OriginalOnDisk
    <3>1. CASE p \in declared
      BY <3>1, <2>1, CapturedRestores DEF Recovered
    <3>2. CASE p \notin declared
      BY <3>2, <2>2 DEF Recovered, Untouched
    <3>3. QED
      BY <3>1, <3>2
  <2>7. QED
    BY <2>3, <2>4, <2>5, <2>6
<1>4. ASSUME CaptureFails
      PROVE  IInv'
  <2> USE <1>4 DEF IInv, CaptureFails, End, disk, memory
  <2>1. TypeOK'
    BY DEF TypeOK, ManifestState
  <2>2. Untouched' /\ Recorded'
    BY DEF TypeOK, Captured, Untouched, Recorded
  <2>3. Unwinding' /\ Reported'
    BY DEF TypeOK, Untouched, Recorded, Unwinding, Reported
  <2>4. OriginalOnDisk' /\ ModeKept'
    BY DEF Recovered, Untouched, Recorded, OriginalOnDisk, ModeKept
  <2>5. QED
    BY <2>1, <2>2, <2>3, <2>4
<1>5. ASSUME NEW a \in Path, NEW e \in Path, NEW c \in Content, WriteDeployment(a, e, c)
      PROVE  IInv'
  <2> USE <1>5 DEF IInv, WriteDeployment, Calling, disk
  <2>1. TypeOK'
    BY MaxCallsAssumption DEF TypeOK, ManifestState
  <2>2. Untouched' /\ Recorded'
    BY DEF TypeOK, Captured, Untouched, Recorded
  <2>3. Unwinding' /\ Reported'
    BY DEF TypeOK, Untouched, Recorded, Unwinding, Reported
  <2>4. OriginalOnDisk' /\ ModeKept'
    BY DEF Recovered, Untouched, Recorded, OriginalOnDisk, ModeKept
  <2>5. QED
    BY <2>1, <2>2, <2>3, <2>4
<1>6. ASSUME WriteNext
      PROVE  IInv'
  <2> DEFINE p == Head(job.rest)
             e == File(job.text, snapshots[p].mode)
  <2> USE <1>6 DEF IInv, WriteNext, Written, CheckPath
  <2>1. p \in declared /\ Captured(p) /\ snapshots[p] \in Snapshot
    BY CapturedRestores DEF TypeOK, Recorded
  <2>2. e \in Entry /\ e.kind = "file" /\ e.mode = snapshots[p].mode
    BY <2>1, EntryTypes DEF TypeOK, Snapshot, File
  <2>3. job' \in [text : Content \cup {NoData}, rest : Seq(Path)]
    <3>1. Tail(job.rest) \in Seq(Path)
      BY DEF TypeOK
    <3>2. QED
      BY <3>1, JobTypes DEF TypeOK
  <2>4. fs' \in [Path -> Entry]
    BY <2>2 DEF TypeOK
  <2>5. TypeOK'
    BY <2>3, <2>4 DEF TypeOK
  <2>6. Untouched' /\ Recorded' /\ Unwinding' /\ Reported'
    BY DEF TypeOK, Captured, Untouched, Recorded, Unwinding, Reported
  <2>7. OriginalOnDisk'
    BY <2>1, <2>2, DeclaredFrame
  <2>8. ModeKept'
    <3>1. orig[p].kind = "file" => e.mode = orig[p].mode
      BY <2>1, <2>2, CapturedRestores DEF TypeOK
    <3>2. QED
      BY <2>1, <2>2, <3>1, ModeFrame DEF TypeOK
  <2>9. QED
    BY <2>5, <2>6, <2>7, <2>8
<1>7. ASSUME NEW p \in Path, Remove(p)
      PROVE  IInv'
  <2> USE <1>7 DEF IInv, Remove, Calling, CheckPath
  <2>1. Absent \in Entry /\ Absent.kind = "absent"
    BY EntryTypes DEF Absent
  <2>2. TypeOK'
    BY <2>1, MaxCallsAssumption DEF TypeOK
  <2>3. Untouched' /\ Recorded' /\ Unwinding' /\ Reported'
    BY DEF TypeOK, Captured, Untouched, Recorded, Unwinding, Reported
  <2>4. OriginalOnDisk'
    BY <2>1, DeclaredFrame
  <2>5. ModeKept'
    BY <2>1, ModeFrame
  <2>6. QED
    BY <2>2, <2>3, <2>4, <2>5
<1>8. ASSUME BodyReturns
      PROVE  IInv'
  <2> USE <1>8 DEF IInv, BodyReturns, disk, memory
  <2>1. TypeOK'
    BY DEF TypeOK, ManifestState
  <2>2. Untouched' /\ Recorded'
    BY DEF TypeOK, Captured, Untouched, Recorded
  <2>3. Unwinding' /\ Reported'
    BY DEF TypeOK, Untouched, Recorded, Unwinding, Reported
  <2>4. OriginalOnDisk' /\ ModeKept'
    BY DEF Recovered, Untouched, Recorded, OriginalOnDisk, ModeKept
  <2>5. QED
    BY <2>1, <2>2, <2>3, <2>4
<1>9. ASSUME BodyRaises
      PROVE  IInv'
  <2> USE <1>9 DEF IInv, BodyRaises, disk
  <2>1. TypeOK'
    BY JobTypes DEF TypeOK, ManifestState
  <2>2. Untouched' /\ Recorded'
    BY DEF TypeOK, Captured, Untouched, Recorded
  <2>3. Unwinding' /\ Reported'
    BY DEF TypeOK, Untouched, Recorded, Unwinding, Reported
  <2>4. OriginalOnDisk' /\ ModeKept'
    BY DEF Recovered, Untouched, Recorded, OriginalOnDisk, ModeKept
  <2>5. QED
    BY <2>1, <2>2, <2>3, <2>4
<1>10. ASSUME NEW p \in Path, RestoreEntry(p)
      PROVE  IInv'
  <2> DEFINE e == IF snapshots[p].backup THEN File(backup[p].data, snapshots[p].mode)
                  ELSE Absent
  <2> USE <1>10 DEF IInv, RestoreEntry, Restoring
  <2>1. p \in declared /\ Captured(p)
    BY DEF Recorded, Unwinding
  <2>2. e = orig[p] /\ e \in Entry
    BY <2>1, CapturedRestores DEF TypeOK
  <2>3. TypeOK'
    BY <2>2 DEF TypeOK
  <2>4. Untouched' /\ Recorded'
    BY DEF Captured, Untouched, Recorded
  <2>5. Unwinding' /\ Reported'
    BY <2>1, <2>2 DEF TypeOK, Untouched, Recorded, Unwinding, Reported
  <2>6. OriginalOnDisk'
    BY <2>1, <2>2, DeclaredFrame
  <2>7. ModeKept'
    BY <2>2, ModeFrame
  <2>8. QED
    BY <2>3, <2>4, <2>5, <2>6, <2>7
<1>11. ASSUME NEW p \in Path, UnlinkForLink(p)
      PROVE  IInv'
  <2> USE <1>11 DEF IInv, UnlinkForLink, Restoring
  <2>1. Absent \in Entry /\ Absent.kind = "absent"
    BY EntryTypes DEF Absent
  <2>2. p \in declared
    BY DEF Unwinding
  <2>3. TypeOK'
    BY <2>1 DEF TypeOK
  <2>4. Untouched' /\ Recorded' /\ Unwinding' /\ Reported'
    BY DEF TypeOK, Captured, Untouched, Recorded, Unwinding, Reported
  <2>5. OriginalOnDisk'
    BY <2>1, <2>2, DeclaredFrame
  <2>6. ModeKept'
    BY <2>1, ModeFrame
  <2>7. QED
    BY <2>3, <2>4, <2>5, <2>6
<1>12. ASSUME MakeLink
      PROVE  IInv'
  <2> DEFINE p == relinking
             e == Link(snapshots[p].link)
  <2> USE <1>12 DEF IInv, MakeLink
  <2>1. p \in declared /\ Captured(p) /\ snapshots[p].link # NoPath /\ p \in Path
    BY DEF TypeOK, Recorded, Unwinding
  <2>2. e = orig[p] /\ e \in Entry
    BY <2>1, CapturedRestores DEF TypeOK
  <2>3. TypeOK'
    BY <2>2 DEF TypeOK
  <2>4. Untouched' /\ Recorded'
    BY DEF Captured, Untouched, Recorded
  <2>5. Unwinding' /\ Reported'
    BY <2>1, <2>2 DEF TypeOK, Untouched, Recorded, Unwinding, Reported
  <2>6. OriginalOnDisk'
    BY <2>1, <2>2, DeclaredFrame
  <2>7. ModeKept'
    BY <2>1, <2>2, ModeFrame
  <2>8. QED
    BY <2>3, <2>4, <2>5, <2>6, <2>7
<1>13. ASSUME NEW p \in Path, RestoreFails(p)
      PROVE  IInv'
  <2> USE <1>13 DEF IInv, RestoreFails, Restoring, disk
  <2>1. TypeOK'
    BY DEF TypeOK, ManifestState
  <2>2. Untouched' /\ Recorded'
    BY DEF TypeOK, Captured, Untouched, Recorded
  <2>3. Unwinding' /\ Reported'
    BY DEF TypeOK, Untouched, Recorded, Unwinding, Reported
  <2>4. OriginalOnDisk' /\ ModeKept'
    BY DEF Recovered, Untouched, Recorded, OriginalOnDisk, ModeKept
  <2>5. QED
    BY <2>1, <2>2, <2>3, <2>4
<1>14. ASSUME FinishRollback
      PROVE  IInv'
  <2> USE <1>14 DEF IInv, FinishRollback, Restored, End, memory
  <2>1. TypeOK'
    BY DEF TypeOK, ManifestState
  <2>2. Untouched' /\ Recorded'
    BY DEF TypeOK, Captured, Untouched, Recorded
  <2>3. Unwinding' /\ Reported'
    <3>1. ASSUME ~ errors PROVE fs = orig
      <4>1. \A p \in declared : fs[p] = orig[p]
        BY <3>1 DEF Unwinding
      <4>2. \A p \in Path \ declared : fs[p] = orig[p]
        BY DEF Recorded, OriginalOnDisk, Recovered
      <4>3. QED
        BY <4>1, <4>2 DEF TypeOK
    <3>2. Unwinding'
      BY DEF Unwinding
    <3>3. Reported'
      BY <3>1 DEF Reported, TypeOK
    <3>4. QED
      BY <3>2, <3>3
  <2>4. OriginalOnDisk' /\ ModeKept'
    BY DEF Recovered, Untouched, Recorded, OriginalOnDisk, ModeKept
  <2>5. QED
    BY <2>1, <2>2, <2>3, <2>4
<1>15. ASSUME FinishRollbackUnrecorded
      PROVE  IInv'
  <2> USE <1>15 DEF IInv, FinishRollbackUnrecorded, Restored, End, memory, disk
  <2>1. TypeOK'
    BY DEF TypeOK, ManifestState
  <2>2. Untouched' /\ Recorded'
    BY DEF TypeOK, Captured, Untouched, Recorded
  <2>3. Unwinding' /\ Reported'
    BY DEF TypeOK, Untouched, Recorded, Unwinding, Reported
  <2>4. OriginalOnDisk' /\ ModeKept'
    BY DEF Recovered, Untouched, Recorded, OriginalOnDisk, ModeKept
  <2>5. QED
    BY <2>1, <2>2, <2>3, <2>4
<1>16. ASSUME Commit
      PROVE  IInv'
  <2> USE <1>16 DEF IInv, Commit, End, memory
  <2>1. TypeOK'
    BY DEF TypeOK, ManifestState
  <2>2. Untouched' /\ Recorded'
    BY DEF TypeOK, Captured, Untouched, Recorded
  <2>3. Unwinding' /\ Reported'
    BY DEF TypeOK, Untouched, Recorded, Unwinding, Reported
  <2>4. OriginalOnDisk' /\ ModeKept'
    BY DEF Recovered, Untouched, Recorded, OriginalOnDisk, ModeKept
  <2>5. QED
    BY <2>1, <2>2, <2>3, <2>4
<1>17. ASSUME CommitUnrecorded
      PROVE  IInv'
  <2> USE <1>17 DEF IInv, CommitUnrecorded, End, memory, disk
  <2>1. TypeOK'
    BY DEF TypeOK, ManifestState
  <2>2. Untouched' /\ Recorded'
    BY DEF TypeOK, Captured, Untouched, Recorded
  <2>3. Unwinding' /\ Reported'
    BY DEF TypeOK, Untouched, Recorded, Unwinding, Reported
  <2>4. OriginalOnDisk' /\ ModeKept'
    BY DEF Recovered, Untouched, Recorded, OriginalOnDisk, ModeKept
  <2>5. QED
    BY <2>1, <2>2, <2>3, <2>4
<1>18. ASSUME Crash
      PROVE  IInv'
  <2> USE <1>18 DEF IInv, Crash, disk
  <2>1. TypeOK'
    <3>1. calls' \in 0..MaxCalls
      BY MaxCallsAssumption
    <3>2. job' \in [text : Content \cup {NoData}, rest : Seq(Path)]
      BY JobTypes
    <3>3. snapshots' \in [Path -> SnapshotOrNone]
      BY SnapshotTypes
    <3>4. QED
      BY <3>1, <3>2, <3>3 DEF TypeOK
  <2>2. Untouched' /\ Recorded'
    BY DEF TypeOK, Captured, Untouched, Recorded
  <2>3. Unwinding' /\ Reported'
    BY DEF TypeOK, Untouched, Recorded, Unwinding, Reported
  <2>4. OriginalOnDisk' /\ ModeKept'
    BY DEF Recovered, Untouched, Recorded, OriginalOnDisk, ModeKept
  <2>5. QED
    BY <2>1, <2>2, <2>3, <2>4
<1>19. CASE UNCHANGED vars
  BY <1>19 DEF vars, IInv, TypeOK, Untouched, Recorded, Unwinding, Reported, OriginalOnDisk,
             ModeKept, Captured, Recovered
<1>20. QED
  BY <1>1, <1>2, <1>3, <1>4, <1>5, <1>6, <1>7, <1>8, <1>9, <1>10,
     <1>11, <1>12, <1>13, <1>14, <1>15, <1>16, <1>17, <1>18, <1>19
  DEF Next, Capture, Body, Rollback

-----------------------------------------------------------------------------
(* The theorems *)

LEMMA Invariance == Spec => []IInv
BY IInvInit, IInvStep, PTL DEF Spec

\* Every variable keeps a value of its type (the whole of FileTransaction).
THEOREM TypeCorrect == Spec => []TypeOK
<1>1. IInv => TypeOK
  BY DEF IInv
<1>2. QED
  BY <1>1, Invariance, PTL

\* At every instant the previous contents, links and modes can be rebuilt from
\* the disk alone (capture, write_manifest, rollback).
THEOREM OriginalRecoverable == Spec => []OriginalOnDisk
<1>1. IInv => OriginalOnDisk
  BY DEF IInv
<1>2. QED
  BY <1>1, Invariance, PTL

\* What is not as it was, without success reported, is flagged by a manifest
\* that is pending or rollback_failed (write_manifest).
THEOREM DamageFlagged == Spec => []DamageIsFlagged
<1>1. IInv => DamageIsFlagged
  BY DEF IInv, TypeOK, ManifestState, Reported, DamageIsFlagged
<1>2. QED
  BY <1>1, Invariance, PTL

\* A failure reported without rollback_failed has restored everything
\* (rollback).
THEOREM FailureRestores == Spec => []FailureLeavesNoTrace
<1>1. IInv => FailureLeavesNoTrace
  BY DEF IInv, Reported, FailureLeavesNoTrace
<1>2. QED
  BY <1>1, Invariance, PTL

\* A plain file keeps its permission bits (Snapshot.mode).
THEOREM ModesKept == Spec => []ModeKept
<1>1. IInv => ModeKept
  BY DEF IInv
<1>2. QED
  BY <1>1, Invariance, PTL

-----------------------------------------------------------------------------
(* Refinement *)

LEMMA SavedIsOriginal == IInv /\ outcome # "ok" => Saved = orig
BY DEF IInv, TypeOK, OriginalOnDisk, Saved

\* Once the caller has its verdict the object takes no step.
LEMMA OpenWhileWorking == IInv /\ Next => outcome = "none"
BY DEF IInv, Reported, Next, Capture, Body, Rollback, Open, CaptureOne, WritePending,
       CaptureFails, WriteDeployment, Calling, WriteNext, Remove, BodyReturns, BodyRaises,
       RestoreEntry, UnlinkForLink, Restoring, MakeLink, RestoreFails, FinishRollback,
       FinishRollbackUnrecorded, Restored, Commit, CommitUnrecorded, Crash

\* Files change only while no verdict is given, and a verdict is given without
\* touching them.
LEMMA VerdictKeepsFiles == Next => (outcome' = outcome \/ fs' = fs)
BY DEF Next, Capture, Body, Rollback, Open, CaptureOne, WritePending,
       CaptureFails, WriteDeployment, WriteNext, Remove, BodyReturns, BodyRaises,
       RestoreEntry, UnlinkForLink, MakeLink, RestoreFails, FinishRollback,
       FinishRollbackUnrecorded, Commit, CommitUnrecorded, Crash, End, disk

LEMMA OriginalKept == Next => orig' = orig
BY DEF Next, Capture, Body, Rollback, Open, CaptureOne, WritePending,
       CaptureFails, WriteDeployment, WriteNext, Remove, BodyReturns, BodyRaises,
       RestoreEntry, UnlinkForLink, MakeLink, RestoreFails, FinishRollback,
       FinishRollbackUnrecorded, Commit, CommitUnrecorded, Crash

\* FileTransaction implements AllOrNothing.
THEOREM Refinement == Spec => AbstractSpec
<1> USE DEF Abstract!Init, Abstract!Next, Abstract!absVars, Abstract!Work,
            Abstract!Succeed, Abstract!Fail, Abstract!FailToRestore
<1>1. Init => Abstract!Init
  BY IInvInit, SavedIsOriginal DEF Init, IInv, TypeOK
<1>2. IInv /\ IInv' /\ [Next]_vars => [Abstract!Next]_(Abstract!absVars)
  <2> SUFFICES ASSUME IInv, IInv', [Next]_vars
               PROVE  [Abstract!Next]_(Abstract!absVars)
    OBVIOUS
  <2>1. CASE UNCHANGED vars
    BY <2>1 DEF vars, Saved, Recovered
  <2>2. CASE Next
    <3>1. outcome = "none" /\ Saved = orig /\ orig' = orig
      BY <2>2, OpenWhileWorking, SavedIsOriginal, OriginalKept
    <3>2. outcome' # "ok" => Saved' = orig'
      BY SavedIsOriginal DEF Saved, Recovered, IInv, TypeOK, OriginalOnDisk
    <3>3. CASE outcome' = "none"
      BY <3>1, <3>2, <3>3 DEF IInv, TypeOK
    <3>4. CASE outcome' = "ok"
      BY <2>2, <3>1, <3>4, VerdictKeepsFiles DEF Saved
    <3>5. CASE outcome' = "failed"
      BY <2>2, <3>1, <3>2, <3>5, VerdictKeepsFiles DEF IInv, Reported
    <3>6. CASE outcome' = "rollback_failed"
      BY <2>2, <3>1, <3>2, <3>6, VerdictKeepsFiles
    <3>7. QED
      BY <3>3, <3>4, <3>5, <3>6 DEF IInv, TypeOK
  <2>3. QED
    BY <2>1, <2>2
<1>3. QED
  BY <1>1, <1>2, Invariance, PTL DEF Spec, AbstractSpec, Abstract!Spec
=============================================================================
