--------------------------- MODULE FileTransaction ---------------------------
(***************************************************************************)
(* backend/services/file_transaction.py: one FileTransaction object, from  *)
(* its constructor to commit() or rollback(), on the file system it works  *)
(* on.  The caller is Nginx.transaction (backend/services/nginx.py): it    *)
(* captures, runs a body that writes deployments and removes files, then   *)
(* commits when the body returned and rolls back when it raised.           *)
(*                                                                         *)
(* Any call that touches the disk may raise OSError, and the process may   *)
(* die between any two of them.  What survives a crash is the disk: fs,    *)
(* backup and manifest.                                                    *)
(***************************************************************************)
EXTENDS Naturals, Sequences

CONSTANTS
  Path,         \* every path of the file system the model knows
  ConfigPath,   \* the .conf paths inside the four configuration directories
  Content,      \* what a plain file may hold
  Mode,         \* permission bits
  DefaultMode,  \* 0o644, the mode of a file that was not there before
  MaxCalls      \* bound: calls of write_deployment and remove in one body

NoData == "no data"
NoPath == "no path"
NoMode == "no mode"

ASSUME PathAssumption == ConfigPath \subseteq Path /\ NoPath \notin Path
ASSUME ModeAssumption == DefaultMode \in Mode /\ NoMode \notin Mode
ASSUME MaxCallsAssumption == MaxCalls \in Nat

VARIABLES
  fs,         \* what each path holds
  orig,       \* history: what each path held when the transaction was opened
  backup,     \* the .bak files of the transaction's own directory
  manifest,   \* its manifest.json: a state and the record of each file
  pc,         \* where the transaction is
  declared,   \* the keys of self.snapshots
  snapshots,  \* self.snapshots, in memory
  todo,       \* the paths that capture or rollback has not visited yet
  relinking,  \* the link rollback has unlinked and not made again
  job,        \* write_deployment under way: its text, the paths left to write
  calls,      \* how many calls the body has made
  errors,     \* rollback collected an OSError
  outcome     \* what the caller of the transaction sees

disk == <<fs, backup, manifest>>
memory == <<declared, snapshots, todo, relinking, job, calls, errors>>
vars == <<fs, orig, backup, manifest, pc, declared, snapshots, todo, relinking,
          job, calls, errors, outcome>>

-----------------------------------------------------------------------------
\* A path holds nothing, a plain file, a symbolic link to another path, or
\* something else (a directory).
Entry == [kind : {"absent", "file", "link", "other"},
          data : Content \cup Path \cup {NoData},
          mode : Mode]

Absent == [kind |-> "absent", data |-> NoData, mode |-> DefaultMode]
File(c, m) == [kind |-> "file", data |-> c, mode |-> m]
Link(target) == [kind |-> "link", data |-> target, mode |-> DefaultMode]
Other == [kind |-> "other", data |-> NoData, mode |-> DefaultMode]

WellFormedEntry == {Absent, Other} \cup {File(c, m) : c \in Content, m \in Mode}
                     \cup {Link(p) : p \in Path}

Snapshot == [backup : BOOLEAN, link : Path \cup {NoPath}, mode : Mode]
NoSnapshot == [backup |-> FALSE, link |-> NoPath, mode |-> NoMode]

ManifestState == {"none", "pending", "committed", "rolled_back", "rollback_failed"}
Uncaptured == [p \in Path |-> NoSnapshot]
NoJob == [text |-> NoData, rest |-> <<>>]

Init ==
  /\ fs \in [Path -> WellFormedEntry]
  /\ \A p \in Path : fs[p] # Link(p)
  /\ orig = fs
  /\ backup = [p \in Path |-> Absent]
  /\ manifest = [state |-> "none", files |-> Uncaptured]
  /\ pc = "closed"
  /\ declared = {}
  /\ snapshots = Uncaptured
  /\ todo = {}
  /\ relinking = NoPath
  /\ job = NoJob
  /\ calls = 0
  /\ errors = FALSE
  /\ outcome = "none"

End(result) == pc' = "done" /\ outcome' = result

-----------------------------------------------------------------------------
(* capture() *)

\* The constructor takes the paths of one domain's deployments; a path outside
\* the configuration directories is refused before anything is touched.
Open(paths) ==
  /\ pc = "closed"
  /\ declared' = paths
  /\ IF paths \subseteq ConfigPath
     THEN /\ pc' = "capture"
          /\ todo' = paths
          /\ outcome' = outcome
     ELSE End("failed") /\ todo' = {}
  /\ UNCHANGED <<disk, orig, snapshots, relinking, job, calls, errors>>

\* Mutation of TakeSnapshot: only a plain file gets a mode.
TakeSnapshotWithoutDefault(entry) ==
  [backup |-> entry.kind = "file",
   link   |-> IF entry.kind = "link" THEN entry.data ELSE NoPath,
   mode   |-> IF entry.kind = "file" THEN entry.mode ELSE NoMode]

\* What capture remembers of an entry.
TakeSnapshot(entry) ==
  [backup |-> entry.kind = "file",
   link   |-> IF entry.kind = "link" THEN entry.data ELSE NoPath,
   mode   |-> IF entry.kind = "file" THEN entry.mode ELSE DefaultMode]

CaptureOne(p) ==
  /\ pc = "capture"
  /\ p \in todo
  /\ fs[p].kind # "other"
  /\ backup' = IF fs[p].kind = "file" THEN [backup EXCEPT ![p] = fs[p]] ELSE backup
  /\ snapshots' = [snapshots EXCEPT ![p] = TakeSnapshot(fs[p])]
  /\ todo' = todo \ {p}
  /\ UNCHANGED <<fs, orig, manifest, pc, declared, relinking, job, calls, errors, outcome>>

\* Mutation of WritePending: the manifest is written with the first snapshot.
WritePendingEarly ==
  /\ pc = "capture"
  /\ manifest' = [state |-> "pending", files |-> snapshots]
  /\ pc' = "body"
  /\ UNCHANGED <<fs, orig, backup, memory, outcome>>

WritePending ==
  /\ pc = "capture"
  /\ todo = {}
  /\ manifest' = [state |-> "pending", files |-> snapshots]
  /\ pc' = "body"
  /\ UNCHANGED <<fs, orig, backup, memory, outcome>>

\* capture runs outside the try block: its exception (ValueError for a path
\* that is no file, OSError of any write) reaches the caller with no rollback.
CaptureFails ==
  /\ pc = "capture"
  /\ End("failed")
  /\ UNCHANGED <<disk, orig, memory>>

-----------------------------------------------------------------------------
(* the body of the transaction *)

CheckPath(p) == p \in declared

Calling == pc = "body" /\ job = NoJob /\ calls < MaxCalls

\* write_deployment writes the available file, then the enabled one.
WriteDeployment(available, enabled, text) ==
  /\ Calling
  /\ job' = [text |-> text, rest |-> <<available, enabled>>]
  /\ calls' = calls + 1
  /\ UNCHANGED <<disk, orig, pc, declared, snapshots, todo, relinking, errors, outcome>>

\* Mutation of Written: the file is opened for writing, through a link.
WrittenThroughLink(p) ==
  [fs EXCEPT ![IF fs[p].kind = "link" THEN fs[p].data ELSE p] =
     File(job.text, snapshots[p].mode)]

\* Mutation of Written: the mode is atomic_write's default.
WrittenWithDefaultMode(p) == [fs EXCEPT ![p] = File(job.text, DefaultMode)]

\* atomic_write: the new file is renamed over the path, so a link is replaced
\* and never written through; the mode is the captured one.
Written(p) == [fs EXCEPT ![p] = File(job.text, snapshots[p].mode)]

WriteNext ==
  /\ pc = "body"
  /\ job.rest # <<>>
  /\ CheckPath(Head(job.rest))
  /\ fs' = Written(Head(job.rest))
  /\ job' = IF Len(job.rest) = 1 THEN NoJob ELSE [job EXCEPT !.rest = Tail(@)]
  /\ UNCHANGED <<orig, backup, manifest, pc, declared, snapshots, todo, relinking,
                 calls, errors, outcome>>

Remove(p) ==
  /\ Calling
  /\ CheckPath(p)
  /\ fs' = [fs EXCEPT ![p] = Absent]
  /\ calls' = calls + 1
  /\ UNCHANGED <<orig, backup, manifest, pc, declared, snapshots, todo, relinking,
                 job, errors, outcome>>

BodyReturns ==
  /\ pc = "body"
  /\ job = NoJob
  /\ pc' = "commit"
  /\ UNCHANGED <<disk, orig, memory, outcome>>

\* An OSError of a write, the ValueError of check_path, a failed nginx command,
\* a failed database commit or a cancellation: the transaction does not tell
\* them apart.
BodyRaises ==
  /\ pc = "body"
  /\ pc' = "rollback"
  /\ todo' = declared
  /\ job' = NoJob
  /\ UNCHANGED <<disk, orig, declared, snapshots, relinking, calls, errors, outcome>>

-----------------------------------------------------------------------------
(* rollback() *)

Restoring(p) == pc = "rollback" /\ relinking = NoPath /\ p \in todo

\* A plain file comes back from its backup, a path that held nothing is
\* removed; each in one system call.
RestoreEntry(p) ==
  /\ Restoring(p)
  /\ snapshots[p].link = NoPath
  /\ fs' = [fs EXCEPT ![p] = IF snapshots[p].backup
                             THEN File(backup[p].data, snapshots[p].mode)
                             ELSE Absent]
  /\ todo' = todo \ {p}
  /\ UNCHANGED <<orig, backup, manifest, pc, declared, snapshots, relinking, job,
                 calls, errors, outcome>>

\* A link takes two system calls: unlink, then symlink_to.
UnlinkForLink(p) ==
  /\ Restoring(p)
  /\ snapshots[p].link # NoPath
  /\ fs' = [fs EXCEPT ![p] = Absent]
  /\ relinking' = p
  /\ UNCHANGED <<orig, backup, manifest, pc, declared, snapshots, todo, job, calls,
                 errors, outcome>>

MakeLink ==
  /\ pc = "rollback"
  /\ relinking # NoPath
  /\ fs' = [fs EXCEPT ![relinking] = Link(snapshots[relinking].link)]
  /\ todo' = todo \ {relinking}
  /\ relinking' = NoPath
  /\ UNCHANGED <<orig, backup, manifest, pc, declared, snapshots, job, calls, errors,
                 outcome>>

\* Mutation of RestoreFails: the OSError is swallowed.
SwallowRestoreError(p) ==
  /\ Restoring(p) \/ (pc = "rollback" /\ relinking = p)
  /\ todo' = todo \ {p}
  /\ relinking' = NoPath
  /\ UNCHANGED <<disk, orig, pc, declared, snapshots, job, calls, errors, outcome>>

\* An OSError is collected and the loop goes on; after unlink it leaves the
\* path without its link.
RestoreFails(p) ==
  /\ Restoring(p) \/ (pc = "rollback" /\ relinking = p)
  /\ todo' = todo \ {p}
  /\ relinking' = NoPath
  /\ errors' = TRUE
  /\ UNCHANGED <<disk, orig, pc, declared, snapshots, job, calls, outcome>>

Restored == pc = "rollback" /\ todo = {} /\ relinking = NoPath

\* Mutation of FinishRollback: the manifest does not look at the errors.
FinishRollbackUnchecked ==
  /\ Restored
  /\ manifest' = [state |-> "rolled_back", files |-> snapshots]
  /\ End(IF errors THEN "rollback_failed" ELSE "failed")
  /\ UNCHANGED <<fs, orig, backup, memory>>

FinishRollback ==
  /\ Restored
  /\ manifest' = [state |-> IF errors THEN "rollback_failed" ELSE "rolled_back",
                  files |-> snapshots]
  /\ End(IF errors THEN "rollback_failed" ELSE "failed")
  /\ UNCHANGED <<fs, orig, backup, memory>>

\* The manifest cannot be rewritten: rollback raises, and the caller turns any
\* exception of it into a NginxOperationError with rollback_failed set.
FinishRollbackUnrecorded ==
  /\ Restored
  /\ End("rollback_failed")
  /\ UNCHANGED <<disk, orig, memory>>

-----------------------------------------------------------------------------
(* commit(), whose OSError is only logged *)

Commit ==
  /\ pc = "commit"
  /\ manifest' = [state |-> "committed", files |-> snapshots]
  /\ End("ok")
  /\ UNCHANGED <<fs, orig, backup, memory>>

CommitUnrecorded ==
  /\ pc = "commit"
  /\ End("ok")
  /\ UNCHANGED <<disk, orig, memory>>

\* The process dies: what it had in memory is gone.
Crash ==
  /\ pc \notin {"closed", "done", "crashed"}
  /\ pc' = "crashed"
  /\ declared' = {}
  /\ snapshots' = Uncaptured
  /\ todo' = {}
  /\ relinking' = NoPath
  /\ job' = NoJob
  /\ calls' = 0
  /\ errors' = FALSE
  /\ UNCHANGED <<disk, orig, outcome>>

-----------------------------------------------------------------------------
Capture == (\E p \in Path : CaptureOne(p)) \/ WritePending \/ CaptureFails

Body ==
  \/ \E a, e \in Path, c \in Content : a # e /\ WriteDeployment(a, e, c)
  \/ WriteNext
  \/ \E p \in Path : Remove(p)
  \/ BodyReturns
  \/ BodyRaises

Rollback ==
  \/ \E p \in Path : RestoreEntry(p) \/ UnlinkForLink(p) \/ RestoreFails(p)
  \/ MakeLink
  \/ FinishRollback
  \/ FinishRollbackUnrecorded

Next ==
  \/ \E paths \in SUBSET Path : Open(paths)
  \/ Capture
  \/ Body
  \/ Rollback
  \/ Commit
  \/ CommitUnrecorded
  \/ Crash

Spec == Init /\ [][Next]_vars

-----------------------------------------------------------------------------
(* Properties *)

SnapshotOrNone == Snapshot \cup {NoSnapshot}

\* Every variable of the transaction and of its disk holds a value of its type.
TypeOK ==
  /\ fs \in [Path -> Entry]
  /\ orig \in [Path -> Entry]
  /\ backup \in [Path -> Entry]
  /\ manifest \in [state : ManifestState, files : [Path -> SnapshotOrNone]]
  /\ pc \in {"closed", "capture", "body", "rollback", "commit", "done", "crashed"}
  /\ declared \in SUBSET Path
  /\ snapshots \in [Path -> SnapshotOrNone]
  /\ todo \in SUBSET Path
  /\ relinking \in Path \cup {NoPath}
  /\ job \in [text : Content \cup {NoData}, rest : Seq(Path)]
  /\ calls \in 0..MaxCalls
  /\ errors \in BOOLEAN
  /\ outcome \in {"none", "ok", "failed", "rollback_failed"}

\* What an operator rebuilds for a path from what is on disk alone: the record
\* in manifest.json and the backup it names.
Recovered(p) ==
  LET record == manifest.files[p]
  IN  IF record = NoSnapshot THEN fs[p]
      ELSE IF record.link # NoPath THEN Link(record.link)
      ELSE IF record.backup THEN File(backup[p].data, record.mode)
      ELSE Absent

\* At every instant, a crash included, the previous configuration can be put
\* together again from the disk: contents, links and modes, and no path outside
\* the transaction has changed, not even the target of a link that was
\* overwritten (capture, write_manifest, atomic_write).
OriginalOnDisk == \A p \in Path : Recovered(p) = orig[p]

\* Files that are not the previous ones, without success having been reported,
\* always come with a manifest an operator is told to look at: pending or
\* rollback_failed, never none, rolled_back or committed (write_manifest).
DamageIsFlagged ==
  (fs # orig /\ outcome # "ok") => manifest.state \in {"pending", "rollback_failed"}

\* A failure reported without rollback_failed left every path as it was found
\* (capture and rollback).
FailureLeavesNoTrace == outcome = "failed" => fs = orig

\* A plain file that is still a plain file never changes its permission bits,
\* whether it was rewritten, removed and written again, or restored
\* (Snapshot.mode).
ModeKept ==
  \A p \in Path :
    (orig[p].kind = "file" /\ fs[p].kind = "file") => fs[p].mode = orig[p].mode

\* The previous contents until success is reported, the new ones from then on.
Saved == IF outcome = "ok" THEN fs ELSE [p \in Path |-> Recovered(p)]

\* The transaction implements its abstraction: what can be recovered changes in
\* the single step that reports success.
Abstract == INSTANCE AllOrNothing WITH
              actual <- fs, saved <- Saved, verdict <- outcome

AbstractSpec == Abstract!Spec
=============================================================================
