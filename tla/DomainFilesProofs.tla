------------------------- MODULE DomainFilesProofs -------------------------
(***************************************************************************)
(* Proofs that relate the files of DomainService to its rows, to what      *)
(* nginx runs and to the certificates on disk.                             *)
(*                                                                         *)
(* Between operations the files follow the database.  While an operation   *)
(* changes them, its snapshot does, the paths of other domains are as in   *)
(* the snapshot, and a path of its own is either still to be changed or as *)
(* the operation wants it.                                                 *)
(*                                                                         *)
(* From this it follows that a success heals its domain, that the others   *)
(* are left alone and, with what is known of the certificates on disk, that*)
(* a stopped container can start and that nginx serves no name that its    *)
(* certificate lacks.  At the end: an operation never turns back.          *)
(***************************************************************************)
EXTENDS DomainServiceProofs

\* The files of a row's history are what the row says is applied.
RowFollowed(row, f) ==
  \A s \in Slots(row) :
    /\ f[<<"enabled", s>>] = AsApplied(row, s)
    /\ row.enabled => f[<<"available", s>>] = AsApplied(row, s)

Owned(rows, f) ==
  \A g \in File : f[g] # NoText => \E d \in Domain : rows[d] # NoRow /\ g[2] \in Slots(rows[d])

Follows(rows, f) ==
  /\ \A d \in Domain : rows[d] # NoRow => RowFollowed(rows[d], f)
  /\ Owned(rows, f)

-----------------------------------------------------------------------------
(* Rows that say the same of their files *)

\* What is applied depends on the applied deployments only.
LEMMA SameApplied ==
  ASSUME NEW row, RowOK(row), HasApplied(row), NEW r,
         AppliedIndices(r) = AppliedIndices(row),
         \A i \in AppliedIndices(row) : r.deployments[i].text = row.deployments[i].text
  PROVE  Applied(r).text = Applied(row).text
<1> DEFINE I == AppliedIndices(row)
           m == CHOOSE i \in I : \A j \in I : j <= i
<1>1. PICK k \in I : TRUE
  BY DEF HasApplied
<1>2. k \in Nat /\ \A j \in I : j = k
  BY <1>1 DEF RowOK, AppliedIndices, Indices, Row
<1>3. k <= k
  BY <1>2
<1>4. m \in I
  BY <1>1, <1>2, <1>3
<1>5. Applied(r) = r.deployments[m] /\ Applied(row) = row.deployments[m]
  BY DEF Applied
<1>6. QED
  BY <1>4, <1>5

\* The slot of what is applied is one of the row's.
LEMMA AppliedSlot ==
  ASSUME NEW row, RowOK(row), HasApplied(row)
  PROVE  SlotOf(Applied(row).text.cfg) \in Slots(row)
<1> DEFINE I == AppliedIndices(row)
           m == CHOOSE i \in I : \A j \in I : j <= i
<1>1. PICK k \in I : TRUE
  BY DEF HasApplied
<1>2. k \in Nat /\ \A j \in I : j = k
  BY <1>1 DEF RowOK, AppliedIndices, Indices, Row
<1>3. k <= k
  BY <1>2
<1>4. m \in I
  BY <1>1, <1>2, <1>3
<1>5. m \in Indices(row) /\ Applied(row) = row.deployments[m]
  BY <1>4 DEF Applied, AppliedIndices
<1> HIDE DEF m
<1>6. QED
  BY <1>5 DEF Slots

\* A deployment that was just marked is the one applied.
LEMMA MarkedApplied ==
  ASSUME NEW s \in Seq(Deployment), Len(s) > 0, NEW r, r.deployments = MarkApplied(s)
  PROVE  HasApplied(r) /\ Applied(r).text = s[Len(s)].text
<1>1. Len(s) \in Nat /\ Len(s) \in 1..Len(s) /\ DOMAIN r.deployments = 1..Len(s)
  BY MarkAppliedFacts
<1>2. AppliedIndices(r) = {Len(s)}
  BY <1>1, MarkAppliedFacts DEF AppliedIndices, Indices
<1>3. (CHOOSE i \in {Len(s)} : \A j \in {Len(s)} : j <= i) = Len(s)
  BY <1>1
<1>4. Applied(r) = r.deployments[Len(s)]
  BY <1>2, <1>3 DEF Applied
<1>5. QED
  BY <1>1, <1>2, <1>4, MarkAppliedFacts DEF HasApplied

LEMMA SameFollowed ==
  ASSUME NEW row, NEW r, NEW f, RowFollowed(row, f), Slots(r) = Slots(row),
         r.enabled = row.enabled, row.enabled => Applied(r).text = Applied(row).text
  PROVE  RowFollowed(r, f)
BY DEF RowFollowed, AsApplied

\* A row that is written over one with the same slots.
LEMMA FollowsReplaced ==
  ASSUME NEW rows \in [Domain -> Row \cup {NoRow}], NEW f, Follows(rows, f),
         NEW d \in Domain, rows[d] # NoRow, NEW r, r # NoRow,
         Slots(rows[d]) \subseteq Slots(r), RowFollowed(r, f)
  PROVE  Follows([rows EXCEPT ![d] = r], f)
<1> DEFINE new == [rows EXCEPT ![d] = r]
<1>1. new[d] = r /\ \A e \in Domain \ {d} : new[e] = rows[e]
  OBVIOUS
<1> HIDE DEF new
<1>2. \A e \in Domain : new[e] # NoRow => RowFollowed(new[e], f)
  BY <1>1 DEF Follows
<1>3. Owned(new, f)
  <2> SUFFICES ASSUME NEW g \in File, f[g] # NoText
               PROVE  \E e \in Domain : new[e] # NoRow /\ g[2] \in Slots(new[e])
    BY DEF Owned
  <2>1. PICK e \in Domain : rows[e] # NoRow /\ g[2] \in Slots(rows[e])
    BY DEF Follows, Owned
  <2>2. CASE e = d
    BY <1>1, <2>1, <2>2
  <2>3. CASE e # d
    BY <1>1, <2>1, <2>3
  <2> QED BY <2>2, <2>3
<1> QED BY <1>2, <1>3 DEF Follows, new

\* A new row whose paths hold nothing.
LEMMA FollowsAdded ==
  ASSUME NEW rows \in [Domain -> Row \cup {NoRow}], NEW f, Follows(rows, f),
         NEW d \in Domain, rows[d] = NoRow, NEW r, RowFollowed(r, f)
  PROVE  Follows([rows EXCEPT ![d] = r], f)
<1> DEFINE new == [rows EXCEPT ![d] = r]
<1>1. new[d] = r /\ \A e \in Domain \ {d} : new[e] = rows[e]
  OBVIOUS
<1> HIDE DEF new
<1>2. \A e \in Domain : new[e] # NoRow => RowFollowed(new[e], f)
  BY <1>1 DEF Follows
<1>3. Owned(new, f)
  BY <1>1 DEF Follows, Owned
<1> QED BY <1>2, <1>3 DEF Follows, new

LEMMA SlotsTyped ==
  ASSUME NEW row, RowOK(row)
  PROVE  Slots(row) \subseteq Slot
<1> SUFFICES ASSUME NEW i \in Indices(row) PROVE SlotOf(row.deployments[i].text.cfg) \in Slot
  BY DEF Slots
<1>1. row.deployments[i] \in Deployment
  BY DeploymentAt
<1>2. row.deployments[i].text.cfg \in PayloadType
  BY <1>1, PayloadAssumption DEF Deployment, Text
<1> QED BY <1>2 DEF PayloadType, SlotOf, Slot

\* A slot no other row has, and this one not before, holds nothing.
LEMMA NewSlotIsFree ==
  ASSUME IInv, NEW f, Follows(db, f), NEW d \in Domain, NEW s \in Slot,
         \A e \in Others(d) : s \notin Slots(db[e]), Exists(d) => s \notin Slots(db[d]),
         NEW side \in Side
  PROVE  f[<<side, s>>] = NoText
<1>1. <<side, s>> \in File /\ <<side, s>>[2] = s
  BY DEF File
<1>2. \A e \in Domain : db[e] # NoRow => s \notin Slots(db[e])
  BY DEF Others, Exists
<1> QED BY <1>1, <1>2 DEF Follows, Owned

-----------------------------------------------------------------------------
(* The invariant *)

Harmless == alarm \cap {"crash", "files", "commit_unknown"} = {}

\* What may have left files behind is flagged.
Flags == alarm \cap {"crash", "files"} # {} => flagged

\* Only an issuance writes twice, and it commits after the second time.
Shape ==
  /\ op.pc # "idle" => phase = "up"
  /\ op.tls => op.kind = "issue"
  /\ op.pc = "capture" => ~ op.tls
  /\ op.pc \in {"certbot", "expiry"} => op.kind = "issue" /\ ~ op.tls
  /\ op.pc = "commit" /\ op.kind = "issue" => op.tls

Clean == {"idle", "capture", "retest", "rereload", "record"}
Changing == {"change", "test", "reload", "certbot", "expiry", "commit"}

\* How far the body has come: a path it has nothing left to do with is as the
\* operation wants it, whatever went wrong before.
Body ==
  /\ op.todo \subseteq Declared
  /\ \A f \in Declared : f \in op.todo \/ files[f] = Desired(f)
  /\ op.pc # "change" => op.todo = {}

Written == op.pc \in Changing => Body

\* The paths of other domains are as in the snapshot.
Untouched ==
  ("commit_unknown" \notin alarm /\ op.pc \in Changing \cup {"rollback"}) =>
    \A f \in File \ Declared : files[f] = op.saved[f]

Following ==
  Harmless =>
    /\ imported = {}
    /\ op.pc \in Clean => Follows(db, files)
    /\ op.pc \notin Clean => Follows(db, op.saved)

FilesInv == IInv /\ Flags /\ Shape /\ Written /\ Untouched /\ Following

LEMMA InitFilesInv == Init => FilesInv
<1> SUFFICES ASSUME Init PROVE FilesInv
  OBVIOUS
<1>1. Flags /\ Shape /\ Written /\ Untouched
  BY DEF Init, Flags, Shape, Written, Untouched, NoOp, Changing
<1>2. Follows(db, files)
  BY DEF Init, Follows, Owned, NoFiles
<1>3. Following
  BY <1>2 DEF Init, Following, NoOp, Clean
<1> QED BY <1>1, <1>3, IInvInit DEF FilesInv

LEMMA FlagsStep == Flags /\ [Next]_vars => Flags'
<1> SUFFICES ASSUME Flags, [Next]_vars PROVE Flags'
  OBVIOUS
<1> USE DEF Flags
<1>1. CASE Request
  <2>1. UNCHANGED <<flagged, alarm>>
    BY <1>1 DEF Request, CreateDomain, UpdateDomain, ApplyDomain, DisableDomain, Delete,
                IssueCertificate, Begin
  <2> QED BY <2>1
<1>2. CASE Capture \/ CaptureFails \/ (\E f \in File : ChangeFile(f)) \/ Changed \/ Test
           \/ Reload \/ Certbot \/ Expiry \/ Commit
  BY <1>2 DEF Capture, CaptureFails, ChangeFile, Changed, Test, Reload, Certbot, Expiry, Commit
<1>3. CASE ChangeFails \/ WaitFails \/ ReloadFails \/ CertbotKilled \/ CommitUnknown
  BY <1>3 DEF ChangeFails, WaitFails, ReloadFails, CertbotKilled, CommitUnknown, Raise
<1>4. CASE Rollback \/ Retest \/ Rereload \/ RollbackFails \/ RecoverFails \/ Record \/ RecordFails
  BY <1>4 DEF Rollback, Retest, Rereload, RollbackFails, RecoverFails, Record, RecordFails
<1>5. CASE Environment
  BY <1>5 DEF Environment, Crash, Restart, Import, Started, ExternalReload, CertificateExpires
<1>6. CASE UNCHANGED vars
  BY <1>6 DEF vars
<1> QED BY <1>1, <1>2, <1>3, <1>4, <1>5, <1>6 DEF Next, Step

LEMMA ShapeStep == IInv /\ Shape /\ [Next]_vars => Shape'
<1> SUFFICES ASSUME IInv, Shape, [Next]_vars PROVE Shape'
  OBVIOUS
<1>0. op \in OpType
  BY DEF IInv, TypeOK
<1> USE <1>0 DEF Shape
<1>1. CASE Request
  <2>1. CASE op' = op /\ phase' = phase
    BY <2>1
  <2>2. ASSUME NEW kind, NEW d, Begin(kind, d) PROVE Shape'
    BY <2>2 DEF Begin, Free, NoOp
  <2> QED
    BY <1>1, <2>1, <2>2 DEF Request, CreateDomain, UpdateDomain, ApplyDomain, DisableDomain,
                            Delete, IssueCertificate
<1>2. CASE Capture \/ CaptureFails \/ (\E f \in File : ChangeFile(f))
  BY <1>2 DEF Capture, CaptureFails, ChangeFile, OpType
<1>3. CASE Changed \/ Test \/ Reload \/ Certbot \/ Expiry
  BY <1>3 DEF Changed, Test, Reload, Certbot, Expiry, Goto, OpType
<1>4. CASE ChangeFails \/ WaitFails \/ ReloadFails \/ CertbotKilled \/ CommitUnknown
  BY <1>4 DEF ChangeFails, WaitFails, ReloadFails, CertbotKilled, CommitUnknown, Raise, OpType
<1>5. CASE Rollback \/ Retest \/ Rereload \/ RollbackFails \/ RecoverFails
  BY <1>5 DEF Rollback, Retest, Rereload, RollbackFails, RecoverFails, Goto, OpType
<1>6. CASE Commit \/ Record \/ RecordFails \/ Crash
  <2>1. op' = NoOp
    BY <1>6 DEF Commit, Record, RecordFails, Crash
  <2> QED BY <2>1 DEF NoOp
<1>7. CASE Restart \/ Started
  BY <1>7 DEF Restart, Started
<1>8. CASE op' = op /\ phase' = phase
  BY <1>8
<1>9. CASE Environment
  BY <1>6, <1>7, <1>8, <1>9 DEF Environment, Import, ExternalReload, CertificateExpires
<1>10. CASE UNCHANGED vars
  BY <1>8, <1>10 DEF vars
<1> QED BY <1>1, <1>2, <1>3, <1>4, <1>5, <1>6, <1>9, <1>10 DEF Next, Step

-----------------------------------------------------------------------------
(* The body *)

LEMMA AlarmStays == [Next]_vars => alarm \subseteq alarm'
<1> SUFFICES ASSUME [Next]_vars PROVE alarm \subseteq alarm'
  OBVIOUS
<1>1. CASE Request
  BY <1>1 DEF Request, CreateDomain, UpdateDomain, ApplyDomain, DisableDomain, Delete,
              IssueCertificate, Begin
<1>2. CASE Capture \/ CaptureFails \/ (\E f \in File : ChangeFile(f)) \/ Changed \/ Test
           \/ Reload \/ Certbot \/ Expiry \/ Commit
  BY <1>2 DEF Capture, CaptureFails, ChangeFile, Changed, Test, Reload, Certbot, Expiry, Commit
<1>3. CASE ChangeFails \/ WaitFails \/ ReloadFails \/ CertbotKilled \/ CommitUnknown
  BY <1>3 DEF ChangeFails, WaitFails, ReloadFails, CertbotKilled, CommitUnknown, Raise
<1>4. CASE Rollback \/ Retest \/ Rereload \/ RollbackFails \/ RecoverFails \/ Record \/ RecordFails
  BY <1>4 DEF Rollback, Retest, Rereload, RollbackFails, RecoverFails, Record, RecordFails
<1>5. CASE Environment
  BY <1>5 DEF Environment, Crash, Restart, Import, Started, ExternalReload, CertificateExpires
<1>6. CASE UNCHANGED vars
  BY <1>6 DEF vars
<1> QED BY <1>1, <1>2, <1>3, <1>4, <1>5, <1>6 DEF Next, Step

\* A request leaves the lock alone, or takes it and has not changed a file.
LEMMA RequestsBegin ==
  ASSUME Request
  PROVE  op.pc = "idle" /\ (UNCHANGED op \/ op'.pc = "capture")
<1>1. ASSUME NEW kind, NEW d, Begin(kind, d) PROVE op'.pc = "capture"
  BY <1>1 DEF Begin, NoOp
<1>2. Free
  BY DEF Request, CreateDomain, UpdateDomain, ApplyDomain, DisableDomain, Delete,
         IssueCertificate, Begin
<1> QED BY <1>1, <1>2 DEF Request, CreateDomain, UpdateDomain, ApplyDomain, DisableDomain,
                          Delete, IssueCertificate, Free, NoOp

\* What a path should hold is settled when the operation begins.
LEMMA DesiredKept ==
  ASSUME UNCHANGED db, op'.kind = op.kind, op'.dom = op.dom, op'.tls = op.tls,
         NEW f \in File, files'[f] = files[f]
  PROVE  Desired(f)' = Desired(f)
BY DEF Desired, Target

\* A row whose certificate expires keeps everything else.
LEMMA ExpiredRow ==
  ASSUME IInv, NEW d \in Domain, NEW c, CertificateExpires(d, c)
  PROVE  /\ Exists(d) /\ RowOK(db[d]) /\ db'[d] \in Row
         /\ db' = [db EXCEPT ![d] = db'[d]]
         /\ db'[d].cfg = db[d].cfg /\ db'[d].deployments = db[d].deployments
         /\ db'[d].enabled = db[d].enabled /\ db'[d].certs = db[d].certs \ {c}
         /\ AppliedIndices(db'[d]) = AppliedIndices(db[d])
         /\ Slots(db'[d]) = Slots(db[d])
         /\ Latest(db'[d]) = Latest(db[d])
         /\ HasApplied(db[d]) => Applied(db'[d]).text = Applied(db[d]).text
<1> DEFINE row == db[d]
           r == [row EXCEPT !.certs = row.certs \ {c}]
<1>0. db \in [Domain -> Row \cup {NoRow}]
  BY DEF IInv, TypeOK
<1>1. Exists(d) /\ RowOK(row) /\ row \in Row
  BY <1>0 DEF CertificateExpires, IInv, RowsOK, Rows, RowOK
<1>2. db' = [db EXCEPT ![d] = r] /\ db'[d] = r
  BY <1>0 DEF CertificateExpires
<1>3. /\ r \in Row /\ r.cfg = row.cfg /\ r.deployments = row.deployments
      /\ r.enabled = row.enabled /\ r.certs = row.certs \ {c}
  BY <1>1 DEF Row
<1> HIDE DEF r
<1>4. AppliedIndices(r) = AppliedIndices(row) /\ Slots(r) = Slots(row) /\ Latest(r) = Latest(row)
  BY <1>3 DEF AppliedIndices, Slots, Indices, Latest
<1>5. HasApplied(row) => Applied(r).text = Applied(row).text
  BY <1>1, <1>3, <1>4, SameApplied
<1> QED BY <1>1, <1>2, <1>3, <1>4, <1>5

\* What an operation wants does not depend on certificates.
LEMMA ExpiresKeeps ==
  ASSUME IInv, op.dom \in Domain, NEW d \in Domain, NEW c, CertificateExpires(d, c)
  PROVE  /\ UNCHANGED <<files, op>> /\ Target' = Target /\ Declared' = Declared
         /\ \A f \in File : Desired(f)' = Desired(f)
<1> DEFINE mine == db[op.dom]
           yours == db'[op.dom]
<1>0. db \in [Domain -> Row \cup {NoRow}] /\ UNCHANGED <<files, op>>
  BY DEF IInv, TypeOK, CertificateExpires
<1>1. CASE op.dom = d
  <2>1. /\ Slots(yours) = Slots(mine) /\ Latest(yours) = Latest(mine) /\ yours.cfg = mine.cfg
        /\ HasApplied(yours) <=> HasApplied(mine)
        /\ HasApplied(mine) => Applied(yours).text = Applied(mine).text
    BY <1>1, ExpiredRow DEF HasApplied
  <2>2. ActiveSsl(mine) <=> ActiveSsl(yours)
    BY <2>1 DEF ActiveSsl
  <2>3. ActiveSsl(mine) => Applied(yours).text = Applied(mine).text
    BY <2>1 DEF ActiveSsl
  <2>4. Target' = Target
    BY <1>0, <2>1, <2>2, <2>3 DEF Target
  <2> QED BY <1>0, <2>1, <2>4 DEF Declared, Desired
<1>2. CASE op.dom # d
  <2>1. mine = yours
    BY <1>0, <1>2 DEF CertificateExpires
  <2> QED BY <1>0, <2>1 DEF Target, Declared, Desired
<1> QED BY <1>1, <1>2

LEMMA BodyMoves ==
  ASSUME Body, op.todo = {}, UNCHANGED <<db, files>>,
         op'.kind = op.kind, op'.dom = op.dom, op'.tls = op.tls, op'.todo = {}
  PROVE  Body'
<1>1. Declared' = Declared
  BY DEF Declared
<1>2. \A f \in Declared : Desired(f)' = Desired(f)
  BY DesiredKept DEF Declared
<1> QED BY <1>1, <1>2 DEF Body

LEMMA CaptureWrites ==
  ASSUME IInv, Capture
  PROVE  Body'
<1>1. /\ op'.pc = "change" /\ op'.kind = op.kind /\ op'.dom = op.dom /\ op'.tls = op.tls
      /\ op'.todo = Pending /\ UNCHANGED <<db, files>>
  BY DEF Capture, IInv, TypeOK, OpType
<1>2. Declared' = Declared
  BY <1>1 DEF Declared
<1>3. \A f \in Declared : Desired(f)' = Desired(f)
  BY <1>1, DesiredKept DEF Declared
<1> QED BY <1>1, <1>2, <1>3 DEF Body, Pending

LEMMA ChangeWrites ==
  ASSUME IInv, Body, NEW f \in File, ChangeFile(f)
  PROVE  Body'
<1>1. /\ op'.pc = "change" /\ op'.kind = op.kind /\ op'.dom = op.dom /\ op'.tls = op.tls
      /\ op'.todo = op.todo \ {f} /\ UNCHANGED db
  BY DEF ChangeFile, IInv, TypeOK, OpType
<1>2. files'[f] = Desired(f) /\ \A g \in File \ {f} : files'[g] = files[g]
  BY DEF ChangeFile, IInv, TypeOK
<1>3. Declared' = Declared
  BY <1>1 DEF Declared
<1>4. \A g \in Declared \ {f} : g \in op'.todo \/ files'[g] = Desired(g)'
  <2> SUFFICES ASSUME NEW g \in Declared \ {f}, g \notin op.todo PROVE files'[g] = Desired(g)'
    BY <1>1
  <2>1. g \in File /\ files'[g] = files[g] /\ files[g] = Desired(g)
    BY <1>2 DEF Declared, Body
  <2> QED BY <1>1, <2>1, DesiredKept
<1>5. files'[f] = Desired(f)'
  BY <1>1, <1>2 DEF Desired, Target
<1>6. \A g \in Declared' : g \in op'.todo \/ files'[g] = Desired(g)'
  BY <1>3, <1>4, <1>5
<1> QED BY <1>1, <1>3, <1>6 DEF Body

\* The second deployment of an issuance wants the paths of the first, and
\* nothing new of the others.
LEMMA ExpiryWrites ==
  ASSUME IInv, Shape, Body, Expiry
  PROVE  Body'
<1> DEFINE row == db[op.dom]
           slot == SlotOf(row.cfg)
<1>1. /\ op'.pc = "change" /\ op'.kind = op.kind /\ op'.dom = op.dom /\ op'.tls = TRUE
      /\ op'.todo = {<<side, slot>> : side \in Side} /\ UNCHANGED <<db, files>>
  BY DEF Expiry, IInv, TypeOK, OpType
<1>2. op.todo = {} /\ op.kind = "issue" /\ ~ op.tls
  BY DEF Shape, Expiry, Body
<1>3. op.dom \in Domain /\ Exists(op.dom) /\ RowOK(row)
  BY DEF Expiry, IInv, OpOK, Working, RowsOK, Rows
<1>4. Target.cfg = row.cfg
  BY <1>2, <1>3, TargetType
<1>5. Target'.cfg = row.cfg
  BY <1>1, <1>2 DEF Target
<1>6. slot \in Slots(row) /\ slot \in Slot
  BY <1>3, LatestSlot, SlotsTyped
<1>7. Declared' = Declared
  BY <1>1 DEF Declared
<1>8. op'.todo \subseteq Declared
  BY <1>1, <1>6 DEF Declared, File
<1> HIDE DEF slot, row
<1>9. \A f \in Declared : f \in op'.todo \/ files[f] = Desired(f)'
  <2> SUFFICES ASSUME NEW f \in Declared, f \notin op'.todo PROVE files[f] = Desired(f)'
    OBVIOUS
  <2>1. f[2] # slot
    <3>1. f = <<f[1], f[2]>> /\ f[1] \in Side
      BY DEF Declared, File
    <3> QED BY <1>1, <3>1
  <2>2. files[f] = Desired(f)
    BY <1>2 DEF Body
  <2>3. Desired(f) = NoText
    BY <1>2, <1>4, <2>1 DEF Desired, slot
  <2>4. Desired(f)' = NoText
    BY <1>1, <1>2, <1>5, <2>1 DEF Desired, slot
  <2> QED BY <2>2, <2>3, <2>4
<1> QED BY <1>1, <1>7, <1>8, <1>9 DEF Body

\* Where an operation ends, fails or has not begun its body there is nothing to
\* say, and elsewhere the row and the files it works on stay.
LEMMA WrittenStep == IInv /\ Shape /\ Written /\ [Next]_vars => Written'
<1> SUFFICES ASSUME IInv, Shape, Written, [Next]_vars, op'.pc \in Changing PROVE Body'
  BY DEF Written
<1>0. op \in OpType /\ (op.pc \in Changing => op.dom \in Domain)
  BY DEF IInv, TypeOK, OpOK, Changing
<1>1. CASE Request
  BY <1>1, RequestsBegin DEF Changing
<1>2. CASE Changed \/ Test \/ Reload \/ Certbot
  <2>1. /\ op'.kind = op.kind /\ op'.dom = op.dom /\ op'.tls = op.tls
        /\ op'.todo = op.todo /\ UNCHANGED <<db, files>>
    BY <1>0, <1>2 DEF Changed, Test, Reload, Certbot, Goto, OpType
  <2>2. Body /\ op.todo = {}
    BY <1>2 DEF Changed, Test, Reload, Certbot, Written, Body, Changing
  <2> QED BY <2>1, <2>2, BodyMoves
<1>3. CASE Capture \/ Expiry \/ \E f \in File : ChangeFile(f)
  BY <1>3, CaptureWrites, ChangeWrites, ExpiryWrites DEF Written, Changing, ChangeFile, Expiry
<1>4. CASE CaptureFails \/ ChangeFails \/ WaitFails \/ ReloadFails \/ CertbotKilled \/ CommitUnknown
  <2>1. op'.pc \in {"record", "rollback"}
    BY <1>0, <1>4 DEF CaptureFails, ChangeFails, WaitFails, ReloadFails, CertbotKilled,
                      CommitUnknown, Raise, OpType
  <2> QED BY <2>1 DEF Changing
<1>5. CASE Rollback \/ Retest \/ Rereload \/ RollbackFails \/ RecoverFails
  <2>1. op'.pc \in {"retest", "rereload", "record"}
    BY <1>0, <1>5 DEF Rollback, Retest, Rereload, RollbackFails, RecoverFails, Goto, OpType
  <2> QED BY <2>1 DEF Changing
<1>6. CASE Commit \/ Record \/ RecordFails \/ Crash
  <2>1. op' = NoOp
    BY <1>6 DEF Commit, Record, RecordFails, Crash
  <2> QED BY <2>1 DEF NoOp, Changing
<1>7. CASE Restart \/ Started \/ ExternalReload \/ UNCHANGED vars
  <2>1. UNCHANGED <<db, files, op>>
    BY <1>7 DEF Restart, Started, ExternalReload, vars
  <2> QED BY <2>1, <1>0, DesiredKept DEF Written, Body, Declared
<1>8. ASSUME NEW d \in Domain, NEW s \in Slot, Import(d, s) PROVE Body'
  <2>1. op.pc = "idle" /\ op' = op
    BY <1>0, <1>8 DEF Import, Shape
  <2> QED BY <2>1 DEF Changing
<1>9. ASSUME NEW d \in Domain, NEW c, CertificateExpires(d, c) PROVE Body'
  <2>1. op' = op
    BY <1>9 DEF CertificateExpires
  <2> QED BY <1>0, <1>9, <2>1, ExpiresKeeps DEF Written, Body, Declared
<1> QED BY <1>1, <1>2, <1>3, <1>4, <1>5, <1>6, <1>7, <1>8, <1>9 DEF Next, Step, Environment

\* Only paths of the operation's own domain are written, and its row keeps them.
LEMMA UntouchedStep == IInv /\ Shape /\ Written /\ Untouched /\ [Next]_vars => Untouched'
<1> SUFFICES ASSUME IInv, Shape, Written, Untouched, [Next]_vars,
                    "commit_unknown" \notin alarm', op'.pc \in Changing \cup {"rollback"}
             PROVE  \A f \in File \ Declared' : files'[f] = op'.saved[f]
  BY DEF Untouched
<1>0. op \in OpType /\ (op.pc # "idle" => op.dom \in Domain) /\ "commit_unknown" \notin alarm
  BY AlarmStays DEF IInv, TypeOK, OpOK
<1>1. ASSUME op.pc \in Changing \cup {"rollback"}, UNCHANGED <<db, files>>,
             op'.dom = op.dom, op'.saved = op.saved
      PROVE  \A f \in File \ Declared' : files'[f] = op'.saved[f]
  BY <1>0, <1>1 DEF Untouched, Declared
<1>2. CASE Request
  BY <1>2, RequestsBegin DEF Changing
<1>3. CASE Capture
  BY <1>0, <1>3 DEF Capture, OpType
<1>4. ASSUME NEW f \in File, ChangeFile(f)
      PROVE  \A g \in File \ Declared' : files'[g] = op'.saved[g]
  <2>1. f \in Declared
    BY <1>4 DEF ChangeFile, Written, Body, Changing
  <2>2. op'.dom = op.dom /\ op'.saved = op.saved /\ UNCHANGED db
    BY <1>0, <1>4 DEF ChangeFile, OpType
  <2>3. \A g \in File \ {f} : files'[g] = files[g]
    BY <1>4 DEF ChangeFile, IInv, TypeOK
  <2>4. \A g \in File \ Declared : files[g] = op.saved[g]
    BY <1>0, <1>4 DEF Untouched, ChangeFile, Changing
  <2> QED BY <2>1, <2>2, <2>3, <2>4 DEF Declared
<1>5. CASE Changed \/ Test \/ Reload \/ Certbot \/ Expiry
  BY <1>0, <1>1, <1>5 DEF Changed, Test, Reload, Certbot, Expiry, Goto, OpType, Changing
<1>6. CASE ChangeFails \/ WaitFails \/ ReloadFails \/ CertbotKilled
  BY <1>0, <1>1, <1>6 DEF ChangeFails, WaitFails, ReloadFails, CertbotKilled, Raise, OpType, Changing
<1>7. CASE CommitUnknown
  BY <1>7 DEF CommitUnknown
<1>8. CASE CaptureFails \/ Rollback \/ Retest \/ Rereload \/ RollbackFails \/ RecoverFails
  <2>1. op'.pc \in {"retest", "rereload", "record"}
    BY <1>0, <1>8 DEF CaptureFails, Rollback, Retest, Rereload, RollbackFails, RecoverFails,
                      Goto, OpType
  <2> QED BY <2>1 DEF Changing
<1>9. CASE Commit \/ Record \/ RecordFails \/ Crash
  <2>1. op' = NoOp
    BY <1>9 DEF Commit, Record, RecordFails, Crash
  <2> QED BY <2>1 DEF NoOp, Changing
<1>10. CASE Restart \/ Started \/ ExternalReload \/ UNCHANGED vars
  BY <1>1, <1>10 DEF Restart, Started, ExternalReload, vars
<1>11. ASSUME NEW d \in Domain, NEW s \in Slot, Import(d, s)
       PROVE  \A f \in File \ Declared' : files'[f] = op'.saved[f]
  <2>1. op.pc = "idle" /\ op' = op
    BY <1>0, <1>11 DEF Import, Shape
  <2> QED BY <2>1 DEF Changing
<1>12. ASSUME NEW d \in Domain, NEW c, CertificateExpires(d, c)
       PROVE  \A f \in File \ Declared' : files'[f] = op'.saved[f]
  <2>1. op' = op
    BY <1>12 DEF CertificateExpires
  <2>2. op.dom \in Domain
    BY <1>0, <2>1 DEF Changing
  <2> QED BY <1>0, <1>12, <2>1, <2>2, ExpiresKeeps DEF Untouched
<1> QED BY <1>2, <1>3, <1>4, <1>5, <1>6, <1>7, <1>8, <1>9, <1>10, <1>11, <1>12
        DEF Next, Step, Environment

-----------------------------------------------------------------------------
(* What follows while nothing that would break it has happened *)

LEMMA IdleFollows ==
  ASSUME FilesInv, Harmless, op.pc \in Clean
  PROVE  imported = {} /\ Follows(db, files)
BY DEF FilesInv, Following

\* Where the step leaves rows and files, or the operation has not begun to
\* change them, what follows goes on following.
LEMMA CleanStep ==
  ASSUME imported' = {}, op'.pc \in Clean, Follows(db', files')
  PROVE  Following'
BY DEF Following

LEMMA CreateFollows ==
  ASSUME FilesInv, Harmless, NEW d \in Domain, NEW cfg \in Payload, CreateDomain(d, cfg)
  PROVE  Following'
<1> DEFINE deployment == [text |-> Plain(cfg), status |-> "draft"]
           r == [cfg |-> cfg, enabled |-> FALSE, status |-> "draft",
                 deployments |-> <<deployment>>, certs |-> {}]
<1>1. op.pc = "idle" /\ op' = op /\ files' = files /\ imported' = imported /\ db[d] = NoRow
  BY DEF CreateDomain, Free, NoOp, Exists
<1>2. imported = {} /\ Follows(db, files)
  BY <1>1, IdleFollows DEF Clean
<1>3. deployment \in Deployment /\ deployment.text.cfg = cfg
  BY DEF Plain, Text, Deployment
<1>4. r \in Row /\ r.cfg = cfg /\ r.deployments = <<deployment>> /\ ~ r.enabled
  BY <1>3 DEF Row
<1>5. db' = [db EXCEPT ![d] = r]
  BY DEF CreateDomain
<1> HIDE DEF r, deployment
<1>6. RowOK(r) /\ Slots(r) = {SlotOf(cfg)}
  BY <1>3, <1>4, FreshRow
<1>7. SlotOf(cfg) \in Slot
  BY <1>6, SlotsTyped
<1>8. \A e \in Others(d) : SlotOf(cfg) \notin Slots(db[e])
  BY DEF CreateDomain, Conflicts
<1>9. files[<<"enabled", SlotOf(cfg)>>] = NoText
  BY <1>1, <1>2, <1>7, <1>8, NewSlotIsFree DEF FilesInv, Exists, Side
<1>10. RowFollowed(r, files)
  BY <1>4, <1>6, <1>9 DEF RowFollowed, AsApplied
<1>11. db \in [Domain -> Row \cup {NoRow}]
  BY DEF FilesInv, IInv, TypeOK
<1>12. Follows(db', files)
  BY <1>1, <1>2, <1>5, <1>10, <1>11, FollowsAdded
<1> QED BY <1>1, <1>2, <1>12, CleanStep DEF Clean

\* A row that is given another payload keeps what is applied and its
\* certificates, and its history grows by the new payload's slot.
LEMMA UpdatedRow ==
  ASSUME IInv, NEW d \in Domain, NEW cfg \in Payload, UpdateDomain(d, cfg)
  PROVE  /\ Exists(d) /\ RowOK(db[d]) /\ RowOK(db'[d])
         /\ db' = [db EXCEPT ![d] = db'[d]]
         /\ db'[d].cfg = cfg /\ db'[d].enabled = db[d].enabled /\ db'[d].certs = db[d].certs
         /\ Slots(db'[d]) = Slots(db[d]) \cup {SlotOf(cfg)}
         /\ AppliedIndices(db'[d]) = AppliedIndices(db[d])
         /\ HasApplied(db[d]) => Applied(db'[d]).text = Applied(db[d]).text
<1> DEFINE row == db[d]
           text == UpdatedText(row, cfg)
           deployment == [text |-> text, status |-> "draft"]
           r == [row EXCEPT !.cfg = cfg, !.deployments = Append(row.deployments, deployment)]
<1>0. db \in [Domain -> Row \cup {NoRow}]
  BY DEF IInv, TypeOK
<1>1. Exists(d) /\ RowOK(row)
  BY DEF UpdateDomain, IInv, RowsOK, Rows
<1>3. text \in Text /\ text.cfg = cfg
  BY <1>1, UpdatedTextType
<1>4. deployment \in Deployment
  BY <1>3 DEF Deployment
<1>5. row \in Row /\ row.deployments \in Seq(Deployment)
  BY <1>1 DEF RowOK, Row
<1>6. r \in Row /\ r.cfg = cfg /\ r.enabled = row.enabled /\ r.certs = row.certs
      /\ r.deployments = Append(row.deployments, deployment)
  <2> HIDE DEF row, deployment
  <2>1. Append(row.deployments, deployment) \in Seq(Deployment)
    BY <1>4, <1>5
  <2> QED BY <1>5, <2>1 DEF Row
<1>7. db' = [db EXCEPT ![d] = r] /\ db'[d] = r
  BY <1>0, <1>1, <1>5 DEF UpdateDomain, Row
<1>8. AppliedIndices(r) = AppliedIndices(row) /\ \A i \in AppliedIndices(row) : r.deployments[i] = row.deployments[i]
  <2> HIDE DEF r, row, text
  <2>1. /\ DOMAIN r.deployments = 1 .. (Len(row.deployments) + 1)
        /\ DOMAIN row.deployments = 1 .. Len(row.deployments)
        /\ Len(row.deployments) \in Nat
        /\ \A i \in 1 .. Len(row.deployments) : r.deployments[i] = row.deployments[i]
        /\ r.deployments[Len(row.deployments) + 1] = deployment
    BY <1>5, <1>6
  <2> QED BY <2>1 DEF AppliedIndices, Indices
<1> HIDE DEF r, row, text
<1>9. RowOK(r) /\ Slots(r) = Slots(row) \cup {SlotOf(cfg)}
  BY <1>1, <1>3, <1>6, AppendDraft
<1>10. HasApplied(row) => Applied(r).text = Applied(row).text
  BY <1>1, <1>8, SameApplied
<1> QED BY <1>1, <1>6, <1>7, <1>8, <1>9, <1>10 DEF row

LEMMA UpdateFollows ==
  ASSUME FilesInv, Harmless, NEW d \in Domain, NEW cfg \in Payload, UpdateDomain(d, cfg)
  PROVE  Following'
<1> DEFINE row == db[d]
           r == db'[d]
<1>0. IInv /\ db \in [Domain -> Row \cup {NoRow}]
  BY DEF FilesInv, IInv, TypeOK
<1>1. op.pc = "idle" /\ op' = op /\ files' = files /\ imported' = imported
  BY DEF UpdateDomain, Free, NoOp
<1>2. imported = {} /\ Follows(db, files)
  BY <1>1, IdleFollows DEF Clean
<1>3. /\ Exists(d) /\ RowOK(row) /\ RowOK(r) /\ db' = [db EXCEPT ![d] = r]
      /\ r.enabled = row.enabled /\ Slots(r) = Slots(row) \cup {SlotOf(cfg)}
      /\ HasApplied(row) => Applied(r).text = Applied(row).text
  BY <1>0, UpdatedRow
<1> HIDE DEF r, row
<1>10. SlotOf(cfg) \in Slot
  BY <1>3, SlotsTyped
<1>11. SlotOf(cfg) \notin Slots(row) => \A side \in Side : files[<<side, SlotOf(cfg)>>] = NoText
  <2>1. \A e \in Others(d) : SlotOf(cfg) \notin Slots(db[e])
    BY DEF UpdateDomain, Conflicts
  <2> QED BY <1>0, <1>2, <1>10, <2>1, NewSlotIsFree DEF row
<1>12. row.enabled => /\ Applied(r).text = Applied(row).text
                      /\ SlotOf(Applied(row).text.cfg) \in Slots(row)
  BY <1>3, AppliedSlot DEF RowOK
<1>13. RowFollowed(row, files)
  BY <1>2, <1>3 DEF Follows, Exists, row
<1>14. \A s \in Slots(row) : AsApplied(r, s) = AsApplied(row, s)
  BY <1>3, <1>12 DEF AsApplied
<1>15. SlotOf(cfg) \notin Slots(row) => AsApplied(r, SlotOf(cfg)) = NoText
  BY <1>3, <1>12 DEF AsApplied
<1>16. RowFollowed(r, files)
  BY <1>3, <1>11, <1>13, <1>14, <1>15 DEF RowFollowed, Side
<1>17. r # NoRow
  BY <1>3, NothingAssumption DEF RowOK
<1>18. Follows(db', files)
  BY <1>0, <1>2, <1>3, <1>16, <1>17, FollowsReplaced DEF Exists, row
<1> QED BY <1>1, <1>2, <1>18, CleanStep DEF Clean

LEMMA BeginFollows ==
  ASSUME FilesInv, Harmless, NEW kind, NEW d \in Domain, Begin(kind, d)
  PROVE  Following'
<1>1. op.pc = "idle" /\ op'.pc = "capture" /\ UNCHANGED <<db, files, imported>>
  BY DEF Begin, Free, NoOp
<1> QED BY <1>1, IdleFollows, CleanStep DEF Clean

LEMMA BodyFollows ==
  ASSUME FilesInv, Harmless,
         Capture \/ (\E f \in File : ChangeFile(f)) \/ Changed \/ Test \/ Reload \/ Certbot \/ Expiry
  PROVE  Following'
<1>0. op \in OpType
  BY DEF FilesInv, IInv, TypeOK
<1>1. op'.pc \in Changing /\ UNCHANGED <<db, imported>>
  BY <1>0 DEF Capture, ChangeFile, Changed, Test, Reload, Certbot, Expiry, Goto, OpType, Changing
<1>2. CASE Capture
  <2>1. imported = {} /\ Follows(db, files)
    BY <1>2, IdleFollows DEF Capture, Clean
  <2>2. op'.saved = files
    BY <1>0, <1>2 DEF Capture, OpType
  <2> QED BY <1>1, <2>1, <2>2 DEF Following, Clean, Changing
<1>3. CASE ~ Capture
  <2>1. op.pc \in Changing /\ op'.saved = op.saved
    BY <1>0, <1>3 DEF ChangeFile, Changed, Test, Reload, Certbot, Expiry, Goto, OpType, Changing
  <2>2. imported = {} /\ Follows(db, op.saved)
    BY <2>1 DEF FilesInv, Following, Clean, Changing
  <2> QED BY <1>1, <2>1, <2>2 DEF Following, Clean, Changing
<1> QED BY <1>2, <1>3

-----------------------------------------------------------------------------
(* The end of the body: by an exception, or by the commit *)

LEMMA FailureFollows ==
  ASSUME FilesInv, Harmless, ChangeFails \/ WaitFails \/ ReloadFails \/ CertbotKilled
  PROVE  Following'
<1>0. op \in OpType
  BY DEF FilesInv, IInv, TypeOK
<1>1. op'.pc = "rollback" /\ op'.saved = op.saved /\ UNCHANGED <<db, imported>>
  BY <1>0 DEF ChangeFails, WaitFails, ReloadFails, CertbotKilled, Raise, OpType
<1>2. op.pc \in Changing
  BY DEF ChangeFails, WaitFails, ReloadFails, CertbotKilled, Changing
<1>3. imported = {} /\ Follows(db, op.saved)
  BY <1>2 DEF FilesInv, Following, Clean, Changing
<1> QED BY <1>1, <1>3 DEF Following, Clean

LEMMA RecoveryFollows ==
  ASSUME FilesInv, Harmless, Rollback \/ Retest \/ Rereload \/ RecoverFails \/ CaptureFails
  PROVE  Following'
<1>0. op \in OpType
  BY DEF FilesInv, IInv, TypeOK
<1>1. CASE Rollback
  <2>1. op'.pc = "retest" /\ UNCHANGED <<db, imported>> /\ files' = op.saved
    BY <1>0, <1>1 DEF Rollback, Goto, OpType
  <2>2. imported = {} /\ Follows(db, op.saved)
    BY <1>1 DEF FilesInv, Following, Rollback, Clean
  <2> QED BY <2>1, <2>2, CleanStep DEF Clean
<1>2. CASE Retest \/ Rereload \/ RecoverFails \/ CaptureFails
  <2>1. op.pc \in Clean /\ op'.pc \in Clean /\ UNCHANGED <<db, files, imported>>
    BY <1>0, <1>2 DEF Retest, Rereload, RecoverFails, CaptureFails, Goto, OpType, Clean
  <2> QED BY <2>1, IdleFollows, CleanStep
<1> QED BY <1>1, <1>2

\* The files of other rows, and of no row, are as the snapshot has them.
LEMMA OthersFollowed ==
  ASSUME IInv, op.dom \in Domain, Exists(op.dom), Follows(db, op.saved),
         \A f \in File \ Declared : files[f] = op.saved[f]
  PROVE  /\ \A e \in Domain \ {op.dom} : Exists(e) => RowFollowed(db[e], files)
         /\ \A g \in File \ Declared : files[g] # NoText =>
              \E e \in Domain \ {op.dom} : Exists(e) /\ g[2] \in Slots(db[e])
<1>1. ASSUME NEW e \in Domain \ {op.dom}, Exists(e) PROVE RowFollowed(db[e], files)
  <2>1. Slots(db[e]) \cap Slots(db[op.dom]) = {} /\ RowOK(db[e])
    BY <1>1 DEF IInv, DomainsDisjoint, RowsOK, Rows
  <2>2. Slots(db[e]) \subseteq Slot
    BY <2>1, SlotsTyped
  <2>3. RowFollowed(db[e], op.saved)
    BY <1>1 DEF Follows, Exists
  <2>4. \A s \in Slots(db[e]), side \in Side : files[<<side, s>>] = op.saved[<<side, s>>]
    <3> SUFFICES ASSUME NEW s \in Slots(db[e]), NEW side \in Side
                 PROVE  <<side, s>> \in File \ Declared
      OBVIOUS
    <3>1. <<side, s>>[2] = s
      OBVIOUS
    <3> QED BY <2>1, <2>2, <3>1 DEF File, Declared
  <2> QED BY <2>3, <2>4 DEF RowFollowed, Side
<1>2. ASSUME NEW g \in File \ Declared, files[g] # NoText
      PROVE  \E e \in Domain \ {op.dom} : Exists(e) /\ g[2] \in Slots(db[e])
  <2>1. op.saved[g] # NoText
    BY <1>2
  <2>2. PICK e \in Domain : db[e] # NoRow /\ g[2] \in Slots(db[e])
    BY <1>2, <2>1 DEF Follows, Owned
  <2>3. e # op.dom
    BY <1>2, <2>2 DEF Declared
  <2> QED BY <2>2, <2>3 DEF Exists
<1> QED BY <1>1, <1>2

\* What a commit changes of a row: what is applied, and for an issuance the
\* certificate.
LEMMA CommittedHistory ==
  ASSUME IInv, op.pc = "commit", op.kind # "delete"
  PROVE  /\ Slots(CommittedRow(db[op.dom])) = Slots(db[op.dom])
         /\ CommittedRow(db[op.dom]).cfg = db[op.dom].cfg
         /\ CommittedRow(db[op.dom]).certs =
              IF op.kind = "issue"
              THEN {c \in db[op.dom].certs : c.cert # db[op.dom].cfg.name}
                     \cup {[cert |-> db[op.dom].cfg.name, covers |-> db[op.dom].cfg.names]}
              ELSE db[op.dom].certs
         /\ op.kind = "disable" =>
              /\ CommittedRow(db[op.dom]).deployments = db[op.dom].deployments
              /\ ~ CommittedRow(db[op.dom]).enabled
         /\ op.kind # "disable" =>
              /\ CommittedRow(db[op.dom]).enabled
              /\ HasApplied(CommittedRow(db[op.dom]))
              /\ Applied(CommittedRow(db[op.dom])).text = Target
<1> DEFINE row == db[op.dom]
           r == CommittedRow(row)
<1>1. op.dom \in Domain /\ Exists(op.dom) /\ op.kind \in Kind /\ RowOK(row)
  BY DEF IInv, OpOK, Working, RowsOK, Rows
<1>2. row \in Row /\ row.deployments \in Seq(Deployment) /\ Len(row.deployments) > 0
  BY <1>1 DEF RowOK, Row
<1>3. /\ r.cfg = row.cfg
      /\ r.certs = IF op.kind = "issue"
                   THEN {c \in row.certs : c.cert # row.cfg.name}
                          \cup {[cert |-> row.cfg.name, covers |-> row.cfg.names]}
                   ELSE row.certs
  BY <1>1, <1>2 DEF CommittedRow, Row, Kind
<1>5. CASE op.kind = "disable"
  <2>1. r.deployments = row.deployments /\ r.enabled = FALSE
    BY <1>2, <1>5 DEF CommittedRow, Row
  <2>2. Slots(r) = Slots(row)
    BY <2>1 DEF Slots, Indices
  <2> QED BY <1>3, <1>5, <2>1, <2>2
<1>7. CASE op.kind = "apply"
  <2>1. r.deployments = MarkApplied(row.deployments) /\ r.enabled = TRUE
    BY <1>2, <1>7 DEF CommittedRow, Row
  <2> HIDE DEF r
  <2>2. HasApplied(r) /\ Applied(r).text = row.deployments[Len(row.deployments)].text
    BY <1>2, <2>1, MarkedApplied
  <2>3. Target = row.deployments[Len(row.deployments)].text
    BY <1>7 DEF Target, Latest
  <2>4. Slots(r) = Slots(row)
    <3> DEFINE s == row.deployments
    <3>0. s \in Seq(Deployment) /\ Len(s) > 0 /\ r.deployments = MarkApplied(s)
      BY <1>2, <2>1
    <3> HIDE DEF row
    <3>1. DOMAIN r.deployments = DOMAIN s /\ \A i \in DOMAIN s : r.deployments[i].text = s[i].text
      <4> HIDE DEF s
      <4> QED BY <3>0, MarkAppliedFacts
    <3> QED BY <3>1 DEF Slots, Indices
  <2> QED BY <1>3, <1>7, <2>1, <2>2, <2>3, <2>4 DEF r
<1>8. CASE op.kind = "issue"
  <2> DEFINE draft == [text |-> Target, status |-> "draft"]
             longer == Append(row.deployments, draft)
  <2>1. Target \in Text /\ Target.cfg = row.cfg
    BY <1>1, <1>8, TargetType
  <2>2. draft \in Deployment
    BY <2>1 DEF Deployment
  <2>3. r.enabled = TRUE
    BY <1>2, <1>8 DEF CommittedRow, Row
  <2>11. r.deployments = MarkApplied(longer)
    BY <1>2, <1>8 DEF CommittedRow, Row
  <2>12. Len(longer) > 0
    <3> HIDE DEF draft, row
    <3> QED BY <1>2, <2>2
  <2>4. longer \in Seq(Deployment) /\ Len(longer) = Len(row.deployments) + 1
    <3> HIDE DEF draft, row
    <3> QED BY <1>2, <2>2
  <2>5. longer[Len(longer)].text = Target
    <3>1. draft.text = Target
      OBVIOUS
    <3> HIDE DEF draft, row
    <3> QED BY <1>2, <2>4, <3>1
  <2>6. \A i \in DOMAIN row.deployments : longer[i] = row.deployments[i]
    <3> HIDE DEF draft, row
    <3> QED BY <1>2
  <2>7. Len(row.deployments) \in Nat /\ DOMAIN longer = DOMAIN row.deployments \cup {Len(longer)}
    <3> HIDE DEF draft, row
    <3> QED BY <1>2, <2>4
  <2>8. SlotOf(Target.cfg) \in Slots(row)
    BY <1>1, <2>1, LatestSlot
  <2> HIDE DEF r, longer, row
  <2>9. HasApplied(r) /\ Applied(r).text = Target
    BY <2>4, <2>5, <2>11, <2>12, MarkedApplied
  <2>10. Slots(r) = Slots(row)
    <3>1. /\ DOMAIN r.deployments = DOMAIN longer
          /\ \A i \in DOMAIN longer : r.deployments[i].text = longer[i].text
      BY <2>4, <2>11, <2>12, MarkAppliedFacts
    <3>2. \A i \in DOMAIN row.deployments : r.deployments[i].text = row.deployments[i].text
      BY <2>6, <2>7, <3>1
    <3>3. r.deployments[Len(longer)].text = Target
      BY <2>5, <2>7, <3>1
    <3>4. Slots(r) \subseteq Slots(row)
      BY <2>7, <2>8, <3>1, <3>2, <3>3 DEF Slots, Indices
    <3>5. Slots(row) \subseteq Slots(r)
      BY <2>7, <3>1, <3>2 DEF Slots, Indices
    <3> QED BY <3>4, <3>5
  <2> QED BY <1>3, <1>8, <2>3, <2>9, <2>10 DEF r, row
<1> QED BY <1>1, <1>5, <1>7, <1>8 DEF Kind

\* The row that is committed says what its paths hold.
LEMMA CommittedFollowed ==
  ASSUME IInv, op.pc = "commit", op.kind # "delete",
         \A f \in Declared : files[f] = Desired(f)
  PROVE  /\ Slots(CommittedRow(db[op.dom])) = Slots(db[op.dom])
         /\ RowFollowed(CommittedRow(db[op.dom]), files)
<1> DEFINE row == db[op.dom]
           r == CommittedRow(row)
<1>1. op.dom \in Domain /\ Exists(op.dom) /\ op.kind \in Kind /\ RowOK(row)
  BY DEF IInv, OpOK, Working, RowsOK, Rows
<1>2. Slots(row) \subseteq Slot /\ Slots(r) = Slots(row)
  BY <1>1, SlotsTyped, CommittedHistory
<1>3. \A s \in Slots(row), side \in Side : files[<<side, s>>] = Desired(<<side, s>>)
  <2> SUFFICES ASSUME NEW s \in Slots(row), NEW side \in Side PROVE <<side, s>> \in Declared
    OBVIOUS
  <2>1. <<side, s>>[2] = s
    OBVIOUS
  <2> QED BY <1>2, <2>1 DEF File, Declared
<1>4. CASE op.kind = "disable"
  <2>1. \A s \in Slots(row) : files[<<"enabled", s>>] = NoText
    BY <1>3, <1>4 DEF Desired, Side
  <2>2. ~ r.enabled
    BY <1>4, CommittedHistory
  <2> QED BY <1>2, <2>1, <2>2 DEF RowFollowed, AsApplied
<1>5. CASE op.kind \in {"apply", "issue"}
  <2>1. \A s \in Slots(row), side \in Side :
          files[<<side, s>>] = IF s = SlotOf(Target.cfg) THEN Target ELSE NoText
    BY <1>3, <1>5 DEF Desired
  <2>2. r.enabled /\ HasApplied(r) /\ Applied(r).text = Target
    BY <1>5, CommittedHistory
  <2> HIDE DEF r
  <2>3. RowFollowed(r, files)
    BY <1>2, <2>1, <2>2 DEF RowFollowed, AsApplied, Side
  <2> QED BY <1>2, <2>3 DEF r
<1> QED BY <1>1, <1>4, <1>5 DEF Kind

LEMMA CommitFollows ==
  ASSUME FilesInv, Harmless, Commit
  PROVE  Following'
<1> DEFINE r == CommittedRow(db[op.dom])
<1>0. IInv /\ Shape /\ op.pc = "commit" /\ db \in [Domain -> Row \cup {NoRow}]
  BY DEF FilesInv, IInv, TypeOK, Commit
<1>1. op.dom \in Domain /\ Exists(op.dom) /\ RowOK(db[op.dom])
  BY <1>0 DEF IInv, OpOK, Working, RowsOK, Rows
<1>2. imported = {} /\ Follows(db, op.saved)
  BY <1>0 DEF FilesInv, Following, Clean
<1>3. /\ \A e \in Domain \ {op.dom} : Exists(e) => RowFollowed(db[e], files)
      /\ \A g \in File \ Declared : files[g] # NoText =>
           \E e \in Domain \ {op.dom} : Exists(e) /\ g[2] \in Slots(db[e])
      /\ \A f \in Declared : files[f] = Desired(f)
  <2>1. \A f \in File \ Declared : files[f] = op.saved[f]
    BY <1>0 DEF FilesInv, Untouched, Harmless, Changing
  <2>2. \A f \in Declared : files[f] = Desired(f)
    BY <1>0 DEF FilesInv, Written, Body, Changing
  <2> QED BY <1>0, <1>1, <1>2, <2>1, <2>2, OthersFollowed
<1>4. /\ db' = [db EXCEPT ![op.dom] = r]
      /\ op' = NoOp /\ UNCHANGED <<files, imported>>
  BY DEF Commit, CommittedDb
<1> HIDE DEF r
<1>5. db'[op.dom] = r /\ \A e \in Domain \ {op.dom} : db'[e] = db[e]
  BY <1>0, <1>1, <1>4
<1>6. CASE op.kind = "delete"
  <2>1. r = NoRow
    BY <1>6 DEF r, CommittedRow
  <2>2. \A f \in Declared : files[f] = NoText
    BY <1>3, <1>6 DEF Desired
  <2>3. Owned(db', files)
    <3> SUFFICES ASSUME NEW g \in File, files[g] # NoText
                 PROVE  \E d \in Domain : db'[d] # NoRow /\ g[2] \in Slots(db'[d])
      BY DEF Owned
    <3>1. PICK e \in Domain \ {op.dom} : Exists(e) /\ g[2] \in Slots(db[e])
      BY <1>3, <2>2
    <3> QED BY <1>5, <3>1 DEF Exists
  <2>4. \A d \in Domain : db'[d] # NoRow => RowFollowed(db'[d], files)
    BY <1>3, <1>5, <2>1 DEF Exists
  <2> QED BY <2>3, <2>4, <1>2, <1>4, CleanStep DEF Follows, Clean, NoOp
<1>7. CASE op.kind # "delete"
  <2>1. Slots(r) = Slots(db[op.dom]) /\ RowFollowed(r, files)
    BY <1>0, <1>3, <1>7, CommittedFollowed DEF r
  <2>2. r # NoRow
    <3>1. (op.kind # "delete" => db'[op.dom] # NoRow)
      BY <1>0, CommittedOK DEF Commit
    <3> QED BY <1>5, <1>7, <3>1
  <2>3. Owned(db', files)
    <3> SUFFICES ASSUME NEW g \in File, files[g] # NoText
                 PROVE  \E d \in Domain : db'[d] # NoRow /\ g[2] \in Slots(db'[d])
      BY DEF Owned
    <3>1. CASE g \in Declared
      <4>1. g[2] \in Slots(db'[op.dom]) /\ db'[op.dom] # NoRow
        BY <1>5, <2>1, <2>2, <3>1 DEF Declared
      <4> QED BY <1>1, <4>1
    <3>2. CASE g \notin Declared
      <4>1. PICK e \in Domain \ {op.dom} : Exists(e) /\ g[2] \in Slots(db[e])
        BY <1>3, <3>2
      <4> QED BY <1>5, <4>1 DEF Exists
    <3> QED BY <3>1, <3>2
  <2>4. \A d \in Domain : db'[d] # NoRow => RowFollowed(db'[d], files)
    BY <1>3, <1>5, <2>1 DEF Exists
  <2> QED BY <2>3, <2>4, <1>2, <1>4, CleanStep DEF Follows, Clean, NoOp
<1> QED BY <1>6, <1>7

\* A row whose failure is recorded keeps its payload, what is applied and its
\* certificates.
LEMMA RecordedRow ==
  ASSUME IInv, Record, Recorded
  PROVE  /\ op.dom \in Domain /\ Exists(op.dom) /\ RowOK(db[op.dom]) /\ db'[op.dom] \in Row
         /\ db' = [db EXCEPT ![op.dom] = db'[op.dom]]
         /\ db'[op.dom].enabled = db[op.dom].enabled /\ db'[op.dom].cfg = db[op.dom].cfg
         /\ db'[op.dom].certs = db[op.dom].certs
         /\ AppliedIndices(db'[op.dom]) = AppliedIndices(db[op.dom])
         /\ Slots(db'[op.dom]) = Slots(db[op.dom])
         /\ HasApplied(db[op.dom]) => Applied(db'[op.dom]).text = Applied(db[op.dom]).text
<1> DEFINE row == db[op.dom]
           r == FailedRow(row)
<1>2. op.dom \in Domain /\ Exists(op.dom) /\ RowOK(row)
  BY DEF Record, Recorded, IInv, OpOK, RowsOK, Rows
<1>1. db' = [db EXCEPT ![op.dom] = r] /\ db'[op.dom] = r
  BY <1>2 DEF Record, IInv, TypeOK
<1>3. row \in Row /\ row.deployments \in Seq(Deployment) /\ Len(row.deployments) > 0
  BY <1>2 DEF RowOK, Row
<1>4. r.enabled = row.enabled /\ r.cfg = row.cfg /\ r.certs = row.certs
  BY <1>3 DEF FailedRow, Row
<1>0. FailedStatus(row) \in {"draft", "active", "disabled", "error"}
  BY <1>3 DEF FailedStatus, Row
<1>5. /\ r \in Row
      /\ DOMAIN r.deployments = DOMAIN row.deployments
      /\ \A i \in DOMAIN row.deployments :
           /\ r.deployments[i].text = row.deployments[i].text
           /\ r.deployments[i].status = "applied" <=> row.deployments[i].status = "applied"
  <2>1. CASE op.kind = "apply" /\ Latest(row).status # "applied"
    <3> DEFINE failed == [row.deployments EXCEPT ![Len(row.deployments)].status = "error"]
    <3>1. r = [row EXCEPT !.status = FailedStatus(row), !.deployments = failed]
      BY <1>3, <2>1 DEF FailedRow, Row
    <3>2. \A i \in DOMAIN row.deployments : row.deployments[i] \in Deployment
      BY <1>3
    <3>3. row.deployments[Len(row.deployments)].status # "applied"
      BY <2>1 DEF Latest
    <3>4. failed \in Seq(Deployment)
      <4>1. row.deployments[Len(row.deployments)] \in Deployment
        BY <1>3
      <4>2. [row.deployments[Len(row.deployments)] EXCEPT !.status = "error"] \in Deployment
        BY <4>1 DEF Deployment
      <4> QED BY <1>3, <4>2
    <3>5. r \in Row /\ r.deployments = failed
      BY <1>0, <1>3, <3>1, <3>4 DEF Row
    <3> HIDE DEF row, r
    <3> QED BY <1>3, <3>2, <3>3, <3>5 DEF Deployment
  <2>2. CASE ~ (op.kind = "apply" /\ Latest(row).status # "applied")
    <3>1. r = [row EXCEPT !.status = FailedStatus(row)]
      BY <2>2 DEF FailedRow
    <3>2. r \in Row /\ r.deployments = row.deployments
      BY <1>0, <1>3, <3>1 DEF Row
    <3> QED BY <3>2
  <2> QED BY <2>1, <2>2
<1> HIDE DEF row, r
<1>6. AppliedIndices(r) = AppliedIndices(row) /\ Slots(r) = Slots(row)
  BY <1>5 DEF AppliedIndices, Slots, Indices
<1>7. \A i \in AppliedIndices(row) : r.deployments[i].text = row.deployments[i].text
  BY <1>5 DEF AppliedIndices, Indices
<1>8. HasApplied(row) => Applied(r).text = Applied(row).text
  BY <1>2, <1>6, <1>7, SameApplied
<1> QED BY <1>1, <1>2, <1>4, <1>5, <1>6, <1>8 DEF row

LEMMA RecordFollows ==
  ASSUME FilesInv, Harmless, Record \/ RecordFails
  PROVE  Following'
<1> DEFINE row == db[op.dom]
           r == db'[op.dom]
<1>0. IInv /\ op.pc = "record" /\ db \in [Domain -> Row \cup {NoRow}]
  BY DEF FilesInv, IInv, TypeOK, Record, RecordFails
<1>1. imported = {} /\ Follows(db, files)
  BY <1>0, IdleFollows DEF Clean
<1>2. op' = NoOp /\ UNCHANGED <<files, imported>>
  BY DEF Record, RecordFails
<1>3. CASE UNCHANGED db
  BY <1>1, <1>2, <1>3, CleanStep DEF Clean, NoOp
<1>4. CASE Record /\ Recorded
  <2>1. /\ op.dom \in Domain /\ Exists(op.dom) /\ RowOK(row) /\ r \in Row
        /\ db' = [db EXCEPT ![op.dom] = r]
        /\ r.enabled = row.enabled /\ Slots(r) = Slots(row)
        /\ HasApplied(row) => Applied(r).text = Applied(row).text
    BY <1>0, <1>4, RecordedRow
  <2> HIDE DEF row, r
  <2>2. RowFollowed(row, files)
    BY <1>1, <2>1 DEF Follows, Exists, row
  <2>3. RowFollowed(r, files)
    BY <2>1, <2>2, SameFollowed DEF RowOK
  <2>4. r # NoRow
    BY <2>1, NothingAssumption
  <2>5. Follows(db', files)
    BY <1>0, <1>1, <2>1, <2>3, <2>4, FollowsReplaced DEF Exists, row
  <2> QED BY <1>1, <1>2, <2>5, CleanStep DEF Clean, NoOp
<1> QED BY <1>3, <1>4 DEF Record, RecordFails

-----------------------------------------------------------------------------
(* The container, and what happens outside the service *)

\* A crash that is harmless interrupts nothing that changes files.
LEMMA CrashFollows ==
  ASSUME FilesInv, Harmless, Harmless', Crash
  PROVE  Following'
<1>0. op \in OpType /\ db \in [Domain -> Row \cup {NoRow}]
  BY DEF FilesInv, IInv, TypeOK
<1>1. ~ Dirty
  BY DEF Crash, Harmless
<1>2. op.pc \in Clean
  BY <1>0, <1>1 DEF Dirty, Clean, OpType
<1>3. imported = {} /\ Follows(db, files)
  BY <1>2, IdleFollows
<1>4. op' = NoOp /\ imported' = {} /\ files' = files
  BY <1>1 DEF Crash, Dirty
<1>5. db' = db
  BY <1>0, <1>3 DEF Crash
<1> QED BY <1>3, <1>4, <1>5, CleanStep DEF Clean, NoOp

\* The importer finds nothing to adopt: every file belongs to a row.
LEMMA NothingToImport ==
  ASSUME FilesInv, Harmless, NEW d \in Domain, NEW s \in Slot, Import(d, s)
  PROVE  FALSE
<1> DEFINE text == files[<<"enabled", s>>]
<1>0. op \in OpType
  BY DEF FilesInv, IInv, TypeOK
<1>1. op.pc = "idle"
  BY <1>0 DEF FilesInv, Shape, Import
<1>2. Follows(db, files)
  BY <1>1, IdleFollows DEF Clean
<1>3. <<"enabled", s>> \in File /\ text # NoText /\ db[d] = NoRow /\ ~ Conflicts(d, text.cfg)
  BY DEF Import, File, Side, Exists
<1>4. PICK e \in Domain : db[e] # NoRow /\ s \in Slots(db[e])
  BY <1>2, <1>3 DEF Follows, Owned
<1>5. RowOK(db[e])
  BY <1>4 DEF FilesInv, IInv, RowsOK, Rows, Exists
<1>6. RowFollowed(db[e], files)
  BY <1>2, <1>4 DEF Follows
<1>7. text = AsApplied(db[e], s)
  BY <1>4, <1>6 DEF RowFollowed
<1>8. s = SlotOf(text.cfg)
  BY <1>3, <1>7 DEF AsApplied
<1>9. e \in Others(d)
  BY <1>3, <1>4 DEF Others, Exists
<1>10. Conflicts(d, text.cfg)
  BY <1>4, <1>8, <1>9 DEF Conflicts
<1> QED BY <1>3, <1>10

LEMMA ExpiresFollows ==
  ASSUME FilesInv, Harmless, NEW d \in Domain, NEW c, CertificateExpires(d, c)
  PROVE  Following'
<1> DEFINE row == db[d]
           r == db'[d]
<1>0. IInv /\ db \in [Domain -> Row \cup {NoRow}] /\ UNCHANGED <<files, op, imported>>
  BY DEF FilesInv, IInv, TypeOK, CertificateExpires
<1>1. Exists(d) /\ RowOK(row) /\ r \in Row /\ db' = [db EXCEPT ![d] = r]
  BY <1>0, ExpiredRow
<1>2. r.enabled = row.enabled /\ Slots(r) = Slots(row)
  BY <1>0, ExpiredRow
<1>3. row.enabled => Applied(r).text = Applied(row).text
  BY <1>0, <1>1, ExpiredRow DEF RowOK
<1>4. r # NoRow
  BY <1>1, NothingAssumption
<1> HIDE DEF r
<1>5. ASSUME NEW f, Follows(db, f) PROVE Follows(db', f)
  <2>1. RowFollowed(row, f)
    BY <1>1, <1>5 DEF Follows, Exists
  <2>2. RowFollowed(r, f)
    BY <1>2, <1>3, <2>1, SameFollowed
  <2> QED BY <1>0, <1>1, <1>2, <1>4, <1>5, <2>2, FollowsReplaced DEF Exists
<1> QED BY <1>0, <1>5 DEF FilesInv, Following

\* Steps that touch neither rows nor files nor the operation.
LEMMA ElsewhereFollows ==
  ASSUME FilesInv, Harmless, UNCHANGED <<db, files, op>>, imported' \subseteq imported
  PROVE  Following'
BY DEF FilesInv, Following

-----------------------------------------------------------------------------
(* The theorem *)

LEMMA FollowingStep == FilesInv /\ [Next]_vars => Following'
<1> SUFFICES ASSUME FilesInv, [Next]_vars, Harmless' PROVE Following'
  BY DEF Following
<1>0. Harmless
  BY AlarmStays DEF Harmless
<1>1. CASE Request
  <2>1. PICK d \in Domain :
          \/ \E cfg \in Payload : CreateDomain(d, cfg) \/ UpdateDomain(d, cfg)
          \/ \E kind \in Kind : Begin(kind, d)
    BY <1>1 DEF Request, ApplyDomain, DisableDomain, Delete, IssueCertificate, Kind
  <2> QED BY <1>0, <2>1, CreateFollows, UpdateFollows, BeginFollows
<1>2. ~ CommitUnknown /\ ~ RollbackFails
  BY DEF CommitUnknown, RollbackFails, Harmless
<1>3. CASE Step
  BY <1>0, <1>2, <1>3, BodyFollows, FailureFollows, RecoveryFollows, CommitFollows,
     RecordFollows DEF Step
<1>4. CASE Restart \/ Started \/ ExternalReload \/ UNCHANGED vars
  <2>1. UNCHANGED <<db, files, op>> /\ imported' \subseteq imported
    BY <1>4 DEF Restart, Started, ExternalReload, vars
  <2> QED BY <1>0, <2>1, ElsewhereFollows
<1>5. CASE Environment
  BY <1>0, <1>4, <1>5, CrashFollows, NothingToImport, ExpiresFollows DEF Environment
<1> QED BY <1>1, <1>3, <1>4, <1>5 DEF Next

LEMMA FilesInvStep == FilesInv /\ [Next]_vars => FilesInv'
BY IInvStep, FlagsStep, ShapeStep, WrittenStep, UntouchedStep, FollowingStep DEF FilesInv

LEMMA FilesInvariance == Spec => []FilesInv
BY InitFilesInv, FilesInvStep, PTL DEF Spec

\* Between operations the files are those of the applied deployments of the
\* enabled domains and no others, whichever commands, writes and requests have
\* failed, unless a manifest on disk says otherwise or a commit went through
\* without an answer.
THEOREM FilesFollowDatabase == Spec => []UnflaggedFilesFollowDatabase
<1>1. FilesInv => UnflaggedFilesFollowDatabase
  <2> SUFFICES ASSUME FilesInv, Idle, ~ flagged, "commit_unknown" \notin alarm
               PROVE  /\ \A d \in Rows : EnabledFilesMatch(d) /\ (db[d].enabled => AvailableFilesMatch(d))
                      /\ \A f \in File : files[f] # NoText => \E d \in Rows : f[2] \in Slots(db[d])
    BY DEF UnflaggedFilesFollowDatabase
  <2>1. Harmless
    BY DEF FilesInv, Flags, Harmless
  <2>2. Follows(db, files)
    BY <2>1, IdleFollows DEF Idle, NoOp, Clean
  <2> QED BY <2>2 DEF Follows, RowFollowed, Owned, Rows, Exists, EnabledFilesMatch,
                      AvailableFilesMatch
<1> QED BY <1>1, FilesInvariance, PTL

-----------------------------------------------------------------------------
(* A transaction that succeeds *)

\* From the reload of the body to its end nginx runs the files of the body.
ReloadedInBody == op.pc \in {"certbot", "expiry", "commit"} => running = Loaded(files)

LEMMA ReloadedStep == IInv /\ Shape /\ ReloadedInBody /\ [Next]_vars => ReloadedInBody'
<1> SUFFICES ASSUME IInv, Shape, ReloadedInBody, [Next]_vars PROVE ReloadedInBody'
  OBVIOUS
<1>0. op \in OpType
  BY DEF IInv, TypeOK
<1> USE DEF ReloadedInBody
<1>1. CASE Request
  BY <1>1, RequestsBegin
<1>2. CASE Capture \/ CaptureFails \/ (\E f \in File : ChangeFile(f)) \/ Changed \/ Test
  BY <1>0, <1>2 DEF Capture, CaptureFails, ChangeFile, Changed, Test, Goto, OpType
<1>3. CASE Reload
  BY <1>3 DEF Reload, Loaded
<1>4. CASE Certbot \/ Expiry
  BY <1>0, <1>4 DEF Certbot, Expiry, Goto, OpType
<1>5. CASE ChangeFails \/ WaitFails \/ ReloadFails \/ CertbotKilled \/ CommitUnknown
  BY <1>0, <1>5 DEF ChangeFails, WaitFails, ReloadFails, CertbotKilled, CommitUnknown, Raise, OpType
<1>6. CASE Rollback \/ Retest \/ Rereload \/ RollbackFails \/ RecoverFails
  BY <1>0, <1>6 DEF Rollback, Retest, Rereload, RollbackFails, RecoverFails, Goto, OpType
<1>7. CASE Commit \/ Record \/ RecordFails \/ Crash
  <2>1. op' = NoOp
    BY <1>7 DEF Commit, Record, RecordFails, Crash
  <2> QED BY <2>1 DEF NoOp
<1>8. CASE Restart \/ ExternalReload
  BY <1>8 DEF Restart, ExternalReload, Loaded
<1>9. CASE UNCHANGED <<files, running, op>>
  BY <1>9
<1>10. CASE Environment
  BY <1>7, <1>8, <1>9, <1>10 DEF Environment, Import, Started, CertificateExpires
<1> QED BY <1>1, <1>2, <1>3, <1>4, <1>5, <1>6, <1>7, <1>9, <1>10 DEF Next, Step, vars

\* Nothing but its commit ends an operation that is about to commit, if the
\* service lives.
LEMMA EndsByCommit ==
  ASSUME IInv, [Next]_vars, op.pc = "commit", op' = NoOp, phase' = "up", phase = "up"
  PROVE  Commit
<1>0. op \in OpType /\ op # NoOp
  BY DEF IInv, TypeOK, NoOp
<1>1. ~ Request
  BY RequestsBegin
<1>2. ~ (Capture \/ CaptureFails \/ (\E f \in File : ChangeFile(f)) \/ Changed \/ Test \/ Reload
         \/ Certbot \/ Expiry \/ ChangeFails \/ ReloadFails \/ CertbotKilled)
  BY DEF Capture, CaptureFails, ChangeFile, Changed, Test, Reload, Certbot, Expiry, ChangeFails,
         ReloadFails, CertbotKilled
<1>3. ~ (Rollback \/ Retest \/ Rereload \/ RollbackFails \/ RecoverFails \/ Record \/ RecordFails)
  BY DEF Rollback, Retest, Rereload, RollbackFails, RecoverFails, Record, RecordFails
<1>4. ~ (WaitFails \/ CommitUnknown)
  <2> SUFFICES ASSUME WaitFails \/ CommitUnknown PROVE op'.pc = "rollback"
    BY DEF NoOp
  <2> QED BY <1>0 DEF WaitFails, CommitUnknown, Raise, OpType
<1>5. ~ Environment /\ ~ UNCHANGED vars
  BY <1>0 DEF Environment, Crash, Restart, Import, Started, ExternalReload, CertificateExpires, vars
<1> QED BY <1>1, <1>2, <1>3, <1>4, <1>5 DEF Next, Step

LEMMA CommitHeals ==
  ASSUME FilesInv, ReloadedInBody, Commit
  PROVE  /\ running' = Loaded(files')
         /\ \A d \in Domain : d = op.dom =>
              IF db'[d] = NoRow
              THEN \A f \in Declared : files'[f] = NoText
              ELSE /\ EnabledFilesMatch(d)'
                   /\ db'[d].enabled => AvailableFilesMatch(d)'
                   /\ db'[d].enabled <=> op.kind # "disable"
<1> DEFINE row == db[op.dom]
           r == CommittedRow(row)
<1>0. IInv /\ Shape /\ op.pc = "commit" /\ db \in [Domain -> Row \cup {NoRow}]
  BY DEF FilesInv, IInv, TypeOK, Commit
<1>1. op.dom \in Domain /\ Exists(op.dom) /\ row \in Row /\ op.kind \in Kind
  BY <1>0 DEF IInv, OpOK, Working, RowsOK, RowOK, Rows
<1>2. db'[op.dom] = r /\ UNCHANGED <<files, running>>
  BY <1>0, <1>1 DEF Commit, CommittedDb
<1>3. \A f \in Declared : files[f] = Desired(f)
  BY <1>0 DEF FilesInv, Written, Body, Changing
<1>4. running' = Loaded(files')
  BY <1>0, <1>2 DEF ReloadedInBody
<1>5. CASE op.kind = "delete"
  <2>1. r = NoRow /\ \A f \in Declared : files[f] = NoText
    BY <1>3, <1>5 DEF CommittedRow, Desired
  <2> QED BY <1>2, <1>4, <2>1
<1>6. CASE op.kind # "delete"
  <2>1. RowFollowed(r, files)
    BY <1>0, <1>3, <1>6, CommittedFollowed
  <2>2. r.enabled <=> op.kind # "disable"
    BY <1>1, <1>6 DEF CommittedRow, Row, Kind
  <2>3. r # NoRow
    BY <1>0, <1>2, <1>6, CommittedOK DEF Commit
  <2> HIDE DEF r
  <2>4. /\ \A s \in Slots(r) : files[<<"enabled", s>>] = AsApplied(r, s)
        /\ r.enabled => \A s \in Slots(r) : files[<<"available", s>>] = AsApplied(r, s)
    BY <2>1 DEF RowFollowed
  <2> SUFFICES ASSUME NEW d \in Domain, d = op.dom
               PROVE  /\ db'[d] # NoRow
                      /\ EnabledFilesMatch(d)'
                      /\ db'[d].enabled => AvailableFilesMatch(d)'
                      /\ db'[d].enabled <=> op.kind # "disable"
    BY <1>4
  <2>5. db'[d] = r /\ files' = files
    BY <1>2
  <2>6. EnabledFilesMatch(d)' /\ (r.enabled => AvailableFilesMatch(d)')
    BY <2>4, <2>5 DEF EnabledFilesMatch, AvailableFilesMatch
  <2> QED BY <2>2, <2>3, <2>5, <2>6
<1> QED BY <1>5, <1>6

\* Whatever had gone wrong before, an operation that ends in success leaves its
\* domain in order: nginx runs the files on disk, and those of the domain are
\* what its row says.
THEOREM SuccessAlwaysHeals == Spec => SuccessHeals
<1>1. Init => ReloadedInBody
  BY DEF Init, ReloadedInBody, NoOp
<1>2. FilesInv /\ ReloadedInBody /\ [Next]_vars => ReloadedInBody'
  BY ReloadedStep DEF FilesInv
<1>3. FilesInv /\ ReloadedInBody /\ [Next]_vars =>
        [ (op.pc = "commit" /\ op' = NoOp /\ phase' = "up") =>
            /\ running' = Loaded(files')
            /\ \A d \in Domain : d = op.dom =>
                 IF db'[d] = NoRow
                 THEN \A f \in Declared : files'[f] = NoText
                 ELSE /\ EnabledFilesMatch(d)'
                      /\ db'[d].enabled => AvailableFilesMatch(d)'
                      /\ db'[d].enabled <=> op.kind # "disable" ]_vars
  BY EndsByCommit, CommitHeals DEF FilesInv, Shape
<1> QED BY <1>1, <1>2, <1>3, FilesInvariance, PTL DEF Spec, SuccessHeals

-----------------------------------------------------------------------------
(* What an operation does to other domains *)

\* Until a commit goes through without an answer, the domain under way exists.
There == ("commit_unknown" \notin alarm /\ op.pc # "idle") => Exists(op.dom)

\* While nothing has gone wrong, nginx runs the files of every other domain at
\* each point of the operation.
Elsewhere ==
  (alarm = {} /\ phase = "up" /\ op.pc # "idle") =>
    \A s \in Slot \ Slots(db[op.dom]) : running[s] = files[<<"enabled", s>>]

LEMMA ThereStep == IInv /\ Shape /\ There /\ [Next]_vars => There'
<1> SUFFICES ASSUME IInv, Shape, There, [Next]_vars, "commit_unknown" \notin alarm', op'.pc # "idle"
             PROVE  db'[op'.dom] # NoRow
  BY DEF There, Exists
<1>0. /\ op \in OpType /\ db \in [Domain -> Row \cup {NoRow}] /\ "commit_unknown" \notin alarm
      /\ op.pc # "idle" => op.dom \in Domain
  BY AlarmStays DEF IInv, TypeOK, OpOK
<1>1. ASSUME NEW kind, NEW d \in Domain, Begin(kind, d) PROVE db'[op'.dom] # NoRow
  BY <1>1 DEF Begin, Exists, NoOp
<1>2. ASSUME UNCHANGED db, op'.dom = op.dom, op.pc # "idle" PROVE db'[op'.dom] # NoRow
  BY <1>0, <1>2 DEF There, Exists
<1>3. CASE Request
  <2>1. CASE UNCHANGED op
    BY <1>3, <2>1, RequestsBegin
  <2>2. ASSUME NEW d \in Domain, NEW cfg \in Payload, CreateDomain(d, cfg) \/ UpdateDomain(d, cfg)
        PROVE  UNCHANGED op
    BY <2>2 DEF CreateDomain, UpdateDomain
  <2> QED BY <1>1, <1>3, <2>1, <2>2 DEF Request, ApplyDomain, DisableDomain, Delete, IssueCertificate
<1>4. CASE Capture \/ CaptureFails \/ (\E f \in File : ChangeFile(f)) \/ Changed \/ Test
           \/ Reload \/ Certbot \/ Expiry
  BY <1>0, <1>2, <1>4 DEF Capture, CaptureFails, ChangeFile, Changed, Test, Reload, Certbot,
                          Expiry, Goto, OpType
<1>5. CASE ChangeFails \/ WaitFails \/ ReloadFails \/ CertbotKilled \/ CommitUnknown
  BY <1>0, <1>2, <1>5 DEF ChangeFails, WaitFails, ReloadFails, CertbotKilled, CommitUnknown,
                          Raise, OpType
<1>6. CASE Rollback \/ Retest \/ Rereload \/ RollbackFails \/ RecoverFails
  BY <1>0, <1>2, <1>6 DEF Rollback, Retest, Rereload, RollbackFails, RecoverFails, Goto, OpType
<1>7. CASE Commit \/ Record \/ RecordFails \/ Crash
  <2>1. op' = NoOp
    BY <1>7 DEF Commit, Record, RecordFails, Crash
  <2> QED BY <2>1 DEF NoOp
<1>8. CASE Restart \/ Started \/ ExternalReload \/ UNCHANGED vars
  BY <1>2, <1>8 DEF Restart, Started, ExternalReload, vars
<1>9. ASSUME NEW d \in Domain, NEW s \in Slot, Import(d, s) PROVE db'[op'.dom] # NoRow
  BY <1>9 DEF Import, Shape
<1>10. ASSUME NEW d \in Domain, NEW c, CertificateExpires(d, c) PROVE db'[op'.dom] # NoRow
  <2>1. db'[d] # NoRow /\ db' = [db EXCEPT ![d] = db'[d]]
    BY <1>10, ExpiredRow, NothingAssumption
  <2>2. UNCHANGED op /\ Exists(op.dom)
    BY <1>0, <1>10 DEF CertificateExpires, There
  <2> QED BY <1>0, <2>1, <2>2 DEF Exists
<1> QED BY <1>3, <1>4, <1>5, <1>6, <1>7, <1>8, <1>9, <1>10 DEF Next, Step, Environment

\* From its beginning to its end an operation keeps its paths, leaves all other
\* paths alone and only ever reloads what is there.
LEMMA OthersLeftAlone ==
  ASSUME FilesInv, [Next]_vars, alarm' = {}, op.pc # "idle", op'.pc # "idle"
  PROVE  /\ op'.dom = op.dom /\ Slots(db'[op.dom]) = Slots(db[op.dom])
         /\ \A s \in Slot \ Slots(db[op.dom]) :
              /\ files'[<<"enabled", s>>] = files[<<"enabled", s>>]
              /\ running'[s] \in {running[s], files[<<"enabled", s>>]}
<1> DEFINE Goal == /\ op'.dom = op.dom /\ Slots(db'[op.dom]) = Slots(db[op.dom])
                   /\ \A s \in Slot \ Slots(db[op.dom]) :
                        /\ files'[<<"enabled", s>>] = files[<<"enabled", s>>]
                        /\ running'[s] \in {running[s], files[<<"enabled", s>>]}
<1>0. /\ IInv /\ Shape /\ Written /\ Untouched /\ op \in OpType /\ op.dom \in Domain
      /\ files \in [File -> Text \cup {NoText}] /\ alarm = {}
  BY AlarmStays DEF FilesInv, IInv, TypeOK, OpOK
<1>1. ~ Request
  BY RequestsBegin
<1>2. ASSUME UNCHANGED <<db, files>>, op'.dom = op.dom, running' \in {running, Loaded(files)}
      PROVE  Goal
  BY <1>2 DEF Loaded
<1>3. CASE Capture \/ CaptureFails \/ Changed \/ Test \/ Reload \/ Certbot \/ Expiry
  BY <1>0, <1>2, <1>3 DEF Capture, CaptureFails, Changed, Test, Reload, Certbot, Expiry, Goto, OpType
<1>4. ASSUME NEW f \in File, ChangeFile(f) PROVE Goal
  <2>1. f \in Declared
    BY <1>0, <1>4 DEF ChangeFile, Written, Body, Changing
  <2>2. UNCHANGED <<db, running>> /\ op'.dom = op.dom /\ files' = [files EXCEPT ![f] = Desired(f)]
    BY <1>0, <1>4 DEF ChangeFile, OpType
  <2>3. \A s \in Slot \ Slots(db[op.dom]) : <<"enabled", s>> \in File /\ <<"enabled", s>> # f
    BY <2>1 DEF Declared, File, Side
  <2> QED BY <1>0, <2>2, <2>3
<1>5. CASE ChangeFails \/ WaitFails \/ ReloadFails \/ CertbotKilled \/ CommitUnknown
  BY <1>0, <1>2, <1>5 DEF ChangeFails, WaitFails, ReloadFails, CertbotKilled, CommitUnknown,
                          Raise, OpType
<1>6. CASE Rollback
  <2>1. UNCHANGED <<db, running>> /\ op'.dom = op.dom /\ files' = op.saved
    BY <1>0, <1>6 DEF Rollback, Goto, OpType
  <2>2. \A s \in Slot \ Slots(db[op.dom]) : <<"enabled", s>> \in File \ Declared
    BY DEF Declared, File, Side
  <2>3. \A f \in File \ Declared : files[f] = op.saved[f]
    BY <1>0, <1>6 DEF Untouched, Rollback
  <2> QED BY <2>1, <2>2, <2>3
<1>7. CASE Retest \/ Rereload \/ RollbackFails \/ RecoverFails
  BY <1>0, <1>2, <1>7 DEF Retest, Rereload, RollbackFails, RecoverFails, Goto, OpType
<1>8. CASE Commit \/ Record \/ RecordFails \/ Crash
  <2>1. op' = NoOp
    BY <1>8 DEF Commit, Record, RecordFails, Crash
  <2> QED BY <2>1 DEF NoOp
<1>9. CASE ExternalReload \/ UNCHANGED vars
  BY <1>2, <1>9 DEF ExternalReload, vars
<1>10. ASSUME NEW d \in Domain, NEW s \in Slot, Restart \/ Started \/ Import(d, s) PROVE Goal
  BY <1>0, <1>10 DEF Restart, Started, Import, Shape
<1>11. ASSUME NEW d \in Domain, NEW c, CertificateExpires(d, c) PROVE Goal
  <2>1. UNCHANGED <<files, running, op>>
    BY <1>11 DEF CertificateExpires
  <2>2. Slots(db'[d]) = Slots(db[d]) /\ db' = [db EXCEPT ![d] = db'[d]]
    BY <1>0, <1>11, ExpiredRow
  <2>3. Slots(db'[op.dom]) = Slots(db[op.dom])
    BY <1>0, <2>2 DEF IInv, TypeOK
  <2> QED BY <2>1, <2>3
<1>12. CASE Restart \/ Started
  BY <1>0, <1>12 DEF Restart, Started, Shape
<1> QED BY <1>1, <1>3, <1>4, <1>5, <1>6, <1>7, <1>8, <1>9, <1>10, <1>11, <1>12
        DEF Next, Step, Environment

LEMMA ElsewhereStep == FilesInv /\ RunningFilesAt /\ Elsewhere /\ [Next]_vars => Elsewhere'
<1> SUFFICES ASSUME FilesInv, RunningFilesAt, Elsewhere, [Next]_vars,
                    alarm' = {}, phase' = "up", op'.pc # "idle"
             PROVE  \A s \in Slot \ Slots(db'[op'.dom]) : running'[s] = files'[<<"enabled", s>>]
  BY DEF Elsewhere
<1>0. IInv /\ Shape /\ alarm = {}
  BY AlarmStays DEF FilesInv
<1>1. CASE op.pc # "idle"
  <2>1. phase = "up"
    BY <1>0, <1>1 DEF Shape
  <2> QED BY <1>0, <1>1, <2>1, OthersLeftAlone DEF Elsewhere
<1>2. CASE op.pc = "idle"
  <2>1. op = NoOp
    BY <1>0, <1>2 DEF IInv, OpOK
  <2>2. Request
    <3>1. ~ Step
      BY <1>2 DEF Step, Capture, CaptureFails, ChangeFile, Changed, Test, Reload, Certbot, Expiry,
                  Commit, ChangeFails, WaitFails, ReloadFails, CertbotKilled, CommitUnknown,
                  Rollback, Retest, Rereload, RollbackFails, RecoverFails, Record, RecordFails
    <3>2. Environment \/ UNCHANGED vars => op' = NoOp
      BY <2>1 DEF Environment, Crash, Restart, Import, Started, ExternalReload, CertificateExpires,
                  vars
    <3> QED BY <3>1, <3>2 DEF Next, NoOp
  <2>3. phase = "up" /\ UNCHANGED <<files, running>>
    BY <2>2 DEF Request, CreateDomain, UpdateDomain, ApplyDomain, DisableDomain, Delete,
                IssueCertificate, Begin, Free
  <2>4. running = Loaded(files)
    BY <1>0, <1>2, <2>3 DEF RunningFilesAt, Settled
  <2> QED BY <2>3, <2>4 DEF Loaded
<1> QED BY <1>1, <1>2

\* What nginx runs changes by a start or by a reload of the files on disk.
LEMMA ReloadsOnly ==
  ASSUME [Next]_vars, phase = "up", phase' = "up"
  PROVE  running' \in {running, Loaded(files)}
<1>1. CASE Request
  BY <1>1 DEF Request, CreateDomain, UpdateDomain, ApplyDomain, DisableDomain, Delete,
              IssueCertificate, Begin
<1>2. CASE Capture \/ CaptureFails \/ (\E f \in File : ChangeFile(f)) \/ Changed \/ Test
           \/ Reload \/ Certbot \/ Expiry \/ Commit
  BY <1>2 DEF Capture, CaptureFails, ChangeFile, Changed, Test, Reload, Certbot, Expiry, Commit
<1>3. CASE ChangeFails \/ WaitFails \/ ReloadFails \/ CertbotKilled \/ CommitUnknown
  BY <1>3 DEF ChangeFails, WaitFails, ReloadFails, CertbotKilled, CommitUnknown
<1>4. CASE Rollback \/ Retest \/ Rereload \/ RollbackFails \/ RecoverFails \/ Record \/ RecordFails
  BY <1>4 DEF Rollback, Retest, Rereload, RollbackFails, RecoverFails, Record, RecordFails
<1>5. CASE Environment
  BY <1>5 DEF Environment, Crash, Restart, Import, Started, ExternalReload, CertificateExpires
<1>6. CASE UNCHANGED vars
  BY <1>6 DEF vars
<1> QED BY <1>1, <1>2, <1>3, <1>4, <1>5, <1>6 DEF Next, Step

LEMMA UndisturbedStep ==
  ASSUME FilesInv, RunningFilesAt, There, Elsewhere, [Next]_vars,
         phase = "up", phase' = "up", alarm = {}
  PROVE  \A e \in Rows \ {op.dom} : \A s \in Slots(db[e]) : running'[s] = running[s]
<1> SUFFICES ASSUME NEW e \in Rows \ {op.dom}, NEW s \in Slots(db[e]),
                    running' = Loaded(files)
             PROVE  running'[s] = running[s]
  BY ReloadsOnly
<1>0. IInv /\ e \in Domain /\ Exists(e) /\ (op.pc # "idle" => op.dom \in Domain)
  BY DEF FilesInv, IInv, OpOK, Rows
<1>1. RowOK(db[e])
  BY <1>0 DEF IInv, RowsOK, Rows
<1>2. s \in Slot
  BY <1>1, SlotsTyped
<1>3. running'[s] = files[<<"enabled", s>>]
  BY <1>2 DEF Loaded
<1>4. CASE op.pc = "idle"
  <2>1. running = Loaded(files)
    BY <1>4 DEF RunningFilesAt, Settled
  <2> QED BY <2>1
<1>5. CASE op.pc # "idle"
  <2>1. op.dom \in Rows
    BY <1>0, <1>5 DEF There, Rows
  <2>2. s \notin Slots(db[op.dom])
    BY <1>0, <2>1 DEF IInv, DomainsDisjoint
  <2>3. running[s] = files[<<"enabled", s>>]
    BY <1>2, <1>5, <2>2 DEF Elsewhere
  <2> QED BY <1>3, <2>3
<1> QED BY <1>4, <1>5

\* While nothing has gone wrong, no step of an operation, failed or not, and no
\* reload of the renewal hook in the middle of one changes what nginx runs for
\* another domain.
THEOREM OthersAreUndisturbed == Spec => OthersUndisturbed
<1>1. Init => RunningFilesAt /\ There /\ Elsewhere
  BY DEF Init, RunningFilesAt, There, Elsewhere, Loaded, NoFiles, NoOp, File, Side
<1>2. FilesInv /\ There /\ [Next]_vars => There'
  BY ThereStep DEF FilesInv
<1>3. FilesInv /\ RunningFilesAt /\ [Next]_vars => RunningFilesAt'
  BY RunningStep DEF FilesInv
<1>4. FilesInv /\ RunningFilesAt /\ There /\ Elsewhere /\ [Next]_vars =>
        [ (phase = "up" /\ phase' = "up" /\ alarm = {}) =>
            \A e \in Rows \ {op.dom} : \A s \in Slots(db[e]) : running'[s] = running[s] ]_vars
  BY UndisturbedStep
<1> QED BY <1>1, <1>2, <1>3, <1>4, ElsewhereStep, FilesInvariance, PTL DEF Spec, OthersUndisturbed

-----------------------------------------------------------------------------
(* What a stopped container would start with *)

\* nginx -t on files f, with certificates on disk as in lin.
Passes(f, lin) ==
  LET present == {s \in Slot : f[<<"enabled", s>>] # NoText}
  IN  /\ \A s \in present : /\ f[<<"enabled", s>>].cfg.valid
                            /\ f[<<"enabled", s>>].ssl => lin[f[<<"enabled", s>>].cert] # {}
      /\ \A s, t \in present :
           (s # t /\ s[1] = "port_proxy" /\ t[1] = "port_proxy")
              => f[<<"enabled", s>>].cfg.port # f[<<"enabled", t>>].cfg.port

LEMMA ValidPasses == Valid(Loaded(files)) <=> Passes(files, lineage)
BY DEF Valid, Loaded, Passes

\* A test that passes goes on passing while no certificate disappears.
LEMMA PassesStays ==
  ASSUME NEW f \in [File -> Text \cup {NoText}], NEW lin, NEW lin2, Passes(f, lin),
         \A n \in Name : lin[n] # {} => lin2[n] # {}
  PROVE  Passes(f, lin2)
<1>1. ASSUME NEW s \in Slot, f[<<"enabled", s>>] # NoText, f[<<"enabled", s>>].ssl
      PROVE  lin2[f[<<"enabled", s>>].cert] # {}
  <2>1. <<"enabled", s>> \in File
    BY DEF File, Side
  <2>2. f[<<"enabled", s>>] \in Text
    BY <1>1, <2>1
  <2>3. f[<<"enabled", s>>].cert \in Name
    BY <1>1, <2>2 DEF Text
  <2> QED BY <1>1, <2>3 DEF Passes
<1> QED BY <1>1 DEF Passes

\* Certificates are issued for host names only.
Issuing == op.kind = "issue" => db[op.dom].cfg.type = "hostname"

LEMMA IssuingStep == IInv /\ Shape /\ Issuing /\ [Next]_vars => Issuing'
<1> SUFFICES ASSUME IInv, Shape, Issuing, [Next]_vars, op'.kind = "issue"
             PROVE  db'[op'.dom].cfg.type = "hostname"
  BY DEF Issuing
<1>0. /\ op \in OpType /\ db \in [Domain -> Row \cup {NoRow}]
      /\ op.pc # "idle" => op.dom \in Domain
      /\ op.pc = "idle" => op.kind # "issue"
  BY DEF IInv, TypeOK, OpOK, NoOp
<1>1. ASSUME UNCHANGED db, op'.dom = op.dom, op'.kind = op.kind
      PROVE  db'[op'.dom].cfg.type = "hostname"
  BY <1>1 DEF Issuing
<1>2. CASE Request
  <2>1. ASSUME NEW d \in Domain, NEW cfg \in Payload, CreateDomain(d, cfg) \/ UpdateDomain(d, cfg)
        PROVE  FALSE
    BY <2>1 DEF CreateDomain, UpdateDomain, Free, NoOp
  <2>2. ASSUME NEW d \in Domain, ApplyDomain(d) \/ DisableDomain(d) \/ Delete(d) PROVE FALSE
    BY <2>2 DEF ApplyDomain, DisableDomain, Delete, Begin, NoOp
  <2>3. ASSUME NEW d \in Domain, IssueCertificate(d) PROVE db'[op'.dom].cfg.type = "hostname"
    BY <2>3 DEF IssueCertificate, Begin, NoOp
  <2> QED BY <1>2, <2>1, <2>2, <2>3 DEF Request
<1>3. CASE Capture \/ CaptureFails \/ (\E f \in File : ChangeFile(f)) \/ Changed \/ Test
           \/ Reload \/ Certbot \/ Expiry
  BY <1>0, <1>1, <1>3 DEF Capture, CaptureFails, ChangeFile, Changed, Test, Reload, Certbot,
                          Expiry, Goto, OpType
<1>4. CASE ChangeFails \/ WaitFails \/ ReloadFails \/ CertbotKilled
  BY <1>0, <1>1, <1>4 DEF ChangeFails, WaitFails, ReloadFails, CertbotKilled, Raise, OpType
<1>5. CASE CommitUnknown
  <2>1. op'.dom = op.dom /\ op'.kind = op.kind /\ db' = CommittedDb /\ op.dom \in Domain /\ Exists(op.dom)
    BY <1>0, <1>5 DEF CommitUnknown, OpType, IInv, OpOK, Working
  <2>2. db'[op.dom] = CommittedRow(db[op.dom]) /\ db[op.dom] \in Row
    BY <1>0, <2>1 DEF CommittedDb, Exists
  <2>3. CommittedRow(db[op.dom]).cfg = db[op.dom].cfg
    BY <2>1, <2>2 DEF CommittedRow, Row
  <2> QED BY <2>1, <2>2, <2>3 DEF Issuing
<1>6. CASE Rollback \/ Retest \/ Rereload \/ RollbackFails \/ RecoverFails
  BY <1>0, <1>1, <1>6 DEF Rollback, Retest, Rereload, RollbackFails, RecoverFails, Goto, OpType
<1>7. CASE Commit \/ Record \/ RecordFails \/ Crash
  <2>1. op' = NoOp
    BY <1>7 DEF Commit, Record, RecordFails, Crash
  <2> QED BY <2>1 DEF NoOp
<1>8. CASE Restart \/ Started \/ ExternalReload \/ UNCHANGED vars
  BY <1>1, <1>8 DEF Restart, Started, ExternalReload, vars
<1>9. ASSUME NEW d \in Domain, NEW s \in Slot, Import(d, s) PROVE FALSE
  BY <1>0, <1>9 DEF Import, Shape
<1>10. ASSUME NEW d \in Domain, NEW c, CertificateExpires(d, c)
       PROVE  db'[op'.dom].cfg.type = "hostname"
  <2>1. db'[d].cfg = db[d].cfg /\ db' = [db EXCEPT ![d] = db'[d]]
    BY <1>10, ExpiredRow
  <2>2. UNCHANGED op /\ op.dom \in Domain
    BY <1>0, <1>10 DEF CertificateExpires
  <2>3. db'[op.dom].cfg = db[op.dom].cfg
    BY <1>0, <2>1, <2>2
  <2> QED BY <2>2, <2>3 DEF Issuing
<1> QED BY <1>2, <1>3, <1>4, <1>5, <1>6, <1>7, <1>8, <1>9, <1>10 DEF Next, Step, Environment

\* certbot replaces a certificate by one that covers at least its own name.
LEMMA LineageGrows ==
  ASSUME IInv, Issuing, Shape, [Next]_vars
  PROVE  \A n \in Name : lineage[n] # {} => lineage'[n] # {}
<1>0. lineage \in [Name -> SUBSET Name]
  BY DEF IInv, TypeOK
<1>1. CASE UNCHANGED lineage
  BY <1>1
<1>2. CASE Certbot \/ CertbotKilled
  <2>1. op.pc = "certbot" /\ op.kind = "issue" /\ op.dom \in Domain /\ Exists(op.dom)
    BY <1>2 DEF Certbot, CertbotKilled, Shape, IInv, OpOK
  <2>2. db[op.dom].cfg \in Payload
    BY <2>1 DEF IInv, TypeOK, Exists, Row
  <2>3. db[op.dom].cfg.names # {}
    BY <2>1, <2>2, HostnameAssumption DEF Issuing
  <2>4. lineage' = [lineage EXCEPT ![db[op.dom].cfg.name] = db[op.dom].cfg.names]
    BY <1>2 DEF Certbot, CertbotKilled
  <2> QED BY <1>0, <2>3, <2>4
<1>3. CASE Request
  BY <1>1, <1>3 DEF Request, CreateDomain, UpdateDomain, ApplyDomain, DisableDomain, Delete,
                    IssueCertificate, Begin
<1>4. CASE Step
  BY <1>1, <1>2, <1>4 DEF Step, Capture, CaptureFails, ChangeFile, Changed, Test, Reload, Expiry,
                          Commit, ChangeFails, WaitFails, ReloadFails, CommitUnknown, Rollback,
                          Retest, Rereload, RollbackFails, RecoverFails, Record, RecordFails
<1>5. CASE Environment \/ UNCHANGED vars
  BY <1>1, <1>5 DEF Environment, Crash, Restart, Import, Started, ExternalReload,
                    CertificateExpires, vars
<1> QED BY <1>3, <1>4, <1>5 DEF Next

\* What a rollback would return to.
Origin == IF op.pc \in Clean THEN files ELSE op.saved

\* What nginx accepted is there until the operation ends, and what the operation
\* began with passes all along.
FilesValid ==
  /\ op.pc \in {"reload", "certbot", "expiry", "commit"} => Passes(files, lineage)
  /\ alarm \cap {"crash", "files"} = {} => Passes(Origin, lineage)

LEMMA FilesValidStep == IInv /\ Shape /\ Issuing /\ FilesValid /\ [Next]_vars => FilesValid'
<1> SUFFICES ASSUME IInv, Shape, Issuing, FilesValid, [Next]_vars PROVE FilesValid'
  OBVIOUS
<1> DEFINE Tested == {"reload", "certbot", "expiry", "commit"}
           Safe == alarm \cap {"crash", "files"} = {}
<1>0. op \in OpType /\ files \in [File -> Text \cup {NoText}]
  BY DEF IInv, TypeOK
<1>1. ASSUME NEW f \in [File -> Text \cup {NoText}], Passes(f, lineage) PROVE Passes(f, lineage')
  BY <1>1, LineageGrows, PassesStays
<1>2. op.saved \in [File -> Text \cup {NoText}] /\ Origin \in [File -> Text \cup {NoText}]
  BY <1>0 DEF Origin, OpType
<1>3. Safe' => Safe
  BY AlarmStays
<1> DEFINE Keeps(f) == Passes(f, lineage) => Passes(f, lineage')
<1>4. Keeps(files) /\ Keeps(Origin)
  BY <1>0, <1>1, <1>2
<1>5. ASSUME op'.pc \notin Tested, Safe' => Origin' = Origin PROVE FilesValid'
  BY <1>3, <1>4, <1>5 DEF FilesValid
<1>6. ASSUME op.pc \in Tested \/ Passes(files, lineage), Origin' = Origin, files' = files PROVE FilesValid'
  BY <1>3, <1>4, <1>6 DEF FilesValid
<1>7. CASE Request
  <2>1. files' = files
    BY <1>7 DEF Request, CreateDomain, UpdateDomain, ApplyDomain, DisableDomain, Delete,
                IssueCertificate, Begin
  <2>2. op.pc = "idle" /\ op'.pc \in {"idle", "capture"}
    BY <1>7, RequestsBegin
  <2> QED BY <1>5, <2>1, <2>2 DEF Origin, Clean
<1>8. CASE Capture \/ CaptureFails \/ (\E f \in File : ChangeFile(f)) \/ Changed
  <2>1. op'.pc \in {"change", "test", "record"} /\ Origin' = Origin
    BY <1>0, <1>8 DEF Capture, CaptureFails, ChangeFile, Changed, Goto, OpType, Origin, Clean
  <2> QED BY <1>5, <2>1
<1>9. CASE Test \/ Reload \/ Certbot
  <2>1. Passes(files, lineage)
    BY <1>9, ValidPasses DEF Test, Reload, Certbot, FilesValid
  <2>2. Origin' = Origin /\ files' = files
    BY <1>0, <1>9 DEF Test, Reload, Certbot, Goto, OpType, Origin, Clean
  <2> QED BY <1>6, <2>1, <2>2
<1>10. CASE Expiry \/ ChangeFails \/ WaitFails \/ ReloadFails \/ CertbotKilled \/ CommitUnknown
  <2>1. op'.pc \in {"change", "rollback"} /\ Origin' = Origin
    BY <1>0, <1>10 DEF Expiry, ChangeFails, WaitFails, ReloadFails, CertbotKilled, CommitUnknown,
                       Raise, OpType, Origin, Clean
  <2> QED BY <1>5, <2>1
<1>11. CASE Commit
  <2>1. Origin' = files /\ op'.pc = "idle" /\ Passes(files, lineage)
    BY <1>11 DEF Commit, NoOp, Origin, Clean, FilesValid
  <2> QED BY <1>4, <2>1 DEF FilesValid
<1>12. CASE Rollback \/ Retest \/ Rereload \/ RecoverFails
  <2>1. op'.pc \in {"retest", "rereload", "record"} /\ Origin' = Origin
    BY <1>0, <1>12 DEF Rollback, Retest, Rereload, RecoverFails, Goto, OpType, Origin, Clean
  <2> QED BY <1>5, <2>1
<1>13. CASE RollbackFails
  <2>1. op'.pc = "record" /\ ~ Safe'
    BY <1>0, <1>13 DEF RollbackFails, OpType
  <2> QED BY <1>5, <2>1
<1>14. CASE Record \/ RecordFails
  <2>1. op'.pc = "idle" /\ Origin' = Origin
    BY <1>14 DEF Record, RecordFails, NoOp, Origin, Clean
  <2> QED BY <1>5, <2>1
<1>15. CASE Crash
  <2>1. op'.pc = "idle"
    BY <1>15 DEF Crash, NoOp
  <2>2. ASSUME Safe' PROVE Origin' = Origin
    <3>1. ~ Dirty /\ files' = files
      BY <1>15, <2>2 DEF Crash, Dirty
    <3>2. op.pc \in Clean
      BY <1>0, <3>1 DEF Dirty, Clean, OpType
    <3> QED BY <2>1, <3>1, <3>2 DEF Origin, Clean
  <2> QED BY <1>5, <2>1, <2>2
<1>16. CASE UNCHANGED <<files, op>>
  BY <1>3, <1>4, <1>16 DEF FilesValid, Origin
<1>17. CASE Environment
  BY <1>15, <1>16, <1>17 DEF Environment, Restart, Import, Started, ExternalReload, CertificateExpires
<1> QED BY <1>7, <1>8, <1>9, <1>10, <1>11, <1>12, <1>13, <1>14, <1>16, <1>17 DEF Next, Step, vars

\* Wherever the container dies, what it would start with passes nginx -t,
\* unless a manifest on disk says that a transaction was cut short or not
\* rolled back.
THEOREM StartsUnlessFlaggedHolds == Spec => []StartsUnlessFlagged
<1>1. Init => Issuing /\ FilesValid
  <2> SUFFICES ASSUME Init PROVE Issuing /\ FilesValid
    OBVIOUS
  <2>1. op.pc = "idle" /\ op.kind = "none" /\ files = NoFiles
    BY DEF Init, NoOp
  <2>2. \A s \in Slot : files[<<"enabled", s>>] = NoText
    BY <2>1 DEF NoFiles, File, Side
  <2>3. Passes(files, lineage)
    BY <2>2 DEF Passes
  <2> QED BY <2>1, <2>3 DEF Issuing, FilesValid, Origin, Clean
<1>2. FilesInv /\ Issuing /\ [Next]_vars => Issuing'
  BY IssuingStep DEF FilesInv
<1>3. FilesInv /\ Issuing /\ FilesValid /\ [Next]_vars => FilesValid'
  BY FilesValidStep DEF FilesInv
<1>4. FilesInv /\ FilesValid => StartsUnlessFlagged
  <2> SUFFICES ASSUME FilesInv, FilesValid, phase = "down", ~ flagged PROVE Valid(Loaded(files))
    BY DEF StartsUnlessFlagged
  <2>1. alarm \cap {"crash", "files"} = {} /\ op.pc = "idle"
    BY DEF FilesInv, Flags, Shape
  <2>2. Passes(files, lineage)
    BY <2>1 DEF FilesValid, Origin, Clean
  <2> QED BY <2>2, ValidPasses
<1> QED BY <1>1, <1>2, <1>3, <1>4, FilesInvariance, PTL DEF Spec

-----------------------------------------------------------------------------
(* The certificates on disk.  A row's certificates, and the one its applied *)
(* deployment names, cover what they are said to cover, save the one that   *)
(* certbot has just replaced for an issuance that has not committed.        *)

AfterCertbot == op.tls \/ op.pc = "expiry"

\* The certificate that an issuance under way has replaced for domain d.
Fresh(d) == IF AfterCertbot /\ d = op.dom THEN {db[d].cfg.name} ELSE {}

\* A certificate belongs to a name in the row's history, so that no other domain
\* can replace it, and covers the names it is used for.
Backed(row, cert, names, lin, fresh) ==
  /\ <<"hostname", cert>> \in Slots(row)
  /\ cert \in fresh \/ names \subseteq lin[cert]

RowBacked(row, lin, fresh) ==
  /\ \A c \in row.certs : Backed(row, c.cert, c.covers, lin, fresh)
  /\ ActiveSsl(row) =>
       Backed(row, Applied(row).text.cert, Applied(row).text.cfg.names, lin, fresh)

Backing == alarm = {} => \A d \in Rows : RowBacked(db[d], lineage, Fresh(d))

Applying ==
  (alarm = {} /\ op.kind = "apply" /\ op.pc \in {"capture"} \cup Changing /\ Target.ssl) =>
    Backed(db[op.dom], Target.cert, Target.cfg.names, lineage, {})

Issued ==
  (alarm = {} /\ AfterCertbot) =>
    op.pc \in Changing /\ lineage[db[op.dom].cfg.name] = db[op.dom].cfg.names

\* A row that keeps what is applied and gains no certificate.
LEMMA BackedRowKept ==
  ASSUME NEW row, NEW r, NEW lin, NEW fresh, RowBacked(row, lin, fresh),
         Slots(row) \subseteq Slots(r), r.certs \subseteq row.certs,
         AppliedIndices(r) = AppliedIndices(row),
         HasApplied(row) => Applied(r).text = Applied(row).text
  PROVE  RowBacked(r, lin, fresh)
BY DEF RowBacked, Backed, ActiveSsl, HasApplied

\* Between certbot and the commit of an issuance nothing replaces a certificate,
\* and a failure there is an incident.
LEMMA CertbotPhase ==
  ASSUME IInv, Shape, Shape', Issued, [Next]_vars, alarm' = {}, ~ Certbot, ~ Commit
  PROVE  /\ UNCHANGED lineage
         /\ AfterCertbot' <=> AfterCertbot
         /\ AfterCertbot => /\ op'.dom = op.dom /\ op'.pc \in Changing
                            /\ db'[op.dom].cfg = db[op.dom].cfg
<1> DEFINE Goal == /\ UNCHANGED lineage
                   /\ AfterCertbot' <=> AfterCertbot
                   /\ AfterCertbot => /\ op'.dom = op.dom /\ op'.pc \in Changing
                                      /\ db'[op.dom].cfg = db[op.dom].cfg
<1>0. /\ op \in OpType /\ alarm = {} /\ db \in [Domain -> Row \cup {NoRow}]
      /\ op.pc = "idle" => op = NoOp
      /\ AfterCertbot => op.pc \in Changing
      /\ op.pc # "idle" => op.dom \in Domain
  BY AlarmStays DEF IInv, TypeOK, OpOK, Issued
<1>1. ASSUME UNCHANGED <<lineage, op>>, ~ AfterCertbot \/ db'[op.dom].cfg = db[op.dom].cfg PROVE Goal
  BY <1>0, <1>1 DEF AfterCertbot
<1>2. ASSUME UNCHANGED lineage, ~ AfterCertbot, ~ AfterCertbot' PROVE Goal
  BY <1>2
<1>3. CASE Request
  <2>1. UNCHANGED lineage
    BY <1>3 DEF Request, CreateDomain, UpdateDomain, ApplyDomain, DisableDomain, Delete,
                IssueCertificate, Begin
  <2>2. op = NoOp /\ ~ AfterCertbot
    BY <1>0, <1>3, RequestsBegin DEF AfterCertbot, NoOp
  <2>3. ~ AfterCertbot'
    BY <1>3, <2>2, RequestsBegin DEF AfterCertbot, Shape
  <2> QED BY <1>2, <2>1, <2>2, <2>3
<1>4. CASE (\E f \in File : ChangeFile(f)) \/ Changed \/ Test \/ Reload \/ Expiry
  BY <1>0, <1>4 DEF ChangeFile, Changed, Test, Reload, Expiry, Goto, OpType, AfterCertbot, Changing
<1>5. CASE Capture \/ CaptureFails
  BY <1>0, <1>2, <1>5 DEF Capture, CaptureFails, OpType, AfterCertbot, Shape
<1>6. CASE ChangeFails \/ WaitFails \/ ReloadFails \/ CertbotKilled \/ CommitUnknown
  <2>1. PICK cause \in {"nginx", "other"} : Raise(cause) /\ UNCHANGED lineage
    <3>1. ~ CertbotKilled /\ ~ CommitUnknown
      BY DEF CertbotKilled, CommitUnknown
    <3> QED BY <1>6, <3>1 DEF ChangeFails, WaitFails, ReloadFails
  <2>2. ~ AfterCertbot /\ op'.pc = "rollback" /\ op'.tls = op.tls
    BY <1>0, <2>1 DEF Raise, AfterCertbot, OpType
  <2>3. ~ AfterCertbot'
    BY <2>2 DEF AfterCertbot
  <2> QED BY <1>2, <2>1, <2>2, <2>3
<1>7. CASE Rollback \/ Retest \/ Rereload \/ RollbackFails \/ RecoverFails
  <2>1. /\ UNCHANGED lineage /\ op'.tls = op.tls /\ op'.pc \in {"retest", "rereload", "record"}
        /\ op.pc \notin Changing
    BY <1>0, <1>7 DEF Rollback, Retest, Rereload, RollbackFails, RecoverFails, Goto, OpType, Changing
  <2>2. ~ AfterCertbot
    BY <1>0, <2>1
  <2>3. ~ AfterCertbot'
    BY <2>1, <2>2 DEF AfterCertbot
  <2> QED BY <1>2, <2>1, <2>2, <2>3
<1>8. CASE Record \/ RecordFails \/ Crash
  <2>1. UNCHANGED lineage /\ op' = NoOp /\ op.pc \notin Changing
    BY <1>8 DEF Record, RecordFails, Crash, Dirty, Changing
  <2>2. ~ AfterCertbot /\ ~ AfterCertbot'
    BY <1>0, <2>1 DEF AfterCertbot, NoOp
  <2> QED BY <1>2, <2>1, <2>2
<1>9. CASE Restart \/ Started \/ ExternalReload \/ UNCHANGED vars
  BY <1>1, <1>9 DEF Restart, Started, ExternalReload, vars
<1>10. ASSUME NEW d \in Domain, NEW s \in Slot, Import(d, s) PROVE Goal
  <2>1. UNCHANGED <<lineage, op>> /\ op.pc = "idle"
    BY <1>0, <1>10 DEF Import, Shape
  <2>2. ~ AfterCertbot
    BY <1>0, <2>1 DEF Changing
  <2> QED BY <1>1, <2>1, <2>2
<1>11. ASSUME NEW d \in Domain, NEW c, CertificateExpires(d, c) PROVE Goal
  <2>1. UNCHANGED <<lineage, op>>
    BY <1>11 DEF CertificateExpires
  <2>2. db'[d].cfg = db[d].cfg /\ db' = [db EXCEPT ![d] = db'[d]]
    BY <1>11, ExpiredRow
  <2>3. AfterCertbot => db'[op.dom].cfg = db[op.dom].cfg
    BY <1>0, <2>2 DEF Changing
  <2> QED BY <1>1, <2>1, <2>3
<1> QED BY <1>3, <1>4, <1>5, <1>6, <1>7, <1>8, <1>9, <1>10, <1>11 DEF Next, Step, Environment

LEMMA IssuedStep == IInv /\ Shape /\ Shape' /\ Issued /\ [Next]_vars => Issued'
<1> SUFFICES ASSUME IInv, Shape, Shape', Issued, [Next]_vars, alarm' = {}, AfterCertbot'
             PROVE  op'.pc \in Changing /\ lineage'[db'[op'.dom].cfg.name] = db'[op'.dom].cfg.names
  BY DEF Issued
<1>0. alarm = {}
  BY AlarmStays
<1>1. CASE Certbot
  <2>1. op.dom \in Domain /\ Exists(op.dom) /\ lineage \in [Name -> SUBSET Name] /\ op \in OpType
    BY <1>1 DEF Certbot, IInv, TypeOK, OpOK, Working
  <2>2. db[op.dom].cfg.name \in Name
    BY <2>1, RowNames
  <2>3. op'.pc = "expiry" /\ op'.dom = op.dom /\ UNCHANGED db
        /\ lineage' = [lineage EXCEPT ![db[op.dom].cfg.name] = db[op.dom].cfg.names]
    BY <1>1, <2>1 DEF Certbot, Goto, OpType
  <2> QED BY <2>1, <2>2, <2>3 DEF Changing
<1>2. CASE Commit
  <2>1. op' = NoOp
    BY <1>2 DEF Commit
  <2> QED BY <2>1 DEF AfterCertbot, NoOp
<1>3. CASE ~ Certbot /\ ~ Commit
  BY <1>0, <1>3, CertbotPhase DEF Issued
<1> QED BY <1>1, <1>2, <1>3

\* certbot replaces the certificate of its own domain only.
LEMMA BackedByCertbot ==
  ASSUME IInv, Shape, Issuing, Certbot, NEW d \in Domain, Exists(d), NEW cert, NEW names,
         Backed(db[d], cert, names, lineage, Fresh(d))
  PROVE  Backed(db[d], cert, names, lineage', Fresh(d)')
<1> DEFINE name == db[op.dom].cfg.name
<1>1. /\ op.dom \in Domain /\ Exists(op.dom) /\ lineage \in [Name -> SUBSET Name] /\ op \in OpType
      /\ op.kind = "issue" /\ ~ AfterCertbot
  BY DEF Certbot, IInv, TypeOK, OpOK, Working, Shape, AfterCertbot
<1>2. /\ op'.pc = "expiry" /\ op'.dom = op.dom /\ UNCHANGED db
      /\ lineage' = [lineage EXCEPT ![name] = db[op.dom].cfg.names]
  BY <1>1 DEF Certbot, Goto, OpType
<1>3. Fresh(d) = {} /\ Fresh(d)' = IF d = op.dom THEN {name} ELSE {}
  BY <1>1, <1>2 DEF Fresh, AfterCertbot
<1>4. RowOK(db[d]) /\ RowOK(db[op.dom])
  BY <1>1 DEF IInv, RowsOK, Rows
<1>5. <<"hostname", cert>> \in Slots(db[d]) /\ names \subseteq lineage[cert]
  BY <1>3 DEF Backed
<1>6. cert \in Name
  <2>1. <<"hostname", cert>> \in Slot
    BY <1>4, <1>5, SlotsTyped
  <2> QED BY <2>1 DEF Slot
<1>7. CASE d = op.dom /\ cert = name
  BY <1>3, <1>5, <1>7 DEF Backed
<1>8. CASE cert # name
  BY <1>1, <1>2, <1>5, <1>6, <1>8 DEF Backed
<1>9. ASSUME d # op.dom PROVE cert # name
  <2>1. SlotOf(db[op.dom].cfg) \in Slots(db[op.dom])
    BY <1>4, LatestSlot
  <2>2. Slots(db[d]) \cap Slots(db[op.dom]) = {}
    BY <1>1, <1>9 DEF IInv, DomainsDisjoint, Rows
  <2>3. SlotOf(db[op.dom].cfg) = <<"hostname", name>>
    BY <1>1 DEF Issuing, SlotOf
  <2> QED BY <1>5, <2>1, <2>2, <2>3
<1> QED BY <1>7, <1>8, <1>9

\* The row that an operation commits.
LEMMA CommittedBacked ==
  ASSUME IInv, Shape, Issuing, Issued, Applying, Commit, alarm = {}, op.kind # "delete",
         RowBacked(db[op.dom], lineage, Fresh(op.dom))
  PROVE  RowBacked(CommittedRow(db[op.dom]), lineage, {})
<1> DEFINE row == db[op.dom]
           r == CommittedRow(row)
<1>1. /\ op.pc = "commit" /\ op.dom \in Domain /\ Exists(op.dom) /\ RowOK(row) /\ op.kind \in Kind
  BY DEF Commit, IInv, OpOK, Working, RowsOK, Rows
<1>2. /\ Slots(r) = Slots(row)
      /\ r.certs = IF op.kind = "issue"
                   THEN {c \in row.certs : c.cert # row.cfg.name}
                          \cup {[cert |-> row.cfg.name, covers |-> row.cfg.names]}
                   ELSE row.certs
      /\ op.kind = "disable" => r.deployments = row.deployments
      /\ op.kind # "disable" => HasApplied(r) /\ Applied(r).text = Target
  BY <1>1, CommittedHistory
<1>3. op.kind # "issue" => Fresh(op.dom) = {}
  BY <1>1 DEF Fresh, AfterCertbot, Shape
<1> HIDE DEF r
<1>4. CASE op.kind = "disable"
  <2>1. AppliedIndices(r) = AppliedIndices(row) /\ (HasApplied(row) => Applied(r) = Applied(row))
    BY <1>2, <1>4 DEF AppliedIndices, Indices, Applied
  <2>2. RowBacked(r, lineage, {})
    BY <1>2, <1>3, <1>4, <2>1, BackedRowKept
  <2> QED BY <2>2 DEF r
<1>5. CASE op.kind = "apply"
  <2>1. \A c \in r.certs : Backed(r, c.cert, c.covers, lineage, {})
    BY <1>2, <1>3, <1>5 DEF RowBacked, Backed
  <2>2. Target.ssl => Backed(row, Target.cert, Target.cfg.names, lineage, {})
    BY <1>1, <1>5 DEF Applying, Changing
  <2>3. ActiveSsl(r) => Backed(r, Applied(r).text.cert, Applied(r).text.cfg.names, lineage, {})
    BY <1>2, <1>5, <2>2 DEF ActiveSsl, Backed
  <2> QED BY <2>1, <2>3 DEF RowBacked, r
<1>6. CASE op.kind = "issue"
  <2> DEFINE name == row.cfg.name
  <2>1. op.tls /\ AfterCertbot
    BY <1>1, <1>6 DEF Shape, AfterCertbot
  <2>2. lineage[name] = row.cfg.names /\ Fresh(op.dom) = {name}
    BY <2>1 DEF Issued, Fresh
  <2>3. <<"hostname", name>> \in Slots(row)
    BY <1>1, <1>6, LatestSlot DEF Issuing, SlotOf
  <2>4. Target.cert = name /\ Target.cfg.names = row.cfg.names
    BY <1>6, <2>1 DEF Target
  <2>5. ASSUME NEW c \in r.certs PROVE Backed(r, c.cert, c.covers, lineage, {})
    <3>1. CASE c \in row.certs /\ c.cert # name
      <4>1. Backed(row, c.cert, c.covers, lineage, {name})
        BY <2>2, <3>1 DEF RowBacked
      <4> QED BY <1>2, <3>1, <4>1 DEF Backed
    <3>2. CASE c = [cert |-> name, covers |-> row.cfg.names]
      BY <1>2, <2>2, <2>3, <3>2 DEF Backed
    <3> QED BY <1>2, <1>6, <3>1, <3>2
  <2>6. Backed(r, Applied(r).text.cert, Applied(r).text.cfg.names, lineage, {})
    BY <1>2, <1>6, <2>2, <2>3, <2>4 DEF Backed
  <2> QED BY <2>5, <2>6 DEF RowBacked, r
<1> QED BY <1>1, <1>4, <1>5, <1>6 DEF Kind

\* A new row has neither a certificate nor anything applied.
LEMMA CreatedBacked ==
  ASSUME IInv, NEW d \in Domain, NEW cfg \in Payload, CreateDomain(d, cfg), NEW lin, NEW fresh
  PROVE  RowBacked(db'[d], lin, fresh) /\ db' = [db EXCEPT ![d] = db'[d]]
<1> DEFINE deployment == [text |-> Plain(cfg), status |-> "draft"]
           r == [cfg |-> cfg, enabled |-> FALSE, status |-> "draft",
                 deployments |-> <<deployment>>, certs |-> {}]
<1>1. db' = [db EXCEPT ![d] = r] /\ db'[d] = r
  BY DEF CreateDomain, IInv, TypeOK
<1>2. r.certs = {} /\ r.deployments = <<deployment>> /\ deployment.status # "applied"
  OBVIOUS
<1> HIDE DEF r, deployment
<1>3. AppliedIndices(r) = {}
  <2>1. DOMAIN r.deployments = {1} /\ r.deployments[1] = deployment
    BY <1>2
  <2> QED BY <1>2, <2>1 DEF AppliedIndices, Indices
<1> QED BY <1>1, <1>2, <1>3 DEF RowBacked, ActiveSsl, HasApplied

\* A step that writes the row of d and no other.
LEMMA BackedElsewhere ==
  ASSUME NEW rows \in [Domain -> Row \cup {NoRow}], NEW d \in Domain, NEW e \in Domain, NEW r,
         NEW lin, NEW fresh, rows[e] # NoRow => RowBacked(rows[e], lin, fresh),
         e = d => RowBacked(r, lin, fresh), [rows EXCEPT ![d] = r][e] # NoRow
  PROVE  RowBacked([rows EXCEPT ![d] = r][e], lin, fresh)
<1>1. CASE e = d
  BY <1>1
<1>2. CASE e # d
  BY <1>2
<1> QED BY <1>1, <1>2

LEMMA BackingStep ==
  FilesInv /\ Shape' /\ Issuing /\ Issued /\ Applying /\ Backing /\ [Next]_vars => Backing'
<1> SUFFICES ASSUME FilesInv, Shape', Issuing, Issued, Applying, Backing, [Next]_vars, alarm' = {},
                    NEW e \in Domain, db'[e] # NoRow
             PROVE  RowBacked(db'[e], lineage', Fresh(e)')
  BY DEF Backing, Rows, Exists
<1>0. /\ IInv /\ Shape /\ alarm = {} /\ Harmless /\ db \in [Domain -> Row \cup {NoRow}]
      /\ op.pc # "idle" => op.dom \in Domain
  BY AlarmStays DEF FilesInv, IInv, TypeOK, OpOK, Harmless
<1>1. \A d \in Domain : Exists(d) => RowBacked(db[d], lineage, Fresh(d))
  BY <1>0 DEF Backing, Rows
<1>2. CASE Certbot
  <2>1. UNCHANGED db /\ Exists(e)
    BY <1>2 DEF Certbot, Exists
  <2> QED BY <1>0, <1>1, <1>2, <2>1, BackedByCertbot DEF RowBacked
<1>3. CASE Commit
  <2> DEFINE r == CommittedRow(db[op.dom])
  <2>1. op' = NoOp /\ UNCHANGED lineage /\ db' = [db EXCEPT ![op.dom] = r] /\ op.dom \in Domain
    BY <1>0, <1>3 DEF Commit, CommittedDb
  <2>2. Fresh(e)' = {}
    BY <2>1 DEF Fresh, AfterCertbot, NoOp
  <2>3. CASE e = op.dom
    <3>1. op.kind # "delete" /\ db'[e] = r
      BY <1>0, <2>1, <2>3 DEF CommittedRow
    <3>2. Exists(op.dom)
      BY <1>0, <1>3 DEF Commit, IInv, OpOK, Working
    <3>3. RowBacked(db[op.dom], lineage, Fresh(op.dom))
      BY <1>1, <2>1, <3>2
    <3>4. RowBacked(r, lineage, {})
      BY <1>0, <1>3, <3>1, <3>3, CommittedBacked
    <3> QED BY <2>1, <2>2, <3>1, <3>4
  <2>4. CASE e # op.dom
    <3>1. db'[e] = db[e] /\ Fresh(e) = {}
      BY <1>0, <2>1, <2>4 DEF Fresh
    <3>2. RowBacked(db[e], lineage, Fresh(e))
      BY <1>1, <3>1 DEF Exists
    <3> QED BY <2>1, <2>2, <3>1, <3>2
  <2> QED BY <2>3, <2>4
<1>4. CASE ~ Certbot /\ ~ Commit
  <2>1. UNCHANGED lineage /\ Fresh(e)' = Fresh(e)
    BY <1>0, <1>4, CertbotPhase DEF Fresh
  <2>2. SUFFICES RowBacked(db'[e], lineage, Fresh(e))
    BY <2>1
  <2> DEFINE Before == db[e] # NoRow => RowBacked(db[e], lineage, Fresh(e))
  <2>3. Before
    BY <1>1 DEF Exists
  <2>4. CASE UNCHANGED db
    BY <2>3, <2>4
  <2>5. ASSUME NEW d \in Domain, NEW r, db' = [db EXCEPT ![d] = r],
               e = d => RowBacked(r, lineage, Fresh(e))
        PROVE  RowBacked(db'[e], lineage, Fresh(e))
    BY <1>0, <2>3, <2>5, BackedElsewhere
  <2>6. ASSUME NEW d \in Domain, NEW r, db' = [db EXCEPT ![d] = r], Exists(d),
               Slots(db[d]) \subseteq Slots(r), r.certs \subseteq db[d].certs,
               AppliedIndices(r) = AppliedIndices(db[d]),
               HasApplied(db[d]) => Applied(r).text = Applied(db[d]).text
        PROVE  RowBacked(db'[e], lineage, Fresh(e))
    <3>1. RowBacked(db[d], lineage, Fresh(d))
      BY <1>1, <2>6
    <3>2. RowBacked(r, lineage, Fresh(d))
      BY <2>6, <3>1, BackedRowKept
    <3> QED BY <2>5, <2>6, <3>2
  <2>7. ASSUME NEW d \in Domain, NEW cfg \in Payload, CreateDomain(d, cfg)
        PROVE  RowBacked(db'[e], lineage, Fresh(e))
    BY <1>0, <2>5, <2>7, CreatedBacked
  <2>8. ASSUME NEW d \in Domain, NEW cfg \in Payload, UpdateDomain(d, cfg)
        PROVE  RowBacked(db'[e], lineage, Fresh(e))
    BY <1>0, <2>6, <2>8, UpdatedRow
  <2>9. CASE Record
    BY <1>0, <2>4, <2>6, <2>9, RecordedRow DEF Record
  <2>10. ASSUME NEW d \in Domain, NEW c, CertificateExpires(d, c)
         PROVE  RowBacked(db'[e], lineage, Fresh(e))
    BY <1>0, <2>6, <2>10, ExpiredRow
  <2>11. CASE Crash
    <3>1. op.pc \in Clean
      <4>1. op \in OpType /\ ~ Dirty
        BY <1>0, <2>11 DEF Crash, IInv, TypeOK
      <4> QED BY <4>1 DEF Dirty, OpType, Clean
    <3>2. imported = {}
      BY <1>0, <3>1, IdleFollows
    <3>3. UNCHANGED db
      BY <1>0, <2>11, <3>2 DEF Crash
    <3> QED BY <2>4, <3>3
  <2>12. ASSUME NEW d \in Domain, NEW s \in Slot, Import(d, s) PROVE FALSE
    BY <1>0, <2>12, NothingToImport
  <2>13. CASE Request
    <3>1. ASSUME NEW d \in Domain, ApplyDomain(d) \/ DisableDomain(d) \/ Delete(d) \/ IssueCertificate(d)
          PROVE  UNCHANGED db
      BY <3>1 DEF ApplyDomain, DisableDomain, Delete, IssueCertificate, Begin
    <3> QED BY <2>4, <2>7, <2>8, <2>13, <3>1 DEF Request
  <2>14. CASE Step
    <3>1. ~ CommitUnknown
      BY DEF CommitUnknown
    <3>2. UNCHANGED db \/ Record
      BY <1>4, <2>14, <3>1 DEF Step, Capture, CaptureFails, ChangeFile, Changed, Test, Reload,
           Expiry, ChangeFails, WaitFails, ReloadFails, CertbotKilled, Rollback, Retest, Rereload,
           RollbackFails, RecoverFails, RecordFails
    <3> QED BY <2>4, <2>9, <3>2
  <2>15. CASE Environment
    BY <2>4, <2>10, <2>11, <2>12, <2>15 DEF Environment, Restart, Started, ExternalReload
  <2> QED BY <2>4, <2>13, <2>14, <2>15 DEF Next, vars
<1> QED BY <1>2, <1>3, <1>4

\* An apply begins only with a certificate that covers its names, and no step of
\* it changes the certificate.
LEMMA ApplyingStep ==
  FilesInv /\ Shape' /\ Issued /\ Applying /\ Backing /\ [Next]_vars => Applying'
<1> SUFFICES ASSUME FilesInv, Shape', Issued, Applying, Backing, [Next]_vars, alarm' = {},
                    op'.kind = "apply", op'.pc \in {"capture"} \cup Changing, Target'.ssl
             PROVE  Backed(db'[op'.dom], Target'.cert, Target'.cfg.names, lineage', {})
  BY DEF Applying
<1>0. /\ IInv /\ Shape /\ op \in OpType /\ alarm = {} /\ db \in [Domain -> Row \cup {NoRow}]
      /\ op.pc # "idle" => op.dom \in Domain
  BY AlarmStays DEF FilesInv, IInv, TypeOK, OpOK
<1> DEFINE Goal == Backed(db'[op'.dom], Target'.cert, Target'.cfg.names, lineage', {})
<1>1. CASE Request
  <2>1. CASE UNCHANGED op
    BY <1>1, <2>1, RequestsBegin DEF Changing
  <2>2. ASSUME NEW d \in Domain, ApplyDomain(d) PROVE Goal
    <3>1. /\ op = NoOp /\ op'.kind = "apply" /\ op'.dom = d /\ UNCHANGED <<db, lineage>>
          /\ Exists(d) /\ Covers(db[d], Latest(db[d]).text)
      BY <2>2 DEF ApplyDomain, Begin, Free, NoOp
    <3>2. Target' = Latest(db[d]).text
      BY <3>1 DEF Target
    <3>3. PICK c \in db[d].certs : c.cert = Target'.cert /\ db[d].cfg.names \subseteq c.covers
      BY <3>1, <3>2 DEF Covers
    <3>4. Target'.cfg = db[d].cfg
      BY <1>0, <3>1, <3>2 DEF IInv, RowsOK, Rows, RowOK
    <3>5. Backed(db[d], c.cert, c.covers, lineage, {})
      <4>1. RowBacked(db[d], lineage, Fresh(d))
        BY <1>0, <3>1 DEF Backing, Rows
      <4>2. Fresh(d) = {}
        BY <3>1 DEF Fresh, AfterCertbot, NoOp
      <4> QED BY <4>1, <4>2 DEF RowBacked
    <3> QED BY <3>1, <3>3, <3>4, <3>5 DEF Backed
  <2>3. ASSUME NEW d \in Domain, DisableDomain(d) \/ Delete(d) \/ IssueCertificate(d)
        PROVE  op'.kind # "apply"
    <3>1. ASSUME NEW kind, Begin(kind, d) PROVE op'.kind = kind
      BY <3>1 DEF Begin, NoOp
    <3> QED BY <2>3, <3>1 DEF DisableDomain, Delete, IssueCertificate
  <2>4. ASSUME NEW d \in Domain, NEW cfg \in Payload, CreateDomain(d, cfg) \/ UpdateDomain(d, cfg)
        PROVE  UNCHANGED op
    BY <2>4 DEF CreateDomain, UpdateDomain
  <2> QED BY <1>1, <2>1, <2>2, <2>3, <2>4 DEF Request
<1>2. ASSUME op.pc \in {"capture"} \cup Changing, op'.kind = op.kind, op'.dom = op.dom,
             Target' = Target, Slots(db'[op.dom]) = Slots(db[op.dom]), UNCHANGED lineage
      PROVE  Goal
  BY <1>0, <1>2 DEF Applying, Backed
<1>3. ASSUME op.pc \in {"capture"} \cup Changing, op'.kind = op.kind, op'.dom = op.dom,
             op'.tls = op.tls, UNCHANGED <<db, lineage>>
      PROVE  Goal
  <2>1. Target' = Target
    BY <1>3 DEF Target
  <2> QED BY <1>2, <1>3, <2>1
<1>4. CASE Capture \/ (\E f \in File : ChangeFile(f)) \/ Changed \/ Test \/ Reload
  BY <1>0, <1>3, <1>4 DEF Capture, ChangeFile, Changed, Test, Reload, Goto, OpType, Changing
<1>5. CASE Certbot \/ Expiry
  <2>1. op.kind = "issue" /\ op'.kind = op.kind
    BY <1>0, <1>5 DEF Certbot, Expiry, Goto, OpType, Shape
  <2> QED BY <2>1
<1>6. CASE CaptureFails \/ ChangeFails \/ WaitFails \/ ReloadFails \/ CertbotKilled \/ CommitUnknown
  <2>1. op'.pc \in {"record", "rollback"}
    BY <1>0, <1>6 DEF CaptureFails, ChangeFails, WaitFails, ReloadFails, CertbotKilled,
                      CommitUnknown, Raise, OpType
  <2> QED BY <2>1 DEF Changing
<1>7. CASE Rollback \/ Retest \/ Rereload \/ RollbackFails \/ RecoverFails
  <2>1. op'.pc \in {"retest", "rereload", "record"}
    BY <1>0, <1>7 DEF Rollback, Retest, Rereload, RollbackFails, RecoverFails, Goto, OpType
  <2> QED BY <2>1 DEF Changing
<1>8. CASE Commit \/ Record \/ RecordFails \/ Crash
  <2>1. op' = NoOp
    BY <1>8 DEF Commit, Record, RecordFails, Crash
  <2> QED BY <2>1 DEF NoOp, Changing
<1>9. CASE Restart \/ Started \/ ExternalReload \/ UNCHANGED vars
  BY <1>0, <1>3, <1>9 DEF Restart, Started, ExternalReload, vars
<1>10. ASSUME NEW d \in Domain, NEW s \in Slot, Import(d, s) PROVE Goal
  <2>1. op.pc = "idle" /\ op' = op
    BY <1>0, <1>10 DEF Import, Shape
  <2> QED BY <2>1 DEF Changing
<1>11. ASSUME NEW d \in Domain, NEW c, CertificateExpires(d, c) PROVE Goal
  <2>1. UNCHANGED <<op, lineage>>
    BY <1>11 DEF CertificateExpires
  <2>2. op.dom \in Domain
    BY <1>0, <2>1 DEF Changing
  <2>3. Target' = Target
    BY <1>0, <1>11, <2>2, ExpiresKeeps
  <2>4. Slots(db'[d]) = Slots(db[d]) /\ db' = [db EXCEPT ![d] = db'[d]]
    BY <1>0, <1>11, ExpiredRow
  <2>5. Slots(db'[op.dom]) = Slots(db[op.dom])
    BY <1>0, <2>2, <2>4
  <2> QED BY <1>2, <2>1, <2>3, <2>5
<1> QED BY <1>1, <1>4, <1>5, <1>6, <1>7, <1>8, <1>9, <1>10, <1>11 DEF Next, Step, Environment

Certified == Issuing /\ Issued /\ Applying /\ Backing

LEMMA CertifiedStep == FilesInv /\ FilesInv' /\ Certified /\ [Next]_vars => Certified'
BY IssuingStep, IssuedStep, ApplyingStep, BackingStep DEF FilesInv, Certified

\* What nginx runs between operations is what rows say is applied, and their
\* certificates cover it.
LEMMA ServedIsCovered ==
  ASSUME FilesInv, RunningFilesAt, Certified, Idle, alarm = {}
  PROVE  TlsServedIsCovered
<1> SUFFICES ASSUME NEW s \in Slot, running[s] # NoText, running[s].ssl
             PROVE  running[s].cfg.names \subseteq lineage[running[s].cert]
  BY DEF TlsServedIsCovered
<1>1. op.pc = "idle" /\ ~ AfterCertbot /\ Harmless
  BY DEF Idle, NoOp, AfterCertbot, Harmless
<1>2. running = Loaded(files)
  BY <1>1 DEF RunningFilesAt, Idle, Settled
<1>3. Follows(db, files)
  BY <1>1, IdleFollows DEF Clean
<1>4. running[s] = files[<<"enabled", s>>] /\ <<"enabled", s>> \in File
  BY <1>2 DEF Loaded, File, Side
<1>5. PICK d \in Domain : db[d] # NoRow /\ s \in Slots(db[d])
  BY <1>3, <1>4 DEF Follows, Owned
<1>6. running[s] = AsApplied(db[d], s)
  BY <1>3, <1>4, <1>5 DEF Follows, RowFollowed
<1>7. db[d].enabled /\ running[s] = Applied(db[d]).text
  BY <1>6 DEF AsApplied
<1>8. ActiveSsl(db[d])
  BY <1>5, <1>7 DEF FilesInv, IInv, RowsOK, RowOK, Rows, Exists, ActiveSsl
<1>9. RowBacked(db[d], lineage, Fresh(d)) /\ Fresh(d) = {}
  BY <1>1, <1>5 DEF Certified, Backing, Rows, Exists, Fresh
<1> QED BY <1>7, <1>8, <1>9 DEF RowBacked, Backed

\* Between operations, while nothing has gone wrong, the certificate on disk
\* covers every name nginx serves with it, however often certificates were
\* issued, replaced and expired and payloads changed.
THEOREM TlsIsCovered == Spec => []TlsCovered
<1>1. Init => RunningFilesAt /\ Certified
  <2> SUFFICES ASSUME Init PROVE RunningFilesAt /\ Certified
    OBVIOUS
  <2>1. op.pc = "idle" /\ op.kind = "none" /\ ~ AfterCertbot /\ Rows = {}
    BY DEF Init, NoOp, AfterCertbot, Rows, Exists
  <2>2. RunningFilesAt
    BY DEF Init, RunningFilesAt, Loaded, NoFiles, File, Side
  <2> QED BY <2>1, <2>2 DEF Certified, Issuing, Issued, Applying, Backing
<1>2. FilesInv /\ RunningFilesAt /\ [Next]_vars => RunningFilesAt'
  BY RunningStep DEF FilesInv
<1>3. FilesInv /\ RunningFilesAt /\ Certified => TlsCovered
  BY ServedIsCovered DEF TlsCovered
<1> QED BY <1>1, <1>2, <1>3, CertifiedStep, FilesInvariance, PTL DEF Spec

-----------------------------------------------------------------------------
(* The holder of the lock moves on *)

\* How far an operation has come, through its body, which issuance runs twice,
\* or through recovery.
Stage(o) ==
  CASE o.pc = "idle"     -> 0
    [] o.pc = "capture"  -> 1
    [] o.pc = "change"   -> IF o.tls THEN 7 ELSE 2
    [] o.pc = "test"     -> IF o.tls THEN 8 ELSE 3
    [] o.pc = "reload"   -> IF o.tls THEN 9 ELSE 4
    [] o.pc = "certbot"  -> 5
    [] o.pc = "expiry"   -> 6
    [] o.pc = "commit"   -> 10
    [] o.pc = "rollback" -> 11
    [] o.pc = "retest"   -> 12
    [] o.pc = "rereload" -> 13
    [] o.pc = "record"   -> 14

\* Nearer to its end: at a later stage, or with fewer files left to change.
Advances(o, p) ==
  \/ Stage(o) < Stage(p)
  \/ Stage(o) = Stage(p) /\ p.todo \subseteq o.todo /\ p.todo # o.todo

\* Who holds the lock either lets it go or comes nearer to its end with what it
\* was about: nothing is tried again, and no other operation takes its place.
OperationsAdvance ==
  [][ (op # NoOp /\ op' # op) =>
        \/ op' = NoOp
        \/ op'.kind = op.kind /\ op'.dom = op.dom /\ Advances(op, op') ]_vars

LEMMA AdvanceStep ==
  ASSUME IInv, Next, op # NoOp, op' # op, op' # NoOp
  PROVE  op'.kind = op.kind /\ op'.dom = op.dom /\ Advances(op, op')
<1>0. op \in OpType
  BY DEF IInv, TypeOK
<1>1. CASE Request
  BY <1>1 DEF Request, CreateDomain, UpdateDomain, ApplyDomain, DisableDomain, Delete,
              IssueCertificate, Begin, Free
<1>2. ASSUME NEW f \in File, ChangeFile(f)
      PROVE  op'.kind = op.kind /\ op'.dom = op.dom /\ Advances(op, op')
  <2>1. f \in op.todo /\ op' = [op EXCEPT !.todo = @ \ {f}]
    BY <1>2 DEF ChangeFile
  <2>2. /\ op'.kind = op.kind /\ op'.dom = op.dom /\ op'.pc = op.pc /\ op'.tls = op.tls
        /\ op'.todo = op.todo \ {f}
    BY <1>0, <2>1 DEF OpType
  <2>3. op'.todo \subseteq op.todo /\ op'.todo # op.todo
    BY <2>1, <2>2
  <2>4. Stage(op') = Stage(op)
    BY <2>2 DEF Stage
  <2> QED
    BY <2>2, <2>3, <2>4 DEF Advances
<1>3. CASE Capture \/ CaptureFails \/ Changed \/ Test \/ Reload \/ Certbot \/ Expiry
  <2>1. /\ op'.kind = op.kind /\ op'.dom = op.dom
        /\ \/ op.pc = "capture" /\ op'.pc \in {"change", "record"} /\ op'.tls = op.tls
           \/ op.pc = "change" /\ op'.pc = "test" /\ op'.tls = op.tls
           \/ op.pc = "test" /\ op'.pc = "reload" /\ op'.tls = op.tls
           \/ op.pc = "reload" /\ op'.pc = "commit"
           \/ op.pc = "reload" /\ ~ op.tls /\ op'.pc = "certbot"
           \/ op.pc = "certbot" /\ op'.pc = "expiry"
           \/ op.pc = "expiry" /\ op'.pc = "change" /\ op'.tls
    BY <1>0, <1>3 DEF Capture, CaptureFails, Changed, Test, Reload, Certbot, Expiry, Goto, OpType
  <2>2. Stage(op) < Stage(op')
    BY <2>1 DEF Stage
  <2> QED
    BY <2>1, <2>2 DEF Advances
<1>4. CASE ChangeFails \/ WaitFails \/ ReloadFails \/ CertbotKilled \/ CommitUnknown
  <2>1. /\ op'.kind = op.kind /\ op'.dom = op.dom /\ op'.pc = "rollback"
        /\ op.pc \in {"change", "test", "reload", "certbot", "expiry", "commit"}
    BY <1>0, <1>4 DEF ChangeFails, WaitFails, ReloadFails, CertbotKilled, CommitUnknown, Raise, OpType
  <2>2. Stage(op) < Stage(op')
    BY <2>1 DEF Stage
  <2> QED
    BY <2>1, <2>2 DEF Advances
<1>5. CASE Rollback \/ Retest \/ Rereload \/ RollbackFails \/ RecoverFails
  <2>1. /\ op'.kind = op.kind /\ op'.dom = op.dom
        /\ \/ op.pc = "rollback" /\ op'.pc \in {"retest", "record"}
           \/ op.pc = "retest" /\ op'.pc \in {"rereload", "record"}
           \/ op.pc = "rereload" /\ op'.pc = "record"
    BY <1>0, <1>5 DEF Rollback, Retest, Rereload, RollbackFails, RecoverFails, Goto, OpType
  <2>2. Stage(op) < Stage(op')
    BY <2>1 DEF Stage
  <2> QED
    BY <2>1, <2>2 DEF Advances
<1>6. CASE Commit \/ Record \/ RecordFails
  BY <1>6 DEF Commit, Record, RecordFails
<1>7. CASE Environment
  BY <1>7 DEF Environment, Crash, Restart, Import, Started, ExternalReload, CertificateExpires
<1> QED
  BY <1>1, <1>2, <1>3, <1>4, <1>5, <1>6, <1>7 DEF Next, Step

\* The safety half of LockReleased: whatever fails, the stages of an operation
\* only rise, and within one of them its files only get fewer (transaction, recover,
\* serialized).
THEOREM OperationsEnd == Spec => OperationsAdvance
<1>1. FilesInv /\ [Next]_vars =>
        [ (op # NoOp /\ op' # op) =>
            \/ op' = NoOp
            \/ op'.kind = op.kind /\ op'.dom = op.dom /\ Advances(op, op') ]_vars
  BY AdvanceStep DEF FilesInv
<1> QED
  BY <1>1, FilesInvariance, PTL DEF Spec, OperationsAdvance
=============================================================================
