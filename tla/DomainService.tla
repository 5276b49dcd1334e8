---------------------------- MODULE DomainService ----------------------------
(***************************************************************************)
(* backend/services/domain_service.py over backend/services/nginx.py: the  *)
(* registry's database rows, the nginx files they are rendered to, the     *)
(* configuration nginx runs, and the operations that keep the three        *)
(* together under one asyncio lock.                                        *)
(*                                                                         *)
(* create and update touch the database only.  apply, disable, delete and  *)
(* certificate issuance are transactions over files: they change files one *)
(* at a time, test and reload nginx, and commit the database last; any     *)
(* exception before the end restores the files and reloads nginx again.    *)
(* Commands fail or time out, the disk fails, a commit fails or succeeds   *)
(* without an answer, the request is cancelled, the container dies and is  *)
(* restarted, and certbot's renewal hook reloads nginx at any moment.      *)
(*                                                                         *)
(* FileTransaction models what this module takes from it in one step: the  *)
(* snapshot, and a rollback that restores the files or says it did not.    *)
(***************************************************************************)
EXTENDS Naturals, Sequences, FiniteSets

CONSTANTS
  Domain,          \* ids of database rows
  Name,            \* host names, which are also names of streams
  Port,            \* listen ports, with their protocol
  Payload,         \* the normalized payloads clients send
  MaxDeployments,  \* bound: deployments kept for one domain
  MaxIncidents,    \* bound: kinds of incident in one behaviour
  NoRow, NoText, NoDomain, NoCert

Type == {"hostname", "port_proxy"}

\* A normalized payload.  names is what server_names holds: for a hostname its
\* name and aliases, for a stream nothing.  valid is whether nginx accepts the
\* file rendered from it (it refuses, say, an upstream that does not resolve).
PayloadType == [type : Type, name : Name, names : SUBSET Name, port : Port, valid : BOOLEAN]

ASSUME PayloadAssumption == Payload \subseteq PayloadType
\* normalize_payload puts a hostname's name among its server names.
ASSUME HostnameAssumption == \A cfg \in Payload : cfg.type = "hostname" => cfg.name \in cfg.names
ASSUME BoundsAssumption == MaxDeployments \in Nat \ {0} /\ MaxIncidents \in Nat

\* The file of a domain: its directory is chosen by the type, its name by the
\* name; each slot has an available and an enabled path.
Slot == Type \X Name
Side == {"available", "enabled"}
File == Side \X Slot

\* A rendered configuration; one with TLS names its certificate.
Text == {text \in [cfg : Payload, ssl : BOOLEAN, cert : Name \cup {NoCert}] :
           text.ssl <=> text.cert # NoCert}

Deployment == [text : Text, status : {"draft", "applied", "error", "superseded"}]

\* An ACTIVE row of domain_certificates; rows of any other status never count.
Certificate == [cert : Name, covers : SUBSET Name]

Row == [cfg : Payload, enabled : BOOLEAN,
        status : {"draft", "active", "disabled", "error"},
        deployments : Seq(Deployment), certs : SUBSET Certificate]

ASSUME NothingAssumption ==
  /\ NoRow \notin Row
  /\ NoText \notin Text
  /\ NoDomain \notin Domain
  /\ NoCert \notin Name

VARIABLES
  db,        \* committed rows
  files,     \* what each configuration path holds
  running,   \* the configuration nginx has loaded
  lineage,   \* the names each certificate on disk covers, {} without one
  op,        \* the operation that holds the lock
  phase,     \* the container: down, starting, up
  imported,  \* rows the starting service has added and not committed
  flagged,   \* a finished transaction left a pending or rollback_failed manifest
  alarm      \* history: the incidents after which the three may disagree

vars == <<db, files, running, lineage, op, phase, imported, flagged, alarm>>

Kind == {"apply", "disable", "delete", "issue"}
Incident == {"crash", "commit_unknown", "files", "reload", "lineage"}
NoFiles == [f \in File |-> NoText]

NoOp == [kind |-> "none", dom |-> NoDomain, pc |-> "idle", todo |-> {}, saved |-> NoFiles,
         tls |-> FALSE, cause |-> "none", broken |-> FALSE]

Init ==
  /\ db = [d \in Domain |-> NoRow]
  /\ files = NoFiles
  /\ running = [s \in Slot |-> NoText]
  /\ lineage = [n \in Name |-> {}]
  /\ op = NoOp
  /\ phase = "up"
  /\ imported = {}
  /\ flagged = FALSE
  /\ alarm = {}

\* The bound on incidents.
May(incident) == incident \in alarm \/ Cardinality(alarm) < MaxIncidents

-----------------------------------------------------------------------------
(* Rows and texts *)

Exists(d) == db[d] # NoRow
SlotOf(cfg) == <<cfg.type, cfg.name>>
Plain(cfg) == [cfg |-> cfg, ssl |-> FALSE, cert |-> NoCert]

Indices(row) == DOMAIN row.deployments
Latest(row) == row.deployments[Len(row.deployments)]
AppliedIndices(row) == {i \in Indices(row) : row.deployments[i].status = "applied"}
HasApplied(row) == AppliedIndices(row) # {}

\* applied_deployment: the newest one.
Applied(row) ==
  row.deployments[CHOOSE i \in AppliedIndices(row) : \A j \in AppliedIndices(row) : j <= i]

\* paths(domain): the slots of the whole deployment history.
Slots(row) == {SlotOf(row.deployments[i].text.cfg) : i \in Indices(row)}

Others(d) == {e \in Domain \ {d} : Exists(e)}

\* Mutation of Conflicts: paths are compared with newest deployments only.
ConflictsWithLatest(d, cfg) ==
  \E e \in Others(d) :
    \/ db[e].cfg.names \cap cfg.names # {}
    \/ cfg.type = "port_proxy" /\ db[e].cfg.type = "port_proxy" /\ db[e].cfg.port = cfg.port
    \/ SlotOf(cfg) = SlotOf(Latest(db[e]).text.cfg)
    \/ db[e].cfg.name = cfg.name

\* check_conflicts, and the unique constraint on domains.name.
Conflicts(d, cfg) ==
  \E e \in Others(d) :
    \/ db[e].cfg.names \cap cfg.names # {}
    \/ cfg.type = "port_proxy" /\ db[e].cfg.type = "port_proxy" /\ db[e].cfg.port = cfg.port
    \/ SlotOf(cfg) \in Slots(db[e])
    \/ db[e].cfg.name = cfg.name

OwnsPaths(d) == \A e \in Others(d) : Slots(db[e]) \cap Slots(db[d]) = {}

\* Mutation of Covers: only the name of the certificate is compared.
CoversByCertName(row, text) == text.ssl => \E c \in row.certs : c.cert = text.cert

\* certificate_covers: an active certificate row of that name lists every name.
Covers(row, text) ==
  text.ssl => \E c \in row.certs : c.cert = text.cert /\ row.cfg.names \subseteq c.covers

ActiveSsl(row) == HasApplied(row) /\ Applied(row).text.ssl

\* Mutation of MarkApplied: the previous deployment is not superseded.
MarkAppliedOnly(deployments) ==
  [i \in DOMAIN deployments |->
     IF i = Len(deployments) THEN [deployments[i] EXCEPT !.status = "applied"]
     ELSE deployments[i]]

\* mark_applied, on a history whose last deployment is the one applied.
MarkApplied(deployments) ==
  [i \in DOMAIN deployments |->
     IF i = Len(deployments) THEN [deployments[i] EXCEPT !.status = "applied"]
     ELSE IF deployments[i].status = "applied" THEN [deployments[i] EXCEPT !.status = "superseded"]
     ELSE deployments[i]]

-----------------------------------------------------------------------------
(* nginx *)

Loaded(f) == [s \in Slot |-> f[<<"enabled", s>>]]

\* nginx -t reads every enabled file at once: it refuses a file it cannot
\* resolve, a certificate that is not there, and two streams on one port.
Valid(conf) ==
  LET present == {s \in Slot : conf[s] # NoText}
  IN  /\ \A s \in present :
           conf[s].cfg.valid /\ (conf[s].ssl => lineage[conf[s].cert] # {})
      /\ \A s, t \in present :
           (s # t /\ s[1] = "port_proxy" /\ t[1] = "port_proxy")
              => conf[s].cfg.port # conf[t].cfg.port

-----------------------------------------------------------------------------
(* create_domain and update_domain: one database transaction each.  They    *)
(* hold the lock throughout and touch nothing else, so they are one step; a *)
(* commit that fails is no step.                                            *)

Free == phase = "up" /\ op = NoOp

CreateDomain(d, cfg) ==
  /\ Free
  /\ ~ Exists(d)
  /\ ~ Conflicts(d, cfg)
  /\ db' = [db EXCEPT ![d] = [cfg |-> cfg, enabled |-> FALSE, status |-> "draft",
                              deployments |-> <<[text |-> Plain(cfg), status |-> "draft"]>>,
                              certs |-> {}]]
  /\ UNCHANGED <<files, running, lineage, op, phase, imported, flagged, alarm>>

\* The new draft keeps TLS and the certificate name of what is applied.
UpdatedText(row, cfg) ==
  IF ActiveSsl(row) /\ cfg.type = "hostname"
  THEN [cfg |-> cfg, ssl |-> TRUE, cert |-> Applied(row).text.cert]
  ELSE Plain(cfg)

UpdateDomain(d, cfg) ==
  /\ Free
  /\ Exists(d)
  /\ Len(db[d].deployments) < MaxDeployments
  /\ ~ Conflicts(d, cfg)
  /\ db' = [db EXCEPT ![d].cfg = cfg,
                      ![d].deployments = Append(@, [text |-> UpdatedText(db[d], cfg),
                                                    status |-> "draft"])]
  /\ UNCHANGED <<files, running, lineage, op, phase, imported, flagged, alarm>>

-----------------------------------------------------------------------------
(* The four file transactions begin *)

Begin(kind, d) ==
  /\ Free
  /\ Exists(d)
  /\ OwnsPaths(d)
  /\ op' = [NoOp EXCEPT !.kind = kind, !.dom = d, !.pc = "capture"]
  /\ UNCHANGED <<db, files, running, lineage, phase, imported, flagged, alarm>>

ApplyDomain(d) == Begin("apply", d) /\ Covers(db[d], Latest(db[d]).text)

DisableDomain(d) == Begin("disable", d)

Delete(d) == Begin("delete", d)

IssueCertificate(d) ==
  /\ Begin("issue", d)
  /\ db[d].cfg.type = "hostname"
  /\ Len(db[d].deployments) < MaxDeployments

-----------------------------------------------------------------------------
(* Nginx.transaction: the body *)

\* What write_deployment writes.  Issuance writes the current payload twice:
\* as it is served now, for the challenge, then with the new certificate.
Target ==
  LET row == db[op.dom]
  IN  CASE op.kind = "apply" -> Latest(row).text
        [] op.kind = "issue" /\ op.tls ->
             [cfg |-> row.cfg, ssl |-> TRUE, cert |-> row.cfg.name]
        [] op.kind = "issue" /\ ~ op.tls ->
             IF ActiveSsl(row) THEN [cfg |-> row.cfg, ssl |-> TRUE, cert |-> Applied(row).text.cert]
             ELSE Plain(row.cfg)
        [] OTHER -> NoText

\* What a path of the domain holds once the body has run; disable leaves the
\* available files alone.
Desired(f) ==
  CASE op.kind \in {"apply", "issue"} -> IF f[2] = SlotOf(Target.cfg) THEN Target ELSE NoText
    [] op.kind = "disable" /\ f[1] = "available" -> files[f]
    [] OTHER -> NoText

\* Mutation of Declared: every path that holds a file.
DeclaredEverywhere == {f \in File : f[2] \in Slots(db[op.dom]) \/ files[f] # NoText}

\* paths(domain), both sides of each slot.
Declared == {f \in File : f[2] \in Slots(db[op.dom])}
Pending == {f \in Declared : files[f] # Desired(f)}

Goto(pc) == op' = [op EXCEPT !.pc = pc]

\* capture; the paths whose contents will not change are left out of todo.
Capture ==
  /\ op.pc = "capture"
  /\ op' = [op EXCEPT !.pc = "change", !.saved = files, !.todo = Pending]
  /\ UNCHANGED <<db, files, running, lineage, phase, imported, flagged, alarm>>

\* There is nothing to roll back, but an OSError is recorded like any other.
CaptureFails ==
  /\ op.pc = "capture"
  /\ \E cause \in {"nginx", "other"} : op' = [op EXCEPT !.pc = "record", !.cause = cause]
  /\ UNCHANGED <<db, files, running, lineage, phase, imported, flagged, alarm>>

\* write_deployment writes the available file and then the enabled one;
\* remove_obsolete removes the other paths afterwards.
ChangeFile(f) ==
  /\ op.pc = "change"
  /\ f \in op.todo
  /\ f[1] = "enabled" /\ Desired(f) # NoText => <<"available", f[2]>> \notin op.todo
  /\ Desired(f) = NoText => \A g \in op.todo : Desired(g) = NoText
  /\ files' = [files EXCEPT ![f] = Desired(f)]
  /\ op' = [op EXCEPT !.todo = @ \ {f}]
  /\ UNCHANGED <<db, running, lineage, phase, imported, flagged, alarm>>

\* Mutations of Changed: nginx is neither tested nor reloaded, ever or for the
\* second deployment of an issuance.
ChangedUnvalidated ==
  /\ op.pc = "change"
  /\ op.todo = {}
  /\ Goto("commit")
  /\ UNCHANGED <<db, files, running, lineage, phase, imported, flagged, alarm>>

TlsUnvalidated ==
  /\ op.pc = "change"
  /\ op.todo = {}
  /\ Goto(IF op.tls THEN "commit" ELSE "test")
  /\ UNCHANGED <<db, files, running, lineage, phase, imported, flagged, alarm>>

Changed ==
  /\ op.pc = "change"
  /\ op.todo = {}
  /\ Goto("test")
  /\ UNCHANGED <<db, files, running, lineage, phase, imported, flagged, alarm>>

Test ==
  /\ op.pc = "test"
  /\ Valid(Loaded(files))
  /\ Goto("reload")
  /\ UNCHANGED <<db, files, running, lineage, phase, imported, flagged, alarm>>

\* validate_reload done: issuance turns to certbot after its first one.
Reload ==
  /\ op.pc = "reload"
  /\ running' = Loaded(files)
  /\ Goto(IF op.kind = "issue" /\ ~ op.tls THEN "certbot" ELSE "commit")
  /\ UNCHANGED <<db, files, lineage, phase, imported, flagged, alarm>>

\* certbot replaces what the lineage of that name covers.
Certbot ==
  /\ op.pc = "certbot"
  /\ lineage' = [lineage EXCEPT ![db[op.dom].cfg.name] = db[op.dom].cfg.names]
  /\ Goto("expiry")
  /\ UNCHANGED <<db, files, running, phase, imported, flagged, alarm>>

\* certificate_expiry, then the TLS deployment over the challenge.
Expiry ==
  /\ op.pc = "expiry"
  /\ op' = [op EXCEPT !.pc = "change", !.tls = TRUE,
                      !.todo = {<<side, SlotOf(db[op.dom].cfg)>> : side \in Side}]
  /\ UNCHANGED <<db, files, running, lineage, phase, imported, flagged, alarm>>

\* What the body commits.
CommittedRow(row) ==
  CASE op.kind = "apply" ->
         [row EXCEPT !.enabled = TRUE, !.status = "active",
                     !.deployments = MarkApplied(row.deployments)]
    [] op.kind = "disable" -> [row EXCEPT !.enabled = FALSE, !.status = "disabled"]
    [] op.kind = "delete" -> NoRow
    [] op.kind = "issue" ->
         [row EXCEPT !.enabled = TRUE, !.status = "active",
                     !.deployments = MarkApplied(Append(row.deployments,
                                                        [text |-> Target, status |-> "draft"])),
                     !.certs = {c \in row.certs : c.cert # row.cfg.name}
                                 \cup {[cert |-> row.cfg.name, covers |-> row.cfg.names]}]

CommittedDb == [db EXCEPT ![op.dom] = CommittedRow(db[op.dom])]

\* session.commit, then files.commit, whose failure only leaves the manifest
\* pending; the lock is released.
Commit ==
  /\ op.pc = "commit"
  /\ db' = CommittedDb
  /\ op' = NoOp
  /\ flagged' \in {flagged, TRUE}
  /\ UNCHANGED <<files, running, lineage, phase, imported, alarm>>

-----------------------------------------------------------------------------
(* Nginx.transaction: exceptions in the body *)

\* An exception unwinds into rollback.  Only NginxOperationError and OSError
\* ("nginx") are recorded; a database error or a cancellation ("other") is not.
Raise(cause) ==
  /\ op.tls \/ op.pc = "expiry" => May("lineage")
  /\ op' = [op EXCEPT !.pc = "rollback", !.cause = cause, !.todo = {}]
  /\ alarm' = IF op.tls \/ op.pc = "expiry" THEN alarm \cup {"lineage"} ELSE alarm

ChangeFails ==
  /\ op.pc = "change"
  /\ Raise("nginx")
  /\ UNCHANGED <<db, files, running, lineage, phase, imported, flagged>>

\* A refused configuration, a command that failed or timed out, an expired
\* certificate, a failed commit, or the request cancelled while it waits.
WaitFails ==
  /\ op.pc \in {"test", "certbot", "expiry", "commit"}
  /\ \E cause \in {"nginx", "other"} : Raise(cause)
  /\ UNCHANGED <<db, files, running, lineage, phase, imported, flagged>>

\* The reload may have taken effect before it failed or was killed.
ReloadFails ==
  /\ op.pc = "reload"
  /\ \E cause \in {"nginx", "other"} : Raise(cause)
  /\ running' \in {running, Loaded(files)}
  /\ UNCHANGED <<db, files, lineage, phase, imported, flagged>>

\* certbot was killed at its timeout after it had replaced the certificate.
CertbotKilled ==
  /\ op.pc = "certbot"
  /\ May("lineage")
  /\ lineage' = [lineage EXCEPT ![db[op.dom].cfg.name] = db[op.dom].cfg.names]
  /\ op' = [op EXCEPT !.pc = "rollback", !.cause = "nginx", !.todo = {}]
  /\ alarm' = alarm \cup {"lineage"}
  /\ UNCHANGED <<db, files, running, phase, imported, flagged>>

\* The commit reached the database but its caller got an exception: the
\* connection was lost, or the request was cancelled while the driver's thread
\* went on.
CommitUnknown ==
  /\ op.pc = "commit"
  /\ May("commit_unknown")
  /\ db' = CommittedDb
  /\ \E cause \in {"nginx", "other"} : op' = [op EXCEPT !.pc = "rollback", !.cause = cause]
  /\ alarm' = alarm \cup {"commit_unknown"}
  /\ UNCHANGED <<files, running, lineage, phase, imported, flagged>>

-----------------------------------------------------------------------------
(* Nginx.transaction: recover() *)

\* The paths whose restoration fails keep what the body left there.
Mix(kept) == [f \in File |-> IF f \in kept THEN files[f] ELSE op.saved[f]]
Differing == {f \in File : files[f] # op.saved[f]}

\* Mutation of Rollback: recover() does not validate and reload.
RollbackWithoutReload ==
  /\ op.pc = "rollback"
  /\ files' = op.saved
  /\ Goto("record")
  /\ UNCHANGED <<db, running, lineage, phase, imported, flagged, alarm>>

Rollback ==
  /\ op.pc = "rollback"
  /\ files' = op.saved
  /\ Goto("retest")
  /\ UNCHANGED <<db, running, lineage, phase, imported, flagged, alarm>>

\* Mutation of RollbackFails: the manifest says rolled_back all the same.
RollbackFailsUnflagged ==
  /\ op.pc = "rollback"
  /\ May("files")
  /\ \E kept \in SUBSET Differing : files' = Mix(kept)
  /\ op' = [op EXCEPT !.pc = "record", !.broken = TRUE]
  /\ alarm' = alarm \cup {"files"}
  /\ UNCHANGED <<db, running, lineage, phase, imported, flagged>>

\* files.rollback raises: a path was not restored, or the manifest could not be
\* written.  nginx is neither tested nor reloaded.
RollbackFails ==
  /\ op.pc = "rollback"
  /\ May("files")
  /\ \E kept \in SUBSET Differing : files' = Mix(kept)
  /\ op' = [op EXCEPT !.pc = "record", !.broken = TRUE]
  /\ flagged' = TRUE
  /\ alarm' = alarm \cup {"files"}
  /\ UNCHANGED <<db, running, lineage, phase, imported>>

Retest ==
  /\ op.pc = "retest"
  /\ Valid(Loaded(files))
  /\ Goto("rereload")
  /\ UNCHANGED <<db, files, running, lineage, phase, imported, flagged, alarm>>

Rereload ==
  /\ op.pc = "rereload"
  /\ running' = Loaded(files)
  /\ Goto("record")
  /\ UNCHANGED <<db, files, lineage, phase, imported, flagged, alarm>>

\* Mutation of RecoverFails: recovery is not prepared for a previous
\* configuration that nginx refuses.
RecoverFailsOnReload ==
  /\ op.pc = "rereload"
  /\ May("reload")
  /\ running' \in {running, Loaded(files)}
  /\ op' = [op EXCEPT !.pc = "record", !.broken = TRUE]
  /\ alarm' = alarm \cup {"reload"}
  /\ UNCHANGED <<db, files, lineage, phase, imported, flagged>>

\* The manifest says rolled_back; the error says rollback_failed.
RecoverFails ==
  /\ op.pc \in {"retest", "rereload"}
  /\ May("reload") \/ ~ Valid(Loaded(files))
  /\ running' \in {running, IF op.pc = "rereload" THEN Loaded(files) ELSE running}
  /\ op' = [op EXCEPT !.pc = "record", !.broken = TRUE]
  /\ alarm' = alarm \cup {"reload"}
  /\ UNCHANGED <<db, files, lineage, phase, imported, flagged>>

-----------------------------------------------------------------------------
(* record_apply_failure, and its counterpart in issue_certificate *)

\* A rollback that failed is a NginxOperationError whatever the cause was.
Recorded == op.kind \in {"apply", "issue"} /\ (op.cause = "nginx" \/ op.broken)

\* Mutation of FailedStatus: a status the database does not have.
FailedStatusUnknown(row) ==
  IF op.broken THEN "rollback_failed" ELSE IF ~ row.enabled THEN "error" ELSE row.status

FailedStatus(row) == IF op.broken \/ ~ row.enabled THEN "error" ELSE row.status

FailedRow(row) ==
  IF op.kind = "apply" /\ Latest(row).status # "applied"
  THEN [row EXCEPT !.status = FailedStatus(row),
                   !.deployments[Len(row.deployments)].status = "error"]
  ELSE [row EXCEPT !.status = FailedStatus(row)]

Record ==
  /\ op.pc = "record"
  /\ db' = IF Recorded THEN [db EXCEPT ![op.dom] = FailedRow(@)] ELSE db
  /\ op' = NoOp
  /\ UNCHANGED <<files, running, lineage, phase, imported, flagged, alarm>>

RecordFails ==
  /\ op.pc = "record"
  /\ Recorded
  /\ op' = NoOp
  /\ UNCHANGED <<db, files, running, lineage, phase, imported, flagged, alarm>>

-----------------------------------------------------------------------------
(* The container, and what happens outside the service *)

Dirty == op.pc \in {"change", "test", "reload", "certbot", "expiry", "commit", "rollback"}

\* The application or nginx dies and the entrypoint stops the other: nothing in
\* memory survives.  A rollback under way has restored some of the paths.
Crash ==
  /\ phase # "down"
  /\ Dirty => May("crash")
  /\ phase' = "down"
  /\ running' = [s \in Slot |-> NoText]
  /\ op' = NoOp
  /\ IF Dirty THEN flagged' = TRUE /\ alarm' = alarm \cup {"crash"}
              ELSE UNCHANGED <<flagged, alarm>>
  /\ IF op.pc = "rollback" THEN \E kept \in SUBSET Differing : files' = Mix(kept)
                           ELSE UNCHANGED files
  /\ db' = [d \in Domain |-> IF d \in imported THEN NoRow ELSE db[d]]
  /\ imported' = {}
  /\ UNCHANGED lineage

\* entrypoint.sh tests the configuration before it starts nginx and the service.
Restart ==
  /\ phase = "down"
  /\ Valid(Loaded(files))
  /\ phase' = "starting"
  /\ running' = Loaded(files)
  /\ UNCHANGED <<db, files, lineage, op, imported, flagged, alarm>>

\* The importer adopts an enabled file that no domain owns.  It takes the names
\* in the file for the names of the certificate, if openssl can read that.
Import(d, s) ==
  LET text == files[<<"enabled", s>>]
  IN  /\ phase = "starting"
      /\ ~ Exists(d)
      /\ text # NoText
      /\ ~ Conflicts(d, text.cfg)
      /\ \E certs \in {{}, IF text.ssl THEN {[cert |-> text.cert, covers |-> text.cfg.names]}
                                       ELSE {}} :
           db' = [db EXCEPT ![d] = [cfg |-> text.cfg, enabled |-> TRUE, status |-> "active",
                                    deployments |-> <<[text |-> text, status |-> "applied"]>>,
                                    certs |-> certs]]
      /\ imported' = imported \cup {d}
      /\ UNCHANGED <<files, running, lineage, op, phase, flagged, alarm>>

\* Import ends with its one commit, or is switched off.
Started ==
  /\ phase = "starting"
  /\ phase' = "up"
  /\ imported' = {}
  /\ UNCHANGED <<db, files, running, lineage, op, flagged, alarm>>

\* The deploy hook of certbot renew: nginx -t && nginx -s reload.
ExternalReload ==
  /\ phase # "down"
  /\ Valid(Loaded(files))
  /\ running' = Loaded(files)
  /\ UNCHANGED <<db, files, lineage, op, phase, imported, flagged, alarm>>

\* Past expires_at a certificate row never covers anything again.
CertificateExpires(d, c) ==
  /\ Exists(d)
  /\ c \in db[d].certs
  /\ db' = [db EXCEPT ![d].certs = @ \ {c}]
  /\ UNCHANGED <<files, running, lineage, op, phase, imported, flagged, alarm>>

-----------------------------------------------------------------------------
Request ==
  \E d \in Domain :
    \/ \E cfg \in Payload : CreateDomain(d, cfg) \/ UpdateDomain(d, cfg)
    \/ ApplyDomain(d) \/ DisableDomain(d) \/ Delete(d) \/ IssueCertificate(d)

Step ==
  \/ Capture \/ CaptureFails
  \/ \E f \in File : ChangeFile(f)
  \/ Changed \/ Test \/ Reload \/ Certbot \/ Expiry \/ Commit
  \/ ChangeFails \/ WaitFails \/ ReloadFails \/ CertbotKilled \/ CommitUnknown
  \/ Rollback \/ Retest \/ Rereload \/ RollbackFails \/ RecoverFails
  \/ Record \/ RecordFails

Environment ==
  \/ Crash
  \/ Restart
  \/ \E d \in Domain, s \in Slot : Import(d, s)
  \/ Started
  \/ ExternalReload
  \/ \E d \in Domain : Exists(d) /\ \E c \in db[d].certs : CertificateExpires(d, c)

Next == Request \/ Step \/ Environment

Spec == Init /\ [][Next]_vars

\* Every command has a timeout and the rest is synchronous code or a database
\* call that returns, so an operation goes on while the process lives.  The
\* container's restart policy tries again, and a started service comes up.
Fairness == WF_vars(Step) /\ WF_vars(Restart) /\ WF_vars(Started)

FairSpec == Spec /\ Fairness

-----------------------------------------------------------------------------
(* Properties *)

OpType == [kind : Kind \cup {"none"}, dom : Domain \cup {NoDomain},
           pc : {"idle", "capture", "change", "test", "reload", "certbot", "expiry",
                 "commit", "rollback", "retest", "rereload", "record"},
           todo : SUBSET File, saved : [File -> Text \cup {NoText}],
           tls : BOOLEAN, cause : {"none", "nginx", "other"}, broken : BOOLEAN]

\* Every variable of the service, the disk and nginx holds a value of its type.
TypeOK ==
  /\ db \in [Domain -> Row \cup {NoRow}]
  /\ files \in [File -> Text \cup {NoText}]
  /\ running \in [Slot -> Text \cup {NoText}]
  /\ lineage \in [Name -> SUBSET Name]
  /\ op \in OpType
  /\ phase \in {"down", "starting", "up"}
  /\ imported \in SUBSET Domain
  /\ flagged \in BOOLEAN
  /\ alarm \in SUBSET Incident

Idle == op = NoOp /\ phase = "up"
Rows == {d \in Domain : Exists(d)}

\* What the enabled and available paths of a domain's history should hold.
AsApplied(row, s) ==
  IF row.enabled /\ s = SlotOf(Applied(row).text.cfg) THEN Applied(row).text ELSE NoText

EnabledFilesMatch(d) ==
  \A s \in Slots(db[d]) : files[<<"enabled", s>>] = AsApplied(db[d], s)

AvailableFilesMatch(d) ==
  \A s \in Slots(db[d]) : files[<<"available", s>>] = AsApplied(db[d], s)

\* Between operations the files are those of the applied deployments of the
\* enabled domains and no others, unless some manifest says pending or
\* rollback_failed, or a commit went through without an answer: neither a
\* crash nor a failed rollback goes unflagged (transaction, apply_domain,
\* disable_domain, delete, issue_certificate).
UnflaggedFilesFollowDatabase ==
  (Idle /\ ~ flagged /\ "commit_unknown" \notin alarm) =>
    /\ \A d \in Rows : EnabledFilesMatch(d) /\ (db[d].enabled => AvailableFilesMatch(d))
    /\ \A f \in File : files[f] # NoText => \E d \in Rows : f[2] \in Slots(db[d])

\* entrypoint.sh:5: what a stopped container would start with passes nginx -t,
\* wherever and however often it died, unless some manifest says that a
\* transaction was cut short or not rolled back (transaction, recover).
StartsUnlessFlagged == (phase = "down" /\ ~ flagged) => Valid(Loaded(files))

\* Between operations nginx runs the enabled files, whatever crashed or failed,
\* unless recovery itself was reported as failed (validate_reload, recover).
NginxFollowsFiles ==
  (Idle /\ alarm \cap {"files", "reload"} = {}) => running = Loaded(files)

\* A transaction that ends in success leaves its domain in order, on disk and in
\* nginx, whatever had gone wrong before it (write_deployment, remove_obsolete).
SuccessHeals ==
  [][ (op.pc = "commit" /\ op' = NoOp /\ phase' = "up") =>
        /\ running' = Loaded(files')
        /\ \A d \in Domain : d = op.dom =>
             IF db'[d] = NoRow
             THEN \A f \in Declared : files'[f] = NoText
             ELSE /\ EnabledFilesMatch(d)'
                  /\ db'[d].enabled => AvailableFilesMatch(d)'
                  /\ db'[d].enabled <=> op.kind # "disable" ]_vars

\* A history has at most one applied deployment, an enabled domain has one, and
\* the newest deployment is of the payload the row shows (mark_applied,
\* update_domain).
HistoryAgreesWithRow ==
  \A d \in Rows :
    /\ \A i, j \in AppliedIndices(db[d]) : i = j
    /\ db[d].enabled => HasApplied(db[d])
    /\ Latest(db[d]).text.cfg = db[d].cfg

\* No two domains share a path of their histories, a server name or a listen
\* port (check_conflicts, check_path_ownership).
DomainsDisjoint ==
  \A d, e \in Rows :
    d # e =>
      /\ Slots(db[d]) \cap Slots(db[e]) = {}
      /\ db[d].cfg.names \cap db[e].cfg.names = {}
      /\ (db[d].cfg.type = "port_proxy" /\ db[e].cfg.type = "port_proxy")
           => db[d].cfg.port # db[e].cfg.port

\* While nothing has gone wrong, an operation on one domain, an external reload
\* in the middle of it included, never changes what nginx runs for another one
\* (remove_obsolete, paths).
OthersUndisturbed ==
  [][ (phase = "up" /\ phase' = "up" /\ alarm = {}) =>
        \A e \in Rows \ {op.dom} : \A s \in Slots(db[e]) : running'[s] = running[s] ]_vars

TlsServedIsCovered ==
  \A s \in Slot :
    running[s] # NoText /\ running[s].ssl => running[s].cfg.names \subseteq lineage[running[s].cert]

\* Between operations, while nothing has gone wrong, the certificate on disk
\* covers every name nginx serves with it (certificate_covers,
\* issue_certificate).
TlsCovered == (Idle /\ alarm = {}) => TlsServedIsCovered

\* Whatever fails, the operation that holds the lock lets it go (serialized,
\* run_command's timeouts).
LockReleased == (op # NoOp) ~> (op = NoOp)

\* entrypoint.sh:19: a death of the service or of nginx is recovered by the
\* restart policy, always if nothing else has gone wrong: between operations the
\* files pass nginx -t at every start, whatever the history of the domains.
CleanRestartRecovers == (phase = "down" /\ alarm = {}) ~> (phase # "down")

-----------------------------------------------------------------------------
(* What the documentation says and the code does not do *)

\* README.md:110: if certbot or the final TLS apply fails, the previous
\* configuration is restored.  What nginx serves after a failed issuance, with
\* no other incident, should still be covered by its certificate.
FailedIssuanceRestores == (Idle /\ alarm \subseteq {"lineage"}) => TlsServedIsCovered

\* README.md:104: the service checks occupied aliases.  No two files nginx runs
\* should claim one name while nothing has gone wrong.
LiveNamesDisjoint ==
  (Idle /\ alarm = {}) =>
    \A s, t \in Slot :
      (s # t /\ running[s] # NoText /\ running[t] # NoText)
         => running[s].cfg.names \cap running[t].cfg.names = {}
=============================================================================
