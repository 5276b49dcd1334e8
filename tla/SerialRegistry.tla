--------------------------- MODULE SerialRegistry ---------------------------
(***************************************************************************)
(* What README.md:88 promises of the registry: all changes are serialized  *)
(* through one DomainService.  Every change of the rows is one operation,  *)
(* checked against the rows it changes and applied to them at once.        *)
(*                                                                         *)
(* A row keeps what overlapping requests can get wrong: a listen port, the *)
(* only resource no unique constraint protects, and the deployments        *)
(* rendered from it.  DomainService models the operations themselves.      *)
(***************************************************************************)
EXTENDS Naturals, Sequences

CONSTANTS
  Domain,          \* database ids, each given to one row at most
  Port,            \* listen ports, with their protocol
  MaxDeployments,  \* bound: deployments kept for one domain
  NoRow,           \* an id not given yet
  Gone,            \* an id whose row was deleted
  Keep             \* a field that a partial update does not mention

Deployment == [port : Port, status : {"draft", "applied", "error", "superseded"}]
Row == [port : Port, deployments : Seq(Deployment)]

ASSUME NothingAssumption == NoRow \notin Row /\ Gone \notin Row /\ NoRow # Gone
ASSUME KeepAssumption == Keep \notin Port
ASSUME BoundAssumption == MaxDeployments \in Nat \ {0}

Change == [kind : {"create"}, dom : Domain, port : Port]
            \cup [kind : {"update"}, dom : Domain, port : Port \cup {Keep}]
            \cup [kind : {"apply", "delete"}, dom : Domain, port : {Keep}]

VARIABLE db        \* committed rows

Rows == {d \in Domain : db[d] \notin {NoRow, Gone}}

-----------------------------------------------------------------------------
Exists(rows, d) == rows[d] \notin {NoRow, Gone}
Draft(port) == [port |-> port, status |-> "draft"]

\* Mutation of NewPort: a field the update does not mention is not merged.
NewPortUnmerged(row, change) == change.port

NewPort(row, change) == IF change.port = Keep THEN row.port ELSE change.port

\* check_conflicts, for the listen port.
Conflicts(rows, d, port) ==
  \E e \in Domain \ {d} : Exists(rows, e) /\ rows[e].port = port

\* find and the checks made before anything is changed.
Missing(rows, change) == change.kind # "create" /\ ~ Exists(rows, change.dom)

Refused(rows, change) ==
  \/ change.kind = "create" /\ Conflicts(rows, change.dom, change.port)
  \/ change.kind = "update" /\ Conflicts(rows, change.dom, NewPort(rows[change.dom], change))

\* Mutation of MarkApplied: the deployment applied before is not superseded.
MarkAppliedOnly(deployments) ==
  [i \in DOMAIN deployments |->
     IF i = Len(deployments) THEN [deployments[i] EXCEPT !.status = "applied"]
     ELSE deployments[i]]

\* mark_applied on the newest deployment.
MarkApplied(deployments) ==
  [i \in DOMAIN deployments |->
     IF i = Len(deployments) THEN [deployments[i] EXCEPT !.status = "applied"]
     ELSE IF deployments[i].status = "applied" THEN [deployments[i] EXCEPT !.status = "superseded"]
     ELSE deployments[i]]

\* The row an operation makes of the one it has loaded.
After(row, change) ==
  CASE change.kind = "create" -> [port |-> change.port, deployments |-> <<Draft(change.port)>>]
    [] change.kind = "update" ->
         [port |-> NewPort(row, change),
          deployments |-> Append(row.deployments, Draft(NewPort(row, change)))]
    [] change.kind = "apply" -> [row EXCEPT !.deployments = MarkApplied(@)]
    [] change.kind = "delete" -> Gone

\* record_apply_failure, for the i-th deployment.
Failed(row, i) ==
  IF row.deployments[i].status = "applied" THEN row
  ELSE [row EXCEPT !.deployments[i].status = "error"]

-----------------------------------------------------------------------------
SerialInit == db = [d \in Domain |-> NoRow]

Operation(change) ==
  /\ change.kind = "create" => db[change.dom] = NoRow
  /\ ~ Missing(db, change)
  /\ ~ Refused(db, change)
  /\ db' = [db EXCEPT ![change.dom] = After(@, change)]

FailedApply(d) ==
  /\ Exists(db, d)
  /\ db' = [db EXCEPT ![d] = Failed(@, Len(@.deployments))]

SerialNext ==
  \/ \E change \in Change : Operation(change)
  \/ \E d \in Domain : FailedApply(d)

SerialSpec == SerialInit /\ [][SerialNext]_db

-----------------------------------------------------------------------------
(* What serialized changes preserve *)

AppliedIndices(deployments) == {i \in DOMAIN deployments : deployments[i].status = "applied"}

\* README.md:104: the service checks occupied TCP/UDP listen ports.  No two rows
\* have one (check_conflicts).
PortsDisjoint == \A d, e \in Rows : d # e => db[d].port # db[e].port

\* At most one deployment of a row is applied, and the newest one was rendered
\* from the port the row shows (mark_applied, update_domain).
HistoryAgrees ==
  \A d \in Rows :
    /\ \A i, j \in AppliedIndices(db[d].deployments) : i = j
    /\ db[d].deployments # <<>>
    /\ db[d].deployments[Len(db[d].deployments)].port = db[d].port
=============================================================================
