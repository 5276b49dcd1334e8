------------------------ MODULE RequestPipelineProofs ------------------------
(***************************************************************************)
(* What RequestPipeline keeps for every number of requests, users, rows    *)
(* and ports: the types; and, where a statement reads the rows committed   *)
(* last, that the requests make the rows change as SerialRegistry says,    *)
(* whence disjoint ports and histories that agree.                         *)
(*                                                                         *)
(* The argument for the refinement is that the row an operation has loaded *)
(* stays the committed one until it commits.  Only the head of the queue   *)
(* commits (CommitHolds), so nothing else moves in between, and a flush of *)
(* the changes made to an unchanged row writes the row itself.             *)
(*                                                                         *)
(* Whatever a statement reads, the queue holds those who wait for the lock,*)
(* each once, so the lock is passed on however a change ends.              *)
(***************************************************************************)
EXTENDS RequestPipeline, SequenceTheorems, TLAPS

Pcs == {"idle", "token", "lookup", "insert", "route", "wait", "commit"}

ReqType == [pc : Pcs, user : User \cup {NoUser}, work : Work \cup {NoWork},
            view : View \cup {NoView}, row : Row \cup {NoRow, Gone}, status : Status]

-----------------------------------------------------------------------------
(* The operators of SerialRegistry *)

LEMMA DraftType ==
  ASSUME NEW port \in Port
  PROVE  Draft(port) \in Deployment
BY DEF Draft, Deployment

LEMMA NewPortType ==
  ASSUME NEW row \in Row, NEW change \in Change
  PROVE  NewPort(row, change) \in Port
BY KeepAssumption DEF NewPort, Change, Row

LEMMA MarkAppliedType ==
  ASSUME NEW deployments \in Seq(Deployment)
  PROVE  /\ MarkApplied(deployments) \in Seq(Deployment)
         /\ Len(MarkApplied(deployments)) = Len(deployments)
         /\ \A i \in 1 .. Len(deployments) : MarkApplied(deployments)[i].port = deployments[i].port
<1> DEFINE n == Len(deployments)
<1>1. n \in Nat /\ DOMAIN deployments = 1 .. n
  OBVIOUS
<1>2. ASSUME NEW i \in 1 .. n
      PROVE  MarkApplied(deployments)[i] \in Deployment
             /\ MarkApplied(deployments)[i].port = deployments[i].port
  <2>1. deployments[i] \in Deployment
    BY <1>1
  <2> QED
    BY <1>1, <2>1 DEF MarkApplied, Deployment
<1>3. MarkApplied(deployments) \in [1 .. n -> Deployment]
  BY <1>1, <1>2 DEF MarkApplied
<1> QED
  BY <1>1, <1>2, <1>3

\* An operation on a row that exists, or is to be created, makes a row.
LEMMA AfterType ==
  ASSUME NEW change \in Change, NEW row \in Row \cup {NoRow, Gone},
         change.kind # "create" => row \in Row
  PROVE  After(row, change) \in Row \cup {Gone}
<1>1. CASE change.kind = "create"
  <2>1. change.port \in Port
    BY <1>1 DEF Change
  <2> QED
    BY <1>1, <2>1, DraftType DEF After, Row
<1>2. CASE change.kind = "update"
  <2>1. row \in Row /\ NewPort(row, change) \in Port
    BY <1>2, NewPortType
  <2>2. Draft(NewPort(row, change)) \in Deployment /\ row.deployments \in Seq(Deployment)
    BY <2>1, DraftType DEF Row
  <2>3. Append(row.deployments, Draft(NewPort(row, change))) \in Seq(Deployment)
    BY <2>2
  <2> QED
    BY <1>2, <2>1, <2>3 DEF After, Row
<1>3. CASE change.kind = "apply"
  <2>1. row \in Row /\ row.deployments \in Seq(Deployment)
    BY <1>3 DEF Row
  <2>2. MarkApplied(row.deployments) \in Seq(Deployment)
    BY <2>1, MarkAppliedType
  <2> QED
    BY <1>3, <2>1, <2>2 DEF After, Row
<1>4. CASE change.kind = "delete"
  BY <1>4 DEF After
<1> QED
  BY <1>1, <1>2, <1>3, <1>4 DEF Change

LEMMA FailedType ==
  ASSUME NEW row \in Row, NEW i \in Nat
  PROVE  /\ Failed(row, i) \in Row
         /\ Failed(row, i).port = row.port
         /\ Len(Failed(row, i).deployments) = Len(row.deployments)
         /\ \A j \in 1 .. Len(row.deployments) :
              /\ Failed(row, i).deployments[j].port = row.deployments[j].port
              /\ Failed(row, i).deployments[j].status
                   \in {row.deployments[j].status, "error"}
<1> DEFINE n == Len(row.deployments)
<1>1. n \in Nat /\ DOMAIN row.deployments = 1 .. n /\ row.deployments \in Seq(Deployment)
  BY DEF Row
<1>2. CASE row.deployments[i].status = "applied"
  BY <1>1, <1>2 DEF Failed
<1>3. CASE row.deployments[i].status # "applied"
  <2> DEFINE ds == [row.deployments EXCEPT ![i].status = "error"]
  <2>1. Failed(row, i) = [row EXCEPT !.deployments = ds]
    BY <1>3 DEF Failed
  <2>2. ASSUME NEW j \in 1 .. n
        PROVE  /\ ds[j] \in Deployment
               /\ ds[j].port = row.deployments[j].port
               /\ ds[j].status \in {row.deployments[j].status, "error"}
    <3>1. row.deployments[j] \in Deployment
      BY <1>1
    <3> QED
      BY <1>1, <3>1 DEF Deployment
  <2>3. ds \in [1 .. n -> Deployment]
    BY <1>1, <2>2
  <2>4. ds \in Seq(Deployment) /\ Len(ds) = n
    BY <1>1, <2>3
  <2>5. Failed(row, i).deployments = ds /\ Failed(row, i).port = row.port
        /\ Failed(row, i) \in Row
    BY <2>1, <2>4 DEF Row
  <2> QED
    BY <2>2, <2>4, <2>5
<1> QED
  BY <1>2, <1>3

-----------------------------------------------------------------------------
(* What serialized changes preserve *)

SerialInv == db \in View /\ PortsDisjoint /\ HistoryAgrees

\* The newest deployment was rendered from the row's port, and one is applied.
Agrees(row) ==
  /\ \A i, j \in AppliedIndices(row.deployments) : i = j
  /\ row.deployments # <<>>
  /\ row.deployments[Len(row.deployments)].port = row.port

LEMMA HistoryByRow == HistoryAgrees <=> \A d \in Rows : Agrees(db[d])
BY DEF HistoryAgrees, Agrees

LEMMA AfterAgrees ==
  ASSUME NEW change \in Change, change.kind # "delete", NEW row \in Row \cup {NoRow, Gone},
         change.kind # "create" => row \in Row /\ Agrees(row)
  PROVE  Agrees(After(row, change))
<1>1. CASE change.kind = "create"
  BY <1>1 DEF After, Agrees, AppliedIndices, Draft
<1>2. CASE change.kind = "update"
  <2> DEFINE port == NewPort(row, change)
             ds == Append(row.deployments, Draft(port))
  <2>1. row.deployments \in Seq(Deployment)
    BY <1>2 DEF Row
  <2>2. After(row, change) = [port |-> port, deployments |-> ds]
    BY <1>2 DEF After
  <2>3. /\ DOMAIN ds = 1 .. Len(row.deployments) + 1
        /\ Len(ds) = Len(row.deployments) + 1
        /\ \A i \in DOMAIN row.deployments : ds[i] = row.deployments[i]
        /\ ds[Len(ds)] = [port |-> port, status |-> "draft"]
    BY <2>1 DEF Draft
  <2>4. AppliedIndices(ds) \subseteq AppliedIndices(row.deployments)
    BY <2>1, <2>3 DEF AppliedIndices
  <2>5. ds # <<>>
    <3>1. Len(ds) # 0
      BY <2>1, <2>3
    <3> HIDE DEF ds
    <3> QED
      BY <3>1
  <2> QED
    BY <1>2, <2>2, <2>3, <2>4, <2>5 DEF Agrees
<1>3. CASE change.kind = "apply"
  <2> DEFINE ds == row.deployments
             marked == MarkApplied(ds)
  <2>1. ds \in Seq(Deployment) /\ row \in Row /\ Agrees(row)
    BY <1>3 DEF Row
  <2>2. Len(ds) \in Nat \ {0} /\ DOMAIN ds = 1 .. Len(ds)
    BY <2>1 DEF Agrees
  <2>3. marked \in Seq(Deployment) /\ Len(marked) = Len(ds)
        /\ marked[Len(ds)].port = ds[Len(ds)].port
    BY <2>1, <2>2, MarkAppliedType
  <2>4. \A i \in 1 .. Len(ds) : i # Len(ds) => marked[i].status # "applied"
    BY <2>1, <2>2 DEF MarkApplied, Deployment
  <2>5. \A i \in AppliedIndices(marked) : i = Len(ds)
    BY <2>2, <2>3, <2>4 DEF AppliedIndices
  <2>6. After(row, change).deployments = marked /\ After(row, change).port = row.port
    BY <1>3, <2>1 DEF After, Row
  <2> QED
    BY <2>1, <2>2, <2>3, <2>5, <2>6 DEF Agrees
<1> QED
  BY <1>1, <1>2, <1>3 DEF Change

LEMMA FailedAgrees ==
  ASSUME NEW row \in Row, NEW i \in Nat, Agrees(row)
  PROVE  Agrees(Failed(row, i))
<1> DEFINE ds == row.deployments
           failed == Failed(row, i).deployments
<1>1. ds \in Seq(Deployment) /\ Len(ds) \in Nat \ {0} /\ DOMAIN ds = 1 .. Len(ds)
  BY DEF Row, Agrees
<1>2. failed \in Seq(Deployment) /\ Len(failed) = Len(ds)
  BY FailedType DEF Row
<1>3. AppliedIndices(failed) \subseteq AppliedIndices(ds)
  BY <1>1, <1>2, FailedType DEF AppliedIndices
<1>4. failed[Len(failed)].port = ds[Len(ds)].port /\ Failed(row, i).port = row.port
  BY <1>1, <1>2, FailedType
<1> QED
  BY <1>1, <1>2, <1>3, <1>4 DEF Agrees

\* A row changed to one that conflicts with no other keeps the ports disjoint.
LEMMA ChangedRow ==
  ASSUME SerialInv, NEW d \in Domain, NEW row \in Row \cup {Gone}, db' = [db EXCEPT ![d] = row],
         row \in Row => Agrees(row) /\ ~ Conflicts(db, d, row.port)
  PROVE  SerialInv'
<1>1. db' \in View
  BY DEF SerialInv, View
<1>2. \A e \in Domain : db'[e] = IF e = d THEN row ELSE db[e]
  BY DEF SerialInv, View
<1>3. \A e \in Rows' : e # d => e \in Rows
  BY <1>2 DEF Rows
<1>4. d \in Rows' => row \in Row
  BY <1>2 DEF Rows
<1>5. PortsDisjoint'
  <2> SUFFICES ASSUME NEW a \in Rows', NEW b \in Rows', a # b
               PROVE  db'[a].port # db'[b].port
    BY DEF PortsDisjoint
  <2>1. \A e \in Rows : e # d /\ row \in Row => db[e].port # row.port
    BY DEF Conflicts, Exists, Rows
  <2> QED
    BY <1>2, <1>3, <1>4, <2>1 DEF SerialInv, PortsDisjoint, Rows
<1>6. HistoryAgrees'
  BY <1>2, <1>3, <1>4 DEF SerialInv, HistoryAgrees, Agrees, Rows
<1> QED
  BY <1>1, <1>5, <1>6 DEF SerialInv

LEMMA RowOf ==
  ASSUME SerialInv, NEW d \in Rows
  PROVE  db[d] \in Row /\ Agrees(db[d]) /\ ~ Conflicts(db, d, db[d].port)
<1>1. db[d] \in Row
  BY DEF SerialInv, View, Rows
<1>2. ~ Conflicts(db, d, db[d].port)
  BY DEF SerialInv, PortsDisjoint, Conflicts, Exists, Rows
<1> QED
  BY <1>1, <1>2, HistoryByRow DEF SerialInv

LEMMA OperationKeepsInv ==
  ASSUME SerialInv, NEW change \in Change, Operation(change)
  PROVE  SerialInv'
<1> DEFINE d == change.dom
           row == After(db[d], change)
<1>0. d \in Domain /\ db[d] \in Row \cup {NoRow, Gone} /\ db' = [db EXCEPT ![d] = row]
  BY DEF SerialInv, View, Change, Operation
<1>1. change.kind # "create" => d \in Rows
  BY <1>0 DEF Operation, Missing, Exists, Rows
<1>2. change.kind # "create" => /\ db[d] \in Row /\ Agrees(db[d])
                                /\ ~ Conflicts(db, d, db[d].port)
  BY <1>1, RowOf
<1>3. row \in Row \cup {Gone}
  BY <1>0, <1>2, AfterType
<1>4. change.kind # "delete" => Agrees(row)
  BY <1>0, <1>2, AfterAgrees
<1>5. change.kind = "delete" => row = Gone
  BY DEF After
<1>6. ASSUME change.kind # "delete"
      PROVE  ~ Conflicts(db, d, row.port)
  <2>1. CASE change.kind = "create"
    BY <2>1 DEF Operation, Refused, After
  <2>2. CASE change.kind = "update"
    BY <2>2 DEF Operation, Refused, After
  <2>3. CASE change.kind = "apply"
    <3>1. row = [db[d] EXCEPT !.deployments = MarkApplied(@)]
      BY <2>3 DEF After
    <3>2. row.port = db[d].port
      BY <1>2, <2>3, <3>1 DEF Row
    <3> QED
      BY <1>2, <2>3, <3>2
  <2> QED
    BY <1>6, <2>1, <2>2, <2>3 DEF Change
<1> HIDE DEF d, row
<1> QED
  BY <1>0, <1>3, <1>4, <1>5, <1>6, NothingAssumption, ChangedRow

LEMMA FailedApplyKeepsInv ==
  ASSUME SerialInv, NEW d \in Domain, FailedApply(d)
  PROVE  SerialInv'
<1> DEFINE i == Len(db[d].deployments)
           row == Failed(db[d], i)
<1>1. d \in Rows
  BY DEF FailedApply, Exists, Rows
<1>2. db[d] \in Row /\ Agrees(db[d]) /\ ~ Conflicts(db, d, db[d].port)
  BY <1>1, RowOf
<1>3. i \in Nat
  BY <1>2 DEF Row
<1>4. row \in Row /\ row.port = db[d].port
  BY <1>2, <1>3, FailedType
<1>5. Agrees(row)
  BY <1>2, <1>3, FailedAgrees
<1>6. db' = [db EXCEPT ![d] = row]
  BY DEF FailedApply
<1> HIDE DEF row
<1> QED
  BY <1>2, <1>4, <1>5, <1>6, ChangedRow

LEMMA SerialStep == SerialInv /\ [SerialNext]_db => SerialInv'
<1> SUFFICES ASSUME SerialInv, [SerialNext]_db PROVE SerialInv'
  OBVIOUS
<1>1. CASE UNCHANGED db
  BY <1>1 DEF SerialInv, View, PortsDisjoint, HistoryAgrees, Rows
<1>2. CASE SerialNext
  BY <1>2, OperationKeepsInv, FailedApplyKeepsInv DEF SerialNext
<1> QED
  BY <1>1, <1>2

LEMMA SerialStart == SerialInit => SerialInv
BY DEF SerialInit, SerialInv, View, PortsDisjoint, HistoryAgrees, Rows

\* Operations made one after the other keep ports apart and every history in order
\* (check_conflicts, mark_applied).
THEOREM SerialKeepsInv == SerialSpec => []SerialInv
BY SerialStart, SerialStep, PTL DEF SerialSpec

-----------------------------------------------------------------------------
(* The types of RequestPipeline, whatever a statement sees *)

\* A request under way asks for something; one in the queue, for a change; and
\* an operation that commits works on a row, unless it creates it.
Good ==
  {q \in ReqType :
     /\ q.pc # "idle" => q.work \in Work /\ q.user \in User /\ q.status = 0
     /\ q.pc \in {"wait", "commit"} => q.work \in Change
     /\ q.pc = "commit" /\ q.work.kind # "create" => q.row \in Row}

CommitHolds ==
  \A r \in Request : Pc(r) = "commit" => queue # <<>> /\ Head(queue) = r

TypeInv ==
  /\ db \in View
  /\ users \in SUBSET User
  /\ req \in [Request -> Good]
  /\ queue \in Seq(Request)
  /\ CommitHolds

LEMMA UpdateKeepsGood ==
  ASSUME TypeInv, NEW r \in Request, NEW q \in Good, Update(r, q)
  PROVE  /\ req' \in [Request -> Good]
         /\ req'[r] = q
         /\ \A s \in Request \ {r} : req'[s] = req[s]
BY DEF TypeInv, Update

\* A request that leaves the queue as it is and does not begin to commit.
LEMMA StepOutside ==
  ASSUME TypeInv, NEW r \in Request, NEW q \in Good, Update(r, q), q.pc # "commit",
         db' = db, users' \in SUBSET User, queue' = queue
  PROVE  TypeInv'
<1>1. req' \in [Request -> Good] /\ req'[r] = q /\ \A s \in Request \ {r} : req'[s] = req[s]
  BY UpdateKeepsGood
<1>2. CommitHolds'
  BY <1>1 DEF TypeInv, CommitHolds, Pc
<1> QED
  BY <1>1, <1>2 DEF TypeInv

\* The holder of the lock answers and releases it.
LEMMA StepRelease ==
  ASSUME TypeInv, NEW r \in Request, NEW status \in Status, Answer(r, status), Holds(r), Release,
         db' \in View, users' = users
  PROVE  TypeInv'
<1> DEFINE q == [Idle EXCEPT !.status = status]
<1>1. q \in Good /\ q.pc = "idle" /\ Update(r, q)
  BY DEF Good, Idle, ReqType, Pcs, Answer
<1> HIDE DEF q
<1>2. req' \in [Request -> Good] /\ req'[r] = q /\ \A s \in Request \ {r} : req'[s] = req[s]
  BY <1>1, UpdateKeepsGood
<1>3. queue' \in Seq(Request)
  BY DEF TypeInv, Holds, Release
<1>4. CommitHolds'
  BY <1>1, <1>2 DEF TypeInv, CommitHolds, Pc, Holds
<1> QED
  BY <1>2, <1>3, <1>4 DEF TypeInv

LEMMA GoodRequest ==
  ASSUME TypeInv, NEW r \in Request
  PROVE  /\ req[r] \in Good
         /\ req[r].view = NoView => Seen(r) = db
         /\ Seen(r) \in View
         /\ Opened \in View \cup {NoView}
BY DEF TypeInv, Good, ReqType, Seen, Opened

\* A request that never reached the lock is answered.
LEMMA AnswerOutside ==
  ASSUME TypeInv, NEW r \in Request, NEW status \in Status, Answer(r, status),
         UNCHANGED <<db, users, queue>>
  PROVE  TypeInv'
<1> DEFINE q == [Idle EXCEPT !.status = status]
<1>1. q \in Good /\ q.pc # "commit" /\ Update(r, q)
  BY DEF Good, Idle, ReqType, Pcs, Answer
<1> HIDE DEF q
<1> QED
  BY <1>1, StepOutside DEF TypeInv

LEMMA ReceiveType ==
  ASSUME TypeInv, NEW r \in Request, Receive(r)
  PROVE  TypeInv'
<1>1. PICK user \in User, work \in Work :
        Update(r, [Idle EXCEPT !.pc = "token", !.user = user, !.work = work])
  BY AskedAssumption DEF Receive
<1> DEFINE q == [Idle EXCEPT !.pc = "token", !.user = user, !.work = work]
<1>2. q \in Good /\ q.pc # "commit"
  BY DEF Good, Idle, ReqType, Pcs, Status
<1> HIDE DEF q
<1> QED
  BY <1>1, <1>2, StepOutside DEF Receive, TypeInv, q

LEMMA BeforeType ==
  ASSUME TypeInv, NEW r \in Request, Before(r)
  PROVE  TypeInv'
<1>0. req[r] \in Good /\ Opened \in View \cup {NoView}
  BY GoodRequest
<1>1. CASE TokenRefused(r)
  <2>1. PICK status \in {401, 503} : Answer(r, status)
    BY <1>1 DEF TokenRefused
  <2> QED
    BY <1>1, <2>1, AnswerOutside DEF TokenRefused, Status
<1>2. CASE TokenVerified(r)
  <2> DEFINE q == [req[r] EXCEPT !.pc = "lookup"]
  <2>1. q \in Good /\ q.pc # "commit" /\ Update(r, q)
    BY <1>0, <1>2 DEF TokenVerified, Good, ReqType, Pcs, Pc
  <2> QED
    BY <1>2, <2>1, StepOutside DEF TokenVerified, TypeInv
<1>3. CASE GetUser(r)
  <2> DEFINE q == [req[r] EXCEPT !.pc = IF req[r].user \in users THEN "route" ELSE "insert",
                                 !.view = Opened]
  <2>1. q \in Good /\ q.pc # "commit" /\ Update(r, q)
    BY <1>0, <1>3 DEF GetUser, Good, ReqType, Pcs, Pc
  <2> QED
    BY <1>3, <2>1, StepOutside DEF GetUser, TypeInv
<1>4. CASE SaveUser(r)
  <2> DEFINE q == [req[r] EXCEPT !.pc = "route", !.view = NoView]
  <2>1. q \in Good /\ q.pc # "commit" /\ Update(r, q)
    BY <1>0, <1>4 DEF SaveUser, Good, ReqType, Pcs, Pc
  <2>2. users' \in SUBSET User
    BY <1>0, <1>4 DEF SaveUser, Good, TypeInv, Pc
  <2> QED
    BY <1>4, <2>1, <2>2, StepOutside DEF SaveUser
<1>5. CASE SaveUserFails(r)
  BY <1>5, AnswerOutside DEF SaveUserFails, Status
<1>6. CASE ReadDomain(r)
  <2>1. PICK status \in {200, 404} : Answer(r, status)
    BY <1>6 DEF ReadDomain
  <2> QED
    BY <1>6, <2>1, AnswerOutside DEF ReadDomain, Status
<1>7. CASE BadPayload(r)
  <2>1. PICK status \in {400, 415} : Answer(r, status)
    BY <1>7 DEF BadPayload
  <2> QED
    BY <1>7, <2>1, AnswerOutside DEF BadPayload, Status
<1>8. CASE Enqueue(r)
  <2> DEFINE q == [req[r] EXCEPT !.pc = "wait"]
  <2>1. q \in Good /\ q.pc # "commit" /\ Update(r, q)
    BY <1>0, <1>8 DEF Enqueue, Good, ReqType, Pcs, Pc, IsChange, Work, Read
  <2> HIDE DEF q
  <2>2. req' \in [Request -> Good] /\ req'[r] = q /\ \A s \in Request \ {r} : req'[s] = req[s]
    BY <2>1, UpdateKeepsGood
  <2>3. queue' \in Seq(Request) /\ queue' # <<>> /\ (queue # <<>> => Head(queue') = Head(queue))
    BY <1>8 DEF Enqueue, TypeInv
  <2>4. CommitHolds'
    BY <2>1, <2>2, <2>3 DEF TypeInv, CommitHolds, Pc
  <2> QED
    BY <1>8, <2>2, <2>3, <2>4 DEF Enqueue, TypeInv
<1> QED
  BY <1>1, <1>2, <1>3, <1>4, <1>5, <1>6, <1>7, <1>8 DEF Before

\* An update or an application makes a row with all the deployments there were.
LEMMA AfterKeeps ==
  ASSUME NEW before \in Row, NEW change \in Change, change.kind \in {"update", "apply"}
  PROVE  /\ After(before, change) \in Row
         /\ Len(before.deployments) <= Len(After(before, change).deployments)
<1> DEFINE after == After(before, change)
<1>1. after \in Row
  <2>1. CASE change.kind = "update"
    <3>1. NewPort(before, change) \in Port
      BY NewPortType
    <3>2. Draft(NewPort(before, change)) \in Deployment /\ before.deployments \in Seq(Deployment)
      BY <3>1, DraftType DEF Row
    <3>3. Append(before.deployments, Draft(NewPort(before, change))) \in Seq(Deployment)
      BY <3>2
    <3> QED
      BY <2>1, <3>1, <3>3 DEF After, Row
  <2>2. CASE change.kind = "apply"
    <3>1. MarkApplied(before.deployments) \in Seq(Deployment)
      BY MarkAppliedType DEF Row
    <3> QED
      BY <2>2, <3>1 DEF After, Row
  <2> QED
    BY <2>1, <2>2
<1>2. Len(before.deployments) <= Len(after.deployments)
  <2>1. CASE change.kind = "update"
    BY <2>1 DEF After, Row
  <2>2. CASE change.kind = "apply"
    BY <2>2, MarkAppliedType DEF After, Row
  <2> QED
    BY <2>1, <2>2
<1> QED
  BY <1>1, <1>2

\* What the flush of an update makes of the row as it is now.
LEMMA FlushedType ==
  ASSUME NEW current \in Row, NEW before \in Row, NEW change \in Change,
         change.kind \in {"update", "apply"}
  PROVE  Flushed(current, before, After(before, change)) \in Row
<1> DEFINE after == After(before, change)
           kept == [i \in DOMAIN current.deployments |->
                      IF i \in DOMAIN before.deployments /\ before.deployments[i] # after.deployments[i]
                      THEN after.deployments[i] ELSE current.deployments[i]]
           added == SubSeq(after.deployments, Len(before.deployments) + 1, Len(after.deployments))
<1>1. after \in Row
  BY AfterKeeps
<1>2. Len(before.deployments) <= Len(after.deployments)
  BY AfterKeeps
<1> HIDE DEF after
<1>3. kept \in Seq(Deployment)
  <2>1. \A i \in DOMAIN current.deployments : current.deployments[i] \in Deployment
    BY DEF Row
  <2>2. \A i \in DOMAIN before.deployments : after.deployments[i] \in Deployment
    BY <1>1, <1>2 DEF Row
  <2>3. kept \in [1 .. Len(current.deployments) -> Deployment]
    BY <2>1, <2>2 DEF Row
  <2> QED
    BY <2>3 DEF Row
<1>4. added \in Seq(Deployment)
  BY <1>1, <1>2 DEF Row
<1> HIDE DEF kept, added
<1>5. kept \o added \in Seq(Deployment)
  BY <1>3, <1>4
<1> QED
  BY <1>1, <1>5 DEF Flushed, Row, after, kept, added

LEMMA CommittedType ==
  ASSUME TypeInv, NEW r \in Request, Pc(r) = "commit",
         req[r].work.kind \in {"create", "delete"} \/ Exists(db, Target(r))
  PROVE  [db EXCEPT ![Target(r)] = Committed(r)] \in View
<1> DEFINE change == req[r].work
           row == req[r].row
<1>1. /\ req[r] \in Good /\ change \in Change /\ row \in Row \cup {NoRow, Gone}
      /\ change.kind # "create" => row \in Row
  BY GoodRequest DEF Good, ReqType, Pc
<1>2. Target(r) \in Domain
  BY <1>1 DEF Change, Target
<1>3. CASE change.kind \in {"create", "delete"}
  <2>1. After(row, change) \in Row \cup {Gone}
    BY <1>1, AfterType
  <2> QED
    BY <1>2, <1>3, <2>1 DEF Committed, TypeInv, View
<1>4. CASE change.kind \in {"update", "apply"}
  <2>1. db[Target(r)] \in Row
    BY <1>2, <1>4 DEF TypeInv, View, Exists
  <2>2. row \in Row
    BY <1>1, <1>4
  <2>3. Flushed(db[Target(r)], row, After(row, change)) \in Row
    BY <1>1, <1>4, <2>1, <2>2, FlushedType
  <2> QED
    BY <1>2, <1>4, <2>3 DEF Committed, TypeInv, View, Target
<1> QED
  BY <1>1, <1>3, <1>4 DEF Change

LEMMA FailedView ==
  ASSUME NEW rows \in View, NEW d \in Domain, NEW i \in Nat, Exists(rows, d)
  PROVE  [rows EXCEPT ![d] = Failed(@, i)] \in View
<1>1. rows[d] \in Row
  BY DEF View, Exists
<1>2. Failed(rows[d], i) \in Row
  BY <1>1, FailedType
<1> QED
  BY <1>2 DEF View

LEMMA LockedType ==
  ASSUME TypeInv, NEW r \in Request, Locked(r)
  PROVE  TypeInv'
<1>0. req[r] \in Good /\ Seen(r) \in View /\ db \in View
  BY GoodRequest DEF TypeInv
<1>1. CASE Reject(r)
  <2>1. PICK status \in {404, 409, 400} : Answer(r, status)
    BY <1>1 DEF Reject
  <2> QED
    BY <1>0, <1>1, <2>1, StepRelease DEF Reject, Status
<1>2. CASE Load(r)
  <2> DEFINE q == [req[r] EXCEPT !.pc = "commit", !.row = Seen(r)[Target(r)]]
  <2>1. req[r].work \in Change /\ Target(r) \in Domain
    BY <1>0, <1>2 DEF Load, Good, Pc, Target, Change
  <2>2. Seen(r)[Target(r)] \in Row \cup {NoRow, Gone}
    BY <1>0, <2>1 DEF View
  <2>3. req[r].work.kind # "create" => Seen(r)[Target(r)] \in Row
    BY <1>2, <2>2 DEF Load, Missing, Exists, Target
  <2>4. q \in Good /\ q.pc = "commit" /\ Update(r, q)
    BY <1>0, <1>2, <2>1, <2>2, <2>3 DEF Load, Good, ReqType, Pcs, Pc
  <2> HIDE DEF q
  <2>5. req' \in [Request -> Good] /\ req'[r] = q /\ \A s \in Request \ {r} : req'[s] = req[s]
    BY <2>4, UpdateKeepsGood
  <2>6. CommitHolds'
    BY <1>2, <2>5 DEF Load, TypeInv, CommitHolds, Pc, Holds
  <2> QED
    BY <1>2, <2>5, <2>6 DEF Load, TypeInv
<1>3. CASE Commit(r)
  <2>1. db' \in View
    BY <1>3, CommittedType DEF Commit
  <2>2. PICK status \in {200, 201} : Answer(r, status)
    BY <1>3 DEF Commit
  <2>3. Holds(r) /\ Release /\ users' = users /\ status \in Status
    BY <1>3 DEF Commit, Status
  <2> QED
    BY <2>1, <2>2, <2>3, StepRelease
<1>4. CASE CommitFails(r)
  <2>1. PICK rows \in MaybeCommitted(r) :
          \/ db' = rows /\ Answer(r, 500)
          \/ req[r].work.kind = "delete" /\ db' = rows /\ Answer(r, 502)
          \/ /\ req[r].work.kind = "apply" /\ Exists(rows, Target(r))
             /\ db' = [rows EXCEPT ![Target(r)] = Failed(@, Len(req[r].row.deployments))]
             /\ \E status \in {500, 502} : Answer(r, status)
    BY <1>4 DEF CommitFails
  <2>2. rows \in View
    BY <1>0, <1>4, CommittedType DEF CommitFails, MaybeCommitted
  <2>3. db' \in View
    <3>1. CASE req[r].work.kind = "apply" /\ Exists(rows, Target(r))
      <4>1. req[r].row \in Row /\ Target(r) \in Domain
        BY <1>0, <1>4, <3>1 DEF CommitFails, Good, Pc, Target, Change, Work, Read
      <4>2. Len(req[r].row.deployments) \in Nat
        BY <4>1 DEF Row
      <4> QED
        BY <2>1, <2>2, <3>1, <4>1, <4>2, FailedView
    <3>2. CASE ~ (req[r].work.kind = "apply" /\ Exists(rows, Target(r)))
      BY <2>1, <2>2, <3>2
    <3> QED
      BY <3>1, <3>2
  <2>4. PICK status \in {500, 502} : Answer(r, status)
    BY <2>1
  <2> QED
    BY <1>4, <2>3, <2>4, StepRelease DEF CommitFails, Status
<1>5. CASE NginxFails(r)
  <2>1. db' \in View
    <3>1. CASE req[r].work.kind = "apply" /\ Exists(db, Target(r))
      <4>1. req[r].row \in Row /\ Target(r) \in Domain
        BY <1>0, <1>5, <3>1 DEF NginxFails, Good, Pc, Target, Change, Work, Read
      <4>2. Len(req[r].row.deployments) \in Nat
        BY <4>1 DEF Row
      <4> QED
        BY <1>0, <1>5, <3>1, <4>1, <4>2, FailedView DEF NginxFails
    <3>2. CASE ~ (req[r].work.kind = "apply" /\ Exists(db, Target(r)))
      BY <1>0, <1>5, <3>2 DEF NginxFails
    <3> QED
      BY <3>1, <3>2
  <2>2. Answer(r, 502)
    BY <1>5 DEF NginxFails
  <2> QED
    BY <1>5, <2>1, <2>2, StepRelease DEF NginxFails, Status
<1> QED
  BY <1>1, <1>2, <1>3, <1>4, <1>5 DEF Locked

LEMMA TypeInit == Init => TypeInv
BY DEF Init, SerialInit, TypeInv, View, Good, ReqType, Pcs, Idle, Status, CommitHolds, Pc

LEMMA TypeStep == TypeInv /\ [Next]_vars => TypeInv'
<1> SUFFICES ASSUME TypeInv, [Next]_vars PROVE TypeInv'
  OBVIOUS
<1>1. CASE UNCHANGED vars
  BY <1>1 DEF vars, TypeInv, CommitHolds, Pc
<1>2. CASE Next
  BY <1>2, ReceiveType, BeforeType, LockedType DEF Next
<1> QED
  BY <1>1, <1>2

\* TypeOK, with what holds of a request at each of its places: inductive.
THEOREM TypeInvariant == Spec => []TypeInv
BY TypeInit, TypeStep, PTL DEF Spec

\* Every variable holds a value of its type, whatever the database shows a
\* statement of a transaction (all of middlewares.py and the serialized
\* operations).
THEOREM RequestTypeCorrect == Spec => []TypeOK
<1>1. TypeInv => TypeOK
  BY DEF TypeInv, TypeOK, Good, ReqType, Pcs
<1> QED
  BY <1>1, TypeInvariant, PTL

-----------------------------------------------------------------------------
(* Statements that read the rows committed last *)

\* The row a committing operation has loaded is the committed one, and passed
\* its checks as it is.
Current ==
  \A r \in Request :
    /\ req[r].view = NoView
    /\ Pc(r) = "commit" => /\ req[r].row = db[Target(r)]
                           /\ ~ Missing(db, req[r].work)
                           /\ ~ Refused(db, req[r].work)

Creating(r) == Pc(r) # "idle" /\ req[r].work.kind = "create"

\* The id of a row to be created is nobody else's.
Fresh ==
  \A r \in Request :
    Creating(r) => /\ db[Target(r)] = NoRow
                   /\ \A s \in Request \ {r} : Creating(s) => Target(s) # Target(r)

CurrentInv == TypeInv /\ SerialInv /\ Current /\ Fresh

\* A sequence is its beginning and the rest.
LEMMA Rejoined ==
  ASSUME NEW S, NEW new \in Seq(S), NEW kept \in Seq(S), Len(kept) <= Len(new),
         \A i \in 1 .. Len(kept) : kept[i] = new[i]
  PROVE  kept \o SubSeq(new, Len(kept) + 1, Len(new)) = new
<1> DEFINE rest == SubSeq(new, Len(kept) + 1, Len(new))
           both == kept \o rest
<1>0. Len(kept) \in Nat /\ Len(new) \in Nat
  OBVIOUS
<1>1. /\ rest \in Seq(S) /\ Len(rest) = Len(new) - Len(kept)
      /\ \A i \in 1 .. Len(new) - Len(kept) : rest[i] = new[Len(kept) + i]
  OBVIOUS
<1> HIDE DEF rest
<1>2. /\ both \in Seq(S) /\ Len(both) = Len(new)
      /\ \A i \in 1 .. Len(new) : both[i] = IF i <= Len(kept) THEN kept[i] ELSE rest[i - Len(kept)]
  BY <1>1
<1> HIDE DEF both
<1>3. ASSUME NEW i \in 1 .. Len(new)
      PROVE  both[i] = new[i]
  <2>1. CASE i <= Len(kept)
    BY <1>2, <2>1
  <2>2. CASE i > Len(kept)
    <3>1. i - Len(kept) \in 1 .. Len(new) - Len(kept) /\ Len(kept) + (i - Len(kept)) = i
      BY <1>0, <2>2
    <3>2. rest[i - Len(kept)] = new[i]
      BY <1>1, <3>1
    <3> QED
      BY <1>2, <2>2, <3>2
  <2> QED
    BY <2>1, <2>2
<1>4. both = new
  BY <1>2, <1>3, SeqEqual
<1> QED
  BY <1>4 DEF both, rest

\* The flush of changes made to the row as it is writes the changed row.
LEMMA FlushOfCurrent ==
  ASSUME NEW row \in Row, NEW after \in Row, Len(row.deployments) <= Len(after.deployments)
  PROVE  Flushed(row, row, after) = after
<1> DEFINE old == row.deployments
           new == after.deployments
           kept == [i \in DOMAIN old |->
                      IF i \in DOMAIN old /\ old[i] # new[i] THEN new[i] ELSE old[i]]
<1>1. /\ old \in Seq(Deployment) /\ Len(old) \in Nat /\ DOMAIN old = 1 .. Len(old)
      /\ new \in Seq(Deployment) /\ Len(new) \in Nat /\ DOMAIN new = 1 .. Len(new)
      /\ Len(old) <= Len(new)
  BY DEF Row
<1>2. kept \in [1 .. Len(old) -> Deployment] /\ \A i \in 1 .. Len(old) : kept[i] = new[i]
  BY <1>1
<1>3. kept \in Seq(Deployment) /\ Len(kept) = Len(old)
  BY <1>1, <1>2
<1> HIDE DEF kept, old, new
<1>4. kept \o SubSeq(new, Len(old) + 1, Len(new)) = new
  BY <1>1, <1>2, <1>3, Rejoined
<1>5. after = [port |-> after.port, deployments |-> new]
  BY DEF Row, new
<1>6. (IF after.port # row.port THEN after.port ELSE row.port) = after.port
  OBVIOUS
<1>7. Flushed(row, row, after) = [port |-> IF after.port # row.port THEN after.port ELSE row.port,
                                  deployments |-> kept \o SubSeq(new, Len(old) + 1, Len(new))]
  BY Zenon DEF Flushed, kept, old, new
<1> QED
  BY <1>4, <1>5, <1>6, <1>7

\* What an operation writes is what it makes of the committed row.
LEMMA CommittedIsAfter ==
  ASSUME CurrentInv, NEW r \in Request, Pc(r) = "commit"
  PROVE  Committed(r) = After(db[Target(r)], req[r].work)
<1> DEFINE change == req[r].work
<1>1. change \in Change /\ req[r].row = db[change.dom] /\ ~ Missing(db, change)
  BY GoodRequest DEF CurrentInv, Current, Good, Pc, Target
<1>2. CASE change.kind \in {"create", "delete"}
  BY <1>1, <1>2 DEF Committed, Target
<1>3. CASE change.kind \in {"update", "apply"}
  <2>1. db[change.dom] \in Row
    BY <1>1, <1>3 DEF Missing, Exists, CurrentInv, TypeInv, View, Change
  <2>2. /\ After(db[change.dom], change) \in Row
        /\ Len(db[change.dom].deployments) <= Len(After(db[change.dom], change).deployments)
    BY <1>1, <1>3, <2>1, AfterKeeps
  <2>3. Flushed(db[change.dom], db[change.dom], After(db[change.dom], change))
          = After(db[change.dom], change)
    BY <2>1, <2>2, FlushOfCurrent
  <2> QED
    BY <1>1, <1>3, <2>3 DEF Committed, Target
<1> QED
  BY <1>1, <1>2, <1>3 DEF Change

\* What an operation commits is an operation of SerialRegistry.
LEMMA CommittedIsOperation ==
  ASSUME CurrentInv, NEW r \in Request, Pc(r) = "commit",
         db' = [db EXCEPT ![Target(r)] = Committed(r)]
  PROVE  req[r].work \in Change /\ Operation(req[r].work)
<1> DEFINE change == req[r].work
<1>1. change \in Change /\ ~ Missing(db, change) /\ ~ Refused(db, change)
  BY GoodRequest DEF CurrentInv, Current, Good, Pc, Target
<1>2. change.kind = "create" => db[change.dom] = NoRow
  BY DEF CurrentInv, Fresh, Creating, Target
<1> QED
  BY <1>1, <1>2, CommittedIsAfter DEF Operation, Target

LEMMA FailureIsFailedApply ==
  ASSUME CurrentInv, NEW r \in Request, Pc(r) = "commit", Exists(db, Target(r)),
         db' = [db EXCEPT ![Target(r)] = Failed(@, Len(req[r].row.deployments))]
  PROVE  Target(r) \in Domain /\ FailedApply(Target(r))
<1>1. req[r].work \in Change /\ req[r].row = db[Target(r)]
  BY GoodRequest DEF CurrentInv, Current, Good, Pc, Target
<1> QED
  BY <1>1 DEF FailedApply, Target, Change

\* A failed application leaves a deployment that is applied as it is.
LEMMA FailedAfterApply ==
  ASSUME NEW row \in Row, row.deployments # <<>>, NEW change \in Change, change.kind = "apply"
  PROVE  Failed(After(row, change), Len(row.deployments)) = After(row, change)
<1> DEFINE n == Len(row.deployments)
           marked == MarkApplied(row.deployments)
<1>1. row.deployments \in Seq(Deployment) /\ n \in Nat \ {0} /\ DOMAIN row.deployments = 1 .. n
  BY DEF Row
<1>2. row.deployments[n] \in Deployment
  BY <1>1
<1>3. marked[n].status = "applied"
  BY <1>1, <1>2 DEF MarkApplied, Deployment
<1>4. After(row, change).deployments = marked
  BY DEF After, Row
<1> QED
  BY <1>3, <1>4 DEF Failed

\* What a commit that raised has left is what the operation makes, or nothing, or
\* the record of an application that failed.
LEMMA FailedCommit ==
  ASSUME CurrentInv, NEW r \in Request, CommitFails(r)
  PROVE  /\ req[r].work \in Change
         /\ \/ UNCHANGED db
            \/ Operation(req[r].work)
            \/ req[r].work.kind = "apply" /\ FailedApply(Target(r))
<1> DEFINE d == Target(r)
           change == req[r].work
           made == [db EXCEPT ![d] = Committed(r)]
           n == Len(req[r].row.deployments)
<1>1. /\ change \in Change /\ d \in Domain /\ req[r].row = db[d]
      /\ ~ Missing(db, change) /\ ~ Refused(db, change)
  BY GoodRequest DEF CurrentInv, Current, Good, Pc, Target, Change, CommitFails
<1>2. PICK rows \in MaybeCommitted(r) :
        \/ db' = rows /\ Answer(r, 500)
        \/ req[r].work.kind = "delete" /\ db' = rows /\ Answer(r, 502)
        \/ /\ req[r].work.kind = "apply" /\ Exists(rows, Target(r))
           /\ db' = [rows EXCEPT ![Target(r)] = Failed(@, Len(req[r].row.deployments))]
           /\ \E status \in {500, 502} : Answer(r, status)
  BY DEF CommitFails
<1>3. CASE db' = made
  BY <1>1, <1>3, CommittedIsOperation DEF CommitFails
<1>4. CASE change.kind = "apply" /\ Exists(db, d) /\ db' = [db EXCEPT ![d] = Failed(@, n)]
  BY <1>1, <1>4, FailureIsFailedApply DEF CommitFails
<1>5. CASE change.kind = "apply" /\ db' = [made EXCEPT ![d] = Failed(@, n)]
  <2>1. db[d] \in Row /\ db[d].deployments # <<>>
    BY <1>1, <1>5 DEF Missing, Exists, Target, CurrentInv, SerialInv, View, HistoryAgrees, Rows
  <2>2. Committed(r) = After(db[d], change)
    BY <1>1, <1>5, <2>1, CommittedIsAfter DEF CommitFails
  <2>3. Failed(Committed(r), n) = Committed(r)
    BY <1>1, <1>5, <2>1, <2>2, FailedAfterApply
  <2>4. made[d] = Committed(r) /\ db' = made
    BY <1>1, <1>5, <2>3 DEF CurrentInv, TypeInv, View
  <2> QED
    BY <1>1, <2>4, CommittedIsOperation DEF CommitFails
<1>6. rows = db \/ rows = made
  BY DEF MaybeCommitted
<1> QED
  BY <1>1, <1>2, <1>3, <1>4, <1>5, <1>6

LEMMA StepIsSerial ==
  ASSUME CurrentInv, NEW r \in Request, Receive(r) \/ Before(r) \/ Locked(r)
  PROVE  [SerialNext]_db
<1>1. CASE Receive(r) \/ Before(r)
  BY <1>1 DEF Receive, Before, TokenRefused, TokenVerified, GetUser, SaveUser, SaveUserFails,
              ReadDomain, BadPayload, Enqueue
<1>2. CASE Reject(r) \/ Load(r)
  BY <1>2 DEF Reject, Load
<1>3. CASE Commit(r)
  BY <1>3, CommittedIsOperation DEF Commit, SerialNext
<1>4. CASE CommitFails(r)
  BY <1>4, FailedCommit DEF SerialNext, Target, Change
<1>5. CASE NginxFails(r)
  BY <1>5, FailureIsFailedApply DEF NginxFails, SerialNext
<1> QED
  BY <1>1, <1>2, <1>3, <1>4, <1>5 DEF Locked

\* A step of a request under way answers it, or keeps what it asks for.
LEMMA StepOfRequest ==
  ASSUME TypeInv, NEW r \in Request, Before(r) \/ Locked(r)
  PROVE  /\ \A s \in Request \ {r} : req'[s] = req[s]
         /\ Pc(r) # "idle"
         /\ \/ req'[r].pc = "idle" /\ req'[r].view = NoView
            \/ /\ req'[r].pc # "idle" /\ req'[r].work = req[r].work
               /\ req'[r].view \in {req[r].view, Opened, NoView}
         /\ req'[r].pc = "commit" => Load(r)
<1>0. req \in [Request -> Good] /\ req[r] \in Good
  BY DEF TypeInv
<1>1. CASE TokenRefused(r) \/ SaveUserFails(r) \/ ReadDomain(r) \/ BadPayload(r) \/ Reject(r)
           \/ Commit(r) \/ CommitFails(r) \/ NginxFails(r)
  <2>1. Pc(r) # "idle"
    BY <1>1 DEF TokenRefused, SaveUserFails, ReadDomain, BadPayload, Reject, Commit,
                CommitFails, NginxFails
  <2>2. \E status : Answer(r, status)
    BY <1>1 DEF TokenRefused, SaveUserFails, ReadDomain, BadPayload, Reject, Commit,
                CommitFails, NginxFails
  <2> QED
    BY <1>0, <2>1, <2>2 DEF Answer, Update, Idle
<1>2. CASE TokenVerified(r)
  BY <1>0, <1>2 DEF TokenVerified, Update, Good, ReqType, Pc
<1>3. CASE GetUser(r)
  BY <1>0, <1>3 DEF GetUser, Update, Good, ReqType, Pc
<1>4. CASE SaveUser(r)
  BY <1>0, <1>4 DEF SaveUser, Update, Good, ReqType, Pc
<1>5. CASE Enqueue(r)
  BY <1>0, <1>5 DEF Enqueue, Update, Good, ReqType, Pc
<1>6. CASE Load(r)
  BY <1>0, <1>6 DEF Load, Update, Good, ReqType, Pc
<1> QED
  BY <1>1, <1>2, <1>3, <1>4, <1>5, <1>6 DEF Before, Locked

\* What the requests other than r are, they stay.
LEMMA OthersStay ==
  ASSUME TypeInv, NEW r \in Request, Receive(r) \/ Before(r) \/ Locked(r)
  PROVE  \A s \in Request \ {r} : req'[s] = req[s]
BY StepOfRequest DEF TypeInv, Receive, Update

\* Only the row of a committing request changes.
LEMMA RowsStay ==
  ASSUME TypeInv, NEW r \in Request, Receive(r) \/ Before(r) \/ Locked(r)
  PROVE  \/ UNCHANGED db
         \/ /\ Pc(r) = "commit" /\ Holds(r) /\ req'[r].pc = "idle"
            /\ \A d \in Domain \ {Target(r)} : db'[d] = db[d]
<1>1. CASE Receive(r) \/ Before(r) \/ Reject(r) \/ Load(r)
  BY <1>1 DEF Receive, Before, TokenRefused, TokenVerified, GetUser, SaveUser,
              SaveUserFails, ReadDomain, BadPayload, Enqueue, Reject, Load
<1>2. CASE Commit(r) \/ CommitFails(r) \/ NginxFails(r)
  BY <1>2 DEF TypeInv, View, Commit, CommitFails, MaybeCommitted, NginxFails, Answer, Update, Idle
<1> QED
  BY <1>1, <1>2 DEF Locked

LEMMA CurrentStep ==
  ASSUME CurrentInv, ~ Snapshot, NEW r \in Request, Receive(r) \/ Before(r) \/ Locked(r)
  PROVE  Current'
<1> SUFFICES ASSUME NEW s \in Request
             PROVE  /\ req'[s].view = NoView
                    /\ req'[s].pc = "commit" => /\ req'[s].row = db'[req'[s].work.dom]
                                                /\ ~ Missing(db', req'[s].work)
                                                /\ ~ Refused(db', req'[s].work)
  BY DEF Current, Pc, Target
<1>1. req[s].view = NoView /\ Seen(s) = db
  BY DEF CurrentInv, Current, Seen
<1>2. CASE s # r
  <2>1. req'[s] = req[s]
    BY <1>2, OthersStay DEF CurrentInv
  <2>2. Pc(s) = "commit" => UNCHANGED db
    BY <1>2, RowsStay DEF CurrentInv, TypeInv, CommitHolds, Holds
  <2> QED
    BY <2>1, <2>2 DEF CurrentInv, Current, Pc, Target
<1>3. CASE s = r
  <2>1. CASE Load(r)
    <3>1. req' = [req EXCEPT ![r] = [req[r] EXCEPT !.pc = "commit", !.row = db[Target(r)]]]
      BY <1>1, <1>3, <2>1 DEF Load, Update
    <3>2. /\ req'[r].work = req[r].work /\ req'[r].view = req[r].view
          /\ req'[r].row = db[Target(r)]
      BY <3>1, GoodRequest DEF CurrentInv, TypeInv, Good, ReqType
    <3>3. db' = db /\ ~ Missing(db, req[r].work) /\ ~ Refused(db, req[r].work)
      BY <1>1, <1>3, <2>1 DEF Load
    <3> QED
      BY <1>1, <1>3, <3>2, <3>3 DEF Target
  <2>2. CASE ~ Load(r)
    <3>1. req[r] \in Good /\ req[r].view = NoView /\ Opened = NoView
      BY <1>1, <1>3, GoodRequest DEF CurrentInv, Opened
    <3>2. CASE Receive(r)
      BY <1>3, <3>2 DEF Receive, Update, Idle, CurrentInv, TypeInv
    <3>3. CASE Before(r) \/ Locked(r)
      BY <1>3, <2>2, <3>1, <3>3, StepOfRequest DEF CurrentInv
    <3> QED
      BY <3>2, <3>3
  <2> QED
    BY <2>1, <2>2
<1> QED
  BY <1>2, <1>3

LEMMA FreshStep ==
  ASSUME CurrentInv, NEW r \in Request, Receive(r) \/ Before(r) \/ Locked(r)
  PROVE  Fresh'
<1>1. CASE Receive(r)
  <2>1. PICK user \in User, work \in Work :
          Admitted(work) /\ Update(r, [Idle EXCEPT !.pc = "token", !.user = user, !.work = work])
    BY <1>1, AskedAssumption DEF Receive
  <2>2. /\ req'[r].work = work
        /\ \A s \in Request \ {r} : req'[s] = req[s]
        /\ db' = db
    BY <1>1, <2>1 DEF Receive, Update, Idle, CurrentInv, TypeInv
  <2>3. work.kind = "create" =>
          /\ db[work.dom] = NoRow
          /\ \A s \in Request : Creating(s) => Target(s) # work.dom
    BY <2>1 DEF Admitted, Adding, Creating
  <2> QED
    BY <2>2, <2>3 DEF CurrentInv, Fresh, Creating, Pc, Target
<1>2. CASE Before(r) \/ Locked(r)
  <2>1. \A s \in Request \ {r} : req'[s] = req[s]
    BY <1>2, OthersStay DEF CurrentInv
  <2>2. req'[r].pc = "idle" \/ (Pc(r) # "idle" /\ req'[r].work = req[r].work)
    BY <1>2, StepOfRequest DEF CurrentInv
  <2>3. \A s \in Request : Creating(s)' => Creating(s) /\ req'[s].work = req[s].work
    BY <2>1, <2>2 DEF Creating, Pc
  <2>4. ASSUME NEW s \in Request, Creating(s)'
        PROVE  db'[Target(s)] = db[Target(s)]
    <3>1. Creating(s) /\ Target(s) \in Domain /\ db[Target(s)] = NoRow
      BY <2>3, <2>4, GoodRequest DEF CurrentInv, Fresh, Creating, Good, Pc, Target, Work, Change, Read
    <3>2. CASE UNCHANGED db
      BY <3>2
    <3>3. CASE ~ UNCHANGED db
      <4>1. Pc(r) = "commit" /\ req'[r].pc = "idle" /\ \A d \in Domain \ {Target(r)} : db'[d] = db[d]
        BY <1>2, <3>3, RowsStay DEF CurrentInv
      <4>2. s # r
        BY <2>4, <4>1 DEF Creating, Pc
      <4>3. Target(s) # Target(r)
        <5>1. CASE Creating(r)
          BY <3>1, <4>2, <5>1 DEF CurrentInv, Fresh
        <5>2. CASE ~ Creating(r)
          <6>1. Exists(db, Target(r))
            BY <4>1, <5>2 DEF CurrentInv, Current, Creating, Missing, Target
          <6> QED
            BY <3>1, <6>1 DEF Exists
        <5> QED
          BY <5>1, <5>2
      <4> QED
        BY <3>1, <4>1, <4>3
    <3> QED
      BY <3>2, <3>3
  <2> QED
    BY <2>3, <2>4 DEF CurrentInv, Fresh, Target
<1> QED
  BY <1>1, <1>2

LEMMA CurrentInvariant ==
  ASSUME ~ Snapshot
  PROVE  Spec => []CurrentInv
<1>1. Init => SerialInv /\ Current /\ Fresh
  BY SerialStart DEF Init, Idle, Current, Fresh, Creating, Pc
<1>2. CurrentInv /\ [Next]_vars => (SerialInv /\ Current /\ Fresh)'
  <2> SUFFICES ASSUME CurrentInv, [Next]_vars PROVE (SerialInv /\ Current /\ Fresh)'
    OBVIOUS
  <2>1. CASE UNCHANGED vars
    <3>1. (Current /\ Fresh)'
      BY <2>1 DEF vars, CurrentInv, Current, Fresh, Creating, Pc, Target
    <3>2. SerialInv'
      BY <2>1, SerialStep DEF vars, CurrentInv
    <3> QED
      BY <3>1, <3>2
  <2>2. CASE Next
    <3>1. (Current /\ Fresh)'
      BY <2>2, CurrentStep, FreshStep DEF Next
    <3>2. SerialInv'
      BY <2>2, StepIsSerial, SerialStep DEF Next, CurrentInv
    <3> QED
      BY <3>1, <3>2
  <2> QED
    BY <2>1, <2>2
<1>3. CurrentInv <=> TypeInv /\ SerialInv /\ Current /\ Fresh
  BY DEF CurrentInv
<1> QED
  BY <1>1, <1>2, <1>3, TypeInvariant, PTL DEF Spec

\* README.md:88, all changes are serialized: where a statement reads the rows
\* committed last, requests in any interleaving change the rows as operations
\* made one after the other do (serialized, errors_middleware, jwt_middleware).
THEOREM PipelineIsSerial ==
  ASSUME ~ Snapshot
  PROVE  Spec => SerialSpec
<1>1. Init => SerialInit
  BY DEF Init
<1>2. CurrentInv /\ [Next]_vars => [SerialNext]_db
  <2> SUFFICES ASSUME CurrentInv, [Next]_vars PROVE [SerialNext]_db
    OBVIOUS
  <2>1. CASE UNCHANGED vars
    BY <2>1 DEF vars
  <2>2. CASE Next
    BY <2>2, StepIsSerial DEF Next
  <2> QED
    BY <2>1, <2>2
<1> QED
  BY <1>1, <1>2, CurrentInvariant, PTL DEF Spec, SerialSpec

\* README.md:104: no two rows ever have one listen port (check_conflicts).
THEOREM PipelinePortsDisjoint ==
  ASSUME ~ Snapshot
  PROVE  Spec => []PortsDisjoint
<1>1. SerialInv => PortsDisjoint
  BY DEF SerialInv
<1> QED
  BY <1>1, PipelineIsSerial, SerialKeepsInv, PTL

\* At most one deployment of a row is applied, and the newest shows the row's
\* port (mark_applied, update_domain).
THEOREM PipelineHistoryAgrees ==
  ASSUME ~ Snapshot
  PROVE  Spec => []HistoryAgrees
<1>1. SerialInv => HistoryAgrees
  BY DEF SerialInv
<1> QED
  BY <1>1, PipelineIsSerial, SerialKeepsInv, PTL

\* The answers to requests that do not hold the lock, and the refusals of those
\* that do, change no row.
LEMMA AnsweredEarly ==
  ASSUME TypeInv, NEW r \in Request, Receive(r) \/ Before(r) \/ Reject(r) \/ Load(r),
         Pc(r) # "idle", req'[r].pc = "idle"
  PROVE  /\ UNCHANGED db
         /\ req[r].work.kind # "read" => req'[r].status \notin {200, 201}
<1>0. req \in [Request -> Good] /\ req[r] \in Good
  BY DEF TypeInv
<1>1. UNCHANGED db
  BY DEF Receive, Before, TokenRefused, TokenVerified, GetUser, SaveUser, SaveUserFails,
         ReadDomain, BadPayload, Enqueue, Reject, Load
<1>2. CASE TokenRefused(r) \/ SaveUserFails(r) \/ BadPayload(r) \/ Reject(r)
  <2>1. \E status \in {400, 401, 404, 409, 415, 503} : Answer(r, status)
    BY <1>2 DEF TokenRefused, SaveUserFails, BadPayload, Reject
  <2> QED
    BY <1>0, <1>1, <2>1 DEF Answer, Update, Idle
<1>3. CASE ReadDomain(r)
  BY <1>1, <1>3 DEF ReadDomain, IsChange
<1>4. CASE Receive(r)
  BY <1>4 DEF Receive
<1>5. CASE TokenVerified(r)
  BY <1>0, <1>5 DEF TokenVerified, Update, Good, ReqType
<1>6. CASE GetUser(r)
  BY <1>0, <1>6 DEF GetUser, Update, Good, ReqType
<1>7. CASE SaveUser(r)
  BY <1>0, <1>7 DEF SaveUser, Update, Good, ReqType
<1>8. CASE Enqueue(r)
  BY <1>0, <1>8 DEF Enqueue, Update, Good, ReqType
<1>9. CASE Load(r)
  BY <1>0, <1>9 DEF Load, Update, Good, ReqType
<1> QED
  BY <1>2, <1>3, <1>4, <1>5, <1>6, <1>7, <1>8, <1>9 DEF Before

\* An answer says what has happened to the rows (create_domain, update_domain,
\* apply_domain, delete, errors_middleware).
THEOREM PipelineAnswersAreTrue ==
  ASSUME ~ Snapshot
  PROVE  Spec => AnswersAreTrue
<1> DEFINE True(r) ==
      LET work == req[r].work
          status == req'[r].status
      IN  (Pc(r) # "idle" /\ req'[r].pc = "idle") =>
            CASE work.kind # "read" /\ status \in {200, 201} -> Operation(work)
              [] status \in {500, 502} ->
                   \/ UNCHANGED db
                   \/ Operation(work)
                   \/ work.kind = "apply" /\ FailedApply(work.dom)
              [] OTHER -> UNCHANGED db
<1>1. CurrentInv /\ [Next]_vars => [\A r \in Request : True(r)]_vars
  <2> SUFFICES ASSUME CurrentInv, NEW s \in Request, Receive(s) \/ Before(s) \/ Locked(s),
                      NEW r \in Request, Pc(r) # "idle", req'[r].pc = "idle"
               PROVE  True(r)
    BY DEF Next
  <2>1. s = r
    BY OthersStay DEF CurrentInv, Pc
  <2>2. req[r] \in Good /\ req \in [Request -> Good]
    BY GoodRequest DEF CurrentInv, TypeInv
  <2>3. CASE Receive(r) \/ Before(r) \/ Reject(r) \/ Load(r)
    BY <2>3, AnsweredEarly DEF CurrentInv
  <2>4. CASE Commit(r)
    <3>1. req[r].work.kind # "read" /\ Operation(req[r].work) /\ req'[r].status \in {200, 201}
      BY <2>2, <2>4, CommittedIsOperation DEF Commit, Answer, Update, Idle, Change
    <3> QED
      BY <3>1
  <2>5. CASE CommitFails(r)
    <3>1. req'[r].status \in {500, 502}
      BY <2>2, <2>5 DEF CommitFails, Answer, Update, Idle
    <3> QED
      BY <2>5, <3>1, FailedCommit DEF Target
  <2>6. CASE NginxFails(r)
    <3>1. UNCHANGED db \/ (req[r].work.kind = "apply" /\ FailedApply(Target(r)))
      BY <2>6, FailureIsFailedApply DEF NginxFails
    <3>2. req'[r].status = 502
      BY <2>2, <2>6 DEF NginxFails, Answer, Update, Idle
    <3> QED
      BY <3>1, <3>2 DEF Target
  <2> QED
    BY <2>1, <2>3, <2>4, <2>5, <2>6 DEF Locked
<1>2. AnswersAreTrue <=> [][\A r \in Request : True(r)]_vars
  BY DEF AnswersAreTrue
<1> QED
  BY <1>1, <1>2, CurrentInvariant, PTL DEF Spec

-----------------------------------------------------------------------------
(* The queue of the lock, whatever a statement sees *)

InQueue(r) == Pc(r) \in {"wait", "commit"}

\* The steps that only a session with an old snapshot makes.
Stale(r) == CommitStale(r) \/ NginxFailsStale(r)

LEMMA StaleStep ==
  ASSUME TypeInv, NEW r \in Request, Stale(r)
  PROVE  TypeInv' /\ \A s \in Request \ {r} : req'[s] = req[s]
<1>1. PICK status \in {404, 409, 500} : Answer(r, status)
  BY DEF Stale, CommitStale, NginxFailsStale
<1>2. Holds(r) /\ Release /\ db' = db /\ users' = users /\ status \in Status
  BY DEF Stale, CommitStale, NginxFailsStale, Status
<1>3. TypeInv'
  BY <1>1, <1>2, StepRelease DEF TypeInv
<1>4. \A s \in Request \ {r} : req'[s] = req[s]
  BY <1>1 DEF TypeInv, Answer, Update
<1> QED
  BY <1>3, <1>4

\* How a step of r may treat the queue: leave it, join its end, or, as its head,
\* leave its front.
LEMMA QueueMoves ==
  ASSUME TypeInv, NEW r \in Request, Receive(r) \/ Before(r) \/ Locked(r) \/ Stale(r)
  PROVE  \/ queue' = queue /\ (InQueue(r)' <=> InQueue(r))
         \/ queue' = Append(queue, r) /\ ~ InQueue(r) /\ InQueue(r)'
         \/ Holds(r) /\ queue' = Tail(queue) /\ ~ InQueue(r)'
<1>0. req \in [Request -> Good] /\ req[r] \in Good
  BY DEF TypeInv
<1>1. CASE Receive(r)
  BY <1>0, <1>1 DEF Receive, Update, Idle, InQueue, Pc
<1>2. CASE TokenRefused(r) \/ SaveUserFails(r) \/ ReadDomain(r) \/ BadPayload(r)
  <2>1. queue' = queue /\ ~ InQueue(r)
    BY <1>2 DEF TokenRefused, SaveUserFails, ReadDomain, BadPayload, InQueue
  <2>2. \E status : Answer(r, status)
    BY <1>2 DEF TokenRefused, SaveUserFails, ReadDomain, BadPayload
  <2>3. ~ InQueue(r)'
    BY <1>0, <2>2 DEF Answer, Update, Idle, InQueue, Pc
  <2> QED
    BY <2>1, <2>3
<1>3. CASE TokenVerified(r) \/ GetUser(r) \/ SaveUser(r)
  <2>1. queue' = queue /\ ~ InQueue(r)
    BY <1>3 DEF TokenVerified, GetUser, SaveUser, InQueue
  <2>2. req'[r].pc \in {"lookup", "route", "insert"}
    BY <1>0, <1>3 DEF TokenVerified, GetUser, SaveUser, Update, Good, ReqType
  <2> QED
    BY <2>1, <2>2 DEF InQueue, Pc
<1>4. CASE Enqueue(r)
  BY <1>0, <1>4 DEF Enqueue, Update, Good, ReqType, InQueue, Pc
<1>5. CASE Load(r)
  BY <1>0, <1>5 DEF Load, Update, Good, ReqType, InQueue, Pc
<1>6. CASE Reject(r) \/ Commit(r) \/ CommitFails(r) \/ NginxFails(r) \/ Stale(r)
  <2>1. Holds(r) /\ queue' = Tail(queue)
    BY <1>6 DEF Reject, Commit, CommitFails, NginxFails, Stale, CommitStale, NginxFailsStale, Release
  <2>2. \E status : Answer(r, status)
    BY <1>6 DEF Reject, Commit, CommitFails, NginxFails, Stale, CommitStale, NginxFailsStale
  <2>3. ~ InQueue(r)'
    BY <1>0, <2>2 DEF Answer, Update, Idle, InQueue, Pc
  <2> QED
    BY <2>1, <2>3
<1> QED
  BY <1>1, <1>2, <1>3, <1>4, <1>5, <1>6 DEF Before, Locked

LEMMA QueueStep ==
  ASSUME TypeInv, WaitersAreQueued, NEW r \in Request,
         Receive(r) \/ Before(r) \/ Locked(r) \/ Stale(r)
  PROVE  WaitersAreQueued'
<1>0. queue \in Seq(Request) /\ Len(queue) \in Nat /\ DOMAIN queue = 1 .. Len(queue)
  BY DEF TypeInv
<1>1. \A s \in Request \ {r} : (InQueue(s)' <=> InQueue(s))
  BY OthersStay, StaleStep DEF InQueue, Pc
<1>2. \A s \in Request : InQueue(s) <=> \E i \in DOMAIN queue : queue[i] = s
  BY DEF WaitersAreQueued, InQueue
<1>3. \A i, j \in DOMAIN queue : queue[i] = queue[j] => i = j
  BY DEF WaitersAreQueued
<1> SUFFICES /\ \A s \in Request : InQueue(s)' <=> \E i \in DOMAIN queue' : queue'[i] = s
             /\ \A i, j \in DOMAIN queue' : queue'[i] = queue'[j] => i = j
  BY DEF WaitersAreQueued, InQueue
<1>4. CASE queue' = queue /\ (InQueue(r)' <=> InQueue(r))
  BY <1>1, <1>2, <1>3, <1>4
<1>5. CASE queue' = Append(queue, r) /\ ~ InQueue(r) /\ InQueue(r)'
  <2> DEFINE n == Len(queue) + 1
  <2>1. /\ DOMAIN queue' = 1 .. n
        /\ \A i \in DOMAIN queue : queue'[i] = queue[i]
        /\ queue'[n] = r
    BY <1>0, <1>5
  <2>2. \A i \in DOMAIN queue : queue[i] # r
    BY <1>2, <1>5
  <2>3. \A i \in DOMAIN queue' : i \in DOMAIN queue \/ i = n
    BY <1>0, <2>1
  <2>4. DOMAIN queue \subseteq DOMAIN queue' /\ n \in DOMAIN queue' /\ n \notin DOMAIN queue
    BY <1>0, <2>1
  <2> HIDE DEF n
  <2>5. ASSUME NEW s \in Request
        PROVE  InQueue(s)' <=> \E i \in DOMAIN queue' : queue'[i] = s
    <3>1. CASE s = r
      BY <1>5, <2>1, <2>4, <3>1
    <3>2. CASE s # r
      BY <1>1, <1>2, <2>1, <2>3, <2>4, <3>2
    <3> QED
      BY <3>1, <3>2
  <2>6. \A i, j \in DOMAIN queue' : queue'[i] = queue'[j] => i = j
    BY <1>3, <2>1, <2>2, <2>3
  <2> QED
    BY <2>5, <2>6
<1>6. CASE Holds(r) /\ queue' = Tail(queue) /\ ~ InQueue(r)'
  <2>1. queue # <<>> /\ Len(queue) >= 1 /\ queue[1] = r
    BY <1>0, <1>6 DEF Holds
  <2>2. /\ DOMAIN queue' = 1 .. Len(queue) - 1
        /\ \A i \in 1 .. Len(queue) - 1 : queue'[i] = queue[i + 1]
    BY <1>0, <1>6, <2>1
  <2>3. \A i \in DOMAIN queue' : i \in Nat /\ i + 1 \in DOMAIN queue /\ i + 1 # 1
    BY <1>0, <2>2
  <2>4. \A i \in DOMAIN queue : i # 1 => i - 1 \in DOMAIN queue' /\ queue'[i - 1] = queue[i]
    BY <1>0, <2>2
  <2>5. ASSUME NEW s \in Request
        PROVE  InQueue(s)' <=> \E i \in DOMAIN queue' : queue'[i] = s
    <3>1. CASE s = r
      <4>1. \A i \in DOMAIN queue' : queue'[i] # r
        BY <1>0, <1>3, <2>1, <2>2, <2>3
      <4> QED
        BY <1>6, <3>1, <4>1
    <3>2. CASE s # r
      <4>1. ASSUME NEW i \in DOMAIN queue', queue'[i] = s
            PROVE  InQueue(s)'
        BY <1>1, <1>2, <2>2, <2>3, <3>2, <4>1
      <4>2. ASSUME InQueue(s)'
            PROVE  \E i \in DOMAIN queue' : queue'[i] = s
        <5>1. PICK i \in DOMAIN queue : queue[i] = s
          BY <1>1, <1>2, <3>2, <4>2
        <5>2. i - 1 \in DOMAIN queue' /\ queue'[i - 1] = s
          BY <2>1, <2>4, <3>2, <5>1
        <5> QED
          BY <5>2
      <4> QED
        BY <4>1, <4>2
    <3> QED
      BY <3>1, <3>2
  <2>6. ASSUME NEW i \in DOMAIN queue', NEW j \in DOMAIN queue', queue'[i] = queue'[j]
        PROVE  i = j
    <3>1. i + 1 = j + 1
      BY <1>3, <2>2, <2>3, <2>6
    <3> QED
      BY <2>3, <3>1
  <2> QED
    BY <2>5, <2>6
<1> QED
  BY <1>4, <1>5, <1>6, QueueMoves

LEMMA QueueInit == Init => WaitersAreQueued
BY DEF Init, Idle, WaitersAreQueued, Pc

\* Whoever waits for the lock has one place in its queue, and whoever is done has
\* none, however it ended: the lock passes on (serialized).
THEOREM LockPassesOn == Spec => []WaitersAreQueued
<1>1. TypeInv /\ WaitersAreQueued /\ [Next]_vars => WaitersAreQueued'
  <2> SUFFICES ASSUME TypeInv, WaitersAreQueued, [Next]_vars PROVE WaitersAreQueued'
    OBVIOUS
  <2>1. CASE UNCHANGED vars
    BY <2>1 DEF vars, WaitersAreQueued, Pc
  <2>2. CASE Next
    BY <2>2, QueueStep DEF Next
  <2> QED
    BY <2>1, <2>2
<1> QED
  BY <1>1, QueueInit, TypeInvariant, PTL DEF Spec

\* The same where a transaction reads from a snapshot: a commit that meets a row
\* that is gone passes the lock on too (errors_middleware, serialized).
THEOREM SnapshotLockPassesOn == SnapshotSpec => [](TypeInv /\ WaitersAreQueued)
<1> DEFINE SnapshotNext == Next \/ \E r \in Request : CommitStale(r) \/ NginxFailsStale(r)
<1>1. Init => TypeInv
  BY TypeInit
<1>2. TypeInv /\ WaitersAreQueued /\ [SnapshotNext]_vars => TypeInv' /\ WaitersAreQueued'
  <2> SUFFICES ASSUME TypeInv, WaitersAreQueued, [SnapshotNext]_vars
               PROVE  TypeInv' /\ WaitersAreQueued'
    OBVIOUS
  <2>1. CASE UNCHANGED vars
    BY <2>1 DEF vars, TypeInv, CommitHolds, WaitersAreQueued, Pc
  <2>2. CASE Next
    BY <2>2, TypeStep, QueueStep DEF Next
  <2>3. ASSUME NEW r \in Request, Stale(r)
        PROVE  TypeInv' /\ WaitersAreQueued'
    BY <2>3, StaleStep, QueueStep
  <2> QED
    BY <2>1, <2>2, <2>3 DEF Stale
<1> QED
  BY <1>1, <1>2, QueueInit, PTL DEF SnapshotSpec
=============================================================================
