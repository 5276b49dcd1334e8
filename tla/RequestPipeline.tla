--------------------------- MODULE RequestPipeline ---------------------------
(***************************************************************************)
(* The way of an API request through backend/utils/middlewares.py and      *)
(* backend/routes/domains.py to the DomainService and back: the token, the *)
(* user's row, created by the first request, the lock with its waiters,    *)
(* and a database session that belongs to the request.                     *)
(*                                                                         *)
(* The session's transaction begins at the first statement, the lookup of  *)
(* the user, long before the lock is held.  What a statement sees then     *)
(* depends on the database: SQLite, whose driver opens no transaction for  *)
(* a SELECT, shows each one the rows committed last; MySQL's repeatable    *)
(* read shows all of them the rows of the first one.  Either way an UPDATE *)
(* writes the columns the session has changed to the row as it is now.     *)
(* Spec is complete where no snapshot is read; SnapshotSpec adds what else *)
(* may happen where one is.                                                *)
(***************************************************************************)
EXTENDS SerialRegistry, FiniteSets

CONSTANTS
  Request,    \* requests in flight at one time
  User,       \* uids of verified tokens
  Asked,      \* what clients ask for
  Snapshot,   \* whether a transaction reads from the snapshot of its first statement
  NoUser, NoWork, NoView

Read == [kind : {"read"}, dom : Domain]
Work == Change \cup Read
View == [Domain -> Row \cup {NoRow, Gone}]

ASSUME AskedAssumption == Asked \subseteq Work
ASSUME SnapshotAssumption == Snapshot \in BOOLEAN
ASSUME AbsentAssumption == NoUser \notin User /\ NoWork \notin Work /\ NoView \notin View

VARIABLES
  users,   \* committed rows of the users table
  req,     \* each request: where it is, what it asks, its session
  queue    \* the asyncio lock: its holder, then its waiters in their order

vars == <<db, users, req, queue>>

Idle == [pc |-> "idle", user |-> NoUser, work |-> NoWork, view |-> NoView,
         row |-> NoRow, status |-> 0]

Init ==
  /\ SerialInit
  /\ users = {}
  /\ req = [r \in Request |-> Idle]
  /\ queue = <<>>

Pc(r) == req[r].pc
Target(r) == req[r].work.dom
IsChange(r) == req[r].work.kind # "read"
Update(r, fields) == req' = [req EXCEPT ![r] = fields]

\* The answer ends the session: whatever it has not committed is rolled back.
Answer(r, status) == Update(r, [Idle EXCEPT !.status = status])

\* What a statement of the request sees.
Seen(r) == IF req[r].view = NoView THEN db ELSE req[r].view
Opened == IF Snapshot THEN db ELSE NoView

-----------------------------------------------------------------------------
(* A request arrives *)

\* Requests under way that add a deployment to the row.
Adding(d) ==
  {r \in Request : Pc(r) # "idle" /\ req[r].work.kind \in {"create", "update"} /\ Target(r) = d}

Kept(d) == IF Exists(db, d) THEN Len(db[d].deployments) ELSE 0

\* Bound: an id is asked for once, and histories stay within MaxDeployments.
Admitted(work) ==
  /\ work.kind = "create" => db[work.dom] = NoRow /\ Adding(work.dom) = {}
  /\ work.kind \in {"create", "update"} =>
       Kept(work.dom) + Cardinality(Adding(work.dom)) < MaxDeployments

Receive(r) ==
  /\ Pc(r) = "idle"
  /\ \E user \in User, work \in Asked :
       /\ Admitted(work)
       /\ Update(r, [Idle EXCEPT !.pc = "token", !.user = user, !.work = work])
  /\ UNCHANGED <<db, users, queue>>

\* No bearer token, one that is refused, or no answer from the key server.
TokenRefused(r) ==
  /\ Pc(r) = "token"
  /\ \E status \in {401, 503} : Answer(r, status)
  /\ UNCHANGED <<db, users, queue>>

TokenVerified(r) ==
  /\ Pc(r) = "token"
  /\ Update(r, [req[r] EXCEPT !.pc = "lookup"])
  /\ UNCHANGED <<db, users, queue>>

\* AuthService.get_user opens the transaction of the session.
GetUser(r) ==
  /\ Pc(r) = "lookup"
  /\ Update(r, [req[r] EXCEPT !.pc = IF req[r].user \in users THEN "route" ELSE "insert",
                              !.view = Opened])
  /\ UNCHANGED <<db, users, queue>>

\* User.save commits: the next statement begins another transaction.
SaveUser(r) ==
  /\ Pc(r) = "insert"
  /\ req[r].user \notin users
  /\ users' = users \cup {req[r].user}
  /\ Update(r, [req[r] EXCEPT !.pc = "route", !.view = NoView])
  /\ UNCHANGED <<db, queue>>

\* Another request of this user has inserted the row since: an IntegrityError.
SaveUserFails(r) ==
  /\ Pc(r) = "insert"
  /\ req[r].user \in users
  /\ Answer(r, 409)
  /\ UNCHANGED <<db, users, queue>>

-----------------------------------------------------------------------------
(* Reads take no lock *)

ReadDomain(r) ==
  /\ Pc(r) = "route"
  /\ ~ IsChange(r)
  /\ Answer(r, IF Exists(Seen(r), Target(r)) THEN 200 ELSE 404)
  /\ UNCHANGED <<db, users, queue>>

-----------------------------------------------------------------------------
(* Changes: serialized(method) *)

\* A body that is no JSON object is refused before the lock.
BadPayload(r) ==
  /\ Pc(r) = "route"
  /\ req[r].work.kind \in {"create", "update"}
  /\ \E status \in {400, 415} : Answer(r, status)
  /\ UNCHANGED <<db, users, queue>>

Enqueue(r) ==
  /\ Pc(r) = "route"
  /\ IsChange(r)
  /\ queue' = Append(queue, r)
  /\ Update(r, [req[r] EXCEPT !.pc = "wait"])
  /\ UNCHANGED <<db, users>>

Holds(r) == queue # <<>> /\ Head(queue) = r
Release == queue' = Tail(queue)

\* Mutation of Reject: an exception leaves the lock taken.
RejectAndKeepLock(r) ==
  /\ Pc(r) = "wait"
  /\ Holds(r)
  /\ \/ Missing(Seen(r), req[r].work) /\ Answer(r, 404)
     \/ ~ Missing(Seen(r), req[r].work) /\ Refused(Seen(r), req[r].work) /\ Answer(r, 409)
     \/ Answer(r, 400)
  /\ UNCHANGED <<db, users, queue>>

\* DomainNotFound, ConflictError, or a ValueError of the operation's own.
Reject(r) ==
  /\ Pc(r) = "wait"
  /\ Holds(r)
  /\ \/ Missing(Seen(r), req[r].work) /\ Answer(r, 404)
     \/ ~ Missing(Seen(r), req[r].work) /\ Refused(Seen(r), req[r].work) /\ Answer(r, 409)
     \/ Answer(r, 400)
  /\ Release
  /\ UNCHANGED <<db, users>>

\* Mutation of Load: the checks are made before the lock is held.
LoadUnlocked(r) ==
  /\ Pc(r) = "wait"
  /\ ~ Missing(Seen(r), req[r].work)
  /\ ~ Refused(Seen(r), req[r].work)
  /\ Update(r, [req[r] EXCEPT !.pc = "commit", !.row = Seen(r)[Target(r)]])
  /\ UNCHANGED <<db, users, queue>>

\* The rows the operation works on are those its session sees.
Load(r) ==
  /\ Pc(r) = "wait"
  /\ Holds(r)
  /\ ~ Missing(Seen(r), req[r].work)
  /\ ~ Refused(Seen(r), req[r].work)
  /\ Update(r, [req[r] EXCEPT !.pc = "commit", !.row = Seen(r)[Target(r)]])
  /\ UNCHANGED <<db, users, queue>>

\* The flush: of the row as it is now, what the session has changed is written.
Flushed(current, before, after) ==
  [port |-> IF after.port # before.port THEN after.port ELSE current.port,
   deployments |->
     [i \in DOMAIN current.deployments |->
        IF i \in DOMAIN before.deployments /\ before.deployments[i] # after.deployments[i]
        THEN after.deployments[i] ELSE current.deployments[i]]
     \o SubSeq(after.deployments, Len(before.deployments) + 1, Len(after.deployments))]

\* A row that is gone is inserted, or deleted, or deleted again.
Committed(r) ==
  LET work == req[r].work
      after == After(req[r].row, work)
  IN  IF work.kind \in {"create", "delete"} THEN after
      ELSE Flushed(db[work.dom], req[r].row, after)

Commit(r) ==
  /\ Pc(r) = "commit"
  /\ Holds(r)
  /\ req[r].work.kind \in {"create", "delete"} \/ Exists(db, Target(r))
  /\ db' = [db EXCEPT ![Target(r)] = Committed(r)]
  /\ Answer(r, IF req[r].work.kind = "create" THEN 201 ELSE 200)
  /\ Release
  /\ UNCHANGED users

\* Mutation of CommitFails: the answer does not wait for the commit.
CommitFailsUnnoticed(r) ==
  /\ Pc(r) = "commit"
  /\ Holds(r)
  /\ Answer(r, 200)
  /\ Release
  /\ UNCHANGED <<db, users>>

\* The rows a commit that raised has left: it did not reach the database, or it did.
MaybeCommitted(r) ==
  IF req[r].work.kind \in {"create", "delete"} \/ Exists(db, Target(r))
  THEN {db, [db EXCEPT ![Target(r)] = Committed(r)]} ELSE {db}

\* The commit fails, or its answer is lost after it reached the database.  Inside
\* transaction, an OSError of the commit and a recovery that fails as well are
\* NginxOperationErrors: delete answers 502, and apply first records the failure,
\* or fails at that too.
CommitFails(r) ==
  /\ Pc(r) = "commit"
  /\ Holds(r)
  /\ \E rows \in MaybeCommitted(r) :
       \/ db' = rows /\ Answer(r, 500)
       \/ req[r].work.kind = "delete" /\ db' = rows /\ Answer(r, 502)
       \/ /\ req[r].work.kind = "apply" /\ Exists(rows, Target(r))
          /\ db' = [rows EXCEPT ![Target(r)] = Failed(@, Len(req[r].row.deployments))]
          /\ \E status \in {500, 502} : Answer(r, status)
  /\ Release
  /\ UNCHANGED users

\* Mutation of NginxFails: the failure is committed together with what
\* mark_applied had changed.
NginxFailsWithoutRollback(r) ==
  /\ Pc(r) = "commit"
  /\ Holds(r)
  /\ req[r].work.kind = "apply"
  /\ LET marked == MarkApplied(req[r].row.deployments)
     IN  db' = [db EXCEPT ![Target(r)].deployments = [marked EXCEPT ![Len(marked)].status = "error"]]
  /\ Answer(r, 502)
  /\ Release
  /\ UNCHANGED users

\* nginx refused: apply records it on the deployment it had loaded, in a
\* transaction of its own.
NginxFails(r) ==
  /\ Pc(r) = "commit"
  /\ Holds(r)
  /\ \/ /\ req[r].work.kind = "apply" /\ Exists(db, Target(r))
        /\ db' = [db EXCEPT ![Target(r)] = Failed(@, Len(req[r].row.deployments))]
        /\ Answer(r, 502)
     \/ req[r].work.kind = "delete" /\ UNCHANGED db /\ Answer(r, 502)
  /\ Release
  /\ UNCHANGED users

-----------------------------------------------------------------------------
Before(r) ==
  \/ TokenRefused(r) \/ TokenVerified(r) \/ GetUser(r) \/ SaveUser(r) \/ SaveUserFails(r)
  \/ ReadDomain(r) \/ BadPayload(r) \/ Enqueue(r)

Locked(r) ==
  Reject(r) \/ Load(r) \/ Commit(r) \/ CommitFails(r) \/ NginxFails(r)

Next == \E r \in Request : Receive(r) \/ Before(r) \/ Locked(r)

Spec == Init /\ [][Next]_vars

\* The event loop runs every task that can go on.
Fairness == \A r \in Request : WF_vars(Before(r) \/ Locked(r))

FairSpec == Spec /\ Fairness

-----------------------------------------------------------------------------
(* Sessions with an old snapshot meet rows that are gone *)

\* An UPDATE that matches no row, or a deployment of a row that is gone.
CommitStale(r) ==
  /\ Pc(r) = "commit"
  /\ Holds(r)
  /\ req[r].work.kind \in {"update", "apply"}
  /\ ~ Exists(db, Target(r))
  /\ \E status \in {409, 500} : Answer(r, status)
  /\ Release
  /\ UNCHANGED <<db, users>>

\* nginx refused as well: the row is not found when that is to be recorded.
NginxFailsStale(r) ==
  /\ Pc(r) = "commit"
  /\ Holds(r)
  /\ req[r].work.kind = "apply"
  /\ ~ Exists(db, Target(r))
  /\ Answer(r, 404)
  /\ Release
  /\ UNCHANGED <<db, users>>

SnapshotSpec ==
  Init /\ [][Next \/ \E r \in Request : CommitStale(r) \/ NginxFailsStale(r)]_vars

-----------------------------------------------------------------------------
(* Properties *)

Status == {0, 200, 201, 400, 401, 404, 409, 415, 500, 502, 503}

\* Every variable holds a value of its type.
TypeOK ==
  /\ db \in View
  /\ users \in SUBSET User
  /\ req \in [Request -> [pc : {"idle", "token", "lookup", "insert", "route", "wait", "commit"},
                          user : User \cup {NoUser}, work : Work \cup {NoWork},
                          view : View \cup {NoView}, row : Row \cup {NoRow, Gone},
                          status : Status]]
  /\ queue \in Seq(Request)

\* Whoever asks for the lock, or holds it, has one place in its queue, and nobody
\* else has: however a change ends, it has passed the lock on (serialized).
WaitersAreQueued ==
  /\ \A r \in Request : Pc(r) \in {"wait", "commit"} <=> \E i \in DOMAIN queue : queue[i] = r
  /\ \A i, j \in DOMAIN queue : queue[i] = queue[j] => i = j

\* What an answer tells of the rows.  Success: the operation was made, as a whole,
\* by the checks of that moment.  500 and 502 leave open whether it was, but it was
\* made as a whole or not at all, and then only the failure of an application is
\* recorded.  Any other answer, and any answer to a read, has changed no row
\* (create_domain, update_domain, apply_domain, delete, errors_middleware).
AnswersAreTrue ==
  [][ \A r \in Request :
        LET work == req[r].work
            status == req'[r].status
        IN  (Pc(r) # "idle" /\ req'[r].pc = "idle") =>
              CASE work.kind # "read" /\ status \in {200, 201} -> Operation(work)
                [] status \in {500, 502} ->
                     \/ UNCHANGED db
                     \/ Operation(work)
                     \/ work.kind = "apply" /\ FailedApply(work.dom)
                [] OTHER -> UNCHANGED db ]_vars

\* Every request is answered, whatever the others do and however they fail
\* (serialized, asyncio.Lock).
Answered == \A r \in Request : (Pc(r) # "idle") ~> (Pc(r) = "idle")

=============================================================================
