------------------------ MODULE DomainServiceProofs ------------------------
(***************************************************************************)
(* Proofs about DomainService, for any set of domains, names, ports and    *)
(* payloads, any length of history and any number of incidents.            *)
(***************************************************************************)
EXTENDS DomainService, TLAPS

\* What every row of the database satisfies.
RowOK(row) ==
  /\ row \in Row
  /\ Len(row.deployments) > 0
  /\ \A i, j \in AppliedIndices(row) : i = j
  /\ row.enabled => HasApplied(row)
  /\ Latest(row).text.cfg = row.cfg

-----------------------------------------------------------------------------
(* Rows *)

LEMMA DeploymentAt ==
  ASSUME NEW row, RowOK(row), NEW i \in Indices(row)
  PROVE  row.deployments[i] \in Deployment
BY DEF RowOK, Row, Indices

LEMMA LatestType ==
  ASSUME NEW row, RowOK(row)
  PROVE  Latest(row) \in Deployment
BY DEF RowOK, Row, Latest

\* applied_deployment is one of the history's deployments.
LEMMA AppliedType ==
  ASSUME NEW row, RowOK(row), HasApplied(row)
  PROVE  Applied(row) \in Deployment
<1> DEFINE I == AppliedIndices(row)
           m == CHOOSE i \in I : \A j \in I : j <= i
<1>1. PICK k \in I : TRUE
  BY DEF HasApplied
<1>2. k \in Nat /\ \A j \in I : j = k
  BY <1>1 DEF RowOK, AppliedIndices, Indices, Row
<1>3. \A j \in I : j <= k
  BY <1>2
<1>4. m \in I
  BY <1>1, <1>3
<1>5. m \in Indices(row)
  BY <1>4 DEF AppliedIndices
<1>6. QED
  BY <1>5, DeploymentAt DEF Applied

LEMMA MarkAppliedFacts ==
  ASSUME NEW s \in Seq(Deployment), Len(s) > 0
  PROVE  /\ MarkApplied(s) \in Seq(Deployment)
         /\ Len(MarkApplied(s)) = Len(s)
         /\ \A i \in 1..Len(s) : /\ MarkApplied(s)[i].text = s[i].text
                                 /\ MarkApplied(s)[i].status = "applied" <=> i = Len(s)
<1>1. \A i \in 1..Len(s) : s[i] \in Deployment
  OBVIOUS
<1>2. \A i \in 1..Len(s) : /\ MarkApplied(s)[i] \in Deployment
                           /\ MarkApplied(s)[i].text = s[i].text
                           /\ MarkApplied(s)[i].status = "applied" <=> i = Len(s)
  BY <1>1 DEF MarkApplied, Deployment
<1>3. DOMAIN MarkApplied(s) = 1..Len(s)
  BY DEF MarkApplied
<1>4. MarkApplied(s) \in Seq(Deployment) /\ Len(MarkApplied(s)) = Len(s)
  BY <1>2, <1>3 DEF MarkApplied
<1>5. QED
  BY <1>2, <1>4

LEMMA UpdatedTextType ==
  ASSUME NEW row, RowOK(row), NEW cfg \in Payload
  PROVE  UpdatedText(row, cfg) \in Text /\ UpdatedText(row, cfg).cfg = cfg
<1>1. CASE ActiveSsl(row) /\ cfg.type = "hostname"
  <2>1. Applied(row) \in Deployment
    BY <1>1, AppliedType DEF ActiveSsl
  <2>2. QED
    BY <1>1, <2>1 DEF UpdatedText, ActiveSsl, Deployment, Text
<1>2. CASE ~ (ActiveSsl(row) /\ cfg.type = "hostname")
  BY <1>2 DEF UpdatedText, Plain, Text
<1>3. QED
  BY <1>1, <1>2

\* Appending a deployment that is not applied keeps the row in order.
LEMMA AppendDraft ==
  ASSUME NEW row, RowOK(row), NEW text \in Text,
         NEW r \in Row, r.cfg = text.cfg, r.enabled = row.enabled,
         r.deployments = Append(row.deployments, [text |-> text, status |-> "draft"])
  PROVE  RowOK(r) /\ Slots(r) = Slots(row) \cup {SlotOf(text.cfg)}
<1> DEFINE s == row.deployments
           n == Len(s)
<1>1. s \in Seq(Deployment) /\ n \in Nat /\ n > 0
  BY DEF RowOK, Row
<1>2. DOMAIN r.deployments = 1..(n + 1) /\ Len(r.deployments) = n + 1
  BY <1>1
<1>3. /\ \A i \in 1..n : r.deployments[i] = s[i]
      /\ r.deployments[n + 1] = [text |-> text, status |-> "draft"]
  BY <1>1
<1>4. AppliedIndices(r) = AppliedIndices(row)
  BY <1>1, <1>2, <1>3 DEF AppliedIndices, Indices
<1>5. Latest(r).text.cfg = r.cfg
  BY <1>2, <1>3 DEF Latest
<1>6. Slots(r) = Slots(row) \cup {SlotOf(text.cfg)}
  <2>1. Indices(r) = Indices(row) \cup {n + 1}
    BY <1>1, <1>2 DEF Indices
  <2>2. \A i \in Indices(row) : r.deployments[i] = s[i]
    BY <1>1, <1>3 DEF Indices
  <2>3. \A i \in Indices(row) : SlotOf(r.deployments[i].text.cfg) = SlotOf(s[i].text.cfg)
    BY <2>2
  <2>4. r.deployments[n + 1].text.cfg = text.cfg
    BY <1>3
  <2>5. SlotOf(r.deployments[n + 1].text.cfg) = SlotOf(text.cfg)
    BY <2>4
  <2> HIDE DEF s, n
  <2>6. Slots(r) \subseteq Slots(row) \cup {SlotOf(text.cfg)}
    BY <2>1, <2>3, <2>5, Zenon DEF Slots, s
  <2>7. Slots(row) \subseteq Slots(r) /\ SlotOf(text.cfg) \in Slots(r)
    BY <2>1, <2>3, <2>5, Zenon DEF Slots, s
  <2>8. QED
    BY <2>6, <2>7
<1>7. QED
  BY <1>1, <1>2, <1>4, <1>5, <1>6 DEF RowOK, HasApplied

\* Marking the newest deployment applied keeps the row in order.
LEMMA ApplyNewest ==
  ASSUME NEW row, RowOK(row), NEW r \in Row, r.cfg = row.cfg,
         r.deployments = MarkApplied(row.deployments)
  PROVE  RowOK(r) /\ Slots(r) = Slots(row)
<1> DEFINE s == row.deployments
<1>1. s \in Seq(Deployment) /\ Len(s) > 0 /\ Len(s) \in Nat
  BY DEF RowOK, Row
<1>2. /\ DOMAIN r.deployments = 1..Len(s)
      /\ DOMAIN s = 1..Len(s)
      /\ Len(r.deployments) = Len(s)
      /\ \A i \in 1..Len(s) : /\ r.deployments[i].text = s[i].text
                              /\ r.deployments[i].status = "applied" <=> i = Len(s)
  BY <1>1, MarkAppliedFacts
<1>3. AppliedIndices(r) = {Len(s)}
  BY <1>1, <1>2 DEF AppliedIndices, Indices
<1>4. Latest(r).text.cfg = r.cfg
  BY <1>1, <1>2 DEF Latest, RowOK
<1>5. Slots(r) = Slots(row)
  BY <1>2 DEF Slots, Indices
<1>6. QED
  BY <1>1, <1>2, <1>3, <1>4, <1>5 DEF RowOK, HasApplied

\* A row that keeps its payload and its history stays in order, unless it is
\* enabled without having been.
LEMMA SameHistory ==
  ASSUME NEW row, RowOK(row), NEW r \in Row, r.cfg = row.cfg,
         r.deployments = row.deployments, r.enabled => row.enabled
  PROVE  RowOK(r) /\ Slots(r) = Slots(row)
<1>1. Latest(r) = Latest(row) /\ AppliedIndices(r) = AppliedIndices(row)
  BY DEF Latest, AppliedIndices, Indices
<1>2. Slots(r) = Slots(row)
  BY DEF Slots, Indices
<1>3. QED
  BY <1>1, <1>2 DEF RowOK, HasApplied

\* Marking the newest deployment failed keeps the row in order.
LEMMA FailNewest ==
  ASSUME NEW row, RowOK(row), NEW r \in Row, r.cfg = row.cfg, r.enabled = row.enabled,
         Latest(row).status # "applied",
         r.deployments = [row.deployments EXCEPT ![Len(row.deployments)].status = "error"]
  PROVE  RowOK(r) /\ Slots(r) = Slots(row)
<1> DEFINE s == row.deployments
<1>1. s \in Seq(Deployment) /\ Len(s) > 0 /\ Len(s) \in Nat
  BY DEF RowOK, Row
<1>2. \A i \in 1..Len(s) : s[i] \in Deployment
  BY <1>1
<1>3. /\ DOMAIN r.deployments = 1..Len(s)
      /\ DOMAIN s = 1..Len(s)
      /\ Len(r.deployments) = Len(s)
  BY <1>1
<1>4. \A i \in 1..Len(s) :
        /\ r.deployments[i].text = s[i].text
        /\ r.deployments[i].status = "applied" <=> s[i].status = "applied"
  BY <1>1, <1>2, <1>3 DEF Deployment, Latest
<1>5. AppliedIndices(r) = AppliedIndices(row)
  BY <1>3, <1>4 DEF AppliedIndices, Indices
<1>6. Latest(r).text.cfg = r.cfg
  BY <1>1, <1>3, <1>4 DEF Latest, RowOK
<1>7. Slots(r) = Slots(row)
  BY <1>3, <1>4 DEF Slots, Indices
<1>8. QED
  BY <1>1, <1>3, <1>5, <1>6, <1>7 DEF RowOK, HasApplied

LEMMA LatestSlot ==
  ASSUME NEW row, RowOK(row)
  PROVE  SlotOf(row.cfg) \in Slots(row)
<1>1. Len(row.deployments) \in Indices(row)
  BY DEF RowOK, Row, Indices
<1>2. QED
  BY <1>1 DEF RowOK, Slots, Latest

\* A row with a single deployment.
LEMMA FreshRow ==
  ASSUME NEW r \in Row, NEW deployment \in Deployment,
         r.deployments = <<deployment>>, deployment.text.cfg = r.cfg,
         r.enabled => deployment.status = "applied"
  PROVE  RowOK(r) /\ Slots(r) = {SlotOf(r.cfg)}
<1>1. Indices(r) = {1} /\ Len(r.deployments) = 1 /\ r.deployments[1] = deployment
  BY DEF Indices
<1>2. AppliedIndices(r) \subseteq {1}
  BY <1>1 DEF AppliedIndices
<1>3. r.enabled => 1 \in AppliedIndices(r)
  BY <1>1 DEF AppliedIndices
<1>4. Slots(r) = {SlotOf(r.cfg)}
  BY <1>1 DEF Slots
<1>5. Latest(r).text.cfg = r.cfg
  BY <1>1 DEF Latest
<1>6. QED
  BY <1>1, <1>2, <1>3, <1>4, <1>5 DEF RowOK, HasApplied

-----------------------------------------------------------------------------
(* The inductive invariant.  The three properties need two more facts: the  *)
(* shape of every row (RowOK), and that the domain of an operation is still *)
(* there when its body commits or its failure is recorded.                  *)

RowsOK == \A d \in Rows : RowOK(db[d])

Working == {"capture", "change", "test", "reload", "certbot", "expiry", "commit"}

OpOK ==
  /\ op.pc = "idle" <=> op = NoOp
  /\ op.pc # "idle" => op.kind \in Kind /\ op.dom \in Domain
  /\ op.pc \in Working => Exists(op.dom)
  /\ op.pc # "idle" /\ op.kind \in {"apply", "issue"} => Exists(op.dom)

IInv == TypeOK /\ RowsOK /\ OpOK /\ DomainsDisjoint

\* r may be the row of d beside the rows of all other domains.
Fits(d, r) ==
  \A e \in Others(d) :
    /\ Slots(db[e]) \cap Slots(r) = {}
    /\ db[e].cfg.names \cap r.cfg.names = {}
    /\ (db[e].cfg.type = "port_proxy" /\ r.cfg.type = "port_proxy") => db[e].cfg.port # r.cfg.port

Database == db \in [Domain -> Row \cup {NoRow}] /\ RowsOK /\ DomainsDisjoint

LEMMA RowWritten ==
  ASSUME Database, NEW d \in Domain, NEW r, RowOK(r), Fits(d, r), db' = [db EXCEPT ![d] = r]
  PROVE  Database' /\ \A e \in Domain : Exists(e) => Exists(e)'
<1>1. r \in Row /\ r # NoRow
  BY NothingAssumption DEF RowOK
<1>2. db' \in [Domain -> Row \cup {NoRow}]
  BY <1>1 DEF Database
<1>3. /\ db'[d] = r
      /\ \A e \in Domain \ {d} : db'[e] = db[e]
      /\ \A e \in Domain \ {d} : Exists(e)' <=> Exists(e)
  BY DEF Database, Exists
<1>4. RowsOK'
  BY <1>1, <1>3 DEF Database, RowsOK, Rows, Exists
<1>5. DomainsDisjoint'
  <2> SUFFICES ASSUME NEW e \in Rows', NEW f \in Rows', e # f
               PROVE  /\ Slots(db'[e]) \cap Slots(db'[f]) = {}
                      /\ db'[e].cfg.names \cap db'[f].cfg.names = {}
                      /\ (db'[e].cfg.type = "port_proxy" /\ db'[f].cfg.type = "port_proxy")
                           => db'[e].cfg.port # db'[f].cfg.port
    BY DEF DomainsDisjoint
  <2>1. e \in Domain /\ f \in Domain
    BY DEF Rows
  <2>2. CASE e # d /\ f # d
    <3>1. e \in Rows /\ f \in Rows
      BY <1>3, <2>1, <2>2 DEF Rows
    <3>2. db'[e] = db[e] /\ db'[f] = db[f]
      BY <1>3, <2>1, <2>2
    <3>3. QED
      BY <3>1, <3>2 DEF Database, DomainsDisjoint
  <2>3. CASE e = d
    <3>1. f \in Others(d) /\ db'[f] = db[f] /\ db'[e] = r
      BY <1>3, <2>1, <2>3 DEF Rows, Others
    <3>2. QED
      BY <3>1 DEF Fits
  <2>4. CASE f = d
    <3>1. e \in Others(d) /\ db'[e] = db[e] /\ db'[f] = r
      BY <1>3, <2>1, <2>4 DEF Rows, Others
    <3>2. QED
      BY <3>1 DEF Fits
  <2>5. QED
    BY <2>2, <2>3, <2>4
<1>6. \A e \in Domain : Exists(e) => Exists(e)'
  BY <1>1, <1>3 DEF Exists
<1>7. QED
  BY <1>2, <1>4, <1>5, <1>6 DEF Database

\* A row that keeps its payload and its paths fits where it was.
LEMMA RowReplaced ==
  ASSUME Database, NEW d \in Domain, Exists(d), NEW r, RowOK(r),
         r.cfg = db[d].cfg, Slots(r) = Slots(db[d]), db' = [db EXCEPT ![d] = r]
  PROVE  Database' /\ \A e \in Domain : Exists(e) => Exists(e)'
<1>1. \A e \in Others(d) : e \in Rows /\ d \in Rows /\ e # d
  BY DEF Others, Rows
<1>2. Fits(d, r)
  BY <1>1 DEF Fits, Database, DomainsDisjoint
<1>3. QED
  BY <1>2, RowWritten

LEMMA RowsDropped ==
  ASSUME Database, NEW gone,
         db' = [d \in Domain |-> IF d \in gone THEN NoRow ELSE db[d]]
  PROVE  Database'
<1>1. db' \in [Domain -> Row \cup {NoRow}]
  BY DEF Database
<1>2. Rows' \subseteq Rows /\ \A d \in Rows' : db'[d] = db[d]
  BY DEF Rows, Exists
<1>3. RowsOK'
  BY <1>2 DEF Database, RowsOK
<1>4. DomainsDisjoint'
  <2> SUFFICES ASSUME NEW e \in Rows', NEW f \in Rows', e # f
               PROVE  /\ Slots(db'[e]) \cap Slots(db'[f]) = {}
                      /\ db'[e].cfg.names \cap db'[f].cfg.names = {}
                      /\ (db'[e].cfg.type = "port_proxy" /\ db'[f].cfg.type = "port_proxy")
                           => db'[e].cfg.port # db'[f].cfg.port
    BY DEF DomainsDisjoint
  <2>1. e \in Rows /\ f \in Rows /\ db'[e] = db[e] /\ db'[f] = db[f]
    BY <1>2
  <2>2. QED
    BY <2>1 DEF Database, DomainsDisjoint
<1>5. QED
  BY <1>1, <1>3, <1>4 DEF Database

LEMMA DatabaseFrame ==
  ASSUME Database, UNCHANGED db
  PROVE  Database'
BY DEF Database, RowsOK, DomainsDisjoint, Rows, Exists

-----------------------------------------------------------------------------
(* What operations read and write *)

LEMMA LoadedType ==
  ASSUME NEW f \in [File -> Text \cup {NoText}]
  PROVE  Loaded(f) \in [Slot -> Text \cup {NoText}]
BY DEF Loaded, File, Side

LEMMA RowNames ==
  ASSUME IInv, NEW d \in Domain, Exists(d)
  PROVE  db[d].cfg.name \in Name /\ db[d].cfg.names \in SUBSET Name /\ SlotOf(db[d].cfg) \in Slot
<1>1. db[d].cfg \in PayloadType
  BY PayloadAssumption DEF IInv, TypeOK, Exists, Row
<1>2. QED
  BY <1>1 DEF PayloadType, SlotOf, Slot

LEMMA TargetType ==
  ASSUME IInv, Exists(op.dom), op.dom \in Domain, op.kind \in {"apply", "issue"}
  PROVE  Target \in Text /\ Target.cfg = db[op.dom].cfg
<1> DEFINE row == db[op.dom]
<1>1. RowOK(row)
  BY DEF IInv, RowsOK, Rows
<1>2. row.cfg \in Payload /\ row.cfg.name \in Name
  BY <1>1, PayloadAssumption DEF RowOK, Row, PayloadType
<1>3. CASE op.kind = "apply"
  <2>1. Latest(row) \in Deployment
    BY <1>1, LatestType
  <2>2. QED
    BY <1>1, <1>3, <2>1 DEF Target, Deployment, RowOK
<1>4. CASE op.kind = "issue" /\ op.tls
  BY <1>2, <1>4, NothingAssumption DEF Target, Text
<1>5. CASE op.kind = "issue" /\ ~ op.tls
  <2>1. CASE ActiveSsl(row)
    <3>1. Applied(row) \in Deployment
      BY <1>1, <2>1, AppliedType DEF ActiveSsl
    <3>2. QED
      BY <1>2, <1>5, <2>1, <3>1 DEF Target, ActiveSsl, Deployment, Text
  <2>2. CASE ~ ActiveSsl(row)
    BY <1>2, <1>5, <2>2 DEF Target, Plain, Text
  <2>3. QED
    BY <2>1, <2>2
<1>6. QED
  BY <1>3, <1>4, <1>5

LEMMA DesiredType ==
  ASSUME IInv, Exists(op.dom), op.dom \in Domain, NEW f \in File
  PROVE  Desired(f) \in Text \cup {NoText}
<1>1. CASE op.kind \in {"apply", "issue"}
  BY <1>1, TargetType DEF Desired
<1>2. CASE op.kind \notin {"apply", "issue"}
  BY <1>2 DEF Desired, IInv, TypeOK
<1>3. QED
  BY <1>1, <1>2

\* What the body commits leaves the database in order, whichever operation it is.
LEMMA CommittedOK ==
  ASSUME IInv, op.pc = "commit", db' = CommittedDb
  PROVE  Database' /\ (op.kind # "delete" => db'[op.dom] # NoRow)
<1> DEFINE row == db[op.dom]
           r == CommittedRow(row)
<1>1. op.dom \in Domain /\ op.kind \in Kind /\ Exists(op.dom)
  BY DEF IInv, OpOK, Working
<1>2. Database /\ RowOK(row)
  BY <1>1 DEF IInv, TypeOK, Database, RowsOK, Rows
<1>3. db' = [db EXCEPT ![op.dom] = r]
  BY DEF CommittedDb
<1>4. row \in Row /\ row.deployments \in Seq(Deployment) /\ Len(row.deployments) > 0
  BY <1>2 DEF RowOK, Row
<1>5. CASE op.kind = "delete"
  <2>1. db' = [d \in Domain |-> IF d \in {op.dom} THEN NoRow ELSE db[d]]
    BY <1>2, <1>3, <1>5 DEF CommittedRow, Database
  <2>2. QED
    BY <1>2, <1>5, <2>1, RowsDropped
<1>6. CASE op.kind = "disable"
  <2>1. r = [row EXCEPT !.enabled = FALSE, !.status = "disabled"]
    BY <1>6 DEF CommittedRow
  <2>2. r \in Row /\ r.cfg = row.cfg /\ r.deployments = row.deployments /\ ~ r.enabled
    BY <1>4, <2>1 DEF Row
  <2>3. RowOK(r) /\ Slots(r) = Slots(row)
    BY <1>2, <2>2, SameHistory
  <2> HIDE DEF r, row
  <2>4. r.cfg = db[op.dom].cfg /\ Slots(r) = Slots(db[op.dom])
    BY <2>2, <2>3 DEF row
  <2>5. QED
    BY <1>1, <1>2, <1>3, <2>3, <2>4, RowReplaced DEF Exists
<1>7. CASE op.kind = "apply"
  <2>1. r = [row EXCEPT !.enabled = TRUE, !.status = "active",
                        !.deployments = MarkApplied(row.deployments)]
    BY <1>7 DEF CommittedRow
  <2>2. MarkApplied(row.deployments) \in Seq(Deployment)
    BY <1>4, MarkAppliedFacts
  <2>3. r \in Row /\ r.cfg = row.cfg /\ r.deployments = MarkApplied(row.deployments)
    BY <1>4, <2>1, <2>2 DEF Row
  <2>4. RowOK(r) /\ Slots(r) = Slots(row)
    BY <1>2, <2>3, ApplyNewest
  <2> HIDE DEF r, row
  <2>5. r.cfg = db[op.dom].cfg /\ Slots(r) = Slots(db[op.dom])
    BY <2>3, <2>4 DEF row
  <2>6. QED
    BY <1>1, <1>2, <1>3, <2>4, <2>5, RowReplaced DEF Exists
<1>8. CASE op.kind = "issue"
  <2> DEFINE draft == [text |-> Target, status |-> "draft"]
             history == Append(row.deployments, draft)
             middle == [row EXCEPT !.deployments = history]
             certs == {c \in row.certs : c.cert # row.cfg.name}
                        \cup {[cert |-> row.cfg.name, covers |-> row.cfg.names]}
  <2>1. r = [row EXCEPT !.enabled = TRUE, !.status = "active",
                        !.deployments = MarkApplied(history), !.certs = certs]
    BY <1>8 DEF CommittedRow
  <2>2. Target \in Text /\ Target.cfg = row.cfg
    BY <1>1, <1>8, TargetType
  <2>3. draft \in Deployment /\ history \in Seq(Deployment) /\ Len(history) > 0
    BY <1>4, <2>2 DEF Deployment
  <2>4. middle \in Row /\ middle.cfg = row.cfg /\ middle.enabled = row.enabled
        /\ middle.deployments = history
    BY <1>4, <2>3 DEF Row
  <2> HIDE DEF middle, r, row
  <2>5. RowOK(middle) /\ Slots(middle) = Slots(row) \cup {SlotOf(row.cfg)}
    BY <1>2, <2>2, <2>4, AppendDraft DEF draft
  <2>6. Slots(middle) = Slots(row)
    BY <1>2, <2>5, LatestSlot
  <2>7. MarkApplied(history) \in Seq(Deployment)
    BY <2>3, MarkAppliedFacts
  <2>8. certs \in SUBSET Certificate
    BY <1>4, PayloadAssumption DEF Row, Certificate, PayloadType
  <2>9. r \in Row /\ r.cfg = middle.cfg /\ r.deployments = MarkApplied(middle.deployments)
    BY <1>4, <2>1, <2>4, <2>7, <2>8 DEF Row
  <2>10. RowOK(r) /\ Slots(r) = Slots(row)
    BY <2>5, <2>6, <2>9, ApplyNewest
  <2>11. r.cfg = db[op.dom].cfg /\ Slots(r) = Slots(db[op.dom])
    BY <2>4, <2>9, <2>10 DEF row
  <2>12. QED
    BY <1>1, <1>2, <1>3, <2>10, <2>11, RowReplaced DEF Exists
<1>9. QED
  BY <1>1, <1>5, <1>6, <1>7, <1>8 DEF Kind

\* A recorded failure leaves the database in order.
LEMMA RecordedOK ==
  ASSUME IInv, op.pc = "record", Recorded, db' = [db EXCEPT ![op.dom] = FailedRow(@)]
  PROVE  Database'
<1> DEFINE row == db[op.dom]
           r == FailedRow(row)
<1>1. op.dom \in Domain /\ Exists(op.dom)
  BY DEF IInv, OpOK, Recorded
<1>2. Database /\ RowOK(row)
  BY <1>1 DEF IInv, TypeOK, Database, RowsOK, Rows
<1>3. db' = [db EXCEPT ![op.dom] = r]
  BY <1>1, <1>2 DEF Database
<1>4. row \in Row /\ row.deployments \in Seq(Deployment) /\ Len(row.deployments) > 0
  BY <1>2 DEF RowOK, Row
<1>5. FailedStatus(row) \in {"draft", "active", "disabled", "error"}
  BY <1>4 DEF FailedStatus, Row
<1>6. CASE op.kind = "apply" /\ Latest(row).status # "applied"
  <2> DEFINE failed == [row.deployments EXCEPT ![Len(row.deployments)].status = "error"]
  <2>1. r = [row EXCEPT !.status = FailedStatus(row), !.deployments = failed]
    BY <1>4, <1>6 DEF FailedRow, Row
  <2>2. failed \in Seq(Deployment)
    <3>1. row.deployments[Len(row.deployments)] \in Deployment
      BY <1>4
    <3>2. [row.deployments[Len(row.deployments)] EXCEPT !.status = "error"] \in Deployment
      BY <3>1 DEF Deployment
    <3>3. QED
      BY <1>4, <3>2
  <2>3. r \in Row /\ r.cfg = row.cfg /\ r.enabled = row.enabled /\ r.deployments = failed
    BY <1>4, <1>5, <2>1, <2>2 DEF Row
  <2>4. RowOK(r) /\ Slots(r) = Slots(row)
    BY <1>2, <1>6, <2>3, FailNewest
  <2>5. QED
    BY <1>1, <1>2, <1>3, <2>3, <2>4, RowReplaced
<1>7. CASE ~ (op.kind = "apply" /\ Latest(row).status # "applied")
  <2>1. r = [row EXCEPT !.status = FailedStatus(row)]
    BY <1>7 DEF FailedRow
  <2>2. r \in Row /\ r.cfg = row.cfg /\ r.enabled = row.enabled
        /\ r.deployments = row.deployments
    BY <1>4, <1>5, <2>1 DEF Row
  <2>3. RowOK(r) /\ Slots(r) = Slots(row)
    BY <1>2, <2>2, SameHistory
  <2>4. QED
    BY <1>1, <1>2, <1>3, <2>2, <2>3, RowReplaced
<1>8. QED
  BY <1>6, <1>7

-----------------------------------------------------------------------------
(* The steps *)

\* An operation goes on: it keeps its domain and does not return to its body.
LEMMA OpGoesOn ==
  ASSUME IInv, op.pc # "idle", op' \in OpType, op'.pc # "idle",
         op'.kind = op.kind, op'.dom = op.dom,
         op'.pc \in Working \/ op.kind \in {"apply", "issue"} => db'[op.dom] # NoRow
  PROVE  OpOK'
BY DEF IInv, OpOK, Exists, NoOp

LEMMA OpEnds ==
  ASSUME op' = NoOp
  PROVE  OpOK' /\ op' \in OpType
<1>1. NoFiles \in [File -> Text \cup {NoText}]
  BY DEF NoFiles
<1>2. QED
  BY <1>1 DEF OpOK, NoOp, OpType, Working

\* The lock stays with whom it was, and no row disappears.
LEMMA OpStays ==
  ASSUME IInv, UNCHANGED op, \A e \in Domain : Exists(e) => Exists(e)'
  PROVE  OpOK'
<1>1. op.pc # "idle" => op.dom \in Domain
  BY DEF IInv, OpOK
<1>2. "idle" \notin Working
  BY DEF Working
<1>3. QED
  BY <1>1, <1>2 DEF IInv, OpOK, Exists

LEMMA IInvSplit == IInv <=> TypeOK /\ Database /\ OpOK
BY DEF IInv, Database, TypeOK

LEMMA IInvInit == Init => IInv
<1> SUFFICES ASSUME Init
             PROVE  IInv
  OBVIOUS
<1>1. NoFiles \in [File -> Text \cup {NoText}]
  BY DEF NoFiles
<1>2. TypeOK
  BY <1>1 DEF Init, TypeOK, OpType, NoOp
<1>3. OpOK
  BY DEF Init, OpOK, NoOp, Working
<1>4. RowsOK /\ DomainsDisjoint
  BY DEF Init, RowsOK, DomainsDisjoint, Rows, Exists
<1>5. QED
  BY <1>2, <1>3, <1>4 DEF IInv

LEMMA CreateStep ==
  ASSUME IInv, NEW d \in Domain, NEW cfg \in Payload, CreateDomain(d, cfg)
  PROVE  IInv'
<1> DEFINE deployment == [text |-> Plain(cfg), status |-> "draft"]
           r == [cfg |-> cfg, enabled |-> FALSE, status |-> "draft",
                 deployments |-> <<deployment>>, certs |-> {}]
<1>1. Database
  BY IInvSplit
<1>2. deployment \in Deployment /\ deployment.text.cfg = cfg
  BY DEF Plain, Text, Deployment
<1>3. r \in Row /\ r.cfg = cfg /\ r.deployments = <<deployment>> /\ ~ r.enabled
  BY <1>2 DEF Row
<1>4. db' = [db EXCEPT ![d] = r]
  BY DEF CreateDomain
<1> HIDE DEF r, deployment
<1>5. RowOK(r) /\ Slots(r) = {SlotOf(cfg)}
  BY <1>2, <1>3, FreshRow
<1>6. Fits(d, r)
  BY <1>3, <1>5 DEF CreateDomain, Conflicts, Fits
<1>7. Database' /\ \A e \in Domain : Exists(e) => Exists(e)'
  BY <1>1, <1>4, <1>5, <1>6, RowWritten
<1>8. OpOK'
  BY <1>7, OpStays DEF CreateDomain
<1>9. TypeOK'
  BY <1>7 DEF IInv, TypeOK, CreateDomain, Database
<1>10. QED
  BY <1>7, <1>8, <1>9, IInvSplit DEF IInv, Database

LEMMA UpdateStep ==
  ASSUME IInv, NEW d \in Domain, NEW cfg \in Payload, UpdateDomain(d, cfg)
  PROVE  IInv'
<1> DEFINE row == db[d]
           text == UpdatedText(row, cfg)
           deployment == [text |-> text, status |-> "draft"]
           r == [row EXCEPT !.cfg = cfg, !.deployments = Append(row.deployments, deployment)]
<1>1. Database /\ Exists(d) /\ RowOK(row)
  BY IInvSplit DEF UpdateDomain, Database, RowsOK, Rows
<1>2. text \in Text /\ text.cfg = cfg
  BY <1>1, UpdatedTextType
<1>3. deployment \in Deployment
  BY <1>2 DEF Deployment
<1>4. row \in Row /\ row.deployments \in Seq(Deployment)
  BY <1>1 DEF RowOK, Row
<1>5. r \in Row /\ r.cfg = cfg /\ r.enabled = row.enabled
      /\ r.deployments = Append(row.deployments, deployment)
  <2> HIDE DEF row, deployment
  <2>1. Append(row.deployments, deployment) \in Seq(Deployment)
    BY <1>3, <1>4
  <2>2. QED
    BY <1>4, <2>1 DEF Row
<1>6. db' = [db EXCEPT ![d] = r]
  BY <1>1, <1>4 DEF UpdateDomain, Database, Row
<1> HIDE DEF r, row, text
<1>7. RowOK(r) /\ Slots(r) = Slots(row) \cup {SlotOf(cfg)}
  BY <1>1, <1>2, <1>5, AppendDraft
<1>8. Fits(d, r)
  <2> SUFFICES ASSUME NEW e \in Others(d)
               PROVE  /\ Slots(db[e]) \cap Slots(r) = {}
                      /\ db[e].cfg.names \cap r.cfg.names = {}
                      /\ (db[e].cfg.type = "port_proxy" /\ r.cfg.type = "port_proxy")
                           => db[e].cfg.port # r.cfg.port
    BY DEF Fits
  <2>1. e \in Rows /\ d \in Rows /\ e # d
    BY <1>1 DEF Others, Rows
  <2>2. Slots(db[e]) \cap Slots(row) = {}
    BY <1>1, <2>1 DEF Database, DomainsDisjoint, row
  <2>3. SlotOf(cfg) \notin Slots(db[e])
    BY DEF UpdateDomain, Conflicts
  <2>4. QED
    BY <1>5, <1>7, <2>2, <2>3 DEF UpdateDomain, Conflicts
<1>9. Database' /\ \A e \in Domain : Exists(e) => Exists(e)'
  BY <1>1, <1>6, <1>7, <1>8, RowWritten
<1>10. OpOK'
  BY <1>9, OpStays DEF UpdateDomain
<1>11. TypeOK'
  BY <1>9 DEF IInv, TypeOK, UpdateDomain, Database
<1>12. QED
  BY <1>9, <1>10, <1>11, IInvSplit DEF IInv, Database

LEMMA BeginStep ==
  ASSUME IInv, NEW kind \in Kind, NEW d \in Domain, Begin(kind, d)
  PROVE  IInv'
<1>1. NoOp \in OpType
  BY OpEnds DEF OpType, NoOp, NoFiles
<1>2. /\ op' = [NoOp EXCEPT !.kind = kind, !.dom = d, !.pc = "capture"]
      /\ op' \in OpType
      /\ op'.kind = kind /\ op'.dom = d /\ op'.pc = "capture"
  BY <1>1 DEF Begin, OpType, NoOp
<1>3. Database'
  BY IInvSplit, DatabaseFrame DEF Begin
<1>4. OpOK'
  <2>1. op'.pc # "idle" /\ op' # NoOp
    BY <1>2 DEF NoOp
  <2>2. db'[d] # NoRow
    BY DEF Begin, Exists
  <2>3. QED
    BY <1>2, <2>1, <2>2 DEF OpOK, Exists
<1>5. TypeOK'
  BY <1>2 DEF IInv, TypeOK, Begin
<1>6. QED
  BY <1>3, <1>4, <1>5 DEF IInv, Database

\* The steps that only move the operation on: the database stays, and the other
\* variables take values of their types.
LEMMA MovesOn ==
  ASSUME IInv, op.pc # "idle", UNCHANGED db,
         op' \in OpType, op'.pc # "idle", op'.kind = op.kind, op'.dom = op.dom,
         op'.pc \in Working => op.pc \in Working,
         files' \in [File -> Text \cup {NoText}],
         running' \in [Slot -> Text \cup {NoText}],
         lineage' \in [Name -> SUBSET Name],
         UNCHANGED <<phase, imported>>, flagged' \in BOOLEAN, alarm' \in SUBSET Incident
  PROVE  IInv'
<1>1. Database'
  BY IInvSplit, DatabaseFrame
<1>2. OpOK'
  <2>1. op'.pc \in Working \/ op.kind \in {"apply", "issue"} => db'[op.dom] # NoRow
    BY DEF IInv, OpOK, Exists
  <2>2. QED
    BY <2>1, OpGoesOn
<1>3. TypeOK'
  BY DEF IInv, TypeOK
<1>4. QED
  BY <1>1, <1>2, <1>3 DEF IInv, Database

LEMMA BodyStep ==
  ASSUME IInv, \/ Capture \/ CaptureFails \/ (\E f \in File : ChangeFile(f))
               \/ Changed \/ Test \/ Reload \/ Certbot \/ Expiry
  PROVE  IInv'
<1>1. TypeOK /\ OpOK
  BY DEF IInv
<1>2. CASE Capture
  <2>1. Pending \in SUBSET File
    BY DEF Pending, Declared
  <2>2. op' \in OpType /\ op'.pc = "change" /\ op'.kind = op.kind /\ op'.dom = op.dom
    BY <1>1, <1>2, <2>1 DEF Capture, TypeOK, OpType
  <2>3. QED
    BY <1>1, <1>2, <2>2, MovesOn DEF Capture, TypeOK, Working
<1>3. CASE CaptureFails
  <2>1. op' \in OpType /\ op'.pc = "record" /\ op'.kind = op.kind /\ op'.dom = op.dom
    BY <1>1, <1>3 DEF CaptureFails, TypeOK, OpType
  <2>2. QED
    BY <1>1, <1>3, <2>1, MovesOn DEF CaptureFails, TypeOK, Working
<1>4. CASE \E f \in File : ChangeFile(f)
  <2>1. PICK f \in File : ChangeFile(f)
    BY <1>4
  <2>2. Desired(f) \in Text \cup {NoText}
    BY <1>1, <2>1, DesiredType DEF ChangeFile, OpOK, Working
  <2>3. files' \in [File -> Text \cup {NoText}]
    BY <1>1, <2>1, <2>2 DEF ChangeFile, TypeOK
  <2>4. op' \in OpType /\ op'.pc = op.pc /\ op'.kind = op.kind /\ op'.dom = op.dom
    BY <1>1, <2>1 DEF ChangeFile, TypeOK, OpType
  <2>5. QED
    BY <1>1, <2>1, <2>3, <2>4, MovesOn DEF ChangeFile, TypeOK
<1>5. CASE Changed
  <2>1. op' \in OpType /\ op'.pc = "test" /\ op'.kind = op.kind /\ op'.dom = op.dom
    BY <1>1, <1>5 DEF Changed, Goto, TypeOK, OpType
  <2>2. QED
    BY <1>1, <1>5, <2>1, MovesOn DEF Changed, TypeOK, Working
<1>6. CASE Test
  <2>1. op' \in OpType /\ op'.pc = "reload" /\ op'.kind = op.kind /\ op'.dom = op.dom
    BY <1>1, <1>6 DEF Test, Goto, TypeOK, OpType
  <2>2. QED
    BY <1>1, <1>6, <2>1, MovesOn DEF Test, TypeOK, Working
<1>7. CASE Reload
  <2>1. op' \in OpType /\ op'.pc # "idle" /\ op'.kind = op.kind /\ op'.dom = op.dom
    BY <1>1, <1>7 DEF Reload, Goto, TypeOK, OpType
  <2>2. running' \in [Slot -> Text \cup {NoText}]
    BY <1>1, <1>7, LoadedType DEF Reload, TypeOK
  <2>3. QED
    BY <1>1, <1>7, <2>1, <2>2, MovesOn DEF Reload, TypeOK, Working
<1>8. CASE Certbot
  <2>1. op' \in OpType /\ op'.pc = "expiry" /\ op'.kind = op.kind /\ op'.dom = op.dom
    BY <1>1, <1>8 DEF Certbot, Goto, TypeOK, OpType
  <2>2. lineage' \in [Name -> SUBSET Name]
    BY <1>1, <1>8, RowNames DEF Certbot, TypeOK, Working, OpOK
  <2>3. QED
    BY <1>1, <1>8, <2>1, <2>2, MovesOn DEF Certbot, TypeOK, Working
<1>9. CASE Expiry
  <2>1. op.dom \in Domain /\ Exists(op.dom)
    BY <1>1, <1>9 DEF Expiry, OpOK, Working
  <2>2. {<<side, SlotOf(db[op.dom].cfg)>> : side \in Side} \in SUBSET File
    BY <2>1, RowNames DEF File, Slot, SlotOf
  <2>3. op' \in OpType /\ op'.pc = "change" /\ op'.kind = op.kind /\ op'.dom = op.dom
    BY <1>1, <1>9, <2>2 DEF Expiry, TypeOK, OpType
  <2>4. QED
    BY <1>1, <1>9, <2>3, MovesOn DEF Expiry, TypeOK, Working
<1>10. QED
  BY <1>2, <1>3, <1>4, <1>5, <1>6, <1>7, <1>8, <1>9

LEMMA CommitStep ==
  ASSUME IInv, Commit \/ CommitUnknown
  PROVE  IInv'
<1>1. TypeOK /\ OpOK
  BY DEF IInv
<1>2. op.pc = "commit" /\ db' = CommittedDb
  BY DEF Commit, CommitUnknown
<1>3. Database' /\ (op.kind # "delete" => db'[op.dom] # NoRow)
  BY <1>2, CommittedOK
<1>4. CASE Commit
  <2>1. OpOK' /\ op' \in OpType
    BY <1>4, OpEnds DEF Commit
  <2>2. TypeOK'
    BY <1>1, <1>3, <1>4, <2>1 DEF Commit, TypeOK, Database
  <2>3. QED
    BY <1>3, <2>1, <2>2 DEF IInv, Database
<1>5. CASE CommitUnknown
  <2>1. op' \in OpType /\ op'.pc = "rollback" /\ op'.kind = op.kind /\ op'.dom = op.dom
    BY <1>1, <1>5 DEF CommitUnknown, TypeOK, OpType
  <2>2. OpOK'
    BY <1>2, <1>3, <2>1, OpGoesOn DEF Working
  <2>3. TypeOK'
    BY <1>1, <1>3, <1>5, <2>1 DEF CommitUnknown, TypeOK, Database, Incident
  <2>4. QED
    BY <1>3, <2>2, <2>3 DEF IInv, Database
<1>6. QED
  BY <1>4, <1>5

LEMMA FailureStep ==
  ASSUME IInv, ChangeFails \/ WaitFails \/ ReloadFails \/ CertbotKilled
  PROVE  IInv'
<1>1. TypeOK /\ OpOK
  BY DEF IInv
<1>2. ASSUME NEW cause \in {"nginx", "other"}, op.pc # "idle", Raise(cause)
      PROVE  /\ op' \in OpType /\ op'.pc = "rollback" /\ op'.kind = op.kind
             /\ op'.dom = op.dom /\ alarm' \in SUBSET Incident
  BY <1>1, <1>2 DEF Raise, TypeOK, OpType, Incident
<1>3. CASE ChangeFails
  <2>1. op' \in OpType /\ op'.pc = "rollback" /\ op'.kind = op.kind
        /\ op'.dom = op.dom /\ alarm' \in SUBSET Incident
    BY <1>2, <1>3 DEF ChangeFails
  <2>2. QED
    BY <1>1, <1>3, <2>1, MovesOn DEF ChangeFails, TypeOK, Working
<1>4. CASE WaitFails
  <2>1. op' \in OpType /\ op'.pc = "rollback" /\ op'.kind = op.kind
        /\ op'.dom = op.dom /\ alarm' \in SUBSET Incident
    BY <1>2, <1>4 DEF WaitFails
  <2>2. QED
    BY <1>1, <1>4, <2>1, MovesOn DEF WaitFails, TypeOK, Working
<1>5. CASE ReloadFails
  <2>1. op' \in OpType /\ op'.pc = "rollback" /\ op'.kind = op.kind
        /\ op'.dom = op.dom /\ alarm' \in SUBSET Incident
    BY <1>2, <1>5 DEF ReloadFails
  <2>2. running' \in [Slot -> Text \cup {NoText}]
    BY <1>1, <1>5, LoadedType DEF ReloadFails, TypeOK
  <2>3. QED
    BY <1>1, <1>5, <2>1, <2>2, MovesOn DEF ReloadFails, TypeOK, Working
<1>6. CASE CertbotKilled
  <2>1. op' \in OpType /\ op'.pc = "rollback" /\ op'.kind = op.kind /\ op'.dom = op.dom
    BY <1>1, <1>6 DEF CertbotKilled, TypeOK, OpType
  <2>2. lineage' \in [Name -> SUBSET Name]
    BY <1>1, <1>6, RowNames DEF CertbotKilled, TypeOK, Working, OpOK
  <2>3. alarm' \in SUBSET Incident
    BY <1>1, <1>6 DEF CertbotKilled, TypeOK, Incident
  <2>4. QED
    BY <1>1, <1>6, <2>1, <2>2, <2>3, MovesOn DEF CertbotKilled, TypeOK, Working
<1>7. QED
  BY <1>3, <1>4, <1>5, <1>6

LEMMA MixType ==
  ASSUME IInv, NEW kept
  PROVE  Mix(kept) \in [File -> Text \cup {NoText}]
BY DEF Mix, IInv, TypeOK, OpType

LEMMA RecoveryStep ==
  ASSUME IInv, \/ Rollback \/ RollbackFails \/ Retest \/ Rereload \/ RecoverFails
  PROVE  IInv'
<1>1. TypeOK /\ OpOK
  BY DEF IInv
<1>2. CASE Rollback
  <2>1. op' \in OpType /\ op'.pc = "retest" /\ op'.kind = op.kind /\ op'.dom = op.dom
    BY <1>1, <1>2 DEF Rollback, Goto, TypeOK, OpType
  <2>2. files' \in [File -> Text \cup {NoText}]
    BY <1>1, <1>2 DEF Rollback, TypeOK, OpType
  <2>3. QED
    BY <1>1, <1>2, <2>1, <2>2, MovesOn DEF Rollback, TypeOK, Working
<1>3. CASE RollbackFails
  <2>1. op' \in OpType /\ op'.pc = "record" /\ op'.kind = op.kind /\ op'.dom = op.dom
    BY <1>1, <1>3 DEF RollbackFails, TypeOK, OpType
  <2>2. files' \in [File -> Text \cup {NoText}]
    BY <1>3, MixType DEF RollbackFails
  <2>3. alarm' \in SUBSET Incident
    BY <1>1, <1>3 DEF RollbackFails, TypeOK, Incident
  <2>4. QED
    BY <1>1, <1>3, <2>1, <2>2, <2>3, MovesOn DEF RollbackFails, TypeOK, Working
<1>4. CASE Retest
  <2>1. op' \in OpType /\ op'.pc = "rereload" /\ op'.kind = op.kind /\ op'.dom = op.dom
    BY <1>1, <1>4 DEF Retest, Goto, TypeOK, OpType
  <2>2. QED
    BY <1>1, <1>4, <2>1, MovesOn DEF Retest, TypeOK, Working
<1>5. CASE Rereload
  <2>1. op' \in OpType /\ op'.pc = "record" /\ op'.kind = op.kind /\ op'.dom = op.dom
    BY <1>1, <1>5 DEF Rereload, Goto, TypeOK, OpType
  <2>2. running' \in [Slot -> Text \cup {NoText}]
    BY <1>1, <1>5, LoadedType DEF Rereload, TypeOK
  <2>3. QED
    BY <1>1, <1>5, <2>1, <2>2, MovesOn DEF Rereload, TypeOK, Working
<1>6. CASE RecoverFails
  <2>1. op' \in OpType /\ op'.pc = "record" /\ op'.kind = op.kind /\ op'.dom = op.dom
    BY <1>1, <1>6 DEF RecoverFails, TypeOK, OpType
  <2>2. running' \in [Slot -> Text \cup {NoText}]
    BY <1>1, <1>6, LoadedType DEF RecoverFails, TypeOK
  <2>3. alarm' \in SUBSET Incident
    BY <1>1, <1>6 DEF RecoverFails, TypeOK, Incident
  <2>4. QED
    BY <1>1, <1>6, <2>1, <2>2, <2>3, MovesOn DEF RecoverFails, TypeOK, Working
<1>7. QED
  BY <1>2, <1>3, <1>4, <1>5, <1>6

LEMMA RecordStep ==
  ASSUME IInv, Record \/ RecordFails
  PROVE  IInv'
<1>1. OpOK' /\ op' \in OpType
  BY OpEnds DEF Record, RecordFails
<1>2. Database'
  <2>1. CASE UNCHANGED db
    BY <2>1, IInvSplit, DatabaseFrame
  <2>2. CASE ~ UNCHANGED db
    BY <2>2, RecordedOK DEF Record, RecordFails
  <2>3. QED
    BY <2>1, <2>2
<1>3. TypeOK'
  BY <1>1, <1>2 DEF Record, RecordFails, IInv, TypeOK, Database
<1>4. QED
  BY <1>1, <1>2, <1>3 DEF IInv, Database

\* A death drops the rows an import had added, and nobody holds the lock then.
LEMMA CrashStep ==
  ASSUME IInv, Crash
  PROVE  IInv'
<1>1. OpOK' /\ op' \in OpType
  BY OpEnds DEF Crash
<1>2. Database'
  BY IInvSplit, RowsDropped DEF Crash
<1>3. files' \in [File -> Text \cup {NoText}]
  BY MixType DEF Crash, IInv, TypeOK
<1>4. running' \in [Slot -> Text \cup {NoText}]
  BY DEF Crash
<1>5. TypeOK'
  BY <1>1, <1>2, <1>3, <1>4 DEF Crash, IInv, TypeOK, Database, Incident
<1>6. QED
  BY <1>1, <1>2, <1>5 DEF IInv, Database

LEMMA ImportStep ==
  ASSUME IInv, NEW d \in Domain, NEW s \in Slot, Import(d, s)
  PROVE  IInv'
<1> DEFINE text == files[<<"enabled", s>>]
           deployment == [text |-> text, status |-> "applied"]
<1>1. text \in Text
  BY DEF Import, IInv, TypeOK, File, Side
<1>2. deployment \in Deployment /\ text.cfg \in Payload
  BY <1>1 DEF Deployment, Text
<1>3. PICK certs \in {{}, IF text.ssl THEN {[cert |-> text.cert, covers |-> text.cfg.names]} ELSE {}} :
        db' = [db EXCEPT ![d] = [cfg |-> text.cfg, enabled |-> TRUE, status |-> "active",
                                 deployments |-> <<deployment>>, certs |-> certs]]
  BY DEF Import
<1> DEFINE r == [cfg |-> text.cfg, enabled |-> TRUE, status |-> "active",
                 deployments |-> <<deployment>>, certs |-> certs]
<1>4. certs \in SUBSET Certificate
  BY <1>1, <1>2, PayloadAssumption DEF Certificate, Text, PayloadType
<1>5. r \in Row /\ r.cfg = text.cfg /\ r.deployments = <<deployment>>
  BY <1>2, <1>4 DEF Row
<1>6. db' = [db EXCEPT ![d] = r] /\ deployment.status = "applied" /\ deployment.text.cfg = r.cfg
  BY <1>3
<1> HIDE DEF r, deployment
<1>7. RowOK(r) /\ Slots(r) = {SlotOf(r.cfg)}
  BY <1>2, <1>5, <1>6, FreshRow
<1>8. Fits(d, r)
  BY <1>5, <1>7 DEF Import, Conflicts, Fits
<1>9. Database' /\ \A e \in Domain : Exists(e) => Exists(e)'
  BY <1>6, <1>7, <1>8, IInvSplit, RowWritten
<1>10. OpOK'
  BY <1>9, OpStays DEF Import
<1>11. TypeOK'
  BY <1>9 DEF Import, IInv, TypeOK, Database
<1>12. QED
  BY <1>9, <1>10, <1>11 DEF IInv, Database

LEMMA ExpiresStep ==
  ASSUME IInv, NEW d \in Domain, NEW c, CertificateExpires(d, c)
  PROVE  IInv'
<1> DEFINE row == db[d]
           r == [row EXCEPT !.certs = row.certs \ {c}]
<1>1. Database /\ Exists(d) /\ RowOK(row) /\ row \in Row
  BY IInvSplit DEF CertificateExpires, Database, RowsOK, Rows, RowOK
<1>2. db' = [db EXCEPT ![d] = r]
  BY <1>1 DEF CertificateExpires, Database
<1>3. r \in Row /\ r.cfg = row.cfg /\ r.deployments = row.deployments /\ r.enabled = row.enabled
  BY <1>1 DEF Row
<1>4. RowOK(r) /\ Slots(r) = Slots(row)
  BY <1>1, <1>3, SameHistory
<1>5. Database' /\ \A e \in Domain : Exists(e) => Exists(e)'
  BY <1>1, <1>2, <1>3, <1>4, RowReplaced
<1>6. OpOK'
  BY <1>5, OpStays DEF CertificateExpires
<1>7. TypeOK'
  BY <1>5 DEF CertificateExpires, IInv, TypeOK, Database
<1>8. QED
  BY <1>5, <1>6, <1>7 DEF IInv, Database

LEMMA ContainerStep ==
  ASSUME IInv, Restart \/ Started \/ ExternalReload
  PROVE  IInv'
<1>1. UNCHANGED <<db, op>>
  BY DEF Restart, Started, ExternalReload
<1>2. Database'
  BY <1>1, IInvSplit, DatabaseFrame
<1>3. OpOK'
  BY <1>1, OpStays DEF Exists
<1>4. running' \in [Slot -> Text \cup {NoText}]
  BY LoadedType DEF Restart, Started, ExternalReload, IInv, TypeOK
<1>5. TypeOK'
  BY <1>1, <1>4 DEF Restart, Started, ExternalReload, IInv, TypeOK
<1>6. QED
  BY <1>2, <1>3, <1>5 DEF IInv, Database

LEMMA IInvStep == IInv /\ [Next]_vars => IInv'
<1> SUFFICES ASSUME IInv, [Next]_vars
             PROVE  IInv'
  OBVIOUS
<1>1. CASE Request
  <2>1. PICK d \in Domain :
          \/ \E cfg \in Payload : CreateDomain(d, cfg) \/ UpdateDomain(d, cfg)
          \/ \E kind \in Kind : Begin(kind, d)
    BY <1>1 DEF Request, ApplyDomain, DisableDomain, Delete, IssueCertificate, Kind
  <2>2. QED
    BY <2>1, CreateStep, UpdateStep, BeginStep
<1>2. CASE Step
  BY <1>2, BodyStep, CommitStep, FailureStep, RecoveryStep, RecordStep DEF Step
<1>3. CASE Environment
  BY <1>3, CrashStep, ImportStep, ExpiresStep, ContainerStep DEF Environment
<1>4. CASE UNCHANGED vars
  <2>1. UNCHANGED <<db, files, running, lineage, op, phase, imported, flagged, alarm>>
    BY <1>4 DEF vars
  <2>2. Database'
    BY <2>1, IInvSplit, DatabaseFrame
  <2>3. OpOK'
    BY <2>1, OpStays DEF Exists
  <2>4. TypeOK'
    BY <2>1 DEF IInv, TypeOK
  <2>5. QED
    BY <2>2, <2>3, <2>4 DEF IInv, Database
<1>5. QED
  BY <1>1, <1>2, <1>3, <1>4 DEF Next

LEMMA Invariance == Spec => []IInv
BY IInvInit, IInvStep, PTL DEF Spec

-----------------------------------------------------------------------------
(* The theorems *)

\* Every variable keeps its type: no step of any operation, failure or restart
\* produces a row, a file or an operation that is none.
THEOREM ServiceTypeCorrect == Spec => []TypeOK
<1>1. IInv => TypeOK
  BY DEF IInv
<1>2. QED
  BY <1>1, Invariance, PTL

\* A history never has two applied deployments, an enabled domain has one, and
\* the newest deployment is of the payload the row shows (mark_applied,
\* update_domain, issue_certificate, record_apply_failure).
THEOREM HistoryAgrees == Spec => []HistoryAgreesWithRow
<1>1. IInv => HistoryAgreesWithRow
  BY DEF IInv, RowsOK, RowOK, HistoryAgreesWithRow
<1>2. QED
  BY <1>1, Invariance, PTL

\* No two domains ever share a path of their histories, a server name or a
\* listen port (check_conflicts in create, update and import).
THEOREM Disjoint == Spec => []DomainsDisjoint
<1>1. IInv => DomainsDisjoint
  BY DEF IInv
<1>2. QED
  BY <1>1, Invariance, PTL

-----------------------------------------------------------------------------
(* What nginx runs.  While files are being changed or restored nothing can  *)
(* be said; at all other points nginx runs the enabled files.               *)

Settled == {"idle", "capture", "certbot", "expiry", "commit", "record"}

RunningFilesAt ==
  (alarm \cap {"files", "reload"} = {} /\ phase # "down" /\ op.pc \in Settled)
    => running = Loaded(files)

LEMMA RunningStep == IInv /\ RunningFilesAt /\ [Next]_vars => RunningFilesAt'
<1> SUFFICES ASSUME IInv, RunningFilesAt, [Next]_vars
             PROVE  RunningFilesAt'
  OBVIOUS
<1>0. op \in OpType
  BY DEF IInv, TypeOK
<1> USE DEF RunningFilesAt
<1>1. ASSUME NEW d \in Domain, NEW cfg \in Payload, CreateDomain(d, cfg) \/ UpdateDomain(d, cfg)
      PROVE  RunningFilesAt'
  BY <1>1 DEF CreateDomain, UpdateDomain
<1>2. ASSUME NEW kind \in Kind, NEW d \in Domain, Begin(kind, d)
      PROVE  RunningFilesAt'
  BY <1>2 DEF Begin, Free, NoOp, Settled
<1>3. CASE Capture \/ (\E f \in File : ChangeFile(f)) \/ Changed \/ Test \/ Rollback \/ Retest
  <2>1. op'.pc \in {"change", "test", "reload", "retest", "rereload"}
    BY <1>0, <1>3 DEF Capture, ChangeFile, Changed, Test, Rollback, Retest, Goto, OpType
  <2>2. QED
    BY <2>1 DEF Settled
<1>4. CASE CaptureFails
  BY <1>4 DEF CaptureFails, Settled
<1>5. CASE Reload \/ Rereload
  BY <1>5 DEF Reload, Rereload, Loaded
<1>6. CASE Certbot \/ Expiry
  BY <1>6 DEF Certbot, Expiry, Goto, Settled
<1>7. CASE Commit
  BY <1>7 DEF Commit, Settled
<1>8. CASE ChangeFails \/ WaitFails \/ ReloadFails \/ CertbotKilled \/ CommitUnknown
  <2>1. op'.pc = "rollback"
    BY <1>0, <1>8
    DEF ChangeFails, WaitFails, ReloadFails, CertbotKilled, CommitUnknown, Raise, OpType
  <2>2. QED
    BY <2>1 DEF Settled
<1>9. CASE RollbackFails \/ RecoverFails
  BY <1>9 DEF RollbackFails, RecoverFails
<1>10. CASE Record \/ RecordFails
  BY <1>10 DEF Record, RecordFails, Settled
<1>11. CASE Crash
  BY <1>11 DEF Crash
<1>12. CASE Restart \/ ExternalReload
  BY <1>12 DEF Restart, ExternalReload, Loaded
<1>13. CASE Started
  BY <1>13 DEF Started
<1>14. ASSUME NEW d \in Domain, NEW s \in Slot, Import(d, s)
       PROVE  RunningFilesAt'
  BY <1>14 DEF Import
<1>15. ASSUME NEW d \in Domain, NEW c, CertificateExpires(d, c)
       PROVE  RunningFilesAt'
  BY <1>15 DEF CertificateExpires
<1>16. CASE UNCHANGED vars
  BY <1>16 DEF vars
<1>17. CASE Request
  BY <1>1, <1>2, <1>17
  DEF Request, ApplyDomain, DisableDomain, Delete, IssueCertificate, Kind
<1>18. CASE Step
  BY <1>3, <1>4, <1>5, <1>6, <1>7, <1>8, <1>9, <1>10, <1>18 DEF Step
<1>19. CASE Environment
  BY <1>11, <1>12, <1>13, <1>14, <1>15, <1>19 DEF Environment
<1>20. QED
  BY <1>16, <1>17, <1>18, <1>19 DEF Next

\* Between operations nginx runs the enabled files, unless a recovery was
\* reported as failed: whatever was refused, killed after it took effect,
\* crashed or reloaded from outside (validate_reload, recover, entrypoint.sh).
THEOREM NginxFollows == Spec => []NginxFollowsFiles
<1>1. Init => RunningFilesAt
  BY DEF Init, RunningFilesAt, Loaded, NoFiles, File, Side
<1>2. IInv /\ RunningFilesAt => NginxFollowsFiles
  BY DEF IInv, RunningFilesAt, NginxFollowsFiles, Idle, OpOK, Settled
<1>3. QED
  BY <1>1, <1>2, RunningStep, Invariance, PTL DEF Spec
=============================================================================
