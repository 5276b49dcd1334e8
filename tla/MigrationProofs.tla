--------------------------- MODULE MigrationProofs ---------------------------
(***************************************************************************)
(* Proofs about Migration, for any domains, names, certificates, comments  *)
(* and number of deployments.                                              *)
(*                                                                         *)
(* RoundTrip does not follow from the order of a history alone: it needs   *)
(* to know where a superseded deployment comes from.  IInv adds that       *)
(* another, applied or superseded in its turn, follows it, which is what   *)
(* an upgrade finds again after a downgrade has made both applied.         *)
(* CoverInv adds that what is applied under a certificate whose names are  *)
(* recorded lists no other name, which is what certificate_covers goes by  *)
(* when the names are lost.                                                *)
(***************************************************************************)
EXTENDS Migration, TLAPS

\* A superseded deployment is followed by one that has been applied later.
Followed ==
  \A j \in DOMAIN rows : rows[j].status = "SUPERSEDED" =>
    \E k \in DOMAIN rows :
      k > j /\ rows[k].domain = rows[j].domain /\ rows[k].status \in {"APPLIED", "SUPERSEDED"}

\* The two parts of TypeOK.
RowsOK ==
  /\ rows \in Seq(Row)
  /\ \A i \in DOMAIN rows :
       /\ (rows[i].ssl_enabled = NoColumn) = ~ New
       /\ (rows[i].cert_name = NoColumn) = ~ New
       /\ rows[i].status = "SUPERSEDED" => New
Recorded == {NoCert} \cup IF New THEN SUBSET Name ELSE {NoColumn}
NamesOK == names \in [Domain -> SUBSET Name] /\ certs \in [Domain -> [Cert -> Recorded]]

IInv == RowsOK /\ HistoryIsUnambiguous /\ (New => Followed)

\* The columns say what the text does.
ColumnsFollow ==
  New => \A i \in DOMAIN rows :
    rows[i].ssl_enabled = rows[i].text.ssl /\ rows[i].cert_name = rows[i].text.live

-----------------------------------------------------------------------------
(* Sequences as functions *)

LEMMA AllRows ==
  ASSUME RowsOK
  PROVE  /\ Len(rows) \in Nat /\ DOMAIN rows = 1 .. Len(rows)
         /\ \A i \in DOMAIN rows : rows[i] \in Row
BY DEF RowsOK

LEMMA Rewritten ==
  ASSUME RowsOK, NEW f, f = [i \in DOMAIN rows |-> f[i]], \A i \in DOMAIN rows : f[i] \in Row
  PROVE  f \in Seq(Row) /\ DOMAIN f = DOMAIN rows
<1>1. f \in [1 .. Len(rows) -> Row] /\ Len(rows) \in Nat
  BY AllRows
<1> QED
  BY <1>1

\* A deployment is appended.
LEMMA Inserted ==
  ASSUME IInv, NEW row \in Row, rows' = Append(rows, row), version' = version,
         New => row.ssl_enabled # NoColumn /\ row.cert_name # NoColumn,
         ~ New => row.ssl_enabled = NoColumn /\ row.cert_name = NoColumn,
         row.status # "SUPERSEDED",
         New /\ row.status = "APPLIED" => \A i \in DOMAIN rows : rows[i].domain # row.domain
  PROVE  /\ IInv'
         /\ ColumnsFollow
              /\ (New => row.ssl_enabled = row.text.ssl /\ row.cert_name = row.text.live)
            => ColumnsFollow'
<1> DEFINE last == Len(rows) + 1
<1>1. New' = New
  BY DEF New
<1>2. Len(rows) \in Nat /\ DOMAIN rows = 1 .. Len(rows) /\ rows \in Seq(Row)
  BY AllRows DEF IInv, RowsOK
<1>3. DOMAIN rows' = DOMAIN rows \cup {last}
  BY <1>2
<1>4. \A i \in DOMAIN rows : rows'[i] = rows[i] /\ i < last
  BY <1>2
<1>5. rows'[last] = row
  BY <1>2
<1>6. rows' \in Seq(Row)
  BY <1>2
<1> HIDE DEF last
<1>7. RowsOK'
  BY <1>1, <1>3, <1>4, <1>5, <1>6 DEF IInv, RowsOK
<1>8. HistoryIsUnambiguous'
  BY <1>1, <1>3, <1>4, <1>5 DEF IInv, HistoryIsUnambiguous
<1>9. New' => Followed'
  BY <1>1, <1>3, <1>4, <1>5 DEF IInv, Followed
<1>10. ColumnsFollow /\ (New => row.ssl_enabled = row.text.ssl /\ row.cert_name = row.text.live)
         => ColumnsFollow'
  BY <1>1, <1>3, <1>4, <1>5 DEF ColumnsFollow
<1> QED
  BY <1>7, <1>8, <1>9, <1>10 DEF IInv

-----------------------------------------------------------------------------
(* The migrations *)

\* What an upgrade makes of each deployment.
LEMMA UpgradedRows ==
  ASSUME NEW rs, \A i \in DOMAIN rs : rs[i] \in Row
  PROVE  /\ Upgraded(rs) = [i \in DOMAIN rs |-> Upgraded(rs)[i]]
         /\ \A i \in DOMAIN rs :
              Upgraded(rs)[i] =
                [domain |-> rs[i].domain, text |-> rs[i].text,
                 status |-> IF rs[i].status = "APPLIED"
                               /\ \E j \in DOMAIN rs : j > i /\ rs[j].domain = rs[i].domain
                                                       /\ rs[j].status = "APPLIED"
                            THEN "SUPERSEDED" ELSE rs[i].status,
                 ssl_enabled |-> rs[i].text.ssl, cert_name |-> rs[i].text.live]
<1> DEFINE filled == [i \in DOMAIN rs |->
             [rs[i] EXCEPT !.ssl_enabled = rs[i].text.ssl, !.cert_name = rs[i].text.live]]
<1>1. Upgraded(rs) = OneApplied(filled) /\ DOMAIN filled = DOMAIN rs
  BY DEF Upgraded
<1>2. \A i \in DOMAIN rs :
        filled[i] = [domain |-> rs[i].domain, text |-> rs[i].text, status |-> rs[i].status,
                     ssl_enabled |-> rs[i].text.ssl, cert_name |-> rs[i].text.live]
  <2> TAKE i \in DOMAIN rs
  <2>1. filled[i] = [rs[i] EXCEPT !.ssl_enabled = rs[i].text.ssl, !.cert_name = rs[i].text.live]
    OBVIOUS
  <2> HIDE DEF filled
  <2> QED
    BY <2>1 DEF Row
<1> HIDE DEF filled
<1>3. \A i \in DOMAIN rs : filled[i].domain = rs[i].domain /\ filled[i].status = rs[i].status
  <2> TAKE i \in DOMAIN rs
  <2> DEFINE row == filled[i]
  <2>1. row = [domain |-> rs[i].domain, text |-> rs[i].text, status |-> rs[i].status,
               ssl_enabled |-> rs[i].text.ssl, cert_name |-> rs[i].text.live]
    BY <1>2
  <2> HIDE DEF row
  <2>2. row.domain = rs[i].domain /\ row.status = rs[i].status
    BY <2>1
  <2> QED
    BY <2>2 DEF row
<1> DEFINE later(i) == \E j \in DOMAIN rs :
             j > i /\ rs[j].domain = rs[i].domain /\ rs[j].status = "APPLIED"
<1>4. \A i \in DOMAIN rs : later(i) <=> \E j \in DOMAIN rs :
        j > i /\ filled[j].domain = filled[i].domain /\ filled[j].status = "APPLIED"
  BY <1>3
<1>5. Upgraded(rs) = [i \in DOMAIN rs |->
        IF filled[i].status = "APPLIED"
           /\ \E j \in DOMAIN rs : j > i /\ filled[j].domain = filled[i].domain /\ filled[j].status = "APPLIED"
        THEN [filled[i] EXCEPT !.status = "SUPERSEDED"] ELSE filled[i]]
  BY <1>1 DEF OneApplied
<1>6. \A i \in DOMAIN rs : Upgraded(rs)[i] =
        IF rs[i].status = "APPLIED" /\ later(i)
        THEN [filled[i] EXCEPT !.status = "SUPERSEDED"] ELSE filled[i]
  <2> TAKE i \in DOMAIN rs
  <2> HIDE DEF later
  <2>1. Upgraded(rs)[i] = IF filled[i].status = "APPLIED" /\ later(i)
                          THEN [filled[i] EXCEPT !.status = "SUPERSEDED"] ELSE filled[i]
    BY <1>4, <1>5
  <2> QED
    BY <2>1, <1>3
<1>7. \A i \in DOMAIN rs : Upgraded(rs)[i] =
        [domain |-> rs[i].domain, text |-> rs[i].text,
         status |-> IF rs[i].status = "APPLIED" /\ later(i) THEN "SUPERSEDED" ELSE rs[i].status,
         ssl_enabled |-> rs[i].text.ssl, cert_name |-> rs[i].text.live]
  <2> TAKE i \in DOMAIN rs
  <2> DEFINE row == filled[i]
  <2>1. row = [domain |-> rs[i].domain, text |-> rs[i].text, status |-> rs[i].status,
               ssl_enabled |-> rs[i].text.ssl, cert_name |-> rs[i].text.live]
    BY <1>2
  <2>2. Upgraded(rs)[i] = IF rs[i].status = "APPLIED" /\ later(i)
                          THEN [row EXCEPT !.status = "SUPERSEDED"] ELSE row
    BY <1>6
  <2> HIDE DEF later, row
  <2> QED
    BY <2>1, <2>2
<1> QED
  BY <1>5, <1>7

LEMMA DowngradedRows ==
  ASSUME NEW rs, \A i \in DOMAIN rs : rs[i] \in Row
  PROVE  /\ DOMAIN Downgraded(rs) = DOMAIN rs
         /\ Downgraded(rs) = [i \in DOMAIN rs |-> Downgraded(rs)[i]]
         /\ \A i \in DOMAIN rs :
              Downgraded(rs)[i] =
                [domain |-> rs[i].domain, text |-> rs[i].text,
                 status |-> IF rs[i].status = "SUPERSEDED" THEN "APPLIED" ELSE rs[i].status,
                 ssl_enabled |-> NoColumn, cert_name |-> NoColumn]
BY DEF Downgraded, Row

\* Migrations leave the domain and the text of a deployment alone.
LEMMA UpgradedTexts ==
  ASSUME NEW rs, \A i \in DOMAIN rs : rs[i] \in Row
  PROVE  \A i \in DOMAIN rs : Upgraded(rs)[i].domain = rs[i].domain /\ Upgraded(rs)[i].text = rs[i].text
<1> TAKE i \in DOMAIN rs
<1>1. PICK status : Upgraded(rs)[i] =
        [domain |-> rs[i].domain, text |-> rs[i].text, status |-> status,
         ssl_enabled |-> rs[i].text.ssl, cert_name |-> rs[i].text.live]
  BY UpgradedRows
<1> QED
  BY <1>1

LEMMA DowngradedTexts ==
  ASSUME NEW rs, \A i \in DOMAIN rs : rs[i] \in Row
  PROVE  \A i \in DOMAIN rs : Downgraded(rs)[i].domain = rs[i].domain /\ Downgraded(rs)[i].text = rs[i].text
<1> TAKE i \in DOMAIN rs
<1>1. PICK status : Downgraded(rs)[i] =
        [domain |-> rs[i].domain, text |-> rs[i].text, status |-> status,
         ssl_enabled |-> NoColumn, cert_name |-> NoColumn]
  BY DowngradedRows
<1> QED
  BY <1>1

LEMMA UpgradeStep ==
  ASSUME IInv, Upgrade
  PROVE  IInv' /\ ColumnsFollow'
<1>1. ~ New /\ New' /\ rows' = Upgraded(rows)
  BY DEF Upgrade, New
<1>2. /\ DOMAIN rows = 1 .. Len(rows) /\ Len(rows) \in Nat
      /\ \A i \in DOMAIN rows : rows[i] \in Row /\ rows[i].status # "SUPERSEDED"
  BY <1>1, AllRows DEF IInv, RowsOK
<1>3. /\ rows' = [i \in DOMAIN rows |-> rows'[i]]
      /\ \A i \in DOMAIN rows :
           rows'[i] =
             [domain |-> rows[i].domain, text |-> rows[i].text,
              status |-> IF rows[i].status = "APPLIED"
                            /\ \E j \in DOMAIN rows : j > i /\ rows[j].domain = rows[i].domain
                                                    /\ rows[j].status = "APPLIED"
                         THEN "SUPERSEDED" ELSE rows[i].status,
              ssl_enabled |-> rows[i].text.ssl, cert_name |-> rows[i].text.live]
  BY <1>1, <1>2, UpgradedRows DEF Row
<1>4. \A i \in DOMAIN rows : rows'[i] \in Row
  <2> TAKE i \in DOMAIN rows
  <2>1. rows[i] \in Row
    BY <1>2
  <2> QED
    BY <2>1, <1>3 DEF Row, Status, Text
<1>5. rows' \in Seq(Row) /\ DOMAIN rows' = DOMAIN rows
  BY <1>3, <1>4, Rewritten DEF IInv
<1>6. \A i \in DOMAIN rows :
        /\ rows'[i].ssl_enabled = rows'[i].text.ssl /\ rows'[i].cert_name = rows'[i].text.live
        /\ rows'[i].ssl_enabled # NoColumn /\ rows'[i].cert_name # NoColumn
  <2> TAKE i \in DOMAIN rows
  <2>1. rows[i].text \in Text
    BY <1>2 DEF Row
  <2> QED
    BY <2>1, <1>3, TextAssumption DEF Text
<1>7. RowsOK' /\ ColumnsFollow'
  BY <1>1, <1>5, <1>6 DEF RowsOK, ColumnsFollow
<1>8. HistoryIsUnambiguous'
  <2> SUFFICES ASSUME NEW i \in DOMAIN rows, NEW j \in DOMAIN rows, i # j,
                      rows[i].domain = rows[j].domain, rows'[i].status = "APPLIED"
               PROVE  rows'[j].status # "APPLIED" /\ (rows'[j].status = "SUPERSEDED" => j < i)
    BY <1>3, <1>5 DEF HistoryIsUnambiguous
  <2>1. rows[i].status = "APPLIED" /\ ~ (j > i /\ rows[j].status = "APPLIED")
    BY <1>2, <1>3
  <2>2. rows'[j].status \in {"APPLIED", "SUPERSEDED"} => rows[j].status = "APPLIED" /\ j < i
    BY <1>2, <1>3, <2>1
  <2>3. rows[j].status = "APPLIED" /\ j < i => rows'[j].status = "SUPERSEDED"
    BY <1>2, <1>3, <2>1
  <2> QED
    BY <2>2, <2>3
<1>9. Followed'
  BY <1>2, <1>3, <1>5 DEF Followed
<1> QED
  BY <1>7, <1>8, <1>9 DEF IInv

LEMMA DowngradeStep ==
  ASSUME IInv, Downgrade
  PROVE  IInv'
<1>1. New /\ ~ New' /\ rows' = Downgraded(rows)
  BY DEF Downgrade, New
<1>2. \A i \in DOMAIN rows : rows[i] \in Row
  BY AllRows DEF IInv
<1>3. /\ DOMAIN rows' = DOMAIN rows
      /\ rows' = [i \in DOMAIN rows |-> rows'[i]]
      /\ \A i \in DOMAIN rows :
           rows'[i] =
             [domain |-> rows[i].domain, text |-> rows[i].text,
              status |-> IF rows[i].status = "SUPERSEDED" THEN "APPLIED" ELSE rows[i].status,
              ssl_enabled |-> NoColumn, cert_name |-> NoColumn]
  BY <1>1, <1>2, DowngradedRows
<1>4. \A i \in DOMAIN rows : rows'[i] \in Row
  BY <1>2, <1>3 DEF Row, Status
<1>5. rows' \in Seq(Row)
  BY <1>3, <1>4, Rewritten DEF IInv
<1>6. RowsOK'
  BY <1>1, <1>3, <1>5 DEF RowsOK
<1> QED
  BY <1>1, <1>6 DEF IInv, HistoryIsUnambiguous

-----------------------------------------------------------------------------
(* What the releases write *)

LEMMA RenderedText ==
  ASSUME NEW cert \in Cert \cup {NoCert}, NEW ns \in SUBSET Name, NEW text \in {Plain, Rendered(cert, ns)}
  PROVE  /\ text \in Text /\ text.ssl \in BOOLEAN
         /\ text.ssl <=> text.live # NoCert
         /\ text.names \subseteq ns /\ text.live \in {NoCert, cert}
<1>1. CASE text = Plain
  BY <1>1 DEF Plain, Text
<1>2. CASE text = Rendered(cert, ns)
  <2>1. text.live = cert /\ text.names = ns /\ text = [ssl |-> cert # NoCert, live |-> cert, names |-> ns]
    BY <1>2 DEF Rendered
  <2>2. CASE cert = NoCert
    <3>1. (cert # NoCert) = FALSE
      BY <2>2
    <3>2. text = [ssl |-> FALSE, live |-> cert, names |-> ns]
      BY <2>1, <3>1
    <3> QED
      BY <2>1, <2>2, <3>2 DEF Text
  <2>3. CASE cert # NoCert
    <3>1. (cert # NoCert) = TRUE
      BY <2>3
    <3>2. text = [ssl |-> TRUE, live |-> cert, names |-> ns]
      BY <2>1, <3>1
    <3> QED
      BY <2>1, <2>3, <3>2 DEF Text
  <2> QED
    BY <2>2, <2>3
<1> QED
  BY <1>1, <1>2

LEMMA InsertOldStep ==
  ASSUME IInv, InsertOld
  PROVE  IInv' /\ ~ New'
<1>1. PICK d \in Domain, status \in Status \ {"SUPERSEDED"},
           ns \in (SUBSET Name) \ {{}}, cert \in Cert \cup {NoCert} :
        /\ \E text \in {Plain, Rendered(cert, ns)} : Insert(d, status, text, NoColumn, NoColumn)
        /\ names' = [names EXCEPT ![d] = ns]
        /\ \E column \in {NoCert, NoColumn} : certs' = Certified(d, cert, column)
  BY DEF InsertOld
<1>2. PICK text \in {Plain, Rendered(cert, ns)} : Insert(d, status, text, NoColumn, NoColumn)
  BY <1>1
<1> DEFINE row == [domain |-> d, status |-> status, text |-> text,
                   ssl_enabled |-> NoColumn, cert_name |-> NoColumn]
<1>3. ~ New /\ ~ New' /\ rows' = Append(rows, row) /\ version' = version
  BY <1>2 DEF InsertOld, Insert, New
<1>4. row \in Row
  BY RenderedText DEF Row
<1>5. row.status # "SUPERSEDED" /\ row.ssl_enabled = NoColumn /\ row.cert_name = NoColumn
  OBVIOUS
<1> HIDE DEF row
<1> QED
  BY <1>3, <1>4, <1>5, Inserted

LEMMA DraftStep ==
  ASSUME IInv, Draft
  PROVE  IInv' /\ (ColumnsFollow => ColumnsFollow')
<1>1. PICK d \in Domain, ns \in (SUBSET Name) \ {{}}, cert \in Cert \cup {NoCert} :
        /\ \A k \in Applied(rows, d) :
             IF rows[k].ssl_enabled THEN cert # NoCert /\ rows[k].cert_name \in {cert, NoCert}
             ELSE cert = NoCert
        /\ Applied(rows, d) = {} => cert = NoCert
        /\ \E text \in {Plain, Rendered(cert, ns)} : Insert(d, "DRAFT", text, text.ssl, text.live)
        /\ names' = [names EXCEPT ![d] = ns]
  BY DEF Draft
<1>2. PICK text \in {Plain, Rendered(cert, ns)} : Insert(d, "DRAFT", text, text.ssl, text.live)
  BY <1>1
<1> DEFINE row == [domain |-> d, status |-> "DRAFT", text |-> text,
                   ssl_enabled |-> text.ssl, cert_name |-> text.live]
<1>3. New /\ rows' = Append(rows, row) /\ version' = version
  BY <1>2 DEF Draft, Insert
<1>4. text \in Text /\ text.ssl \in BOOLEAN /\ text.live \in Cert \cup {NoCert}
  BY RenderedText DEF Text
<1>5. row \in Row
  BY <1>4 DEF Row, Status
<1>6. /\ row.status = "DRAFT" /\ row.ssl_enabled # NoColumn /\ row.cert_name # NoColumn
      /\ row.ssl_enabled = row.text.ssl /\ row.cert_name = row.text.live
  BY <1>4, TextAssumption
<1> HIDE DEF row
<1> QED
  BY <1>3, <1>5, <1>6, Inserted

LEMMA ImportedStep ==
  ASSUME IInv, Imported
  PROVE  IInv' /\ (Comments = {Plain} /\ ColumnsFollow => ColumnsFollow')
<1>1. PICK d \in Domain, ns \in (SUBSET Name) \ {{}}, cert \in Cert \cup {NoCert}, comment \in Comments :
        /\ \A i \in DOMAIN rows : rows[i].domain # d
        /\ \E rule \in {Plain, Rendered(cert, ns)} :
             /\ Insert(d, "APPLIED",
                       [ssl |-> rule.ssl \/ comment.ssl,
                        live |-> IF comment.live # NoCert THEN comment.live ELSE rule.live,
                        names |-> rule.names \cup comment.names],
                       rule.ssl, rule.live)
             /\ \E recorded \in {NoCert, ns} : certs' = Certified(d, rule.live, recorded)
        /\ names' = [names EXCEPT ![d] = ns]
  BY DEF Imported
<1>2. PICK rule \in {Plain, Rendered(cert, ns)} :
        /\ Insert(d, "APPLIED",
                  [ssl |-> rule.ssl \/ comment.ssl,
                   live |-> IF comment.live # NoCert THEN comment.live ELSE rule.live,
                   names |-> rule.names \cup comment.names],
                  rule.ssl, rule.live)
        /\ \E recorded \in {NoCert, ns} : certs' = Certified(d, rule.live, recorded)
  BY <1>1
<1> DEFINE text == [ssl |-> rule.ssl \/ comment.ssl,
                    live |-> IF comment.live # NoCert THEN comment.live ELSE rule.live,
                    names |-> rule.names \cup comment.names]
           row == [domain |-> d, status |-> "APPLIED", text |-> text,
                   ssl_enabled |-> rule.ssl, cert_name |-> rule.live]
<1>3. New /\ rows' = Append(rows, row) /\ version' = version
  BY <1>2 DEF Imported, Insert
<1>4. /\ rule.ssl \in BOOLEAN /\ rule.live \in Cert \cup {NoCert} /\ rule.names \subseteq Name
      /\ rule.ssl # NoColumn /\ rule.live # NoColumn
  BY RenderedText, TextAssumption DEF Text
<1>5. text \in Text
  BY <1>4, TextAssumption DEF Text
<1>6. Comments = {Plain} => text.ssl = rule.ssl /\ text.live = rule.live
  BY <1>4 DEF Plain
<1> HIDE DEF text
<1>7. row \in Row
  BY <1>4, <1>5 DEF Row, Status
<1>8. /\ row.domain = d /\ row.status = "APPLIED" /\ row.text = text
      /\ row.ssl_enabled = rule.ssl /\ row.cert_name = rule.live
  OBVIOUS
<1> HIDE DEF row
<1> QED
  BY <1>1, <1>3, <1>4, <1>6, <1>7, <1>8, Inserted

\* issue_certificate appends its deployment, and leaves those there are as they
\* are but for the status of the applied one.
LEMMA IssuedRows ==
  ASSUME IInv, NamesOK, NEW i \in DOMAIN rows, NEW cert \in Cert, Issue(i, cert)
  PROVE  LET last == Len(rows) + 1 IN
         /\ DOMAIN rows' = DOMAIN rows \cup {last} /\ rows' \in Seq(Row)
         /\ rows[i].domain \in Domain
         /\ rows'[last] = [domain |-> rows[i].domain, status |-> "APPLIED",
                          text |-> Rendered(cert, names[rows[i].domain]),
                          ssl_enabled |-> TRUE, cert_name |-> cert]
         /\ \A j \in DOMAIN rows :
              /\ j < last /\ j \in Nat
              /\ rows'[j].domain = rows[j].domain /\ rows'[j].text = rows[j].text
              /\ rows'[j].ssl_enabled = rows[j].ssl_enabled /\ rows'[j].cert_name = rows[j].cert_name
              /\ rows'[j].status =
                   IF rows[j].domain = rows[i].domain /\ rows[j].status = "APPLIED"
                   THEN "SUPERSEDED" ELSE rows[j].status
<1> DEFINE last == Len(rows) + 1
           d == rows[i].domain
           superseded == [j \in DOMAIN rows |->
             IF j \in Applied(rows, d) THEN [rows[j] EXCEPT !.status = "SUPERSEDED"] ELSE rows[j]]
           row == [domain |-> d, status |-> "APPLIED", text |-> Rendered(cert, names[d]),
                   ssl_enabled |-> TRUE, cert_name |-> cert]
<1>1. rows' = Append(superseded, row)
  BY DEF Issue
<1>2. /\ DOMAIN rows = 1 .. Len(rows) /\ Len(rows) \in Nat
      /\ \A j \in DOMAIN rows : rows[j] \in Row
  BY AllRows DEF IInv
<1>3. d \in Domain /\ names[d] \in SUBSET Name
  BY <1>2 DEF Row, NamesOK
<1>4. row \in Row
  BY <1>3 DEF Row, Text, Rendered, Status
<1>5. ASSUME NEW j \in DOMAIN rows
      PROVE  /\ superseded[j] \in Row
             /\ superseded[j].domain = rows[j].domain /\ superseded[j].text = rows[j].text
             /\ superseded[j].ssl_enabled = rows[j].ssl_enabled
             /\ superseded[j].cert_name = rows[j].cert_name
             /\ superseded[j].status =
                  IF rows[j].domain = d /\ rows[j].status = "APPLIED"
                  THEN "SUPERSEDED" ELSE rows[j].status
  <2>1. rows[j] \in Row
    BY <1>2
  <2>2. superseded[j] = IF rows[j].domain = d /\ rows[j].status = "APPLIED"
                        THEN [rows[j] EXCEPT !.status = "SUPERSEDED"] ELSE rows[j]
    BY DEF Applied
  <2> HIDE DEF superseded
  <2> QED
    BY <2>1, <2>2 DEF Row, Status
<1>6. superseded = [j \in DOMAIN rows |-> superseded[j]]
  OBVIOUS
<1> HIDE DEF superseded, row
<1>7. superseded \in Seq(Row) /\ DOMAIN superseded = DOMAIN rows
  BY <1>5, <1>6, Rewritten DEF IInv
<1>8. Len(superseded) = Len(rows)
  BY <1>2, <1>7
<1>9. /\ rows' \in Seq(Row) /\ DOMAIN rows' = DOMAIN rows \cup {last} /\ rows'[last] = row
      /\ \A j \in DOMAIN rows : rows'[j] = superseded[j] /\ j < last /\ j \in Nat
  BY <1>1, <1>2, <1>4, <1>7, <1>8
<1> QED
  BY <1>3, <1>5, <1>9 DEF row

LEMMA IssueStep ==
  ASSUME IInv, NamesOK, NEW i \in DOMAIN rows, NEW cert \in Cert, Issue(i, cert)
  PROVE  IInv' /\ (ColumnsFollow => ColumnsFollow')
<1> DEFINE d == rows[i].domain
<1>0. PICK last : last = Len(rows) + 1
  OBVIOUS
<1>1. New /\ New'
  BY DEF Issue, New
<1>2. /\ DOMAIN rows' = DOMAIN rows \cup {last} /\ rows' \in Seq(Row)
      /\ rows'[last] = [domain |-> d, status |-> "APPLIED", text |-> Rendered(cert, names[d]),
                       ssl_enabled |-> TRUE, cert_name |-> cert]
      /\ \A j \in DOMAIN rows :
           /\ j < last /\ j \in Nat
           /\ rows'[j].domain = rows[j].domain /\ rows'[j].text = rows[j].text
           /\ rows'[j].ssl_enabled = rows[j].ssl_enabled /\ rows'[j].cert_name = rows[j].cert_name
           /\ rows'[j].status = IF rows[j].domain = d /\ rows[j].status = "APPLIED"
                               THEN "SUPERSEDED" ELSE rows[j].status
  BY <1>0, IssuedRows
<1>3. /\ rows'[last].domain = d /\ rows'[last].status = "APPLIED"
      /\ rows'[last].ssl_enabled = TRUE /\ rows'[last].cert_name = cert
      /\ rows'[last].text.ssl = TRUE /\ rows'[last].text.live = cert
  <2>1. names[d] \in SUBSET Name
    BY AllRows DEF NamesOK, IInv, Row
  <2>2. (cert # NoCert) = TRUE
    BY TextAssumption
  <2>3. Rendered(cert, names[d]) = [ssl |-> TRUE, live |-> cert, names |-> names[d]]
    BY <2>2 DEF Rendered
  <2> QED
    BY <1>2, <2>3
<1>4. TRUE # NoColumn /\ cert # NoColumn
  BY TextAssumption
<1>5. RowsOK'
  BY <1>1, <1>2, <1>3, <1>4 DEF IInv, RowsOK
<1>6. HistoryIsUnambiguous'
  BY <1>1, <1>2, <1>3 DEF IInv, HistoryIsUnambiguous
<1>7. Followed'
  BY <1>1, <1>2, <1>3 DEF IInv, Followed
<1>8. ColumnsFollow => ColumnsFollow'
  BY <1>1, <1>2, <1>3 DEF ColumnsFollow
<1> QED
  BY <1>1, <1>5, <1>6, <1>7, <1>8 DEF IInv

LEMMA ApplyStep ==
  ASSUME IInv, NEW i \in DOMAIN rows, Apply(i)
  PROVE  IInv' /\ (ColumnsFollow => ColumnsFollow')
<1>1. New /\ New' /\ Latest(i)
  BY DEF Apply, New
<1>2. /\ DOMAIN rows = 1 .. Len(rows) /\ Len(rows) \in Nat
      /\ \A j \in DOMAIN rows : rows[j] \in Row
  BY AllRows DEF IInv
<1>3. /\ rows' = [j \in DOMAIN rows |-> rows'[j]]
      /\ \A j \in DOMAIN rows :
           rows'[j] = IF j = i THEN [rows[i] EXCEPT !.status = "APPLIED"]
                      ELSE IF rows[j].domain = rows[i].domain /\ rows[j].status = "APPLIED"
                      THEN [rows[j] EXCEPT !.status = "SUPERSEDED"] ELSE rows[j]
  BY DEF Apply
<1>4. ASSUME NEW j \in DOMAIN rows
      PROVE  /\ rows'[j] \in Row
             /\ rows'[j].domain = rows[j].domain /\ rows'[j].text = rows[j].text
             /\ rows'[j].ssl_enabled = rows[j].ssl_enabled /\ rows'[j].cert_name = rows[j].cert_name
             /\ rows'[j].status =
                  IF j = i THEN "APPLIED"
                  ELSE IF rows[j].domain = rows[i].domain /\ rows[j].status = "APPLIED"
                  THEN "SUPERSEDED" ELSE rows[j].status
  <2>1. rows[j] \in Row
    BY <1>2
  <2>2. CASE j = i
    BY <2>1, <2>2, <1>3 DEF Row, Status
  <2>3. CASE j # i
    BY <2>1, <2>3, <1>3 DEF Row, Status
  <2> QED
    BY <2>2, <2>3
<1>5. rows' \in Seq(Row) /\ DOMAIN rows' = DOMAIN rows
  BY <1>3, <1>4, Rewritten DEF IInv
<1>6. RowsOK'
  BY <1>1, <1>4, <1>5 DEF IInv, RowsOK
<1>7. \A j \in DOMAIN rows : rows[j].domain = rows[i].domain => j <= i
  BY <1>1 DEF Latest
<1>8. HistoryIsUnambiguous'
  BY <1>1, <1>2, <1>4, <1>5, <1>7 DEF IInv, HistoryIsUnambiguous
<1>9. Followed'
  <2> SUFFICES ASSUME NEW j \in DOMAIN rows, rows'[j].status = "SUPERSEDED"
               PROVE  \E k \in DOMAIN rows : k > j /\ rows'[k].domain = rows'[j].domain
                        /\ rows'[k].status \in {"APPLIED", "SUPERSEDED"}
    BY <1>5 DEF Followed
  <2>1. CASE rows[j].domain = rows[i].domain
    <3>1. j # i /\ j <= i
      BY <2>1, <1>4, <1>7
    <3>2. i > j /\ rows'[i].domain = rows'[j].domain /\ rows'[i].status = "APPLIED"
      BY <3>1, <2>1, <1>2, <1>4
    <3> QED
      BY <3>2
  <2>2. CASE rows[j].domain # rows[i].domain
    <3>1. rows[j].status = "SUPERSEDED"
      BY <2>2, <1>4
    <3>2. PICK k \in DOMAIN rows : k > j /\ rows[k].domain = rows[j].domain
                                   /\ rows[k].status \in {"APPLIED", "SUPERSEDED"}
      BY <3>1, <1>1 DEF IInv, Followed
    <3> QED
      BY <2>2, <3>2, <1>4
  <2> QED
    BY <2>1, <2>2
<1> QED
  BY <1>1, <1>4, <1>5, <1>6, <1>8, <1>9 DEF IInv, ColumnsFollow

LEMMA FailStep ==
  ASSUME IInv, NEW i \in DOMAIN rows, Fail(i)
  PROVE  IInv' /\ (ColumnsFollow => ColumnsFollow')
<1>1. New /\ New' /\ Latest(i)
  BY DEF Fail, New
<1>2. /\ DOMAIN rows = 1 .. Len(rows) /\ Len(rows) \in Nat
      /\ \A j \in DOMAIN rows : rows[j] \in Row
  BY AllRows DEF IInv
<1>3. /\ rows' = [j \in DOMAIN rows |-> rows'[j]]
      /\ \A j \in DOMAIN rows :
           rows'[j] = IF j = i
                      THEN [rows[i] EXCEPT !.status = IF @ = "APPLIED" THEN @ ELSE "ERROR"]
                      ELSE rows[j]
  BY DEF Fail
<1>4. ASSUME NEW j \in DOMAIN rows
      PROVE  /\ rows'[j] \in Row
             /\ rows'[j].domain = rows[j].domain /\ rows'[j].text = rows[j].text
             /\ rows'[j].ssl_enabled = rows[j].ssl_enabled /\ rows'[j].cert_name = rows[j].cert_name
             /\ rows'[j].status = IF j = i /\ rows[j].status # "APPLIED" THEN "ERROR" ELSE rows[j].status
  <2>1. rows[j] \in Row
    BY <1>2
  <2>2. CASE j = i
    BY <2>1, <2>2, <1>3 DEF Row, Status
  <2>3. CASE j # i
    BY <2>1, <2>3, <1>3
  <2> QED
    BY <2>2, <2>3
<1>5. rows' \in Seq(Row) /\ DOMAIN rows' = DOMAIN rows
  BY <1>3, <1>4, Rewritten DEF IInv
<1>6. RowsOK'
  BY <1>1, <1>4, <1>5 DEF IInv, RowsOK
<1>7. rows[i].status # "SUPERSEDED"
  BY <1>1, <1>2 DEF IInv, Followed, Latest
<1>8. HistoryIsUnambiguous'
  BY <1>1, <1>4, <1>5 DEF IInv, HistoryIsUnambiguous
<1>9. Followed'
  BY <1>1, <1>4, <1>5, <1>7 DEF IInv, Followed
<1> QED
  BY <1>1, <1>4, <1>5, <1>6, <1>8, <1>9 DEF IInv, ColumnsFollow

-----------------------------------------------------------------------------
(* The names *)

LEMMA CertifiedNames ==
  ASSUME NamesOK, NEW d, NEW c, NEW ns, ns \in Recorded', Recorded' = Recorded,
         certs' = Certified(d, c, ns)
  PROVE  certs' \in [Domain -> [Cert -> Recorded']]
BY DEF NamesOK, Certified

LEMMA NamesStep ==
  ASSUME IInv, NamesOK, [Next]_vars
  PROVE  NamesOK'
<1> USE DEF Recorded
<1>1. \A j \in DOMAIN rows : rows[j].domain \in Domain
  BY AllRows DEF IInv, Row
<1>2. CASE Upgrade
  BY <1>2 DEF Upgrade, NamesAdded, NamesOK, New
<1>3. CASE Downgrade
  BY <1>3 DEF Downgrade, NamesDropped, NamesOK, New
<1>4. CASE InsertOld
  <2>1. PICK d \in Domain, ns \in (SUBSET Name) \ {{}}, cert \in Cert \cup {NoCert} :
          /\ names' = [names EXCEPT ![d] = ns]
          /\ \E column \in {NoCert, NoColumn} : certs' = Certified(d, cert, column)
    BY <1>4 DEF InsertOld
  <2>2. New' = New /\ ~ New
    BY <1>4 DEF InsertOld, Insert, New
  <2> QED
    BY <2>1, <2>2, CertifiedNames DEF NamesOK
<1>5. CASE Draft
  <2>1. PICK d \in Domain, ns \in (SUBSET Name) \ {{}} : names' = [names EXCEPT ![d] = ns]
    BY <1>5 DEF Draft
  <2>2. New' = New /\ certs' = certs
    BY <1>5 DEF Draft, Insert, New
  <2> QED
    BY <2>1, <2>2 DEF NamesOK
<1>6. CASE Imported
  <2>1. PICK d \in Domain, ns \in (SUBSET Name) \ {{}}, c \in Cert \cup {NoCert} :
          /\ names' = [names EXCEPT ![d] = ns]
          /\ \E recorded \in {NoCert, ns} : certs' = Certified(d, c, recorded)
    <3>1. PICK d \in Domain, ns \in (SUBSET Name) \ {{}}, cert \in Cert \cup {NoCert} :
            /\ \E rule \in {Plain, Rendered(cert, ns)}, recorded \in {NoCert, ns} :
                 certs' = Certified(d, rule.live, recorded)
            /\ names' = [names EXCEPT ![d] = ns]
      BY <1>6 DEF Imported
    <3>2. PICK rule \in {Plain, Rendered(cert, ns)}, recorded \in {NoCert, ns} :
            certs' = Certified(d, rule.live, recorded)
      BY <3>1
    <3>3. rule.live \in Cert \cup {NoCert}
      BY RenderedText
    <3> QED
      BY <3>1, <3>2, <3>3
  <2>2. New' = New /\ New
    BY <1>6 DEF Imported, Insert, New
  <2> QED
    BY <2>1, <2>2, CertifiedNames DEF NamesOK
<1>7. ASSUME NEW i \in DOMAIN rows, Apply(i) \/ Fail(i) PROVE NamesOK'
  BY <1>7 DEF Apply, Fail, NamesOK, New
<1>8. ASSUME NEW i \in DOMAIN rows, NEW cert \in Cert, Issue(i, cert) PROVE NamesOK'
  <2>1. names' = names /\ certs' = Certified(rows[i].domain, cert, names[rows[i].domain])
    BY <1>8 DEF Issue
  <2>2. New' = New /\ New
    BY <1>8 DEF Issue, New
  <2>3. names[rows[i].domain] \in SUBSET Name
    BY <1>1 DEF NamesOK
  <2> QED
    BY <2>1, <2>2, <2>3, CertifiedNames DEF NamesOK
<1>9. ASSUME NEW d \in Domain, NEW c \in Cert, Expire(d, c) PROVE NamesOK'
  BY <1>9, CertifiedNames DEF Expire, NamesOK, New
<1>10. CASE UNCHANGED vars
  BY <1>10 DEF vars, NamesOK, New
<1> QED
  BY <1>2, <1>3, <1>4, <1>5, <1>6, <1>7, <1>8, <1>9, <1>10 DEF Next

-----------------------------------------------------------------------------
(* The theorems *)

LEMMA Initially == Init => IInv /\ NamesOK /\ ColumnsFollow
BY DEF Init, IInv, RowsOK, NamesOK, Recorded, HistoryIsUnambiguous, ColumnsFollow, New

LEMMA IInvStep ==
  ASSUME IInv, NamesOK, [Next]_vars
  PROVE  IInv' /\ (Comments = {Plain} /\ ColumnsFollow => ColumnsFollow')
<1>1. CASE Upgrade
  BY <1>1, UpgradeStep
<1>2. CASE Downgrade
  BY <1>2, DowngradeStep DEF ColumnsFollow, Downgrade, New
<1>3. CASE InsertOld
  BY <1>3, InsertOldStep DEF ColumnsFollow
<1>4. CASE Draft
  BY <1>4, DraftStep
<1>5. CASE Imported
  BY <1>5, ImportedStep
<1>6. ASSUME NEW i \in DOMAIN rows, Apply(i)
      PROVE  IInv' /\ (ColumnsFollow => ColumnsFollow')
  BY <1>6, ApplyStep
<1>7. ASSUME NEW i \in DOMAIN rows, Fail(i)
      PROVE  IInv' /\ (ColumnsFollow => ColumnsFollow')
  BY <1>7, FailStep
<1>8. ASSUME NEW i \in DOMAIN rows, NEW cert \in Cert, Issue(i, cert)
      PROVE  IInv' /\ (ColumnsFollow => ColumnsFollow')
  BY <1>8, IssueStep
<1>9. ASSUME NEW d \in Domain, NEW c \in Cert, Expire(d, c)
      PROVE  IInv' /\ (ColumnsFollow => ColumnsFollow')
  BY <1>9 DEF Expire, IInv, RowsOK, HistoryIsUnambiguous, Followed, ColumnsFollow, New
<1>10. CASE UNCHANGED vars
  BY <1>10 DEF vars, IInv, RowsOK, HistoryIsUnambiguous, Followed, ColumnsFollow, New
<1> QED
  BY <1>1, <1>2, <1>3, <1>4, <1>5, <1>6, <1>7, <1>8, <1>9, <1>10 DEF Next

LEMMA Invariance == Spec => [](IInv /\ NamesOK)
<1>1. IInv /\ NamesOK /\ [Next]_vars => IInv' /\ NamesOK'
  BY IInvStep, NamesStep
<1> QED
  BY <1>1, Initially, PTL DEF Spec

\* Deployments and certificates keep their type, and the columns and statuses of
\* a release are there with its version only (upgrade, downgrade).
THEOREM TypeInvariant == Spec => []TypeOK
<1>1. IInv /\ NamesOK => TypeOK
  BY DEF IInv, RowsOK, NamesOK, Recorded, TypeOK
<1> QED
  BY <1>1, Invariance, PTL

\* Whatever the previous release had applied, at most one deployment of a domain
\* is applied after the upgrade, and those it superseded are older (upgrade,
\* mark_applied).
THEOREM HistoryStaysUnambiguous == Spec => []HistoryIsUnambiguous
<1>1. IInv => HistoryIsUnambiguous
  BY DEF IInv
<1> QED
  BY <1>1, Invariance, PTL

-----------------------------------------------------------------------------
(* What is applied, and what its certificate is known to name *)

\* The names of the certificate are recorded.
Known(d, c) == certs[d][c] \notin {NoCert, NoColumn, {}}

\* The text applied under a certificate lists no name that it lacks.
AppliedIsNamed ==
  \A k \in DOMAIN rows : \A c \in Cert :
    rows[k].status = "APPLIED" /\ rows[k].text.live = c /\ Known(rows[k].domain, c) =>
      rows[k].text.names \subseteq certs[rows[k].domain][c]

\* A draft is for the certificate of the deployment applied.
DraftsFollow ==
  \A i \in DOMAIN rows : \A c \in Cert :
    Latest(i) /\ rows[i].text.live = c /\ Known(rows[i].domain, c) =>
      \E k \in DOMAIN rows :
        rows[k].domain = rows[i].domain /\ rows[k].status = "APPLIED" /\ rows[k].text.live = c

\* The newest text lists names of its domain.
LatestIsNamed ==
  \A i \in DOMAIN rows : Latest(i) => rows[i].text.names \subseteq names[rows[i].domain]

\* A text has a certificate exactly if it has TLS.
CertifiedTexts ==
  \A i \in DOMAIN rows : rows[i].text.ssl <=> rows[i].text.live # NoCert

CoverInv == AppliedIsNamed /\ DraftsFollow /\ LatestIsNamed /\ CertifiedTexts

\* A deployment is appended for a domain that gets the names ns.
LEMMA InsertedTexts ==
  ASSUME RowsOK, NamesOK, CoverInv, NEW row, rows' = Append(rows, row), row.domain \in Domain,
         NEW ns \in SUBSET Name, names' = [names EXCEPT ![row.domain] = ns],
         row.text.names \subseteq ns, row.text.ssl <=> row.text.live # NoCert
  PROVE  LatestIsNamed' /\ CertifiedTexts'
<1>0. PICK last : last = Len(rows) + 1
  OBVIOUS
<1>1. /\ DOMAIN rows' = DOMAIN rows \cup {last} /\ rows'[last] = row
      /\ \A i \in DOMAIN rows : rows'[i] = rows[i] /\ ~ (last <= i)
  BY <1>0, AllRows DEF RowsOK
<1>2. \A i \in DOMAIN rows : Latest(i)' => Latest(i) /\ rows[i].domain # row.domain
  BY <1>1 DEF Latest
<1>3. \A i \in DOMAIN rows : rows[i].domain \in Domain
  BY AllRows DEF Row
<1>4. LatestIsNamed'
  <2> SUFFICES ASSUME NEW i \in DOMAIN rows', Latest(i)'
               PROVE  rows'[i].text.names \subseteq names'[rows'[i].domain]
    BY DEF LatestIsNamed
  <2>1. CASE i = last
    BY <2>1, <1>1 DEF NamesOK
  <2>2. CASE i \in DOMAIN rows
    BY <2>2, <1>1, <1>2, <1>3 DEF NamesOK, CoverInv, LatestIsNamed
  <2> QED
    BY <2>1, <2>2, <1>1
<1>5. CertifiedTexts'
  BY <1>1 DEF CoverInv, CertifiedTexts
<1> QED
  BY <1>4, <1>5

LEMMA DraftCover ==
  ASSUME IInv, NamesOK, ColumnsFollow, CoverInv, Draft
  PROVE  CoverInv'
<1>1. PICK d \in Domain, ns \in (SUBSET Name) \ {{}}, cert \in Cert \cup {NoCert} :
        /\ \A k \in Applied(rows, d) :
             IF rows[k].ssl_enabled THEN cert # NoCert /\ rows[k].cert_name \in {cert, NoCert}
             ELSE cert = NoCert
        /\ Applied(rows, d) = {} => cert = NoCert
        /\ \E text \in {Plain, Rendered(cert, ns)} : Insert(d, "DRAFT", text, text.ssl, text.live)
        /\ names' = [names EXCEPT ![d] = ns]
  BY DEF Draft
<1>2. PICK text \in {Plain, Rendered(cert, ns)} : Insert(d, "DRAFT", text, text.ssl, text.live)
  BY <1>1
<1>3. New /\ certs' = certs
  BY DEF Draft
<1>4. PICK row : /\ rows' = Append(rows, row)
                 /\ row.domain = d /\ row.status = "DRAFT" /\ row.text = text
  BY <1>2 DEF Insert
<1>5. LatestIsNamed' /\ CertifiedTexts'
  <2>1. row.domain \in Domain /\ names' = [names EXCEPT ![row.domain] = ns] /\ ns \in SUBSET Name
    BY <1>1, <1>4
  <2>2. row.text.names \subseteq ns /\ (row.text.ssl <=> row.text.live # NoCert)
    <3>1. text.names \subseteq ns /\ (text.ssl <=> text.live # NoCert)
      BY RenderedText
    <3> QED
      BY <1>4, <3>1
  <2> QED
    BY <1>4, <2>1, <2>2, InsertedTexts DEF IInv
<1>6. PICK last : last = Len(rows) + 1
  OBVIOUS
<1>7. /\ DOMAIN rows' = DOMAIN rows \cup {last} /\ rows'[last] = row
      /\ \A i \in DOMAIN rows : rows'[i] = rows[i] /\ ~ (last <= i)
  BY <1>4, <1>6, AllRows DEF IInv, RowsOK
<1>8. AppliedIsNamed'
  BY <1>3, <1>4, <1>7 DEF CoverInv, AppliedIsNamed, Known
<1>9. DraftsFollow'
  <2> SUFFICES ASSUME NEW i \in DOMAIN rows', NEW c \in Cert, Latest(i)', rows'[i].text.live = c,
                      Known(rows[i].domain, c)'
               PROVE  \E k \in DOMAIN rows' : rows'[k].domain = rows'[i].domain
                        /\ rows'[k].status = "APPLIED" /\ rows'[k].text.live = c
    BY DEF DraftsFollow
  <2>1. CASE i = last
    <3>1. c = cert /\ c # NoCert
      BY <2>1, <1>4, <1>7, RenderedText, TextAssumption
    <3>2. PICK k \in DOMAIN rows : rows[k].domain = d /\ rows[k].status = "APPLIED"
      BY <3>1, <1>1 DEF Applied
    <3>3. rows[k].text.live = c
      <4>1. rows[k].text.ssl /\ rows[k].cert_name \in {cert, NoCert}
        BY <3>1, <3>2, <1>1, <1>3 DEF Applied, ColumnsFollow
      <4> QED
        BY <3>1, <4>1, <1>3 DEF ColumnsFollow, CoverInv, CertifiedTexts
    <3> QED
      BY <2>1, <3>2, <3>3, <1>4, <1>7
  <2>2. CASE i \in DOMAIN rows
    <3>1. Latest(i) /\ rows[i].text.live = c /\ Known(rows[i].domain, c)
      BY <2>2, <1>3, <1>7 DEF Latest, Known
    <3> QED
      BY <2>2, <3>1, <1>7 DEF CoverInv, DraftsFollow
  <2> QED
    BY <2>1, <2>2, <1>7
<1> QED
  BY <1>5, <1>8, <1>9 DEF CoverInv

LEMMA ImportedCover ==
  ASSUME Comments = {Plain}, IInv, NamesOK, CoverInv, Imported
  PROVE  CoverInv'
<1>1. PICK d \in Domain, ns \in (SUBSET Name) \ {{}}, cert \in Cert \cup {NoCert}, comment \in Comments :
        /\ \A i \in DOMAIN rows : rows[i].domain # d
        /\ \E rule \in {Plain, Rendered(cert, ns)} :
             /\ Insert(d, "APPLIED",
                       [ssl |-> rule.ssl \/ comment.ssl,
                        live |-> IF comment.live # NoCert THEN comment.live ELSE rule.live,
                        names |-> rule.names \cup comment.names],
                       rule.ssl, rule.live)
             /\ \E recorded \in {NoCert, ns} : certs' = Certified(d, rule.live, recorded)
        /\ names' = [names EXCEPT ![d] = ns]
  BY DEF Imported
<1>2. PICK rule \in {Plain, Rendered(cert, ns)} :
        /\ Insert(d, "APPLIED",
                  [ssl |-> rule.ssl \/ comment.ssl,
                   live |-> IF comment.live # NoCert THEN comment.live ELSE rule.live,
                   names |-> rule.names \cup comment.names],
                  rule.ssl, rule.live)
        /\ \E recorded \in {NoCert, ns} : certs' = Certified(d, rule.live, recorded)
  BY <1>1
<1>3. PICK recorded \in {NoCert, ns} : certs' = Certified(d, rule.live, recorded)
  BY <1>2
<1> DEFINE text == [ssl |-> rule.ssl \/ comment.ssl,
                    live |-> IF comment.live # NoCert THEN comment.live ELSE rule.live,
                    names |-> rule.names \cup comment.names]
           row == [domain |-> d, status |-> "APPLIED", text |-> text,
                   ssl_enabled |-> rule.ssl, cert_name |-> rule.live]
<1>4. rows' = Append(rows, row)
  BY <1>2 DEF Insert
<1>5. text.live = rule.live /\ text.names \subseteq ns /\ (text.ssl <=> text.live # NoCert)
  <2>1. comment.ssl = FALSE /\ comment.live = NoCert /\ comment.names = {}
    BY DEF Plain
  <2>2. text.live = rule.live /\ text.names = rule.names
    BY <2>1
  <2>3. text.ssl <=> rule.ssl
    BY <2>1
  <2> HIDE DEF text
  <2> QED
    BY <2>2, <2>3, RenderedText
<1> HIDE DEF text
<1>6. row.domain = d /\ row.status = "APPLIED" /\ row.text = text
  OBVIOUS
<1> HIDE DEF row
<1>7. LatestIsNamed' /\ CertifiedTexts'
  <2>1. row.domain \in Domain /\ names' = [names EXCEPT ![row.domain] = ns] /\ ns \in SUBSET Name
    BY <1>1, <1>6
  <2>2. row.text.names \subseteq ns /\ (row.text.ssl <=> row.text.live # NoCert)
    BY <1>5, <1>6
  <2> QED
    BY <1>4, <2>1, <2>2, InsertedTexts DEF IInv
<1>8. PICK last : last = Len(rows) + 1
  OBVIOUS
<1>9. /\ DOMAIN rows' = DOMAIN rows \cup {last} /\ rows'[last] = row
      /\ \A i \in DOMAIN rows : rows'[i] = rows[i] /\ ~ (last <= i) /\ rows[i].domain \in Domain
  BY <1>4, <1>8, AllRows DEF IInv, RowsOK, Row
<1>10. /\ \A c \in Cert : c = rule.live => certs'[d][c] = recorded
      /\ \A e \in Domain \ {d} : \A c \in Cert : certs'[e][c] = certs[e][c]
  BY <1>3 DEF Certified
<1>11. AppliedIsNamed'
  <2> SUFFICES ASSUME NEW k \in DOMAIN rows', NEW c \in Cert, rows'[k].status = "APPLIED",
                      rows'[k].text.live = c, Known(rows[k].domain, c)'
               PROVE  rows'[k].text.names \subseteq certs'[rows'[k].domain][c]
    BY DEF AppliedIsNamed
  <2>1. CASE k = last
    BY <2>1, <1>5, <1>9, <1>10, <1>6 DEF Known
  <2>2. CASE k \in DOMAIN rows
    <3>1. rows[k].domain # d /\ rows[k].domain \in Domain /\ rows'[k] = rows[k]
      BY <2>2, <1>1, <1>9
    <3>2. certs'[rows[k].domain][c] = certs[rows[k].domain][c]
      BY <3>1, <1>10
    <3>3. rows[k].text.names \subseteq certs[rows[k].domain][c]
      BY <2>2, <3>1, <3>2 DEF Known, CoverInv, AppliedIsNamed
    <3> QED
      BY <3>1, <3>2, <3>3
  <2> QED
    BY <2>1, <2>2, <1>9
<1>12. DraftsFollow'
  <2> SUFFICES ASSUME NEW i \in DOMAIN rows', NEW c \in Cert, Latest(i)', rows'[i].text.live = c,
                      Known(rows[i].domain, c)'
               PROVE  \E k \in DOMAIN rows' : rows'[k].domain = rows'[i].domain
                        /\ rows'[k].status = "APPLIED" /\ rows'[k].text.live = c
    BY DEF DraftsFollow
  <2>1. CASE i = last
    BY <2>1, <1>9, <1>6
  <2>2. CASE i \in DOMAIN rows
    <3>1. Latest(i) /\ rows[i].text.live = c /\ Known(rows[i].domain, c)
      BY <2>2, <1>1, <1>9, <1>10 DEF Latest, Known
    <3> QED
      BY <2>2, <3>1, <1>9 DEF CoverInv, DraftsFollow
  <2> QED
    BY <2>1, <2>2, <1>9
<1> QED
  BY <1>7, <1>11, <1>12 DEF CoverInv

LEMMA InsertOldCover ==
  ASSUME IInv, NamesOK, CoverInv, InsertOld, IInv', NamesOK'
  PROVE  CoverInv'
<1>1. PICK d \in Domain, status \in Status \ {"SUPERSEDED"},
           ns \in (SUBSET Name) \ {{}}, cert \in Cert \cup {NoCert} :
        /\ \E text \in {Plain, Rendered(cert, ns)} : Insert(d, status, text, NoColumn, NoColumn)
        /\ names' = [names EXCEPT ![d] = ns]
  BY DEF InsertOld
<1>2. PICK text \in {Plain, Rendered(cert, ns)} : Insert(d, status, text, NoColumn, NoColumn)
  BY <1>1
<1>3. PICK row : rows' = Append(rows, row) /\ row.domain = d /\ row.text = text
  BY <1>2 DEF Insert
<1>4. LatestIsNamed' /\ CertifiedTexts'
  <2>1. row.domain \in Domain /\ names' = [names EXCEPT ![row.domain] = ns] /\ ns \in SUBSET Name
    BY <1>1, <1>3
  <2>2. row.text.names \subseteq ns /\ (row.text.ssl <=> row.text.live # NoCert)
    <3>1. text.names \subseteq ns /\ (text.ssl <=> text.live # NoCert)
      BY RenderedText
    <3> QED
      BY <1>3, <3>1
  <2> QED
    BY <1>3, <2>1, <2>2, InsertedTexts DEF IInv
<1>5. ~ New'
  BY <1>2 DEF InsertOld, Insert, New
<1>6. \A e \in Domain : \A c \in Cert : certs'[e][c] \in {NoCert, NoColumn, {}}
  BY <1>5 DEF NamesOK, Recorded
<1>7. \A i \in DOMAIN rows' : rows'[i].domain \in Domain
  <2>1. rows' \in Seq(Row)
    BY DEF IInv, RowsOK
  <2>2. \A i \in DOMAIN rows' : rows'[i] \in Row
    BY <2>1
  <2> QED
    BY <2>2 DEF Row
<1>8. AppliedIsNamed' /\ DraftsFollow'
  BY <1>6, <1>7 DEF AppliedIsNamed, DraftsFollow, Known
<1> QED
  BY <1>4, <1>8 DEF CoverInv

LEMMA IssueCover ==
  ASSUME IInv, NamesOK, CoverInv, NEW i \in DOMAIN rows, NEW cert \in Cert, Issue(i, cert)
  PROVE  CoverInv'
<1> DEFINE d == rows[i].domain
<1>0. PICK last : last = Len(rows) + 1
  OBVIOUS
<1>1. /\ DOMAIN rows' = DOMAIN rows \cup {last} /\ d \in Domain
      /\ rows'[last] = [domain |-> d, status |-> "APPLIED", text |-> Rendered(cert, names[d]),
                       ssl_enabled |-> TRUE, cert_name |-> cert]
      /\ \A j \in DOMAIN rows :
           /\ j < last /\ j \in Nat
           /\ rows'[j].domain = rows[j].domain /\ rows'[j].text = rows[j].text
           /\ rows'[j].status = IF rows[j].domain = d /\ rows[j].status = "APPLIED"
                               THEN "SUPERSEDED" ELSE rows[j].status
  BY <1>0, IssuedRows
<1>2. \A j \in DOMAIN rows : ~ (last <= j) /\ rows[j].domain \in Domain
  BY <1>0, <1>1, AllRows DEF IInv, Row
<1>3. names' = names /\ certs' = Certified(d, cert, names[d])
  BY DEF Issue
<1>4. /\ rows'[last].domain = d /\ rows'[last].status = "APPLIED"
      /\ rows'[last].text.live = cert /\ rows'[last].text.names = names[d]
      /\ rows'[last].text.ssl <=> cert # NoCert
  <2>1. (cert # NoCert) = TRUE
    BY TextAssumption
  <2>2. Rendered(cert, names[d]) = [ssl |-> TRUE, live |-> cert, names |-> names[d]]
    BY <2>1 DEF Rendered
  <2> QED
    BY <1>1, <2>1, <2>2
<1>5. /\ certs'[d][cert] = names[d]
      /\ \A e \in Domain \ {d} : \A c \in Cert : certs'[e][c] = certs[e][c]
  BY <1>1, <1>3 DEF Certified
<1> HIDE DEF d
<1>6. AppliedIsNamed'
  <2> SUFFICES ASSUME NEW k \in DOMAIN rows', NEW c \in Cert, rows'[k].status = "APPLIED",
                      rows'[k].text.live = c, Known(rows[k].domain, c)'
               PROVE  rows'[k].text.names \subseteq certs'[rows'[k].domain][c]
    BY DEF AppliedIsNamed
  <2>1. CASE k = last
    BY <2>1, <1>4, <1>5
  <2>2. CASE k \in DOMAIN rows
    <3>1. rows[k].domain # d /\ rows[k].status = "APPLIED"
      BY <2>2, <1>1
    <3>2. certs'[rows[k].domain][c] = certs[rows[k].domain][c]
      BY <2>2, <3>1, <1>2, <1>5
    <3>3. rows[k].text.names \subseteq certs[rows[k].domain][c]
      BY <2>2, <3>1, <3>2, <1>1 DEF Known, CoverInv, AppliedIsNamed
    <3> QED
      BY <2>2, <3>2, <3>3, <1>1
  <2> QED
    BY <2>1, <2>2, <1>1
<1>7. DraftsFollow'
  <2> SUFFICES ASSUME NEW j \in DOMAIN rows', NEW c \in Cert, Latest(j)', rows'[j].text.live = c,
                      Known(rows[j].domain, c)'
               PROVE  \E k \in DOMAIN rows' : rows'[k].domain = rows'[j].domain
                        /\ rows'[k].status = "APPLIED" /\ rows'[k].text.live = c
    BY DEF DraftsFollow
  <2>1. CASE j = last
    BY <2>1, <1>4
  <2>2. CASE j \in DOMAIN rows
    <3>1. rows[j].domain # d
      BY <2>2, <1>1, <1>2, <1>4 DEF Latest
    <3>2. Latest(j) /\ rows[j].text.live = c /\ Known(rows[j].domain, c)
      BY <2>2, <3>1, <1>1, <1>2, <1>5 DEF Latest, Known
    <3>3. PICK k \in DOMAIN rows : rows[k].domain = rows[j].domain
            /\ rows[k].status = "APPLIED" /\ rows[k].text.live = c
      BY <2>2, <3>2 DEF CoverInv, DraftsFollow
    <3> QED
      BY <2>2, <3>1, <3>3, <1>1
  <2> QED
    BY <2>1, <2>2, <1>1
<1>8. LatestIsNamed'
  <2> SUFFICES ASSUME NEW j \in DOMAIN rows', Latest(j)'
               PROVE  rows'[j].text.names \subseteq names'[rows'[j].domain]
    BY DEF LatestIsNamed
  <2>1. CASE j = last
    BY <2>1, <1>3, <1>4
  <2>2. CASE j \in DOMAIN rows
    <3>1. Latest(j)
      BY <2>2, <1>1 DEF Latest
    <3> QED
      BY <2>2, <3>1, <1>1, <1>3 DEF CoverInv, LatestIsNamed
  <2> QED
    BY <2>1, <2>2, <1>1
<1>9. CertifiedTexts'
  BY <1>1, <1>4 DEF CoverInv, CertifiedTexts
<1> QED
  BY <1>6, <1>7, <1>8, <1>9 DEF CoverInv

LEMMA ApplyCover ==
  ASSUME IInv, NamesOK, ColumnsFollow, CoverInv, NEW i \in DOMAIN rows, Apply(i)
  PROVE  CoverInv'
<1> DEFINE d == rows[i].domain
<1>1. New /\ Latest(i) /\ Covers(rows, certs, i) /\ names' = names /\ certs' = certs
  BY DEF Apply
<1>2. /\ DOMAIN rows' = DOMAIN rows
      /\ \A j \in DOMAIN rows :
           rows'[j] = IF j = i THEN [rows[i] EXCEPT !.status = "APPLIED"]
                      ELSE IF rows[j].domain = rows[i].domain /\ rows[j].status = "APPLIED"
                      THEN [rows[j] EXCEPT !.status = "SUPERSEDED"] ELSE rows[j]
  BY DEF Apply
<1>3. \A j \in DOMAIN rows : rows[j] \in Row /\ j \in Nat
  BY AllRows DEF IInv
<1>4. ASSUME NEW j \in DOMAIN rows
      PROVE  /\ rows'[j].domain = rows[j].domain /\ rows'[j].text = rows[j].text
             /\ rows'[j].status =
                  IF j = i THEN "APPLIED"
                  ELSE IF rows[j].domain = d /\ rows[j].status = "APPLIED"
                  THEN "SUPERSEDED" ELSE rows[j].status
  <2>1. rows[j] \in Row
    BY <1>3
  <2>2. CASE j = i
    BY <2>1, <2>2, <1>2 DEF Row
  <2>3. CASE j # i
    BY <2>1, <2>3, <1>2 DEF Row
  <2> QED
    BY <2>2, <2>3
<1>5. \A j \in DOMAIN rows : Latest(j)' <=> Latest(j)
  BY <1>2, <1>4 DEF Latest
<1>6. \A c \in Cert : rows[i].text.live = c /\ Known(d, c) => rows[i].text.names \subseteq certs[d][c]
  <2> SUFFICES ASSUME NEW c \in Cert, rows[i].text.live = c, Known(d, c)
               PROVE  rows[i].text.names \subseteq certs[d][c]
    OBVIOUS
  <2>1. rows[i].text.names \subseteq names[d]
    BY <1>1 DEF CoverInv, LatestIsNamed
  <2>2. rows[i].text.ssl
    BY TextAssumption DEF CoverInv, CertifiedTexts
  <2>3. rows[i].ssl_enabled /\ rows[i].cert_name = c
    BY <2>2, <1>1 DEF ColumnsFollow
  <2>4. names[d] \subseteq certs[d][c]
    BY <2>3, <1>1 DEF Covers, Known
  <2> QED
    BY <2>1, <2>4
<1> HIDE DEF d
<1>7. AppliedIsNamed'
  <2> SUFFICES ASSUME NEW k \in DOMAIN rows, NEW c \in Cert, rows'[k].status = "APPLIED",
                      rows[k].text.live = c, Known(rows[k].domain, c)
               PROVE  rows[k].text.names \subseteq certs[rows[k].domain][c]
    BY <1>1, <1>2, <1>4 DEF AppliedIsNamed, Known
  <2>1. CASE k = i
    BY <2>1, <1>6 DEF d
  <2>2. CASE k # i
    BY <2>2, <1>4 DEF CoverInv, AppliedIsNamed
  <2> QED
    BY <2>1, <2>2
<1>8. DraftsFollow'
  <2> SUFFICES ASSUME NEW j \in DOMAIN rows, NEW c \in Cert, Latest(j), rows[j].text.live = c,
                      Known(rows[j].domain, c)
               PROVE  \E k \in DOMAIN rows : rows'[k].domain = rows'[j].domain
                        /\ rows'[k].status = "APPLIED" /\ rows'[k].text.live = c
    <3> SUFFICES ASSUME NEW j \in DOMAIN rows', NEW c \in Cert, Latest(j)', rows'[j].text.live = c,
                        Known(rows[j].domain, c)'
                 PROVE  \E k \in DOMAIN rows' : rows'[k].domain = rows'[j].domain
                          /\ rows'[k].status = "APPLIED" /\ rows'[k].text.live = c
      BY DEF DraftsFollow
    <3>1. j \in DOMAIN rows /\ Latest(j) /\ rows[j].text.live = c /\ Known(rows[j].domain, c)
      BY <1>1, <1>2, <1>4, <1>5 DEF Known
    <3> QED
      BY <1>2, <3>1
  <2>1. CASE rows[j].domain = d
    <3>1. j = i
      BY <2>1, <1>1, <1>3 DEF Latest, d
    <3> QED
      BY <3>1, <1>4
  <2>2. CASE rows[j].domain # d
    <3>1. PICK k \in DOMAIN rows : rows[k].domain = rows[j].domain
            /\ rows[k].status = "APPLIED" /\ rows[k].text.live = c
      BY DEF CoverInv, DraftsFollow
    <3> QED
      BY <2>2, <3>1, <1>4
  <2> QED
    BY <2>1, <2>2
<1>9. LatestIsNamed' /\ CertifiedTexts'
  BY <1>1, <1>2, <1>4, <1>5 DEF CoverInv, LatestIsNamed, CertifiedTexts
<1> QED
  BY <1>7, <1>8, <1>9 DEF CoverInv

\* Where no deployment is applied or comes, and no certificate is known that was
\* not, nothing is lost.
LEMMA UnchangedCover ==
  ASSUME CoverInv, names' = names, DOMAIN rows' = DOMAIN rows,
         \A j \in DOMAIN rows : /\ rows'[j].domain = rows[j].domain /\ rows'[j].text = rows[j].text
                                /\ (rows'[j].status = "APPLIED") <=> (rows[j].status = "APPLIED"),
         \A j \in DOMAIN rows : \A c \in Cert : Known(rows[j].domain, c)' =>
           Known(rows[j].domain, c) /\ certs'[rows[j].domain][c] = certs[rows[j].domain][c]
  PROVE  CoverInv'
<1>1. \A j \in DOMAIN rows : Latest(j)' <=> Latest(j)
  BY DEF Latest
<1>2. AppliedIsNamed'
  BY DEF CoverInv, AppliedIsNamed
<1>3. DraftsFollow'
  BY <1>1 DEF CoverInv, DraftsFollow
<1>4. LatestIsNamed' /\ CertifiedTexts'
  BY <1>1 DEF CoverInv, LatestIsNamed, CertifiedTexts
<1> QED
  BY <1>2, <1>3, <1>4 DEF CoverInv

\* A migration leaves texts and names alone, and no certificate that is known.
LEMMA MigratedCover ==
  ASSUME CoverInv, names' = names, DOMAIN rows' = DOMAIN rows,
         \A j \in DOMAIN rows : rows'[j].domain = rows[j].domain /\ rows'[j].text = rows[j].text,
         \A j \in DOMAIN rows : rows[j].domain \in Domain,
         \A d \in Domain : \A c \in Cert : certs'[d][c] \in {NoCert, NoColumn, {}}
  PROVE  CoverInv'
<1>1. \A j \in DOMAIN rows : Latest(j)' <=> Latest(j)
  BY DEF Latest
<1>2. AppliedIsNamed' /\ DraftsFollow'
  BY DEF AppliedIsNamed, DraftsFollow, Known
<1>3. LatestIsNamed' /\ CertifiedTexts'
  BY <1>1 DEF CoverInv, LatestIsNamed, CertifiedTexts
<1> QED
  BY <1>2, <1>3 DEF CoverInv

LEMMA CoverStep ==
  ASSUME Comments = {Plain}, IInv, NamesOK, ColumnsFollow, CoverInv, [Next]_vars
  PROVE  CoverInv'
<1>0. /\ \A j \in DOMAIN rows : rows[j].domain \in Domain /\ rows[j] \in Row
      /\ IInv' /\ NamesOK'
  BY AllRows, IInvStep, NamesStep DEF IInv, Row
<1>1. CASE Upgrade
  <2>1. /\ DOMAIN rows' = DOMAIN rows /\ names' = names
        /\ \A j \in DOMAIN rows : rows'[j].domain = rows[j].domain /\ rows'[j].text = rows[j].text
    <3>1. rows' = Upgraded(rows) /\ names' = names
      BY <1>1 DEF Upgrade
    <3>2. \A j \in DOMAIN rows : Upgraded(rows)[j].domain = rows[j].domain /\ Upgraded(rows)[j].text = rows[j].text
      BY <1>0, UpgradedTexts
    <3>3. DOMAIN Upgraded(rows) = DOMAIN rows
      BY <1>0, UpgradedRows
    <3> QED
      BY <3>1, <3>2, <3>3
  <2>2. \A d \in Domain : \A c \in Cert : certs'[d][c] \in {NoCert, NoColumn, {}}
    BY <1>1 DEF Upgrade, NamesAdded, NamesOK, Recorded
  <2> QED
    BY <1>0, <2>1, <2>2, MigratedCover
<1>2. CASE Downgrade
  <2>1. /\ DOMAIN rows' = DOMAIN rows /\ names' = names
        /\ \A j \in DOMAIN rows : rows'[j].domain = rows[j].domain /\ rows'[j].text = rows[j].text
    <3>1. rows' = Downgraded(rows) /\ names' = names
      BY <1>2 DEF Downgrade
    <3>2. \A j \in DOMAIN rows : Downgraded(rows)[j].domain = rows[j].domain /\ Downgraded(rows)[j].text = rows[j].text
      BY <1>0, DowngradedTexts
    <3>3. DOMAIN Downgraded(rows) = DOMAIN rows
      BY <1>0, DowngradedRows
    <3> QED
      BY <3>1, <3>2, <3>3
  <2>2. \A d \in Domain : \A c \in Cert : certs'[d][c] \in {NoCert, NoColumn, {}}
    BY <1>2 DEF Downgrade, NamesDropped
  <2> QED
    BY <1>0, <2>1, <2>2, MigratedCover
<1>3. CASE InsertOld
  BY <1>0, <1>3, InsertOldCover
<1>4. CASE Draft
  BY <1>4, DraftCover
<1>5. CASE Imported
  BY <1>5, ImportedCover
<1>6. ASSUME NEW i \in DOMAIN rows, Apply(i) PROVE CoverInv'
  BY <1>6, ApplyCover
<1>7. ASSUME NEW i \in DOMAIN rows, Fail(i) PROVE CoverInv'
  <2>1. /\ names' = names /\ certs' = certs /\ DOMAIN rows' = DOMAIN rows
        /\ \A j \in DOMAIN rows :
             rows'[j] = IF j = i
                        THEN [rows[i] EXCEPT !.status = IF @ = "APPLIED" THEN @ ELSE "ERROR"]
                        ELSE rows[j]
    BY <1>7 DEF Fail
  <2>2. ASSUME NEW j \in DOMAIN rows
        PROVE  /\ rows'[j].domain = rows[j].domain /\ rows'[j].text = rows[j].text
               /\ (rows'[j].status = "APPLIED") <=> (rows[j].status = "APPLIED")
    <3>1. rows[j] \in Row
      BY <1>0
    <3>2. CASE j = i
      BY <3>1, <3>2, <2>1 DEF Row
    <3>3. CASE j # i
      BY <3>1, <3>3, <2>1
    <3> QED
      BY <3>2, <3>3
  <2> QED
    BY <2>1, <2>2, UnchangedCover DEF Known
<1>8. ASSUME NEW i \in DOMAIN rows, NEW cert \in Cert, Issue(i, cert) PROVE CoverInv'
  BY <1>8, IssueCover
<1>9. ASSUME NEW d \in Domain, NEW c \in Cert, Expire(d, c) PROVE CoverInv'
  <2>1. names' = names /\ rows' = rows /\ certs' = Certified(d, c, NoCert)
    BY <1>9 DEF Expire
  <2>2. \A e \in Domain : \A b \in Cert : certs'[e][b] \in {NoCert, certs[e][b]}
    BY <2>1 DEF Certified
  <2>3. \A j \in DOMAIN rows : \A b \in Cert : Known(rows[j].domain, b)' =>
          Known(rows[j].domain, b) /\ certs'[rows[j].domain][b] = certs[rows[j].domain][b]
    BY <1>0, <2>1, <2>2 DEF Known
  <2> QED
    BY <2>1, <2>3, UnchangedCover
<1>10. CASE UNCHANGED vars
  <2>1. names' = names /\ rows' = rows /\ certs' = certs
    BY <1>10 DEF vars
  <2> QED
    BY <2>1, UnchangedCover DEF Known
<1> QED
  BY <1>1, <1>2, <1>3, <1>4, <1>5, <1>6, <1>7, <1>8, <1>9, <1>10 DEF Next

-----------------------------------------------------------------------------
(* The round trip *)

\* An upgrade after a downgrade finds the deployments as they were.
LEMMA RowsRestored ==
  ASSUME IInv, ColumnsFollow, New
  PROVE  Upgraded(Downgraded(rows)) = rows
<1> DEFINE old == Downgraded(rows)
<1>1. /\ DOMAIN rows = 1 .. Len(rows) /\ Len(rows) \in Nat /\ rows \in Seq(Row)
      /\ \A i \in DOMAIN rows : rows[i] \in Row
  BY AllRows DEF IInv, RowsOK
<1>2. /\ DOMAIN old = DOMAIN rows
      /\ \A i \in DOMAIN rows :
           old[i] = [domain |-> rows[i].domain, text |-> rows[i].text,
                     status |-> IF rows[i].status = "SUPERSEDED" THEN "APPLIED" ELSE rows[i].status,
                     ssl_enabled |-> NoColumn, cert_name |-> NoColumn]
  BY <1>1, DowngradedRows
<1> HIDE DEF old
<1>3. \A i \in DOMAIN rows :
        /\ old[i].domain = rows[i].domain /\ old[i].text = rows[i].text
        /\ old[i].status = IF rows[i].status = "SUPERSEDED" THEN "APPLIED" ELSE rows[i].status
        /\ old[i] \in Row
  <2> TAKE i \in DOMAIN rows
  <2> QED
    BY <1>1, <1>2 DEF Row, Status
<1>4. /\ Upgraded(old) = [i \in DOMAIN rows |-> Upgraded(old)[i]]
      /\ \A i \in DOMAIN rows : Upgraded(old)[i] =
           [domain |-> old[i].domain, text |-> old[i].text,
            status |-> IF old[i].status = "APPLIED"
                          /\ \E j \in DOMAIN rows : j > i /\ old[j].domain = old[i].domain
                                                  /\ old[j].status = "APPLIED"
                       THEN "SUPERSEDED" ELSE old[i].status,
            ssl_enabled |-> old[i].text.ssl, cert_name |-> old[i].text.live]
  BY <1>2, <1>3, UpgradedRows
<1>5. \A i \in DOMAIN rows :
        rows[i].status = IF old[i].status = "APPLIED"
                          /\ \E j \in DOMAIN rows : j > i /\ old[j].domain = old[i].domain
                                                  /\ old[j].status = "APPLIED"
                       THEN "SUPERSEDED" ELSE old[i].status
  <2> TAKE i \in DOMAIN rows
  <2>1. CASE rows[i].status = "SUPERSEDED"
    BY <2>1, <1>3 DEF IInv, Followed
  <2>2. CASE rows[i].status = "APPLIED"
    <3>1. ~ \E j \in DOMAIN rows : j > i /\ old[j].domain = old[i].domain /\ old[j].status = "APPLIED"
      BY <2>2, <1>1, <1>3 DEF IInv, HistoryIsUnambiguous
    <3> QED
      BY <2>2, <1>3, <3>1
  <2>3. CASE rows[i].status \notin {"APPLIED", "SUPERSEDED"}
    BY <2>3, <1>3
  <2> QED
    BY <2>1, <2>2, <2>3
<1>6. \A i \in DOMAIN rows : Upgraded(old)[i] = rows[i]
  <2> TAKE i \in DOMAIN rows
  <2>1. Upgraded(old)[i] = [domain |-> rows[i].domain, text |-> rows[i].text, status |-> rows[i].status,
                            ssl_enabled |-> rows[i].ssl_enabled, cert_name |-> rows[i].cert_name]
    BY <1>3, <1>4, <1>5 DEF ColumnsFollow
  <2>2. rows[i] \in Row
    BY <1>1
  <2> QED
    BY <2>1, <2>2 DEF Row
<1> QED
  BY <1>1, <1>4, <1>6 DEF old

\* certificate_covers, going by the text applied, allows nothing new.
LEMMA NoCoverageInvented ==
  ASSUME IInv, NamesOK, ColumnsFollow, CoverInv, New, NEW i \in DOMAIN rows, Latest(i),
         Covers(rows, NamesAdded(NamesDropped(certs)), i)
  PROVE  Covers(rows, certs, i)
<1> DEFINE d == rows[i].domain
           c == rows[i].cert_name
           named == UNION {rows[k].text.names : k \in Applied(rows, d)}
<1> SUFFICES ASSUME rows[i].ssl_enabled
             PROVE  /\ certs[d][c] # NoCert
                    /\ names[d] \subseteq IF certs[d][c] = {} THEN named ELSE certs[d][c]
  BY DEF Covers
<1>1. d \in Domain /\ rows[i].text \in Text
  BY AllRows DEF IInv, Row
<1>2. rows[i].text.live = c /\ c \in Cert
  BY <1>1 DEF ColumnsFollow, CoverInv, CertifiedTexts, Text
<1>3. certs[d][c] \in {NoCert} \cup SUBSET Name
  BY <1>1, <1>2 DEF NamesOK, Recorded
<1>4. NamesAdded(NamesDropped(certs))[d][c] = IF certs[d][c] = NoCert THEN NoCert ELSE {}
  BY <1>1, <1>2, TextAssumption DEF NamesAdded, NamesDropped
<1>5. certs[d][c] # NoCert /\ names[d] \subseteq named
  BY <1>4 DEF Covers
<1>6. CASE certs[d][c] = {}
  BY <1>5, <1>6
<1>7. CASE certs[d][c] # {}
  <2>1. Known(d, c)
    BY <1>3, <1>5, <1>7, TextAssumption DEF Known
  <2>2. PICK k \in DOMAIN rows :
          rows[k].domain = d /\ rows[k].status = "APPLIED" /\ rows[k].text.live = c
    BY <2>1, <1>2 DEF CoverInv, DraftsFollow
  <2>3. rows[k].text.names \subseteq certs[d][c]
    BY <2>1, <2>2, <1>2 DEF CoverInv, AppliedIsNamed
  <2>4. \A j \in Applied(rows, d) : j = k
    BY <2>2 DEF Applied, IInv, HistoryIsUnambiguous
  <2>5. named \subseteq rows[k].text.names
    BY <2>4
  <2> QED
    BY <1>5, <1>7, <2>3, <2>5
<1> QED
  BY <1>6, <1>7

\* Where no comment of a file looks like a directive, a downgrade and an upgrade
\* restore the deployments, and what certificates cover is not more than it was
\* (upgrade, downgrade, certificate_covers).
THEOREM MigrationsRoundTrip ==
  ASSUME Comments = {Plain}
  PROVE  Spec => []RoundTrip
<1> DEFINE Inv == IInv /\ NamesOK /\ ColumnsFollow /\ CoverInv
<1>1. Init => Inv
  BY Initially DEF Init, CoverInv, AppliedIsNamed, DraftsFollow, LatestIsNamed, CertifiedTexts
<1>2. Inv /\ [Next]_vars => Inv'
  BY IInvStep, NamesStep, CoverStep
<1>3. Inv => RoundTrip
  BY RowsRestored, NoCoverageInvented DEF RoundTrip
<1> QED
  BY <1>1, <1>2, <1>3, PTL DEF Spec
=============================================================================
