------------------------------ MODULE Migration ------------------------------
(***************************************************************************)
(* alembic/versions/7c102e936fe1: a database that the previous release has *)
(* written gets the TLS columns, the names of each certificate and one     *)
(* applied deployment per domain, and loses them when it is downgraded.    *)
(*                                                                         *)
(* Deployments are in the order of their ids.  A text is what the patterns *)
(* of the migration and of certificate_covers find in it: "listen ... ssl",*)
(* the first certificate path, the names of the server_name directives.    *)
(* They read comments as well, the importer does not.                      *)
(***************************************************************************)
EXTENDS Naturals, Sequences

CONSTANTS Domain, Name, Cert, NoCert, NoColumn,
          Comments,    \* what comments an imported file may have
          MaxRows      \* bound on the deployments
Text == [ssl : BOOLEAN, live : Cert \cup {NoCert}, names : SUBSET Name]
ASSUME TextAssumption ==
  /\ Comments \subseteq Text /\ MaxRows \in Nat
  /\ NoCert \notin Cert /\ NoColumn \notin BOOLEAN /\ NoColumn \notin Cert \cup {NoCert}
  /\ \A ns \in SUBSET Name : ns # NoCert /\ ns # NoColumn

VARIABLES
  version,    \* "4756f3345db0" or "7c102e936fe1"
  rows,       \* domain_deployments
  names,      \* of each domain, the names of its row and of domain_server_names
  certs       \* domain_certificates: of the active certificate that a domain has under
              \* a name, server_names; {} is NULL, NoCert that there is none
vars == <<version, rows, names, certs>>
New == version = "7c102e936fe1"

Status == {"DRAFT", "APPLIED", "ERROR", "SUPERSEDED"}
Row ==
  [domain : Domain, status : Status, text : Text,
   ssl_enabled : BOOLEAN \cup {NoColumn}, cert_name : Cert \cup {NoCert, NoColumn}]

Init ==
  /\ version = "4756f3345db0" /\ rows = <<>>
  /\ names = [d \in Domain |-> {}]
  /\ certs = [d \in Domain |-> [c \in Cert |-> NoCert]]

Insert(domain, status, text, ssl, cert) ==
  /\ Len(rows) < MaxRows
  /\ rows' = Append(rows, [domain |-> domain, status |-> status, text |-> text,
                           ssl_enabled |-> ssl, cert_name |-> cert])
  /\ UNCHANGED version

\* The certificates, with what is recorded of the one a domain has under a name.
Certified(domain, cert, ns) ==
  [d \in Domain |-> [c \in Cert |-> IF d = domain /\ c = cert THEN ns ELSE certs[d][c]]]

\* The text of a port proxy has none of it.
Plain == [ssl |-> FALSE, live |-> NoCert, names |-> {}]
Rendered(cert, ns) == [ssl |-> cert # NoCert, live |-> cert, names |-> ns]

-----------------------------------------------------------------------------
\* Mutation of OneApplied: the oldest is kept.
OldestApplied(rs) ==
  [i \in DOMAIN rs |->
    IF rs[i].status = "APPLIED"
       /\ \E j \in DOMAIN rs : j < i /\ rs[j].domain = rs[i].domain /\ rs[j].status = "APPLIED"
    THEN [rs[i] EXCEPT !.status = "SUPERSEDED"] ELSE rs[i]]

\* All but the newest applied deployment of a domain are superseded.
OneApplied(rs) ==
  [i \in DOMAIN rs |->
    IF rs[i].status = "APPLIED"
       /\ \E j \in DOMAIN rs : j > i /\ rs[j].domain = rs[i].domain /\ rs[j].status = "APPLIED"
    THEN [rs[i] EXCEPT !.status = "SUPERSEDED"] ELSE rs[i]]

\* The columns are filled from the texts.
Upgraded(rs) ==
  OneApplied([i \in DOMAIN rs |->
    [rs[i] EXCEPT !.ssl_enabled = rs[i].text.ssl, !.cert_name = rs[i].text.live]])

\* Mutation of Downgraded: the superseded keep a status the release before lacks.
DowngradedColumns(rs) ==
  [i \in DOMAIN rs |-> [rs[i] EXCEPT !.ssl_enabled = NoColumn, !.cert_name = NoColumn]]

\* The statuses and the columns the previous release lacks are given up.
Downgraded(rs) ==
  [i \in DOMAIN rs |->
    [rs[i] EXCEPT !.status = IF @ = "SUPERSEDED" THEN "APPLIED" ELSE @,
                  !.ssl_enabled = NoColumn, !.cert_name = NoColumn]]

\* The certificates get a column for their names, NULL, and lose it again.
NamesAdded(cs) == [d \in Domain |-> [c \in Cert |-> IF cs[d][c] = NoColumn THEN {} ELSE cs[d][c]]]
NamesDropped(cs) == [d \in Domain |-> [c \in Cert |-> IF cs[d][c] = NoCert THEN NoCert ELSE NoColumn]]

Upgrade ==
  /\ ~ New /\ version' = "7c102e936fe1"
  /\ rows' = Upgraded(rows) /\ certs' = NamesAdded(certs)
  /\ UNCHANGED names

Downgrade ==
  /\ New /\ version' = "4756f3345db0"
  /\ rows' = Downgraded(rows) /\ certs' = NamesDropped(certs)
  /\ UNCHANGED names

-----------------------------------------------------------------------------
(* What the releases write between migrations *)

\* The previous release, known from its schema: no status is superseded.
InsertOld ==
  /\ ~ New
  /\ \E d \in Domain, status \in Status \ {"SUPERSEDED"},
        ns \in (SUBSET Name) \ {{}}, cert \in Cert \cup {NoCert} :
       /\ \E text \in {Plain, Rendered(cert, ns)} : Insert(d, status, text, NoColumn, NoColumn)
       /\ names' = [names EXCEPT ![d] = ns]
       /\ \E column \in {NoCert, NoColumn} : certs' = Certified(d, cert, column)

Latest(i) == \A j \in DOMAIN rows : rows[j].domain = rows[i].domain => j <= i
Applied(rs, d) == {k \in DOMAIN rs : rs[k].domain = d /\ rs[k].status = "APPLIED"}

\* create_domain, update_domain: the certificate of the applied deployment is
\* kept, unless the domain has become a port proxy.
Draft ==
  /\ New
  /\ \E d \in Domain, ns \in (SUBSET Name) \ {{}}, cert \in Cert \cup {NoCert} :
       /\ \A k \in Applied(rows, d) :
            IF rows[k].ssl_enabled THEN cert # NoCert /\ rows[k].cert_name \in {cert, NoCert}
            ELSE cert = NoCert
       /\ Applied(rows, d) = {} => cert = NoCert
       /\ \E text \in {Plain, Rendered(cert, ns)} : Insert(d, "DRAFT", text, text.ssl, text.live)
       /\ names' = [names EXCEPT ![d] = ns]
  /\ UNCHANGED certs

\* The first deployment of a domain, from a file with a comment before its rule;
\* its certificate is active if its expiry can be read and is to come.
Imported ==
  /\ New
  /\ \E d \in Domain, ns \in (SUBSET Name) \ {{}}, cert \in Cert \cup {NoCert}, comment \in Comments :
       /\ \A i \in DOMAIN rows : rows[i].domain # d
       /\ \E rule \in {Plain, Rendered(cert, ns)} :
            /\ Insert(d, "APPLIED",
                      [ssl |-> rule.ssl \/ comment.ssl,
                       live |-> IF comment.live # NoCert THEN comment.live ELSE rule.live,
                       names |-> rule.names \cup comment.names],
                      rule.ssl, rule.live)
            /\ \E recorded \in {NoCert, ns} : certs' = Certified(d, rule.live, recorded)
       /\ names' = [names EXCEPT ![d] = ns]

\* issue_certificate, which refuses the port proxies: the certificate replaces
\* those of its name.  One that fails leaves a certificate that is not active.
Issue(i, cert) ==
  LET d == rows[i].domain
      superseded == [j \in DOMAIN rows |->
        IF j \in Applied(rows, d) THEN [rows[j] EXCEPT !.status = "SUPERSEDED"] ELSE rows[j]]
  IN  /\ New /\ Latest(i) /\ rows[i].text # Plain
      /\ Len(rows) < MaxRows
      /\ rows' = Append(superseded,
                        [domain |-> d, status |-> "APPLIED", text |-> Rendered(cert, names[d]),
                         ssl_enabled |-> TRUE, cert_name |-> cert])
      /\ certs' = Certified(d, cert, names[d])
      /\ UNCHANGED <<version, names>>

\* A certificate expires.
Expire(d, c) ==
  /\ certs' = Certified(d, c, NoCert)
  /\ UNCHANGED <<version, rows, names>>

\* certificate_covers: a certificate without names covers those of the text applied.
Covers(rs, cs, i) ==
  LET d == rs[i].domain
      recorded == cs[d][rs[i].cert_name]
  IN  rs[i].ssl_enabled =>
        /\ recorded # NoCert
        /\ names[d] \subseteq IF recorded = {} THEN UNION {rs[k].text.names : k \in Applied(rs, d)}
                              ELSE recorded

\* Mutation of Apply: whether the certificate covers the names is not asked.
ApplyUncovered(i) ==
  /\ New /\ Latest(i)
  /\ rows' = [j \in DOMAIN rows |->
       IF j = i THEN [rows[i] EXCEPT !.status = "APPLIED"]
       ELSE IF rows[j].domain = rows[i].domain /\ rows[j].status = "APPLIED"
       THEN [rows[j] EXCEPT !.status = "SUPERSEDED"] ELSE rows[j]]
  /\ UNCHANGED <<version, names, certs>>

\* apply_domain, of the newest deployment.
Apply(i) ==
  /\ New /\ Latest(i) /\ Covers(rows, certs, i)
  /\ rows' = [j \in DOMAIN rows |->
       IF j = i THEN [rows[i] EXCEPT !.status = "APPLIED"]
       ELSE IF rows[j].domain = rows[i].domain /\ rows[j].status = "APPLIED"
       THEN [rows[j] EXCEPT !.status = "SUPERSEDED"] ELSE rows[j]]
  /\ UNCHANGED <<version, names, certs>>

\* record_apply_failure.
Fail(i) ==
  /\ New /\ Latest(i) /\ Covers(rows, certs, i)
  /\ rows' = [rows EXCEPT ![i].status = IF @ = "APPLIED" THEN @ ELSE "ERROR"]
  /\ UNCHANGED <<version, names, certs>>

Next ==
  \/ Upgrade \/ Downgrade \/ InsertOld \/ Draft \/ Imported
  \/ \E i \in DOMAIN rows : Apply(i) \/ Fail(i) \/ \E cert \in Cert : Issue(i, cert)
  \/ \E d \in Domain, c \in Cert : Expire(d, c)

Spec == Init /\ [][Next]_vars

-----------------------------------------------------------------------------
(* Properties *)

\* Every variable holds a value of its type; the columns are there with their
\* version, and the status of theirs is.
TypeOK ==
  /\ rows \in Seq(Row)
  /\ \A i \in DOMAIN rows :
       /\ (rows[i].ssl_enabled = NoColumn) = ~ New
       /\ (rows[i].cert_name = NoColumn) = ~ New
       /\ rows[i].status = "SUPERSEDED" => New
  /\ names \in [Domain -> SUBSET Name]
  /\ certs \in [Domain -> [Cert -> {NoCert} \cup IF New THEN SUBSET Name ELSE {NoColumn}]]

\* applied_deployment is the only one of its domain, and it is newer than those
\* it superseded, whichever release applied them (upgrade, mark_applied).
HistoryIsUnambiguous ==
  New => \A i, j \in DOMAIN rows :
    i # j /\ rows[i].domain = rows[j].domain /\ rows[i].status = "APPLIED" =>
      /\ rows[j].status # "APPLIED"
      /\ rows[j].status = "SUPERSEDED" => j < i

\* tests/test_migrations.py:16: a round trip.  A downgrade and an upgrade after
\* it restore what the columns and the statuses of the deployments said.  They do
\* not restore the names the certificates had, so that a draft may have to wait
\* for a new certificate; but certificate_covers, which then goes by the text
\* applied, lets no draft be applied that it did not let before.
RoundTrip ==
  LET later == Upgraded(Downgraded(rows))
  IN  New => /\ later = rows
             /\ \A i \in DOMAIN rows :
                  Latest(i) /\ Covers(later, NamesAdded(NamesDropped(certs)), i) => Covers(rows, certs, i)
=============================================================================
