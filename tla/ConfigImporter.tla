--------------------------- MODULE ConfigImporter ---------------------------
(***************************************************************************)
(* backend/services/config_importer.py: at every start, before the server  *)
(* answers, the files of sites-enabled and streams-enabled are read, and   *)
(* each that is one simple proxy rule no row knows becomes a row.  The     *)
(* files are the operator's or the templates' of DomainService, and the    *)
(* rows the importer meets are what earlier starts and requests have left. *)
(*                                                                         *)
(* A text is the sequence of its server blocks, a block what the patterns  *)
(* of the importer find in it.  Names are taken as normalized.             *)
(***************************************************************************)
EXTENDS Naturals, Sequences

CONSTANTS
  Name,          \* host names and proxy names that normalize
  BadName,       \* one that does not, such as a wildcard
  Upstream,      \* host:port, for http with its scheme
  BadUpstream,   \* one that matches and does not normalize
  Odd,           \* a directive that is missing or that no pattern matches
  Port,          \* listen ports
  Reserved,      \* those of nginx itself and of the API, for tcp
  Path,          \* enabled/*.conf: a directory, "http" or "stream", and a stem
  FileOrder,     \* the paths as sorted, the sites before the streams
  Unsavable,     \* paths whose row the database refuses
  HandWritten,   \* texts an operator may leave
  Asked,         \* normalized payloads of POST and PUT requests
  Certificates,  \* sets of names a certificate may be for
  File(_, _),    \* domain_to_filename, in the directory of a type
  NoName, NoRule, NoRow, NoFile

Elements(seq) == {seq[i] : i \in DOMAIN seq}
Duplicates(seq) == \E i, j \in DOMAIN seq : i # j /\ seq[i] = seq[j]

\* A listen directive of streams, and what it is for a row.
Directive == [port : Port, udp : BOOLEAN]
Listen == [port : Port, protocol : {"tcp", "udp"}]

Block ==
  [names : Seq(Name \cup {BadName}), listen : Directive \cup {Odd},
   proxies : Seq(Upstream \cup {BadUpstream, Odd}), ssl : BOOLEAN, cert : Name \cup {NoName}]
Text == Seq(Block)

\* One proxy rule: what normalize_payload makes of a file or of a payload.
Rule ==
  {rule \in [type : {"http"}, name : Name, names : Seq(Name), listen : {Odd}, upstream : Upstream,
             ssl : BOOLEAN, cert : Name \cup {NoName}] :
     /\ rule.names # <<>> /\ rule.names[1] = rule.name /\ ~ Duplicates(rule.names)
     /\ rule.ssl = (rule.cert # NoName)}
  \cup [type : {"stream"}, name : Name, names : {<<>>}, listen : Listen, upstream : Upstream,
        ssl : {FALSE}, cert : {NoName}]

\* A row: the rule, path and text of its newest deployment, the paths of all of
\* them, the certificate of the applied one, and its active certificates.
Row ==
  [rule : Rule, path : Path, text : Text, paths : SUBSET Path, applied : Name \cup {NoName},
   certificates : SUBSET [cert : Name, names : SUBSET Name]]

ASSUME PathAssumption ==
  /\ \A p \in Path : p.type \in {"http", "stream"}
  /\ \A rule \in Asked : File(rule.type, rule.name) \in Path
                         /\ File(rule.type, rule.name).type = rule.type
                         /\ File(rule.type, rule.name).stem \in Name
  /\ \A n \in Name : File("http", n) \in Path => File("http", n).type = "http"
  /\ FileOrder \in Seq(Path)
ASSUME TextAssumption == HandWritten \subseteq Text /\ NoFile \notin Text
ASSUME CertificatesAssumption == Certificates \subseteq SUBSET Name
ASSUME AskedAssumption == Asked \subseteq Rule /\ \A rule \in Asked : ~ rule.ssl
ASSUME AbsentAssumption ==
  /\ NoRow \notin Row /\ NoRule \notin Rule /\ NoName \notin Name /\ BadName \notin Name
  /\ Reserved \subseteq Port
  /\ BadUpstream \notin Upstream /\ Odd \notin Upstream
  /\ Odd \notin Listen /\ Odd \notin Directive

VARIABLES
  rows,     \* committed rows, by their unique name
  files,    \* the enabled directories
  covered,  \* the names each certificate on disk is for
  pc,       \* "down", "importing", "settled" (no request since the import) or "serving"
  read,     \* the texts parse_current_configs has read
  next,     \* the index in FileOrder of the file to import
  pending   \* the rows as the session of the import sees them

vars == <<rows, files, covered, pc, read, next, pending>>

Present(rs) == {n \in Name : rs[n] # NoRow}

-----------------------------------------------------------------------------
(* Parsing *)

\* The i-th block proxies, alone, to one upstream; every block has its names;
\* no other has ssl, and it has the name of a certificate then.
Simple(text, i) ==
  /\ i \in DOMAIN text /\ Len(text) <= 2
  /\ \A j \in DOMAIN text :
       /\ (text[j].proxies # <<>>) = (j = i)
       /\ Elements(text[j].names) = Elements(text[i].names)
       /\ text[j].ssl => j = i
  /\ Len(text[i].proxies) = 1 /\ text[i].proxies[1] # Odd
  /\ text[i].names # <<>>
  /\ text[i].ssl => text[i].cert # NoName

\* Mutation of HttpRule: the names are not normalized.
HttpRuleUnchecked(block) ==
  IF Duplicates(block.names) \/ block.proxies[1] = BadUpstream
  THEN NoRule
  ELSE [type |-> "http", name |-> block.names[1], names |-> block.names, listen |-> Odd,
        upstream |-> block.proxies[1], ssl |-> block.ssl,
        cert |-> IF block.ssl THEN block.cert ELSE NoName]

HttpRule(block) ==
  IF \/ BadName \in Elements(block.names)
     \/ Duplicates(block.names)
     \/ block.proxies[1] = BadUpstream
  THEN NoRule
  ELSE [type |-> "http", name |-> block.names[1], names |-> block.names, listen |-> Odd,
        upstream |-> block.proxies[1], ssl |-> block.ssl,
        cert |-> IF block.ssl THEN block.cert ELSE NoName]

ParseHttp(text) ==
  IF \E i \in 1 .. 2 : Simple(text, i)
  THEN HttpRule(text[CHOOSE i \in 1 .. 2 : Simple(text, i)])
  ELSE NoRule

\* Mutation of ParseStream: every directive is taken for tcp.
ParseStreamAsTcp(stem, text) ==
  IF /\ Len(text) = 1
     /\ text[1].listen # Odd
     /\ text[1].proxies # <<>> /\ text[1].proxies[1] \in Upstream
     /\ stem \in Name
  THEN [type |-> "stream", name |-> stem, names |-> <<>>,
        listen |-> [port |-> text[1].listen.port, protocol |-> "tcp"],
        upstream |-> text[1].proxies[1], ssl |-> FALSE, cert |-> NoName]
  ELSE NoRule

\* The name of a stream is the stem of its file; a directive without a protocol
\* is for tcp.
ParseStream(stem, text) ==
  IF /\ Len(text) = 1
     /\ text[1].listen # Odd
     /\ text[1].proxies # <<>> /\ text[1].proxies[1] \in Upstream
     /\ stem \in Name
  THEN [type |-> "stream", name |-> stem, names |-> <<>>,
        listen |-> [port |-> text[1].listen.port,
                    protocol |-> IF text[1].listen.udp THEN "udp" ELSE "tcp"],
        upstream |-> text[1].proxies[1], ssl |-> FALSE, cert |-> NoName]
  ELSE NoRule

\* NoRule for a file that is skipped and for one that fails.
Parse(path, text) ==
  IF path.type = "http" THEN ParseHttp(text) ELSE ParseStream(path.stem, text)

-----------------------------------------------------------------------------
(* The templates *)

Server(names, listen, proxies, ssl, cert) ==
  [names |-> names, listen |-> listen, proxies |-> proxies, ssl |-> ssl, cert |-> cert]

\* Only udp is written out.
Directed(listen) ==
  IF listen = Odd THEN Odd ELSE [port |-> listen.port, udp |-> listen.protocol = "udp"]

\* With ssl, a server that redirects precedes the one that proxies.
Render(rule) ==
  IF rule.ssl
  THEN <<Server(rule.names, Odd, <<>>, FALSE, NoName),
         Server(rule.names, Odd, <<rule.upstream>>, TRUE, rule.cert)>>
  ELSE <<Server(rule.names, Directed(rule.listen), <<rule.upstream>>, FALSE, NoName)>>

\* What the server names of a row make of its rule: they are read in no order.
Spellings(rule) ==
  IF rule.type = "stream" THEN {rule}
  ELSE {[rule EXCEPT !.name = names[1], !.names = names] :
          names \in {s \in [DOMAIN rule.names -> Elements(rule.names)] : ~ Duplicates(s)}}

-----------------------------------------------------------------------------
(* The checks of an import *)

\* Mutation of Clash: the names of other rows are not looked up.
ClashPortsOnly(rs, rule) ==
  \/ rule.listen \in [port : Reserved, protocol : {"tcp"}]
  \/ \E n \in Present(rs) :
       \/ rule.listen # Odd /\ rs[n].rule.listen = rule.listen
       \/ File(rule.type, rule.name) \in rs[n].paths

\* check_conflicts.
Clash(rs, rule) ==
  \/ rule.listen \in [port : Reserved, protocol : {"tcp"}]
  \/ \E n \in Present(rs) :
       \/ Elements(rs[n].rule.names) \cap Elements(rule.names) # {}
       \/ rule.listen # Odd /\ rs[n].rule.listen = rule.listen
       \/ File(rule.type, rule.name) \in rs[n].paths

\* A row of that name, or a deployment in that file.
Known(rs, rule, path) ==
  rs[rule.name] # NoRow \/ \E n \in Present(rs) : path \in rs[n].paths

Without(rs, k) == [n \in Name |-> IF n = k THEN NoRow ELSE rs[n]]

\* Mutation of Importable: a row is updated from its file.
ImportableAgain(rs, path, text) ==
  LET rule == Parse(path, text)
      others == Without(rs, rule.name)
  IN  rule # NoRule /\ ~ Known(others, rule, path) /\ ~ Clash(others, rule) /\ path \notin Unsavable

\* upsert_config adds a row: it fails for a clash, and where the database does.
Importable(rs, path, text) ==
  LET rule == Parse(path, text)
  IN  rule # NoRule /\ ~ Known(rs, rule, path) /\ ~ Clash(rs, rule) /\ path \notin Unsavable

-----------------------------------------------------------------------------
(* The import *)

Init ==
  /\ rows = [n \in Name |-> NoRow]
  /\ files = [p \in Path |-> NoFile]
  /\ covered \in [Name -> Certificates \cup {{}}]
  /\ pc = "down"
  /\ read = files
  /\ next = 1
  /\ pending = rows

\* import_current_configs reads every file before it changes a row.
StartImport ==
  /\ pc = "down"
  /\ pc' = "importing"
  /\ read' = files
  /\ next' = 1
  /\ pending' = rows
  /\ UNCHANGED <<rows, files, covered>>

\* What build_certificate and the expiry on disk make of the certificate: a row
\* that is EXPIRED or an ERROR is not active.
Certified(rule) ==
  IF rule.ssl /\ covered[rule.cert] # {}
  THEN { {}, {[cert |-> rule.cert, names |-> Elements(rule.names)]} }
  ELSE { {} }

\* The row of a file, with one deployment, applied.
Imported(path, text, certificates) ==
  LET rule == Parse(path, text)
  IN  [rule |-> rule, path |-> path, text |-> text, paths |-> {path}, applied |-> rule.cert,
       certificates |-> certificates]

\* Mutation of ImportFile: a file that is not imported ends the import.
ImportFileOrEnd ==
  /\ pc = "importing"
  /\ next <= Len(FileOrder)
  /\ LET path == FileOrder[next]
         text == read[path]
         rule == Parse(path, text)
     IN  IF text # NoFile /\ Importable(pending, path, text)
         THEN /\ \E certificates \in Certified(rule) :
                   pending' = [pending EXCEPT ![rule.name] = Imported(path, text, certificates)]
              /\ next' = next + 1
         ELSE UNCHANGED pending /\ next' = IF text = NoFile THEN next + 1 ELSE Len(FileOrder) + 1
  /\ UNCHANGED <<rows, files, covered, pc, read>>

\* One file, within a savepoint of its own.
ImportFile ==
  /\ pc = "importing"
  /\ next <= Len(FileOrder)
  /\ LET path == FileOrder[next]
         text == read[path]
         rule == Parse(path, text)
     IN  IF text # NoFile /\ Importable(pending, path, text)
         THEN \E certificates \in Certified(rule) :
                pending' = [pending EXCEPT ![rule.name] = Imported(path, text, certificates)]
         ELSE UNCHANGED pending
  /\ next' = next + 1
  /\ UNCHANGED <<rows, files, covered, pc, read>>

CommitImport ==
  /\ pc = "importing"
  /\ next > Len(FileOrder)
  /\ rows' = pending
  /\ pc' = "settled"
  /\ UNCHANGED <<files, covered, read, next, pending>>

\* The commit fails, or the process ends: SQLite, where the release of an
\* outermost savepoint commits, keeps the rows imported so far.
ImportLost ==
  /\ pc = "importing"
  /\ rows' \in {rows, pending}
  /\ pc' = "down"
  /\ UNCHANGED <<files, covered, read, next, pending>>

Stop ==
  /\ pc \in {"settled", "serving"}
  /\ pc' = "down"
  /\ UNCHANGED <<rows, files, covered, read, next, pending>>

-----------------------------------------------------------------------------
(* What the importer meets: DomainService's operations, and the operator's *)

Serve == pc \in {"settled", "serving"} /\ pc' = "serving" /\ UNCHANGED <<read, next, pending>>

\* A draft: its file is written when it is applied.
CreateDomain ==
  /\ Serve
  /\ \E rule \in Asked :
       LET path == File(rule.type, rule.name)
       IN  /\ rows[rule.name] = NoRow
           /\ ~ Clash(rows, rule)
           /\ rows' = [rows EXCEPT ![rule.name] =
                [rule |-> rule, path |-> path, text |-> Render(rule), paths |-> {path},
                 applied |-> NoName, certificates |-> {}]]
  /\ UNCHANGED <<files, covered>>

\* A draft for a row, which may get another name, and a host name keeps the TLS
\* of the deployment that is applied.
UpdateDomain(n) ==
  /\ Serve
  /\ rows[n] # NoRow
  /\ \E asked \in Asked :
       LET tls == asked.type = "http" /\ rows[n].applied # NoName
           rule == IF tls THEN [asked EXCEPT !.ssl = TRUE, !.cert = rows[n].applied] ELSE asked
           path == File(rule.type, rule.name)
           others == Without(rows, n)
       IN  /\ others[rule.name] = NoRow
           /\ ~ Clash(others, rule)
           /\ rows' = [others EXCEPT ![rule.name] =
                [rule |-> rule, path |-> path, text |-> Render(rule),
                 paths |-> rows[n].paths \cup {path}, applied |-> rows[n].applied,
                 certificates |-> rows[n].certificates]]
  /\ UNCHANGED <<files, covered>>

\* check_path_ownership.
Owned(n, paths) == \A m \in Present(rows) \ {n} : rows[m].paths \cap paths = {}

\* write_deployment and remove_obsolete.
Installed(n, path, text) ==
  [p \in Path |-> IF p = path THEN text ELSE IF p \in rows[n].paths THEN NoFile ELSE files[p]]

\* With TLS, an active certificate of the row must cover its names.
ApplyDomain(n) ==
  /\ Serve
  /\ rows[n] # NoRow
  /\ Owned(n, rows[n].paths)
  /\ rows[n].rule.ssl =>
       \E c \in rows[n].certificates :
          c.cert = rows[n].rule.cert /\ Elements(rows[n].rule.names) \subseteq c.names
  /\ rows' = [rows EXCEPT ![n].applied = rows[n].rule.cert]
  /\ files' = Installed(n, rows[n].path, rows[n].text)
  /\ UNCHANGED covered

\* The challenge and the renewed text are in the file the name gives.
IssueCertificate(n) ==
  /\ Serve
  /\ rows[n] # NoRow /\ rows[n].rule.type = "http"
  /\ LET rule == [rows[n].rule EXCEPT !.ssl = TRUE, !.cert = n]
         path == File("http", n)
         names == Elements(rule.names)
     IN  /\ path \in Path
         /\ Owned(n, rows[n].paths \cup {path})
         /\ \E spelled \in Spellings(rule) :
              /\ rows' = [rows EXCEPT ![n] =
                   [rule |-> rule, path |-> path, text |-> Render(spelled),
                    paths |-> rows[n].paths \cup {path}, applied |-> n,
                    certificates |-> {c \in rows[n].certificates : c.cert # n}
                                     \cup {[cert |-> n, names |-> names]}]]
              /\ files' = Installed(n, path, Render(spelled))
         /\ covered' = [covered EXCEPT ![n] = names]

Delete(n) ==
  /\ Serve
  /\ rows[n] # NoRow
  /\ Owned(n, rows[n].paths)
  /\ rows' = Without(rows, n)
  /\ files' = [p \in Path |-> IF p \in rows[n].paths THEN NoFile ELSE files[p]]
  /\ UNCHANGED covered

\* A file is written or removed by hand, or removed by disable_domain.
EditFile(p) ==
  /\ \E text \in HandWritten \cup {NoFile} : files' = [files EXCEPT ![p] = text]
  /\ UNCHANGED <<rows, covered, pc, read, next, pending>>

-----------------------------------------------------------------------------
Import == StartImport \/ ImportFile \/ CommitImport \/ ImportLost \/ Stop

Service ==
  \/ CreateDomain
  \/ \E n \in Name : UpdateDomain(n) \/ ApplyDomain(n) \/ IssueCertificate(n) \/ Delete(n)

Next == Import \/ Service \/ \E p \in Path : EditFile(p)

Spec == Init /\ [][Next]_vars

-----------------------------------------------------------------------------
(* Properties *)

\* Every variable holds a value of its type.
TypeOK ==
  /\ rows \in [Name -> Row \cup {NoRow}] /\ pending \in [Name -> Row \cup {NoRow}]
  /\ files \in [Path -> Text \cup {NoFile}] /\ read \in [Path -> Text \cup {NoFile}]
  /\ covered \in [Name -> SUBSET Name]
  /\ pc \in {"down", "importing", "settled", "serving"}
  /\ next \in 1 .. Len(FileOrder) + 1

\* Whatever the files say, no server name, listen port for one protocol or file, of
\* any of their deployments, is two rows' (upsert_config, check_conflicts).
RowsDisjoint ==
  \A m, n \in Present(rows) : m # n =>
    /\ Elements(rows[m].rule.names) \cap Elements(rows[n].rule.names) = {}
    /\ rows[m].rule.listen = rows[n].rule.listen => rows[m].rule.listen = Odd
    /\ rows[m].paths \cap rows[n].paths = {}

\* README.md:129: existing domains and drafts are not overwritten by an import,
\* however often it fails half-way (upsert_config).
NotOverwritten ==
  [][ (pc = "down" \/ pc = "importing") =>
        \A n \in Present(rows) : rows'[n] = rows[n] ]_vars

\* README.md:132: one failed import does not undo the others.  After an import
\* no file is left that could be imported: another would add nothing
\* (import_current_configs).
ImportIsComplete ==
  pc = "settled" =>
    \A p \in Elements(FileOrder) : read[p] # NoFile => ~ Importable(rows, p, read[p])

\* What an import makes of the file of a rule: a proxy is named after the file.
ReadAs(path, rule) == [rule EXCEPT !.name = IF rule.type = "stream" THEN path.stem ELSE @]

\* The newest text of a row, whatever a rename, an update and an issuance have
\* made of it, is one rule with the names, the port and protocol, the upstream
\* and the TLS of the row: nothing but the order of the names, hence which of
\* them becomes the row's, is lost if it is imported into an empty database
\* (nginx_http_config.mako, nginx_stream_config.mako, payload_from_domain,
\* parse_http_file, parse_stream_file).
ReadsBack ==
  \A n \in Present(rows) :
    \E rule \in Spellings(rows[n].rule) :
      Parse(rows[n].path, rows[n].text) = ReadAs(rows[n].path, rule)
=============================================================================
