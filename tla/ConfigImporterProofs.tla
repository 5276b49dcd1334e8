------------------------ MODULE ConfigImporterProofs ------------------------
(***************************************************************************)
(* What ConfigImporter keeps for every directory, text and request.        *)
(*                                                                         *)
(* The session of an import only adds rows to the committed ones, each     *)
(* disjoint from those before it (Inv); what has been refused once is      *)
(* refused later, since rows only come to be known and to clash.           *)
(***************************************************************************)
EXTENDS ConfigImporter, TLAPS

-----------------------------------------------------------------------------
(* Parsing and rendering *)

LEMMA SimpleFacts ==
  ASSUME NEW text \in Text, NEW i \in 1 .. 2, Simple(text, i)
  PROVE  /\ text[i] \in Block
         /\ Len(text[i].proxies) = 1 /\ text[i].proxies[1] \in Upstream \cup {BadUpstream}
         /\ Len(text[i].names) > 0
         /\ text[i].ssl => text[i].cert \in Name
<1>1. text[i] \in Block
  BY DEF Simple, Text
<1>2. text[i].proxies \in Seq(Upstream \cup {BadUpstream, Odd}) /\ text[i].names \in Seq(Name \cup {BadName})
  BY <1>1 DEF Block
<1> QED
  BY <1>1, <1>2 DEF Simple, Block

LEMMA HttpRuleType ==
  ASSUME NEW block \in Block, Len(block.proxies) = 1,
         block.proxies[1] \in Upstream \cup {BadUpstream}, Len(block.names) > 0,
         block.ssl => block.cert \in Name
  PROVE  HttpRule(block) \in Rule \cup {NoRule}
<1> SUFFICES ASSUME BadName \notin Elements(block.names), ~ Duplicates(block.names),
                    block.proxies[1] # BadUpstream
             PROVE  HttpRule(block) \in Rule
  BY DEF HttpRule
<1>1. block.names \in Seq(Name \cup {BadName}) /\ block.ssl \in BOOLEAN
  BY DEF Block
<1>2. \A i \in 1 .. Len(block.names) : block.names[i] \in Name
  BY <1>1 DEF Elements
<1>3. block.names \in Seq(Name) /\ block.names # <<>> /\ block.names[1] \in Name
  BY <1>1, <1>2
<1>4. block.proxies[1] \in Upstream
  OBVIOUS
<1>5. (IF block.ssl THEN block.cert ELSE NoName) \in Name \cup {NoName}
  OBVIOUS
<1>6. block.ssl = ((IF block.ssl THEN block.cert ELSE NoName) # NoName)
  BY <1>1, AbsentAssumption
<1> DEFINE rule == [type |-> "http", name |-> block.names[1], names |-> block.names, listen |-> Odd,
                    upstream |-> block.proxies[1], ssl |-> block.ssl,
                    cert |-> IF block.ssl THEN block.cert ELSE NoName]
<1>7. HttpRule(block) = rule
  BY DEF HttpRule
<1>8. rule \in Rule
  BY <1>1, <1>3, <1>4, <1>5, <1>6 DEF Rule
<1> QED
  BY <1>7, <1>8

LEMMA ParseType ==
  ASSUME NEW path \in Path, NEW text \in Text
  PROVE  Parse(path, text) \in Rule \cup {NoRule}
<1>1. ParseHttp(text) \in Rule \cup {NoRule}
  <2>1. CASE \E i \in 1 .. 2 : Simple(text, i)
    <3> DEFINE i == CHOOSE i \in 1 .. 2 : Simple(text, i)
    <3>1. i \in 1 .. 2 /\ Simple(text, i)
      BY <2>1
    <3> HIDE DEF i
    <3>2. HttpRule(text[i]) \in Rule \cup {NoRule}
      BY <3>1, SimpleFacts, HttpRuleType
    <3> QED
      BY <2>1, <3>2 DEF ParseHttp, i
  <2>2. CASE ~ \E i \in 1 .. 2 : Simple(text, i)
    BY <2>2 DEF ParseHttp
  <2> QED
    BY <2>1, <2>2
<1>2. ParseStream(path.stem, text) \in Rule \cup {NoRule}
  <2> DEFINE listen == [port |-> text[1].listen.port,
                        protocol |-> IF text[1].listen.udp THEN "udp" ELSE "tcp"]
  <2> SUFFICES ASSUME Len(text) = 1, text[1].listen # Odd, text[1].proxies[1] \in Upstream,
                      path.stem \in Name
               PROVE  [type |-> "stream", name |-> path.stem, names |-> <<>>, listen |-> listen,
                       upstream |-> text[1].proxies[1], ssl |-> FALSE, cert |-> NoName] \in Rule
    BY DEF ParseStream
  <2>1. text[1] \in Block
    BY DEF Text
  <2>2. text[1].listen \in Directive
    BY <2>1 DEF Block
  <2>3. listen \in Listen
    BY <2>2 DEF Directive, Listen
  <2> HIDE DEF listen
  <2> QED
    BY <2>3 DEF Rule
<1> QED
  BY <1>1, <1>2 DEF Parse

LEMMA RuleFields ==
  ASSUME NEW rule \in Rule
  PROVE  /\ rule.names \in Seq(Name) /\ rule.upstream \in Upstream
         /\ rule.listen \in Listen \cup {Odd} /\ rule.ssl \in BOOLEAN
         /\ rule.cert \in Name \cup {NoName} /\ rule.name \in Name
         /\ rule.type \in {"http", "stream"}
         /\ rule.type = "http" =>
              /\ rule.names # <<>> /\ rule.names[1] = rule.name
              /\ ~ Duplicates(rule.names) /\ rule.listen = Odd
              /\ rule.ssl => rule.cert # NoName
              /\ ~ rule.ssl => rule.cert = NoName
         /\ rule.type = "stream" =>
              /\ rule.names = <<>> /\ rule.listen \in Listen
              /\ ~ rule.ssl /\ rule.cert = NoName
<1>1. <<>> \in Seq(Name)
  OBVIOUS
<1>2. CASE rule.type = "http"
  BY <1>2 DEF Rule
<1>3. CASE rule.type = "stream"
  BY <1>1, <1>3 DEF Rule
<1> QED
  BY <1>2, <1>3 DEF Rule

LEMMA DirectedType ==
  ASSUME NEW listen \in Listen \cup {Odd}
  PROVE  Directed(listen) \in Directive \cup {Odd}
  BY DEF Directed, Listen, Directive

LEMMA RenderType ==
  ASSUME NEW rule \in Rule
  PROVE  Render(rule) \in Text
<1>1. /\ rule.names \in Seq(Name) /\ rule.upstream \in Upstream
      /\ rule.listen \in Listen \cup {Odd} /\ rule.ssl \in BOOLEAN /\ rule.cert \in Name \cup {NoName}
  BY RuleFields
<1>2. rule.names \in Seq(Name \cup {BadName})
  BY <1>1
<1>3. ASSUME NEW listen \in Directive \cup {Odd}, NEW proxies \in {<<>>, <<rule.upstream>>},
             NEW ssl \in BOOLEAN, NEW cert \in Name \cup {NoName}
      PROVE  Server(rule.names, listen, proxies, ssl, cert) \in Block
  <2>1. <<>> \in Seq(Upstream \cup {BadUpstream, Odd})
        /\ <<rule.upstream>> \in Seq(Upstream \cup {BadUpstream, Odd})
    <3>1. rule.upstream \in Upstream \cup {BadUpstream, Odd}
      BY <1>1
    <3> QED
      BY <3>1
  <2> QED
    BY <1>2, <2>1 DEF Server, Block
<1>4. CASE rule.ssl
  <2> DEFINE redirect == Server(rule.names, Odd, <<>>, FALSE, NoName)
             proxy == Server(rule.names, Odd, <<rule.upstream>>, TRUE, rule.cert)
  <2>1. redirect \in Block /\ proxy \in Block
    BY <1>1, <1>3
  <2> HIDE DEF redirect, proxy
  <2>2. <<redirect, proxy>> \in Seq(Block)
    BY <2>1
  <2> QED
    BY <1>4, <2>2 DEF Render, Text, redirect, proxy
<1>5. CASE ~ rule.ssl
  <2> DEFINE proxy == Server(rule.names, Directed(rule.listen), <<rule.upstream>>, FALSE, NoName)
  <2>1. proxy \in Block
    BY <1>1, <1>3, DirectedType
  <2> HIDE DEF proxy
  <2>2. <<proxy>> \in Seq(Block)
    BY <2>1
  <2> QED
    BY <1>5, <2>2 DEF Render, Text, proxy
<1> QED
  BY <1>1, <1>4, <1>5

\* The proxying block of a rendered host name.
LEMMA RenderedHttp ==
  ASSUME NEW rule \in Rule, rule.type = "http"
  PROVE  LET i == IF rule.ssl THEN 2 ELSE 1
         IN  /\ \A j \in 1 .. 2 : Simple(Render(rule), j) <=> j = i
             /\ Render(rule)[i] = Server(rule.names, Odd, <<rule.upstream>>, rule.ssl, rule.cert)
<1>1. /\ rule.names \in Seq(Name) /\ rule.names # <<>> /\ rule.upstream # Odd
      /\ rule.ssl \in BOOLEAN /\ rule.listen = Odd 
      /\ rule.ssl => rule.cert # NoName
      /\ ~ rule.ssl => rule.cert = NoName
  BY RuleFields, AbsentAssumption
<1>2. CASE rule.ssl
  <2> DEFINE text == Render(rule)
  <2>1. text = <<Server(rule.names, Odd, <<>>, FALSE, NoName),
                 Server(rule.names, Odd, <<rule.upstream>>, TRUE, rule.cert)>>
    BY <1>2 DEF Render
  <2>2. /\ Len(text) = 2 /\ DOMAIN text = 1 .. 2
        /\ text[1] = Server(rule.names, Odd, <<>>, FALSE, NoName)
        /\ text[2] = Server(rule.names, Odd, <<rule.upstream>>, TRUE, rule.cert)
    BY <2>1
  <2> HIDE DEF text
  <2>3. /\ text[1].proxies = <<>> /\ text[1].names = rule.names /\ text[1].ssl = FALSE
        /\ text[2].proxies = <<rule.upstream>> /\ text[2].names = rule.names /\ text[2].cert = rule.cert
    BY <2>2 DEF Server
  <2>4. text[2].proxies # <<>> /\ Len(text[2].proxies) = 1 /\ text[2].proxies[1] # Odd
    BY <1>1, <2>3
  <2>5. ~ Simple(text, 1)
    BY <2>2, <2>3 DEF Simple
  <2>6. \A j \in DOMAIN text : /\ (text[j].proxies # <<>>) = (j = 2)
                               /\ Elements(text[j].names) = Elements(text[2].names)
                               /\ text[j].ssl => j = 2
    <3> SUFFICES ASSUME NEW j \in 1 .. 2
                 PROVE  /\ (text[j].proxies # <<>>) = (j = 2)
                        /\ Elements(text[j].names) = Elements(text[2].names)
                        /\ text[j].ssl => j = 2
      BY <2>2
    <3>1. CASE j = 1
      BY <2>3, <3>1
    <3>2. CASE j = 2
      BY <2>4, <3>2
    <3> QED
      BY <3>1, <3>2
  <2>7. 2 \in DOMAIN text /\ Len(text) <= 2 /\ text[2].names # <<>>
    <3>1. 2 \in DOMAIN text /\ Len(text) <= 2
      BY <2>2
    <3>2. text[2].names # <<>>
      BY <1>1, <2>3, Zenon
    <3> QED
      BY <3>1, <3>2
  <2>7a. text[2].cert # NoName
    BY <1>1, <1>2, <2>3
  <2>8. Simple(text, 2)
    BY <2>4, <2>6, <2>7, <2>7a, Zenon DEF Simple
  <2>9. \A j \in 1 .. 2 : Simple(text, j) <=> j = 2
    BY <2>5, <2>8
  <2>10. rule.ssl = TRUE
    BY <1>1, <1>2
  <2> QED
    BY <1>2, <2>2, <2>9, <2>10, Zenon DEF text
<1>3. CASE ~ rule.ssl
  <2> DEFINE text == Render(rule)
  <2>1. text = <<Server(rule.names, Odd, <<rule.upstream>>, FALSE, NoName)>>
    BY <1>1, <1>3 DEF Render, Directed
  <2>2. Len(text) = 1 /\ DOMAIN text = {1}
        /\ text[1] = Server(rule.names, Odd, <<rule.upstream>>, FALSE, NoName)
    BY <2>1
  <2> HIDE DEF text
  <2>3. text[1].proxies = <<rule.upstream>> /\ text[1].names = rule.names /\ text[1].ssl = FALSE
    BY <2>2 DEF Server
  <2>4. text[1].proxies # <<>> /\ Len(text[1].proxies) = 1 /\ text[1].proxies[1] # Odd
    BY <1>1, <2>3
  <2>5. ~ Simple(text, 2)
    BY <2>2 DEF Simple
  <2>6. \A j \in DOMAIN text : /\ (text[j].proxies # <<>>) = (j = 1)
                               /\ Elements(text[j].names) = Elements(text[1].names)
                               /\ text[j].ssl => j = 1
    BY <2>2, <2>3, <2>4
  <2>6a. 1 \in DOMAIN text /\ Len(text) <= 2 /\ text[1].names # <<>> /\ ~ text[1].ssl
    <3>1. 1 \in DOMAIN text /\ Len(text) <= 2
      BY <2>2
    <3>2. text[1].names # <<>> /\ ~ text[1].ssl
      BY <1>1, <2>3, Zenon
    <3> QED
      BY <3>1, <3>2
  <2>6b. Simple(text, 1)
    BY <2>4, <2>6, <2>6a, Zenon DEF Simple
  <2>7. \A j \in 1 .. 2 : Simple(text, j) <=> j = 1
    BY <2>5, <2>6b
  <2>8. rule.ssl = FALSE /\ rule.cert = NoName
    BY <1>1, <1>3
  <2> QED
    BY <1>3, <2>2, <2>7, <2>8, Zenon DEF text
<1> QED
  BY <1>2, <1>3

LEMMA Renamed ==
  ASSUME NEW name, NEW names, NEW listen, NEW upstream, NEW ssl, NEW cert, NEW new
  PROVE  LET rule == [type |-> "stream", name |-> name, names |-> names, listen |-> listen,
                      upstream |-> upstream, ssl |-> ssl, cert |-> cert]
         IN  [rule EXCEPT !.name = new] =
               [type |-> "stream", name |-> new, names |-> names, listen |-> listen,
                upstream |-> upstream, ssl |-> ssl, cert |-> cert]
OBVIOUS

LEMMA DirectedAndRead ==
  ASSUME NEW listen \in Listen
  PROVE  /\ Directed(listen) # Odd
         /\ [port |-> Directed(listen).port,
             protocol |-> IF Directed(listen).udp THEN "udp" ELSE "tcp"] = listen
<1>1. listen # Odd
  BY AbsentAssumption
<1>2. PICK port \in Port, protocol \in {"tcp", "udp"} : listen = [port |-> port, protocol |-> protocol]
  BY DEF Listen
<1> DEFINE directive == [port |-> port, udp |-> protocol = "udp"]
<1>3. Directed(listen) = directive
  BY <1>1, <1>2 DEF Directed
<1>4. directive \in Directive
  BY DEF Directive
<1>5. directive # Odd
  BY <1>4, AbsentAssumption
<1>6. directive.port = port /\ (directive.udp <=> protocol = "udp")
  OBVIOUS
<1> HIDE DEF directive
<1>7. (IF directive.udp THEN "udp" ELSE "tcp") = protocol
  BY <1>6
<1> QED
  BY <1>2, <1>3, <1>5, <1>6, <1>7

\* The importer reads what the templates write: nothing of a rule is lost but a
\* proxy's name, which becomes the stem of its file (nginx_http_config.mako,
\* nginx_stream_config.mako, parse_http_file, parse_stream_file).
THEOREM RoundTrip ==
  ASSUME NEW rule \in Rule, NEW path, path.type = rule.type,
         path.type = "stream" => path.stem \in Name
  PROVE  Parse(path, Render(rule)) = ReadAs(path, rule)
<1>1. CASE rule.type = "http"
  <2> DEFINE i == IF rule.ssl THEN 2 ELSE 1
             block == Server(rule.names, Odd, <<rule.upstream>>, rule.ssl, rule.cert)
  <2>1. /\ \A j \in 1 .. 2 : Simple(Render(rule), j) <=> j = i
        /\ Render(rule)[i] = block
    BY <1>1, RenderedHttp
  <2>2. i \in 1 .. 2
    OBVIOUS
  <2> HIDE DEF i
  <2>3. ParseHttp(Render(rule)) = HttpRule(block)
    BY <2>1, <2>2 DEF ParseHttp
  <2>4. /\ block.names = rule.names /\ block.proxies[1] = rule.upstream
        /\ block.ssl = rule.ssl /\ block.cert = rule.cert
    BY DEF Server
  <2> HIDE DEF block
  <2>5. BadName \notin Elements(rule.names)
    BY RuleFields, AbsentAssumption DEF Elements
  <2>5a. (IF rule.ssl THEN rule.cert ELSE NoName) = rule.cert
    BY <1>1, RuleFields
  <2>5b. ~ Duplicates(rule.names) /\ rule.upstream # BadUpstream /\ rule.names[1] = rule.name
    BY <1>1, RuleFields, AbsentAssumption
  <2>6. HttpRule(block) = [type |-> "http", name |-> rule.name, names |-> rule.names, listen |-> Odd,
                           upstream |-> rule.upstream, ssl |-> rule.ssl, cert |-> rule.cert]
    BY <2>4, <2>5, <2>5a, <2>5b, Zenon DEF HttpRule
  <2>7. HttpRule(block) = rule
    BY <1>1, <2>6, RuleFields DEF Rule
  <2>8. ReadAs(path, rule) = rule
    BY <1>1 DEF ReadAs, Rule
  <2> QED
    BY <1>1, <2>3, <2>7, <2>8 DEF Parse
<1>2. CASE rule.type = "stream"
  <2> DEFINE text == Render(rule)
             read_ == [type |-> "stream", name |-> path.stem, names |-> <<>>, listen |-> rule.listen,
                       upstream |-> rule.upstream, ssl |-> FALSE, cert |-> NoName]
  <2>1. text = <<Server(<<>>, Directed(rule.listen), <<rule.upstream>>, FALSE, NoName)>>
    BY <1>2, RuleFields DEF Render
  <2>2. Len(text) = 1 /\ text[1].listen = Directed(rule.listen) /\ text[1].proxies = <<rule.upstream>>
    BY <2>1 DEF Server
  <2> HIDE DEF text
  <2>2a. /\ text[1].listen # Odd
         /\ [port |-> text[1].listen.port,
             protocol |-> IF text[1].listen.udp THEN "udp" ELSE "tcp"] = rule.listen
    BY <1>2, <2>2, RuleFields, DirectedAndRead
  <2>2b. text[1].proxies # <<>> /\ text[1].proxies[1] = rule.upstream /\ rule.upstream \in Upstream
         /\ path.stem \in Name
    BY <1>2, <2>2, RuleFields
  <2>3. ParseStream(path.stem, text) = read_
    BY <2>2, <2>2a, <2>2b, Zenon DEF ParseStream
  <2>4. PICK n \in Name, l \in Listen, v \in Upstream :
          rule = [type |-> "stream", name |-> n, names |-> <<>>, listen |-> l, upstream |-> v,
                  ssl |-> FALSE, cert |-> NoName]
    BY <1>2 DEF Rule
  <2>5. ReadAs(path, rule) = [rule EXCEPT !.name = path.stem]
    BY <1>2 DEF ReadAs
  <2>6. ReadAs(path, rule) = [type |-> "stream", name |-> path.stem, names |-> <<>>, listen |-> l,
                              upstream |-> v, ssl |-> FALSE, cert |-> NoName]
    BY <2>4, <2>5, Renamed, Zenon
  <2>7. l = rule.listen /\ v = rule.upstream
    BY <2>4
  <2> QED
    BY <1>2, <2>3, <2>6, <2>7 DEF Parse, text
<1> QED
  BY <1>1, <1>2, RuleFields

-----------------------------------------------------------------------------
(* The spellings of a rule *)

\* A rule is a spelling of itself, and each differs in the order of names only.
LEMMA SpellingFacts ==
  ASSUME NEW rule \in Rule
  PROVE  /\ rule \in Spellings(rule)
         /\ Spellings(rule) \subseteq Rule
         /\ \A r \in Spellings(rule) : r.type = rule.type
<1>1. CASE rule.type = "stream"
  BY <1>1 DEF Spellings
<1>2. CASE rule.type = "http"
  <2> DEFINE orders == {s \in [DOMAIN rule.names -> Elements(rule.names)] : ~ Duplicates(s)}
             spelled(names) == [rule EXCEPT !.name = names[1], !.names = names]
  <2>1. Spellings(rule) = {spelled(names) : names \in orders}
    BY <1>2 DEF Spellings
  <2>2. /\ rule.names \in Seq(Name) /\ rule.names # <<>> /\ rule.names[1] = rule.name
        /\ ~ Duplicates(rule.names)
    BY <1>2, RuleFields
  <2>3. rule.names \in orders
    BY <2>2 DEF Elements
  <2>4. rule \in [type : {"http"}, name : Name, names : Seq(Name), listen : {Odd}, upstream : Upstream,
                  ssl : BOOLEAN, cert : Name \cup {NoName}]
        /\ rule.ssl = (rule.cert # NoName)
    BY <1>2 DEF Rule
  <2>5. spelled(rule.names) = rule
    BY <2>2, <2>4
  <2>6. ASSUME NEW names \in orders
        PROVE  spelled(names) \in Rule /\ spelled(names).type = rule.type
    <3>1. names \in Seq(Name) /\ names # <<>> /\ names[1] \in Name /\ ~ Duplicates(names)
      <4>1. Elements(rule.names) \subseteq Name /\ DOMAIN rule.names = 1 .. Len(rule.names)
            /\ Len(rule.names) \in Nat /\ Len(rule.names) > 0
        BY <2>2 DEF Elements
      <4>2. names \in [1 .. Len(rule.names) -> Name] /\ ~ Duplicates(names)
        BY <4>1
      <4>3. names \in Seq(Name) /\ Len(names) = Len(rule.names)
        BY <4>1, <4>2
      <4> QED
        BY <4>1, <4>2, <4>3
    <3> HIDE DEF orders
    <3> QED
      BY <2>4, <3>1 DEF Rule
  <2> HIDE DEF orders, spelled
  <2> QED
    BY <2>1, <2>3, <2>5, <2>6
<1> QED
  BY <1>1, <1>2, RuleFields

-----------------------------------------------------------------------------
(* What every set of rows keeps, the session's as the committed one *)

Named(rs) == \A n \in Present(rs) : rs[n].rule.name = n

Disjoint(rs) ==
  \A m, n \in Present(rs) : m # n =>
    /\ Elements(rs[m].rule.names) \cap Elements(rs[n].rule.names) = {}
    /\ rs[m].rule.listen = rs[n].rule.listen => rs[m].rule.listen = Odd
    /\ rs[m].paths \cap rs[n].paths = {}

Reads(row) == \E rule \in Spellings(row.rule) : Parse(row.path, row.text) = ReadAs(row.path, rule)

Sound(rs) ==
  /\ rs \in [Name -> Row \cup {NoRow}]
  /\ Named(rs) /\ Disjoint(rs)
  /\ \A n \in Present(rs) : Reads(rs[n])

Extends(rs, old) == \A n \in Present(old) : rs[n] = old[n]

\* The files before the i-th have nothing left to import.
Done(rs, i) ==
  \A j \in 1 .. i - 1 :
    LET p == FileOrder[j] IN read[p] # NoFile => ~ Importable(rs, p, read[p])

Inv ==
  /\ TypeOK
  /\ Sound(rows)
  /\ pc = "importing" => Sound(pending) /\ Extends(pending, rows) /\ Done(pending, next)
  /\ pc = "settled" => Done(rows, Len(FileOrder) + 1)

\* A row that shares nothing with any other can be added.
LEMMA AddRow ==
  ASSUME NEW rs, Sound(rs), NEW row \in Row, rs[row.rule.name] = NoRow, Reads(row),
         \A n \in Present(rs) :
           /\ Elements(rs[n].rule.names) \cap Elements(row.rule.names) = {}
           /\ row.rule.listen # Odd => rs[n].rule.listen # row.rule.listen
           /\ rs[n].paths \cap row.paths = {}
  PROVE  /\ Sound([rs EXCEPT ![row.rule.name] = row])
         /\ Extends([rs EXCEPT ![row.rule.name] = row], rs)
<1> DEFINE k == row.rule.name
           new == [rs EXCEPT ![k] = row]
<1>1. rs \in [Name -> Row \cup {NoRow}] /\ row.rule \in Rule
  BY DEF Sound, Row
<1>2. k \in Name
  BY <1>1, RuleFields
<1> HIDE DEF k
<1>3. new \in [Name -> Row \cup {NoRow}] /\ new[k] = row
      /\ \A n \in Name \ {k} : new[n] = rs[n]
  BY <1>1, <1>2
<1> HIDE DEF new
<1>4. Present(new) = Present(rs) \cup {k} /\ k \notin Present(rs)
  BY <1>1, <1>2, <1>3, AbsentAssumption DEF Present, k
<1>5. \A n \in Present(rs) : n \in Name /\ n # k /\ new[n] = rs[n]
  BY <1>3, <1>4 DEF Present
<1>7. Disjoint(new)
  <2> SUFFICES ASSUME NEW m \in Present(new), NEW n \in Present(new), m # n
               PROVE  /\ Elements(new[m].rule.names) \cap Elements(new[n].rule.names) = {}
                      /\ new[m].rule.listen = new[n].rule.listen => new[m].rule.listen = Odd
                      /\ new[m].paths \cap new[n].paths = {}
    BY DEF Disjoint
  <2>1. CASE m \in Present(rs) /\ n \in Present(rs)
    BY <1>5, <2>1 DEF Sound, Disjoint
  <2>2. CASE m = k /\ n \in Present(rs)
    BY <1>3, <1>5, <2>2
  <2>3. CASE m \in Present(rs) /\ n = k
    BY <1>3, <1>5, <2>3
  <2> QED
    BY <1>4, <2>1, <2>2, <2>3
<1>8. Named(new)
  BY <1>3, <1>4, <1>5 DEF Named, Sound, k
<1>9. \A n \in Present(new) : Reads(new[n])
  BY <1>3, <1>4, <1>5 DEF Sound
<1> QED
  BY <1>3, <1>5, <1>7, <1>8, <1>9 DEF Sound, Extends, new, k

\* Without a row, the others are what they were.
LEMMA RemoveRow ==
  ASSUME NEW rs, Sound(rs), NEW k \in Name
  PROVE  /\ Sound(Without(rs, k))
         /\ \A n \in Present(Without(rs, k)) : n \in Present(rs) /\ n # k /\ Without(rs, k)[n] = rs[n]
<1> DEFINE new == Without(rs, k)
<1>1. new \in [Name -> Row \cup {NoRow}]
  BY DEF Sound, Without
<1>2. \A n \in Present(new) : n \in Present(rs) /\ n # k /\ new[n] = rs[n]
  BY DEF Present, Without
<1> HIDE DEF new
<1>3. Named(new) /\ Disjoint(new)
  BY <1>2 DEF Sound, Named, Disjoint
<1>4. \A n \in Present(new) : Reads(new[n])
  BY <1>2 DEF Sound
<1> QED
  BY <1>1, <1>2, <1>3, <1>4 DEF Sound, new

\* What has been refused is refused when rows have been added.
LEMMA RefusedAgain ==
  ASSUME NEW rs, NEW old, Sound(rs), Sound(old), Extends(rs, old), NEW path \in Path, NEW text \in Text,
         ~ Importable(old, path, text)
  PROVE  ~ Importable(rs, path, text)
<1> DEFINE rule == Parse(path, text)
<1>1. SUFFICES ASSUME rule # NoRule
             PROVE  /\ Known(old, rule, path) => Known(rs, rule, path)
                    /\ Clash(old, rule) => Clash(rs, rule)
  BY DEF Importable
<1>2. rule \in Rule
  BY <1>1, ParseType
<1>3. rule.name \in Name
  BY <1>2, RuleFields
<1> HIDE DEF rule
<1>4. \A n \in Present(old) : n \in Present(rs) /\ rs[n] = old[n]
  BY DEF Extends, Present
<1> QED
  BY <1>3, <1>4 DEF Known, Clash, Present

-----------------------------------------------------------------------------
(* The initial state and each action keep the invariant *)

LEMMA Initially ==
  Init => Inv
<1> SUFFICES ASSUME Init PROVE Inv
  OBVIOUS
<1>1. Present(rows) = {}
  BY DEF Init, Present
<1>2. Sound(rows)
  BY <1>1 DEF Init, Sound, Named, Disjoint
<1>3. TypeOK
  BY CertificatesAssumption, PathAssumption DEF Init, TypeOK
<1> QED
  BY <1>2, <1>3 DEF Init, Inv

LEMMA StartStep ==
  ASSUME Inv, StartImport
  PROVE  Inv'
<1>1. TypeOK'
  BY PathAssumption DEF Inv, TypeOK, StartImport
<1>2. Sound(rows)' /\ Sound(pending)'
  BY DEF Inv, StartImport, Sound, Named, Disjoint, Present, Reads, ReadAs
<1>3. Extends(pending, rows)' /\ Done(pending, next)'
  BY DEF StartImport, Extends, Done
<1> QED
  BY <1>1, <1>2, <1>3 DEF Inv, StartImport

\* A file that is imported becomes a row of the type Row that reads as it says.
LEMMA ImportedRow ==
  ASSUME NEW path \in Path, NEW text \in Text, Parse(path, text) # NoRule,
         NEW certificates \in SUBSET [cert : Name, names : SUBSET Name]
  PROVE  LET row == Imported(path, text, certificates)
         IN  /\ row \in Row /\ Reads(row)
             /\ row.rule = Parse(path, text) /\ row.paths = {path}
<1> DEFINE rule == Parse(path, text)
           row == Imported(path, text, certificates)
<1>1. rule \in Rule /\ rule.cert \in Name \cup {NoName}
  BY ParseType, RuleFields
<1>2. [rule EXCEPT !.name = rule.name] = rule
  BY <1>1 DEF Rule
<1>3. rule.type = "stream" => rule.name = path.stem
  <2> SUFFICES ASSUME rule.type = "stream" PROVE rule.name = path.stem
    OBVIOUS
  <2>1. path.type # "http"
    <3> SUFFICES ASSUME path.type = "http" PROVE FALSE
      OBVIOUS
    <3>1. rule = ParseHttp(text)
      BY DEF Parse
    <3> QED
      BY <1>1, <3>1 DEF ParseHttp, HttpRule
  <2> QED
    BY <2>1 DEF Parse, ParseStream
<1> HIDE DEF rule
<1>4. rule \in Spellings(rule)
  BY <1>1, SpellingFacts
<1>5. row = [rule |-> rule, path |-> path, text |-> text, paths |-> {path}, applied |-> rule.cert,
             certificates |-> certificates]
  BY DEF Imported, rule
<1> HIDE DEF row
<1>6. row \in Row
  BY <1>1, <1>5 DEF Row
<1>7. ReadAs(path, rule) = rule
  BY <1>2, <1>3 DEF ReadAs
<1>8. Parse(path, text) = rule
  BY DEF rule
<1>9. row.path = path /\ row.text = text /\ row.rule = rule /\ row.paths = {path}
  BY <1>5
<1>10. Reads(row)
  BY <1>4, <1>7, <1>8, <1>9 DEF Reads
<1> QED
  BY <1>6, <1>8, <1>9, <1>10 DEF row

LEMMA CertifiedType ==
  ASSUME NEW rule \in Rule
  PROVE  Certified(rule) \subseteq SUBSET [cert : Name, names : SUBSET Name]
<1>1. Elements(rule.names) \subseteq Name
  BY RuleFields DEF Elements
<1>2. CASE rule.ssl
  <2>1. rule.cert \in Name
    BY <1>2, RuleFields DEF Rule
  <2> QED
    BY <1>1, <2>1 DEF Certified
<1>3. CASE ~ rule.ssl
  BY <1>3 DEF Certified
<1> QED
  BY <1>2, <1>3

LEMMA ImportStep ==
  ASSUME Inv, ImportFile
  PROVE  Inv'
<1> DEFINE path == FileOrder[next]
           text == read[path]
           rule == Parse(path, text)
<1>1. /\ pc = "importing" /\ next \in Nat /\ next <= Len(FileOrder) /\ next' = next + 1
      /\ path \in Path /\ FileOrder \in Seq(Path) /\ 1 <= next
      /\ rows' = rows /\ files' = files /\ covered' = covered /\ pc' = pc /\ read' = read
  BY PathAssumption DEF Inv, TypeOK, ImportFile
<1>2. /\ Sound(rows) /\ Sound(pending) /\ Extends(pending, rows) /\ Done(pending, next)
  BY <1>1 DEF Inv
<1>3. /\ Sound(pending')
      /\ Extends(pending', pending)
      /\ text # NoFile => ~ Importable(pending', path, text)
  <2>1. CASE text # NoFile /\ Importable(pending, path, text)
    <3>1. PICK certificates \in Certified(rule) :
            pending' = [pending EXCEPT ![rule.name] = Imported(path, text, certificates)]
      BY <2>1 DEF ImportFile
    <3> DEFINE row == Imported(path, text, certificates)
    <3>2. text \in Text
      BY <1>1, <2>1 DEF Inv, TypeOK
    <3>3. /\ rule # NoRule /\ pending[rule.name] = NoRow /\ ~ Clash(pending, rule)
          /\ \A n \in Present(pending) : path \notin pending[n].paths
      BY <2>1 DEF Importable, Known
    <3>4. rule \in Rule /\ rule.name \in Name
      BY <1>1, <3>2, <3>3, ParseType, RuleFields
    <3>5. certificates \in SUBSET [cert : Name, names : SUBSET Name]
      BY <3>4, CertifiedType
    <3>6. row \in Row /\ Reads(row) /\ row.rule = rule /\ row.paths = {path}
      BY <1>1, <3>2, <3>3, <3>5, ImportedRow
    <3> HIDE DEF path, text, rule, row
    <3>7. Sound(pending') /\ Extends(pending', pending)
      <4>1. \A n \in Present(pending) :
              /\ Elements(pending[n].rule.names) \cap Elements(row.rule.names) = {}
              /\ row.rule.listen # Odd => pending[n].rule.listen # row.rule.listen
              /\ pending[n].paths \cap row.paths = {}
        BY <3>3, <3>6 DEF Clash
      <4>2. pending' = [pending EXCEPT ![row.rule.name] = row]
        BY <3>1, <3>6 DEF row
      <4>3. Sound(pending) /\ pending[row.rule.name] = NoRow
        BY <1>2, <3>3, <3>6
      <4> QED
        BY <3>6, <4>1, <4>2, <4>3, AddRow
    <3>8. pending'[rule.name] # NoRow
      BY <1>2, <3>1, <3>4, <3>6, AbsentAssumption DEF Sound, row
    <3>9. ~ Importable(pending', path, text)
      BY <3>8 DEF Importable, Known, rule
    <3> QED
      BY <3>7, <3>9
  <2>2. CASE ~ (text # NoFile /\ Importable(pending, path, text))
    <3>1. pending' = pending
      BY <2>2 DEF ImportFile
    <3> QED
      BY <1>2, <2>2, <3>1 DEF Extends
  <2> QED
    BY <2>1, <2>2
<1>4. Extends(pending', rows)
  BY <1>2, <1>3 DEF Extends, Present
<1>5. Done(pending', next + 1)
  <2> SUFFICES ASSUME NEW j \in 1 .. (next + 1) - 1, read[FileOrder[j]] # NoFile
               PROVE  ~ Importable(pending', FileOrder[j], read[FileOrder[j]])
    BY DEF Done
  <2>1. FileOrder[j] \in Path /\ read[FileOrder[j]] \in Text
    BY <1>1 DEF Inv, TypeOK
  <2>2. CASE j = next
    BY <1>3, <2>2
  <2>3. CASE j \in 1 .. next - 1
    <3>1. ~ Importable(pending, FileOrder[j], read[FileOrder[j]])
      BY <1>2, <2>3 DEF Done
    <3> QED
      BY <1>2, <1>3, <2>1, <3>1, RefusedAgain
  <2> QED
    BY <1>1, <2>2, <2>3
<1>6. TypeOK'
  BY <1>1, <1>3 DEF Inv, TypeOK, Sound
<1>7. Sound(rows)' /\ Sound(pending)' /\ Extends(pending, rows)' /\ Done(pending, next)'
  <2>1. Sound(rows)' /\ Sound(pending)'
    BY <1>1, <1>2, <1>3 DEF Sound, Named, Disjoint, Present, Reads, ReadAs
  <2>2. Extends(pending, rows)' /\ Done(pending, next)'
    BY <1>1, <1>4, <1>5 DEF Extends, Present, Done, Importable, Known, Clash
  <2> QED
    BY <2>1, <2>2
<1> QED
  BY <1>1, <1>6, <1>7 DEF Inv

LEMMA CommitStep ==
  ASSUME Inv, CommitImport
  PROVE  Inv'
<1>1. TypeOK'
  BY DEF Inv, TypeOK, CommitImport
<1>2. Sound(pending) /\ Done(pending, next) /\ next = Len(FileOrder) + 1
  BY PathAssumption DEF Inv, TypeOK, CommitImport
<1>3. Sound(rows)'
  BY <1>2 DEF CommitImport, Sound, Named, Disjoint, Present, Reads, ReadAs
<1>4. Done(rows, Len(FileOrder) + 1)'
  BY <1>2 DEF CommitImport, Done, Importable, Known, Clash, Present
<1> QED
  BY <1>1, <1>3, <1>4 DEF Inv, CommitImport

LEMMA LostStep ==
  ASSUME Inv, ImportLost \/ Stop
  PROVE  Inv'
<1>1. TypeOK' /\ pc' = "down"
  BY DEF Inv, TypeOK, ImportLost, Stop
<1>2. Sound(rows')
  BY DEF Inv, ImportLost, Stop
<1>3. Sound(rows)'
  BY <1>2 DEF Sound, Named, Disjoint, Present, Reads, ReadAs
<1> QED
  BY <1>1, <1>3 DEF Inv

\* A host name with TLS.
LEMMA Secured ==
  ASSUME NEW rule \in Rule, rule.type = "http", NEW cert \in Name, cert # NoName
  PROVE  LET tls == [rule EXCEPT !.ssl = TRUE, !.cert = cert]
         IN  /\ tls \in Rule /\ tls.type = "http" /\ tls.name = rule.name
             /\ tls.names = rule.names /\ tls.listen = rule.listen
  BY DEF Rule

\* A rule rendered, with its names in any order, to a file of its type.
LEMMA RenderedRow ==
  ASSUME NEW rule \in Rule, NEW spelled \in Spellings(rule), NEW path \in Path, path.type = rule.type,
         path.type = "stream" => path.stem \in Name,
         NEW paths \in SUBSET Path, NEW applied \in Name \cup {NoName},
         NEW certificates \in SUBSET [cert : Name, names : SUBSET Name]
  PROVE  LET row == [rule |-> rule, path |-> path, text |-> Render(spelled), paths |-> paths,
                     applied |-> applied, certificates |-> certificates]
         IN  /\ row \in Row /\ Reads(row)
             /\ row.rule = rule /\ row.paths = paths
<1> DEFINE row == [rule |-> rule, path |-> path, text |-> Render(spelled), paths |-> paths,
                   applied |-> applied, certificates |-> certificates]
<1>1. spelled \in Rule /\ spelled.type = rule.type
  BY SpellingFacts
<1>2. row \in Row
  BY <1>1, RenderType DEF Row
<1>3. row.path = path /\ row.text = Render(spelled) /\ row.rule = rule /\ row.paths = paths
  OBVIOUS
<1> HIDE DEF row
<1>4. Reads(row)
  BY <1>1, <1>3, RoundTrip DEF Reads
<1> QED
  BY <1>2, <1>3, <1>4 DEF row

LEMMA CreateStep ==
  ASSUME Inv, CreateDomain
  PROVE  Inv'
<1>1. PICK rule \in Asked :
        LET path == File(rule.type, rule.name)
        IN  /\ rows[rule.name] = NoRow /\ ~ Clash(rows, rule)
            /\ rows' = [rows EXCEPT ![rule.name] =
                 [rule |-> rule, path |-> path, text |-> Render(rule), paths |-> {path},
                  applied |-> NoName, certificates |-> {}]]
  BY DEF CreateDomain
<1> DEFINE path == File(rule.type, rule.name)
           row == [rule |-> rule, path |-> path, text |-> Render(rule), paths |-> {path},
                   applied |-> NoName, certificates |-> {}]
<1>2. rule \in Rule /\ path \in Path /\ path.type = rule.type /\ path.stem \in Name
      /\ rule \in Spellings(rule)
  BY AskedAssumption, PathAssumption, SpellingFacts
<1>3. row \in Row /\ Reads(row) /\ row.rule = rule /\ row.paths = {path}
  BY <1>2, RenderedRow
<1>4. \A n \in Present(rows) : path \notin rows[n].paths
  BY <1>1 DEF Clash
<1>6. rows' = [rows EXCEPT ![rule.name] = row]
  BY <1>1
<1> HIDE DEF path, row
<1>7. Sound(rows) /\ ~ Clash(rows, rule) /\ rows[rule.name] = NoRow
  BY <1>1 DEF Inv
<1>8. Sound([rows EXCEPT ![rule.name] = row])
  <2>1. \A n \in Present(rows) :
          /\ Elements(rows[n].rule.names) \cap Elements(row.rule.names) = {}
          /\ row.rule.listen # Odd => rows[n].rule.listen # row.rule.listen
          /\ rows[n].paths \cap row.paths = {}
    BY <1>3, <1>4, <1>7 DEF Clash
  <2> QED
    BY <1>3, <1>7, <2>1, AddRow
<1>9. Sound(rows)'
  BY <1>6, <1>8 DEF Sound, Named, Disjoint, Present, Reads, ReadAs
<1>10. TypeOK' /\ pc' = "serving"
  BY <1>6, <1>8 DEF Inv, TypeOK, CreateDomain, Serve, Sound
<1> QED
  BY <1>9, <1>10 DEF Inv

LEMMA UpdateStep ==
  ASSUME Inv, NEW n \in Name, UpdateDomain(n)
  PROVE  Inv'
<1> DEFINE others == Without(rows, n)
           Tls(asked) == asked.type = "http" /\ rows[n].applied # NoName
           Kept(asked) ==
             IF Tls(asked) THEN [asked EXCEPT !.ssl = TRUE, !.cert = rows[n].applied] ELSE asked
<1>1. PICK asked \in Asked :
        LET rule == Kept(asked)
            path == File(rule.type, rule.name)
        IN  /\ others[rule.name] = NoRow /\ ~ Clash(others, rule)
            /\ rows' = [others EXCEPT ![rule.name] =
                 [rule |-> rule, path |-> path, text |-> Render(rule),
                  paths |-> rows[n].paths \cup {path}, applied |-> rows[n].applied,
                  certificates |-> rows[n].certificates]]
  BY DEF UpdateDomain
<1> DEFINE rule == Kept(asked)
           path == File(rule.type, rule.name)
           row == [rule |-> rule, path |-> path, text |-> Render(rule),
                   paths |-> rows[n].paths \cup {path}, applied |-> rows[n].applied,
                   certificates |-> rows[n].certificates]
<1>2. /\ Sound(rows) /\ n \in Present(rows) /\ rows[n] \in Row
      /\ rows[n].paths \in SUBSET Path /\ rows[n].applied \in Name \cup {NoName}
      /\ rows[n].certificates \in SUBSET [cert : Name, names : SUBSET Name]
  BY DEF Inv, TypeOK, UpdateDomain, Present, Row
<1>3. asked \in Rule /\ ~ asked.ssl
  BY AskedAssumption
<1>4. rule \in Rule /\ rule.type = asked.type /\ rule.name = asked.name
  <2>1. CASE Tls(asked)
    <3>1. rows[n].applied \in Name /\ rows[n].applied # NoName /\ asked.type = "http"
      BY <1>2, <2>1
    <3>2. [asked EXCEPT !.ssl = TRUE, !.cert = rows[n].applied] \in Rule
      BY <1>3, <3>1, Secured
    <3> QED
      BY <1>3, <2>1, <3>1, <3>2, Secured
  <2>2. CASE ~ Tls(asked)
    BY <1>3, <2>2
  <2> QED
    BY <2>1, <2>2
<1>5. path \in Path /\ path.type = rule.type /\ path.stem \in Name /\ rule \in Spellings(rule)
  BY <1>4, PathAssumption, SpellingFacts
<1>6. others[rule.name] = NoRow /\ ~ Clash(others, rule) /\ rows' = [others EXCEPT ![rule.name] = row]
  BY <1>1
<1> HIDE DEF rule, path
<1>7. row \in Row /\ Reads(row) /\ row.rule = rule /\ row.paths = rows[n].paths \cup {path}
  BY <1>2, <1>4, <1>5, RenderedRow
<1> HIDE DEF row
<1>8. Sound(others) /\ \A m \in Present(others) : m \in Present(rows) /\ m # n /\ others[m] = rows[m]
  BY <1>2, RemoveRow
<1> HIDE DEF others
<1>9. \A m \in Present(others) :
        /\ Elements(others[m].rule.names) \cap Elements(row.rule.names) = {}
        /\ row.rule.listen # Odd => others[m].rule.listen # row.rule.listen
        /\ others[m].paths \cap row.paths = {}
  <2> SUFFICES ASSUME NEW m \in Present(others)
               PROVE  /\ Elements(others[m].rule.names) \cap Elements(rule.names) = {}
                      /\ rule.listen # Odd => others[m].rule.listen # rule.listen
                      /\ others[m].paths \cap (rows[n].paths \cup {path}) = {}
    BY <1>7
  <2>1. rows[m].paths \cap rows[n].paths = {} /\ others[m].paths = rows[m].paths
    BY <1>2, <1>8 DEF Sound, Disjoint
  <2>2. path \notin others[m].paths
    BY <1>6 DEF Clash, path
  <2>3. /\ Elements(others[m].rule.names) \cap Elements(rule.names) = {}
        /\ rule.listen # Odd => others[m].rule.listen # rule.listen
    BY <1>6 DEF Clash
  <2> QED
    BY <2>1, <2>2, <2>3
<1>10. Sound([others EXCEPT ![rule.name] = row])
  BY <1>6, <1>7, <1>8, <1>9, AddRow
<1>11. Sound(rows)'
  BY <1>6, <1>10 DEF Sound, Named, Disjoint, Present, Reads, ReadAs
<1>12. TypeOK' /\ pc' = "serving"
  BY <1>6, <1>10 DEF Inv, TypeOK, UpdateDomain, Serve, Sound
<1> QED
  BY <1>11, <1>12 DEF Inv

LEMMA ApplyStep ==
  ASSUME Inv, NEW n \in Name, ApplyDomain(n)
  PROVE  Inv'
<1> DEFINE row == [rows[n] EXCEPT !.applied = rows[n].rule.cert]
<1>1. /\ rows[n] \in Row /\ rows[n].path \in Path /\ rows[n].text \in Text /\ rows[n].rule \in Rule
      /\ n \in Present(rows)
  BY DEF Inv, TypeOK, ApplyDomain, Row, Present
<1>2. rows[n].rule.cert \in Name \cup {NoName}
  BY <1>1, RuleFields
<1>3. /\ row \in Row /\ row.rule = rows[n].rule /\ row.path = rows[n].path
      /\ row.text = rows[n].text /\ row.paths = rows[n].paths
  BY <1>1, <1>2 DEF Row
<1>4. rows' = [rows EXCEPT ![n] = row]
  BY DEF ApplyDomain
<1> HIDE DEF row
<1>5. /\ rows' \in [Name -> Row \cup {NoRow}] /\ rows'[n] = row
      /\ \A m \in Name \ {n} : rows'[m] = rows[m]
  BY <1>3, <1>4 DEF Inv, TypeOK
<1>6. Present(rows') = Present(rows)
  BY <1>1, <1>3, <1>5, AbsentAssumption DEF Present
<1>7. \A m \in Present(rows) :
        /\ rows'[m].rule = rows[m].rule /\ rows'[m].path = rows[m].path
        /\ rows'[m].text = rows[m].text /\ rows'[m].paths = rows[m].paths
  BY <1>3, <1>5 DEF Present
<1>8. Named(rows') /\ Disjoint(rows')
  BY <1>6, <1>7 DEF Inv, Sound, Named, Disjoint
<1>9. \A m \in Present(rows') : Reads(rows'[m])
  BY <1>6, <1>7 DEF Inv, Sound, Reads
<1>10. Sound(rows')
  BY <1>5, <1>8, <1>9 DEF Sound
<1>11. Sound(rows)'
  BY <1>10 DEF Sound, Named, Disjoint, Present, Reads, ReadAs
<1>12. files' \in [Path -> Text \cup {NoFile}]
  BY <1>1 DEF Inv, TypeOK, ApplyDomain, Installed
<1>13. TypeOK' /\ pc' = "serving"
  BY <1>5, <1>12 DEF Inv, TypeOK, ApplyDomain, Serve
<1> QED
  BY <1>11, <1>13 DEF Inv

LEMMA IssueStep ==
  ASSUME Inv, NEW n \in Name, IssueCertificate(n)
  PROVE  Inv'
<1> DEFINE rule == [rows[n].rule EXCEPT !.ssl = TRUE, !.cert = n]
           path == File("http", n)
           others == Without(rows, n)
           certificates == {c \in rows[n].certificates : c.cert # n}
                           \cup {[cert |-> n, names |-> Elements(rule.names)]}
<1>1. /\ Sound(rows) /\ rows[n] \in Row /\ rows[n].rule \in Rule /\ rows[n].rule.type = "http"
      /\ rows[n].rule.name = n /\ n \in Present(rows) /\ rows[n].paths \in SUBSET Path
      /\ rows[n].certificates \in SUBSET [cert : Name, names : SUBSET Name]
  BY DEF Inv, Sound, Named, Present, IssueCertificate, Row
<1>2. /\ path \in Path /\ path.type = "http"
      /\ \A m \in Present(rows) \ {n} : rows[m].paths \cap (rows[n].paths \cup {path}) = {}
  BY PathAssumption DEF IssueCertificate, Owned
<1>3. PICK spelled \in Spellings(rule) :
        /\ rows' = [rows EXCEPT ![n] =
             [rule |-> rule, path |-> path, text |-> Render(spelled),
              paths |-> rows[n].paths \cup {path}, applied |-> n, certificates |-> certificates]]
        /\ files' = Installed(n, path, Render(spelled))
  BY DEF IssueCertificate
<1> DEFINE row == [rule |-> rule, path |-> path, text |-> Render(spelled),
                   paths |-> rows[n].paths \cup {path}, applied |-> n, certificates |-> certificates]
<1>4. rule \in Rule /\ rule.type = "http" /\ rule.name = n
      /\ rule.names = rows[n].rule.names /\ rule.listen = rows[n].rule.listen
  BY <1>1, AbsentAssumption, Secured
<1> HIDE DEF rule, path
<1>5. Elements(rule.names) \subseteq Name
  BY <1>4, RuleFields DEF Elements
<1>6. certificates \in SUBSET [cert : Name, names : SUBSET Name]
  BY <1>1, <1>5
<1> HIDE DEF certificates
<1>7. row \in Row /\ Reads(row) /\ row.rule = rule /\ row.paths = rows[n].paths \cup {path}
  BY <1>1, <1>2, <1>4, <1>6, RenderedRow
<1>8. rows' = [rows EXCEPT ![n] = row]
  BY <1>3
<1> HIDE DEF row
<1>9. rows' = [others EXCEPT ![row.rule.name] = row] /\ others[row.rule.name] = NoRow
  BY <1>1, <1>4, <1>7, <1>8 DEF Sound, Without
<1>10. Sound(others) /\ \A m \in Present(others) : m \in Present(rows) /\ m # n /\ others[m] = rows[m]
  BY <1>1, RemoveRow
<1> HIDE DEF others
<1>11. \A m \in Present(others) :
        /\ Elements(others[m].rule.names) \cap Elements(row.rule.names) = {}
        /\ row.rule.listen # Odd => others[m].rule.listen # row.rule.listen
        /\ others[m].paths \cap row.paths = {}
  <2> SUFFICES ASSUME NEW m \in Present(others)
               PROVE  /\ Elements(rows[m].rule.names) \cap Elements(rule.names) = {}
                      /\ rule.listen # Odd => rows[m].rule.listen # rule.listen
                      /\ rows[m].paths \cap (rows[n].paths \cup {path}) = {}
    BY <1>7, <1>10
  <2>1. m \in Present(rows) /\ m # n
    BY <1>10
  <2>2. /\ Elements(rows[m].rule.names) \cap Elements(rows[n].rule.names) = {}
        /\ rows[m].rule.listen = rows[n].rule.listen => rows[m].rule.listen = Odd
    BY <1>1, <2>1 DEF Sound, Disjoint
  <2> QED
    BY <1>2, <1>4, <2>1, <2>2
<1>12. Sound(rows')
  BY <1>7, <1>9, <1>10, <1>11, AddRow
<1>13. Sound(rows)'
  BY <1>12 DEF Sound, Named, Disjoint, Present, Reads, ReadAs
<1>14. files' \in [Path -> Text \cup {NoFile}] /\ covered' \in [Name -> SUBSET Name]
  <2>1. covered' = [covered EXCEPT ![n] = Elements(rule.names)]
    BY DEF IssueCertificate, rule
  <2>2. Render(spelled) \in Text
    BY <1>4, SpellingFacts, RenderType
  <2> QED
    BY <1>3, <1>5, <2>1, <2>2 DEF Inv, TypeOK, Installed
<1>15. TypeOK' /\ pc' = "serving"
  BY <1>12, <1>14 DEF Inv, TypeOK, IssueCertificate, Serve, Sound
<1> QED
  BY <1>13, <1>15 DEF Inv

LEMMA DeleteStep ==
  ASSUME Inv, NEW n \in Name, Delete(n)
  PROVE  Inv'
<1>1. rows' = Without(rows, n) /\ Sound(rows)
  BY DEF Inv, Delete
<1>2. Sound(rows')
  BY <1>1, RemoveRow
<1>3. Sound(rows)'
  BY <1>2 DEF Sound, Named, Disjoint, Present, Reads, ReadAs
<1>4. TypeOK' /\ pc' = "serving"
  BY <1>2 DEF Inv, TypeOK, Delete, Serve, Sound
<1> QED
  BY <1>3, <1>4 DEF Inv

\* What the invariant says of the session and of the rows, where they stay.
LEMMA Undisturbed ==
  ASSUME Inv, rows' = rows, pending' = pending, read' = read, next' = next, pc' = pc
  PROVE  /\ Sound(rows)'
         /\ (pc = "importing" => Sound(pending) /\ Extends(pending, rows) /\ Done(pending, next))'
         /\ (pc = "settled" => Done(rows, Len(FileOrder) + 1))'
<1>1. Sound(rows)'
  BY DEF Inv, Sound, Named, Disjoint, Present, Reads
<1>2. Sound(pending)' <=> Sound(pending)
  BY DEF Sound, Named, Disjoint, Present, Reads
<1>3. Extends(pending, rows)' <=> Extends(pending, rows)
  BY DEF Extends, Present
<1>4. Done(pending, next)' <=> Done(pending, next)
  BY DEF Done, Importable, Known, Clash, Present
<1>5. Done(rows, Len(FileOrder) + 1)' <=> Done(rows, Len(FileOrder) + 1)
  BY DEF Done, Importable, Known, Clash, Present
<1> QED
  BY <1>1, <1>2, <1>3, <1>4, <1>5 DEF Inv

LEMMA EditStep ==
  ASSUME Inv, NEW p \in Path, EditFile(p)
  PROVE  Inv'
<1>1. files' \in [Path -> Text \cup {NoFile}]
  BY TextAssumption DEF Inv, TypeOK, EditFile
<1>2. /\ rows' = rows /\ covered' = covered /\ pc' = pc /\ read' = read /\ next' = next
      /\ pending' = pending
  BY DEF EditFile
<1>3. TypeOK'
  BY <1>1, <1>2 DEF Inv, TypeOK
<1> QED
  BY <1>2, <1>3, Undisturbed DEF Inv

LEMMA StutterStep ==
  ASSUME Inv, UNCHANGED vars
  PROVE  Inv'
<1>1. TypeOK'
  BY DEF Inv, TypeOK, vars
<1> QED
  BY <1>1, Undisturbed DEF Inv, vars

-----------------------------------------------------------------------------
(* The theorems *)

LEMMA Invariance ==
  Spec => []Inv
<1>1. Inv /\ [Next]_vars => Inv'
  BY StartStep, ImportStep, CommitStep, LostStep, CreateStep, UpdateStep, ApplyStep, IssueStep, DeleteStep,
     EditStep, StutterStep DEF Next, Import, Service
<1> QED
  BY <1>1, Initially, PTL DEF Spec

\* The rows, the files, the session of the import and the certificates on disk
\* stay what their declarations say.
THEOREM TypeInvariant ==
  Spec => []TypeOK
<1>1. Inv => TypeOK
  BY DEF Inv
<1> QED
  BY <1>1, Invariance, PTL

\* However the files are edited between two starts, wherever an import is lost and
\* however rows are renamed, no server name, listen port for a protocol or file of
\* any deployment comes to be two rows' (upsert_config, update_domain).
THEOREM RowsStayDisjoint ==
  Spec => []RowsDisjoint
<1>1. Inv => RowsDisjoint
  BY DEF Inv, Sound, Disjoint, RowsDisjoint
<1> QED
  BY <1>1, Invariance, PTL

\* Through imports, updates, renames and issuances, the newest text of a row is one
\* rule with its names, in some order, and its port, protocol, upstream and TLS
\* (the templates and the parsers).
THEOREM RowsReadBack ==
  Spec => []ReadsBack
<1>1. Inv => ReadsBack
  BY DEF Inv, Sound, Reads, ReadAs, ReadsBack
<1> QED
  BY <1>1, Invariance, PTL

\* No import, complete or lost, changes or removes a row it meets (upsert_config).
THEOREM ImportOverwritesNothing ==
  Spec => NotOverwritten
<1>1. Inv /\ [Next]_vars =>
        [ (pc = "down" \/ pc = "importing") =>
            \A n \in Present(rows) : rows'[n] = rows[n] ]_vars
  <2> SUFFICES ASSUME Inv, Next, pc = "down" \/ pc = "importing", NEW n \in Present(rows)
               PROVE  rows'[n] = rows[n]
    BY DEF vars
  <2>1. CASE StartImport \/ ImportFile \/ \E p \in Path : EditFile(p)
    BY <2>1 DEF StartImport, ImportFile, EditFile
  <2>2. CASE CommitImport \/ ImportLost
    BY <2>2 DEF Inv, CommitImport, ImportLost, Extends
  <2>3. CASE Stop \/ Service
    BY <2>3 DEF Stop, Service, Serve, CreateDomain, UpdateDomain, ApplyDomain, IssueCertificate, Delete
  <2> QED
    BY <2>1, <2>2, <2>3 DEF Next, Import
<1> QED
  BY <1>1, Invariance, PTL DEF Spec, NotOverwritten

\* After an import, whatever failed in it, no file is left that could still be
\* imported (import_current_configs).
THEOREM ImportLeavesNothing ==
  Spec => []ImportIsComplete
<1>1. Inv => ImportIsComplete
  BY PathAssumption DEF Inv, Done, ImportIsComplete, Elements
<1> QED
  BY <1>1, Invariance, PTL
=============================================================================
