--------------------------- MODULE EditFormProofs ---------------------------
(***************************************************************************)
(* What Normalization and EditForm keep for every set of names, payloads   *)
(* and inputs.                                                             *)
(***************************************************************************)
EXTENDS EditForm, TLAPS

\* A payload whose names and hosts are values and whose server_names is a list.
Sendable(p) ==
  /\ \A k \in {"name", "legacy_name", "upstream_host"} \cap DOMAIN p : p[k] \in Raw
  /\ "server_names" \in DOMAIN p => p.server_names \in Seq(Raw) \cup {Null}
  /\ \A k \in {"upstream_host"} \cap DOMAIN Nested(p, "route") : p.route[k] \in Raw
  /\ \A k \in {"name"} \cap DOMAIN Nested(p, "domain") : p.domain[k] \in Raw

LEMMA NothingNested == DOMAIN <<>> = {}
OBVIOUS

LEMMA RowFields ==
  ASSUME NEW r \in Row
  PROVE  /\ r.type \in {"hostname", "port_proxy"} /\ r.name \in Name /\ r.names \in SUBSET Name
         /\ r.route.upstream_host \in Name /\ r.route.upstream_port \in 1 .. MaxPort
         /\ r.route.stream_protocol \in Transports
         /\ UpstreamHost(r.route.upstream_host) = r.route.upstream_host
         /\ \A n \in r.names : HostName(n) = n
         /\ r.type = "hostname" =>
              /\ r.route.upstream_scheme \in Schemes /\ r.route.listen_port = Null
              /\ r.name \in r.names /\ HostName(r.name) = r.name
         /\ r.type = "port_proxy" =>
              /\ r.route.upstream_scheme = "stream" /\ r.route.listen_port \in 1 .. MaxPort
              /\ r.names = {} /\ ProxyName(r.name) = r.name
  BY DEF Row, RouteOf

-----------------------------------------------------------------------------
(* Each field of a normalized row *)

LEMMA NameType ==
  ASSUME NEW p, NEW r \in Row \cup {NoRow}, NEW type, Sendable(p)
  PROVE  LET name == NameOf(p, r, type)
         IN  /\ name \in Name \cup {Refused}
             /\ name # Refused => IF type = "hostname" THEN HostName(name) = name
                                                       ELSE ProxyName(name) = name
<1> DEFINE v == Get(p, "name", Get(p, "legacy_name", Get(Nested(p, "domain"), "name",
                  IF r = NoRow THEN Null ELSE r.name)))
<1>1. v \in Raw
  <2>1. (IF r = NoRow THEN Null ELSE r.name) \in Raw
    BY RowFields, NameAssumption
  <2>2. Get(Nested(p, "domain"), "name", IF r = NoRow THEN Null ELSE r.name) \in Raw
    <3>1. CASE "name" \in DOMAIN Nested(p, "domain")
      BY <3>1, NothingNested DEF Sendable, Get, Nested
    <3>2. CASE "name" \notin DOMAIN Nested(p, "domain")
      BY <2>1, <3>2 DEF Get
    <3> QED
      BY <3>1, <3>2
  <2> QED
    BY <2>2 DEF Get, Sendable
<1> HIDE DEF v
<1>2. NameOf(p, r, type) = IF type = "hostname" THEN HostName(v) ELSE ProxyName(v)
  BY DEF NameOf, v
<1> QED
  BY <1>1, <1>2, NameAssumption

LEMMA NamesType ==
  ASSUME NEW p, NEW r \in Row \cup {NoRow}, NEW type \in {"hostname", "port_proxy"}, Sendable(p),
         NEW name \in Name, type = "hostname" => HostName(name) = name
  PROVE  LET names == NamesOf(p, r, type, name)
         IN  names # Refused =>
               /\ names \in SUBSET Name
               /\ type = "hostname" => name \in names /\ \A n \in names : HostName(n) = n
               /\ type = "port_proxy" => names = {}
<1>1. CASE type = "port_proxy"
  BY <1>1 DEF NamesOf
<1>2. CASE type = "hostname" /\ "server_names" \notin DOMAIN p
  <2>1. CASE r = NoRow
    BY <1>2, <2>1 DEF NamesOf
  <2>2. CASE r # NoRow
    <3>1. {HostName(n) : n \in r.names} = r.names /\ r.names \in SUBSET Name
      BY <2>2, RowFields
    <3>2. NamesOf(p, r, type, name) = {name} \cup r.names
      BY <1>2, <2>2, <3>1 DEF NamesOf
    <3> QED
      BY <1>2, <2>2, <3>1, <3>2, RowFields
  <2> QED
    BY <2>1, <2>2
<1>3. CASE type = "hostname" /\ "server_names" \in DOMAIN p
  <2>1. CASE p.server_names = Null
    BY <1>3, <2>1 DEF NamesOf
  <2>2. CASE p.server_names # Null
    <3> DEFINE names == [i \in DOMAIN p.server_names |-> HostName(p.server_names[i])]
    <3>1. p.server_names \in Seq(Raw)
      BY <1>3, <2>2 DEF Sendable
    <3>2. \A i \in DOMAIN p.server_names : p.server_names[i] \in Raw
      BY <3>1
    <3>3. SUFFICES ASSUME Refused \notin Elements(names)
                   PROVE  /\ {name} \cup Elements(names) \in SUBSET Name
                          /\ \A n \in {name} \cup Elements(names) : HostName(n) = n
      BY <1>3, <2>2 DEF NamesOf
    <3>4. \A n \in Elements(names) : n \in Name /\ HostName(n) = n
      BY <3>2, <3>3, NameAssumption DEF Elements
    <3> QED
      BY <1>3, <3>4
  <2> QED
    BY <2>1, <2>2
<1> QED
  BY <1>1, <1>2, <1>3

LEMMA HostType ==
  ASSUME NEW p, NEW r \in Row \cup {NoRow}, Sendable(p)
  PROVE  LET host == UpstreamHost(Value(p, r, "upstream_host"))
         IN  /\ host \in Name \cup {Refused}
             /\ host # Refused => UpstreamHost(host) = host
<1>1. (IF r = NoRow THEN Null ELSE r.route["upstream_host"]) \in Raw
  BY RowFields, NameAssumption
<1>2. RouteValue(p, r, "upstream_host") \in Raw
  <2>1. CASE "upstream_host" \in DOMAIN Nested(p, "route")
    BY <2>1, NothingNested DEF Sendable, RouteValue, Get, Nested
  <2>2. CASE "upstream_host" \notin DOMAIN Nested(p, "route")
    BY <1>1, <2>2 DEF RouteValue, Get
  <2> QED
    BY <2>1, <2>2
<1>3. Value(p, r, "upstream_host") \in Raw
  BY <1>2 DEF Value, Get, Sendable
<1> QED
  BY <1>3, NameAssumption

LEMMA RestType ==
  ASSUME NEW p, NEW r
  PROVE  /\ TypeOf(p, r) \in {"hostname", "port_proxy", Refused}
         /\ SchemeOf(p, r, "hostname") \in Schemes \cup {Refused}
         /\ SchemeOf(p, r, "port_proxy") \in {"stream", Refused}
         /\ \A type : ProtocolOf(p, r, type) \in Transports \cup {Refused}
         /\ \A v : PortOf(v) \in 1 .. MaxPort \cup {Refused}
         /\ ListenOf(p, r, "hostname") = Null
         /\ ListenOf(p, r, "port_proxy") \in 1 .. MaxPort \cup {Refused}
<1>1. TypeOf(p, r) \in {"hostname", "port_proxy", Refused}
  BY DEF TypeOf
<1>2. SchemeOf(p, r, "hostname") \in Schemes \cup {Refused}
  BY DEF SchemeOf, Enum, Schemes
<1>3. SchemeOf(p, r, "port_proxy") \in {"stream", Refused}
  BY DEF SchemeOf
<1>4. \A type : ProtocolOf(p, r, type) \in Transports \cup {Refused}
  BY DEF ProtocolOf, Enum, Transports
<1>5. \A v : PortOf(v) \in 1 .. MaxPort \cup {Refused}
  BY DEF PortOf
<1> QED
  BY <1>1, <1>2, <1>3, <1>4, <1>5 DEF ListenOf

\* What is not refused is a row of its type.
LEMMA NormalizeType ==
  ASSUME NEW p, NEW r \in Row \cup {NoRow}, Sendable(p), Normalize(p, r) # Refused
  PROVE  Normalize(p, r) \in Row
<1> DEFINE type == TypeOf(p, r)
           name == NameOf(p, r, type)
           names == NamesOf(p, r, type, name)
           host == UpstreamHost(Value(p, r, "upstream_host"))
           port == PortOf(Value(p, r, "upstream_port"))
           scheme == SchemeOf(p, r, type)
           listen == ListenOf(p, r, type)
           protocol == ProtocolOf(p, r, type)
           route == [upstream_host |-> host, upstream_port |-> port, upstream_scheme |-> scheme,
                     listen_port |-> listen, stream_protocol |-> protocol]
           new == [type |-> type, name |-> name, names |-> names, route |-> route]
<1>1. /\ type # Refused /\ name # Refused /\ names # Refused /\ host # Refused
      /\ port # Refused /\ scheme # Refused /\ listen # Refused /\ protocol # Refused
      /\ Normalize(p, r) = new
  BY DEF Normalize
<1>2. type \in {"hostname", "port_proxy"}
  BY <1>1, RestType
<1>3. /\ host \in Name /\ UpstreamHost(host) = host /\ port \in 1 .. MaxPort /\ protocol \in Transports
  BY <1>1, HostType, RestType
<1>4. name \in Name /\ IF type = "hostname" THEN HostName(name) = name ELSE ProxyName(name) = name
  BY <1>1, NameType
<1>5. /\ names \in SUBSET Name
      /\ type = "hostname" => name \in names /\ \A n \in names : HostName(n) = n
      /\ type = "port_proxy" => names = {}
  BY <1>1, <1>2, <1>4, NamesType
<1>6. /\ type = "hostname" => scheme \in Schemes /\ listen = Null
      /\ type = "port_proxy" => scheme = "stream" /\ listen \in 1 .. MaxPort
  BY <1>1, RestType
<1> HIDE DEF type, name, names, host, port, scheme, listen, protocol
<1>7. CASE type = "hostname"
  <2>1. route \in RouteOf(Schemes, {Null}, Transports)
    BY <1>3, <1>6, <1>7 DEF RouteOf
  <2>2. new.route.upstream_host = host /\ new.name = name /\ new.names = names
    OBVIOUS
  <2>3. new \in [type : {"hostname"}, name : Name, names : SUBSET Name,
                 route : RouteOf(Schemes, {Null}, Transports)]
    BY <1>4, <1>5, <1>7, <2>1
  <2> QED
    BY <1>1, <1>3, <1>4, <1>5, <1>7, <2>2, <2>3 DEF Row
<1>8. CASE type = "port_proxy"
  <2>1. route \in RouteOf({"stream"}, 1 .. MaxPort, Transports)
    BY <1>3, <1>6, <1>8 DEF RouteOf
  <2>2. new.route.upstream_host = host /\ new.name = name
    OBVIOUS
  <2>3. new \in [type : {"port_proxy"}, name : Name, names : {{}},
                 route : RouteOf({"stream"}, 1 .. MaxPort, Transports)]
    BY <1>4, <1>5, <1>8, <2>1
  <2> QED
    BY <1>1, <1>3, <1>4, <1>8, <2>2, <2>3 DEF Row
<1> QED
  BY <1>2, <1>7, <1>8

-----------------------------------------------------------------------------
(* The form *)

FormRoute ==
  [upstream_host : Raw, upstream_port : Int \cup {Null}, upstream_scheme : Schemes \cup {"stream"},
   listen_port : Int \cup {Null}, stream_protocol : Transports]

\* What the setters of Edit.vue keep: a route whose scheme is one of the type.
Form ==
  {f \in [type : {"hostname", "port_proxy"}, name : Raw, names : Seq(Raw), route : FormRoute] :
     /\ f.type = "hostname" => f.route.upstream_scheme \in Schemes /\ f.route.listen_port = Null
     /\ f.type = "port_proxy" => f.route.upstream_scheme = "stream"}

Inv == row \in Row \cup {NoRow} /\ (form # NoForm => form \in Form)

\* A form mentions every field of the route, so that none is the row's.
LEMMA FormRouteValue ==
  ASSUME form \in Form, NEW r, NEW k \in {"upstream_host", "upstream_port", "upstream_scheme",
                                        "listen_port", "stream_protocol"}
  PROVE  RouteValue(BuildPayload, r, k) = form.route[k] /\ Value(BuildPayload, r, k) = form.route[k]
<1>1. /\ "route" \in DOMAIN BuildPayload /\ BuildPayload.route = form.route
      /\ k \notin DOMAIN BuildPayload
  BY DEF BuildPayload
<1>2. k \in DOMAIN form.route
  BY DEF Form, FormRoute
<1> QED
  BY <1>1, <1>2 DEF RouteValue, Value, Get, Nested

LEMMA BuiltIsSendable ==
  ASSUME form \in Form
  PROVE  Sendable(BuildPayload)
<1> DEFINE p == BuildPayload
           names == IF form.name \in Elements(form.names) THEN form.names ELSE <<form.name>> \o form.names
<1>1. form.name \in Raw /\ form.names \in Seq(Raw) /\ form.route.upstream_host \in Raw
  BY DEF Form, FormRoute
<1>2. names \in Seq(Raw)
  BY <1>1
<1> HIDE DEF names
<1>3. p = IF form.type = "hostname"
          THEN [type |-> form.type, name |-> form.name, route |-> form.route, server_names |-> names]
          ELSE [type |-> form.type, name |-> form.name, route |-> form.route]
  BY DEF BuildPayload, names
<1> HIDE DEF p
<1>4. /\ DOMAIN p \cap {"name", "legacy_name", "upstream_host", "domain"} = {"name"}
      /\ p.name = form.name /\ "route" \in DOMAIN p /\ p.route = form.route
      /\ "server_names" \in DOMAIN p => p.server_names = names
  BY <1>3
<1>5. Nested(p, "domain") = <<>>
  BY <1>4 DEF Nested, Get
<1>6. Sendable(p)
  BY <1>1, <1>2, <1>4, <1>5, NothingNested DEF Sendable
<1> QED
  BY <1>6 DEF p

\* The names a host name's form sends, normalized.
LEMMA FormNames ==
  ASSUME form \in Form, form.type = "hostname", Complete, NEW r
  PROVE  NamesOf(BuildPayload, r, "hostname", HostName(form.name)) =
           {HostName(form.name)} \cup {HostName(n) : n \in Elements(form.names)}
<1> DEFINE p == BuildPayload
           sent == IF form.name \in Elements(form.names) THEN form.names ELSE <<form.name>> \o form.names
           names == [i \in DOMAIN sent |-> HostName(sent[i])]
           shown == [i \in DOMAIN form.names |-> HostName(form.names[i])]
<1>1. form.names \in Seq(Raw) /\ form.name \in Raw
  BY DEF Form
<1>2. /\ HostName(form.name) # Refused /\ Refused \notin Elements(shown) /\ ~ Duplicates(shown)
      /\ form.name \in Elements(form.names) \/ HostName(form.name) \notin Elements(shown)
  BY DEF Complete
<1>3. /\ Refused \notin Elements(names) /\ ~ Duplicates(names)
      /\ {HostName(form.name)} \cup Elements(names) =
           {HostName(form.name)} \cup {HostName(n) : n \in Elements(form.names)}
  <2>1. Elements(shown) = {HostName(n) : n \in Elements(form.names)}
    BY DEF Elements
  <2>2. CASE form.name \in Elements(form.names)
    BY <1>2, <2>1, <2>2
  <2>3. CASE form.name \notin Elements(form.names)
    <3>1. /\ sent = <<form.name>> \o form.names /\ DOMAIN sent = 1 .. Len(form.names) + 1
          /\ Len(form.names) \in Nat /\ DOMAIN form.names = 1 .. Len(form.names)
          /\ sent[1] = form.name
          /\ \A i \in 2 .. Len(form.names) + 1 : sent[i] = form.names[i - 1]
      BY <1>1, <2>3
    <3> HIDE DEF sent
    <3>2. /\ names[1] = HostName(form.name)
          /\ \A i \in 2 .. Len(form.names) + 1 : i - 1 \in DOMAIN shown /\ names[i] = shown[i - 1]
          /\ DOMAIN names = 1 .. Len(form.names) + 1 /\ DOMAIN shown = 1 .. Len(form.names)
      BY <3>1
    <3> HIDE DEF names, shown
    <3>3. Elements(names) = {HostName(form.name)} \cup Elements(shown)
      <4>1. ASSUME NEW x \in Elements(names) PROVE x \in {HostName(form.name)} \cup Elements(shown)
        <5>1. PICK i \in DOMAIN names : x = names[i]
          BY DEF Elements
        <5>2. CASE i = 1
          BY <3>2, <5>1, <5>2
        <5>3. CASE i \in 2 .. Len(form.names) + 1
          BY <3>2, <5>1, <5>3 DEF Elements
        <5> QED
          BY <3>1, <3>2, <5>2, <5>3
      <4>2. ASSUME NEW x \in Elements(shown) PROVE x \in Elements(names)
        <5>1. PICK i \in DOMAIN shown : x = shown[i]
          BY DEF Elements
        <5>2. i + 1 \in 2 .. Len(form.names) + 1 /\ (i + 1) - 1 = i
          BY <3>1, <3>2
        <5>3. i + 1 \in DOMAIN names /\ names[i + 1] = x
          BY <3>1, <3>2, <5>1, <5>2
        <5> QED
          BY <5>3 DEF Elements
      <4>3. HostName(form.name) \in Elements(names)
        BY <3>1, <3>2 DEF Elements
      <4> QED
        BY <4>1, <4>2, <4>3
    <3>4. ~ Duplicates(names)
      <4> SUFFICES ASSUME NEW i \in DOMAIN names, NEW j \in DOMAIN names, i # j, names[i] = names[j]
                   PROVE  FALSE
        BY DEF Duplicates
      <4>1. CASE i = 1
        <5>1. j \in 2 .. Len(form.names) + 1
          BY <3>1, <3>2, <4>1
        <5> QED
          BY <1>2, <2>3, <3>2, <4>1, <5>1 DEF Elements
      <4>2. CASE j = 1
        <5>1. i \in 2 .. Len(form.names) + 1
          BY <3>1, <3>2, <4>2
        <5> QED
          BY <1>2, <2>3, <3>2, <4>2, <5>1 DEF Elements
      <4>3. CASE i # 1 /\ j # 1
        <5>1. i \in 2 .. Len(form.names) + 1 /\ j \in 2 .. Len(form.names) + 1 /\ i - 1 # j - 1
          BY <3>1, <3>2, <4>3
        <5> QED
          BY <1>2, <3>2, <5>1 DEF Duplicates
      <4> QED
        BY <4>1, <4>2, <4>3
    <3> QED
      BY <1>2, <2>1, <3>3, <3>4
  <2> QED
    BY <2>2, <2>3
<1> HIDE DEF sent
<1>4. "server_names" \in DOMAIN p /\ p.server_names = sent
  BY DEF BuildPayload, sent
<1>5. sent # Null
  <2>1. sent \in Seq(Raw)
    BY <1>1 DEF sent
  <2> QED
    BY <2>1, AbsentAssumption
<1> HIDE DEF p
<1>6. NamesOf(p, r, "hostname", HostName(form.name)) = {HostName(form.name)} \cup Elements(names)
  BY <1>3, <1>4, <1>5 DEF NamesOf
<1> QED
  BY <1>3, <1>6 DEF p

\* A route is changed in its host by naming its other fields.
LEMMA HostReplaced ==
  ASSUME NEW route \in FormRoute, NEW host
  PROVE  [route EXCEPT !.upstream_host = host] =
           [upstream_host |-> host, upstream_port |-> route.upstream_port,
            upstream_scheme |-> route.upstream_scheme, listen_port |-> route.listen_port,
            stream_protocol |-> route.stream_protocol]
  BY DEF FormRoute

LEMMA Stored ==
  ASSUME Inv
  PROVE  FormStoresWhatItShows
<1> DEFINE p == BuildPayload
           type == form.type
           route == form.route
           host == UpstreamHost(route.upstream_host)
           name == IF type = "hostname" THEN HostName(form.name) ELSE ProxyName(form.name)
           names == IF type = "hostname" THEN {name} \cup {HostName(n) : n \in Elements(form.names)} ELSE {}
<1> SUFFICES ASSUME form # NoForm, row # NoRow, Complete
             PROVE  Normalize(p, row) = [type |-> type, name |-> name, names |-> names,
                                         route |-> [route EXCEPT !.upstream_host = host]]
  BY DEF FormStoresWhatItShows
<1>1. form \in Form /\ row \in Row
  BY DEF Inv
<1>2. /\ type \in {"hostname", "port_proxy"} /\ route \in FormRoute
      /\ type = "hostname" => route.upstream_scheme \in Schemes /\ route.listen_port = Null
      /\ type = "port_proxy" => route.upstream_scheme = "stream"
  BY <1>1 DEF Form
<1>3. /\ DOMAIN p \cap {"type", "proxy_type", "name", "legacy_name", "upstream_scheme", "scheme",
                         "stream_protocol"} = {"type", "name"}
      /\ p.type = type /\ p.name = form.name
  BY DEF BuildPayload
<1>4. \A k \in {"upstream_host", "upstream_port", "upstream_scheme", "listen_port", "stream_protocol"} :
        RouteValue(p, row, k) = route[k] /\ Value(p, row, k) = route[k]
  BY <1>1, FormRouteValue
<1>5. /\ host # Refused /\ route.upstream_port \in 1 .. MaxPort
      /\ type = "port_proxy" => route.listen_port \in 1 .. MaxPort
      /\ name # Refused
  BY <1>2 DEF Complete
<1>6. NamesOf(p, row, type, name) = names
  <2>1. CASE type = "hostname"
    BY <1>1, <2>1, FormNames
  <2>2. CASE type = "port_proxy"
    BY <2>2 DEF NamesOf
  <2> QED
    BY <1>2, <2>1, <2>2
<1>7. names # Refused
  <2>1. CASE type = "hostname"
    <3>1. form.name \in Raw /\ form.names \in Seq(Raw)
      BY <1>1 DEF Form
    <3>2. \A n \in Elements(form.names) : HostName(n) # Refused
      BY <2>1 DEF Complete, Elements
    <3>3. names \subseteq Name
      BY <1>5, <2>1, <3>1, <3>2, NameAssumption DEF Elements
    <3> QED
      BY <3>3, AbsentAssumption
  <2>2. CASE type = "port_proxy"
    BY <2>2, AbsentAssumption
  <2> QED
    BY <1>2, <2>1, <2>2
<1> HIDE DEF p, type, route, host, name, names
<1>8. TypeOf(p, row) = type
  BY <1>2, <1>3 DEF TypeOf, Get
<1>9. NameOf(p, row, type) = name
  BY <1>3 DEF NameOf, Get, name, type
<1>10. UpstreamHost(Value(p, row, "upstream_host")) = host
  BY <1>4 DEF host
<1>11. PortOf(Value(p, row, "upstream_port")) = route.upstream_port
  BY <1>4, <1>5 DEF PortOf
<1>12. RawScheme(p, row) = route.upstream_scheme
  BY <1>3, <1>4 DEF RawScheme, Get
<1>13. SchemeOf(p, row, type) = route.upstream_scheme
  BY <1>2, <1>12, AbsentAssumption DEF SchemeOf, Enum, Schemes
<1>14. ListenOf(p, row, type) = route.listen_port
  BY <1>2, <1>4, <1>5 DEF ListenOf, PortOf
<1>15. ProtocolOf(p, row, type) = route.stream_protocol
  <2>1. route.stream_protocol \in Transports
    BY <1>2 DEF FormRoute
  <2>2. ~ (type = "port_proxy" /\ RawScheme(p, row) \in {"tcp", "udp"})
    BY <1>2, <1>12
  <2>3. RouteValue(p, row, "stream_protocol") = route.stream_protocol
    BY <1>4
  <2> QED
    BY <1>3, <2>1, <2>2, <2>3, AbsentAssumption DEF ProtocolOf, Enum, Transports, Get
<1>16. /\ type # Refused /\ route.upstream_port # Refused /\ route.upstream_scheme # Refused
       /\ route.listen_port # Refused /\ route.stream_protocol # Refused
  <2>1. route.stream_protocol \in Transports
    BY <1>2 DEF FormRoute
  <2> QED
    BY <1>2, <1>5, <2>1, AbsentAssumption DEF Schemes, Transports
<1>17. Normalize(p, row) =
         [type |-> type, name |-> name, names |-> names,
          route |-> [upstream_host |-> host, upstream_port |-> route.upstream_port,
                     upstream_scheme |-> route.upstream_scheme, listen_port |-> route.listen_port,
                     stream_protocol |-> route.stream_protocol]]
  BY <1>5, <1>6, <1>7, <1>8, <1>9, <1>10, <1>11, <1>13, <1>14, <1>15, <1>16 DEF Normalize
<1> QED
  BY <1>2, <1>17, HostReplaced

-----------------------------------------------------------------------------
(* The invariant *)

LEMMA OpenStep ==
  ASSUME Inv, Open
  PROVE  Inv'
<1>1. PICK n \in 0 .. MaxNames :
        \E names \in [1 .. n -> row.names] : form' = [row EXCEPT !.names = names]
  BY DEF Open
<1>1a. PICK names \in [1 .. n -> row.names] : form' = [row EXCEPT !.names = names]
  BY <1>1
<1>2. row \in Row /\ row' = row
  BY DEF Inv, Open
<1>3. names \in Seq(Raw)
  <2>1. n \in Nat /\ \A i \in 1 .. n : names[i] \in Raw
    BY <1>2, PayloadAssumption, NameAssumption, RowFields
  <2> QED
    BY <2>1
<1>4. [row EXCEPT !.names = names] \in Form
  BY <1>2, <1>3, NameAssumption DEF Row, RouteOf, Form, FormRoute, Schemes
<1> QED
  BY <1>1a, <1>2, <1>4 DEF Inv

LEMMA EditStep ==
  ASSUME Inv, NEW input \in Inputs, Edit(input[1], input[2])
  PROVE  Inv'
<1> DEFINE field == input[1]
           value == input[2]
<1>1. form \in Form /\ row' = row
  BY DEF Inv, Edit
<1>2. /\ field = "type" => value \in {"hostname", "port_proxy"}
      /\ field \in {"name", "host"} => value \in Raw
      /\ field = "names" => value \in Seq(Raw)
      /\ field \in {"listen", "port"} => value \in Int \cup {Null}
  BY InputAssumption
<1>3. Edit(field, value)
  OBVIOUS
<1> HIDE DEF field, value
<1>4. form' \in Form
  <2>1. CASE field = "type" /\ ChooseType(value)
    BY <1>1, <1>2, <2>1 DEF ChooseType, Form, FormRoute, Schemes, Transports
  <2>2. CASE field = "scheme" /\ ChooseScheme(value)
    BY <1>1, <2>2 DEF ChooseScheme, Form, FormRoute, Schemes, Transports
  <2>3. CASE field = "name" /\ form' = [form EXCEPT !.name = value]
    BY <1>1, <1>2, <2>3 DEF Form
  <2>4. CASE field = "names" /\ form' = [form EXCEPT !.names = value]
    BY <1>1, <1>2, <2>4 DEF Form
  <2>5. CASE field = "listen" /\ form.type = "port_proxy" /\ form' = [form EXCEPT !.route.listen_port = value]
    BY <1>1, <1>2, <2>5 DEF Form, FormRoute
  <2>6. CASE field = "port" /\ form' = [form EXCEPT !.route.upstream_port = value]
    BY <1>1, <1>2, <2>6 DEF Form, FormRoute
  <2>7. CASE field = "host" /\ form' = [form EXCEPT !.route.upstream_host = value]
    BY <1>1, <1>2, <2>7 DEF Form, FormRoute
  <2> QED
    BY <1>3, <2>1, <2>2, <2>3, <2>4, <2>5, <2>6, <2>7 DEF Edit
<1> QED
  BY <1>1, <1>4 DEF Inv

LEMMA RequestStep ==
  ASSUME Inv, NEW p, Sendable(p), Post(p) \/ Put(p), form' \in {form, NoForm}
  PROVE  Inv'
<1>1. CASE Post(p)
  <2>1. Normalize(p, NoRow) \in Row
    BY <1>1, NormalizeType DEF Post
  <2> QED
    BY <1>1, <2>1 DEF Post, Inv
<1>2. CASE Put(p)
  <2>1. Normalize(p, row) \in Row
    BY <1>2, NormalizeType DEF Put, Inv
  <2> QED
    BY <1>2, <2>1 DEF Put, Inv
<1> QED
  BY <1>1, <1>2

LEMMA Invariance ==
  Spec => []Inv
<1>1. Init => Inv
  BY DEF Init, Inv
<1>2. Inv /\ [Next]_vars => Inv'
  <2> SUFFICES ASSUME Inv, [Next]_vars PROVE Inv'
    OBVIOUS
  <2>1. CASE \E p \in Payloads : (Post(p) \/ Put(p)) /\ UNCHANGED form
    <3>1. PICK p \in Payloads : (Post(p) \/ Put(p)) /\ UNCHANGED form
      BY <2>1
    <3>2. Sendable(p)
      BY PayloadAssumption DEF Sendable
    <3> QED
      BY <3>1, <3>2, RequestStep
  <2>2. CASE Submit
    <3>1. form \in Form
      BY <2>2 DEF Inv, Submit
    <3>2. Sendable(BuildPayload)
      BY <3>1, BuiltIsSendable
    <3> QED
      BY <2>2, <3>2, RequestStep DEF Submit
  <2>3. CASE Delete \/ Cancel \/ UNCHANGED vars
    BY <2>3 DEF Delete, Cancel, vars, Inv
  <2> QED
    BY <2>1, <2>2, <2>3, OpenStep, EditStep DEF Next
<1> QED
  BY <1>1, <1>2, PTL DEF Spec

-----------------------------------------------------------------------------
(* The theorems *)

\* No sequence of payloads, partial, nested or of the form, makes a row that is
\* neither a host name nor a proxy (normalize_payload).
THEOREM RowKeepsItsType ==
  Spec => []RowIsOfItsType
<1>1. Inv => RowIsOfItsType
  BY DEF Inv, RowIsOfItsType
<1> QED
  BY <1>1, Invariance, PTL

\* A form whose inputs are valid is accepted and stores what it shows, however
\* it was edited and whatever the row has become since it was read.
THEOREM FormStores ==
  Spec => []FormStoresWhatItShows
  BY Stored, Invariance, PTL

\* What a PUT does not mention, under any of its spellings, stays.
THEOREM UpdatesArePartial ==
  Spec => []PartialUpdates
<1>1. Inv => PartialUpdates
  <2> SUFFICES ASSUME row \in Row, NEW p \in Payloads, Normalize(p, row) # Refused
               PROVE  LET new == Normalize(p, row)
                      IN  /\ new.type # row.type => Mentions(p, {"type", "proxy_type"})
                          /\ new.type = row.type =>
                               /\ new.name # row.name => Mentions(p, {"name", "legacy_name"})
                               /\ row.names \subseteq new.names \/ Mentions(p, {"server_names"})
                               /\ new.route.listen_port # row.route.listen_port
                                    => Mentions(p, {"listen_port"})
                               /\ <<new.route.upstream_scheme, new.route.stream_protocol>>
                                    # <<row.route.upstream_scheme, row.route.stream_protocol>>
                                    => Mentions(p, SchemeKeys)
                          /\ \A k \in {"upstream_host", "upstream_port"} :
                               new.route[k] # row.route[k] => Mentions(p, {k})
    BY DEF Inv, PartialUpdates
  <2> DEFINE type == TypeOf(p, row)
             name == NameOf(p, row, type)
             names == NamesOf(p, row, type, name)
             host == UpstreamHost(Value(p, row, "upstream_host"))
             port == PortOf(Value(p, row, "upstream_port"))
             scheme == SchemeOf(p, row, type)
             listen == ListenOf(p, row, type)
             protocol == ProtocolOf(p, row, type)
             new == Normalize(p, row)
  <2>1. /\ new = [type |-> type, name |-> name, names |-> names,
                  route |-> [upstream_host |-> host, upstream_port |-> port, upstream_scheme |-> scheme,
                             listen_port |-> listen, stream_protocol |-> protocol]]
        /\ row # NoRow
    BY PayloadAssumption DEF Normalize
  <2> HIDE DEF new
  <2>2. \A k : ~ Mentions(p, {k}) => RouteValue(p, row, k) = row.route[k] /\ Value(p, row, k) = row.route[k]
    BY <2>1 DEF Mentions, RouteValue, Value, Get
  <2>3. ~ Mentions(p, {"type", "proxy_type"}) => type = row.type
    BY <2>1, RowFields DEF Mentions, TypeOf, Get
  <2>4. type = row.type /\ ~ Mentions(p, {"name", "legacy_name"}) => name = row.name
    BY <2>1, RowFields DEF Mentions, NameOf, Get
  <2>5. type = row.type /\ ~ Mentions(p, {"server_names"}) => row.names \subseteq names
    <3> SUFFICES ASSUME type = row.type, "server_names" \notin DOMAIN p PROVE row.names \subseteq names
      BY DEF Mentions
    <3>1. CASE row.type = "port_proxy"
      BY <3>1, RowFields
    <3>2. CASE row.type = "hostname"
      BY <2>1, <3>2, RowFields DEF NamesOf
    <3> QED
      BY <3>1, <3>2, RowFields
  <2>6. ~ Mentions(p, {"upstream_host"}) => host = row.route.upstream_host
    BY <2>2, RowFields
  <2>7. ~ Mentions(p, {"upstream_port"}) => port = row.route.upstream_port
    BY <2>2, RowFields DEF PortOf
  <2>8. type = row.type /\ ~ Mentions(p, {"listen_port"}) => listen = row.route.listen_port
    BY <2>2, RowFields DEF ListenOf, PortOf
  <2>9. type = row.type /\ ~ Mentions(p, SchemeKeys) =>
          scheme = row.route.upstream_scheme /\ protocol = row.route.stream_protocol
    <3> SUFFICES ASSUME type = row.type, ~ Mentions(p, SchemeKeys)
                 PROVE  scheme = row.route.upstream_scheme /\ protocol = row.route.stream_protocol
      OBVIOUS
    <3>1. /\ "upstream_scheme" \notin DOMAIN p /\ "scheme" \notin DOMAIN p /\ "stream_protocol" \notin DOMAIN p
          /\ RouteValue(p, row, "upstream_scheme") = row.route.upstream_scheme
          /\ RouteValue(p, row, "stream_protocol") = row.route.stream_protocol
      BY <2>2 DEF Mentions, SchemeKeys
    <3>2. RawScheme(p, row) = row.route.upstream_scheme
      BY <3>1 DEF RawScheme, Get
    <3> HIDE DEF type
    <3>3. scheme = row.route.upstream_scheme
      BY <3>2, RowFields, AbsentAssumption DEF SchemeOf, Enum, Schemes
    <3>4. protocol = row.route.stream_protocol
      <4>1. ~ (type = "port_proxy" /\ RawScheme(p, row) \in {"tcp", "udp"})
        BY <3>2, RowFields DEF Schemes
      <4>2. row.route.stream_protocol \in Transports
        BY RowFields
      <4> QED
        BY <2>1, <3>1, <4>1, <4>2, AbsentAssumption DEF ProtocolOf, Enum, Transports, Get
    <3> QED
      BY <3>3, <3>4
  <2> HIDE DEF type, name, names, host, port, scheme, listen, protocol
  <2>10. /\ new.type = type /\ new.name = name /\ new.names = names
         /\ new.route.upstream_host = host /\ new.route.upstream_port = port
         /\ new.route.upstream_scheme = scheme /\ new.route.listen_port = listen
         /\ new.route.stream_protocol = protocol
    BY <2>1
  <2> QED
    BY <2>3, <2>4, <2>5, <2>6, <2>7, <2>8, <2>9, <2>10 DEF new
<1> QED
  BY <1>1, Invariance, PTL
=============================================================================
