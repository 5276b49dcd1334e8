------------------------------ MODULE EditForm ------------------------------
(***************************************************************************)
(* One row, the clients that POST and PUT it, and the form of              *)
(* registry/src/views/Edit.vue, which reads the row once and later submits *)
(* all it shows, whatever the row has become.                              *)
(***************************************************************************)
EXTENDS Normalization

CONSTANTS
  Payloads,      \* what other clients send
  Inputs,        \* <<field, value>>: what is typed or chosen in the form
  MaxNames,      \* bound on the server names of a row that is opened
  NoForm

VARIABLES
  row,           \* the committed row, or NoRow
  form           \* record of Edit.vue: type, name, names (a sequence), route

vars == <<row, form>>

Schemes == {"http", "https"}
Transports == {"tcp", "udp"}
RouteOf(scheme, listen, transports) ==
  [upstream_host : Name, upstream_port : 1 .. MaxPort, upstream_scheme : scheme,
   listen_port : listen, stream_protocol : transports]

\* A host name has itself among its server names and no port of its own; a
\* proxy has a port and no names.  Names and hosts are normalized.
Row ==
  {r \in [type : {"hostname"}, name : Name, names : SUBSET Name, route : RouteOf(Schemes, {Null}, Transports)] :
     /\ r.name \in r.names /\ HostName(r.name) = r.name
     /\ \A n \in r.names : HostName(n) = n
     /\ UpstreamHost(r.route.upstream_host) = r.route.upstream_host}
  \cup
  {r \in [type : {"port_proxy"}, name : Name, names : {{}}, route : RouteOf({"stream"}, 1 .. MaxPort, Transports)] :
     /\ ProxyName(r.name) = r.name
     /\ UpstreamHost(r.route.upstream_host) = r.route.upstream_host}

ASSUME PayloadAssumption ==
  /\ MaxNames \in Nat
  /\ NoRow \notin Row /\ Refused \notin Row
  /\ \A p \in Payloads :
       /\ \A k \in {"name", "legacy_name", "upstream_host"} \cap DOMAIN p : p[k] \in Raw
       /\ "server_names" \in DOMAIN p => p.server_names \in Seq(Raw) \cup {Null}
       /\ \A k \in {"upstream_host"} \cap DOMAIN Nested(p, "route") : p.route[k] \in Raw
       /\ \A k \in {"name"} \cap DOMAIN Nested(p, "domain") : p.domain[k] \in Raw

ASSUME InputAssumption ==
  \A input \in Inputs :
    /\ input[1] = "type" => input[2] \in {"hostname", "port_proxy"}
    /\ input[1] \in {"name", "host"} => input[2] \in Raw
    /\ input[1] = "names" => input[2] \in Seq(Raw)
    /\ input[1] \in {"listen", "port"} => input[2] \in Int \cup {Null}

Init == row = NoRow /\ form = NoForm

-----------------------------------------------------------------------------
(* Requests *)

Post(p) ==
  /\ row = NoRow
  /\ Normalize(p, NoRow) # Refused
  /\ row' = Normalize(p, NoRow)

\* PUT.  A payload that is refused leaves the row.
Put(p) ==
  /\ row # NoRow
  /\ Normalize(p, row) # Refused
  /\ row' = Normalize(p, row)

Delete == row # NoRow /\ row' = NoRow /\ UNCHANGED form

-----------------------------------------------------------------------------
(* The form *)

\* fetchDomain: the names come in some order.
Open ==
  /\ form = NoForm /\ row # NoRow
  /\ \E n \in 0 .. MaxNames : \E names \in [1 .. n -> row.names] :
       /\ Elements(names) = row.names /\ ~ Duplicates(names)
       /\ form' = [row EXCEPT !.names = names]
  /\ UNCHANGED row

\* The type's choice also resets what the other type would refuse.
ChooseType(type) ==
  form' = [form EXCEPT !.type = type,
             !.route.listen_port = IF type = "hostname" THEN Null ELSE @,
             !.route.upstream_scheme = IF type = "port_proxy" THEN "stream"
                                       ELSE IF @ \in Schemes THEN @ ELSE "http",
             !.route.stream_protocol = IF type = "port_proxy" /\ @ \notin Transports THEN "tcp" ELSE @]

\* The choice of the scheme is that of the transport in a proxy.
ChooseScheme(value) ==
  IF form.type = "hostname"
  THEN value \in Schemes /\ form' = [form EXCEPT !.route.upstream_scheme = value]
  ELSE value \in Transports /\ form' = [form EXCEPT !.route.stream_protocol = value]

Edit(field, value) ==
  /\ form # NoForm
  /\ \/ field = "type" /\ ChooseType(value)
     \/ field = "scheme" /\ ChooseScheme(value)
     \/ field = "name" /\ form' = [form EXCEPT !.name = value]
     \/ field = "names" /\ form.type = "hostname" /\ form' = [form EXCEPT !.names = value]
     \/ field = "listen" /\ form.type = "port_proxy" /\ form' = [form EXCEPT !.route.listen_port = value]
     \/ field = "port" /\ form' = [form EXCEPT !.route.upstream_port = value]
     \/ field = "host" /\ form' = [form EXCEPT !.route.upstream_host = value]
  /\ UNCHANGED row

\* The name is put before the aliases that lack it.
BuildPayload ==
  IF form.type = "hostname"
  THEN [type |-> form.type, name |-> form.name, route |-> form.route,
        server_names |-> IF form.name \in Elements(form.names) THEN form.names
                         ELSE <<form.name>> \o form.names]
  ELSE [type |-> form.type, name |-> form.name, route |-> form.route]

\* The form is left when its PUT has been accepted.
Submit ==
  /\ form # NoForm
  /\ Put(BuildPayload)
  /\ form' = NoForm

Cancel == form # NoForm /\ form' = NoForm /\ UNCHANGED row

-----------------------------------------------------------------------------
Next ==
  \/ \E p \in Payloads : (Post(p) \/ Put(p)) /\ UNCHANGED form
  \/ Delete \/ Open \/ Submit \/ Cancel
  \/ \E input \in Inputs : Edit(input[1], input[2])

Spec == Init /\ [][Next]_vars

-----------------------------------------------------------------------------
(* Properties *)

\* No sequence of payloads, partial, nested or of the form, makes a row that is
\* neither a host name nor a proxy (normalize_payload).
RowIsOfItsType == row \in Row \cup {NoRow}

\* The payload names one of the keys, itself or in a nested object.
Mentions(p, keys) ==
  \E k \in keys : k \in DOMAIN p \/ k \in DOMAIN Nested(p, "route") \/ k \in DOMAIN Nested(p, "domain")
SchemeKeys == {"upstream_scheme", "scheme", "stream_protocol"}

\* README.md:269: PUT accepts partial updates.  What a payload does not mention
\* under any of its spellings stays, while the type does (normalize_payload).
PartialUpdates ==
  row # NoRow => \A p \in Payloads :
    LET new == Normalize(p, row)
    IN  new # Refused =>
          /\ new.type # row.type => Mentions(p, {"type", "proxy_type"})
          /\ new.type = row.type =>
               /\ new.name # row.name => Mentions(p, {"name", "legacy_name"})
               /\ row.names \subseteq new.names \/ Mentions(p, {"server_names"})
               /\ new.route.listen_port # row.route.listen_port => Mentions(p, {"listen_port"})
               /\ <<new.route.upstream_scheme, new.route.stream_protocol>>
                    # <<row.route.upstream_scheme, row.route.stream_protocol>> => Mentions(p, SchemeKeys)
          /\ \A k \in {"upstream_host", "upstream_port"} : new.route[k] # row.route[k] => Mentions(p, {k})

\* What the inputs of the form show, each valid by itself.
Complete ==
  LET names == [i \in DOMAIN form.names |-> HostName(form.names[i])]
  IN  /\ UpstreamHost(form.route.upstream_host) # Refused
      /\ form.route.upstream_port \in 1 .. MaxPort
      /\ IF form.type = "hostname"
         THEN /\ HostName(form.name) # Refused
              /\ Refused \notin Elements(names) /\ ~ Duplicates(names)
              /\ form.name \in Elements(form.names) \/ HostName(form.name) \notin Elements(names)
         ELSE ProxyName(form.name) # Refused /\ form.route.listen_port \in 1 .. MaxPort

\* However the types were switched in the form, and whatever other clients have
\* made of the row since it was read, a form whose inputs are valid is accepted
\* and stores what it shows (Edit.vue, normalize_payload).
FormStoresWhatItShows ==
  (form # NoForm /\ row # NoRow /\ Complete) =>
    LET host == UpstreamHost(form.route.upstream_host)
        hostname == form.type = "hostname"
        name == IF hostname THEN HostName(form.name) ELSE ProxyName(form.name)
    IN  Normalize(BuildPayload, row) =
          [type |-> form.type, name |-> name,
           names |-> IF hostname THEN {name} \cup {HostName(n) : n \in Elements(form.names)} ELSE {},
           route |-> [form.route EXCEPT !.upstream_host = host]]
=============================================================================
