---------------------------- MODULE Normalization ----------------------------
(***************************************************************************)
(* backend/functions/normalization.py: what a POST or PUT makes of a row.  *)
(*                                                                         *)
(* A payload is a JSON object: a function on the keys it mentions, with    *)
(* the functions "route" and "domain" in it; "legacy_name" stands for      *)
(* "domain" as a string.  Strings are tokens, which HostName, ProxyName    *)
(* and UpstreamHost normalize or refuse.  The order of the aliases, and    *)
(* enabled and status, which are the row's, are left out.                  *)
(***************************************************************************)
EXTENDS Integers, Sequences

CONSTANTS
  Raw,                  \* the values of names and hosts in payloads
  Name,                 \* normalized names of either type, and hosts
  HostName(_), ProxyName(_), UpstreamHost(_),
  Null, Refused, NoRow

MaxPort == 65535

Elements(seq) == {seq[i] : i \in DOMAIN seq}
Duplicates(seq) == \E i, j \in DOMAIN seq : i # j /\ seq[i] = seq[j]

ASSUME NameAssumption ==
  /\ Name \subseteq Raw /\ Null \in Raw
  /\ \A raw \in Raw : {HostName(raw), ProxyName(raw), UpstreamHost(raw)} \subseteq Name \cup {Refused}
  /\ \A raw \in Raw : /\ HostName(raw) # Refused => HostName(HostName(raw)) = HostName(raw)
                      /\ ProxyName(raw) # Refused => ProxyName(ProxyName(raw)) = ProxyName(raw)
                      /\ UpstreamHost(raw) # Refused => UpstreamHost(UpstreamHost(raw)) = UpstreamHost(raw)
  /\ HostName(Null) = Refused /\ ProxyName(Null) = Refused /\ UpstreamHost(Null) = Refused
ASSUME AbsentAssumption ==
  /\ Refused \notin Name /\ Refused \notin 1 .. MaxPort /\ \A names \in SUBSET Name : names # Refused
  /\ Refused \notin {"hostname", "port_proxy", "http", "https", "stream", "tcp", "udp"}
  /\ Null \notin {"http", "https", "stream", "tcp", "udp"} /\ Null \notin 1 .. MaxPort
  /\ Refused # Null /\ Null \notin Seq(Raw)

Get(p, k, default) == IF k \in DOMAIN p THEN p[k] ELSE default
Nested(p, k) == Get(p, k, <<>>)

-----------------------------------------------------------------------------
TypeOf(p, row) ==
  LET v == Get(p, "type", Get(p, "proxy_type", Get(Nested(p, "domain"), "type",
             IF row = NoRow THEN "hostname" ELSE row.type)))
  IN  IF v \in {"hostname", "http"} THEN "hostname"
      ELSE IF v \in {"port_proxy", "stream"} THEN "port_proxy"
      ELSE Refused

NameOf(p, row, type) ==
  LET v == Get(p, "name", Get(p, "legacy_name", Get(Nested(p, "domain"), "name",
             IF row = NoRow THEN Null ELSE row.name)))
  IN  IF type = "hostname" THEN HostName(v) ELSE ProxyName(v)

\* server_names, as a list or split from a string.
NamesOf(p, row, type, name) ==
  IF type = "port_proxy" THEN {}
  ELSE IF "server_names" \notin DOMAIN p
  THEN {name} \cup IF row = NoRow THEN {} ELSE {HostName(n) : n \in row.names}
  ELSE IF p.server_names = Null THEN {name}
  ELSE LET names == [i \in DOMAIN p.server_names |-> HostName(p.server_names[i])]
       IN  IF Refused \in Elements(names) \/ Duplicates(names) THEN Refused
           ELSE {name} \cup Elements(names)

\* Mutation of RouteValue: the row's route is laid over the payload's.
RouteValueOfRow(p, row, k) ==
  IF row # NoRow THEN row.route[k] ELSE Get(Nested(p, "route"), k, Null)

\* Mutation of RouteValue: a route is the payload's alone.
RouteValueForgets(p, row, k) == Get(Nested(p, "route"), k, Null)

\* The payload's route is laid over the row's.
RouteValue(p, row, k) ==
  Get(Nested(p, "route"), k, IF row = NoRow THEN Null ELSE row.route[k])

Value(p, row, k) == Get(p, k, RouteValue(p, row, k))

RawScheme(p, row) == Get(p, "upstream_scheme", Get(p, "scheme", RouteValue(p, row, "upstream_scheme")))

Enum(v, values, default) ==
  IF v = Null THEN default ELSE IF v \in values THEN v ELSE Refused

\* Mutation of SchemeOf: a stream's scheme is kept by a type change.
SchemeOfKept(p, row, type) ==
  LET raw == RawScheme(p, row)
      transport == type = "port_proxy" /\ raw \in {"tcp", "udp"}
      scheme == Enum(IF transport THEN Null ELSE raw, {"http", "https", "stream"}, "http")
  IN  IF scheme = Refused THEN Refused
      ELSE IF type = "port_proxy" THEN "stream"
      ELSE scheme

SchemeOf(p, row, type) ==
  LET raw == RawScheme(p, row)
      transport == type = "port_proxy" /\ raw \in {"tcp", "udp"}
      scheme == Enum(IF transport THEN Null ELSE raw, {"http", "https", "stream"}, "http")
      reset == "type" \in DOMAIN p /\ "upstream_scheme" \notin DOMAIN p /\ "scheme" \notin DOMAIN p
  IN  IF scheme = Refused THEN Refused
      ELSE IF type = "port_proxy" THEN "stream"
      ELSE IF scheme # "stream" THEN scheme
      ELSE IF reset THEN "http" ELSE Refused

\* A stream's transport may be given as its scheme.
ProtocolOf(p, row, type) ==
  LET raw == RawScheme(p, row)
      given == RouteValue(p, row, "stream_protocol")
      legacy == IF row = NoRow /\ "stream_protocol" \notin DOMAIN Nested(p, "route")
                THEN Get(Nested(p, "route"), "scheme", Null) ELSE given
      transport == type = "port_proxy" /\ raw \in {"tcp", "udp"}
  IN  Enum(Get(p, "stream_protocol", IF transport THEN raw ELSE legacy), {"tcp", "udp"}, "tcp")

PortOf(v) == IF v \in 1 .. MaxPort THEN v ELSE Refused

ListenOf(p, row, type) ==
  IF type = "port_proxy" THEN PortOf(Value(p, row, "listen_port")) ELSE Null

\* The row a payload makes, or Refused (HTTP 400).
Normalize(p, row) ==
  LET type == TypeOf(p, row)
      name == NameOf(p, row, type)
      names == NamesOf(p, row, type, name)
      host == UpstreamHost(Value(p, row, "upstream_host"))
      port == PortOf(Value(p, row, "upstream_port"))
      scheme == SchemeOf(p, row, type)
      listen == ListenOf(p, row, type)
      protocol == ProtocolOf(p, row, type)
  IN  IF \/ type = Refused \/ name = Refused \/ names = Refused \/ host = Refused
         \/ port = Refused \/ scheme = Refused \/ listen = Refused \/ protocol = Refused
      THEN Refused
      ELSE [type |-> type, name |-> name, names |-> names,
            route |-> [upstream_host |-> host, upstream_port |-> port, upstream_scheme |-> scheme,
                       listen_port |-> listen, stream_protocol |-> protocol]]
=============================================================================
