----------------------------- MODULE MCEditForm -----------------------------
(***************************************************************************)
(* A small instance of EditForm: host names a and b, a proxy db_1, the     *)
(* host name A, which normalizes to a, and one that does not.  The first   *)
(* state chooses whether the form is used: then the other clients send few *)
(* payloads.                                                               *)
(***************************************************************************)
EXTENDS EditForm

MCRaw == {"a", "A", "b", "db_1", "bad", Null}
MCName == {"a", "b", "db_1"}
MCHostName(raw) ==
  IF raw \in {"a", "A"} THEN "a" ELSE IF raw = "b" THEN "b" ELSE Refused
MCProxyName(raw) ==
  IF raw = "db_1" THEN raw ELSE MCHostName(raw)
MCUpstreamHost(raw) == MCHostName(raw)

P(k, v) == [x \in {k} |-> v]
Join(p, q) == [k \in DOMAIN p \cup DOMAIN q |-> IF k \in DOMAIN p THEN p[k] ELSE q[k]]

\* One field, in each of its places and spellings.
SchemeFields ==
  {P("upstream_scheme", v) : v \in {"https", "stream", "udp", "ftp", Null}}
  \cup {P("scheme", v) : v \in {"https", "udp"}}
  \cup {P("stream_protocol", v) : v \in {"udp", "http", Null}}
RouteFields ==
  SchemeFields \cup {P("upstream_host", v) : v \in {"A", "bad"}}
  \cup {P(k, v) : k \in {"upstream_port", "listen_port"}, v \in {0, MaxPort, MaxPort + 1, Null}}
TypeFields == {P("type", v) : v \in {"hostname", "stream"}}
NameFields == {P("name", v) : v \in {"A", "b", "db_1", "bad"}}
Typing == TypeFields \cup {P("proxy_type", v) : v \in {"http", "port_proxy"}} \cup {P("domain", f) : f \in TypeFields}
Naming ==
  NameFields \cup {P("legacy_name", "b")} \cup {P("domain", f) : f \in NameFields}
  \cup {P("server_names", v) : v \in {Null, <<>>, <<"A", "b">>, <<"a", "A">>, <<"bad">>}}
Routing == RouteFields \cup {P("route", f) : f \in RouteFields}
Fields == Typing \cup Naming \cup Routing

Site == Join(P("type", "hostname"), Join(P("name", "a"), Join(P("upstream_host", "a"), P("upstream_port", 80))))
Proxy == Join(P("type", "port_proxy"), Join(P("listen_port", 80), Join(P("scheme", "udp"), Site)))
Named(p) == Join(P("name", "db_1"), p)

\* The other clients of the form.
Others ==
  {Site, Named(Proxy), Join(P("type", "hostname"), P("name", "b")), P("server_names", <<"b">>)}

\* A whole row, one field, or two that may disturb each other.
MCPayloads ==
  Others \cup {Join(P("scheme", "https"), Site), P("type", "mail")} \cup Fields
  \cup {Join(p, q) : p \in TypeFields, q \in Routing \cup Naming}
  \cup {Join(p, q) : p, q \in Naming}
  \cup {Join(p, q) : p \in SchemeFields,
           q \in SchemeFields \cup {P("route", P(k, "udp")) : k \in {"upstream_scheme", "stream_protocol"}}}

Typed ==
  {<<"type", "hostname">>, <<"type", "port_proxy">>, <<"scheme", "https">>, <<"scheme", "udp">>, <<"name", "A">>,
   <<"name", "db_1">>, <<"names", <<"a", "b">>>>, <<"names", <<>>>>, <<"listen", 80>>,
   <<"port", MaxPort>>, <<"host", "b">>}

VARIABLE scenario

ScenarioNext ==
  /\ Next
  /\ UNCHANGED scenario
  /\ IF scenario = "clients" THEN form' = NoForm
     ELSE form' = form /\ row' # row => row' \in {Normalize(p, row) : p \in Others} \cup {NoRow}

ScenarioInit == Init /\ scenario \in {"clients", "form"}

ScenarioSpec == ScenarioInit /\ [][ScenarioNext]_<<vars, scenario>>
=============================================================================
