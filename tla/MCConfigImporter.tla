-------------------------- MODULE MCConfigImporter --------------------------
(***************************************************************************)
(* A small instance of ConfigImporter: host names a and b, and a proxy,    *)
(* db, whose file has the name slug.  The first state chooses a scenario,  *)
(* the files and the texts that may occur.                                 *)
(***************************************************************************)
EXTENDS ConfigImporter

CONSTANTS a, b, db, slug, long, u, p1, p2

MCFile(type, name) == [type |-> type, stem |-> IF name = db THEN slug ELSE name]

PathA == [type |-> "http", stem |-> a]
PathB == [type |-> "http", stem |-> b]
PathD == [type |-> "stream", stem |-> b]
PathS == [type |-> "stream", stem |-> slug]
\* A file of an operator whose name the database does not take.
PathL == [type |-> "http", stem |-> long]

MCPath == {PathL, PathA, PathB, PathD, PathS}
MCFileOrder == <<PathL, PathA, PathB, PathD, PathS>>
MCUnsavable == {PathL}

\* Texts of an operator: one rule, two names, a wildcard, two rules in a file.
Plain(n) == Server(<<n>>, Odd, <<u>>, FALSE, NoName)
Secure(names) == Server(names, Odd, <<u>>, TRUE, b)
Stream(listen) == Server(<<>>, listen, <<u>>, FALSE, NoName)
SiteTexts ==
  {<<Plain(a)>>, <<Secure(<<b, a>>)>>, <<Server(<<a, BadName>>, Odd, <<u>>, FALSE, NoName)>>}
Tcp(port) == [port |-> port, udp |-> FALSE]
Udp(port) == [port |-> port, udp |-> TRUE]
StreamTexts ==
  {<<Stream(Tcp(p1))>>, <<Stream(Udp(p1))>>, <<Stream(Tcp(p2))>>, <<Stream(Tcp(p1)), Stream(Udp(p1))>>}

Request(type, name, names, listen) ==
  [type |-> type, name |-> name, names |-> names, listen |-> listen, upstream |-> u,
   ssl |-> FALSE, cert |-> NoName]
MCAsked ==
  {Request("http", a, <<a>>, Odd), Request("http", b, <<b, a>>, Odd),
   Request("stream", db, <<>>, [port |-> p1, protocol |-> "tcp"]),
   Request("stream", b, <<>>, [port |-> p1, protocol |-> "udp"])}
NoCertificates == {{}}

Scenario ==
  { \* Two sites, with and without TLS.
    [paths |-> {PathA, PathB}, texts |-> SiteTexts],
    \* Two proxies, a reserved port, and one port for both protocols.
    [paths |-> {PathD, PathS}, texts |-> StreamTexts],
    \* A site the database refuses, before another.
    [paths |-> {PathL, PathA}, texts |-> {<<Plain(a)>>, <<Plain(a), Plain(b)>>}] }

MCHandWritten == UNION {s.texts : s \in Scenario}

VARIABLE scenario

InScenario ==
  /\ \A p \in Path : files[p] # NoFile => p \in scenario.paths
  /\ \A p \in Path : files[p] \in HandWritten => files[p] \in scenario.texts
  /\ \A n \in Present(rows) : rows[n].paths \subseteq scenario.paths

ScenarioNext == Next /\ UNCHANGED scenario /\ InScenario'

ScenarioInit == Init /\ scenario \in Scenario

ScenarioSpec == ScenarioInit /\ [][ScenarioNext]_<<vars, scenario>>
=============================================================================
