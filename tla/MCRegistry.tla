----------------------------- MODULE MCRegistry -----------------------------
(***************************************************************************)
(* One run of DomainService over several small instances: the first state  *)
(* chooses a scenario, which bounds what may be reached.                   *)
(***************************************************************************)
EXTENDS MCDomainService

\* The situations that one run explores one after the other: what clients send,
\* the domains there are, and the bounds.
Scenario ==
  { \* One stream that changes its name and its upstream.
    [payloads |-> {Stream(n1), Refused(Stream(n1)), Stream(n2)},
     domains |-> 1, deployments |-> 2, incidents |-> 1],
    \* The same without a rename, for behaviours with several incidents.
    [payloads |-> {Stream(n1), Refused(Stream(n1))},
     domains |-> 1, deployments |-> 2, incidents |-> 2],
    \* One hostname with and without an alias: its history, and its reissues.
    [payloads |-> {Host(n1, {n1}), Host(n1, {n1, n2})},
     domains |-> 1, deployments |-> 3, incidents |-> 0],
    [payloads |-> {Host(n1, {n1}), Host(n1, {n1, n2})},
     domains |-> 1, deployments |-> 2, incidents |-> 1],
    \* Two domains that compete for names, paths and a port, one of each type.
    [payloads |-> {Host(n1, {n1, n2}), Stream(n2)},
     domains |-> 2, deployments |-> 2, incidents |-> 0] }

ScenarioPayload == UNION {s.payloads : s \in Scenario}

VARIABLE scenario

InScenario ==
  /\ Cardinality(Rows) <= scenario.domains
  /\ \A d \in Rows : /\ db[d].cfg \in scenario.payloads
                     /\ Len(db[d].deployments) <= scenario.deployments
  /\ Cardinality(alarm) <= scenario.incidents

ScenarioNext == Next /\ UNCHANGED scenario /\ InScenario'

ScenarioInit == Init /\ scenario \in Scenario

ScenarioSpec == ScenarioInit /\ [][ScenarioNext]_<<vars, scenario>>
=============================================================================
