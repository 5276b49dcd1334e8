-------------------------- MODULE MCDomainService --------------------------
(***************************************************************************)
(* Small instances of DomainService.  Each run takes one of the payload    *)
(* sets below.                                                             *)
(***************************************************************************)
EXTENDS DomainService, TLC

CONSTANTS d1, d2, n1, n2, p1

Host(name, names) ==
  [type |-> "hostname", name |-> name, names |-> names, port |-> p1, valid |-> TRUE]

Stream(name) ==
  [type |-> "port_proxy", name |-> name, names |-> {}, port |-> p1, valid |-> TRUE]

Refused(cfg) == [cfg EXCEPT !.valid = FALSE]

\* One hostname whose upstream comes and goes.
LockPayload == {Host(n1, {n1}), Refused(Host(n1, {n1}))}

\* One hostname, to which an alias is added.
TlsPayload == {Host(n1, {n1}), Host(n1, {n1, n2})}

\* An alias that moves from one hostname to another.
AliasPayload == {Host(n1, {n1}), Host(n1, {n1, n2}), Host(n2, {n2})}

\* Domains differ in nothing but their id.
Symmetry == Permutations(Domain)
=============================================================================
