------------------------- MODULE MCRequestPipeline -------------------------
(* Small instances of RequestPipeline: two ids, two ports.                    *)
EXTENDS RequestPipeline

CONSTANTS d1, d2, p1, p2

Ask(kind, d, port) == [kind |-> kind, dom |-> d, port |-> port]

\* Both rows want each port, one is applied and deleted, one is read.
Contention ==
  {Ask("create", d1, p1), Ask("create", d2, p2), Ask("update", d1, p2), Ask("update", d2, p1),
   Ask("update", d1, Keep), Ask("apply", d1, Keep), Ask("delete", d1, Keep),
   [kind |-> "read", dom |-> d2]}
=============================================================================
