------------------------- MODULE MCFrontendSession -------------------------
(* A small instance of FrontendSession: two requests of a page and a navigation *)
EXTENDS FrontendSession

CONSTANTS r1, r2, n1
=============================================================================
