---------------------------- MODULE MCMigration ----------------------------
(* A small instance of Migration: two domains with two names and two          *)
(* certificates, all of them interchangeable, and three deployments.          *)
EXTENDS Migration, FiniteSets, TLC

NoComments == {Plain}
Interchangeable == Permutations(Domain) \cup Permutations(Name) \cup Permutations(Cert)
=============================================================================
