---------------------------- MODULE MCConnectionPool ----------------------------
(* Instances of ConnectionPool for TLC: requests are interchangeable. *)
EXTENDS ConnectionPool, TLC

RequestSymmetry == Permutations(Requests)
================================================================================
