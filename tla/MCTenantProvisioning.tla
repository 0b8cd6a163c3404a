-------------------------- MODULE MCTenantProvisioning --------------------------
(* Instances of TenantProvisioning for TLC: requests are interchangeable. *)
EXTENDS TenantProvisioning, TLC

RequestSymmetry == Permutations(Requests)
================================================================================
