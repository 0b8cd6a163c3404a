----------------------------- MODULE MCUnitBooking -----------------------------
(* Instances of UnitBooking for TLC: requests are interchangeable, and so are the
   values of unit_number, which nothing here compares except for being equal. *)
EXTENDS UnitBooking, TLC

RequestSymmetry == Permutations(Requests)
Symmetry == RequestSymmetry \cup Permutations(Numbers)
================================================================================
