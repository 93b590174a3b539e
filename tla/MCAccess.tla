------------------------------ MODULE MCAccess ------------------------------
(* A small instance of Access for TLC; requests are interchangeable. *)
EXTENDS Access, TLC

ReqSymmetry == Permutations(Reqs) \cup Permutations(Rooms)
=============================================================================
