----------------------------- MODULE MCReadout ------------------------------
(***************************************************************************)
(* Instances of Readout for TLC.                                           *)
(***************************************************************************)
EXTENDS ReadoutInv

MCCandidates == <<12, 10, 8, 6>>

(* The largest candidate, a smaller one, one between candidates, and less  *)
(* than the smallest with no room for the feedback area.                   *)
MCFlashSizes == {4, 8, 11, 12}

Reads == [cmd : {"read-flash"}, addr : {3, 8}, len : {-1, 0, 3, 5}, strict : BOOLEAN]
Queries == [cmd : Commands \ {"read-flash"}, addr : {0}, len : {-1}, strict : BOOLEAN]
MCJobs == Reads \cup Queries

(* Addresses below and beyond 2^32.                                        *)
FarReads == [cmd : {"read-flash"}, addr : {2, 18}, len : {-1, 3}, strict : {TRUE}]
=============================================================================
