----------------------------- MODULE MCGateway -----------------------------
(* Small instances of Gateway for TLC. *)
EXTENDS Gateway

CONSTANTS n1, n2, r1, r2

OneCandidate == <<n1>>
TwoCandidates == <<n1, n2>>
WriteThenRead == [r \in Requests |-> IF r = r1 THEN "PUT" ELSE "GET"]
=============================================================================
