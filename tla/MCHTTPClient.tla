---------------------------- MODULE MCHTTPClient ----------------------------
(* The HTTP client on a small instance. *)
EXTENDS HTTPClient, TLC

Symmetry == Permutations(Host) \cup Permutations(Req) \cup Permutations(Url)
=============================================================================
