-------------------------- MODULE MCBackendServer --------------------------
(* Small instances of BackendServer. *)
EXTENDS BackendServer, TLC

\* Requests are alike and so are connections (safety runs only).
Symmetry == Permutations(Req) \cup Permutations(Conn)

=============================================================================
