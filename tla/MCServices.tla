----------------------------- MODULE MCServices -----------------------------
(* Three clients: of the name server, or of the time server. *)
EXTENDS Services
=============================================================================
