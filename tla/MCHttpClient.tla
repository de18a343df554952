----------------------------- MODULE MCHttpClient -----------------------------
(* Values for the constants of HttpClient. *)
EXTENDS HttpClient

CONSTANTS h1, h2

=============================================================================
