--------------------------- MODULE MCLedgerClient ---------------------------
(* A log and two claims, and fewer nodes than attempts: the retry loop     *)
(* comes round to the node it started from.                                *)
EXTENDS LedgerClient

MCClaims == {2, 3}
=============================================================================
