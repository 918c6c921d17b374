--------------------------- MODULE MC_TlbShootdown ---------------------------
(* Model-checking instance of TlbShootdown.                                *)
EXTENDS TlbShootdown
=============================================================================
