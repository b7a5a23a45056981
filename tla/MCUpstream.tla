----------------------------- MODULE MCUpstream -----------------------------
(* A small pool for TLC: two primary endpoints.                            *)
EXTENDS Upstream

CONSTANTS e1, e2

TwoPrimary == <<e1, e2>>
NoFallback == <<>>
==============================================================================
