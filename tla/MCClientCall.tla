----------------------------- MODULE MCClientCall ---------------------------
(* Small instances of ClientCall for TLC.                                   *)
EXTENDS ClientCall

CONSTANTS c1, c2

TwoCalls == {c1, c2}
ShortDelays == {0, 1, 2}
AnyRetryAfter == {2, 4}
=============================================================================
