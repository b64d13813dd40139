--------------------------- MODULE MCResponseCache --------------------------
(* Small instances of ResponseCache for TLC.                                *)
EXTENDS ResponseCache, TLC

CONSTANTS r1, r2, a, b

TwoContents == {a, b}

(* Two concurrent requesters, each with its own question.                   *)
TwoRequesters == {r1, r2}
OwnContent == r1 :> {a} @@ r2 :> {b}

(* One that asks either.                                                    *)
OneRequester == {r1}
BothContents == r1 :> {a, b}
=============================================================================
