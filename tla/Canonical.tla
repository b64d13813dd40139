------------------------------- MODULE Canonical -------------------------------
(***************************************************************************)
(* The byte form two requests are compared by (internal/canonical): a JSON  *)
(* text is decoded and written again with sorted keys, and several parts    *)
(* are hashed as one.  The cassette and the response cache match on it.     *)
(*                                                                         *)
(* A text is <<"blank">>, <<"lit", a number or string as written>>,         *)
(* <<"arr", its elements>> or <<"obj", its <<key, text>> pairs as written>>. *)
(* A byte form is a sequence of tokens.  SHA-256 is taken to be injective:   *)
(* a hash is the bytes that were hashed.                                    *)
(***************************************************************************)
EXTENDS Integers, Sequences, SequencesExt

CONSTANT KeyOrder   \* the keys in the order of sort.Strings

\* What the decoder makes of a text: an object is a function, and a key written
\* twice has the value written last.
RECURSIVE Decode(_)
Decode(text) ==
    CASE text[1] = "lit" -> text
      [] text[1] = "arr" -> <<"arr", [i \in DOMAIN text[2] |-> Decode(text[2][i])]>>
      [] text[1] = "obj" ->
            LET pairs == text[2]
            IN <<"obj", [k \in {pairs[i][1] : i \in DOMAIN pairs} |->
                           Decode(pairs[SelectLastInSeq(pairs, LAMBDA p : p[1] = k)][2])]>>

Commas(forms) ==
    FlattenSeq([i \in DOMAIN forms |-> IF i = 1 THEN forms[i] ELSE <<",">> \o forms[i]])

Elements(seq) == seq
Sorted(keys) == SelectSeq(KeyOrder, LAMBDA k : k \in keys)

RECURSIVE Write(_)
Write(tree) ==
    CASE tree[1] = "lit" -> <<tree[2]>>
      [] tree[1] = "arr" ->
            LET elements == Elements(tree[2])
            IN <<"[">> \o Commas([i \in DOMAIN elements |-> Write(elements[i])]) \o <<"]">>
      [] tree[1] = "obj" ->
            LET keys == Sorted(DOMAIN tree[2])
            IN <<"{">> \o Commas([i \in DOMAIN keys |->
                                   <<keys[i], ":">> \o Write(tree[2][keys[i]])]) \o <<"}">>

CanonicalizeJSON(text) == IF text[1] = "blank" THEN <<>> ELSE Write(Decode(text))
HashJSON(text) == CanonicalizeJSON(text)

\* A part is <<"text", its tokens>>, a method or a path, or <<"json", a text>>.
Bytes(part) == IF part[1] = "text" THEN part[2] ELSE CanonicalizeJSON(part[2])
\* Mutant: the record separator is left out.
Unseparated(bytes) == bytes
Separated(bytes) == bytes \o <<"RS">>
HashParts(parts) == FlattenSeq([i \in DOMAIN parts |-> Separated(Bytes(parts[i]))])

-----------------------------------------------------------------------------
SameValue(x, y) ==
    \/ x = y
    \/ x[1] # "blank" /\ y[1] # "blank" /\ Decode(x) = Decode(y)

\* Two bodies have one hash exactly when they hold the same value: neither the
\* spelling nor the key order tells requests apart, and nothing else is merged,
\* the order of an array and a number's digits least of all.
OneHashPerValueFor(x, y) == HashJSON(x) = HashJSON(y) <=> SameValue(x, y)

\* No regrouping of the parts collides: one hash means the same parts, one by one.
PartsApartFor(ps, qs) ==
    HashParts(ps) = HashParts(qs) =>
        /\ Len(ps) = Len(qs)
        /\ \A i \in DOMAIN ps : Bytes(ps[i]) = Bytes(qs[i])
=============================================================================
