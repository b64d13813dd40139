--------------------------- MODULE QuestionGenerator ---------------------------
(***************************************************************************)
(* typesafe-gen: the questions it reads from a tagged struct and from the    *)
(* constants of the enums its fields have, and what it refuses to guess.     *)
(*                                                                         *)
(* A constant is [type, name, value]: type NoType is omitted; the value is   *)
(* "omitted", "iota", "string", "other", an integer literal or "typed", an   *)
(* expression of the enum's own type such as T(3), wrapped as <<form,        *)
(* integer>>.  A block is a sequence of constants and a package a sequence   *)
(* of blocks, in the order of its file names.  A field has a name, a         *)
(* sequence of <<word, how its letters are cased>>, which is its type's if   *)
(* it is "embedded" and which it may share; whether it has a doc comment and *)
(* its type is a bare name; and a tag: a kind, none if there is none, and an *)
(* id or <<>>.                                                               *)
(***************************************************************************)
EXTENDS Integers, FiniteSets, Sequences, SequencesExt

NoType == "-"
Blank == "_"
\* The type a constant is taken to have: the one written last in its block.
CurrentType(block, i) ==
    LET typed == {j \in 1..i : block[j].type # NoType}
    IN IF typed = {} THEN NoType ELSE block[Max(typed)].type
Of(block, T) == {i \in DOMAIN block : CurrentType(block, i) = T /\ block[i].name # Blank}

NoIndex == -1
IotaForm(block, T, i) == \E j \in Of(block, T) : j < i /\ block[j].value[1] = "iota"
Index(block, T, i, base) ==
    LET v == block[i].value
    IN CASE v[1] = "iota" \/ (v[1] = "omitted" /\ IotaForm(block, T, i)) -> base + (i - 1)
         [] v[1] = "int" -> base + v[2]
         [] OTHER -> NoIndex

Positioned(block, T, i, base) ==
    Index(block, T, i, base) = base + Cardinality({j \in Of(block, T) : j < i})

BlockAccepted(block, T, kind, base) ==
    \A i \in Of(block, T) :
        IF kind = "score" THEN Positioned(block, T, i, base) ELSE block[i].value[1] = "string"

\* collectEnum: every constant in source order, and how many were found before a block.
Places(package, T) == UNION {{b} \X Of(package[b], T) : b \in DOMAIN package}
Precedes(p, q) == p[1] < q[1] \/ (p[1] = q[1] /\ p[2] < q[2])
Found(package, T) ==
    CHOOSE s \in [1..Cardinality(Places(package, T)) -> Places(package, T)] :
        \A k, l \in DOMAIN s : k < l => Precedes(s[k], s[l])
Base(package, b, T) == Cardinality({p \in Places(package, T) : p[1] < b})
CollectEnum(package, T, kind) ==
    /\ Found(package, T) # <<>>
    /\ \A b \in DOMAIN package : BlockAccepted(package[b], T, kind, Base(package, b, T))

\* What the tagged fields become, and what is refused of them.
SnakeCase(name) == [k \in DOMAIN name |-> name[k][1]]
Tagged(fields) == {i \in DOMAIN fields : fields[i].kind \in {"choice", "score"}}
Id(field) == IF field.id = <<>> THEN SnakeCase(field.name) ELSE field.id
DistinctIds(fields) ==
    \A i, j \in Tagged(fields) : i # j => Id(fields[i]) # Id(fields[j])
Word(w) == <<<<w, "capitalized">>>>
Method(name, w) == name \o Word(w)
Methods(fields) ==
    {Word("questions")} \cup
    {Method(fields[i].name, w) : i \in Tagged(fields), w \in {"question", "answer"}}
\* The fields that the syntax gives a name, which an embedded one has from its type.
Declared(fields) == {i \in DOMAIN fields : fields[i].names # "embedded"}
CollectQuestions(fields) ==
    /\ \A i \in DOMAIN fields : fields[i].kind \in {"choice", "score", "none", "-"}
    /\ \A i \in Tagged(fields) :
          fields[i].names = "one" /\ fields[i].typeNamed /\ fields[i].documented
    /\ DistinctIds(fields)
    /\ \A i \in Declared(fields) : fields[i].name \notin Methods(fields)
Generate(fields) == CollectQuestions(fields) /\ Tagged(fields) # {}

\* The generated Questions method: one entry of the map per id.
Questions(fields) ==
    [id \in {Id(fields[i]) : i \in Tagged(fields)} |->
        fields[CHOOSE i \in Tagged(fields) : Id(fields[i]) = id].name]

\* validateSelf of the typed Score question the generated constructor builds, which
\* sees the values that Go gives the constants.
SelfValid(values) == \A k \in DOMAIN values : values[k] = k - 1

-----------------------------------------------------------------------------
\* Go's own reading of a block: an omitted type and value repeat the last pair written.
Written(block, i) == Max({j \in 1..i : block[j].value[1] # "omitted"})
GoType(block, i, T) ==
    LET c == block[Written(block, i)] IN IF c.value[1] = "typed" THEN T ELSE c.type
GoValue(block, i) ==
    LET v == block[Written(block, i)].value IN IF v[1] = "iota" THEN i - 1 ELSE v[2]
Compiles(package, T) ==
    \A b \in DOMAIN package : \A i \in DOMAIN package[b] :
        /\ package[b][1].value[1] # "omitted"
        /\ package[b][i].value[1] = "omitted" => package[b][i].type = NoType
        /\ package[b][i].value[1] = "typed" => package[b][i].type \in {NoType, T}
        /\ GoType(package[b], i, T) = T =>
             package[b][Written(package[b], i)].value[1] \in {"iota", "int", "typed"}

\* The values that Go gives the levels of the rubric, in their order.
Values(package, T) ==
    LET levels == Found(package, T)
    IN [k \in DOMAIN levels |-> GoValue(package[levels[k][1]], levels[k][2])]

\* No constant that is found repeats anything but iota: one that repeats a literal has
\* that literal's value, while the generator takes it for the next one.
Settled(package, T) ==
    \A b \in DOMAIN package : \A i \in Of(package[b], T) :
        package[b][i].value[1] = "omitted" =>
            package[b][Written(package[b], i)].value[1] = "iota"

\* An enum that is accepted numbers its levels by their positions.
NumberedFor(package, T) ==
    Compiles(package, T) /\ Settled(package, T) /\ CollectEnum(package, T, "score")
        => SelfValid(Values(package, T))

\* The level that a rubric made from one block puts at a position is the constant of
\* that value, whatever else the block holds and in whatever ways it is written.  No
\* constant with the type's name before it, or before what it repeats, is left out, and
\* one iota block of the type alone is always generated and valid.
RubricMeantFor(package, T) ==
    LET plain == /\ Len(package) = 1 /\ package[1] # <<>>
                 /\ package[1][1].type = T /\ package[1][1].value[1] = "iota"
                 /\ \A i \in DOMAIN package[1] :
                      package[1][i].name # Blank /\ (i > 1 => package[1][i].value[1] = "omitted")
    IN /\ Len(package) = 1 => NumberedFor(package, T)
       /\ Compiles(package, T) =>
            /\ \A b \in DOMAIN package : \A i \in DOMAIN package[b] :
                 package[b][Written(package[b], i)].type = T /\ package[b][i].name # Blank
                   => Contains(Found(package, T), <<b, i>>)
            /\ plain => CollectEnum(package, T, "score") /\ SelfValid(Values(package, T))

\* A rubric written in one block with a literal for every level is accepted exactly when
\* the literals are the positions, whatever other constants the block holds.
LiteralsCheckedFor(block, T) ==
    (\A i \in DOMAIN block : block[i].value[1] = "int" /\ block[i].type # NoType) =>
        (CollectEnum(<<block>>, T, "score") <=>
            LET levels == Found(<<block>>, T)
            IN levels # <<>> /\ SelfValid([k \in DOMAIN levels |-> GoValue(block, levels[k][2])]))

\* No tagged field replaces another in the request, and no two generated methods have
\* one name, nor a method that of a field that declares it.
EveryFieldAskedFor(fields) ==
    Generate(fields) =>
        /\ Cardinality(DOMAIN Questions(fields)) = Cardinality(Tagged(fields))
        /\ Cardinality(Methods(fields) \cup {fields[i].name : i \in Declared(fields)})
             = 2 * Cardinality(Tagged(fields)) + 1 + Cardinality(Declared(fields))
=============================================================================
