----------------------------- MODULE StrictJson -----------------------------
(***************************************************************************)
(* json/strict.rs and crypto/jcs.rs: JSON is read strictly, and written in   *)
(* one canonical form, over which the signatures are made and verified.      *)
(*                                                                          *)
(* A text is its syntax tree <<kind, content>>; the members of an object are  *)
(* a sequence of <<key, tree>> as they stand in the text.  A value has the    *)
(* same shape: serde_json's Map may keep its members in the order of their    *)
(* insertion.  A key is its rank in the order of keys, a text within quotes a  *)
(* number too.                                                               *)
(***************************************************************************)
EXTENDS Integers, Sequences

CONSTANTS
    Texts,          \* the syntax trees that are read, and all their parts
    Height,         \* how deep a tree nests
    I64_MAX,
    MaxTexts        \* bound

VARIABLES docs      \* the texts read so far, each with its value and canonical form

Scalars == {"null", "boolean", "integer", "float", "string"}
Kinds == Scalars \cup {"array", "object"}

\* The trees directly below t.
Parts(t) ==
    CASE t[1] = "array" -> {t[2][i] : i \in DOMAIN t[2]}
      [] t[1] = "object" -> {t[2][i][2] : i \in DOMAIN t[2]}
      [] OTHER -> {}

\* A text is finite: every tree is built from lower ones.
ASSUME TreeAssumption ==
    /\ \A t \in Texts :
          /\ t[1] \in Kinds
          /\ t = <<t[1], t[2]>>
          /\ t[1] = "integer" => t[2] \in Int
          /\ t[1] = "array" => t[2] \in Seq(Texts)
          /\ t[1] = "object" => t[2] \in Seq(Nat \X Texts)
    /\ Height \in [Texts -> Nat]
    /\ \A t \in Texts : \A p \in Parts(t) : Height[p] < Height[t]
    /\ I64_MAX \in Nat

\* A Result is the set of what it holds: none for an error.
Err == {}
Ok(v) == {v}
Unwrap(result) == CHOOSE v \in result : TRUE

-----------------------------------------------------------------------------
(* json/strict.rs *)

\* visit_i64 and visit_u64; serde_json reads an integer beyond u64, or below i64,
\* as a float, which visit_f64 refuses.
visit_integer(n) == IF n > I64_MAX \/ n < -I64_MAX - 1 THEN Err ELSE Ok(<<"integer", n>>)

\* The items, each read by StrictValue; the first error ends the loop.
visit_seq(results) ==
    IF \E i \in DOMAIN results : results[i] = Err THEN Err
    ELSE Ok([i \in DOMAIN results |-> Unwrap(results[i])])

\* Mutant: the later of two members with one key overwrites the other.
LastMemberCounts(keys, results) ==
    IF \E i \in DOMAIN keys : results[i] = Err THEN Err
    ELSE LET Stays(i) == \A j \in DOMAIN keys : j > i => keys[j] # keys[i]
             kept == SelectSeq([i \in DOMAIN keys |-> i], Stays)
         IN  Ok([n \in DOMAIN kept |-> <<keys[kept[n]], Unwrap(results[kept[n]])>>])

\* A key that was seen before, or a value that is an error, ends the loop.
visit_map(keys, results) ==
    IF \E i \in DOMAIN keys :
          keys[i] \in {keys[k] : k \in 1 .. i - 1} \/ results[i] = Err
    THEN Err
    ELSE Ok([i \in DOMAIN keys |-> <<keys[i], Unwrap(results[i])>>])

\* What is made of a text, if read is what is made of its parts.
StrictVisitor(t, read) ==
    CASE t[1] = "integer" -> visit_integer(t[2])
      [] t[1] = "float" -> Err
      [] t[1] = "array" ->
            {<<"array", items>> :
                items \in visit_seq([i \in DOMAIN t[2] |-> read[t[2][i]]])}
      [] t[1] = "object" ->
            {<<"object", map>> :
                map \in visit_map([i \in DOMAIN t[2] |-> t[2][i][1]],
                                  [i \in DOMAIN t[2] |-> read[t[2][i][2]]])}
      [] OTHER -> Ok(t)          \* null, a boolean, a string

StrictValue[t \in Texts] == StrictVisitor(t, StrictValue)

-----------------------------------------------------------------------------
(* crypto/jcs.rs: what is written, token by token *)

\* What a serde_json::Value may be that was read strictly.
Values == {t \in Texts : StrictValue[t] = Ok(t)}

Punct(p) == <<"punct", p>>
KeyToken(k) == <<"key", k>>

\* Mutant: members as the map yields them.
Unsorted(members) == members

\* keys.sort(), and map[key] for each.
Sorted(members) ==
    CHOOSE s \in [DOMAIN members -> {members[i] : i \in DOMAIN members}] :
        /\ \A i \in DOMAIN members : \E j \in DOMAIN members : s[j] = members[i]
        /\ \A i, j \in DOMAIN members : i < j => s[i][1] < s[j][1]

\* What stands in out after each turn of the loop over parts.
Written(parts) ==
    LET out[n \in 0 .. Len(parts)] ==
            IF n = 0 THEN <<>>
            ELSE out[n - 1] \o (IF n > 1 THEN <<Punct(",")>> ELSE <<>>) \o parts[n]
    IN out

Separated(parts) == Written(parts)[Len(parts)]

\* What is pushed for a value, if write is what is pushed for its parts.
Pushed(v, write) ==
    CASE v[1] = "array" ->
            <<Punct("[")>>
            \o Separated([i \in DOMAIN v[2] |-> write[v[2][i]]])
            \o <<Punct("]")>>
      [] v[1] = "object" ->
            LET members == Sorted(v[2]) IN
            <<Punct("{")>>
            \o Separated([i \in DOMAIN v[2] |->
                   <<KeyToken(members[i][1]), Punct(":")>> \o write[members[i][2]]])
            \o <<Punct("}")>>
      [] OTHER -> <<v>>

write_value[v \in Values] == Pushed(v, write_value)

\* canonicalize_object, on the members that a document gives it.
canonicalize_object(fields) ==
    IF \E i, j \in DOMAIN fields : i # j /\ fields[i][1] = fields[j][1]
    THEN Err
    ELSE Ok(write_value[<<"object", fields>>])

-----------------------------------------------------------------------------
(* The relay reads one text after another, and signs or verifies what it read *)

JsonInit == docs = <<>>

Canonical(v) == IF v[1] = "object" THEN canonicalize_object(v[2]) ELSE Ok(write_value[v])

Receive(text) ==
    /\ Len(docs) < MaxTexts
    /\ LET value == StrictValue[text] IN
       docs' = Append(docs, [text |-> text, value |-> value,
                             bytes |-> UNION {Canonical(v) : v \in value}])

JsonNext == \E text \in Texts : Receive(text)

JsonSpec == JsonInit /\ [][JsonNext]_docs

-----------------------------------------------------------------------------
(* Reference definitions *)

Subtexts[t \in Texts] == {t} \cup UNION {Subtexts[p] : p \in Parts(t)}

\* What a text may not hold, at any depth.
Ambiguous(t) ==
    \/ t[1] = "float"
    \/ t[1] = "integer" /\ t[2] \notin -I64_MAX - 1 .. I64_MAX
    \/ /\ t[1] = "object"
       /\ \E i, j \in DOMAIN t[2] : i # j /\ t[2][i][1] = t[2][j][1]

\* Whether u means what t means: the order of members is no part of it.
SameMeaning[t \in Texts] == [u \in Texts |->
    /\ u[1] = t[1]
    /\ CASE t[1] = "array" ->
               /\ Len(u[2]) = Len(t[2])
               /\ \A i \in DOMAIN t[2] : SameMeaning[t[2][i]][u[2][i]]
         [] t[1] = "object" ->
               /\ \A i \in DOMAIN t[2] : \E j \in DOMAIN u[2] :
                     u[2][j][1] = t[2][i][1] /\ SameMeaning[t[2][i][2]][u[2][j][2]]
               /\ \A j \in DOMAIN u[2] : \E i \in DOMAIN t[2] :
                     u[2][j][1] = t[2][i][1] /\ SameMeaning[t[2][i][2]][u[2][j][2]]
         [] OTHER -> u[2] = t[2]]

-----------------------------------------------------------------------------
(* Safety *)

\* A text is refused just when some part of it could be read in two ways: a repeated
\* key, a fraction, an integer beyond 64 bits.  What is not refused is read in full.
RefusesTheAmbiguous ==
    \A i \in DOMAIN docs :
        LET d == docs[i] IN
        /\ (d.value = Err) = (\E t \in Subtexts[d.text] : Ambiguous(t))
        /\ \A v \in d.value : SameMeaning[d.text][v]

\* Two texts have the same canonical form just when they mean the same: a signature
\* survives any reordering of members on the way, and covers no other document.
CanonicalMeansSame ==
    \A i \in DOMAIN docs : \A j \in DOMAIN docs :
        (docs[i].value # Err /\ docs[j].value # Err) =>
            ((docs[i].bytes = docs[j].bytes) = SameMeaning[docs[i].text][docs[j].text])
=============================================================================
