---------------------------- MODULE MCStrictJson ----------------------------
(* An instance of StrictJson for TLC. *)
EXTENDS StrictJson

Keys == 1 .. 2
Leaves == {<<"null", 0>>, <<"integer", 7>>, <<"string", 7>>}
BadLeaves == {<<"integer", 8>>, <<"integer", -9>>, <<"float", 0>>}

Member(S) == Keys \X S
Array(items) == <<"array", items>>
Object(members) == <<"object", members>>

Flat == Leaves \cup BadLeaves
        \cup {Array(s) : s \in {<<>>} \cup {<<a>> : a \in Leaves} \cup {<<a, b>> : a \in Leaves, b \in Leaves}}
        \cup {Object(s) : s \in {<<>>} \cup {<<m>> : m \in Member(Leaves)}
                              \cup {<<m, n>> : m \in Member(Leaves), n \in Member(Leaves)}}

\* One level down: objects in objects and arrays, in either order of the members.
Inner == {Object(<<<<1, <<"null", 0>>>>, <<2, <<"integer", 7>>>>>>),
          Object(<<<<2, <<"integer", 7>>>>, <<1, <<"null", 0>>>>>>),
          Object(<<<<1, <<"null", 0>>>>, <<1, <<"null", 0>>>>>>),
          Object(<<<<1, <<"null", 0>>>>>>),
          Array(<<<<"null", 0>>, <<"null", 0>>>>), Array(<<<<"null", 0>>>>), <<"float", 0>>}

Nested == {Array(<<a, b>>) : a \in Inner, b \in Inner}
          \cup {Object(<<<<1, a>>, <<2, b>>>>) : a \in Inner, b \in Inner}
          \cup {Object(<<<<2, b>>, <<1, a>>>>) : a \in Inner, b \in Inner}

MCTexts == Flat \cup Nested
MCHeight == [t \in MCTexts |->
                IF t \in Nested THEN 2 ELSE IF t[1] \in {"array", "object"} THEN 1 ELSE 0]
=============================================================================
