-------------------------- MODULE MCLoginDocuments --------------------------
(* Instances of LoginDocuments for TLC: texts at and around each limit. *)
EXTENDS LoginDocuments

\* n characters of one byte each.
Ascii(n) == [chars |-> n, bytes |-> n, json |-> n, plain |-> TRUE, blank |-> n = 0]

\* n characters of two bytes each; n that JSON writes as six bytes each; n spaces.
Accented(n) == [chars |-> n, bytes |-> 2 * n, json |-> 2 * n, plain |-> FALSE, blank |-> FALSE]
Control(n) == [chars |-> n, bytes |-> n, json |-> 6 * n, plain |-> FALSE, blank |-> FALSE]
Spaces(n) == [chars |-> n, bytes |-> n, json |-> n, plain |-> FALSE, blank |-> TRUE]

MCIds == {Ascii(128), Ascii(129)}
MCNames == {Ascii(0), Ascii(1), Control(100), Ascii(101), Accented(60), Spaces(1)}
MCReasons == {Ascii(0), Ascii(100), Ascii(101)}
MCDomains == {Ascii(253), Ascii(254)}
MCKids == {Ascii(0), Ascii(64), Ascii(65)}

=============================================================================
