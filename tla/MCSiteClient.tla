---------------------------- MODULE MCSiteClient ----------------------------
(* Instances of SiteClient for TLC. *)
EXTENDS SiteClient

A(family, range) == [family |-> family, range |-> range]

Outside == {A("v4", "other"), A("v6", "other"), A("mapped", "other"), A("v4", "reserved")}
Inside == {A("v4", "private"), A("mapped", "loopback"), A("v6", "unique_local")}

MCAddressLists ==
    {<<>>} \cup {<<a>> : a \in Inside \cup {A("v4", "other")}}
    \cup {<<a, b>> : a \in Inside, b \in Outside}
    \cup {<<A("v4", "other"), A("v4", "private"), A("v6", "other")>>}

R(bytes, header, status) ==
    [bytes |-> bytes, header |-> header, status |-> status, location |-> FALSE,
     utf8 |-> TRUE, closes |-> TRUE]

\* With MaxBody 3 and Headroom 2: at and around each limit.
MCReplies ==
    {R(0, 0, 0), R(2, 1, 202), R(3, 1, 200), R(3, 2, 500), R(5, 2, 200), R(5, 1, 200),
     R(6, 3, 200), R(9, 1, 200), [R(3, 1, 200) EXCEPT !.closes = FALSE],
     [R(9, 2, 200) EXCEPT !.closes = FALSE],
     R(2, 1, 302), [R(3, 2, 200) EXCEPT !.location = TRUE], [R(3, 2, 200) EXCEPT !.utf8 = FALSE]}

=============================================================================
