----------------------------- MODULE SiteClient -----------------------------
(***************************************************************************)
(* outbound/site_client.rs: one HTTPS request of the relay to a site, and    *)
(* the next one after it.  The resolver, the network and the site decide     *)
(* what happens at each await; tokio's timers bound all but the resolution.  *)
(*                                                                          *)
(* Bytes are counted, not spelled: a reply is its length, the length of its  *)
(* header, and what parse_http_response finds in it.                         *)
(***************************************************************************)
EXTENDS Integers, Sequences, FiniteSets

CONSTANTS
    AddressLists,    \* what the resolver may answer
    Replies,         \* what a site may send
    CONNECT_TIMEOUT, FIRST_BYTE_TIMEOUT, TOTAL_TIMEOUT,
    MaxBody,         \* MAX_METADATA_BYTES, MAX_SITE_RESPONSE_BYTES
    Headroom,        \* 1024
    Chunk,           \* 2048, the size of tmp
    FirstChunk,      \* what read_buf reads into an empty Vec, at most
    MaxCalls         \* bound: requests

ASSUME SizeAssumption ==
    /\ MaxBody \in Nat /\ Headroom \in Nat
    /\ Chunk \in Nat \ {0} /\ FirstChunk \in 1 .. Chunk

ASSUME TimerAssumption ==
    /\ CONNECT_TIMEOUT \in Nat /\ FIRST_BYTE_TIMEOUT \in Nat /\ TOTAL_TIMEOUT \in Nat
    /\ MaxCalls \in Nat

VARIABLES
    calls,           \* requests so far
    stage,           \* the await that the request is at
    kind,            \* fetch_metadata or post_json
    ips,             \* the answer of the resolver
    ip,              \* the address that was picked
    reply,           \* what the site sends on this connection
    buf,             \* how many bytes of it have been read
    total,           \* time since the outer timeout began (0 before)
    phase,           \* time since the timeout of this await began
    outcome          \* Ok, or why the result is Err

siteVars == <<calls, stage, kind, ips, ip, reply, buf, total, phase, outcome>>

-----------------------------------------------------------------------------
(* outbound/ssrf.rs *)

\* The ranges that the two tests name.
V4Blocked == {"unspecified", "loopback", "private", "link_local", "broadcast", "multicast",
              "documentation", "cgnat", "ietf", "benchmark"}
V6Blocked == {"unspecified", "loopback", "multicast", "unique_local", "link_local",
              "documentation"}

\* Reserved addresses (240.0.0.0/4 and the like) are in neither list.
NotListed == {"reserved", "other"}

\* mapped is an IPv6 address that stands for an IPv4 one.
Address == [family : {"v4", "mapped"}, range : V4Blocked \cup NotListed]
           \cup [family : {"v6"}, range : V6Blocked \cup NotListed]

ASSUME AddressAssumption == AddressLists \subseteq Seq(Address)

is_blocked_v4(range) == range \in V4Blocked

\* Mutant: an IPv4-mapped address is looked at as any other IPv6 address.
MappedAsV6(a) == a.family = "v6" /\ a.range \in V6Blocked

is_blocked_v6(a) ==
    IF a.family = "mapped" THEN is_blocked_v4(a.range) ELSE a.range \in V6Blocked

is_blocked_ip(a) == IF a.family = "v4" THEN is_blocked_v4(a.range) ELSE is_blocked_v6(a)

\* The first address that is not blocked, if there is one.
pick_public_address(resolved) ==
    {resolved[i] : i \in {j \in DOMAIN resolved :
        /\ ~is_blocked_ip(resolved[j])
        /\ \A k \in 1 .. j - 1 : is_blocked_ip(resolved[k])}}

-----------------------------------------------------------------------------
(* A reply: bytes in all, header bytes with the empty line (0: there is none), *)
(* the status (0: none can be parsed), a location header, and whether it is    *)
(* UTF-8 and the site closes the connection after it.                          *)

Reply == [bytes : Nat, header : Nat, status : Nat, location : BOOLEAN,
          utf8 : BOOLEAN, closes : BOOLEAN]

ASSUME ReplyAssumption == \A r \in Replies : r \in Reply /\ r.header <= r.bytes

NoReply == [bytes |-> 0, header |-> 0, status |-> 0, location |-> FALSE, utf8 |-> TRUE,
            closes |-> FALSE]

Body(r) == r.bytes - r.header

IsRedirect(r) == r.location \/ r.status \in 300 .. 399

BodyFits(n) == n <= MaxBody

\* Ok, or the test that fails first.
parse_http_response(r) ==
    CASE ~r.utf8 \/ r.header = 0 \/ r.status = 0 -> "malformed"
      [] IsRedirect(r) -> "redirect"
      [] ~BodyFits(Body(r)) -> "too_long"
      [] OTHER -> "ok"

\* What fetch_metadata, and deliver after post_json, make of the status.  What the
\* metadata says is LoginDocuments' part.
StatusAccepted(r) == IF kind = "metadata" THEN r.status = 200 ELSE r.status \in {200, 202}

-----------------------------------------------------------------------------
Waits == {"resolve", "connect", "tls", "write", "first_byte", "read"}

SiteTypeOK ==
    /\ calls \in 0 .. MaxCalls
    /\ stage \in Waits \cup {"idle"}
    /\ kind \in {"metadata", "post"}
    /\ ips \in AddressLists \cup {<<>>}
    /\ ip \subseteq Address
    /\ reply \in Replies \cup {NoReply}
    /\ buf \in Nat /\ phase \in Nat /\ total \in Nat
    /\ outcome \in {"none", "ok", "no_address", "io", "timeout", "too_long", "redirect",
                    "malformed", "status"}

SiteInit ==
    /\ calls = 0
    /\ stage = "idle"
    /\ kind = "metadata"
    /\ ips = <<>>
    /\ ip = {}
    /\ reply = NoReply
    /\ buf = 0 /\ total = 0 /\ phase = 0
    /\ outcome = "none"

End(o) == stage' = "idle" /\ outcome' = o

\* The next await, under a timer of its own.
Await(p) == stage' = p /\ phase' = 0 /\ UNCHANGED outcome

\* site_url accepts: the domain was validated with the registration, and the
\* path is a constant.  Every request resolves again.
Call(k) ==
    /\ stage = "idle"
    /\ calls < MaxCalls
    /\ calls' = calls + 1
    /\ kind' = k
    /\ stage' = "resolve"
    /\ ips' = <<>> /\ ip' = {}
    /\ buf' = 0 /\ total' = 0 /\ phase' = 0
    /\ outcome' = "none"
    /\ reply' = NoReply

Resolved(answer) ==
    /\ stage = "resolve"
    /\ ips' = answer
    /\ ip' = pick_public_address(answer)
    /\ IF ip' = {} \/ \E a \in ip' : is_blocked_ip(a)
       THEN End("no_address") /\ UNCHANGED phase
       ELSE Await("connect")
    /\ UNCHANGED <<calls, kind, reply, buf, total>>

\* The peer at the address accepts, and sends one of the replies later.
Connected(r) ==
    /\ stage = "connect"
    /\ reply' = r
    /\ Await("tls")
    /\ UNCHANGED <<calls, kind, ips, ip, buf, total>>

HandshakeDone ==
    /\ stage = "tls"
    /\ Await("write")
    /\ UNCHANGED <<calls, kind, ips, ip, reply, buf, total>>

Written ==
    /\ stage = "write"
    /\ Await("first_byte")
    /\ UNCHANGED <<calls, kind, ips, ip, reply, buf, total>>

Left == reply.bytes - buf

\* read_buf; an end of the stream (n = 0) is no error here.
FirstBytes(n) ==
    /\ stage = "first_byte"
    /\ n \in 0 .. FirstChunk
    /\ n <= Left
    /\ n = 0 => Left = 0 /\ reply.closes
    /\ buf' = buf + n
    /\ Await("read")
    /\ UNCHANGED <<calls, kind, ips, ip, reply, total>>

\* Mutant: the buffer is not looked at.
NeverTooLong == FALSE

BufferTooLong == buf > MaxBody + Headroom

ReadMore(n) ==
    /\ stage = "read"
    /\ ~BufferTooLong
    /\ n \in 1 .. Chunk
    /\ n <= Left
    /\ buf' = buf + n
    /\ UNCHANGED <<calls, stage, kind, ips, ip, reply, total, phase, outcome>>

RefuseLength ==
    /\ stage = "read"
    /\ BufferTooLong
    /\ End("too_long")
    /\ UNCHANGED <<calls, kind, ips, ip, reply, buf, total, phase>>

ReadEnd ==
    LET parsed == parse_http_response(reply) IN
    /\ stage = "read"
    /\ ~BufferTooLong
    /\ Left = 0 /\ reply.closes
    /\ End(IF parsed = "ok" /\ ~StatusAccepted(reply) THEN "status" ELSE parsed)
    /\ UNCHANGED <<calls, kind, ips, ip, reply, buf, total, phase>>

\* Mutant: a broken connection ends the body.
BrokenIsEnd ==
    /\ IF stage = "read"
       THEN End(parse_http_response([reply EXCEPT !.bytes = buf]))
       ELSE End("io")
    /\ UNCHANGED <<calls, kind, ips, ip, reply, buf, total, phase>>

\* What a read does when the connection breaks.
Broken == End("io") /\ UNCHANGED <<calls, kind, ips, ip, reply, buf, total, phase>>

\* An await fails: no answer to the name, no route, no handshake, a reset, an end
\* of the stream without close_notify.
Fails ==
    /\ stage \in Waits
    /\ stage = "read" => ~BufferTooLong
    /\ Broken

-----------------------------------------------------------------------------
(* Time *)

\* The timeout around the await itself; writing and reading on have none.
OwnTimer ==
    CASE stage \in {"connect", "tls"} -> {CONNECT_TIMEOUT}
      [] stage = "first_byte" -> {FIRST_BYTE_TIMEOUT}
      [] OTHER -> {}

\* Mutant: the outer timeout ends with the first byte.
TimedUntilFirstByte == stage \in Waits \ {"resolve", "read"}

\* Inside timeout(total_t, ...).
UnderTotalTimer == stage \in Waits \ {"resolve"}

TimerFires ==
    \/ \E t \in OwnTimer : phase >= t
    \/ UnderTotalTimer /\ total >= TOTAL_TIMEOUT

TimesOut ==
    /\ TimerFires
    /\ End("timeout")
    /\ UNCHANGED <<calls, kind, ips, ip, reply, buf, total, phase>>

\* Time passes while the request waits for the site; a resolution has no timer, and
\* its time is not counted.  A timer that is due fires first: the model leaves out
\* how late the runtime polls it.
Tick ==
    /\ stage \in Waits \ {"resolve"}
    /\ ~TimerFires
    /\ total <= TOTAL_TIMEOUT          \* bound
    /\ total' = total + 1
    /\ phase' = phase + 1
    /\ UNCHANGED <<calls, stage, kind, ips, ip, reply, buf, outcome>>

SiteNext ==
    \/ \E k \in {"metadata", "post"} : Call(k)
    \/ \E answer \in AddressLists : Resolved(answer)
    \/ \E r \in Replies : Connected(r)
    \/ HandshakeDone
    \/ Written
    \/ \E n \in 0 .. FirstChunk : FirstBytes(n)
    \/ \E n \in 1 .. Chunk : ReadMore(n)
    \/ RefuseLength
    \/ ReadEnd
    \/ Fails
    \/ TimesOut
    \/ Tick

SiteSpec == SiteInit /\ [][SiteNext]_siteVars

-----------------------------------------------------------------------------
(* Safety *)

\* A request is on the wire only to the address that was checked in its own
\* resolution, which is the first outside the ranges that ssrf.rs lists
\* (pinned_socket); it gives up for want of an address only if the whole answer is
\* inside them.  A reserved address is outside, other than
\* docs/web-login-relay-spec.md:365 has it.
OnlyCheckedAddress ==
    /\ stage \in Waits \ {"resolve"} =>
          \E i \in DOMAIN ips :
              /\ ip = {ips[i]}
              /\ ips[i].range \in NotListed
              /\ \A k \in 1 .. i - 1 : ips[k].range \notin NotListed
    /\ outcome = "no_address" => \A i \in DOMAIN ips : ips[i].range \notin NotListed

\* However much a site sends, and in whatever pieces, request holds at most one
\* chunk more than the limit, and refuses for its length only what is too long.
LengthBounded ==
    /\ buf <= MaxBody + Headroom + Chunk
    /\ outcome = "too_long" => reply.bytes > MaxBody + Headroom \/ Body(reply) > MaxBody

\* A response that fetch_metadata or deliver builds on is complete: the site sent
\* all of it and closed, it is no redirect, and its body keeps the limit.
AcceptedIsWhole ==
    outcome = "ok" =>
        /\ buf = reply.bytes /\ reply.closes
        /\ reply.header > 0 /\ Body(reply) <= MaxBody
        /\ ~IsRedirect(reply) /\ StatusAccepted(reply)

-----------------------------------------------------------------------------
(* Liveness *)

\* Time goes on, timers fire, a loop that may go on does, and getaddrinfo
\* returns; the site need do nothing.
SiteFairness ==
    /\ WF_siteVars(Tick)
    /\ WF_siteVars(TimesOut)
    /\ WF_siteVars(RefuseLength)
    /\ WF_siteVars(\E answer \in AddressLists : Resolved(answer))

SiteFairSpec == SiteSpec /\ SiteFairness

\* A request ends, even if the site accepts the connection and then stays silent,
\* or sends a byte now and then: registration and the delivery loop go on.
RequestEnds == stage # "idle" ~> stage = "idle"
=============================================================================
