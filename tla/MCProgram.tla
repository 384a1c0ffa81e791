----------------------------- MODULE MCProgram ------------------------------
(***************************************************************************)
(* The instance of Program for TLC: lines of up to three options, sizes    *)
(* around every unit, bodies around the limit of a sample.                 *)
(***************************************************************************)
EXTENDS Program

Option(name, value) == [name |-> name, colon |-> FALSE, key |-> "", value |-> value]
Colon(name, key, value) == [name |-> name, colon |-> TRUE, key |-> key, value |-> value]

\* Options that may be repeated: bodies, and headers that compete with each other
\* and with what other options derive.
Repeatable == {
  Option("data", "a=1"), Option("data-raw", ""), Option("data-urlencode", "b"),
  Colon("header", "accept-encoding", "br"), Colon("header", "Accept-Encoding", "gzip"),
  Colon("header", "content-type", "json"), Colon("header", "authorization", "Bearer x"),
  Colon("header", "user-agent", "me"), Colon("header", "", "x"),
  Option("header", "no colon")}

Single == {
  Colon("user", "joe", "joe:pass"), Colon("user", "", ":pass"), Option("user", "joe"),
  Option("request", "PUT"), Colon("url", "HTTPS", "HTTPS://host"), Option("url", "host"),
  Option("arg", "other"), Option("output", "nul"), Option("output", "file"),
  Option("compressed", "true"), Option("no-keepalive", "true"),
  Option("http2", "true"), Option("http3", "true"),
  Option("head", "true"), Option("fast", "true"), Option("2.0", "true"),
  Option("cookie", "c=1"), Option("cookie", ""), Option("get", "true")}

Accepted(l) ==
  \A p, q \in DOMAIN l : p # q /\ l[p].name = l[q].name => l[p] \in Repeatable

MCLines ==
  {l \in UNION {[1 .. k -> Repeatable \cup Single] : k \in 1 .. 3} : Accepted(l)}

\* Every size around a power of the unit, and a sample of those between.
MCByteCounts ==
  (0 .. 700) \cup UNION {{KILOBYTE ^ k + d, (KILOBYTE ^ k \div 20) * (20 + d)} :
                            k \in 1 .. 6, d \in -1 .. 6}

MCBodies == UNION {[1 .. k -> 0 .. 3] : k \in 0 .. 5}
=============================================================================
