---------------------------- MODULE CurlCommand -----------------------------
(***************************************************************************)
(* curl.AddCommand: what becomes of a command line in the style of curl.   *)
(* A line is the sequence of its options; an option has a name, a value    *)
(* ("true" for a switch) and, if there is a colon in the value, as its key *)
(* what precedes that: the name of a header, the user without the          *)
(* password, the scheme of a URL.  The value of a header with a colon is   *)
(* what follows.  The argument of the command is an option with the name   *)
(* "arg".                                                                  *)
(***************************************************************************)
EXTENDS Integers, SequencesExt, TLC

Options == [name : STRING, colon : BOOLEAN, key : STRING, value : STRING]

\* Options of the help text, by whether they have an argument there.  The last
\* of each set stands for the options that plt knows and has no use for.
WithArgument == {"header", "data", "data-raw", "data-ascii", "data-binary",
                 "data-urlencode", "url", "request", "user", "output", "cookie"}
WithoutArgument == {"compressed", "no-keepalive", "http2", "head", "get"}

captureStrings ==
  [o \in {"data", "data-raw", "data-ascii", "data-binary", "data-urlencode"} |-> "data"]
    @@ ("header" :> "header")
captureString == {"url", "request", "user", "output"}
captureBool == {"compressed", "no-keepalive", "http2", "head"}

\* The variable an option is bound to.  The command declares --fast and --http3,
\* --2.0 which is accepted since Firefox writes it, and the argument.
Target(o) ==
  CASE o \in {"fast", "http3"} -> o
    [] o = "arg" -> "url"
    [] o = "2.0" -> "none"
    [] o \in WithArgument /\ o \in DOMAIN captureStrings -> captureStrings[o]
    [] o \in WithArgument /\ o \in captureString -> o
    [] o \in WithoutArgument /\ o \in captureBool -> o
    [] OTHER -> "ignored"

\* The options of a line that are bound to a variable, in their order.
Bound(line, var) == SelectSeq(line, LAMBDA o : Target(o.name) = var)
Given(line, var) == Bound(line, var) # <<>>

\* kingpin refuses a second value of one option, but sets a variable as often as
\* options are bound to it: the URL twice for --url and the argument.
Chosen(line, var) == Last(Bound(line, var))
Value(line, var) == IF Given(line, var) THEN Chosen(line, var).value ELSE ""

-----------------------------------------------------------------------------
(* The action of the command.                                              *)

\* Flags without an effect, and a user without a colon, are errors.
Refused(line) ==
  \/ \E o \in Range(Bound(line, "ignored")) : o.value # ""
  \/ Value(line, "user") # "" /\ ~Chosen(line, "user").colon

Join(body, o) == body \o "&" \o o.value

Body(line) ==
  LET data == Bound(line, "data") IN
  IF data = <<>> THEN "" ELSE FoldLeft(Join, data[1].value, Tail(data))

\* Faulty variant of Method: a body decides before --request is looked at.
MethodByBody(line) ==
  CASE Given(line, "head") -> "HEAD"
    [] Body(line) # "" -> "POST"
    [] OTHER -> Value(line, "request")

Method(line) ==
  CASE Given(line, "head") -> "HEAD"
    [] Body(line) # "" /\ Value(line, "request") = "" -> "POST"
    [] OTHER -> Value(line, "request")

\* http.CanonicalHeaderKey, for the headers that have a role of their own.
Canonical(key) ==
  CASE key = "accept-encoding" -> "Accept-Encoding"
    [] key = "authorization" -> "Authorization"
    [] key = "content-type" -> "Content-Type"
    [] key = "user-agent" -> "User-Agent"
    [] OTHER -> key

\* A map with one more entry, or another one, and with one only if there is none.
Assign(map, key, value) ==
  [k \in DOMAIN map \cup {key} |-> IF k = key THEN value ELSE map[k]]

Default(map, key, value) ==
  IF key \in DOMAIN map THEN map ELSE Assign(map, key, value)

\* Headers that follow from other options.
Derived(line) ==
  LET user == Value(line, "user")
      headers == IF user = "" THEN <<>>
                 ELSE Assign(<<>>, "Authorization", "Basic " \o user)
  IN  IF Body(line) = "" THEN headers
      ELSE Assign(headers, "Content-Type", "application/x-www-form-urlencoded")

\* A header with a colon, also one with an empty name, and not another option.
IsHeader(o) == Target(o.name) = "header" /\ o.colon

\* Faulty variant of Put: what is there is kept.
PutNew(headers, o) ==
  IF IsHeader(o) THEN Default(headers, Canonical(o.key), o.value) ELSE headers

\* An assignment to the map; a header without a colon is skipped.
Put(headers, o) ==
  IF IsHeader(o) THEN Assign(headers, Canonical(o.key), o.value) ELSE headers

HeaderMap(line) ==
  LET headers == FoldLeft(Put, Derived(line), line) IN
  IF Given(line, "compressed") THEN Default(headers, "Accept-Encoding", "gzip, deflate")
                               ELSE headers

URL(line) ==
  IF Given(line, "url") /\ Chosen(line, "url").key \in {"http", "https", "HTTPS"}
    THEN Value(line, "url") ELSE "http://" \o Value(line, "url")

\* The flags that run receives.
Flags(line) ==
  [URL |-> URL(line), Method |-> Method(line), Body |-> Body(line),
   HeaderMap |-> HeaderMap(line), Fast |-> Given(line, "fast"),
   HTTP2 |-> Given(line, "http2"), HTTP3 |-> Given(line, "http3"),
   NoKeepalive |-> Given(line, "no-keepalive"),
   IgnoreResponseBody |->
     Given(line, "no-keepalive") /\ Value(line, "output") \in {"/dev/null", "nul"}]

\* The headers of every request: both producers name the program when the user
\* did not.
Sent(line) == Default(HeaderMap(line), "User-Agent", "plt")

\* Faulty variant of Transport: nobody reads one of the flags.
TransportNoHTTP3(f) ==
  CASE f.Fast -> "fasthttp"
    [] f.HTTP2 -> "HTTP/2"
    [] OTHER -> "HTTP/1"

\* The producer that run chooses, and the transport that the net/http one chooses.
Transport(f) ==
  CASE f.Fast -> "fasthttp"
    [] f.HTTP2 -> "HTTP/2"
    [] f.HTTP3 -> "HTTP/3"
    [] OTHER -> "HTTP/1"

\* What that producer reads of the flags: the request, and only if it is the
\* net/http one, what becomes of connections and of the bodies of responses.
Used(line) ==
  LET f == Flags(line) IN
  [URL |-> f.URL, Method |-> f.Method, Body |-> f.Body, Headers |-> Sent(line),
   Transport |-> Transport(f),
   NoKeepalive |-> f.NoKeepalive /\ ~f.Fast,
   IgnoreResponseBody |-> f.IgnoreResponseBody /\ ~f.Fast]

-----------------------------------------------------------------------------
(* Properties of the translation of one line.                              *)

\* An option that says nothing: an empty value, a header without a colon.
Empty(o) == o.value = "" \/ (Target(o.name) = "header" /\ ~IsHeader(o))

\* What o says is said by p instead, whatever the order in which they are given
\* unless p has to be the later one.
Overrides(p, o, later) ==
  LET t == Target(p.name) u == Target(o.name)
      Names(key) == IsHeader(p) /\ Canonical(p.key) = key
  IN
  \/ t = "head" /\ u = "request"
  \/ Names("Authorization") /\ u = "user"
  \/ Names("Accept-Encoding") /\ u = "compressed"
  \/ IsHeader(o) /\ Names(Canonical(o.key)) /\ (later \/ p.value = o.value)
  \/ t = "url" /\ u = "url" /\ later
  \/ t = "fast" /\ u \in {"http2", "http3", "no-keepalive"}
  \/ t = "http2" /\ u = "http3"

\* No option is lost: without it the producer would do something else, or the line
\* would be refused for it.  The exceptions are an option that says nothing or is
\* overridden by another one, --2.0, and the --output of responses that are read
\* anyway.
NothingLost(line) ==
  ~Refused(line) => \A p \in DOMAIN line :
    \/ Used(RemoveAt(line, p)) # Used(line)
    \/ Empty(line[p])
    \/ Target(line[p].name) = "none"
    \/ Target(line[p].name) = "output" /\ ~Used(line).IgnoreResponseBody
    \/ \E q \in DOMAIN line \ {p} : Overrides(line[q], line[p], q > p)

\* A header that the user gives is the header that is sent: the last one with
\* its name, whatever other options would put there.
UserHeadersWin(line) ==
  \A p \in DOMAIN line :
    LET o == line[p]
        repeated == \E q \in DOMAIN line :
          q > p /\ IsHeader(line[q]) /\ Canonical(line[q].key) = Canonical(o.key)
    IN  IsHeader(o) /\ ~repeated =>
          /\ Canonical(o.key) \in DOMAIN Sent(line)
          /\ Sent(line)[Canonical(o.key)] = o.value

\* A body is sent with a method and a type, and never with a method other than the
\* one the user asked for.
BodyIsSent(line) ==
  Body(line) # "" =>
    /\ "Content-Type" \in DOMAIN Sent(line)
    /\ Method(line) # ""
    /\ Value(line, "request") # "" /\ ~Given(line, "head")
         => Method(line) = Value(line, "request")
=============================================================================
