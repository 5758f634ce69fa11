------------------------------ MODULE HttpUrl ------------------------------
(***************************************************************************)
(* nbsdk::net::HttpUrl and its Builder (net/http/http_url.cc,              *)
(* net/include/http_url.h), used by one thread.                            *)
(*                                                                         *)
(* What is put into a Builder is encoded already, so that a name or a      *)
(* segment is a token; encoding and decoding are still to be written.      *)
(***************************************************************************)
EXTENDS Text, FiniteSets

CONSTANTS
  Schemes,      \* what Scheme is called with
  Hosts,        \* ... Host
  Ports,        \* ... Port, and the numbers in URLs
  Segments,     \* ... AddEncodedPathSegment and SetEncodedPathSegment
  Paths,        \* ... AddEncodedPathSegments
  Names,        \* ... AddEncodedQueryParameter,
  Values,       \*     and with which value
  Fragments,    \* ... AddEncodedFragment
  Urls,         \* ... Parse and HttpUrl
  Blanks,       \* the blanks in URLs, in the order they are trimmed
  MaxSegments   \* bounds the segments that are added

(* What URLs are made of are strings.                                      *)
ASSUME UrlAssumption ==
  /\ Hosts \cup Segments \cup Paths \cup Names \cup Values \cup Fragments
       \cup Urls \subseteq Seq(STRING)
  /\ Blanks \in Seq(STRING \ {"http", "https"})
  /\ {80, 443} \subseteq Ports /\ Ports \subseteq Int
  /\ MaxSegments \in Nat

(* Numbers are told apart by their digits, and from delimiters.            *)
ASSUME DigitsAssumption ==
  \A m, n \in Ports \cup {0} :
    /\ ToString(n) \in STRING \ {":", "/", "?", "#"}
    /\ ToString(m) = ToString(n) => m = n

VARIABLE builder   \* the fields of a Builder

-----------------------------------------------------------------------------
Fresh ==
  [scheme |-> <<>>, host |-> <<>>, port |-> -1, segments |-> <<>>,
   query |-> [n \in Names |-> {}], fragment |-> <<>>]

DefaultPort(scheme) ==
  CASE scheme = <<"http">> -> 80
    [] scheme = <<"https">> -> 443
    [] OTHER -> -1

(* The names in the map; a name that is not has no values here.            *)
Named(b) == {n \in Names : b.query[n] # {}}

-----------------------------------------------------------------------------
(* The functions of the Builder, from the fields it had to those it has.   *)

Dot == <<".">>

DotDot == <<"..">>

(* Mutant: the scheme is taken as it is.                                   *)
SchemeUnchecked(b, scheme) == [b EXCEPT !.scheme = scheme]

Scheme(b, scheme) ==
  [b EXCEPT !.scheme = IF scheme = <<"https">> THEN scheme ELSE <<"http">>]

(* transform writes the name behind the end of a host_ that has just been  *)
(* cleared: as long as the name fits into the memory of the string, it is  *)
(* overwritten later, and host_ stays empty.                               *)
Host(b, host) == IF host = <<>> THEN b ELSE [b EXCEPT !.host = <<>>]

MaxPort == 65535

Port(b, port) == [b EXCEPT !.port = IF port \in 1 .. MaxPort THEN port ELSE -1]

Pop(segments) == IF segments = <<>> THEN segments ELSE Front(segments)

(* Mutant: only a single dot is looked for.                                *)
PushDotted(segments, segment) ==
  IF segment \in {<<>>, Dot} THEN segments ELSE Append(segments, segment)

Push(segments, segment) ==
  CASE segment \in {<<>>, Dot} -> segments
    [] segment = DotDot -> Pop(segments)
    [] OTHER -> Append(segments, segment)

AddEncodedPathSegments(b, path) ==
  [b EXCEPT !.segments = FoldLeft(Push, @, Pieces(path, "/"))]

SetEncodedPathSegment(b, index, segment) ==
  IF segment \in {<<>>, Dot, DotDot} \/ index \notin DOMAIN b.segments THEN b
  ELSE [b EXCEPT !.segments[index] = segment]

RemovePathSegment(b, index) ==
  IF index \notin DOMAIN b.segments THEN b
  ELSE [b EXCEPT !.segments = RemoveAt(@, index)]

(* A name that is empty is refused.                                        *)
AddEncodedQueryParameter(b, name, value) ==
  IF name = <<>> THEN b ELSE [b EXCEPT !.query[name] = @ \cup {value}]

RemoveValue(b, name, value) == [b EXCEPT !.query[name] = @ \ {value}]

RemoveName(b, name) == [b EXCEPT !.query[name] = {}]

AddEncodedFragment(b, fragment) ==
  IF fragment = <<>> THEN b ELSE [b EXCEPT !.fragment = fragment]

-----------------------------------------------------------------------------
(* From a Builder to a URL.                                                *)

(* The tokens of a number.                                                 *)
Digits(n) == <<ToString(n)>>

(* A map and a set are written in their order, which nobody depends on.    *)
Parameters(b) ==
  SetToSeq(UNION {{n \o <<"=">> \o v : v \in b.query[n]} : n \in Names})

(* Mutant: there is no separator between two values of one name.           *)
QueryTextRunOn(b) ==
  LET Of(n) == n \o <<"=">> \o FlattenSeq(SetToSeq(b.query[n]))
      names == SetToSeq(Named(b))
  IN Tail(Joined([i \in DOMAIN names |-> Of(names[i])], <<"&">>))

QueryText(b) == Tail(Joined(Parameters(b), <<"&">>))

ToText(b) ==
  LET port == IF b.port = -1 THEN DefaultPort(b.scheme) ELSE b.port
      host == IF Contains(b.host, ":") THEN <<"[">> \o b.host \o <<"]">>
              ELSE b.host
  IN b.scheme \o <<":", "/", "/">> \o host \o <<":">> \o Digits(port)
     \o Joined(b.segments, <<"/">>)
     \o (IF Named(b) = {} THEN <<>> ELSE <<"?">> \o QueryText(b))
     \o (IF b.fragment = <<>> THEN <<>> ELSE <<"#">> \o b.fragment)

(* An HttpUrl: a copy of the fields, and the text.                         *)
Build(b) == [b |-> b, text |-> ToText(b)]

(* Where host and path end: at the first "?", or without one at the first  *)
(* "#".                                                                    *)
HostPathEnd(text) ==
  CASE First(text, "?") # 0 -> First(text, "?")
    [] First(text, "?") = 0 /\ First(text, "#") # 0 -> First(text, "#")
    [] OTHER -> Len(text) + 1

QueryEnd(text) ==
  IF Contains(text, "#") THEN First(text, "#") ELSE Len(text) + 1

PathStart(u) == FirstFrom(u.text, "/", Len(u.b.scheme) + 4)

(* Mutant: the search for the path begins at the start of the URL.         *)
EncodedPathEarly(u) ==
  Substr(u.text, First(u.text, "/"), HostPathEnd(u.text))

(* One is taken off for an empty segment.                                  *)
PathSize(u) == Len(u.b.segments) - 1

(* substr throws if there is no "/" behind the "//".                       *)
EncodedPath(u) == Substr(u.text, PathStart(u), HostPathEnd(u.text))

EncodedQuery(u) ==
  IF Contains(u.text, "?")
  THEN Substr(u.text, First(u.text, "?") + 1, QueryEnd(u.text))
  ELSE <<>>

-----------------------------------------------------------------------------
(* From a URL to a Builder.                                                *)

Lower(token) ==
  CASE token = "HTTP" -> "http" [] token = "HTTPS" -> "https" [] OTHER -> token

(* url.size() <= 7, in characters: names have one.                         *)
Width(token) ==
  CASE Lower(token) = "http" -> 4 [] Lower(token) = "https" -> 5 [] OTHER -> 1

TooShort(text) == FoldLeft(LAMBDA n, c : n + Width(c), 0, text) <= 7

Trimmed(text) ==
  FoldLeft(TrimRight, FoldLeft(TrimLeft, text, Blanks), Blanks)

(* atoi: 0 unless the text begins with a number.                           *)
Number(text) ==
  IF \E n \in Ports : <<text[1]>> = Digits(n)
  THEN CHOOSE n \in Ports : <<text[1]>> = Digits(n)
  ELSE 0

(* Host, port and path.  Without a "/" the path is all of hostPath.        *)
WithHost(b, hostPath) ==
  LET colon == First(hostPath, ":")
      slash == First(hostPath, "/")
      port == Substr(hostPath, colon + 1,
                     IF slash = 0 THEN Len(hostPath) + 1 ELSE slash)
      host == IF colon = 0 THEN UpTo(hostPath, "/") ELSE UpTo(hostPath, ":")
  IN AddEncodedPathSegments(
       [b EXCEPT !.host = host,
                 !.port = IF colon = 0 \/ port = <<>> THEN DefaultPort(b.scheme)
                          ELSE Number(port)],
       After(hostPath, "/"))

(* A parameter without "=" has an empty value.                             *)
WithParameter(b, parameter) ==
  AddEncodedQueryParameter(
    b, UpTo(parameter, "="),
    IF Contains(parameter, "=") THEN After(parameter, "=") ELSE <<>>)

WithQuery(b, text) ==
  IF ~Contains(text, "?") THEN b
  ELSE FoldLeft(WithParameter, b,
         Pieces(Substr(text, First(text, "?") + 1, QueryEnd(text)), "&"))

WithFragment(b, text) ==
  IF ~Contains(text, "#") THEN b ELSE AddEncodedFragment(b, After(text, "#"))

Outcome(answer, b) == [answer |-> answer, b |-> b]

(* Parse leaves the Builder alone if the text is too short, and otherwise  *)
(* clears it first.  The three characters behind the scheme are skipped,   *)
(* whatever they are (no number in Urls is among them); substr throws if   *)
(* there are less than three.                                              *)
Parse(b, text) ==
  LET trimmed == Trimmed(text)
      scheme == IF trimmed = <<>> THEN <<>>
                ELSE UpTo([trimmed EXCEPT ![1] = Lower(@)], ":")
      with == [Fresh EXCEPT !.scheme = scheme]
      hostPath == Substr(trimmed, 5, HostPathEnd(trimmed))
  IN CASE TooShort(text) -> Outcome("false", b)
       [] ~TooShort(text) /\ scheme \notin {<<"http">>, <<"https">>} ->
            Outcome("false", Fresh)
       [] OTHER ->
            CASE Len(trimmed) < 4 -> Outcome("throws", with)
              [] Len(trimmed) >= 4 /\ hostPath = <<>> -> Outcome("false", with)
              [] OTHER ->
                   Outcome("true",
                     WithFragment(WithQuery(WithHost(with, hostPath), trimmed),
                                  trimmed))

-----------------------------------------------------------------------------
UrlInit == builder = Fresh

Appends(b) ==
  \/ \E segment \in Segments : builder' = [b EXCEPT !.segments = Push(@, segment)]
  \/ \E path \in Paths : builder' = AddEncodedPathSegments(b, path)

UrlNext ==
  \/ \E scheme \in Schemes : builder' = Scheme(builder, scheme)
  \/ \E host \in Hosts : builder' = Host(builder, host)
  \/ \E port \in Ports : builder' = Port(builder, port)
  \/ Appends(builder) /\ Len(builder'.segments) <= MaxSegments
  \/ \E index \in 0 .. MaxSegments + 1 :
       \/ builder' = RemovePathSegment(builder, index)
       \/ \E segment \in Segments :
            builder' = SetEncodedPathSegment(builder, index, segment)
  \/ \E name \in Names :
       \/ builder' = RemoveName(builder, name)
       \/ \E value \in Values :
            \/ builder' = AddEncodedQueryParameter(builder, name, value)
            \/ builder' = RemoveValue(builder, name, value)
  \/ \E fragment \in Fragments : builder' = AddEncodedFragment(builder, fragment)
  \/ \E text \in Urls : builder' = Parse(builder, text).b

UrlSpec == UrlInit /\ [][UrlNext]_builder

-----------------------------------------------------------------------------
(* Properties.                                                             *)

(* The fields keep their types; a port has that of an int, which Port      *)
(* keeps in range and Parse does not (PortInRange).                        *)
UrlTypeOK ==
  /\ builder.scheme \in {<<>>, <<"http">>, <<"https">>}
  /\ builder.port \in Ports \cup {-1, 0, 80, 443}
  /\ DOMAIN builder.query = Names

(* However segments are added, replaced, removed or parsed, none is empty, *)
(* "." or "..": the path is in its normal form.  (An empty one at the end, *)
(* which the comments on Pop and PathSize tell of, would contradict it:    *)
(* PathSizeCounts.)                                                        *)
SegmentsNormal ==
  \A i \in DOMAIN builder.segments :
    builder.segments[i] \notin {<<>>, Dot, DotDot}

(* What a URL can be taken apart into again: a path, no delimiters in      *)
(* host and segments, none but "?" and "=" in the query, no "=" in its     *)
(* names, and no "?" in the fragment unless there is a query.  Encoding    *)
(* would see to the delimiters; Parse, after a "#" in front of the "?",    *)
(* does not.                                                               *)
Readable(b) ==
  /\ b.scheme # <<>>
  /\ b.host # <<>>
  /\ b.segments # <<>>
  /\ \A text \in {b.host} \cup ToSet(b.segments) :
       ToSet(text) \cap {":", "/", "?", "#"} = {}
  /\ \A name \in Named(b) :
       /\ ToSet(name) \cap {"=", "&", "#"} = {}
       /\ \A value \in b.query[name] : ToSet(value) \cap {"&", "#"} = {}
  /\ Contains(b.fragment, "?") => Named(b) # {}

WithPort(b) ==
  [b EXCEPT !.port = IF @ = -1 THEN DefaultPort(b.scheme) ELSE @]

(* ToString and Parse are inverse to each other, if there is no blank at   *)
(* the end to be trimmed.  The port comes back as the one that was meant.  *)
RoundTrip ==
  Readable(builder) /\ Last(ToText(builder)) \notin ToSet(Blanks) =>
    Parse(Fresh, ToText(builder)) = Outcome("true", WithPort(builder))

(* What an HttpUrl answers for its path and query is what it was built     *)
(* from.                                                                   *)
GettersAgree ==
  Readable(builder) =>
    /\ EncodedPath(Build(builder)) = Joined(builder.segments, <<"/">>)
    /\ Pieces(EncodedQuery(Build(builder)), "&") =
         (IF Named(builder) = {} THEN <<>> ELSE Parameters(builder))

-----------------------------------------------------------------------------
(* What comments in the code say of it, and the code does not do.          *)

(* The port of an HttpUrl is "in range [1..65535]" (http_url.h:157): also  *)
(* that of one made from a text that Parse accepts.                        *)
PortInRange ==
  [][\A text \in Urls :
       /\ builder' = Parse(builder, text).b
       /\ Parse(builder, text).answer = "true"
       => Build(builder').b.port \in 1 .. MaxPort]_builder

(* The segments "always contain" an empty one (http_url.cc:440; so do the  *)
(* examples for Pop, lines 77 to 81), which PathSize takes off: it counts  *)
(* the segments that are not empty.                                        *)
PathSizeCounts ==
  builder.segments # <<>> =>
    PathSize(Build(builder)) =
      Len(SelectSeq(builder.segments, LAMBDA segment : segment # <<>>))

Ending(text, delimiters) ==
  LET i == SelectInSubSeq(text, 5, Len(text), LAMBDA c : c \in delimiters)
  IN IF i = 0 THEN Len(text) + 1 ELSE i

HostPart(text) == SubSeq(text, 5, Ending(text, {"/", "?", "#"}) - 1)

PathPart(text) ==
  SubSeq(text, Ending(text, {"/", "?", "#"}), Ending(text, {"?", "#"}) - 1)

(* A URL that Parse accepts has its parts where the diagram in http_url.h, *)
(* lines 17 to 22, puts them: the host, with its port, ends before the     *)
(* path, and the path is what lies between it and the query.               *)
FollowsDiagram ==
  [][\A text \in Urls :
       /\ builder' = Parse(builder, text).b
       /\ Parse(builder, text).answer = "true"
       => /\ builder'.host = UpTo(HostPart(Trimmed(text)), ":")
          /\ builder'.segments =
               FoldLeft(Push, <<>>, Pieces(PathPart(Trimmed(text)), "/"))
    ]_builder

=============================================================================
