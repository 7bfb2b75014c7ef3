-------------------------------- MODULE Codec --------------------------------
(***************************************************************************)
(* The wire format of tls/core/src/msgs: Reader and the Codec trait        *)
(* (codec.rs), the payloads (base.rs) and the enums (macros.rs).           *)
(*                                                                         *)
(* A type that implements Codec is a grammar: a record that says how its   *)
(* fields follow each other.  Encode and Read interpret it as the code of  *)
(* `encode' and `read' does, over sequences of bytes.                      *)
(***************************************************************************)
EXTENDS Naturals, Sequences, SequencesExt

-----------------------------------------------------------------------------
(* Grammars *)

U(n) == [g |-> "uint", n |-> n]                      \* big endian integer of n bytes
Fixed(n) == [g |-> "fixed", n |-> n]                 \* n bytes
Rest == [g |-> "rest"]                               \* Payload: all that is left
Bytes(n) == [g |-> "bytes", n |-> n, max |-> 1000]   \* PayloadU8, PayloadU16, PayloadU24
UpTo(max) == [g |-> "bytes", n |-> 1, max |-> max]   \* SessionID
Name(n) == [g |-> "name", n |-> n]                   \* PayloadU16 that has to be a DnsName
Vec(n, item) == [g |-> "vec", n |-> n, item |-> item, min |-> 0, max |-> 1000]
NonEmpty(vec) == [vec EXCEPT !.min = 1]
Limited(vec, max) == [vec EXCEPT !.max = max]        \* read_vec_u24_limited
Struct(fields) == [g |-> "struct", fields |-> fields]
Const(bytes) == [g |-> "const", bytes |-> bytes]     \* written as it is, and required
\* A type and what it says of the rest; types without a case have a Payload
Typed(n, cases) == [g |-> "typed", n |-> n, cases |-> cases]
\* The same with a length in between, which the body has to fill
Tagged(n, len, cases) == [g |-> "tagged", n |-> n, len |-> len, cases |-> cases]
\* One of two grammars, by the bytes after the first `at' ones
Switch(at, key, then, else) ==
  [g |-> "switch", at |-> at, key |-> key, then |-> then, else |-> else]
Never == [g |-> "never"]

Case(g, tag) == IF tag \in DOMAIN g.cases THEN g.cases[tag] ELSE Rest

-----------------------------------------------------------------------------
(* Bytes *)

Be(n, v) == [i \in 1..n |-> (v \div 256^(n - i)) % 256]
RECURSIVE Num(_)
Num(bytes) == IF bytes = <<>> THEN 0 ELSE Num(Front(bytes)) * 256 + Last(bytes)
Take(bytes, n) == SubSeq(bytes, 1, n)
Drop(bytes, n) == SubSeq(bytes, n + 1, Len(bytes))

\* DnsNameRef.try_from_ascii of webpki, as far as the characters of a label go
IsDnsName(bytes) ==
  /\ bytes # <<>>
  /\ Range(bytes) \subseteq (48..57 \cup 65..90 \cup 97..122 \cup {45, 46, 95})

Fail == [ok |-> FALSE, v |-> <<>>, rest |-> <<>>]
Done(v, rest) == [ok |-> TRUE, v |-> v, rest |-> rest]

-----------------------------------------------------------------------------
RECURSIVE Encode(_, _)
Encode(g, v) ==
  LET prefixed(n, body) == Be(n, Len(body)) \o body
  IN  CASE g.g = "uint" -> Be(g.n, v)
        [] g.g \in {"fixed", "rest"} -> v
        [] g.g \in {"bytes", "name"} -> prefixed(g.n, v)
        [] g.g = "vec" -> prefixed(g.n, FlattenSeq([i \in DOMAIN v |-> Encode(g.item, v[i])]))
        [] g.g = "struct" -> FlattenSeq([i \in DOMAIN v |-> Encode(g.fields[i], v[i])])
        [] g.g = "const" -> g.bytes
        [] g.g = "typed" -> Be(g.n, v.tag) \o Encode(Case(g, v.tag), v.body)
        [] g.g = "tagged" -> Be(g.n, v.tag) \o prefixed(g.len, Encode(Case(g, v.tag), v.body))
        [] g.g = "switch" -> Encode(IF v.key THEN g.then ELSE g.else, v.body)

RECURSIVE Read(_, _), ReadAll(_, _), ReadFields(_, _)

\* The loop over a sub-reader: items until nothing is left
ReadAll(item, b) ==
  IF b = <<>> THEN Done(<<>>, <<>>)
  ELSE LET first == Read(item, b)
           others == ReadAll(item, first.rest)
       IN  IF first.ok /\ others.ok THEN Done(<<first.v>> \o others.v, <<>>) ELSE Fail

ReadFields(fields, b) ==
  IF fields = <<>> THEN Done(<<>>, b)
  ELSE LET first == Read(Head(fields), b)
           others == ReadFields(Tail(fields), first.rest)
       IN  IF first.ok /\ others.ok THEN Done(<<first.v>> \o others.v, others.rest) ELSE Fail

\* Mutant: a length that takes all that is left is refused
Sub_Short(n, b) ==
  LET len == Num(Take(b, n))
  IN  IF Len(b) < n \/ Len(b) <= n + len THEN Fail
      ELSE Done(SubSeq(b, n + 1, n + len), Drop(b, n + len))

\* Reader.sub: a length of n bytes and that much of the input
Sub(n, b) ==
  LET len == Num(Take(b, n))
  IN  IF Len(b) < n \/ Len(b) < n + len THEN Fail
      ELSE Done(SubSeq(b, n + 1, n + len), Drop(b, n + len))

Read(g, b) ==
  CASE g.g = "uint" -> IF Len(b) < g.n THEN Fail ELSE Done(Num(Take(b, g.n)), Drop(b, g.n))
    [] g.g = "fixed" -> IF Len(b) < g.n THEN Fail ELSE Done(Take(b, g.n), Drop(b, g.n))
    [] g.g = "rest" -> Done(b, <<>>)
    [] g.g = "const" -> IF IsPrefix(g.bytes, b)
                        THEN Done(g.bytes, Drop(b, Len(g.bytes))) ELSE Fail
    [] g.g = "bytes" -> LET s == Sub(g.n, b) IN IF s.ok /\ Len(s.v) <= g.max THEN s ELSE Fail
    [] g.g = "name" -> LET s == Sub(g.n, b) IN IF s.ok /\ IsDnsName(s.v) THEN s ELSE Fail
    [] g.g = "vec" ->
         LET s == Sub(g.n, b)
             items == ReadAll(g.item, s.v)
         IN  IF s.ok /\ Len(s.v) <= g.max /\ items.ok /\ Len(items.v) >= g.min
             THEN Done(items.v, s.rest) ELSE Fail
    [] g.g = "struct" -> ReadFields(g.fields, b)
    [] g.g = "typed" ->
         LET tag == Read(U(g.n), b)
             body == Read(Case(g, tag.v), tag.rest)
         IN  IF tag.ok /\ body.ok THEN Done([tag |-> tag.v, body |-> body.v], body.rest) ELSE Fail
    [] g.g = "tagged" ->
         LET tag == Read(U(g.n), b)
             s == Sub(g.len, tag.rest)
             body == Read(Case(g, tag.v), s.v)
         IN  IF tag.ok /\ s.ok /\ body.ok /\ body.rest = <<>>
             THEN Done([tag |-> tag.v, body |-> body.v], s.rest) ELSE Fail
    [] g.g = "switch" ->
         LET key == Len(b) >= g.at /\ IsPrefix(g.key, Drop(b, g.at))
             body == Read(IF key THEN g.then ELSE g.else, b)
         IN  IF body.ok THEN Done([key |-> key, body |-> body.v], body.rest) ELSE Fail
    [] g.g = "never" -> Fail
=============================================================================
