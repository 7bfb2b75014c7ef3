--------------------------- MODULE MCMessagePipe ---------------------------
(* Plans for MessagePipe: each kind of message with one part of it varied *)
EXTENDS MessagePipe

RECURSIVE Samples(_)
\* Some values of a grammar: empty and not, known and unknown tags, one field varied at a time
Samples(g) ==
  CASE g.g = "uint" -> {256^g.n - 1, 3}
    [] g.g = "fixed" -> {[i \in 1..g.n |-> 7]}
    [] g.g = "const" -> {g.bytes}
    [] g.g \in {"rest", "bytes"} -> {<<>>, <<9>>}
    [] g.g = "name" -> {<<97>>}
    [] g.g = "vec" ->
         LET some == Samples(g.item)
             one == CHOOSE v \in some : TRUE
         IN  {<<v>> : v \in some} \cup {<<one, one>>} \cup (IF g.min = 0 THEN {<<>>} ELSE {})
    [] g.g = "struct" ->
         LET plain == [i \in DOMAIN g.fields |-> CHOOSE v \in Samples(g.fields[i]) : TRUE]
         IN  {plain} \cup UNION {{[plain EXCEPT ![i] = v] : v \in Samples(g.fields[i])}
                                 : i \in DOMAIN g.fields}
    [] g.g \in {"typed", "tagged"} ->
         UNION {{[tag |-> t, body |-> v] : v \in Samples(Case(g, t))}
                : t \in DOMAIN g.cases \cup {200}}
    [] g.g = "switch" -> {[key |-> TRUE, body |-> v] : v \in Samples(g.then)}
                           \cup {[key |-> FALSE, body |-> v] : v \in Samples(g.else)}
    [] g.g = "never" -> {}

KxSamples == Samples(ECDHEServerKeyExchange)
KxMessage(kx) == [tag |-> HandshakeType.ServerKeyExchange, body |-> Encode(ECDHEServerKeyExchange, kx)]
KxOf(v) ==
  LET kxs == {kx \in KxSamples : KxMessage(kx) = v}
  IN  IF kxs = {} THEN Fail ELSE Done(CHOOSE kx \in kxs : TRUE, <<>>)
Handshakes(vers) ==
  Samples(HandshakeMessagePayload(vers)) \cup {KxMessage(kx) : kx \in KxSamples}
Hs(vers, v) == Encode(HandshakeMessagePayload(vers), v)
DoneMsg == [tag |-> HandshakeType.ServerHelloDone, body |-> <<>>]

Plan(vers, frag, reads, payloads, values) ==
  [version |-> vers, max_frag |-> frag, reads |-> reads, payloads |-> payloads, values |-> values,
   damage |-> FALSE]
Payload(typ, msgs) == [typ |-> typ, msgs |-> msgs]
OfHs == ContentType.Handshake
Value(typ, v) == [typ |-> typ, v |-> v, kx |-> IF typ = OfHs THEN KxOf(v) ELSE Fail]

\* Encodings of values: with another message in the same record, and with messages around it
GoodPlans(vers, frag, reads) ==
  {Plan(vers, frag, reads, <<Payload(OfHs, <<Hs(vers, v), Hs(vers, DoneMsg)>>)>>,
        <<Value(OfHs, v), Value(OfHs, DoneMsg)>>) : v \in Handshakes(vers)}
MixedPlan(v) ==
  LET T == ContentType
  IN  Plan(TLSv1_2, 27, {1, 4, 11},
           <<Payload(OfHs, <<Hs(TLSv1_2, v)>>), Payload(T.ChangeCipherSpec, <<<<1>>>>),
             Payload(T.ApplicationData, <<<<5, 6>>>>), Payload(T.Alert, <<<<1, 0>>>>)>>,
           <<Value(OfHs, v), Value(T.ChangeCipherSpec, <<1>>), Value(T.ApplicationData, <<5, 6>>),
             Value(T.Alert, <<1, 0>>)>>)

\* The same, to be damaged: read at once
DamagedPlans(vers) == {[p EXCEPT !.damage = TRUE] : p \in GoodPlans(vers, 200, {1000})}
McDamages == [kind : {"replace"}, at : 1..40, byte : {1, 255}]
               \cup [kind : {"remove"}, at : 1..40, byte : {0}]
               \cup [kind : {"insert"}, at : 1..40, byte : {0}]
               \cup [kind : {"type"}, at : {0}, byte : Range(HandshakeType)]
\* Records that are wrong themselves
OddPlans ==
  {Plan(vers, 200, {4, 1000},
        <<Payload(OfHs, <<Hs(TLSv1_2, DoneMsg)>>), Payload(typ, <<bytes>>)>>, <<>>)
   : vers \in {TLSv1_2, 1285, 800}, typ \in {20, 21, 22, 24, 99},
     bytes \in {<<>>, <<1>>, <<2>>, <<1, 0, 0>>, [i \in 1..90 |-> 0]}}

McPlans == GoodPlans(TLSv1_2, 16, {3, 1000}) \cup GoodPlans(TLSv1_3, 5, {1, 30})
             \cup {MixedPlan(v) : v \in Handshakes(TLSv1_2)}
             \cup DamagedPlans(TLSv1_2) \cup DamagedPlans(TLSv1_3) \cup OddPlans

=============================================================================
