---------------------------- MODULE MessagePipe ----------------------------
(***************************************************************************)
(* A message on its way through tls/core/src/msgs: encoded and cut into    *)
(* records by MessageFragmenter, written as OpaqueMessages, read from the  *)
(* socket in pieces by MessageDeframer, put together by HandshakeJoiner    *)
(* and decoded, as Connection does it before the keys are in place.        *)
(*                                                                         *)
(* A plan is what the peer writes: a sequence of payloads, each of one     *)
(* content type and made of one or more messages, and the values these     *)
(* encode, if they do.  The peer may damage the first message, with its    *)
(* length still right, so that its bytes need not encode anything.         *)
(***************************************************************************)
EXTENDS TlsMessages, FiniteSets

CONSTANTS
  Plans,             \* what the peer may send
  Damages,           \* how it may damage the first message, see Damaged
  MaxPayload,        \* OpaqueMessage::MAX_PAYLOAD
  MaxHandshakeSize   \* MAX_HANDSHAKE_SIZE of the joiner

VARIABLES
  plan,       \* the plan of the peer
  unsent,     \* what is left of it
  wire,       \* bytes between the two
  buf,        \* MessageDeframer.buf, its used part
  frames,     \* MessageDeframer.frames
  desynced,   \* MessageDeframer.desynced
  joined,     \* HandshakeJoiner.buf
  sent,       \* the messages written so far, as bytes
  received,   \* what the state machine has been handed
  rewritten,  \* the same encoded again, as HandshakeHash.add_message does
  failed      \* process_new_packets has returned an error

vars == <<plan, unsent, wire, buf, frames, desynced, joined, sent, received, rewritten,
          failed>>

HeaderSize == 5
MaxWireSize == MaxPayload + HeaderSize

\* A byte of the body replaced, removed or inserted at a place, or another type of message
Damaged(p, d) ==
  LET m == p.payloads[1].msgs[1]
      body == Drop(m, 4)
      framed(typ, b) == <<typ>> \o Be(3, Len(b)) \o b
      bad == CASE d.kind = "type" -> framed(d.byte, body)
               [] d.kind = "replace" -> framed(m[1], [body EXCEPT ![d.at] = (@ + d.byte) % 256])
               [] d.kind = "remove" -> framed(m[1], RemoveAt(body, d.at))
               [] d.kind = "insert" -> framed(m[1], InsertAt(body, d.at, d.byte))
  IN  [p EXCEPT !.payloads[1].msgs[1] = bad, !.values = <<>>]

Init ==
  /\ plan \in Plans \/ \E p \in Plans, d \in Damages :
                         /\ p.damage
                         /\ d.at <= Len(p.payloads[1].msgs[1]) - 4
                         /\ plan = Damaged(p, d)
  /\ unsent = plan.payloads
  /\ wire = <<>>
  /\ buf = <<>>
  /\ frames = <<>>
  /\ desynced = FALSE
  /\ joined = <<>>
  /\ sent = <<>>
  /\ received = <<>>
  /\ rewritten = <<>>
  /\ failed = FALSE

-----------------------------------------------------------------------------
(* Sending *)

\* slice::chunks
Chunks(bytes, n) ==
  [i \in 1..((Len(bytes) + n - 1) \div n) |->
     SubSeq(bytes, (i - 1) * n + 1, IF i * n < Len(bytes) THEN i * n ELSE Len(bytes))]

fragment(bytes, max_frag) == IF Len(bytes) <= max_frag THEN <<bytes>> ELSE Chunks(bytes, max_frag)

OpaqueMessage == Struct(<<U(1), ProtocolVersion, Bytes(2)>>)

Send ==
  /\ unsent # <<>>
  /\ LET p == Head(unsent)
         records == fragment(FlattenSeq(p.msgs), plan.max_frag)
     IN  /\ wire' = wire \o FlattenSeq([i \in DOMAIN records |->
                              Encode(OpaqueMessage, <<p.typ, plan.version, records[i]>>)])
         /\ sent' = sent \o [i \in DOMAIN p.msgs |-> [typ |-> p.typ, bytes |-> p.msgs[i]]]
  /\ unsent' = Tail(unsent)
  /\ UNCHANGED <<plan, buf, frames, desynced, joined, received, rewritten, failed>>

-----------------------------------------------------------------------------
(* Deframing *)

\* OpaqueMessage.read: valid, partial or invalid, by the header before the contents are there
ReadOpaque(b) ==
  LET len == Num(SubSeq(b, 4, 5))
      fields == Read(OpaqueMessage, b)
  IN  IF Len(b) < HeaderSize THEN [is |-> "partial"]
      ELSE IF \/ b[1] # ContentType.ApplicationData /\ len = 0
              \/ len >= MaxPayload
              \/ b[1] \notin Range(ContentType)
              \/ b[2] # 3 /\ Num(SubSeq(b, 2, 3)) \notin KnownVersions
           THEN [is |-> "invalid"]
      ELSE IF ~fields.ok THEN [is |-> "partial"]
      ELSE [is |-> "valid", frame |-> fields.v, rest |-> fields.rest]

\* The loop of try_deframe_one and buf_consume
RECURSIVE Deframe(_, _)
Deframe(b, found) ==
  LET r == ReadOpaque(b)
  IN  IF r.is = "valid" THEN Deframe(r.rest, Append(found, r.frame))
      ELSE [buf |-> b, frames |-> found, invalid |-> r.is = "invalid"]

\* MessageDeframer.read: what the socket gives, at most n bytes, and the buffer has room for
read(n) ==
  LET taken == Min({n, Len(wire), MaxWireSize - Len(buf)})
      d == Deframe(buf \o Take(wire, taken), <<>>)
  IN
  /\ taken > 0
  /\ buf' = d.buf
  /\ frames' = frames \o d.frames
  /\ desynced' = (desynced \/ d.invalid)
  /\ wire' = Drop(wire, taken)
  /\ UNCHANGED <<plan, unsent, joined, sent, received, rewritten, failed>>

-----------------------------------------------------------------------------
(* Joining and decoding *)

\* Mutant: a message that cannot be decoded is skipped
RECURSIVE TakeMessage_Skip(_, _, _)
TakeMessage_Skip(b, version, found) ==
  LET len == Num(SubSeq(b, 2, 4))
      m == Read(HandshakeMessagePayload(version), b)
      stop(ok) == [ok |-> ok, buf |-> b, msgs |-> found]
  IN  IF Len(b) < 4 THEN stop(TRUE)
      ELSE IF len > MaxHandshakeSize THEN stop(FALSE)
      ELSE IF Len(b) - 4 < len THEN stop(TRUE)
      ELSE TakeMessage_Skip(Drop(b, 4 + len), version, IF m.ok THEN Append(found, m.v) ELSE found)

\* HandshakeJoiner.take_message: every message the buffer is complete for, or an error
RECURSIVE TakeMessage(_, _, _)
TakeMessage(b, version, found) ==
  LET len == Num(SubSeq(b, 2, 4))
      m == Read(HandshakeMessagePayload(version), b)
      stop(ok) == [ok |-> ok, buf |-> b, msgs |-> found]
  IN  IF Len(b) < 4 THEN stop(TRUE)
      ELSE IF len > MaxHandshakeSize THEN stop(FALSE)
      ELSE IF Len(b) - 4 < len THEN stop(TRUE)
      ELSE IF ~m.ok THEN stop(FALSE)
      ELSE TakeMessage(m.rest, version, Append(found, m.v))

\* MessagePayload::new for the other content types
NewPayload(typ, bytes) ==
  LET whole(r) == IF r.ok /\ r.rest = <<>> THEN r ELSE Fail
  IN  CASE typ = ContentType.ApplicationData -> Done(bytes, <<>>)
        [] typ = ContentType.Alert -> whole(Read(AlertMessagePayload, bytes))
        [] typ = ContentType.ChangeCipherSpec -> whole(Read(ChangeCipherSpecPayload, bytes))
        [] OTHER -> Fail

\* What ExpectServerKx makes of the contents of a ServerKeyExchange
Kx(typ, v) ==
  IF typ = ContentType.Handshake /\ v.tag = HandshakeType.ServerKeyExchange
  THEN unwrap_given_kxa(v.body) ELSE Fail

\* process_incoming_plain: what it hands on, and whether it returns an error
ProcessPlain(p, frame) ==
  LET typ == frame[1]
      got(v) == [typ |-> typ, v |-> v, kx |-> Kx(typ, v)]
      j == TakeMessage(p.joined \o frame[3], frame[2], <<>>)
      new == NewPayload(typ, frame[3])
  IN  IF p.failed THEN p
      ELSE IF typ = ContentType.Handshake
           THEN IF j.ok THEN [p EXCEPT !.joined = j.buf,
                                       !.received = @ \o [i \in DOMAIN j.msgs |-> got(j.msgs[i])]]
                ELSE [p EXCEPT !.failed = TRUE]
      ELSE IF new.ok THEN [p EXCEPT !.received = Append(@, got(new.v))]
      ELSE [p EXCEPT !.failed = TRUE]

\* How a message is written, and so what the handshake hash is made of
Rewrite(m) ==
  [typ |-> m.typ,
   bytes |-> CASE m.kx.ok -> Encode(HandshakeMessagePayload(plan.version),
                                    [m.v EXCEPT !.body = Encode(ECDHEServerKeyExchange, m.kx.v)])
               [] m.typ = ContentType.Handshake /\ ~m.kx.ok ->
                    Encode(HandshakeMessagePayload(plan.version), m.v)
               [] m.typ = ContentType.Alert -> Encode(AlertMessagePayload, m.v)
               [] m.typ = ContentType.ChangeCipherSpec -> Encode(ChangeCipherSpecPayload, m.v)
               [] OTHER -> m.v]

process_new_packets ==
  /\ ~failed
  /\ desynced \/ frames # <<>>
  /\ LET p == FoldLeft(ProcessPlain, [joined |-> joined, received |-> received, failed |-> FALSE],
                       frames)
     IN  IF desynced THEN failed' = TRUE /\ UNCHANGED <<frames, joined, received, rewritten>>
         ELSE /\ frames' = <<>>
              /\ joined' = p.joined
              /\ received' = p.received
              /\ rewritten' = [i \in DOMAIN p.received |-> Rewrite(p.received[i])]
              /\ failed' = p.failed
  /\ UNCHANGED <<plan, unsent, wire, buf, desynced, sent>>

-----------------------------------------------------------------------------
Next == Send \/ (\E n \in plan.reads : read(n)) \/ process_new_packets

Spec == Init /\ [][Next]_vars

-----------------------------------------------------------------------------
(* Correctness *)

Chan == INSTANCE Channel WITH received <- rewritten

\* However the bytes are cut into records and reads, and whatever they say, the messages handed
\* to the state machine are the ones the peer has written, in their order, each once, or the
\* connection fails; and they encode to the very bytes the peer wrote, from which both sides
\* compute the hash of the handshake (HandshakeHash.add_message encodes what was decoded).
ImplementsChannel == Chan!Spec

\* Everything a well behaved peer writes is understood: when there is nothing left to do, or no
\* room to read more, every value of every message has come out of encoding, cutting, reading in
\* pieces, joining and decoding as it went in.
AllDelivered ==
  LET idle == /\ unsent = <<>> /\ frames = <<>>
              /\ wire = <<>> \/ Len(buf) = MaxWireSize
  IN  idle /\ plan.values # <<>> => received = plan.values
=============================================================================
