-------------------------- MODULE TlsClientProofs --------------------------
(***************************************************************************)
(* Safety of the TLS client, for every set of records, every version and   *)
(* every limit.                                                            *)
(*                                                                         *)
(* A handler is a script, so the argument is one about scripts: a *point*  *)
(* says what is known before a step of one (the calls the backend had, the *)
(* defects that are still to be looked for, how far the transcript is      *)
(* behind the conversation, which keys are in use), and Move(m, s, a, b)   *)
(* that step s, in the handling of m, may run at a and leads to b.  A      *)
(* script is safe at a point if a path of moves leads from there to the    *)
(* point Rest(s) of a state, which is what the next handler starts from.   *)
(* Each handler is shown to be safe where its state starts it, each action *)
(* to do what Move says of its step.                                       *)
(***************************************************************************)
EXTENDS TlsClient, TLAPS, SequenceTheorems

-----------------------------------------------------------------------------
(* Points of a handler *)

Hello == {"ServerHello", "ServerHelloOrRetry"}
Encrypting == {"NewTicket", "Ccs", "Finished", "Traffic"}
States13 == {"EncryptedExtensions", "CertOrCertReq13", "Certificate13", "CertificateVerify13",
             "Finished13", "Traffic13"}
Open == {"Traffic", "Traffic13"}
Waiting == Hello \union Encrypting \union States13
             \union {"Certificate", "StatusOrKx", "ServerKx", "DoneOrCertReq", "ServerDone"}

HelloCalls ==
  {"get_client_random"} \union (IF "TLSv1_3" \in Versions THEN {"get_client_key_share"} ELSE {})

\* The calls the backend has had in a state, as far as later ones need them
CallsOf(s) ==
  CASE s \in Hello -> HelloCalls
    [] s \in {"Certificate", "StatusOrKx"} ->
         {"get_client_random", "set_protocol_version", "set_cipher_suite", "set_server_random"}
    [] s \in {"ServerKx", "DoneOrCertReq", "ServerDone"} ->
         {"get_client_random", "set_protocol_version", "set_cipher_suite", "set_server_random",
          "set_server_cert_details"}
    [] s \in {"NewTicket", "Ccs", "Finished"} -> {"set_server_key_share", "get_client_finished_vd"}
    [] s \in States13 \ Open -> {"set_server_key_share"}
    [] OTHER -> {}

\* The defects that its handler and the later ones still look for
PendingOf(s) ==
  CASE s \in {"StatusOrKx", "ServerKx", "CertificateVerify13"} -> {"noCertificate", "certificate"}
    [] s \in {"DoneOrCertReq", "ServerDone"} ->
         {"noCertificate", "certificate", "kxAlgorithm", "kxSignature"}
    [] OTHER -> {}

LogOf(s) ==
  CASE s = "Initialized" -> "empty" [] s = "ServerHelloOrRetry" -> "hello"
    [] s \in Open -> "any" [] OTHER -> "same"

KeysOf(s) ==
  CASE s \in {"Finished", "Traffic"} -> "dec" [] s \in {"NewTicket", "Ccs"} -> "enc"
    [] OTHER -> "clear"

Point(at, calls, pending, log, keys, data, ver) ==
  [at |-> at, calls |-> calls, pending |-> pending, log |-> log, keys |-> keys, data |-> data,
   ver |-> ver]
Rest(s) ==
  Point(s, CallsOf(s), PendingOf(s), LogOf(s), KeysOf(s), s \in Open,
        IF s \in States13 THEN "TLSv1_3" ELSE "any")

\* How far the transcript is behind the conversation
LogIs(log) ==
  /\ log = "empty" => hslog = <<>> /\ transcript = <<>>
  /\ log = "hello" => hslog = <<"ClientHello">> /\ transcript = <<"ClientHello">>
  /\ log = "retry" => hslog = <<"ClientHello", "HelloRetryRequest">>
  /\ log = "same" => hslog # <<>> /\ transcript = Conversation(hslog)
  /\ log = "behind" =>
       /\ Len(hslog) > 1 /\ hslog[Len(hslog)] = msg.kind
       /\ transcript = Conversation(SubSeq(hslog, 1, Len(hslog) - 1))
       /\ Len(hslog) = 2 => msg.kind # "HelloRetryRequest"

\* The keys of the record layer; with "ccs" ChangeCipherSpec is the last message queued
KeysAre(keys) ==
  /\ keys \in {"enc", "dec"} <=> rl.enc = "Active"
  /\ keys = "dec" => rl.dec = "Active"
  /\ keys = "ccs" => tls # <<>> /\ tls[Len(tls)].kind = "ChangeCipherSpec"

NoData == ~common.may_send /\ ~common.may_receive /\ plain.received = <<>>

Holds(a) ==
  /\ state = a.at
  /\ a.calls \subseteq be.calls
  /\ hs.flaws \intersect Defects \subseteq a.pending
  /\ LogIs(a.log)
  /\ KeysAre(a.keys)
  /\ a.data \/ NoData
  /\ a.ver \in {"any", common.version}

-----------------------------------------------------------------------------
(* Moves from point to point *)

CallMove(s, a, b) ==
  /\ b.at = IF s.op = "goto" THEN s.arg ELSE a.at
  /\ s.op = "goto" => s.arg \in Waiting
  /\ s.op = "call" => Needs(s.arg) \subseteq a.calls
  /\ b.calls \subseteq a.calls \union (IF s.op = "call" THEN {s.arg} ELSE {})
  /\ a.pending \subseteq b.pending \union (IF s.op = "check" THEN {s.arg} ELSE {})

Hashed == {"get_client_finished_vd", "set_hs_hash_client_key_exchange", "set_hs_hash_server_hello"}
LogMove(s, a, b) ==
  /\ s.op = "call" /\ s.arg = "get_server_finished_vd" => a.log = "behind"
  /\ s.op = "call" /\ s.arg \in Hashed => a.log = "same"
  /\ IF s.op = "hash" THEN a.log = "behind" /\ b.log = "same"
     ELSE IF s.op \in {"emit", "encrypt"} /\ s.arg # "ChangeCipherSpec"
     THEN \/ a.log = "empty" /\ s.arg = "ClientHello" /\ b.log = "hello"
          \/ a.log = "same" /\ s.arg \notin {"HelloRetryRequest", "ApplicationData"} /\ b.log = "same"
     ELSE IF s.op = "do" /\ s.arg = "retried" THEN a.log = "retry" /\ b.log = "same"
     ELSE b.log \in {a.log, "any"} \/ (a.log = "hello" /\ b.log = "same")

KeysMove(s, a, b) ==
  IF s.op = "emit"
  THEN a.keys = "clear" /\ b.keys = IF s.arg = "ChangeCipherSpec" THEN "ccs" ELSE "clear"
  ELSE IF s.op = "do" /\ s.arg = "start_encrypting" THEN a.keys = "ccs" /\ b.keys = "enc"
  ELSE IF s.op = "do" /\ s.arg = "start_decrypting" THEN a.keys = "enc" /\ b.keys = "dec"
  ELSE /\ b.keys = a.keys
       /\ s.op = "do" /\ s.arg = "fakeCcs" => a.keys = "clear"
       /\ s.op \in {"alert", "warn"} => a.keys # "ccs"

DataMove(m, s, a, b) ==
  IF s.op = "do" /\ s.arg \in {"negotiate", "retryVersion"}
  THEN ~a.data /\ b.ver \in {"any", IF s.arg = "negotiate" THEN m.ver ELSE "TLSv1_3"}
  ELSE /\ b.ver \in {"any", a.ver}
       /\ a.data => b.data
       /\ s.op = "do" /\ s.arg = "may_receive" => b.data
       /\ s.op = "do" /\ s.arg \in {"flush_plaintext", "take_received_plaintext"} =>
            a.pending = {} /\ b.data
       /\ s.op = "do" /\ s.arg = "take_received_plaintext" =>
            a.ver = "TLSv1_3" \/ "prot" \in m.opts

\* Nothing is left to say after a step that always fails
Move(m, s, a, b) ==
  s.op # "fail" =>
    CallMove(s, a, b) /\ LogMove(s, a, b) /\ KeysMove(s, a, b) /\ DataMove(m, s, a, b)

IsSeq(c) == \E S : c \in Seq(S)

Path(m, c, a, b) ==
  /\ IsSeq(c)
  /\ \E h : /\ IsSeq(h) /\ Len(h) = Len(c) + 1 /\ h[1] = a /\ h[Len(h)] = b
            /\ \A i \in 1 .. Len(c) : Move(m, c[i], h[i], h[i + 1])

Safe(m, c, a) == \E s : Path(m, c, a, Rest(s))

-----------------------------------------------------------------------------
(* Paths *)

\* No step leads nowhere.
LEMMA PathEmpty ==
  ASSUME NEW m, NEW a, NEW b
  PROVE  Path(m, <<>>, a, b) <=> a = b
  <1>1. ASSUME Path(m, <<>>, a, b) PROVE a = b
    BY <1>1 DEF Path
  <1>2. ASSUME a = b PROVE Path(m, <<>>, a, b)
    <2>1. <<>> \in Seq({}) /\ <<a>> \in Seq({a})
      OBVIOUS
    <2>2. IsSeq(<<>>) /\ IsSeq(<<a>>)
      BY <2>1 DEF IsSeq
    <2>3. Len(<<a>>) = Len(<<>>) + 1 /\ <<a>>[1] = a /\ <<a>>[Len(<<a>>)] = b
      BY <1>2
    <2> QED BY <2>2, <2>3 DEF Path
  <1> QED BY <1>1, <1>2

\* A literal script leads along the moves of its steps.
LEMMA Path1 ==
  ASSUME NEW m, NEW s1, NEW p0, NEW p1, Move(m, s1, p0, p1)
  PROVE  Path(m, <<s1>>, p0, p1)
  <1> DEFINE c == <<s1>>
             h == <<p0, p1>>
  <1>1. c \in Seq({s1}) /\ h \in Seq({p0, p1})
    OBVIOUS
  <1>2. Len(c) = 1 /\ Len(h) = 2 /\ h[1] = p0 /\ h[2] = p1
    OBVIOUS
  <1>3. \A i \in 1 .. 1 : Move(m, c[i], h[i], h[i + 1])
    OBVIOUS
  <1> HIDE DEF c, h
  <1>4. IsSeq(c) /\ IsSeq(h)
    BY <1>1 DEF IsSeq
  <1>5. Len(h) = Len(c) + 1 /\ h[Len(h)] = p1 /\ 1 .. Len(c) = 1 .. 1
    BY <1>2
  <1>6. Path(m, c, p0, p1)
    BY <1>2, <1>3, <1>4, <1>5 DEF Path
  <1> QED BY <1>6 DEF c

\* The same for 2 steps.
LEMMA Path2 ==
  ASSUME NEW m, NEW s1, NEW s2, NEW p0, NEW p1, NEW p2, Move(m, s1, p0, p1),
         Move(m, s2, p1, p2)
  PROVE  Path(m, <<s1, s2>>, p0, p2)
  <1> DEFINE c == <<s1, s2>>
             h == <<p0, p1, p2>>
  <1>1. c \in Seq({s1, s2}) /\ h \in Seq({p0, p1, p2})
    OBVIOUS
  <1>2. Len(c) = 2 /\ Len(h) = 3 /\ h[1] = p0 /\ h[3] = p2
    OBVIOUS
  <1>3. \A i \in 1 .. 2 : Move(m, c[i], h[i], h[i + 1])
    OBVIOUS
  <1> HIDE DEF c, h
  <1>4. IsSeq(c) /\ IsSeq(h)
    BY <1>1 DEF IsSeq
  <1>5. Len(h) = Len(c) + 1 /\ h[Len(h)] = p2 /\ 1 .. Len(c) = 1 .. 2
    BY <1>2
  <1>6. Path(m, c, p0, p2)
    BY <1>2, <1>3, <1>4, <1>5 DEF Path
  <1> QED BY <1>6 DEF c

\* The same for 3 steps.
LEMMA Path3 ==
  ASSUME NEW m, NEW s1, NEW s2, NEW s3, NEW p0, NEW p1, NEW p2, NEW p3, Move(m, s1, p0, p1),
         Move(m, s2, p1, p2), Move(m, s3, p2, p3)
  PROVE  Path(m, <<s1, s2, s3>>, p0, p3)
  <1> DEFINE c == <<s1, s2, s3>>
             h == <<p0, p1, p2, p3>>
  <1>1. c \in Seq({s1, s2, s3}) /\ h \in Seq({p0, p1, p2, p3})
    OBVIOUS
  <1>2. Len(c) = 3 /\ Len(h) = 4 /\ h[1] = p0 /\ h[4] = p3
    OBVIOUS
  <1>3. \A i \in 1 .. 3 : Move(m, c[i], h[i], h[i + 1])
    OBVIOUS
  <1> HIDE DEF c, h
  <1>4. IsSeq(c) /\ IsSeq(h)
    BY <1>1 DEF IsSeq
  <1>5. Len(h) = Len(c) + 1 /\ h[Len(h)] = p3 /\ 1 .. Len(c) = 1 .. 3
    BY <1>2
  <1>6. Path(m, c, p0, p3)
    BY <1>2, <1>3, <1>4, <1>5 DEF Path
  <1> QED BY <1>6 DEF c

\* The same for 4 steps.
LEMMA Path4 ==
  ASSUME NEW m, NEW s1, NEW s2, NEW s3, NEW s4, NEW p0, NEW p1, NEW p2, NEW p3, NEW p4,
         Move(m, s1, p0, p1), Move(m, s2, p1, p2), Move(m, s3, p2, p3), Move(m, s4, p3, p4)
  PROVE  Path(m, <<s1, s2, s3, s4>>, p0, p4)
  <1> DEFINE c == <<s1, s2, s3, s4>>
             h == <<p0, p1, p2, p3, p4>>
  <1>1. c \in Seq({s1, s2, s3, s4}) /\ h \in Seq({p0, p1, p2, p3, p4})
    OBVIOUS
  <1>2. Len(c) = 4 /\ Len(h) = 5 /\ h[1] = p0 /\ h[5] = p4
    OBVIOUS
  <1>3. \A i \in 1 .. 4 : Move(m, c[i], h[i], h[i + 1])
    OBVIOUS
  <1> HIDE DEF c, h
  <1>4. IsSeq(c) /\ IsSeq(h)
    BY <1>1 DEF IsSeq
  <1>5. Len(h) = Len(c) + 1 /\ h[Len(h)] = p4 /\ 1 .. Len(c) = 1 .. 4
    BY <1>2
  <1>6. Path(m, c, p0, p4)
    BY <1>2, <1>3, <1>4, <1>5 DEF Path
  <1> QED BY <1>6 DEF c

\* The same for 5 steps.
LEMMA Path5 ==
  ASSUME NEW m, NEW s1, NEW s2, NEW s3, NEW s4, NEW s5, NEW p0, NEW p1, NEW p2, NEW p3, NEW p4,
         NEW p5, Move(m, s1, p0, p1), Move(m, s2, p1, p2), Move(m, s3, p2, p3),
         Move(m, s4, p3, p4), Move(m, s5, p4, p5)
  PROVE  Path(m, <<s1, s2, s3, s4, s5>>, p0, p5)
  <1> DEFINE c == <<s1, s2, s3, s4, s5>>
             h == <<p0, p1, p2, p3, p4, p5>>
  <1>1. c \in Seq({s1, s2, s3, s4, s5}) /\ h \in Seq({p0, p1, p2, p3, p4, p5})
    OBVIOUS
  <1>2. Len(c) = 5 /\ Len(h) = 6 /\ h[1] = p0 /\ h[6] = p5
    OBVIOUS
  <1>3. \A i \in 1 .. 5 : Move(m, c[i], h[i], h[i + 1])
    OBVIOUS
  <1> HIDE DEF c, h
  <1>4. IsSeq(c) /\ IsSeq(h)
    BY <1>1 DEF IsSeq
  <1>5. Len(h) = Len(c) + 1 /\ h[Len(h)] = p5 /\ 1 .. Len(c) = 1 .. 5
    BY <1>2
  <1>6. Path(m, c, p0, p5)
    BY <1>2, <1>3, <1>4, <1>5 DEF Path
  <1> QED BY <1>6 DEF c

\* The same for 6 steps.
LEMMA Path6 ==
  ASSUME NEW m, NEW s1, NEW s2, NEW s3, NEW s4, NEW s5, NEW s6, NEW p0, NEW p1, NEW p2, NEW p3,
         NEW p4, NEW p5, NEW p6, Move(m, s1, p0, p1), Move(m, s2, p1, p2), Move(m, s3, p2, p3),
         Move(m, s4, p3, p4), Move(m, s5, p4, p5), Move(m, s6, p5, p6)
  PROVE  Path(m, <<s1, s2, s3, s4, s5, s6>>, p0, p6)
  <1> DEFINE c == <<s1, s2, s3, s4, s5, s6>>
             h == <<p0, p1, p2, p3, p4, p5, p6>>
  <1>1. c \in Seq({s1, s2, s3, s4, s5, s6}) /\ h \in Seq({p0, p1, p2, p3, p4, p5, p6})
    OBVIOUS
  <1>2. Len(c) = 6 /\ Len(h) = 7 /\ h[1] = p0 /\ h[7] = p6
    OBVIOUS
  <1>3. \A i \in 1 .. 6 : Move(m, c[i], h[i], h[i + 1])
    OBVIOUS
  <1> HIDE DEF c, h
  <1>4. IsSeq(c) /\ IsSeq(h)
    BY <1>1 DEF IsSeq
  <1>5. Len(h) = Len(c) + 1 /\ h[Len(h)] = p6 /\ 1 .. Len(c) = 1 .. 6
    BY <1>2
  <1>6. Path(m, c, p0, p6)
    BY <1>2, <1>3, <1>4, <1>5 DEF Path
  <1> QED BY <1>6 DEF c

\* The same for 8 steps.
LEMMA Path8 ==
  ASSUME NEW m, NEW s1, NEW s2, NEW s3, NEW s4, NEW s5, NEW s6, NEW s7, NEW s8, NEW p0, NEW p1,
         NEW p2, NEW p3, NEW p4, NEW p5, NEW p6, NEW p7, NEW p8, Move(m, s1, p0, p1),
         Move(m, s2, p1, p2), Move(m, s3, p2, p3), Move(m, s4, p3, p4), Move(m, s5, p4, p5),
         Move(m, s6, p5, p6), Move(m, s7, p6, p7), Move(m, s8, p7, p8)
  PROVE  Path(m, <<s1, s2, s3, s4, s5, s6, s7, s8>>, p0, p8)
  <1> DEFINE c == <<s1, s2, s3, s4, s5, s6, s7, s8>>
             h == <<p0, p1, p2, p3, p4, p5, p6, p7, p8>>
  <1>1. /\ c \in Seq({s1, s2, s3, s4, s5, s6, s7, s8})
        /\ h \in Seq({p0, p1, p2, p3, p4, p5, p6, p7, p8})
    OBVIOUS
  <1>2. Len(c) = 8 /\ Len(h) = 9 /\ h[1] = p0 /\ h[9] = p8
    OBVIOUS
  <1>3. \A i \in 1 .. 8 : Move(m, c[i], h[i], h[i + 1])
    OBVIOUS
  <1> HIDE DEF c, h
  <1>4. IsSeq(c) /\ IsSeq(h)
    BY <1>1 DEF IsSeq
  <1>5. Len(h) = Len(c) + 1 /\ h[Len(h)] = p8 /\ 1 .. Len(c) = 1 .. 8
    BY <1>2
  <1>6. Path(m, c, p0, p8)
    BY <1>2, <1>3, <1>4, <1>5 DEF Path
  <1> QED BY <1>6 DEF c

\* The same for 10 steps.
LEMMA Path10 ==
  ASSUME NEW m, NEW s1, NEW s2, NEW s3, NEW s4, NEW s5, NEW s6, NEW s7, NEW s8, NEW s9, NEW s10,
         NEW p0, NEW p1, NEW p2, NEW p3, NEW p4, NEW p5, NEW p6, NEW p7, NEW p8, NEW p9, NEW p10,
         Move(m, s1, p0, p1), Move(m, s2, p1, p2), Move(m, s3, p2, p3), Move(m, s4, p3, p4),
         Move(m, s5, p4, p5), Move(m, s6, p5, p6), Move(m, s7, p6, p7), Move(m, s8, p7, p8),
         Move(m, s9, p8, p9), Move(m, s10, p9, p10)
  PROVE  Path(m, <<s1, s2, s3, s4, s5, s6, s7, s8, s9, s10>>, p0, p10)
  <1> DEFINE c == <<s1, s2, s3, s4, s5, s6, s7, s8, s9, s10>>
             h == <<p0, p1, p2, p3, p4, p5, p6, p7, p8, p9, p10>>
  <1>1. /\ c \in Seq({s1, s2, s3, s4, s5, s6, s7, s8, s9, s10})
        /\ h \in Seq({p0, p1, p2, p3, p4, p5, p6, p7, p8, p9, p10})
    OBVIOUS
  <1>2. Len(c) = 10 /\ Len(h) = 11 /\ h[1] = p0 /\ h[11] = p10
    OBVIOUS
  <1>3. \A i \in 1 .. 10 : Move(m, c[i], h[i], h[i + 1])
    OBVIOUS
  <1> HIDE DEF c, h
  <1>4. IsSeq(c) /\ IsSeq(h)
    BY <1>1 DEF IsSeq
  <1>5. Len(h) = Len(c) + 1 /\ h[Len(h)] = p10 /\ 1 .. Len(c) = 1 .. 10
    BY <1>2
  <1>6. Path(m, c, p0, p10)
    BY <1>2, <1>3, <1>4, <1>5 DEF Path
  <1> QED BY <1>6 DEF c

\* The same for 11 steps.
LEMMA Path11 ==
  ASSUME NEW m, NEW s1, NEW s2, NEW s3, NEW s4, NEW s5, NEW s6, NEW s7, NEW s8, NEW s9, NEW s10,
         NEW s11, NEW p0, NEW p1, NEW p2, NEW p3, NEW p4, NEW p5, NEW p6, NEW p7, NEW p8, NEW p9,
         NEW p10, NEW p11, Move(m, s1, p0, p1), Move(m, s2, p1, p2), Move(m, s3, p2, p3),
         Move(m, s4, p3, p4), Move(m, s5, p4, p5), Move(m, s6, p5, p6), Move(m, s7, p6, p7),
         Move(m, s8, p7, p8), Move(m, s9, p8, p9), Move(m, s10, p9, p10), Move(m, s11, p10, p11)
  PROVE  Path(m, <<s1, s2, s3, s4, s5, s6, s7, s8, s9, s10, s11>>, p0, p11)
  <1> DEFINE c == <<s1, s2, s3, s4, s5, s6, s7, s8, s9, s10, s11>>
             h == <<p0, p1, p2, p3, p4, p5, p6, p7, p8, p9, p10, p11>>
  <1>1. /\ c \in Seq({s1, s2, s3, s4, s5, s6, s7, s8, s9, s10, s11})
        /\ h \in Seq({p0, p1, p2, p3, p4, p5, p6, p7, p8, p9, p10, p11})
    OBVIOUS
  <1>2. Len(c) = 11 /\ Len(h) = 12 /\ h[1] = p0 /\ h[12] = p11
    OBVIOUS
  <1>3. \A i \in 1 .. 11 : Move(m, c[i], h[i], h[i + 1])
    OBVIOUS
  <1> HIDE DEF c, h
  <1>4. IsSeq(c) /\ IsSeq(h)
    BY <1>1 DEF IsSeq
  <1>5. Len(h) = Len(c) + 1 /\ h[Len(h)] = p11 /\ 1 .. Len(c) = 1 .. 11
    BY <1>2
  <1>6. Path(m, c, p0, p11)
    BY <1>2, <1>3, <1>4, <1>5 DEF Path
  <1> QED BY <1>6 DEF c

\* The step at the head of a script moves, and the rest leads on from there.
LEMMA PathHead ==
  ASSUME NEW m, NEW c, NEW a, NEW d, c # <<>>, Path(m, c, a, d)
  PROVE  \E b : Move(m, Head(c), a, b) /\ Path(m, Tail(c), b, d)
  <1>1. PICK S : c \in Seq(S)
    BY DEF Path, IsSeq
  <1>2. PICK h : /\ IsSeq(h) /\ Len(h) = Len(c) + 1 /\ h[1] = a /\ h[Len(h)] = d
                 /\ \A i \in 1 .. Len(c) : Move(m, c[i], h[i], h[i + 1])
    BY DEF Path
  <1>3. PICK T : h \in Seq(T)
    BY <1>2 DEF IsSeq
  <1> DEFINE t == Tail(c)
             g == Tail(h)
  <1>4. /\ Len(c) \in Nat /\ Len(c) >= 1 /\ Head(c) = c[1]
        /\ t \in Seq(S) /\ Len(t) = Len(c) - 1 /\ \A i \in 1 .. Len(t) : t[i] = c[i + 1]
    BY <1>1
  <1>5. g \in Seq(T) /\ Len(g) = Len(h) - 1 /\ \A i \in 1 .. Len(g) : g[i] = h[i + 1]
    BY <1>2, <1>3, <1>4
  <1> HIDE DEF t, g
  <1>6. Move(m, Head(c), a, h[2])
    BY <1>2, <1>4, 1 \in 1 .. Len(c)
  <1>7. IsSeq(t) /\ IsSeq(g) /\ Len(g) = Len(t) + 1 /\ g[1] = h[2] /\ g[Len(g)] = d
    <2>1. Len(g) = Len(c) /\ 1 \in 1 .. Len(g) /\ Len(g) \in 1 .. Len(g) /\ Len(g) + 1 = Len(h)
      BY <1>2, <1>4, <1>5
    <2> QED BY <1>2, <1>4, <1>5, <2>1 DEF IsSeq
  <1>8. ASSUME NEW i \in 1 .. Len(t) PROVE Move(m, t[i], g[i], g[i + 1])
    <2>1. i + 1 \in 1 .. Len(c) /\ i \in 1 .. Len(g) /\ i + 1 \in 1 .. Len(g)
      BY <1>2, <1>4, <1>5
    <2> QED BY <1>2, <1>4, <1>5, <2>1
  <1>9. Path(m, t, h[2], d)
    BY <1>7, <1>8 DEF Path
  <1> QED BY <1>6, <1>9 DEF t

\* Scripts are put together from parts, some of which may be left out.
LEMMA PathConcat ==
  ASSUME NEW m, NEW c, NEW d, NEW p, NEW q, NEW r, Path(m, c, p, q), Path(m, d, q, r)
  PROVE  Path(m, c \o d, p, r)
  <1>1. PICK S, T : c \in Seq(S) /\ d \in Seq(T)
    BY DEF Path, IsSeq
  <1>2. PICK g : /\ IsSeq(g) /\ Len(g) = Len(c) + 1 /\ g[1] = p /\ g[Len(g)] = q
                 /\ \A i \in 1 .. Len(c) : Move(m, c[i], g[i], g[i + 1])
    BY DEF Path
  <1>3. PICK h : /\ IsSeq(h) /\ Len(h) = Len(d) + 1 /\ h[1] = q /\ h[Len(h)] = r
                 /\ \A i \in 1 .. Len(d) : Move(m, d[i], h[i], h[i + 1])
    BY DEF Path
  <1>4. PICK G, H : g \in Seq(G) /\ h \in Seq(H)
    BY <1>2, <1>3 DEF IsSeq
  <1> DEFINE e == c \o d
             t == Tail(h)
             k == g \o t
  <1>5. /\ Len(c) \in Nat /\ Len(d) \in Nat
        /\ e \in Seq(S \union T) /\ Len(e) = Len(c) + Len(d)
        /\ \A i \in 1 .. Len(c) : e[i] = c[i]
        /\ \A i \in 1 .. Len(d) : e[Len(c) + i] = d[i]
    BY <1>1
  <1>6. t \in Seq(H) /\ Len(t) = Len(d) /\ \A i \in 1 .. Len(d) : t[i] = h[i + 1]
    BY <1>3, <1>4, <1>5
  <1> HIDE DEF t
  <1>7. /\ k \in Seq(G \union H) /\ Len(k) = Len(c) + 1 + Len(d)
        /\ \A i \in 1 .. Len(c) + 1 : k[i] = g[i]
        /\ \A i \in 1 .. Len(d) : k[Len(c) + 1 + i] = h[i + 1]
    <2>0. g \in Seq(G \union H) /\ t \in Seq(G \union H)
      BY <1>4, <1>6
    <2>1. /\ k \in Seq(G \union H) /\ Len(k) = Len(g) + Len(t)
          /\ \A i \in 1 .. Len(g) : k[i] = g[i]
          /\ \A i \in 1 .. Len(t) : k[Len(g) + i] = t[i]
      BY <2>0
    <2> HIDE DEF k
    <2> QED BY <2>1, <1>2, <1>5, <1>6
  <1> HIDE DEF e, k
  <1>8. \A i \in 0 .. Len(d) : k[Len(c) + 1 + i] = h[i + 1]
    <2> SUFFICES ASSUME NEW i \in 0 .. Len(d) PROVE k[Len(c) + 1 + i] = h[i + 1]
      OBVIOUS
    <2>1. CASE i = 0
      BY <2>1, <1>2, <1>3, <1>5, <1>7, Len(c) + 1 \in 1 .. Len(c) + 1
    <2>2. CASE i # 0
      BY <2>2, <1>7, i \in 1 .. Len(d)
    <2> QED BY <2>1, <2>2
  <1>9. ASSUME NEW i \in 1 .. Len(e) PROVE Move(m, e[i], k[i], k[i + 1])
    <2>1. CASE i <= Len(c)
      <3>1. i \in 1 .. Len(c) /\ i \in 1 .. Len(c) + 1 /\ i + 1 \in 1 .. Len(c) + 1
        BY <2>1, <1>5
      <3> QED BY <3>1, <1>2, <1>5, <1>7
    <2>2. CASE i > Len(c)
      <3>1. PICK j \in 1 .. Len(d) : i = Len(c) + j
        <4>1. i - Len(c) \in 1 .. Len(d) /\ i = Len(c) + (i - Len(c))
          BY <2>2, <1>5
        <4> QED BY <4>1
      <3>2. e[i] = d[j]
        BY <3>1, <1>5
      <3>3. k[i] = h[j]
        <4>1. j - 1 \in 0 .. Len(d) /\ Len(c) + 1 + (j - 1) = i /\ (j - 1) + 1 = j
          BY <3>1, <1>5
        <4> QED BY <4>1, <1>8
      <3>4. k[i + 1] = h[j + 1]
        <4>1. j \in 0 .. Len(d) /\ Len(c) + 1 + j = i + 1
          BY <3>1, <1>5
        <4> QED BY <4>1, <1>8
      <3> QED BY <3>2, <3>3, <3>4, <1>3
    <2> QED BY <2>1, <2>2, <1>5
  <1>10. /\ IsSeq(e) /\ IsSeq(k) /\ Len(k) = Len(e) + 1
         /\ k[1] = p /\ k[Len(k)] = r
    <2>1. Len(k) = Len(e) + 1 /\ Len(d) \in 0 .. Len(d) /\ Len(k) = Len(c) + 1 + Len(d) /\ 1 \in 1 .. Len(c) + 1
      BY <1>5, <1>7
    <2>2. k[Len(k)] = h[Len(d) + 1]
      BY <2>1, <1>8
    <2> QED BY <1>2, <1>3, <1>5, <1>7, <2>1, <2>2 DEF IsSeq
  <1>11. Path(m, e, p, r)
    BY <1>9, <1>10 DEF Path
  <1> QED BY <1>11 DEF e

LEMMA PathIf ==
  ASSUME NEW m, NEW cond, NEW c, NEW a, NEW b, cond => Path(m, c, a, b), ~cond => a = b
  PROVE  Path(m, If(cond, c), a, b)
  <1>1. CASE cond
    BY <1>1 DEF If
  <1>2. CASE ~cond
    BY <1>2, PathEmpty DEF If
  <1> QED BY <1>1, <1>2

-----------------------------------------------------------------------------
(* The handlers *)

\* What is known when state s gets message m
Received(s, m) ==
  IF s \in Open THEN "any" ELSE IF m.kind = "HelloRetryRequest" THEN "retry" ELSE "behind"
Begin(s, m) ==
  Point(s, CallsOf(s), PendingOf(s) \union DefectsOf(m),
        IF IsHandshake(m) THEN Received(s, m) ELSE LogOf(s), KeysOf(s), s \in Open,
        IF s \in States13 THEN "TLSv1_3" ELSE "any")

\* Checks and assignments leave what is known as it is.
LEMMA Keeps ==
  ASSUME NEW m, NEW a, NEW x, NEW l
  PROVE  /\ Move(m, Check(x, l), a, a) /\ Move(m, Refuse(x), a, a) /\ Move(m, CertError(x), a, a)
         /\ Move(m, Aligned, a, a) /\ Move(m, Do("opts"), a, a) /\ Move(m, Do("auth"), a, a)
         /\ Move(m, Do("abandon_client_auth"), a, a) /\ Move(m, Do("certverify"), a, a)
         /\ Move(m, Do("close_notify"), a, a)
  BY DEF Move, CallMove, LogMove, KeysMove, DataMove, Hashed, Needs, Hello, Encrypting, States13,
         Waiting, Step, Check, Refuse, CertError, Aligned, Do

\* So does a call whose needs are met, if the hash is as far as the call wants it.
LEMMA Calls ==
  ASSUME NEW m, NEW a, NEW x, Needs(x) \subseteq a.calls,
         x # "get_server_finished_vd", x \in Hashed => a.log = "same"
  PROVE  Move(m, Call(x), a, a)
  BY DEF Move, CallMove, LogMove, KeysMove, DataMove, Step, Call

\* A handler that only fails is safe anywhere.
LEMMA FailSafe ==
  ASSUME NEW m, NEW a, NEW l
  PROVE  Safe(m, <<Fail(l)>>, a)
  <1>1. Move(m, Fail(l), a, Rest("Error"))
    BY DEF Move, Fail, Step
  <1>2. Path(m, <<Fail(l)>>, a, Rest("Error"))
    BY <1>1, Path1
  <1> QED BY <1>2 DEF Safe

LEMMA StartSafe ==
  ASSUME NEW m
  PROVE  Safe(m, start_handshake, Rest("Initialized"))
  <1> DEFINE next == IF "TLSv1_3" \in Versions THEN "ServerHelloOrRetry" ELSE "ServerHello"
             P(calls, log) == Point("Initialized", calls, {}, log, "clear", FALSE, "any")
             b == P(IF "TLSv1_3" \in Versions THEN {"get_client_key_share"} ELSE {}, "empty")
             c == P(HelloCalls, "empty")
             d == P(HelloCalls, "hello")
  <1>1. Rest("Initialized") = P({}, "empty")
    <2>1. /\ CallsOf("Initialized") = {} /\ PendingOf("Initialized") = {}
          /\ LogOf("Initialized") = "empty" /\ KeysOf("Initialized") = "clear"
      BY DEF CallsOf, PendingOf, LogOf, KeysOf, Hello, Open, States13
    <2>2. ("Initialized" \in Open) = FALSE /\ "Initialized" \notin States13
      BY DEF Open, States13
    <2> QED BY <2>1, <2>2 DEF Rest, Point
  <1>2. "TLSv1_3" \in Versions => Move(m, Call("get_client_key_share"), Rest("Initialized"), b)
    BY DEF Move, CallMove, LogMove, KeysMove, DataMove, Hashed, Needs, Rest, Point, CallsOf,
           HelloCalls, PendingOf, LogOf, KeysOf, Hello, Encrypting, States13, Open, Waiting, Step,
           Call
  <1>3. Move(m, Call("get_client_random"), b, c) /\ Move(m, Emit("ClientHello"), c, d)
    BY DEF Move, CallMove, LogMove, KeysMove, DataMove, Hashed, Needs, Rest, Point, CallsOf,
           HelloCalls, PendingOf, LogOf, KeysOf, Hello, Encrypting, States13, Open, Waiting, Step,
           Call, Emit
  <1>4. Move(m, Goto(next), d, Rest(next))
    BY DEF Move, CallMove, LogMove, KeysMove, DataMove, Hashed, Needs, Rest, Point, CallsOf,
           HelloCalls, PendingOf, LogOf, KeysOf, Hello, Encrypting, States13, Open, Waiting, Step,
           Goto
  <1>5. "TLSv1_3" \notin Versions => Rest("Initialized") = b
    BY <1>1
  <1> DEFINE r == Rest("Initialized")
  <1> HIDE DEF b, c, d, next, r
  <1>6. Path(m, If("TLSv1_3" \in Versions, <<Call("get_client_key_share")>>), r, b)
    BY <1>2, <1>5, PathIf, Path1 DEF r
  <1>7. Path(m, If("TLSv1_3" \in Versions, <<Call("get_client_key_share")>>)
                  \o <<Call("get_client_random")>>, r, c)
    BY <1>3, <1>6, Path1, PathConcat
  <1>8. Path(m, If(FALSE, <<Do("fakeCcs")>>), c, c)
    BY PathIf
  <1>9. Path(m, <<Emit("ClientHello"), Goto(next)>>, c, Rest(next))
    BY <1>3, <1>4, Path2
  <1>10. Path(m, ClientHello(FALSE), c, Rest(next))
    BY <1>8, <1>9, PathConcat DEF ClientHello, next
  <1>11. Path(m, start_handshake, r, Rest(next))
    BY <1>7, <1>10, PathConcat DEF start_handshake
  <1> QED BY <1>11 DEF Safe, r

LEMMA RetrySafe ==
  ASSUME NEW m, m.kind = "HelloRetryRequest"
  PROVE  Safe(m, HelloRetryRequest, Begin("ServerHelloOrRetry", m))
  <1> DEFINE a == Begin("ServerHelloOrRetry", m)
             b == Point("ServerHelloOrRetry", HelloCalls, {}, "same", "clear", FALSE, "any")
             r == Rest("ServerHello")
  <1>1. Move(m, Do("retryVersion"), a, a) /\ Move(m, Do("retried"), a, b)
    BY DEF Begin, Received, IsHandshake, DefectsOf, Move, CallMove, LogMove, KeysMove, DataMove,
           Hashed, Needs, Rest, Point, CallsOf, HelloCalls, PendingOf, LogOf, KeysOf, Hello,
           Encrypting, States13, Open, Waiting, Step, Alert, Do
  <1>2. /\ Move(m, Do("fakeCcs"), b, b) /\ Move(m, Emit("ClientHello"), b, b)
        /\ Move(m, Goto("ServerHello"), b, r)
    BY DEF Begin, Received, IsHandshake, DefectsOf, Move, CallMove, LogMove, KeysMove, DataMove,
           Hashed, Needs, Rest, Point, CallsOf, HelloCalls, PendingOf, LogOf, KeysOf, Hello,
           Encrypting, States13, Open, Waiting, Step, Alert, Emit, Do, Goto
  <1> HIDE DEF a, b, r
  <1> DEFINE l == "IllegalParameter"
             c == <<Aligned, Check("ourGroup", l), Check("emptyCookie", l),
                    Check("unknownExt", "UnsupportedExtension"), Check("duplicateHrrExt", l),
                    Check("noChange", l), Check("hrrVersion", l), Do("retryVersion"),
                    Check("hrrSuite", l), Do("retried"), Check("hrrGroup", l)>>
  <1>3. Path(m, c, a, b)
    BY <1>1, Keeps, Path11
  <1>4. Path(m, If(TRUE, <<Do("fakeCcs")>>), b, b)
    BY <1>2, Path1, PathIf
  <1>5. Path(m, <<Emit("ClientHello"), Goto("ServerHello")>>, b, r)
    BY <1>2, Path2
  <1>6. Path(m, ClientHello(TRUE), b, r)
    BY <1>4, <1>5, PathConcat DEF ClientHello
  <1>7. Path(m, HelloRetryRequest, a, r)
    BY <1>3, <1>6, PathConcat DEF HelloRetryRequest
  <1> QED BY <1>7 DEF Safe, a, r

LEMMA ServerHello12Path ==
  ASSUME NEW m, NEW s \in Hello, m.kind = "ServerHello", m.ver = "TLSv1_2"
  PROVE  LET calls == HelloCalls \union {"set_protocol_version", "set_cipher_suite",
                                         "set_server_random"}
         IN  Path(m, ServerHello12(m), Point(s, calls, DefectsOf(m), "same", "clear", FALSE, m.ver),
                  Rest("Certificate"))
  <1> DEFINE calls == HelloCalls \union {"set_protocol_version", "set_cipher_suite",
                                         "set_server_random"}
             a == Point(s, calls, DefectsOf(m), "same", "clear", FALSE, m.ver)
             b == Point(s, calls, {}, "same", "clear", FALSE, m.ver)
             r == Rest("Certificate")
  <1>1. Move(m, Check("downgrade", "IllegalParameter"), a, b)
    BY DEF DefectsOf, Move, CallMove, LogMove, KeysMove, DataMove, Hashed, Needs, Rest, Point,
           CallsOf, HelloCalls, PendingOf, LogOf, KeysOf, Hello, Encrypting, States13, Open,
           Waiting, Step, Check
  <1>2. "TLSv1_3" \notin Versions => a = b
    BY DEF DefectsOf
  <1>3. Move(m, Goto("Certificate"), b, r)
    BY DEF DefectsOf, Move, CallMove, LogMove, KeysMove, DataMove, Hashed, Needs, Rest, Point,
           CallsOf, HelloCalls, PendingOf, LogOf, KeysOf, Hello, Encrypting, States13, Open,
           Waiting, Step, Check, Goto
  <1> HIDE DEF a, b, r
  <1>4. Path(m, If("TLSv1_3" \in Versions, <<Check("downgrade", "IllegalParameter")>>), a, b)
    BY <1>1, <1>2, Path1, PathIf
  <1>5. Path(m, <<Refuse("sct"), Do("opts"), Goto("Certificate")>>, b, r)
    BY <1>3, Keeps, Path3
  <1>6. Path(m, ServerHello12(m), a, r)
    BY <1>4, <1>5, PathConcat DEF ServerHello12
  <1> QED BY <1>6 DEF a, r

LEMMA ServerHello13Path ==
  ASSUME NEW m, NEW s \in Hello, m.kind = "ServerHello", m.ver = "TLSv1_3", m.ver \in Versions
  PROVE  LET calls == HelloCalls \union {"set_protocol_version", "set_cipher_suite",
                                         "set_server_random"}
         IN  Path(m, ServerHello13, Point(s, calls, DefectsOf(m), "same", "clear", FALSE, m.ver),
                  Rest("EncryptedExtensions"))
  <1> DEFINE calls == HelloCalls \union {"set_protocol_version", "set_cipher_suite",
                                         "set_server_random"}
             a == Point(s, calls, DefectsOf(m), "same", "clear", FALSE, m.ver)
             b == Point(s, calls \union {"set_server_key_share"}, {}, "same", "clear", FALSE, m.ver)
             r == Rest("EncryptedExtensions")
  <1>1. Move(m, Call("set_server_key_share"), a, b)
    BY DEF DefectsOf, Move, CallMove, LogMove, KeysMove, DataMove, Hashed, Needs, Rest, Point,
           CallsOf, HelloCalls, PendingOf, LogOf, KeysOf, Hello, Encrypting, States13, Open,
           Waiting, Step, Call
  <1>2. /\ Move(m, Call("set_hs_hash_server_hello"), b, b) /\ Move(m, Call("set_decrypt"), b, b)
        /\ Move(m, Call("set_encrypt"), b, b) /\ Move(m, Do("fakeCcs"), b, b)
    BY DEF DefectsOf, Move, CallMove, LogMove, KeysMove, DataMove, Hashed, Needs, Rest, Point,
           CallsOf, HelloCalls, PendingOf, LogOf, KeysOf, Hello, Encrypting, States13, Open,
           Waiting, Step, Call, Do
  <1>3. Move(m, Goto("EncryptedExtensions"), b, r)
    BY DEF DefectsOf, Move, CallMove, LogMove, KeysMove, DataMove, Hashed, Needs, Rest, Point,
           CallsOf, HelloCalls, PendingOf, LogOf, KeysOf, Hello, Encrypting, States13, Open,
           Waiting, Step, Call, Goto
  <1> HIDE DEF a, b, r
  <1>4. Path(m, ServerHello13, a, r)
    BY <1>1, <1>2, <1>3, Keeps, Path10 DEF ServerHello13
  <1> QED BY <1>4 DEF a, r

LEMMA ServerHelloSafe ==
  ASSUME NEW m, NEW s \in Hello, m.kind = "ServerHello"
  PROVE  Safe(m, ExpectServerHello(m), Begin(s, m))
  <1>1. CASE m.ver \notin Versions
    BY <1>1, FailSafe DEF ExpectServerHello
  <1>2. CASE m.ver \in Versions
    <2> DEFINE P(calls, log, ver) ==
                 Point(s, HelloCalls \union calls, DefectsOf(m), log, "clear", FALSE, ver)
               v == {"set_protocol_version"}
               w == {"set_protocol_version", "set_cipher_suite"}
               x == {"set_protocol_version", "set_cipher_suite", "set_server_random"}
               a == Begin(s, m)
               b == P(v, "behind", "any")
               c == P(v, "behind", m.ver)
               d == P(w, "behind", m.ver)
               e == P(w, "same", m.ver)
               f == P(x, "same", m.ver)
               last == IF m.ver = "TLSv1_2" THEN "Certificate" ELSE "EncryptedExtensions"
    <2>1. Move(m, Call("set_protocol_version"), a, b) /\ Move(m, Do("negotiate"), b, c)
      BY DEF Begin, Received, IsHandshake, DefectsOf, Move, CallMove, LogMove, KeysMove, DataMove,
             Hashed, Needs, Point, CallsOf, HelloCalls, PendingOf, LogOf, KeysOf, Hello,
             Encrypting, States13, Open, Waiting, Step, Call, Alert, Do
    <2>2. Move(m, Call("set_cipher_suite"), c, d) /\ Move(m, Hash, d, e)
      BY DEF Begin, Received, IsHandshake, DefectsOf, Move, CallMove, LogMove, KeysMove, DataMove,
             Hashed, Needs, Point, CallsOf, HelloCalls, PendingOf, LogOf, KeysOf, Hello,
             Encrypting, States13, Open, Waiting, Step, Call, Alert, Hash
    <2>3. Move(m, Call("set_server_random"), e, f)
      BY DEF Begin, Received, IsHandshake, DefectsOf, Move, CallMove, LogMove, KeysMove, DataMove,
             Hashed, Needs, Point, CallsOf, HelloCalls, PendingOf, LogOf, KeysOf, Hello,
             Encrypting, States13, Open, Waiting, Step, Call, Alert
    <2>4. Path(m, IF m.ver = "TLSv1_2" THEN ServerHello12(m) ELSE ServerHello13, f, Rest(last))
      <3>1. CASE m.ver = "TLSv1_2"
        BY <3>1, ServerHello12Path
      <3>2. CASE m.ver # "TLSv1_2"
        BY <1>2, <3>2, ServerHello13Path, ClientAssumption
      <3> QED BY <3>1, <3>2
    <2> HIDE DEF a, b, c, d, e, f, last
    <2> DEFINE c1 == If(m.ver = "TLSv1_2", <<Check("v12ByExtension", "IllegalParameter")>>)
               c2 == <<Call("set_protocol_version"), Check("compression", "IllegalParameter"),
                       Check("duplicateExt", "DecodeError"),
                       Check("unsolicitedExt", "UnsupportedExtension"), Do("negotiate")>>
               c3 == If(m.ver = "TLSv1_2", Alpn)
               c4 == <<Check("pointFormat", "HandshakeFailure"), Check("suite", "HandshakeFailure"),
                       Check("suiteVersion", "IllegalParameter")>>
               c5 == If(hs.retried, <<Check("suiteVaried", "IllegalParameter")>>)
               c6 == <<Call("set_cipher_suite"), Hash, Call("set_server_random")>>
               c7 == IF m.ver = "TLSv1_2" THEN ServerHello12(m) ELSE ServerHello13
    <2>5. Path(m, c1, a, a)
      BY Keeps, Path1, PathIf
    <2>6. Path(m, c2, a, c)
      BY <2>1, Keeps, Path5
    <2>7. Path(m, c3, c, c)
      BY Keeps, Path1, PathIf DEF Alpn
    <2>8. Path(m, c4, c, c)
      BY Keeps, Path3
    <2>9. Path(m, c5, c, c)
      BY Keeps, Path1, PathIf
    <2>10. Path(m, c6, c, f)
      BY <2>2, <2>3, Path3
    <2>11. ExpectServerHello(m) = c1 \o c2 \o c3 \o c4 \o c5 \o c6 \o c7
      BY <1>2 DEF ExpectServerHello
    <2> HIDE DEF c1, c2, c3, c4, c5, c6, c7
    <2>12. Path(m, c1 \o c2 \o c3, a, c)
      BY <2>5, <2>6, <2>7, PathConcat
    <2>13. Path(m, c1 \o c2 \o c3 \o c4 \o c5, a, c)
      BY <2>8, <2>9, <2>12, PathConcat
    <2>14. Path(m, c1 \o c2 \o c3 \o c4 \o c5 \o c6 \o c7, a, Rest(last))
      BY <2>4, <2>10, <2>13, PathConcat DEF c7
    <2> QED BY <2>11, <2>14 DEF Safe, a
  <1> QED BY <1>1, <1>2

LEMMA CertificateSafe ==
  ASSUME NEW m, m.kind = "Certificate"
  PROVE  Safe(m, ExpectCertificate(m), Begin("Certificate", m))
  <1> DEFINE a == Begin("Certificate", m)
             P(calls) == Point("Certificate", calls, PendingOf("ServerKx"), "same", "clear", FALSE, "any")
             b == P(CallsOf("Certificate"))
             c == P(CallsOf("ServerKx"))
  <1>1. Move(m, Hash, a, b) /\ Move(m, Goto("StatusOrKx"), b, Rest("StatusOrKx"))
    BY DEF Begin, Received, IsHandshake, DefectsOf, Move, CallMove, LogMove, KeysMove, DataMove,
           Hashed, Needs, Rest, Point, CallsOf, HelloCalls, PendingOf, LogOf, KeysOf, Hello,
           Encrypting, States13, Open, Waiting, Step, Alert, Hash, Goto
  <1>2. /\ Move(m, Call("set_server_cert_details"), b, c)
        /\ Move(m, Goto("ServerKx"), c, Rest("ServerKx"))
    BY DEF Begin, Received, IsHandshake, DefectsOf, Move, CallMove, LogMove, KeysMove, DataMove,
           Hashed, Needs, Rest, Point, CallsOf, HelloCalls, PendingOf, LogOf, KeysOf, Hello,
           Encrypting, States13, Open, Waiting, Step, Call, Alert, Hash, Goto
  <1> HIDE DEF a, b, c
  <1>3. Path(m, <<Hash>>, a, b) /\ Path(m, <<Goto("StatusOrKx")>>, b, Rest("StatusOrKx"))
    BY <1>1, Path1
  <1>4. Path(m, <<Call("set_server_cert_details"), Goto("ServerKx")>>, b, Rest("ServerKx"))
    BY <1>2, Path2
  <1>5. CASE "status" \in hs.opts
    <2>1. Path(m, ExpectCertificate(m), a, Rest("StatusOrKx"))
      BY <1>3, <1>5, PathConcat DEF ExpectCertificate
    <2> QED BY <2>1 DEF Safe, a
  <1>6. CASE "status" \notin hs.opts
    <2>1. Path(m, ExpectCertificate(m), a, Rest("ServerKx"))
      BY <1>3, <1>4, <1>6, PathConcat DEF ExpectCertificate
    <2> QED BY <2>1 DEF Safe, a
  <1> QED BY <1>5, <1>6

\* The key exchange, whether the status before it was sent or not.
LEMMA ServerKxPath ==
  ASSUME NEW m, m.kind = "ServerKeyExchange", NEW s
  PROVE  Path(m, ExpectServerKx, Point(s, CallsOf("ServerKx"), PendingOf("DoneOrCertReq"), "behind",
                                       "clear", FALSE, "any"), Rest("DoneOrCertReq"))
  <1> DEFINE P(log) ==
               Point(s, CallsOf("ServerKx"), PendingOf("DoneOrCertReq"), log, "clear", FALSE, "any")
             a == P("behind")
             b == P("same")
  <1>1. Move(m, Hash, a, b) /\ Move(m, Goto("DoneOrCertReq"), b, Rest("DoneOrCertReq"))
    BY DEF Move, CallMove, LogMove, KeysMove, DataMove, Hashed, Needs, Rest, Point, CallsOf,
           HelloCalls, PendingOf, LogOf, KeysOf, Hello, Encrypting, States13, Open, Waiting, Step,
           Hash, Goto
  <1> HIDE DEF a, b
  <1>2. Path(m, ExpectServerKx, a, Rest("DoneOrCertReq"))
    BY <1>1, Keeps, Path3 DEF ExpectServerKx
  <1> QED BY <1>2 DEF a

LEMMA StatusSafe ==
  ASSUME NEW m, m.kind \in {"CertificateStatus", "ServerKeyExchange"}
  PROVE  Safe(m, ExpectCertificateStatusOrServerKx(m), Begin("StatusOrKx", m))
  <1> DEFINE a == Begin("StatusOrKx", m)
  <1>1. CASE m.kind = "CertificateStatus"
    <2> DEFINE P(calls) == Point("StatusOrKx", calls, PendingOf("ServerKx"), "same", "clear", FALSE, "any")
               b == P(CallsOf("StatusOrKx"))
               c == P(CallsOf("ServerKx"))
    <2>1. /\ Move(m, Hash, a, b) /\ Move(m, Call("set_server_cert_details"), b, c)
          /\ Move(m, Goto("ServerKx"), c, Rest("ServerKx"))
      BY <1>1 DEF Begin, Received, IsHandshake, DefectsOf, Move, CallMove, LogMove, KeysMove,
                  DataMove, Hashed, Needs, Rest, Point, CallsOf, HelloCalls, PendingOf, LogOf,
                  KeysOf, Hello, Encrypting, States13, Open, Waiting, Step, Call, Alert, Hash,
                  Goto
    <2> HIDE DEF a, b, c
    <2>2. Path(m, ExpectCertificateStatusOrServerKx(m), a, Rest("ServerKx"))
      BY <1>1, <2>1, Path3 DEF ExpectCertificateStatusOrServerKx, ExpectCertificateStatus
    <2> QED BY <2>2 DEF Safe, a
  <1>2. CASE m.kind = "ServerKeyExchange"
    <2> DEFINE b == Point("StatusOrKx", CallsOf("ServerKx"), PendingOf("DoneOrCertReq"), "behind",
                          "clear", FALSE, "any")
    <2>1. Move(m, Call("set_server_cert_details"), a, b)
      BY <1>2 DEF Begin, Received, IsHandshake, DefectsOf, Move, CallMove, LogMove, KeysMove,
                  DataMove, Hashed, Needs, Point, CallsOf, HelloCalls, PendingOf, LogOf, KeysOf,
                  Hello, Encrypting, States13, Open, Waiting, Step, Call, Alert
    <2>2. Path(m, ExpectServerKx, b, Rest("DoneOrCertReq"))
      BY <1>2, ServerKxPath
    <2> HIDE DEF a, b
    <2>3. Path(m, <<Call("set_server_cert_details")>> \o ExpectServerKx, a, Rest("DoneOrCertReq"))
      BY <2>1, <2>2, Path1, PathConcat
    <2> QED BY <1>2, <2>3 DEF Safe, a, ExpectCertificateStatusOrServerKx
  <1> QED BY <1>1, <1>2

LEMMA ServerKxSafe ==
  ASSUME NEW m, m.kind = "ServerKeyExchange"
  PROVE  Safe(m, ExpectServerKx, Begin("ServerKx", m))
  <1> DEFINE a == Begin("ServerKx", m)
             b == Point("ServerKx", CallsOf("ServerKx"), PendingOf("DoneOrCertReq"), "behind",
                        "clear", FALSE, "any")
             c == Point("ServerKx", CallsOf("ServerKx"), PendingOf("DoneOrCertReq"), "same",
                        "clear", FALSE, "any")
  <1>1. Move(m, Hash, a, c) /\ Move(m, Goto("DoneOrCertReq"), c, Rest("DoneOrCertReq"))
    BY DEF Begin, Received, IsHandshake, DefectsOf, Move, CallMove, LogMove, KeysMove, DataMove,
           Hashed, Needs, Rest, Point, CallsOf, HelloCalls, PendingOf, LogOf, KeysOf, Hello,
           Encrypting, States13, Open, Waiting, Step, Alert, Hash, Goto
  <1> HIDE DEF a, c
  <1>2. Path(m, ExpectServerKx, a, Rest("DoneOrCertReq"))
    BY <1>1, Keeps, Path3 DEF ExpectServerKx
  <1> QED BY <1>2 DEF Safe, a

LEMMA CertReqSafe ==
  ASSUME NEW m, m.kind = "CertificateRequest"
  PROVE  Safe(m, ExpectCertificateRequest, Begin("DoneOrCertReq", m))
  <1> DEFINE a == Begin("DoneOrCertReq", m)
             b == Rest("DoneOrCertReq")
  <1>1. Move(m, Hash, a, b) /\ Move(m, Goto("ServerDone"), b, Rest("ServerDone"))
    BY DEF Begin, Received, IsHandshake, DefectsOf, Move, CallMove, LogMove, KeysMove, DataMove,
           Hashed, Needs, Rest, Point, CallsOf, HelloCalls, PendingOf, LogOf, KeysOf, Hello,
           Encrypting, States13, Open, Waiting, Step, Alert, Hash, Goto
  <1> HIDE DEF a, b
  <1>2. Path(m, ExpectCertificateRequest, a, Rest("ServerDone"))
    BY <1>1, Keeps, Path3 DEF ExpectCertificateRequest
  <1> QED BY <1>2 DEF Safe, a

\* Behind the checks of ServerHelloDone no defect of the server is left.
LEMMA VerifyServerPath ==
  ASSUME NEW m, m.kind = "ServerHelloDone", NEW s \in {"DoneOrCertReq", "ServerDone"}
  PROVE  Path(m, VerifyServer, Begin(s, m),
              Point(s, CallsOf("ServerDone"), {}, "same", "clear", FALSE, "any"))
  <1> DEFINE P(pending) == Point(s, CallsOf("ServerDone"), pending, "same", "clear", FALSE, "any")
             a == Begin(s, m)
             b == P(PendingOf("ServerDone"))
             c == P({"certificate", "kxAlgorithm", "kxSignature"})
             d == P({"kxAlgorithm", "kxSignature"})
             e == P({"kxSignature"})
             f == P({})
  <1>1. Move(m, Hash, a, b) /\ Move(m, Refuse("noCertificate"), b, c)
    BY DEF Begin, Received, IsHandshake, DefectsOf, Move, CallMove, LogMove, KeysMove, DataMove,
           Hashed, Needs, Point, CallsOf, HelloCalls, PendingOf, LogOf, KeysOf, Hello, Encrypting,
           States13, Open, Waiting, Step, Refuse, Alert, Hash
  <1>2. Move(m, CertError("certificate"), c, d)
    BY DEF Begin, Received, IsHandshake, DefectsOf, Move, CallMove, LogMove, KeysMove, DataMove,
           Hashed, Needs, Point, CallsOf, HelloCalls, PendingOf, LogOf, KeysOf, Hello, Encrypting,
           States13, Open, Waiting, Step, Check, Refuse, CertError, Alert, Hash
  <1>3. Move(m, Refuse("kxAlgorithm"), d, e) /\ Move(m, CertError("kxSignature"), e, f)
    BY DEF Begin, Received, IsHandshake, DefectsOf, Move, CallMove, LogMove, KeysMove, DataMove,
           Hashed, Needs, Point, CallsOf, HelloCalls, PendingOf, LogOf, KeysOf, Hello, Encrypting,
           States13, Open, Waiting, Step, Check, Refuse, CertError, Alert, Hash
  <1> HIDE DEF a, b, c, d, e, f
  <1>4. Path(m, VerifyServer, a, f)
    BY <1>1, <1>2, <1>3, Keeps, Path6 DEF VerifyServer
  <1> QED BY <1>4 DEF a, f

LEMMA ClientFlightSafe ==
  ASSUME NEW m, NEW s
  PROVE  Safe(m, ClientFlight, Point(s, CallsOf("ServerDone"), {}, "same", "clear", FALSE, "any"))
  <1> DEFINE P(calls, keys) ==
               Point(s, CallsOf("ServerDone") \union calls, {}, "same", keys, FALSE, "any")
             x == {"get_client_key_share", "set_server_kx_details"}
             y == {"get_client_key_share", "set_server_kx_details", "set_server_key_share"}
             z == {"set_server_key_share", "get_client_finished_vd"}
             a == Point(s, CallsOf("ServerDone"), {}, "same", "clear", FALSE, "any")
             b == P({"get_client_key_share"}, "clear")
             c == P({"get_client_key_share"}, "ccs")
             d == P(x, "ccs")
             e == P(y, "ccs")
             f == P(y, "enc")
             g == P(z, "enc")
             next == IF "ticket" \in hs.opts THEN "NewTicket" ELSE "Ccs"
  <1>1. Move(m, Emit("Certificate"), a, a) /\ Move(m, Call("get_client_key_share"), a, b)
    BY DEF Move, CallMove, LogMove, KeysMove, DataMove, Hashed, Needs, Point, CallsOf, HelloCalls,
           Hello, Encrypting, States13, Open, Waiting, Step, Call, Emit
  <1>2. /\ Move(m, Emit("ClientKeyExchange"), b, b) /\ Move(m, Emit("CertificateVerify"), b, b)
        /\ Move(m, Call("set_hs_hash_client_key_exchange"), b, b)
    BY DEF Move, CallMove, LogMove, KeysMove, DataMove, Hashed, Needs, Point, CallsOf, HelloCalls,
           Hello, Encrypting, States13, Open, Waiting, Step, Call, Emit
  <1>3. Move(m, Emit("ChangeCipherSpec"), b, c) /\ Move(m, Call("set_server_kx_details"), c, d)
    BY DEF Move, CallMove, LogMove, KeysMove, DataMove, Hashed, Needs, Point, CallsOf, HelloCalls,
           Hello, Encrypting, States13, Open, Waiting, Step, Call, Emit
  <1>4. Move(m, Call("set_server_key_share"), d, e) /\ Move(m, Call("prepare_encryption"), e, e)
    BY DEF Move, CallMove, LogMove, KeysMove, DataMove, Hashed, Needs, Point, CallsOf, HelloCalls,
           Hello, Encrypting, States13, Open, Waiting, Step, Call, Emit
  <1>5. Move(m, Do("start_encrypting"), e, f) /\ Move(m, Call("get_client_finished_vd"), f, g)
    BY DEF Move, CallMove, LogMove, KeysMove, DataMove, Hashed, Needs, Point, CallsOf, HelloCalls,
           Hello, Encrypting, States13, Open, Waiting, Step, Call, Emit, Do
  <1>6. Move(m, Encrypt("Finished"), g, g) /\ Move(m, Goto(next), g, Rest(next))
    BY DEF Move, CallMove, LogMove, KeysMove, DataMove, Hashed, Needs, Rest, Point, CallsOf,
           HelloCalls, PendingOf, LogOf, KeysOf, Hello, Encrypting, States13, Open, Waiting, Step,
           Call, Emit, Encrypt, Goto
  <1> HIDE DEF a, b, c, d, e, f, g, next
  <1> DEFINE c1 == If(hs.auth # "none", <<Emit("Certificate")>>)
             c2 == <<Check("undecodedParams", "DecodeError"), Call("get_client_key_share"),
                     Refuse("group"), Emit("ClientKeyExchange"),
                     Call("set_hs_hash_client_key_exchange")>>
             c3 == If(hs.auth = "verify", <<Do("certverify"), Emit("CertificateVerify")>>)
             c4 == <<Emit("ChangeCipherSpec"), Call("set_server_kx_details"),
                     Call("set_server_key_share"), Call("prepare_encryption"),
                     Do("start_encrypting"), Call("get_client_finished_vd"), Encrypt("Finished"),
                     Goto(next)>>
  <1>7. Path(m, c1, a, a)
    BY <1>1, Path1, PathIf
  <1>8. Path(m, c2, a, b)
    BY <1>1, <1>2, Keeps, Path5
  <1>9. Path(m, c3, b, b)
    BY <1>2, Keeps, Path2, PathIf
  <1>10. Path(m, c4, b, Rest(next))
    BY <1>3, <1>4, <1>5, <1>6, Path8
  <1>11. ClientFlight = c1 \o c2 \o c3 \o c4
    BY DEF ClientFlight, next
  <1> HIDE DEF c1, c2, c3, c4
  <1>12. Path(m, c1 \o c2 \o c3 \o c4, a, Rest(next))
    BY <1>7, <1>8, <1>9, <1>10, PathConcat
  <1> QED BY <1>11, <1>12 DEF Safe, a

\* A path and what is safe behind it.
LEMMA SafeConcat ==
  ASSUME NEW m, NEW c, NEW d, NEW a, NEW b, Path(m, c, a, b), Safe(m, d, b)
  PROVE  Safe(m, c \o d, a)
  BY PathConcat DEF Safe

LEMMA ServerDoneSafe ==
  ASSUME NEW m, m.kind = "ServerHelloDone", NEW s \in {"DoneOrCertReq", "ServerDone"}
  PROVE  Safe(m, ExpectServerDone(m), Begin(s, m))
  BY VerifyServerPath, ClientFlightSafe, SafeConcat DEF ExpectServerDone

LEMMA DoneOrCertReqSafe ==
  ASSUME NEW m, m.kind \in {"CertificateRequest", "ServerHelloDone"}
  PROVE  Safe(m, ExpectServerDoneOrCertReq(m), Begin("DoneOrCertReq", m))
  <1>1. CASE m.kind = "CertificateRequest"
    BY <1>1, CertReqSafe DEF ExpectServerDoneOrCertReq
  <1>2. CASE m.kind = "ServerHelloDone"
    <2>1. Path(m, <<Do("abandon_client_auth")>>, Begin("DoneOrCertReq", m), Begin("DoneOrCertReq", m))
      BY Keeps, Path1
    <2> QED BY <1>2, <2>1, ServerDoneSafe, SafeConcat DEF ExpectServerDoneOrCertReq
  <1> QED BY <1>1, <1>2

LEMMA TicketSafe ==
  ASSUME NEW m, m.kind = "NewSessionTicket"
  PROVE  Safe(m, ExpectNewTicket, Begin("NewTicket", m))
  <1> DEFINE a == Begin("NewTicket", m)
             b == Rest("NewTicket")
  <1>1. Move(m, Hash, a, b) /\ Move(m, Goto("Ccs"), b, Rest("Ccs"))
    BY DEF Begin, Received, IsHandshake, DefectsOf, Move, CallMove, LogMove, KeysMove, DataMove,
           Hashed, Needs, Rest, Point, CallsOf, HelloCalls, PendingOf, LogOf, KeysOf, Hello,
           Encrypting, States13, Open, Waiting, Step, Alert, Hash, Goto
  <1> HIDE DEF a, b
  <1>2. Path(m, ExpectNewTicket, a, Rest("Ccs"))
    BY <1>1, Path2 DEF ExpectNewTicket
  <1> QED BY <1>2 DEF Safe, a

LEMMA CcsSafe ==
  ASSUME NEW m, m.kind = "ChangeCipherSpec"
  PROVE  Safe(m, ExpectCcs, Begin("Ccs", m))
  <1> DEFINE a == Begin("Ccs", m)
             b == Point("Ccs", CallsOf("Ccs"), {}, "same", "dec", FALSE, "any")
  <1>1. Move(m, Do("start_decrypting"), a, b) /\ Move(m, Goto("Finished"), b, Rest("Finished"))
    BY DEF Begin, Received, IsHandshake, DefectsOf, Move, CallMove, LogMove, KeysMove, DataMove,
           Hashed, Needs, Rest, Point, CallsOf, HelloCalls, PendingOf, LogOf, KeysOf, Hello,
           Encrypting, States13, Open, Waiting, Step, Alert, Do, Goto
  <1> HIDE DEF a, b
  <1>2. Path(m, ExpectCcs, a, Rest("Finished"))
    BY <1>1, Keeps, Path3 DEF ExpectCcs
  <1> QED BY <1>2 DEF Safe, a

\* Traffic starts when the backend has had both Finished and no defect is left.
LEMMA StartTrafficPath ==
  ASSUME NEW m, NEW s, NEW calls, NEW keys, NEW ver,
         {"get_client_finished_vd", "get_server_finished_vd"} \subseteq calls
  PROVE  Path(m, start_traffic, Point(s, calls, {}, "same", keys, FALSE, ver),
              Point(s, calls, {}, "same", keys, TRUE, ver))
  <1> DEFINE a == Point(s, calls, {}, "same", keys, FALSE, ver)
             b == Point(s, calls, {}, "same", keys, TRUE, ver)
  <1>1. /\ Move(m, Do("may_receive"), a, b) /\ Move(m, Call("start_traffic"), b, b)
        /\ Move(m, Do("flush_plaintext"), b, b)
    BY DEF Move, CallMove, LogMove, KeysMove, DataMove, Hashed, Needs, Point, Hello, Encrypting,
           States13, Waiting, Step, Call, Do
  <1> HIDE DEF a, b
  <1>2. Path(m, start_traffic, a, b)
    BY <1>1, Path3 DEF start_traffic
  <1> QED BY <1>2 DEF a, b

LEMMA FinishedSafe ==
  ASSUME NEW m, m.kind = "Finished"
  PROVE  Safe(m, ExpectFinished, Begin("Finished", m))
  <1> DEFINE P(calls, pending, log, data) == Point("Finished", calls, pending, log, "dec", data, "any")
             x == CallsOf("Finished") \union {"get_server_finished_vd"}
             a == Begin("Finished", m)
             b == P(x, {"verifyData"}, "behind", FALSE)
             c == P(x, {}, "behind", FALSE)
             d == P(x, {}, "same", FALSE)
             e == P(x, {}, "same", TRUE)
  <1>1. /\ Move(m, Call("get_server_finished_vd"), a, b)
        /\ Move(m, Check("verifyData", "DecryptError"), b, c)
    BY DEF Begin, Received, IsHandshake, DefectsOf, Move, CallMove, LogMove, KeysMove, DataMove,
           Hashed, Needs, Point, CallsOf, HelloCalls, PendingOf, LogOf, KeysOf, Hello, Encrypting,
           States13, Open, Waiting, Step, Call, Check, Alert
  <1>2. Move(m, Hash, c, d) /\ Move(m, Goto("Traffic"), e, Rest("Traffic"))
    BY DEF Begin, Received, IsHandshake, DefectsOf, Move, CallMove, LogMove, KeysMove, DataMove,
           Hashed, Needs, Rest, Point, CallsOf, HelloCalls, PendingOf, LogOf, KeysOf, Hello,
           Encrypting, States13, Open, Waiting, Step, Call, Check, Alert, Hash, Goto
  <1>3. Path(m, start_traffic, d, e)
    <2>1. {"get_client_finished_vd", "get_server_finished_vd"} \subseteq x
      BY DEF CallsOf, Hello, States13, Open
    <2> HIDE DEF x
    <2> QED BY <2>1, StartTrafficPath
  <1> HIDE DEF a, b, c, d, e
  <1>4. Path(m, <<Aligned, Call("get_server_finished_vd"), Check("verifyData", "DecryptError"),
                  Hash>>, a, d)
    BY <1>1, <1>2, Keeps, Path4
  <1>5. Path(m, <<Goto("Traffic")>>, e, Rest("Traffic"))
    BY <1>2, Path1
  <1>6. Path(m, ExpectFinished, a, Rest("Traffic"))
    BY <1>3, <1>4, <1>5, PathConcat DEF ExpectFinished
  <1> QED BY <1>6 DEF Safe, a

LEMMA TrafficSafe ==
  ASSUME NEW m, m.kind = "ApplicationData", NEW s \in Open, s = "Traffic13" \/ "prot" \in m.opts
  PROVE  Safe(m, ExpectTraffic, Begin(s, m))
  <1>1. Move(m, Do("take_received_plaintext"), Begin(s, m), Rest(s))
    BY DEF Begin, Received, IsHandshake, DefectsOf, Move, CallMove, LogMove, KeysMove, DataMove,
           Hashed, Needs, Rest, Point, CallsOf, HelloCalls, PendingOf, LogOf, KeysOf, Hello,
           Encrypting, States13, Open, Waiting, Step, Alert, Do
  <1>2. Path(m, ExpectTraffic, Begin(s, m), Rest(s))
    BY <1>1, Path1 DEF ExpectTraffic
  <1> QED BY <1>2 DEF Safe

LEMMA ExtensionsSafe ==
  ASSUME NEW m, m.kind = "EncryptedExtensions"
  PROVE  Safe(m, ExpectEncryptedExtensions, Begin("EncryptedExtensions", m))
  <1> DEFINE a == Begin("EncryptedExtensions", m)
             b == Rest("EncryptedExtensions")
             r == Rest("CertOrCertReq13")
  <1>1. Move(m, Hash, a, b) /\ Move(m, Goto("CertOrCertReq13"), b, r)
    BY DEF Begin, Received, IsHandshake, DefectsOf, Move, CallMove, LogMove, KeysMove, DataMove,
           Hashed, Needs, Rest, Point, CallsOf, HelloCalls, PendingOf, LogOf, KeysOf, Hello,
           Encrypting, States13, Open, Waiting, Step, Alert, Hash, Goto
  <1> HIDE DEF a, b, r
  <1>2. Path(m, <<Hash, Check("duplicateEe", "DecodeError"),
                  Check("unsolicitedEe", "UnsupportedExtension"),
                  Check("inappropriateEe", "UnsupportedExtension")>>, a, b)
    BY <1>1, Keeps, Path4
  <1>3. Path(m, Alpn, b, b)
    BY Keeps, Path1 DEF Alpn
  <1>4. Path(m, <<Refuse("earlyData"), Goto("CertOrCertReq13")>>, b, r)
    BY <1>1, Keeps, Path2
  <1>5. Path(m, ExpectEncryptedExtensions, a, r)
    BY <1>2, <1>3, <1>4, PathConcat DEF ExpectEncryptedExtensions
  <1> QED BY <1>5 DEF Safe, a, r

LEMMA Certificate13Safe ==
  ASSUME NEW m, m.kind = "Certificate", NEW s \in {"CertOrCertReq13", "Certificate13"}
  PROVE  Safe(m, ExpectCertificate13, Begin(s, m))
  <1> DEFINE a == Begin(s, m)
             b == Point(s, {"set_server_key_share"}, PendingOf("CertificateVerify13"), "same",
                        "clear", FALSE, "TLSv1_3")
             r == Rest("CertificateVerify13")
  <1>1. Move(m, Hash, a, b) /\ Move(m, Goto("CertificateVerify13"), b, r)
    BY DEF Begin, Received, IsHandshake, DefectsOf, Move, CallMove, LogMove, KeysMove, DataMove,
           Hashed, Needs, Rest, Point, CallsOf, HelloCalls, PendingOf, LogOf, KeysOf, Hello,
           Encrypting, States13, Open, Waiting, Step, Alert, Hash, Goto
  <1> HIDE DEF a, b, r
  <1>2. Path(m, ExpectCertificate13, a, r)
    BY <1>1, Keeps, Path5 DEF ExpectCertificate13
  <1> QED BY <1>2 DEF Safe, a, r

LEMMA CertReq13Safe ==
  ASSUME NEW m, m.kind = "CertificateRequest"
  PROVE  Safe(m, ExpectCertificateRequest13, Begin("CertOrCertReq13", m))
  <1> DEFINE a == Begin("CertOrCertReq13", m)
             b == Rest("CertOrCertReq13")
             r == Rest("Certificate13")
  <1>1. Move(m, Hash, a, b) /\ Move(m, Goto("Certificate13"), b, r)
    BY DEF Begin, Received, IsHandshake, DefectsOf, Move, CallMove, LogMove, KeysMove, DataMove,
           Hashed, Needs, Rest, Point, CallsOf, HelloCalls, PendingOf, LogOf, KeysOf, Hello,
           Encrypting, States13, Open, Waiting, Step, Alert, Hash, Goto
  <1> HIDE DEF a, b, r
  <1>2. Path(m, ExpectCertificateRequest13, a, r)
    BY <1>1, Keeps, Path5 DEF ExpectCertificateRequest13
  <1> QED BY <1>2 DEF Safe, a, r

LEMMA CertificateVerify13Safe ==
  ASSUME NEW m, m.kind = "CertificateVerify"
  PROVE  Safe(m, ExpectCertificateVerify13, Begin("CertificateVerify13", m))
  <1> DEFINE P(pending, log) == Point("CertificateVerify13", {"set_server_key_share"}, pending, log,
                                      "clear", FALSE, "TLSv1_3")
             a == Begin("CertificateVerify13", m)
             b == P({"certificate", "verifySignature"}, "behind")
             c == P({"verifySignature"}, "behind")
             d == P({}, "behind")
             e == P({}, "same")
             r == Rest("Finished13")
  <1>1. Move(m, Refuse("noCertificate"), a, b) /\ Move(m, CertError("certificate"), b, c)
    BY DEF Begin, Received, IsHandshake, DefectsOf, Move, CallMove, LogMove, KeysMove, DataMove,
           Hashed, Needs, Rest, Point, CallsOf, HelloCalls, PendingOf, LogOf, KeysOf, Hello,
           Encrypting, States13, Open, Waiting, Step, Check, Refuse, CertError, Alert
  <1>2. Move(m, CertError("verifySignature"), c, d) /\ Move(m, Hash, d, e)
    BY DEF Begin, Received, IsHandshake, DefectsOf, Move, CallMove, LogMove, KeysMove, DataMove,
           Hashed, Needs, Rest, Point, CallsOf, HelloCalls, PendingOf, LogOf, KeysOf, Hello,
           Encrypting, States13, Open, Waiting, Step, Check, Refuse, CertError, Alert, Hash
  <1>3. Move(m, Goto("Finished13"), e, r)
    BY DEF Begin, Received, IsHandshake, DefectsOf, Move, CallMove, LogMove, KeysMove, DataMove,
           Hashed, Needs, Rest, Point, CallsOf, HelloCalls, PendingOf, LogOf, KeysOf, Hello,
           Encrypting, States13, Open, Waiting, Step, Check, Refuse, CertError, Alert, Goto
  <1> HIDE DEF a, b, c, d, e, r
  <1>4. Path(m, ExpectCertificateVerify13, a, r)
    BY <1>1, <1>2, <1>3, Path5 DEF ExpectCertificateVerify13
  <1> QED BY <1>4 DEF Safe, a, r

LEMMA Finished13Safe ==
  ASSUME NEW m, m.kind = "Finished"
  PROVE  Safe(m, ExpectFinished13, Begin("Finished13", m))
  <1> DEFINE P(calls, pending, log, data) ==
               Point("Finished13", calls, pending, log, "clear", data, "TLSv1_3")
             x == {"set_server_key_share", "get_server_finished_vd"}
             y == {"get_server_finished_vd", "get_client_finished_vd"}
             a == Begin("Finished13", m)
             b == P(x, {"verifyData"}, "behind", FALSE)
             c == P(x, {}, "behind", FALSE)
             d == P(x, {}, "same", FALSE)
             e == P(y, {}, "same", FALSE)
             f == P(y, {}, "same", TRUE)
             r == Rest("Traffic13")
  <1>1. /\ Move(m, Call("get_server_finished_vd"), a, b)
        /\ Move(m, Check("verifyData", "DecryptError"), b, c)
    BY DEF Begin, Received, IsHandshake, DefectsOf, Move, CallMove, LogMove, KeysMove, DataMove,
           Hashed, Needs, Rest, Point, CallsOf, HelloCalls, PendingOf, LogOf, KeysOf, Hello,
           Encrypting, States13, Open, Waiting, Step, Call, Check, Alert
  <1>2. Move(m, Hash, c, d) /\ Move(m, Call("get_client_finished_vd"), d, e)
    BY DEF Begin, Received, IsHandshake, DefectsOf, Move, CallMove, LogMove, KeysMove, DataMove,
           Hashed, Needs, Rest, Point, CallsOf, HelloCalls, PendingOf, LogOf, KeysOf, Hello,
           Encrypting, States13, Open, Waiting, Step, Call, Check, Alert, Hash
  <1>3. Move(m, Encrypt("Certificate"), d, d) /\ Move(m, Encrypt("CertificateVerify"), d, d)
    BY DEF Begin, Received, IsHandshake, DefectsOf, Move, CallMove, LogMove, KeysMove, DataMove,
           Hashed, Needs, Rest, Point, CallsOf, HelloCalls, PendingOf, LogOf, KeysOf, Hello,
           Encrypting, States13, Open, Waiting, Step, Call, Check, Alert, Encrypt
  <1>4. /\ Move(m, Encrypt("Finished"), e, e) /\ Move(m, Call("set_encrypt"), e, e)
        /\ Move(m, Call("set_decrypt"), e, e) /\ Move(m, Goto("Traffic13"), f, r)
    BY DEF Begin, Received, IsHandshake, DefectsOf, Move, CallMove, LogMove, KeysMove, DataMove,
           Hashed, Needs, Rest, Point, CallsOf, HelloCalls, PendingOf, LogOf, KeysOf, Hello,
           Encrypting, States13, Open, Waiting, Step, Call, Check, Alert, Encrypt, Goto
  <1>5. Path(m, start_traffic, e, f)
    BY StartTrafficPath
  <1> HIDE DEF a, b, c, d, e, f, r
  <1> DEFINE c1 == <<Call("get_server_finished_vd"), Check("verifyData", "DecryptError"), Hash>>
             c2 == If(hs.auth # "none", <<Encrypt("Certificate")>>)
             c3 == If(hs.auth = "verify", <<Encrypt("CertificateVerify")>>)
             c4 == <<Call("get_client_finished_vd"), Encrypt("Finished"), Aligned,
                     Call("set_encrypt"), Call("set_decrypt")>>
             c6 == <<Goto("Traffic13")>>
  <1>6. Path(m, c1, a, d)
    BY <1>1, <1>2, Path3
  <1>7. Path(m, c2, d, d) /\ Path(m, c3, d, d)
    BY <1>3, Path1, PathIf
  <1>8. Path(m, c4, d, e)
    BY <1>2, <1>4, Keeps, Path5
  <1>9. Path(m, c6, f, r)
    BY <1>4, Path1
  <1>10. ExpectFinished13 = c1 \o c2 \o c3 \o c4 \o start_traffic \o c6
    BY DEF ExpectFinished13
  <1> HIDE DEF c1, c2, c3, c4, c6
  <1>11. Path(m, c1 \o c2 \o c3, a, d)
    BY <1>6, <1>7, PathConcat
  <1>12. Path(m, c1 \o c2 \o c3 \o c4 \o start_traffic \o c6, a, r)
    BY <1>5, <1>8, <1>9, <1>11, PathConcat
  <1> QED BY <1>10, <1>12 DEF Safe, a, r

LEMMA Traffic13Safe ==
  ASSUME NEW m, m.kind \in {"ApplicationData", "NewSessionTicket", "KeyUpdate"}
  PROVE  Safe(m, ExpectTraffic13(m), Begin("Traffic13", m))
  <1>1. CASE m.kind = "ApplicationData"
    BY <1>1, TrafficSafe DEF ExpectTraffic13, Open
  <1> DEFINE a == Begin("Traffic13", m)
             r == Rest("Traffic13")
  <1>2. CASE m.kind = "NewSessionTicket"
    <2>1. Move(m, Check("duplicateNst", "IllegalParameter"), a, r)
      BY <1>2 DEF Begin, Received, IsHandshake, DefectsOf, Move, CallMove, LogMove, KeysMove,
                  DataMove, Hashed, Needs, Rest, Point, CallsOf, HelloCalls, PendingOf, LogOf,
                  KeysOf, Hello, Encrypting, States13, Open, Waiting, Step, Check, Alert
    <2> HIDE DEF a, r
    <2>2. Path(m, ExpectTraffic13(m), a, r)
      BY <1>2, <2>1, Path1 DEF ExpectTraffic13
    <2> QED BY <2>2 DEF Safe, a, r
  <1>3. CASE m.kind = "KeyUpdate"
    <2>1. Move(m, Fail("InternalError"), a, r)
      BY DEF Move, Fail, Step
    <2> HIDE DEF a, r
    <2>2. Path(m, ExpectTraffic13(m), a, r)
      BY <1>3, <2>1, Keeps, Path2 DEF ExpectTraffic13
    <2> QED BY <2>2 DEF Safe, a, r
  <1> QED BY <1>1, <1>2, <1>3

\* Every handler is safe where its state starts it.
LEMMA HandlerSafe ==
  ASSUME NEW m, NEW s \in Waiting, m.kind \in Expects(s), s = "Traffic" => "prot" \in m.opts
  PROVE  Safe(m, Handler(s, m), Begin(s, m))
  <1>1. CASE s \in Hello
    <2>1. m.kind = "ServerHello" \/ (m.kind = "HelloRetryRequest" /\ s = "ServerHelloOrRetry")
      BY <1>1 DEF Expects, Hello
    <2>2. CASE m.kind = "ServerHello"
      BY <1>1, <2>2, ServerHelloSafe DEF Handler, Hello
    <2>3. CASE m.kind = "HelloRetryRequest" /\ s = "ServerHelloOrRetry"
      BY <2>3, RetrySafe DEF Handler
    <2> QED BY <2>1, <2>2, <2>3
  <1>2. CASE s = "Certificate"
    BY <1>2, CertificateSafe DEF Handler, Expects
  <1>3. CASE s = "StatusOrKx"
    BY <1>3, StatusSafe DEF Handler, Expects
  <1>4. CASE s = "ServerKx"
    BY <1>4, ServerKxSafe DEF Handler, Expects
  <1>5. CASE s = "DoneOrCertReq"
    BY <1>5, DoneOrCertReqSafe DEF Handler, Expects
  <1>6. CASE s = "ServerDone"
    BY <1>6, ServerDoneSafe DEF Handler, Expects
  <1>7. CASE s = "NewTicket"
    BY <1>7, TicketSafe DEF Handler, Expects
  <1>8. CASE s = "Ccs"
    BY <1>8, CcsSafe DEF Handler, Expects
  <1>9. CASE s = "Finished"
    BY <1>9, FinishedSafe DEF Handler, Expects
  <1>10. CASE s = "Traffic"
    BY <1>10, TrafficSafe DEF Handler, Expects, Open
  <1>11. CASE s = "EncryptedExtensions"
    BY <1>11, ExtensionsSafe DEF Handler, Expects
  <1>12. CASE s = "CertOrCertReq13"
    BY <1>12, Certificate13Safe, CertReq13Safe DEF Handler, Expects, ExpectCertificateOrCertReq13
  <1>13. CASE s = "Certificate13"
    BY <1>13, Certificate13Safe DEF Handler, Expects
  <1>14. CASE s = "CertificateVerify13"
    BY <1>14, CertificateVerify13Safe DEF Handler, Expects
  <1>15. CASE s = "Finished13"
    BY <1>15, Finished13Safe DEF Handler, Expects
  <1>16. CASE s = "Traffic13"
    BY <1>16, Traffic13Safe DEF Handler, Expects
  <1> QED BY <1>1, <1>2, <1>3, <1>4, <1>5, <1>6, <1>7, <1>8, <1>9, <1>10, <1>11, <1>12, <1>13,
             <1>14, <1>15, <1>16 DEF Waiting, Encrypting, States13

\* The alerts of the peer, and the answer to a HelloRequest during traffic.
LEMMA AlertSafe ==
  ASSUME NEW m, NEW s \in Waiting
  PROVE  /\ Safe(m, process_alert(m), Rest(s))
         /\ Safe(m, <<Step("warn", "NoRenegotiation", "none")>>, Rest(s))
  <1> DEFINE a == Rest(s)
  <1>1. /\ Move(m, Alert("IllegalParameter"), a, a) /\ Move(m, Alert("DecodeError"), a, a)
        /\ Move(m, Step("warn", "NoRenegotiation", "none"), a, a)
    BY DEF Move, CallMove, LogMove, KeysMove, DataMove, Hashed, Needs, Rest, Point, CallsOf,
           HelloCalls, PendingOf, LogOf, KeysOf, Hello, Encrypting, States13, Open, Waiting, Step,
           Alert
  <1> HIDE DEF a
  <1>2. Path(m, If("unknown" \in m.opts, <<Alert("IllegalParameter")>>), a, a)
    BY <1>1, Path1, PathIf
  <1>3. Path(m, If("warning" \in m.opts, <<Alert("DecodeError")>>), a, a)
    BY <1>1, Path1, PathIf
  <1>4. Safe(m, <<Do("close_notify")>>, a) /\ Safe(m, <<Step("warn", "NoRenegotiation", "none")>>, a)
    BY <1>1, Keeps, Path1 DEF Safe, a
  <1>5. Safe(m, If("warning" \in m.opts, <<Alert("DecodeError")>>) \o <<Fail("none")>>, a)
    BY <1>3, FailSafe, SafeConcat
  <1>6. Safe(m, process_alert(m), a)
    <2> DEFINE c == If("unknown" \in m.opts, <<Alert("IllegalParameter")>>)
    <2>1. CASE "close_notify" \in m.opts
      <3>1. process_alert(m) = c \o <<Do("close_notify")>>
        BY <2>1 DEF process_alert
      <3> QED BY <1>2, <1>4, <3>1, SafeConcat
    <2> DEFINE ignored == /\ "close_notify" \notin m.opts /\ "warning" \in m.opts
                          /\ common.version # "TLSv1_3" \/ "user_canceled" \in m.opts
    <2>2. CASE ignored
      <3>1. process_alert(m) = c \o <<>>
        BY <2>2 DEF process_alert
      <3>2. Safe(m, <<>>, a)
        BY PathEmpty DEF Safe, a
      <3> QED BY <1>2, <3>1, <3>2, SafeConcat
    <2>3. CASE "close_notify" \notin m.opts /\ ~ignored
      <3> DEFINE d == If("warning" \in m.opts, <<Alert("DecodeError")>>) \o <<Fail("none")>>
      <3>1. process_alert(m) = c \o d
        BY <2>3 DEF process_alert
      <3> HIDE DEF c, d
      <3>2. Path(m, c, a, a) /\ Safe(m, d, a)
        BY <1>2, <1>5 DEF c, d
      <3> QED BY <3>1, <3>2, SafeConcat
    <2> QED BY <2>1, <2>2, <2>3
  <1> QED BY <1>4, <1>6 DEF a

-----------------------------------------------------------------------------
(* The invariant *)

AllRecords == Records \union OddRecords
Opened == {r \in AllRecords : Opens(r)}
HandshakeMessages == {m \in Messages : IsHandshake(m)}
Version == STRING \union {"none", "TLSv1_2", "TLSv1_3"}
Option == STRING \union {"prot"}

\* Types of the fields that the handlers change
Fields ==
  /\ common \in [version : Version, aligned : BOOLEAN, may_send : BOOLEAN, may_receive : BOOLEAN,
                 fatal : Nat, close_notify : BOOLEAN, eof : BOOLEAN, ccs : Nat, desynced : BOOLEAN]
  /\ hs \in [opts : SUBSET Option, auth : {"none", "empty", "verify"}, authBuf : BOOLEAN,
             retried : BOOLEAN, fakeCcs : BOOLEAN, flaws : SUBSET STRING]
  /\ plain \in [sendable : Seq(Nat), received : Seq(SUBSET Option)]
  /\ env \in [sent : Nat, odd : Nat, wrote : Nat]
  /\ msg.ver \in Version /\ msg.opts \subseteq Option
  /\ IsSeq(hslog) /\ IsSeq(transcript)

\* What the backend was given to seal is sealed before it is queued
Sealed(q) == IsSeq(q) /\ \A i \in 1 .. Len(q) : q[i].enc

LayerType ==
  [enc : {"Invalid", "Active"}, dec : {"Invalid", "Prepared", "Active"}, write_seq : Nat,
   read_seq : Nat]

Output ==
  /\ be = [calls |-> be.calls, early |-> be.early, inEnc |-> be.inEnc, inPlain |-> be.inPlain,
           outPlain |-> be.outPlain, outEnc |-> be.outEnc]
  /\ rl \in LayerType
  /\ IsSeq(tls) /\ Sealed(be.outPlain) /\ Sealed(be.outEnc)
  /\ ProtectedAfterCcs

\* Behind the backend there are only records that it has opened
Input ==
  /\ frames \in Seq(AllRecords) /\ joiner \in Seq(HandshakeMessages)
  /\ state \notin {"Error", "Panic"} =>
       be.inEnc \in Seq(AllRecords) /\ be.inPlain \in Seq(Opened)

Control ==
  /\ pc \in {"idle", "start", "opaque", "incoming"}
  /\ state \in Waiting \union {"Initialized", "Error", "Panic"}
  /\ pc = "idle" => script = <<>>
  /\ pc \in {"opaque", "incoming"} => state \in Waiting
  /\ state \in {"Error", "Panic"} => pc = "idle"
  /\ state = "Initialized" \/ pc = "start" => joiner = <<>>

Sound ==
  state \notin {"Error", "Panic"} => \E a : Holds(a) /\ Safe(msg, script, a)

IInv == Fields /\ Output /\ Input /\ Control /\ DataAuthenticated /\ BackendReady /\ Sound

-----------------------------------------------------------------------------
(* Sequences *)

LEMMA AppendIsSeq ==
  ASSUME NEW c, NEW x, IsSeq(c)
  PROVE  /\ IsSeq(Append(c, x)) /\ Len(c) \in Nat /\ Len(Append(c, x)) = Len(c) + 1
         /\ Append(c, x)[Len(c) + 1] = x /\ \A i \in 1 .. Len(c) : Append(c, x)[i] = c[i]
  <1>1. PICK S : c \in Seq(S)
    BY DEF IsSeq
  <1>2. c \in Seq(S \union {x})
    BY <1>1
  <1>3. Append(c, x) \in Seq(S \union {x})
    BY <1>2
  <1> QED BY <1>2, <1>3 DEF IsSeq

LEMMA ConcatIsSeq ==
  ASSUME NEW c, NEW d, IsSeq(c), IsSeq(d)
  PROVE  /\ IsSeq(c \o d) /\ Len(c) \in Nat /\ Len(d) \in Nat /\ Len(c \o d) = Len(c) + Len(d)
         /\ \A i \in 1 .. Len(c) : (c \o d)[i] = c[i]
         /\ \A i \in 1 .. Len(d) : (c \o d)[Len(c) + i] = d[i]
  <1>1. PICK S, T : c \in Seq(S) /\ d \in Seq(T)
    BY DEF IsSeq
  <1>2. c \in Seq(S \union T) /\ d \in Seq(S \union T)
    BY <1>1
  <1>3. c \o d \in Seq(S \union T)
    BY <1>2
  <1> QED BY <1>2, <1>3 DEF IsSeq

LEMMA SubIsSeq ==
  ASSUME NEW c, IsSeq(c), NEW a \in 1 .. Len(c) + 1, NEW b \in 0 .. Len(c)
  PROVE  /\ IsSeq(SubSeq(c, a, b))
         /\ Len(SubSeq(c, a, b)) = IF a <= b THEN b - a + 1 ELSE 0
         /\ \A i \in 1 .. b - a + 1 : SubSeq(c, a, b)[i] = c[a + i - 1]
  <1>1. PICK S : c \in Seq(S)
    BY DEF IsSeq
  <1>2. SubSeq(c, a, b) \in Seq(S)
    BY <1>1
  <1>3. IsSeq(SubSeq(c, a, b))
    BY <1>2 DEF IsSeq
  <1>4. Len(SubSeq(c, a, b)) = IF a <= b THEN b - a + 1 ELSE 0
    BY <1>1
  <1>5. \A i \in 1 .. b - a + 1 : SubSeq(c, a, b)[i] = c[a + i - 1]
    BY <1>1
  <1> QED BY <1>3, <1>4, <1>5

\* Sequences with the same elements are the same.
LEMMA SameSeq ==
  ASSUME NEW c, NEW d, IsSeq(c), IsSeq(d), Len(c) = Len(d),
         \A i \in 1 .. Len(c) : c[i] = d[i]
  PROVE  c = d
  <1>1. PICK S, T : c \in Seq(S) /\ d \in Seq(T)
    BY DEF IsSeq
  <1>2. c \in Seq(S \union T) /\ d \in Seq(S \union T)
    BY <1>1
  <1> QED BY <1>2, SeqEqual

LEMMA SealedConcat ==
  ASSUME NEW c, NEW d, Sealed(c), Sealed(d)
  PROVE  Sealed(c \o d)
  <1>1. IsSeq(c) /\ IsSeq(d)
    BY DEF Sealed
  <1> DEFINE e == c \o d
  <1>2. /\ IsSeq(e) /\ Len(c) \in Nat /\ Len(d) \in Nat /\ Len(e) = Len(c) + Len(d)
        /\ \A i \in 1 .. Len(c) : e[i] = c[i]
        /\ \A i \in 1 .. Len(d) : e[Len(c) + i] = d[i]
    BY <1>1, ConcatIsSeq
  <1> HIDE DEF e
  <1>3. ASSUME NEW i \in 1 .. Len(e) PROVE e[i].enc
    <2>1. CASE i <= Len(c)
      <3>1. i \in 1 .. Len(c)
        BY <1>2, <2>1
      <3> QED BY <1>2, <3>1 DEF Sealed
    <2>2. CASE i > Len(c)
      <3>1. i - Len(c) \in 1 .. Len(d) /\ Len(c) + (i - Len(c)) = i
        BY <1>2, <2>2
      <3>2. e[i] = d[i - Len(c)]
        BY <1>2, <3>1
      <3> QED BY <3>1, <3>2 DEF Sealed
    <2> QED BY <1>2, <2>1, <2>2
  <1>4. Sealed(e)
    BY <1>2, <1>3 DEF Sealed
  <1> QED BY <1>4 DEF e

LEMMA SealedFront ==
  ASSUME NEW c, Sealed(c), NEW n \in 0 .. Len(c)
  PROVE  Sealed(SubSeq(c, 1, n))
  <1>1. IsSeq(c) /\ Len(c) \in Nat
    BY ConcatIsSeq DEF Sealed
  <1> DEFINE d == SubSeq(c, 1, n)
  <1>2. 1 \in 1 .. Len(c) + 1 /\ n - 1 + 1 = n
    BY <1>1
  <1>3. IsSeq(d) /\ Len(d) = n /\ \A i \in 1 .. n : d[i] = c[1 + i - 1]
    BY <1>1, <1>2, SubIsSeq
  <1> HIDE DEF d
  <1>4. ASSUME NEW i \in 1 .. Len(d) PROVE d[i].enc
    <2>1. i \in 1 .. n /\ 1 + i - 1 = i /\ i \in 1 .. Len(c)
      BY <1>1, <1>3
    <2> QED BY <1>3, <2>1 DEF Sealed
  <1>5. Sealed(d)
    BY <1>3, <1>4 DEF Sealed
  <1> QED BY <1>5 DEF d

LEMMA Literals ==
  ASSUME NEW x, NEW y
  PROVE  /\ IsSeq(<<>>) /\ IsSeq(<<x>>) /\ IsSeq(<<x, y>>)
         /\ Append(<<>>, x) = <<x>> /\ Append(<<x>>, y) = <<x, y>>
  <1>1. <<>> \in Seq({x, y}) /\ <<x>> \in Seq({x, y}) /\ <<x, y>> \in Seq({x, y})
    OBVIOUS
  <1>2. IsSeq(<<>>) /\ IsSeq(<<x>>) /\ IsSeq(<<x, y>>)
    BY <1>1 DEF IsSeq
  <1>3. Append(<<>>, x) = <<x>>
    <2>1. IsSeq(Append(<<>>, x)) /\ Len(Append(<<>>, x)) = 1 /\ Append(<<>>, x)[1] = x
      BY <1>2, AppendIsSeq
    <2> QED BY <1>2, <2>1, SameSeq
  <1>4. Append(<<x>>, y) = <<x, y>>
    <2> DEFINE c == Append(<<x>>, y)
    <2>1. IsSeq(c) /\ Len(c) = 2 /\ c[1] = x /\ c[2] = y
      BY <1>2, AppendIsSeq, 1 \in 1 .. Len(<<x>>)
    <2> HIDE DEF c
    <2>2. \A i \in 1 .. 2 : c[i] = <<x, y>>[i]
      BY <2>1
    <2>3. c = <<x, y>>
      BY <1>2, <2>1, <2>2, SameSeq
    <2> QED BY <2>3 DEF c
  <1> QED BY <1>2, <1>3, <1>4

-----------------------------------------------------------------------------
(* Sending *)

\* What sending leaves alone
Kept ==
  /\ be'.calls = be.calls /\ be'.early = be.early
  /\ be'.inEnc = be.inEnc /\ be'.inPlain = be.inPlain
  /\ rl'.enc = rl.enc /\ rl'.dec = rl.dec

LEMMA FitBound ==
  ASSUME Output, NEW items, IsSeq(items)
  PROVE  Fit(items) \in 0 .. Len(items)
  <1>1. Len(items) \in Nat
    BY ConcatIsSeq
  <1>2. rl.write_seq \in Nat /\ HardLimit \in Nat
    BY ClientAssumption DEF Output, LayerType
  <1> QED BY <1>1, <1>2 DEF Fit, Least

\* The property of the queue needs nothing but the queue and the state of the keys.
LEMMA QueueSame ==
  ASSUME ProtectedAfterCcs, UNCHANGED tls, rl'.enc = rl.enc
  PROVE  ProtectedAfterCcs'
  BY DEF ProtectedAfterCcs

LEMMA PushedOutput ==
  ASSUME Output, NEW items, Sealed(items), Pushed(items), UNCHANGED tls
  PROVE  Output' /\ Kept
  <1> DEFINE q == SubSeq(items, 1, Fit(items))
  <1>1. Fit(items) \in 0 .. Len(items)
    BY FitBound DEF Sealed
  <1>2. Sealed(q)
    BY <1>1, SealedFront
  <1>3. Sealed(be.outPlain \o q)
    BY <1>2, SealedConcat DEF Output
  <1> HIDE DEF q
  <1>4. be' = [be EXCEPT !.outPlain = @ \o q] /\ rl' = [rl EXCEPT !.write_seq = @ + Fit(items)]
    BY DEF Pushed, q
  <1>5. be = [calls |-> be.calls, early |-> be.early, inEnc |-> be.inEnc, inPlain |-> be.inPlain,
              outPlain |-> be.outPlain, outEnc |-> be.outEnc]
    BY DEF Output
  <1>6. be' = [calls |-> be.calls, early |-> be.early, inEnc |-> be.inEnc, inPlain |-> be.inPlain,
               outPlain |-> be.outPlain \o q, outEnc |-> be.outEnc]
    BY <1>4, <1>5
  <1>7. /\ be'.calls = be.calls /\ be'.early = be.early /\ be'.inEnc = be.inEnc
        /\ be'.inPlain = be.inPlain /\ be'.outPlain = be.outPlain \o q /\ be'.outEnc = be.outEnc
    BY <1>6
  <1>8. /\ rl' \in LayerType
        /\ rl'.enc = rl.enc /\ rl'.dec = rl.dec
    <2> DEFINE n == Fit(items)
               l == Len(items)
    <2>1. l \in Nat /\ n \in 0 .. l
      BY <1>1, ConcatIsSeq DEF Sealed
    <2>2. rl' = [rl EXCEPT !.write_seq = @ + n]
      BY <1>4
    <2>3. rl \in LayerType
      BY DEF Output
    <2> HIDE DEF n, l
    <2>4. n \in Nat
      BY <2>1
    <2> QED BY <2>2, <2>3, <2>4 DEF LayerType
  <1>9. ProtectedAfterCcs'
    BY <1>8, QueueSame DEF Output
  <1> QED BY <1>3, <1>6, <1>7, <1>8, <1>9 DEF Output, Kept

LEMMA SealedLiteral ==
  ASSUME NEW x, NEW y, x.enc, y.enc
  PROVE  Sealed(<<>>) /\ Sealed(<<x>>) /\ Sealed(<<x, y>>)
  <1> DEFINE c == <<x>>
             d == <<x, y>>
  <1>1. Len(<<>>) = 0 /\ Len(c) = 1 /\ Len(d) = 2 /\ c[1] = x /\ d[1] = x /\ d[2] = y
    OBVIOUS
  <1>2. IsSeq(<<>>) /\ IsSeq(c) /\ IsSeq(d)
    BY Literals
  <1> HIDE DEF c, d
  <1>3. \A i \in 1 .. Len(c) : c[i].enc
    BY <1>1
  <1>4. \A i \in 1 .. Len(d) : d[i].enc
    <2>1. \A i \in 1 .. Len(d) : i = 1 \/ i = 2
      BY <1>1
    <2> QED BY <1>1, <2>1
  <1>5. Sealed(<<>>) /\ Sealed(c) /\ Sealed(d)
    BY <1>1, <1>2, <1>3, <1>4 DEF Sealed
  <1> QED BY <1>5 DEF c, d

LEMMA EncryptSealed ==
  ASSUME NEW kind
  PROVE  Sealed(EncryptItems(kind))
  <1>1. Item("close_notify", 0, TRUE).enc /\ Item(kind, 0, TRUE).enc
    BY DEF Item
  <1>2. /\ Sealed(<<Item("close_notify", 0, TRUE), Item(kind, 0, TRUE)>>)
        /\ Sealed(<<Item(kind, 0, TRUE)>>)
    BY <1>1, SealedLiteral
  <1> QED BY <1>2 DEF EncryptItems

\* A message in the clear leaves only before the keys are in use.
LEMMA SendMsg ==
  ASSUME Output, NEW kind, NEW enc \in BOOLEAN, rl.enc = "Active" => enc, send_msg(kind, enc)
  PROVE  /\ Output' /\ Kept
         /\ enc => UNCHANGED tls
         /\ ~enc => tls' = Append(tls, Item(kind, 0, FALSE))
  <1>1. CASE enc
    <2>1. Pushed(EncryptItems(kind)) /\ UNCHANGED tls
      BY <1>1 DEF send_msg
    <2> QED BY <1>1, <2>1, EncryptSealed, PushedOutput
  <1>2. CASE ~enc
    <2>1. tls' = Append(tls, Item(kind, 0, FALSE)) /\ UNCHANGED <<rl, be>>
      BY <1>2 DEF send_msg
    <2>2. IsSeq(tls')
      BY <2>1, AppendIsSeq DEF Output
    <2>3. ProtectedAfterCcs'
      BY <1>2, <2>1 DEF ProtectedAfterCcs
    <2> QED BY <1>2, <2>1, <2>2, <2>3 DEF Output, Kept
  <1> QED BY <1>1, <1>2

LEMMA SendAlert ==
  ASSUME Output, Fields, NEW l, send_fatal_alert(l)
  PROVE  /\ Output' /\ Kept
         /\ rl.enc = "Active" => UNCHANGED tls
         /\ \/ UNCHANGED common
            \/ common' = [common EXCEPT !.fatal = @ + 1]
  <1>1. send_msg("Alert", IsEncrypting) /\ IsEncrypting \in BOOLEAN
    BY DEF send_fatal_alert, IsEncrypting
  <1>2. rl.enc = "Active" <=> IsEncrypting
    BY DEF IsEncrypting
  <1> DEFINE enc == IsEncrypting
  <1>3. Output' /\ Kept /\ (enc => UNCHANGED tls)
    <2>1. enc \in BOOLEAN /\ send_msg("Alert", enc) /\ (rl.enc = "Active" => enc)
      BY <1>1, <1>2
    <2> HIDE DEF enc
    <2> QED BY <2>1, SendMsg
  <1> QED BY <1>2, <1>3 DEF send_fatal_alert

-----------------------------------------------------------------------------
(* The transcript *)

\* The conversation with one message more, which is not a second hello retry.
LEMMA ConversationAppend ==
  ASSUME NEW log, NEW kind, IsSeq(log), log # <<>>,
         Len(log) = 1 => kind # "HelloRetryRequest"
  PROVE  Conversation(Append(log, kind)) = Append(Conversation(log), kind)
  <1> DEFINE c == Append(log, kind)
             n == Len(log)
             mh == <<"message_hash">>
  <1>1. /\ IsSeq(c) /\ n \in Nat /\ Len(c) = n + 1 /\ c[n + 1] = kind
        /\ \A i \in 1 .. n : c[i] = log[i]
    BY AppendIsSeq
  <1>2. n >= 1
    <2>1. PICK S : log \in Seq(S)
      BY DEF IsSeq
    <2> QED BY <2>1
  <1> HIDE DEF c, n
  <1>3. CASE n = 1
    <2>1. c[2] # "HelloRetryRequest" /\ ~(n > 1)
      BY <1>1, <1>3 DEF n
    <2> QED BY <2>1, <1>1, <1>3 DEF Conversation, c, n
  <1>4. CASE n > 1 /\ log[2] # "HelloRetryRequest"
    <2>1. c[2] # "HelloRetryRequest"
      BY <1>1, <1>4, 2 \in 1 .. n
    <2> QED BY <2>1, <1>4 DEF Conversation, c, n
  <1>5. CASE n > 1 /\ log[2] = "HelloRetryRequest"
    <2>1. c[2] = "HelloRetryRequest" /\ Len(c) > 1
      BY <1>1, <1>5, 2 \in 1 .. n
    <2> DEFINE d == SubSeq(log, 2, n)
               e == SubSeq(c, 2, n + 1)
               f == mh \o d
               g == mh \o e
               h == Append(f, kind)
    <2>2. Conversation(log) = f /\ Conversation(c) = g
      BY <1>1, <1>5, <2>1 DEF Conversation, n
    <2>3. IsSeq(d) /\ Len(d) = n - 1 /\ \A i \in 1 .. n - 1 : d[i] = log[i + 1]
      <3>1. 2 \in 1 .. Len(log) + 1 /\ n \in 0 .. Len(log) /\ 2 <= n
        BY <1>1, <1>5 DEF n
      <3>2. /\ IsSeq(d) /\ Len(d) = n - 2 + 1 /\ \A i \in 1 .. n - 2 + 1 : d[i] = log[2 + i - 1]
        BY <3>1, SubIsSeq
      <3> HIDE DEF d
      <3> QED BY <1>1, <3>2
    <2>4. IsSeq(e) /\ Len(e) = n /\ \A i \in 1 .. n : e[i] = c[i + 1]
      <3>1. 2 \in 1 .. Len(c) + 1 /\ n + 1 \in 0 .. Len(c) /\ 2 <= n + 1
        BY <1>1, <1>5
      <3>2. /\ IsSeq(e) /\ Len(e) = n + 1 - 2 + 1
            /\ \A i \in 1 .. n + 1 - 2 + 1 : e[i] = c[2 + i - 1]
        BY <1>1, <3>1, SubIsSeq
      <3> HIDE DEF e
      <3> QED BY <1>1, <3>2
    <2>5. IsSeq(mh) /\ Len(mh) = 1 /\ mh[1] = "message_hash"
      BY Literals
    <2> HIDE DEF d, e, mh
    <2>6. /\ IsSeq(f) /\ Len(f) = n /\ f[1] = mh[1] /\ \A i \in 1 .. n - 1 : f[1 + i] = d[i]
      <3>1. /\ IsSeq(f) /\ Len(f) = Len(mh) + Len(d) /\ \A i \in 1 .. Len(mh) : f[i] = mh[i]
            /\ \A i \in 1 .. Len(d) : f[Len(mh) + i] = d[i]
        <4>1. IsSeq(mh) /\ IsSeq(d)
          BY <2>3, <2>5
        <4> QED BY ONLY <4>1, ConcatIsSeq
      <3> HIDE DEF f
      <3>2. 1 \in 1 .. Len(mh) /\ Len(d) = n - 1
        BY <2>3, <2>5
      <3> QED BY <1>1, <2>5, <3>1, <3>2
    <2>7. /\ IsSeq(g) /\ Len(g) = n + 1 /\ g[1] = mh[1] /\ \A i \in 1 .. n : g[1 + i] = e[i]
      <3>1. /\ IsSeq(g) /\ Len(g) = Len(mh) + Len(e) /\ \A i \in 1 .. Len(mh) : g[i] = mh[i]
            /\ \A i \in 1 .. Len(e) : g[Len(mh) + i] = e[i]
        <4>1. IsSeq(mh) /\ IsSeq(e)
          BY <2>4, <2>5
        <4> QED BY ONLY <4>1, ConcatIsSeq
      <3> HIDE DEF g
      <3>2. 1 \in 1 .. Len(mh) /\ Len(e) = n
        BY <2>4, <2>5
      <3> QED BY <1>1, <2>5, <3>1, <3>2
    <2> HIDE DEF f, g
    <2>8. /\ IsSeq(h) /\ Len(h) = n + 1 /\ h[n + 1] = kind /\ \A i \in 1 .. n : h[i] = f[i]
      BY <2>6, AppendIsSeq
    <2> HIDE DEF h
    <2>9. ASSUME NEW i \in 1 .. n + 1 PROVE g[i] = h[i]
      <3>1. CASE i = 1
        BY <1>1, <1>5, <3>1, <2>6, <2>7, <2>8, 1 \in 1 .. n
      <3>2. CASE i \in 2 .. n
        <4>1. i - 1 \in 1 .. n - 1 /\ i - 1 \in 1 .. n /\ 1 + (i - 1) = i /\ i \in 1 .. n /\ (i - 1) + 1 = i
          BY <1>1, <3>2
        <4>2. g[i] = e[i - 1] /\ e[i - 1] = c[i] /\ c[i] = log[i]
          BY <1>1, <2>4, <2>7, <4>1
        <4>3. h[i] = f[i] /\ f[i] = d[i - 1] /\ d[i - 1] = log[i]
          BY <2>3, <2>6, <2>8, <4>1
        <4> QED BY <4>2, <4>3
      <3>3. CASE i = n + 1
        <4>1. n \in 1 .. n /\ 1 + n = i
          BY <1>1, <1>5, <3>3
        <4> QED BY <1>1, <2>4, <2>7, <2>8, <3>3, <4>1
      <3> QED BY <1>1, <3>1, <3>2, <3>3
    <2>10. g = h
      BY <2>7, <2>8, <2>9, SameSeq
    <2> QED BY <2>2, <2>10 DEF h, c
  <1> QED BY <1>1, <1>2, <1>3, <1>4, <1>5

\* What remains of a log without its last message, and the log again.
LEMMA LogFront ==
  ASSUME NEW log, IsSeq(log), Len(log) > 1
  PROVE  LET front == SubSeq(log, 1, Len(log) - 1)
         IN  /\ IsSeq(front) /\ front # <<>> /\ Len(front) = Len(log) - 1
             /\ Append(front, log[Len(log)]) = log
  <1> DEFINE n == Len(log)
             front == SubSeq(log, 1, n - 1)
             c == Append(front, log[n])
  <1>1. n \in Nat /\ n > 1
    BY ConcatIsSeq
  <1>2. IsSeq(front) /\ Len(front) = n - 1 /\ \A i \in 1 .. n - 1 : front[i] = log[i]
    <2>1. 1 \in 1 .. Len(log) + 1 /\ n - 1 \in 0 .. Len(log) /\ 1 <= n - 1 /\ n - 1 - 1 + 1 = n - 1
      BY <1>1
    <2>2. IsSeq(front) /\ Len(front) = n - 1 /\ \A i \in 1 .. n - 1 : front[i] = log[1 + i - 1]
      BY <2>1, SubIsSeq
    <2> HIDE DEF front
    <2> QED BY <1>1, <2>2
  <1> HIDE DEF front
  <1>3. IsSeq(c) /\ Len(c) = n /\ c[n] = log[n] /\ \A i \in 1 .. n - 1 : c[i] = log[i]
    BY <1>1, <1>2, AppendIsSeq
  <1> HIDE DEF c
  <1>4. \A i \in 1 .. n : c[i] = log[i]
    BY <1>1, <1>3
  <1>5. c = log
    BY <1>3, <1>4, SameSeq DEF n
  <1>6. front # <<>>
    BY <1>1, <1>2
  <1> QED BY <1>2, <1>5, <1>6 DEF front, c, n

\* The front of a log to which a message was added is the log.
LEMMA LogAdded ==
  ASSUME NEW log, NEW kind, IsSeq(log)
  PROVE  SubSeq(Append(log, kind), 1, Len(Append(log, kind)) - 1) = log
  <1> DEFINE n == Len(log)
             c == Append(log, kind)
             d == SubSeq(c, 1, n)
  <1>1. IsSeq(c) /\ n \in Nat /\ Len(c) = n + 1 /\ \A i \in 1 .. n : c[i] = log[i]
    BY AppendIsSeq
  <1> HIDE DEF c
  <1>2. IsSeq(d) /\ Len(d) = n /\ \A i \in 1 .. n : d[i] = c[i]
    <2>1. 1 \in 1 .. Len(c) + 1 /\ n \in 0 .. Len(c) /\ n - 1 + 1 = n
      BY <1>1
    <2>2. IsSeq(d) /\ Len(d) = n /\ \A i \in 1 .. n : d[i] = c[1 + i - 1]
      BY <1>1, <2>1, SubIsSeq
    <2> HIDE DEF d, n
    <2> QED BY <1>1, <2>2
  <1> HIDE DEF d
  <1>3. d = log
    BY <1>1, <1>2, SameSeq DEF n
  <1>4. Len(c) - 1 = n
    BY <1>1
  <1> QED BY <1>3, <1>4 DEF c, d

-----------------------------------------------------------------------------
(* From step to step *)

\* A step that runs is at a point, and safe behind it.
LEMMA AtPoint ==
  ASSUME IInv, script # <<>>
  PROVE  /\ state \notin {"Error", "Panic"} /\ pc # "idle"
         /\ \E a, b : Holds(a) /\ Move(msg, Head(script), a, b) /\ Safe(msg, Tail(script), b)
  <1>1. state \notin {"Error", "Panic"} /\ pc # "idle"
    BY DEF IInv, Control
  <1>2. PICK a, s : Holds(a) /\ Path(msg, script, a, Rest(s))
    BY <1>1 DEF IInv, Sound, Safe
  <1>3. PICK b : Move(msg, Head(script), a, b) /\ Path(msg, Tail(script), b, Rest(s))
    BY <1>2, PathHead
  <1> QED BY <1>1, <1>2, <1>3 DEF Safe

\* The handler has done the step and goes on with the rest.
LEMMA Onward ==
  ASSUME IInv, script # <<>>, NEW b, Safe(msg, Tail(script), b), Holds(b)',
         script' = Tail(script), UNCHANGED <<pc, msg, joiner>>,
         state' = state \/ state' \in Waiting
  PROVE  Sound' /\ Control'
  <1>1. Sound'
    BY DEF Sound
  <1>2. state \notin {"Error", "Panic"} /\ pc # "idle"
    BY AtPoint
  <1>3. Waiting \intersect {"Initialized", "Error", "Panic"} = {}
    BY DEF Waiting, Hello, Encrypting, States13
  <1> QED BY <1>1, <1>2, <1>3 DEF Control, IInv

\* The handler has failed.
LEMMA Broken ==
  ASSUME IInv, state' = "Error", pc' = "idle", script' = <<>>, UNCHANGED joiner
  PROVE  Sound' /\ Control'
  BY DEF Sound, Control, IInv

LEMMA Frame ==
  ASSUME IInv
  PROVE  /\ UNCHANGED <<hs, common, plain, env, msg, hslog, transcript>> => Fields'
         /\ UNCHANGED <<be, rl, tls>> => Output'
         /\ be'.early = be.early => BackendReady'
         /\ (/\ UNCHANGED <<frames, joiner>>
             /\ state' \notin {"Error", "Panic"} =>
                  /\ state \notin {"Error", "Panic"}
                  /\ be'.inEnc = be.inEnc /\ be'.inPlain = be.inPlain) => Input'
         /\ (/\ common'.may_send = common.may_send /\ common'.version = common.version
             /\ plain'.received = plain.received /\ hs'.flaws = hs.flaws) => DataAuthenticated'
  <1>1. UNCHANGED <<hs, common, plain, env, msg, hslog, transcript>> => Fields'
    BY DEF IInv, Fields
  <1>2. UNCHANGED <<be, rl, tls>> => Output'
    BY QueueSame DEF IInv, Output
  <1>3. be'.early = be.early => BackendReady'
    BY DEF IInv, BackendReady
  <1>4. (/\ UNCHANGED <<frames, joiner>>
         /\ state' \notin {"Error", "Panic"} =>
              /\ state \notin {"Error", "Panic"}
              /\ be'.inEnc = be.inEnc /\ be'.inPlain = be.inPlain) => Input'
    BY DEF IInv, Input
  <1>5. (/\ common'.may_send = common.may_send /\ common'.version = common.version
         /\ plain'.received = plain.received /\ hs'.flaws = hs.flaws) => DataAuthenticated'
    BY DEF IInv, DataAuthenticated
  <1> QED BY <1>1, <1>2, <1>3, <1>4, <1>5

\* A step that does not touch the log leaves what is known of it.
LEMMA LogSame ==
  ASSUME NEW k, NEW l, LogIs(k), l \in {k, "any"} \/ (k = "hello" /\ l = "same"),
         UNCHANGED <<hslog, transcript, msg>>
  PROVE  LogIs(l)'
  <1>1. CASE l = k
    BY <1>1 DEF LogIs
  <1>2. CASE l = "any"
    BY <1>2 DEF LogIs
  <1>3. CASE k = "hello" /\ l = "same"
    <2>1. hslog = <<"ClientHello">> /\ transcript = <<"ClientHello">>
      BY <1>3 DEF LogIs
    <2>2. Conversation(hslog) = hslog /\ hslog # <<>>
      BY <2>1 DEF Conversation
    <2> QED BY <1>3, <2>1, <2>2 DEF LogIs
  <1> QED BY <1>1, <1>2, <1>3

LEMMA KeysSame ==
  ASSUME NEW k, KeysAre(k), rl'.enc = rl.enc, rl'.dec = rl.dec, k # "ccs" \/ UNCHANGED tls
  PROVE  KeysAre(k)'
  BY DEF KeysAre

\* What a failed step did to the output does not matter to the rest.
LEMMA FailedStep ==
  ASSUME IInv, NEW e, Failed(e), Output', BackendReady',
         UNCHANGED common \/ common' = [common EXCEPT !.fatal = @ + 1]
  PROVE  IInv'
  <1>1. /\ state' = "Error" /\ pc' = "idle" /\ script' = <<>>
        /\ UNCHANGED <<msg, hs, transcript, hslog, frames, joiner, plain, env>>
    BY DEF Failed, hsVars, inVars
  <1>2. Sound' /\ Control' /\ Input'
    BY <1>1, Broken, Frame
  <1>3. common'.may_send = common.may_send /\ common'.version = common.version
    BY DEF IInv, Fields
  <1>4. Fields'
    BY <1>1 DEF IInv, Fields
  <1>5. DataAuthenticated'
    BY <1>1, <1>3, Frame
  <1> QED BY <1>2, <1>4, <1>5 DEF IInv

LEMMA AbortStep ==
  ASSUME IInv, NEW l, Aborts(l)
  PROVE  IInv'
  <1>1. Failed("peer")
    BY DEF Aborts
  <1>2. CASE l = "none"
    <2>1. UNCHANGED <<rl, be, tls, common>>
      BY <1>2 DEF Aborts, outVars
    <2>2. Output' /\ BackendReady'
      BY <2>1, Frame
    <2> QED BY <1>1, <2>1, <2>2, FailedStep
  <1>3. CASE l # "none"
    <2>1. send_fatal_alert(l)
      BY <1>3 DEF Aborts
    <2>2. /\ Output' /\ Kept
          /\ UNCHANGED common \/ common' = [common EXCEPT !.fatal = @ + 1]
      BY <2>1, SendAlert DEF IInv
    <2>3. BackendReady'
      BY <2>2, Frame DEF Kept
    <2> QED BY <1>1, <2>2, <2>3, FailedStep
  <1> QED BY <1>2, <1>3

-----------------------------------------------------------------------------
(* The steps of a handler *)

\* Checks that pass, assignments and calls that end the handler in no case: the log and the keys
\* stay.
LEMMA QuietHolds ==
  ASSUME NEW a, NEW b, Holds(a), Move(msg, Head(script), a, b),
         Head(script).op \in {"check", "aligned", "call"} \/
           (Running("do") /\ Arg \in {"opts", "auth", "abandon_client_auth", "certverify",
                                      "close_notify"}),
         Running("check") => Arg \notin hs.flaws,
         UNCHANGED <<state, msg, hslog, transcript, tls, rl>>,
         UNCHANGED <<common.may_send, common.may_receive, common.version, plain.received, hs.flaws>>,
         be'.calls = IF Head(script).op = "call" THEN be.calls \union {Arg} ELSE be.calls,
         script # <<>>
  PROVE  Holds(b)'
  <1> DEFINE s == Head(script)
  <1>1. CallMove(s, a, b) /\ LogMove(s, a, b) /\ KeysMove(s, a, b) /\ DataMove(msg, s, a, b)
    BY DEF Move, Running
  <1>2. state' = b.at
    BY <1>1 DEF Holds, CallMove, Running
  <1>3. b.calls \subseteq be'.calls
    BY <1>1 DEF Holds, CallMove, Arg
  <1>4. hs'.flaws \intersect Defects \subseteq b.pending
    BY <1>1 DEF Holds, CallMove, Arg, Running
  <1>5. LogIs(b.log)'
    <2>1. b.log \in {a.log, "any"} \/ (a.log = "hello" /\ b.log = "same")
      BY <1>1 DEF LogMove, Arg, Running
    <2> QED BY <2>1, LogSame DEF Holds
  <1>6. KeysAre(b.keys)'
    <2>1. b.keys = a.keys
      BY <1>1 DEF KeysMove, Arg, Running
    <2> QED BY <2>1, KeysSame DEF Holds
  <1>7. (b.data \/ NoData') /\ b.ver \in {"any", common'.version}
    <2>1. (a.data => b.data) /\ b.ver \in {"any", a.ver}
      BY <1>1 DEF DataMove, Arg, Running
    <2> QED BY <2>1 DEF Holds, NoData
  <1> QED BY <1>2, <1>3, <1>4, <1>5, <1>6, <1>7 DEF Holds

LEMMA PassStep ==
  ASSUME IInv, script # <<>>, Head(script).op \in {"check", "aligned"},
         Running("check") => Arg \notin hs.flaws,
         Continue, UNCHANGED <<hsVars, outVars, common>>
  PROVE  IInv'
  <1>1. PICK a, b : Holds(a) /\ Move(msg, Head(script), a, b) /\ Safe(msg, Tail(script), b)
    BY AtPoint
  <1>2. /\ script' = Tail(script)
        /\ UNCHANGED <<state, pc, msg, hs, transcript, hslog, frames, joiner, plain, env, rl, be,
                       tls, common>>
    BY DEF Continue, coreVars, inVars, hsVars, outVars
  <1>3. Holds(b)'
    BY <1>1, <1>2, QuietHolds
  <1> QED BY <1>1, <1>2, <1>3, Onward, Frame DEF IInv

LEMMA CheckStep ==
  ASSUME IInv, check
  PROVE  IInv'
  <1>1. script # <<>> /\ Head(script).op = "check"
    BY DEF check, Running
  <1> QED BY <1>1, AbortStep, PassStep DEF check

LEMMA FailStep ==
  ASSUME IInv, fail
  PROVE  IInv'
  BY AbortStep DEF fail

LEMMA AlignedStep ==
  ASSUME IInv, check_aligned_handshake
  PROVE  IInv'
  <1>1. script # <<>> /\ Head(script).op = "aligned"
    BY DEF check_aligned_handshake, Running
  <1>2. ~Running("check")
    BY <1>1 DEF Running
  <1> QED BY <1>1, <1>2, AbortStep, PassStep DEF check_aligned_handshake

\* No call comes early: the point knows that its needs are met.
LEMMA CallStep ==
  ASSUME IInv, call_backend
  PROVE  IInv'
  <1>1. /\ script # <<>> /\ Head(script).op = "call" /\ Running("call")
        /\ be' = [be EXCEPT !.calls = @ \union {Arg}, !.early = @ \/ ~(Needs(Arg) \subseteq be.calls)]
        /\ UNCHANGED <<rl, tls, common>>
    BY DEF call_backend, Running
  <1>2. PICK a, b : Holds(a) /\ Move(msg, Head(script), a, b) /\ Safe(msg, Tail(script), b)
    BY <1>1, AtPoint
  <1>3. Needs(Arg) \subseteq be.calls
    BY <1>1, <1>2 DEF Move, CallMove, Holds, Arg
  <1>4. /\ be'.calls = be.calls \union {Arg} /\ be'.inEnc = be.inEnc /\ be'.inPlain = be.inPlain
        /\ be'.outPlain = be.outPlain /\ be'.outEnc = be.outEnc
    BY <1>1 DEF IInv, Output
  <1>5. BackendReady'
    BY <1>1, <1>3 DEF IInv, Output, BackendReady
  <1>6. Output'
    <2>1. be' = [calls |-> be'.calls, early |-> be'.early, inEnc |-> be'.inEnc,
                 inPlain |-> be'.inPlain, outPlain |-> be'.outPlain, outEnc |-> be'.outEnc]
      BY <1>1 DEF IInv, Output
    <2> QED BY <1>1, <1>4, <2>1, QueueSame DEF IInv, Output
  <1>7. CASE Failed("backend")
    BY <1>1, <1>5, <1>6, <1>7, FailedStep
  <1>8. CASE Continue /\ UNCHANGED hsVars
    <2>1. /\ script' = Tail(script)
          /\ UNCHANGED <<state, pc, msg, hs, transcript, hslog, frames, joiner, plain, env>>
      BY <1>8 DEF Continue, coreVars, inVars, hsVars
    <2>2. Holds(b)'
      <3>1. be'.calls = IF Head(script).op = "call" THEN be.calls \union {Arg} ELSE be.calls
        BY <1>1, <1>4
      <3>2. ~Running("check")
        BY <1>1 DEF Running
      <3> QED BY <1>1, <1>2, <2>1, <3>1, <3>2, QuietHolds
    <2>3. Sound' /\ Control'
      BY <1>1, <1>2, <2>1, <2>2, Onward
    <2> QED BY <1>1, <1>4, <1>5, <1>6, <2>1, <2>3, Frame DEF IInv
  <1> QED BY <1>7, <1>8 DEF call_backend

LEMMA HashStep ==
  ASSUME IInv, hash_message
  PROVE  IInv'
  <1>1. /\ script # <<>> /\ Head(script).op = "hash" /\ script' = Tail(script)
        /\ transcript' = Append(transcript, msg.kind)
        /\ UNCHANGED <<state, pc, msg, hs, hslog, frames, joiner, plain, env, rl, be, tls, common>>
    BY DEF hash_message, Running, Continue, coreVars, inVars, outVars
  <1>2. PICK a, b : Holds(a) /\ Move(msg, Head(script), a, b) /\ Safe(msg, Tail(script), b)
    BY <1>1, AtPoint
  <1> DEFINE s == Head(script)
  <1>3. CallMove(s, a, b) /\ LogMove(s, a, b) /\ KeysMove(s, a, b) /\ DataMove(msg, s, a, b)
    BY <1>1, <1>2 DEF Move
  <1>4. a.log = "behind" /\ b.log = "same"
    BY <1>1, <1>3 DEF LogMove
  <1>5. LogIs("same")'
    <2> DEFINE front == SubSeq(hslog, 1, Len(hslog) - 1)
               kind == msg.kind
    <2>1. /\ Len(hslog) > 1 /\ hslog[Len(hslog)] = kind /\ transcript = Conversation(front)
          /\ Len(hslog) = 2 => kind # "HelloRetryRequest"
      BY <1>2, <1>4 DEF Holds, LogIs
    <2>2. IsSeq(hslog)
      BY DEF IInv, Fields
    <2>3. /\ IsSeq(front) /\ front # <<>> /\ Len(front) = Len(hslog) - 1
          /\ Append(front, kind) = hslog
      BY <2>1, <2>2, LogFront
    <2>4. Len(front) = 1 => kind # "HelloRetryRequest"
      BY <2>1, <2>2, <2>3, ConcatIsSeq
    <2> HIDE DEF front, kind
    <2>5. Conversation(Append(front, kind)) = Append(Conversation(front), kind)
      BY <2>3, <2>4, ConversationAppend
    <2>6. transcript' = Conversation(hslog)
      BY <1>1, <2>1, <2>3, <2>5 DEF kind
    <2>7. hslog # <<>>
      BY <2>1
    <2> QED BY <1>1, <2>6, <2>7 DEF LogIs, Conversation
  <1>6. KeysAre(b.keys)'
    <2>1. b.keys = a.keys
      BY <1>1, <1>3 DEF KeysMove
    <2> QED BY <1>1, <1>2, <2>1, KeysSame DEF Holds
  <1>7. Holds(b)'
    <2>1. state' = b.at /\ b.calls \subseteq be'.calls /\ hs'.flaws \intersect Defects \subseteq b.pending
      BY <1>1, <1>2, <1>3 DEF Holds, CallMove
    <2>2. (b.data \/ NoData') /\ b.ver \in {"any", common'.version}
      BY <1>1, <1>2, <1>3 DEF Holds, DataMove, NoData
    <2> QED BY <1>4, <1>5, <1>6, <2>1, <2>2 DEF Holds
  <1>8. Fields'
    <2>1. IsSeq(transcript')
      BY <1>1, AppendIsSeq DEF IInv, Fields
    <2> QED BY <1>1, <2>1 DEF IInv, Fields
  <1> QED BY <1>1, <1>2, <1>7, <1>8, Onward, Frame DEF IInv

\* What is sent enters both logs, and goes in the clear only before the keys are in use.
LEMMA EmitStep ==
  ASSUME IInv, emit
  PROVE  IInv'
  <1> DEFINE s == Head(script)
             enc == s.op = "encrypt"
             hashed(log) == IF Arg = "ChangeCipherSpec" THEN log ELSE Append(log, Arg)
  <1>1. /\ script # <<>> /\ s.op \in {"emit", "encrypt"} /\ UNCHANGED common
        /\ send_msg(Arg, enc)
    BY DEF emit, Running
  <1>2. PICK a, b : Holds(a) /\ Move(msg, s, a, b) /\ Safe(msg, Tail(script), b)
    BY <1>1, AtPoint
  <1>3. CallMove(s, a, b) /\ LogMove(s, a, b) /\ KeysMove(s, a, b) /\ DataMove(msg, s, a, b)
    BY <1>1, <1>2 DEF Move
  <1>4. rl.enc = "Active" => enc
    BY <1>1, <1>2, <1>3 DEF KeysMove, Holds, KeysAre
  <1>5. enc \in BOOLEAN
    OBVIOUS
  <1>6. /\ Output' /\ Kept
        /\ enc => UNCHANGED tls
        /\ ~enc => tls' = Append(tls, Item(Arg, 0, FALSE))
    <2> HIDE DEF enc
    <2> QED BY <1>1, <1>4, <1>5, SendMsg DEF IInv
  <1>7. BackendReady'
    BY <1>6, Frame DEF Kept
  <1>8. CASE Failed("EncryptError")
    BY <1>1, <1>6, <1>7, <1>8, FailedStep
  <1>9. CASE /\ Continue /\ transcript' = hashed(transcript) /\ hslog' = hashed(hslog)
             /\ UNCHANGED <<msg, hs>>
    <2>1. /\ script' = Tail(script)
          /\ UNCHANGED <<state, pc, msg, hs, frames, joiner, plain, env, common>>
      BY <1>1, <1>9 DEF Continue, coreVars, inVars
    <2>2. LogIs(b.log)'
      <3>1. CASE Arg = "ChangeCipherSpec"
        <4>1. UNCHANGED <<hslog, transcript>>
          BY <1>9, <3>1
        <4>2. b.log \in {a.log, "any"} \/ (a.log = "hello" /\ b.log = "same")
          BY <1>1, <1>3, <3>1 DEF LogMove, Arg
        <4> QED BY <1>2, <2>1, <4>1, <4>2, LogSame DEF Holds
      <3>2. CASE Arg # "ChangeCipherSpec"
        <4>1. hslog' = Append(hslog, Arg) /\ transcript' = Append(transcript, Arg)
          BY <1>9, <3>2
        <4>2. \/ a.log = "empty" /\ Arg = "ClientHello" /\ b.log = "hello"
              \/ a.log = "same" /\ Arg # "HelloRetryRequest" /\ b.log = "same"
          BY <1>1, <1>3, <3>2 DEF LogMove, Arg
        <4>3. CASE a.log = "empty" /\ Arg = "ClientHello" /\ b.log = "hello"
          <5>1. hslog = <<>> /\ transcript = <<>>
            BY <1>2, <4>3 DEF Holds, LogIs
          <5> QED BY <4>1, <4>3, <5>1, Literals DEF LogIs
        <4>4. CASE a.log = "same" /\ Arg # "HelloRetryRequest" /\ b.log = "same"
          <5>1. hslog # <<>> /\ transcript = Conversation(hslog)
            BY <1>2, <4>4 DEF Holds, LogIs
          <5>2. IsSeq(hslog)
            BY DEF IInv, Fields
          <5>3. transcript' = Conversation(Append(hslog, Arg))
            BY <4>1, <4>4, <5>1, <5>2, ConversationAppend
          <5>4. hslog' # <<>>
            BY <4>1, <5>2, AppendIsSeq
          <5>5. transcript' = Conversation(hslog')
            BY <4>1, <5>3
          <5> QED BY <4>4, <5>4, <5>5 DEF LogIs, Conversation
        <4> QED BY <4>2, <4>3, <4>4
      <3> QED BY <3>1, <3>2
    <2>3. KeysAre(b.keys)'
      <3>1. CASE enc
        <4>1. b.keys = a.keys /\ UNCHANGED tls
          BY <1>3, <1>6, <3>1 DEF KeysMove
        <4> QED BY <1>2, <1>6, <4>1, KeysSame DEF Holds, Kept
      <3>2. CASE ~enc
        <4>1. /\ a.keys = "clear" /\ b.keys = IF Arg = "ChangeCipherSpec" THEN "ccs" ELSE "clear"
              /\ tls' = Append(tls, Item(Arg, 0, FALSE))
          BY <1>1, <1>3, <1>6, <3>2 DEF KeysMove, Arg
        <4>2. tls' # <<>> /\ tls'[Len(tls')].kind = Arg
          BY <4>1, AppendIsSeq DEF IInv, Output, Item
        <4>3. rl'.enc # "Active"
          BY <1>2, <1>6, <4>1 DEF Holds, KeysAre, Kept
        <4> QED BY <4>1, <4>2, <4>3 DEF KeysAre
      <3> QED BY <3>1, <3>2
    <2>4. Holds(b)'
      <3>1. /\ state' = b.at /\ b.calls \subseteq be'.calls
            /\ hs'.flaws \intersect Defects \subseteq b.pending
        BY <1>1, <1>2, <1>3, <1>6, <2>1 DEF Holds, CallMove, Kept
      <3>2. (b.data \/ NoData') /\ b.ver \in {"any", common'.version}
        BY <1>1, <1>2, <1>3, <2>1 DEF Holds, DataMove, NoData
      <3> QED BY <2>2, <2>3, <3>1, <3>2 DEF Holds
    <2>5. Fields'
      <3>1. IsSeq(transcript') /\ IsSeq(hslog')
        BY <1>9, AppendIsSeq DEF IInv, Fields
      <3> QED BY <2>1, <3>1 DEF IInv, Fields
    <2>6. Input' /\ DataAuthenticated'
      BY <1>6, <2>1, Frame DEF Kept
    <2> QED BY <1>1, <1>2, <1>6, <1>7, <2>1, <2>4, <2>5, <2>6, Onward DEF IInv
  <1> QED BY <1>8, <1>9 DEF emit

LEMMA SendAlertStep ==
  ASSUME IInv, send_alert
  PROVE  IInv'
  <1> DEFINE s == Head(script)
  <1>1. script # <<>> /\ s.op \in {"alert", "warn"}
    BY DEF send_alert, Running
  <1>2. PICK a, b : Holds(a) /\ Move(msg, s, a, b) /\ Safe(msg, Tail(script), b)
    BY <1>1, AtPoint
  <1>3. CallMove(s, a, b) /\ LogMove(s, a, b) /\ KeysMove(s, a, b) /\ DataMove(msg, s, a, b)
    BY <1>1, <1>2 DEF Move
  <1>4. /\ Output' /\ Kept
        /\ UNCHANGED common \/ common' = [common EXCEPT !.fatal = @ + 1]
    <2>1. CASE s.op = "alert"
      BY <2>1, SendAlert DEF send_alert, IInv
    <2>2. CASE s.op # "alert"
      <3> DEFINE enc == IsEncrypting
      <3>1. send_msg("Alert", enc) /\ UNCHANGED common
        BY <2>2 DEF send_alert
      <3>2. enc \in BOOLEAN /\ (rl.enc = "Active" => enc)
        BY DEF IsEncrypting
      <3> HIDE DEF enc
      <3> QED BY <3>1, <3>2, SendMsg DEF IInv
    <2> QED BY <2>1, <2>2
  <1>5. BackendReady'
    BY <1>4, Frame DEF Kept
  <1>6. CASE Failed("EncryptError")
    BY <1>4, <1>5, <1>6, FailedStep
  <1>7. CASE Continue /\ UNCHANGED hsVars
    <2>1. /\ script' = Tail(script)
          /\ UNCHANGED <<state, pc, msg, hs, hslog, transcript, frames, joiner, plain, env>>
      BY <1>7 DEF Continue, coreVars, inVars, hsVars
    <2>2. /\ common'.may_send = common.may_send /\ common'.may_receive = common.may_receive
          /\ common'.version = common.version
      BY <1>4 DEF IInv, Fields
    <2>3. Holds(b)'
      <3>1. /\ state' = b.at /\ b.calls \subseteq be'.calls
            /\ hs'.flaws \intersect Defects \subseteq b.pending
        BY <1>1, <1>2, <1>3, <1>4, <2>1 DEF Holds, CallMove, Kept
      <3>2. (b.data \/ NoData') /\ b.ver \in {"any", common'.version}
        BY <1>1, <1>2, <1>3, <2>1, <2>2 DEF Holds, DataMove, NoData
      <3>3. LogIs(b.log)'
        <4>1. b.log \in {a.log, "any"} \/ (a.log = "hello" /\ b.log = "same")
          BY <1>1, <1>3 DEF LogMove
        <4> QED BY <1>2, <2>1, <4>1, LogSame DEF Holds
      <3>4. KeysAre(b.keys)'
        <4>1. b.keys = a.keys /\ a.keys # "ccs"
          BY <1>1, <1>3 DEF KeysMove
        <4> QED BY <1>2, <1>4, <4>1, KeysSame DEF Holds, Kept
      <3> QED BY <3>1, <3>2, <3>3, <3>4 DEF Holds
    <2>4. Fields'
      BY <1>4, <2>1 DEF IInv, Fields
    <2>5. Input' /\ DataAuthenticated'
      BY <1>4, <2>1, <2>2, Frame DEF Kept
    <2> QED BY <1>1, <1>2, <1>4, <1>5, <2>1, <2>3, <2>4, <2>5, Onward DEF IInv
  <1> QED BY <1>6, <1>7 DEF send_alert

LEMMA GotoStep ==
  ASSUME IInv, goto
  PROVE  IInv'
  <1> DEFINE s == Head(script)
  <1>1. /\ script # <<>> /\ s.op = "goto" /\ state' = Arg /\ script' = Tail(script)
        /\ UNCHANGED <<pc, msg, hs, hslog, transcript, frames, joiner, plain, env, rl, be, tls,
                       common>>
    BY DEF goto, Running, hsVars, inVars, outVars
  <1>2. PICK a, b : Holds(a) /\ Move(msg, s, a, b) /\ Safe(msg, Tail(script), b)
    BY <1>1, AtPoint
  <1>3. CallMove(s, a, b) /\ LogMove(s, a, b) /\ KeysMove(s, a, b) /\ DataMove(msg, s, a, b)
    BY <1>1, <1>2 DEF Move
  <1>4. state' \in Waiting /\ state \notin {"Error", "Panic"}
    BY <1>1, <1>3, AtPoint DEF CallMove, Arg
  <1>5. Holds(b)'
    <2>1. /\ state' = b.at /\ b.calls \subseteq be'.calls
          /\ hs'.flaws \intersect Defects \subseteq b.pending
      BY <1>1, <1>2, <1>3 DEF Holds, CallMove, Arg
    <2>2. (b.data \/ NoData') /\ b.ver \in {"any", common'.version}
      BY <1>1, <1>2, <1>3 DEF Holds, DataMove, NoData
    <2>3. LogIs(b.log)'
      <3>1. b.log \in {a.log, "any"} \/ (a.log = "hello" /\ b.log = "same")
        BY <1>1, <1>3 DEF LogMove
      <3> QED BY <1>1, <1>2, <3>1, LogSame DEF Holds
    <2>4. KeysAre(b.keys)'
      <3>1. b.keys = a.keys
        BY <1>1, <1>3 DEF KeysMove
      <3> QED BY <1>1, <1>2, <3>1, KeysSame DEF Holds
    <2> QED BY <2>1, <2>2, <2>3, <2>4 DEF Holds
  <1> QED BY <1>1, <1>2, <1>4, <1>5, Onward, Frame DEF IInv

\* Assignments that no property looks at.
LEMMA NotesStep ==
  ASSUME IInv, Running("do"), Arg \in {"opts", "auth", "abandon_client_auth", "certverify"},
         NEW o \in SUBSET Option, NEW t \in {"none", "empty", "verify"}, NEW u \in BOOLEAN,
         hs' = [hs EXCEPT !.opts = o] \/ hs' = [hs EXCEPT !.auth = t]
           \/ hs' = [hs EXCEPT !.authBuf = u],
         Continue, UNCHANGED <<msg, transcript, hslog, outVars, common>>
  PROVE  IInv'
  <1>1. /\ script # <<>> /\ script' = Tail(script) /\ Head(script).op = "do"
        /\ UNCHANGED <<state, pc, msg, hslog, transcript, frames, joiner, plain, env, rl, be, tls,
                       common>>
    BY DEF Running, Continue, coreVars, inVars, outVars
  <1>2. PICK a, b : Holds(a) /\ Move(msg, Head(script), a, b) /\ Safe(msg, Tail(script), b)
    BY <1>1, AtPoint
  <1>3. hs'.flaws = hs.flaws
    BY DEF IInv, Fields
  <1>4. Fields'
    BY <1>1 DEF IInv, Fields
  <1>5. Holds(b)'
    <2>1. ~Running("check") /\ Head(script).op # "call"
      BY <1>1 DEF Running
    <2> QED BY <1>1, <1>2, <1>3, <2>1, QuietHolds
  <1> QED BY <1>1, <1>2, <1>3, <1>4, <1>5, Onward, Frame DEF IInv

LEMMA NoteStep ==
  ASSUME IInv, note
  PROVE  IInv'
  <1>1. CASE Doing("opts") /\ Notes("opts", msg.opts)
    <2>1. msg.opts \in SUBSET Option
      BY DEF IInv, Fields
    <2> QED BY <1>1, <2>1, NotesStep DEF Doing, Notes
  <1>2. CASE Doing("auth") /\ \E t \in {"empty"} \union (IF HasCerts THEN {"verify"} ELSE {}) :
                                Notes("auth", t)
    <2>1. PICK t \in {"none", "empty", "verify"} : Notes("auth", t)
      BY <1>2
    <2> QED BY <1>2, <2>1, NotesStep DEF Doing, Notes
  <1>3. CASE Doing("abandon_client_auth") /\ Notes("authBuf", FALSE)
    BY <1>3, NotesStep DEF Doing, Notes
  <1> QED BY <1>1, <1>2, <1>3 DEF note

LEMMA CertVerifyStep ==
  ASSUME IInv, take_handshake_buf
  PROVE  IInv'
  <1>1. CASE Aborts("none")
    BY <1>1, AbortStep
  <1>2. CASE Notes("authBuf", FALSE)
    BY <1>2, NotesStep DEF take_handshake_buf, Doing, Notes
  <1> QED BY <1>1, <1>2 DEF take_handshake_buf

\* What a step of an assignment moves, and what stays with it.
LEMMA DoMoves ==
  ASSUME IInv, Running("do"), UNCHANGED <<state, be>>, hs'.flaws = hs.flaws
  PROVE  \E a, b :
           /\ Holds(a) /\ Safe(msg, Tail(script), b)
           /\ LogMove(Head(script), a, b) /\ KeysMove(Head(script), a, b)
           /\ DataMove(msg, Head(script), a, b)
           /\ state' = b.at /\ b.calls \subseteq be'.calls
           /\ hs'.flaws \intersect Defects \subseteq b.pending
  <1> DEFINE s == Head(script)
  <1>1. script # <<>> /\ s.op = "do"
    BY DEF Running
  <1>2. PICK a, b : Holds(a) /\ Move(msg, s, a, b) /\ Safe(msg, Tail(script), b)
    BY <1>1, AtPoint
  <1>3. CallMove(s, a, b) /\ LogMove(s, a, b) /\ KeysMove(s, a, b) /\ DataMove(msg, s, a, b)
    BY <1>1, <1>2 DEF Move
  <1>4. /\ state' = b.at /\ b.calls \subseteq be'.calls
        /\ hs'.flaws \intersect Defects \subseteq b.pending
    BY <1>1, <1>2, <1>3 DEF Holds, CallMove
  <1> QED BY <1>2, <1>3, <1>4

\* The version is settled before there is any data.
LEMMA NegotiateStep ==
  ASSUME IInv, negotiate
  PROVE  IInv'
  <1> DEFINE v == IF Arg = "negotiate" THEN msg.ver ELSE "TLSv1_3"
  <1>1. /\ Running("do") /\ Arg \in {"negotiate", "retryVersion"} /\ script' = Tail(script)
        /\ common' = [common EXCEPT !.version = v]
        /\ UNCHANGED <<state, pc, frames, joiner, plain, env, msg, hs, transcript, hslog, rl, be, tls>>
    BY DEF negotiate, Doing, Continue, coreVars, inVars, hsVars, outVars
  <1>2. PICK a, b : /\ Holds(a) /\ Safe(msg, Tail(script), b)
                    /\ LogMove(Head(script), a, b) /\ KeysMove(Head(script), a, b)
                    /\ DataMove(msg, Head(script), a, b)
                    /\ state' = b.at /\ b.calls \subseteq be'.calls
                    /\ hs'.flaws \intersect Defects \subseteq b.pending
    BY <1>1, DoMoves
  <1>3. v \in Version
    BY DEF IInv, Fields, Version
  <1> HIDE DEF v
  <1>4. /\ common'.version = v /\ common'.may_send = common.may_send
        /\ common'.may_receive = common.may_receive
    BY <1>1 DEF IInv, Fields
  <1>5. Fields'
    BY <1>1, <1>3 DEF IInv, Fields
  <1>6. ~a.data /\ b.ver \in {"any", v}
    BY <1>1, <1>2 DEF DataMove, Running, Arg, v
  <1>7. NoData /\ NoData'
    BY <1>1, <1>2, <1>4, <1>6 DEF Holds, NoData
  <1>8. LogIs(b.log)'
    <2>1. b.log \in {a.log, "any"} \/ (a.log = "hello" /\ b.log = "same")
      BY <1>1, <1>2 DEF LogMove, Running, Arg
    <2> QED BY <1>1, <1>2, <2>1, LogSame DEF Holds
  <1>9. KeysAre(b.keys)'
    <2>1. b.keys = a.keys
      BY <1>1, <1>2 DEF KeysMove, Running, Arg
    <2> QED BY <1>1, <1>2, <2>1, KeysSame DEF Holds
  <1>10. Holds(b)'
    BY <1>2, <1>4, <1>6, <1>7, <1>8, <1>9 DEF Holds
  <1>11. DataAuthenticated'
    <2>1. ~common'.may_send /\ plain'.received = <<>>
      BY <1>7 DEF NoData
    <2>2. DOMAIN plain'.received = {}
      BY <2>1
    <2> QED BY <2>1, <2>2 DEF DataAuthenticated
  <1>12. Output' /\ BackendReady' /\ Input'
    <2>1. state \notin {"Error", "Panic"}
      BY <1>1, AtPoint DEF Running
    <2> QED BY <1>1, <2>1, Frame
  <1>13. Sound' /\ Control'
    BY <1>1, <1>2, <1>10, Onward DEF Running
  <1> QED BY <1>5, <1>11, <1>12, <1>13 DEF IInv

\* The hash of the first hello takes the place of it in both.
LEMMA RetryStep ==
  ASSUME IInv, retry
  PROVE  IInv'
  <1>1. /\ Running("do") /\ Arg = "retried" /\ script' = Tail(script)
        /\ hs' = [hs EXCEPT !.retried = TRUE]
        /\ transcript' = <<"message_hash", "HelloRetryRequest">>
        /\ UNCHANGED <<state, pc, frames, joiner, plain, env, msg, hslog, rl, be, tls, common>>
    BY DEF retry, Doing, Continue, coreVars, inVars, outVars
  <1>2. hs'.flaws = hs.flaws
    BY <1>1 DEF IInv, Fields
  <1>3. PICK a, b : /\ Holds(a) /\ Safe(msg, Tail(script), b)
                    /\ LogMove(Head(script), a, b) /\ KeysMove(Head(script), a, b)
                    /\ DataMove(msg, Head(script), a, b)
                    /\ state' = b.at /\ b.calls \subseteq be'.calls
                    /\ hs'.flaws \intersect Defects \subseteq b.pending
    BY <1>1, <1>2, DoMoves
  <1>4. a.log = "retry" /\ b.log = "same"
    BY <1>1, <1>3 DEF LogMove, Running, Arg
  <1>5. LogIs("same")'
    <2> DEFINE log == <<"ClientHello", "HelloRetryRequest">>
               rest == SubSeq(log, 2, Len(log))
    <2>1. hslog' = log
      BY <1>1, <1>3, <1>4 DEF Holds, LogIs
    <2>2. IsSeq(log) /\ IsSeq(<<"message_hash">>) /\ IsSeq(<<"message_hash", "HelloRetryRequest">>)
      BY Literals
    <2>3. /\ Len(log) = 2 /\ log[2] = "HelloRetryRequest" /\ log # <<>>
          /\ Len(<<"message_hash">>) = 1 /\ <<"message_hash">>[1] = "message_hash"
      OBVIOUS
    <2> HIDE DEF log
    <2>4. IsSeq(rest) /\ Len(rest) = 1 /\ rest[1] = "HelloRetryRequest"
      <3>1. 2 \in 1 .. Len(log) + 1 /\ Len(log) \in 0 .. Len(log)
        BY <2>3
      <3>2. /\ IsSeq(rest) /\ Len(rest) = IF 2 <= Len(log) THEN Len(log) - 2 + 1 ELSE 0
            /\ \A i \in 1 .. Len(log) - 2 + 1 : rest[i] = log[2 + i - 1]
        BY <2>2, <3>1, SubIsSeq
      <3> QED BY <2>3, <3>2
    <2> HIDE DEF rest
    <2>5. /\ IsSeq(<<"message_hash">> \o rest) /\ Len(<<"message_hash">> \o rest) = 2
          /\ (<<"message_hash">> \o rest)[1] = "message_hash"
          /\ (<<"message_hash">> \o rest)[2] = "HelloRetryRequest"
      <3> DEFINE front == <<"message_hash">>
      <3>1. IsSeq(front) /\ Len(front) = 1 /\ front[1] = "message_hash"
        BY <2>2, <2>3
      <3> HIDE DEF front
      <3>2. /\ IsSeq(front \o rest) /\ Len(front \o rest) = 2
            /\ (front \o rest)[1] = front[1] /\ (front \o rest)[1 + 1] = rest[1]
        BY <2>4, <3>1, ConcatIsSeq, 1 \in 1 .. 1
      <3> QED BY <2>4, <3>1, <3>2 DEF front
    <2>6. <<"message_hash">> \o rest = <<"message_hash", "HelloRetryRequest">>
      <3> DEFINE c == <<"message_hash">> \o rest
                 d == <<"message_hash", "HelloRetryRequest">>
      <3>1. Len(d) = 2 /\ d[1] = "message_hash" /\ d[2] = "HelloRetryRequest"
        OBVIOUS
      <3>2. IsSeq(c) /\ IsSeq(d) /\ Len(c) = 2 /\ c[1] = d[1] /\ c[2] = d[2]
        BY <2>2, <2>5, <3>1
      <3> HIDE DEF c, d
      <3>3. \A i \in 1 .. Len(c) : c[i] = d[i]
        <4>1. \A i \in 1 .. Len(c) : i = 1 \/ i = 2
          BY <3>2
        <4> QED BY <3>2, <4>1
      <3>4. c = d
        BY <3>1, <3>2, <3>3, SameSeq
      <3> QED BY <3>4 DEF c, d
    <2>7. transcript' = Conversation(log)
      BY <1>1, <2>3, <2>6 DEF Conversation, rest
    <2> QED BY <2>1, <2>3, <2>7 DEF LogIs, Conversation
  <1>6. Fields'
    <2>1. IsSeq(transcript')
      BY <1>1, Literals
    <2> QED BY <1>1, <2>1 DEF IInv, Fields
  <1>7. Holds(b)'
    <2>1. KeysAre(b.keys)'
      <3>1. b.keys = a.keys
        BY <1>1, <1>3 DEF KeysMove, Running, Arg
      <3> QED BY <1>1, <1>3, <3>1, KeysSame DEF Holds
    <2>2. (b.data \/ NoData') /\ b.ver \in {"any", common'.version}
      BY <1>1, <1>3 DEF Holds, DataMove, NoData, Running, Arg
    <2> QED BY <1>3, <1>4, <1>5, <2>1, <2>2 DEF Holds
  <1> QED BY <1>1, <1>2, <1>3, <1>6, <1>7, Onward, Frame, AtPoint DEF IInv, Running

\* Before the keys are in use anything may be queued.
LEMMA FakeCcsStep ==
  ASSUME IInv, emit_fake_ccs
  PROVE  IInv'
  <1>1. /\ Running("do") /\ Arg = "fakeCcs" /\ script' = Tail(script)
        /\ hs' = [hs EXCEPT !.fakeCcs = TRUE]
        /\ tls' = tls \/ tls' = Append(tls, Item("ChangeCipherSpec", 0, FALSE))
        /\ UNCHANGED <<state, pc, frames, joiner, plain, env, msg, hslog, transcript, rl, be, common>>
    BY DEF emit_fake_ccs, Doing, Continue, coreVars, inVars
  <1>2. hs'.flaws = hs.flaws
    BY <1>1 DEF IInv, Fields
  <1>3. PICK a, b : /\ Holds(a) /\ Safe(msg, Tail(script), b)
                    /\ LogMove(Head(script), a, b) /\ KeysMove(Head(script), a, b)
                    /\ DataMove(msg, Head(script), a, b)
                    /\ state' = b.at /\ b.calls \subseteq be'.calls
                    /\ hs'.flaws \intersect Defects \subseteq b.pending
    BY <1>1, <1>2, DoMoves
  <1>4. a.keys = "clear" /\ b.keys = "clear"
    BY <1>1, <1>3 DEF KeysMove, Running, Arg
  <1>5. rl.enc # "Active"
    BY <1>3, <1>4 DEF Holds, KeysAre
  <1>6. Holds(b)'
    <2>1. KeysAre(b.keys)'
      BY <1>1, <1>4, <1>5 DEF KeysAre
    <2>2. LogIs(b.log)'
      <3>1. b.log \in {a.log, "any"} \/ (a.log = "hello" /\ b.log = "same")
        BY <1>1, <1>3 DEF LogMove, Running, Arg
      <3> QED BY <1>1, <1>3, <3>1, LogSame DEF Holds
    <2>3. (b.data \/ NoData') /\ b.ver \in {"any", common'.version}
      BY <1>1, <1>3 DEF Holds, DataMove, NoData, Running, Arg
    <2> QED BY <1>3, <2>1, <2>2, <2>3 DEF Holds
  <1>7. Output'
    <2>1. IsSeq(tls')
      BY <1>1, AppendIsSeq DEF IInv, Output
    <2>2. ProtectedAfterCcs'
      BY <1>1, <1>5 DEF ProtectedAfterCcs
    <2> QED BY <1>1, <2>1, <2>2 DEF IInv, Output
  <1>8. Fields'
    BY <1>1 DEF IInv, Fields
  <1> QED BY <1>1, <1>2, <1>3, <1>6, <1>7, <1>8, Onward, Frame, AtPoint DEF IInv, Running

\* The keys are in use right behind a ChangeCipherSpec, so nothing is behind it in the clear.
LEMMA EncryptingStep ==
  ASSUME IInv, start_encrypting
  PROVE  IInv'
  <1>1. /\ Running("do") /\ Arg = "start_encrypting" /\ script' = Tail(script)
        /\ rl' = [enc |-> "Active", dec |-> "Prepared", write_seq |-> 0, read_seq |-> 0]
        /\ UNCHANGED <<state, pc, frames, joiner, plain, env, msg, hs, hslog, transcript, be, tls,
                       common>>
    BY DEF start_encrypting, Doing, Continue, coreVars, inVars, hsVars
  <1>2. PICK a, b : /\ Holds(a) /\ Safe(msg, Tail(script), b)
                    /\ LogMove(Head(script), a, b) /\ KeysMove(Head(script), a, b)
                    /\ DataMove(msg, Head(script), a, b)
                    /\ state' = b.at /\ b.calls \subseteq be'.calls
                    /\ hs'.flaws \intersect Defects \subseteq b.pending
    BY <1>1, DoMoves
  <1>3. a.keys = "ccs" /\ b.keys = "enc"
    BY <1>1, <1>2 DEF KeysMove, Running, Arg
  <1>4. tls # <<>> /\ tls[Len(tls)].kind = "ChangeCipherSpec"
    BY <1>2, <1>3 DEF Holds, KeysAre
  <1>5. Holds(b)'
    <2>1. KeysAre(b.keys)'
      BY <1>1, <1>3 DEF KeysAre
    <2>2. LogIs(b.log)'
      <3>1. b.log \in {a.log, "any"} \/ (a.log = "hello" /\ b.log = "same")
        BY <1>1, <1>2 DEF LogMove, Running, Arg
      <3> QED BY <1>1, <1>2, <3>1, LogSame DEF Holds
    <2>3. (b.data \/ NoData') /\ b.ver \in {"any", common'.version}
      BY <1>1, <1>2 DEF Holds, DataMove, NoData, Running, Arg
    <2> QED BY <1>2, <2>1, <2>2, <2>3 DEF Holds
  <1>6. Output'
    <2>1. rl' \in LayerType
      BY <1>1 DEF LayerType
    <2>2. ProtectedAfterCcs'
      <3>1. PICK S : tls \in Seq(S)
        BY DEF IInv, Output, IsSeq
      <3>2. ASSUME NEW i \in DOMAIN tls, NEW j \in DOMAIN tls, i < j,
                   \A k \in (i + 1) .. Len(tls) : tls[k].kind # "ChangeCipherSpec"
            PROVE  FALSE
        <4>1. Len(tls) \in (i + 1) .. Len(tls)
          BY <3>1, <3>2
        <4> QED BY <1>4, <3>2, <4>1
      <3> QED BY <1>1, <3>2 DEF ProtectedAfterCcs
    <2> QED BY <1>1, <2>1, <2>2 DEF IInv, Output
  <1> QED BY <1>1, <1>2, <1>5, <1>6, Onward, Frame, AtPoint DEF IInv, Running

LEMMA DecryptingStep ==
  ASSUME IInv, start_decrypting
  PROVE  IInv'
  <1>1. /\ Running("do") /\ Arg = "start_decrypting" /\ script' = Tail(script)
        /\ rl' = [rl EXCEPT !.dec = "Active"]
        /\ UNCHANGED <<state, pc, frames, joiner, plain, env, msg, hs, hslog, transcript, be, tls,
                       common>>
    BY DEF start_decrypting, Doing, Continue, coreVars, inVars, hsVars
  <1>2. PICK a, b : /\ Holds(a) /\ Safe(msg, Tail(script), b)
                    /\ LogMove(Head(script), a, b) /\ KeysMove(Head(script), a, b)
                    /\ DataMove(msg, Head(script), a, b)
                    /\ state' = b.at /\ b.calls \subseteq be'.calls
                    /\ hs'.flaws \intersect Defects \subseteq b.pending
    BY <1>1, DoMoves
  <1>3. a.keys = "enc" /\ b.keys = "dec"
    BY <1>1, <1>2 DEF KeysMove, Running, Arg
  <1>4. rl \in LayerType
    BY DEF IInv, Output
  <1>5. rl' \in LayerType /\ rl'.enc = rl.enc /\ rl'.dec = "Active"
    BY <1>1, <1>4 DEF LayerType
  <1>6. Holds(b)'
    <2>1. KeysAre(b.keys)'
      BY <1>2, <1>3, <1>5 DEF KeysAre, Holds
    <2>2. LogIs(b.log)'
      <3>1. b.log \in {a.log, "any"} \/ (a.log = "hello" /\ b.log = "same")
        BY <1>1, <1>2 DEF LogMove, Running, Arg
      <3> QED BY <1>1, <1>2, <3>1, LogSame DEF Holds
    <2>3. (b.data \/ NoData') /\ b.ver \in {"any", common'.version}
      BY <1>1, <1>2 DEF Holds, DataMove, NoData, Running, Arg
    <2> QED BY <1>2, <2>1, <2>2, <2>3 DEF Holds
  <1>7. Output'
    BY <1>1, <1>5, QueueSame DEF IInv, Output
  <1> QED BY <1>1, <1>2, <1>6, <1>7, Onward, Frame, AtPoint DEF IInv, Running

LEMMA MayReceiveStep ==
  ASSUME IInv, may_receive
  PROVE  IInv'
  <1>1. /\ Running("do") /\ Arg = "may_receive" /\ script' = Tail(script)
        /\ common' = [common EXCEPT !.may_receive = TRUE]
        /\ UNCHANGED <<state, pc, frames, joiner, plain, env, msg, hs, hslog, transcript, rl, be, tls>>
    BY DEF may_receive, Doing, Continue, coreVars, inVars, hsVars, outVars
  <1>2. PICK a, b : /\ Holds(a) /\ Safe(msg, Tail(script), b)
                    /\ LogMove(Head(script), a, b) /\ KeysMove(Head(script), a, b)
                    /\ DataMove(msg, Head(script), a, b)
                    /\ state' = b.at /\ b.calls \subseteq be'.calls
                    /\ hs'.flaws \intersect Defects \subseteq b.pending
    BY <1>1, DoMoves
  <1>3. common'.version = common.version /\ common'.may_send = common.may_send
    BY <1>1 DEF IInv, Fields
  <1>4. Holds(b)'
    <2>1. KeysAre(b.keys)'
      <3>1. b.keys = a.keys
        BY <1>1, <1>2 DEF KeysMove, Running, Arg
      <3> QED BY <1>1, <1>2, <3>1, KeysSame DEF Holds
    <2>2. LogIs(b.log)'
      <3>1. b.log \in {a.log, "any"} \/ (a.log = "hello" /\ b.log = "same")
        BY <1>1, <1>2 DEF LogMove, Running, Arg
      <3> QED BY <1>1, <1>2, <3>1, LogSame DEF Holds
    <2>3. b.data /\ b.ver \in {"any", common'.version}
      BY <1>1, <1>2, <1>3 DEF Holds, DataMove, Running, Arg
    <2> QED BY <1>2, <2>1, <2>2, <2>3 DEF Holds
  <1>5. Fields'
    BY <1>1 DEF IInv, Fields
  <1> QED BY <1>1, <1>2, <1>3, <1>4, <1>5, Onward, Frame, AtPoint DEF IInv, Running

LEMMA DataItemsSeq ==
  ASSUME NEW c, c \in Seq(Nat)
  PROVE  /\ IsSeq(DataItems(c)) /\ Len(DataItems(c)) = Len(c) /\ Len(c) \in Nat
         /\ \A i \in 1 .. Len(c) : DataItems(c)[i] = Item("ApplicationData", c[i], TRUE)
  <1> DEFINE l == Len(c)
             T == {Item("ApplicationData", c[i], TRUE) : i \in 1 .. l}
             d == DataItems(c)
  <1>1. DOMAIN c = 1 .. l /\ l \in Nat
    OBVIOUS
  <1>2. d = [i \in 1 .. l |-> Item("ApplicationData", c[i], TRUE)]
    BY <1>1 DEF DataItems
  <1>3. d \in [1 .. l -> T] /\ \A i \in 1 .. l : d[i] = Item("ApplicationData", c[i], TRUE)
    BY <1>2
  <1> HIDE DEF d, T, l
  <1>4. d \in Seq(T)
    BY <1>1, <1>3, SeqDef
  <1>5. Len(d) = l
    <2>1. DOMAIN d = 1 .. l
      BY <1>3
    <2> QED BY <1>1, <1>4, <2>1
  <1> QED BY <1>1, <1>3, <1>4, <1>5 DEF IsSeq, d, l

\* Data leaves once every defect has been looked for.
LEMMA FlushStep ==
  ASSUME IInv, flush_plaintext
  PROVE  IInv'
  <1> DEFINE items == DataItems(plain.sendable)
             n == Fit(items)
  <1>1. /\ Running("do") /\ Arg = "flush_plaintext" /\ script # <<>>
        /\ Pushed(items)
        /\ common' = [common EXCEPT !.may_send = TRUE]
        /\ UNCHANGED <<tls, frames, joiner, env, msg, hs, hslog, transcript>>
    BY DEF flush_plaintext, Doing, Running, inVars, hsVars
  <1>2. plain.sendable \in Seq(Nat)
    BY DEF IInv, Fields
  <1>3. IsSeq(items) /\ Len(items) = Len(plain.sendable) /\ \A i \in 1 .. Len(items) : items[i].enc
    <2>1. /\ IsSeq(items) /\ Len(items) = Len(plain.sendable)
          /\ \A i \in 1 .. Len(plain.sendable) :
               items[i] = Item("ApplicationData", plain.sendable[i], TRUE)
      BY <1>2, DataItemsSeq
    <2> HIDE DEF items
    <2>2. ASSUME NEW i \in 1 .. Len(items) PROVE items[i].enc
      <3>1. items[i] = Item("ApplicationData", plain.sendable[i], TRUE)
        BY <2>1
      <3>2. Item("ApplicationData", plain.sendable[i], TRUE).enc
        BY DEF Item
      <3> QED BY <3>1, <3>2
    <2> QED BY <2>1, <2>2
  <1>4. Sealed(items)
    BY <1>3 DEF Sealed
  <1> HIDE DEF items
  <1>5. Output' /\ Kept
    BY <1>1, <1>4, PushedOutput DEF IInv
  <1>6. n \in 0 .. Len(items)
    BY <1>3, FitBound DEF IInv
  <1>7. \/ /\ n < Len(items)
           /\ plain' = [plain EXCEPT !.sendable = SubSeq(@, n + 2, Len(@))]
           /\ state' = "Error" /\ pc' = "idle" /\ script' = <<>>
        \/ /\ n = Len(items)
           /\ plain' = [plain EXCEPT !.sendable = <<>>]
           /\ script' = Tail(script) /\ UNCHANGED <<state, pc>>
    BY DEF flush_plaintext, coreVars, items
  <1> HIDE DEF n
  <1>8. PICK a, b : Holds(a) /\ Move(msg, Head(script), a, b) /\ Safe(msg, Tail(script), b)
    BY <1>1, AtPoint
  <1> DEFINE s == Head(script)
  <1>9. /\ CallMove(s, a, b) /\ LogMove(s, a, b) /\ KeysMove(s, a, b) /\ DataMove(msg, s, a, b)
        /\ s.op = "do" /\ s.arg = "flush_plaintext"
    BY <1>1, <1>8 DEF Move, Running, Arg
  <1>10. a.pending = {} /\ b.data
    BY <1>9 DEF DataMove
  <1>11. hs.flaws \intersect Defects = {}
    BY <1>8, <1>10 DEF Holds
  <1>12. plain'.received = plain.received
    BY <1>7 DEF IInv, Fields
  <1>13. common'.version = common.version
    BY <1>1 DEF IInv, Fields
  <1>14. DataAuthenticated'
    BY <1>1, <1>11, <1>12, <1>13 DEF IInv, DataAuthenticated
  <1>15. Fields'
    <2>1. plain' \in [sendable : Seq(Nat), received : Seq(SUBSET Option)]
      <3>1. ASSUME n < Len(items)
            PROVE  SubSeq(plain.sendable, n + 2, Len(plain.sendable)) \in Seq(Nat)
        <4> DEFINE l == Len(plain.sendable)
        <4>1. l \in Nat /\ n + 2 \in 1 .. l + 1 /\ l \in 0 .. l
          BY <1>2, <1>3, <1>6, <3>1
        <4> HIDE DEF l
        <4>2. SubSeq(plain.sendable, n + 2, l) \in Seq(Nat)
          <5>1. \A i \in (n + 2) .. l : plain.sendable[i] \in Nat
            BY <1>2, <4>1 DEF l
          <5> QED BY <1>2, <4>1, <5>1
        <4> QED BY <4>2 DEF l
      <3>2. plain \in [sendable : Seq(Nat), received : Seq(SUBSET Option)]
        BY DEF IInv, Fields
      <3>3. <<>> \in Seq(Nat)
        OBVIOUS
      <3> QED BY <1>7, <3>1, <3>2, <3>3
    <2> QED BY <1>1, <2>1 DEF IInv, Fields
  <1>16. BackendReady' /\ Input'
    <2>1. state' \notin {"Error", "Panic"} => state \notin {"Error", "Panic"}
      BY <1>1, AtPoint
    <2> QED BY <1>1, <1>5, <2>1, Frame DEF Kept
  <1>17. Sound' /\ Control'
    <2>1. CASE state' = "Error" /\ pc' = "idle" /\ script' = <<>>
      BY <1>1, <2>1, Broken
    <2>2. CASE script' = Tail(script) /\ UNCHANGED <<state, pc>>
      <3>1. /\ state' = b.at /\ b.calls \subseteq be'.calls
            /\ hs'.flaws \intersect Defects \subseteq b.pending
        BY <1>1, <1>5, <1>8, <1>9, <2>2 DEF Holds, CallMove, Kept
      <3>2. LogIs(b.log)'
        <4>1. b.log \in {a.log, "any"} \/ (a.log = "hello" /\ b.log = "same")
          BY <1>9 DEF LogMove
        <4> QED BY <1>1, <1>8, <4>1, LogSame DEF Holds
      <3>3. KeysAre(b.keys)'
        <4>1. b.keys = a.keys
          BY <1>9 DEF KeysMove
        <4> QED BY <1>1, <1>5, <1>8, <4>1, KeysSame DEF Holds, Kept
      <3>4. b.ver \in {"any", common'.version}
        BY <1>8, <1>9, <1>13 DEF Holds, DataMove
      <3>5. Holds(b)'
        BY <1>10, <3>1, <3>2, <3>3, <3>4 DEF Holds
      <3> QED BY <1>1, <1>8, <2>2, <3>5, Onward
    <2> QED BY <1>7, <2>1, <2>2
  <1> QED BY <1>5, <1>14, <1>15, <1>16, <1>17 DEF IInv

\* With TLS 1.2 only protected records get to the handler of data.
LEMMA ReceiveStep ==
  ASSUME IInv, receive
  PROVE  IInv'
  <1>1. /\ Running("do") /\ Arg \in {"take_received_plaintext", "close_notify"}
        /\ script # <<>> /\ Head(script).op = "do" /\ script' = Tail(script)
        /\ UNCHANGED <<state, pc, frames, joiner, env, msg, hs, hslog, transcript, rl, be, tls>>
    BY DEF receive, Doing, Running, coreVars, inVars, hsVars, outVars
  <1>2. CASE /\ Doing("take_received_plaintext")
             /\ plain' = [plain EXCEPT !.received = Append(@, msg.opts)] /\ UNCHANGED common
    <2>1. PICK a, b : Holds(a) /\ Move(msg, Head(script), a, b) /\ Safe(msg, Tail(script), b)
      BY <1>1, AtPoint
    <2> DEFINE s == Head(script)
    <2>2. /\ CallMove(s, a, b) /\ LogMove(s, a, b) /\ KeysMove(s, a, b) /\ DataMove(msg, s, a, b)
          /\ s.op = "do" /\ s.arg = "take_received_plaintext"
      BY <1>1, <1>2, <2>1 DEF Move, Doing, Arg
    <2>3. a.pending = {} /\ b.data /\ (a.ver = "TLSv1_3" \/ "prot" \in msg.opts)
      BY <2>2 DEF DataMove
    <2>4. hs.flaws \intersect Defects = {} /\ (a.ver = "TLSv1_3" => common.version = "TLSv1_3")
      BY <2>1, <2>3 DEF Holds
    <2> DEFINE q == plain.received
               o == msg.opts
    <2>5. q \in Seq(SUBSET Option) /\ o \in SUBSET Option
      BY DEF IInv, Fields
    <2>6. plain' = [plain EXCEPT !.received = Append(q, o)] /\ plain'.received = Append(q, o)
      BY <1>2 DEF IInv, Fields
    <2>7. /\ Append(q, o) \in Seq(SUBSET Option) /\ DOMAIN q = 1 .. Len(q)
          /\ \A i \in DOMAIN Append(q, o) : Append(q, o)[i] = o \/ (i \in DOMAIN q /\ Append(q, o)[i] = q[i])
      <3> HIDE DEF q, o
      <3> QED BY <2>5
    <2>8. Fields'
      <3> HIDE DEF q, o
      <3>1. plain' \in [sendable : Seq(Nat), received : Seq(SUBSET Option)]
        BY <2>6, <2>7 DEF IInv, Fields
      <3> QED BY <1>1, <1>2, <3>1 DEF IInv, Fields
    <2>9. DataAuthenticated'
      <3>1. hs'.flaws \intersect Defects = {}
        BY <1>1, <2>4
      <3>2. ASSUME common'.version = "TLSv1_2", NEW i \in DOMAIN plain'.received
            PROVE  "prot" \in plain'.received[i]
        <4>1. common.version = "TLSv1_2" /\ "prot" \in o
          BY <1>2, <2>3, <2>4, <3>2
        <4>2. plain'.received[i] = o \/ (i \in DOMAIN q /\ plain'.received[i] = q[i])
          <5> HIDE DEF q, o
          <5> QED BY <2>6, <2>7, <3>2
        <4>3. i \in DOMAIN q => "prot" \in q[i]
          BY <4>1 DEF IInv, DataAuthenticated
        <4> QED BY <4>1, <4>2, <4>3
      <3> QED BY <3>1, <3>2 DEF DataAuthenticated
    <2>10. Holds(b)'
      <3>1. /\ state' = b.at /\ b.calls \subseteq be'.calls
            /\ hs'.flaws \intersect Defects \subseteq b.pending
        BY <1>1, <2>1, <2>2 DEF Holds, CallMove
      <3>2. LogIs(b.log)'
        <4>1. b.log \in {a.log, "any"} \/ (a.log = "hello" /\ b.log = "same")
          BY <2>2 DEF LogMove
        <4> QED BY <1>1, <2>1, <4>1, LogSame DEF Holds
      <3>3. KeysAre(b.keys)'
        <4>1. b.keys = a.keys
          BY <2>2 DEF KeysMove
        <4> QED BY <1>1, <2>1, <4>1, KeysSame DEF Holds
      <3>4. b.ver \in {"any", common'.version}
        BY <1>2, <2>1, <2>2 DEF Holds, DataMove
      <3> QED BY <2>3, <3>1, <3>2, <3>3, <3>4 DEF Holds
    <2> QED BY <1>1, <2>1, <2>8, <2>9, <2>10, Onward, Frame, AtPoint DEF IInv
  <1>3. CASE /\ Doing("close_notify") /\ common' = [common EXCEPT !.close_notify = TRUE]
             /\ UNCHANGED plain
    <2>1. PICK a, b : Holds(a) /\ Move(msg, Head(script), a, b) /\ Safe(msg, Tail(script), b)
      BY <1>1, AtPoint
    <2>2. /\ common'.may_send = common.may_send /\ common'.may_receive = common.may_receive
          /\ common'.version = common.version
      BY <1>3 DEF IInv, Fields
    <2>3. Holds(b)'
      <3>1. ~Running("check") /\ Head(script).op # "call" /\ Arg = "close_notify"
        BY <1>1, <1>3 DEF Running, Doing
      <3> QED BY <1>1, <1>3, <2>1, <2>2, <3>1, QuietHolds
    <2>4. Fields'
      BY <1>1, <1>3 DEF IInv, Fields
    <2> QED BY <1>1, <1>3, <2>1, <2>2, <2>3, <2>4, Onward, Frame, AtPoint DEF IInv
  <1> QED BY <1>2, <1>3 DEF receive

\* Every step of a handler keeps the invariant.
LEMMA HandlingStep ==
  ASSUME IInv, Handling
  PROVE  IInv'
  BY CheckStep, FailStep, AlignedStep, CallStep, HashStep, EmitStep, SendAlertStep, GotoStep, NoteStep,
     NegotiateStep, RetryStep, FakeCcsStep, CertVerifyStep, EncryptingStep, DecryptingStep,
     MayReceiveStep, FlushStep, ReceiveStep DEF Handling

-----------------------------------------------------------------------------
(* Between the handlers *)

\* Between two handlers all that is known of a state holds.
LEMMA AtRest ==
  ASSUME IInv, script = <<>>, state \notin {"Error", "Panic"}
  PROVE  \E s : s = state /\ Holds(Rest(s))
  <1>1. PICK a, s : Holds(a) /\ Path(msg, <<>>, a, Rest(s))
    BY DEF IInv, Sound, Safe
  <1>2. a = Rest(s)
    BY <1>1, PathEmpty
  <1>3. state = s
    BY <1>1, <1>2 DEF Holds, Rest, Point
  <1>4. Holds(Rest(s))
    BY <1>1, <1>2
  <1> QED BY <1>3, <1>4

\* A connection at rest stays sound as long as what is known of its state holds.
LEMMA RestSound ==
  ASSUME script' = <<>>, NEW s, Holds(Rest(s))'
  PROVE  Sound'
  <1>1. Path(msg', <<>>, Rest(s), Rest(s))
    BY PathEmpty
  <1>2. Safe(msg', script', Rest(s))
    BY <1>1 DEF Safe
  <1> QED BY <1>2 DEF Sound

\* What a call of the connection that no handler runs in leaves as it is.
LEMMA StillHolds ==
  ASSUME NEW a, Holds(a), a.log # "behind" \/ UNCHANGED msg, a.keys # "ccs" \/ UNCHANGED tls,
         UNCHANGED <<state, hs, hslog, transcript>>,
         be'.calls = be.calls, rl'.enc = rl.enc, rl'.dec = rl.dec,
         common'.version = common.version, common'.may_send = common.may_send,
         common'.may_receive = common.may_receive,
         plain'.received \in {plain.received, <<>>}
  PROVE  Holds(a)'
  <1>1. LogIs(a.log)'
    <2>1. LogIs(a.log)
      BY DEF Holds
    <2>2. CASE UNCHANGED msg
      BY <2>1, <2>2 DEF LogIs
    <2>3. CASE a.log # "behind"
      BY <2>1, <2>3 DEF LogIs, Conversation
    <2> QED BY <2>2, <2>3
  <1>2. KeysAre(a.keys)'
    BY KeysSame DEF Holds
  <1>3. a.data \/ NoData'
    BY DEF Holds, NoData
  <1> QED BY <1>1, <1>2, <1>3 DEF Holds

\* What is known of no state between handlers depends on the message last handled.
LEMMA RestLog ==
  ASSUME NEW s
  PROVE  Rest(s).log # "behind" /\ Rest(s).keys # "ccs" /\ Rest(s).at = s
  BY DEF Rest, Point, LogOf, KeysOf

\* A call that ends, or never leaves, the state of the handshake.
LEMMA IdleStep ==
  ASSUME IInv, script = <<>>, UNCHANGED <<script, state, joiner, hs, hslog, transcript>>,
         pc' = "idle" \/ (pc' \in {"opaque", "incoming"} /\ state \in Waiting) \/ pc' = pc,
         be'.calls = be.calls, rl'.enc = rl.enc, rl'.dec = rl.dec,
         common'.version = common.version, common'.may_send = common.may_send,
         common'.may_receive = common.may_receive,
         plain'.received \in {plain.received, <<>>}
  PROVE  Sound' /\ Control'
  <1>0. state' = state /\ script' = <<>> /\ UNCHANGED <<state, hs, hslog, transcript>>
    OBVIOUS
  <1>1. ASSUME state \notin {"Error", "Panic"} PROVE Sound'
    <2>1. PICK s : s = state /\ Holds(Rest(s))
      BY <1>1, AtRest
    <2>2. Holds(Rest(s))'
      BY <1>0, <2>1, RestLog, StillHolds
    <2> QED BY <1>0, <2>2, RestSound
  <1>2. ASSUME state \in {"Error", "Panic"} PROVE Sound'
    BY <1>0, <1>2 DEF Sound
  <1>3. Waiting \intersect {"Initialized", "Error", "Panic"} = {}
    BY DEF Waiting, Hello, Encrypting, States13
  <1> QED BY <1>1, <1>2, <1>3 DEF Control, IInv

\* The fields of the connection, for the calls that change few of them.
LEMMA Rested ==
  ASSUME IInv, pc = "idle" \/ script = <<>>
  PROVE  /\ script = <<>>
         /\ state \notin {"Initialized", "Error", "Panic"} => state \in Waiting
         /\ pc \in {"opaque", "incoming"} => state \in Waiting
         /\ state \in Waiting => state \notin {"Initialized", "Error", "Panic"}
  <1>1. Waiting \intersect {"Initialized", "Error", "Panic"} = {}
    BY DEF Waiting, Hello, Encrypting, States13
  <1> QED BY <1>1 DEF IInv, Control

\* An error that process_new_packets returns leaves the connection without its state.
LEMMA ReturnedStep ==
  ASSUME IInv, NEW e, Returned(e), Output', be'.early = be.early, frames' \in Seq(AllRecords),
         UNCHANGED <<joiner, hsVars, plain, env>>,
         UNCHANGED common \/ common' = [common EXCEPT !.fatal = @ + 1]
  PROVE  IInv'
  <1>1. /\ state' = "Error" /\ pc' = "idle" /\ script' = <<>>
        /\ UNCHANGED <<msg, hs, transcript, hslog, joiner, plain, env>>
    BY DEF Returned, hsVars
  <1>2. Sound' /\ Control'
    BY <1>1, Broken
  <1>3. Input'
    BY <1>1 DEF IInv, Input
  <1>4. common'.may_send = common.may_send /\ common'.version = common.version
    BY DEF IInv, Fields
  <1>5. Fields'
    <2>1. common' \in [version : Version, aligned : BOOLEAN, may_send : BOOLEAN,
                       may_receive : BOOLEAN, fatal : Nat, close_notify : BOOLEAN, eof : BOOLEAN,
                       ccs : Nat, desynced : BOOLEAN]
      <3>1. common \in [version : Version, aligned : BOOLEAN, may_send : BOOLEAN,
                        may_receive : BOOLEAN, fatal : Nat, close_notify : BOOLEAN, eof : BOOLEAN,
                        ccs : Nat, desynced : BOOLEAN]
        BY DEF IInv, Fields
      <3> QED BY <3>1
    <2> QED BY <1>1, <2>1 DEF IInv, Fields
  <1>6. DataAuthenticated' /\ BackendReady'
    BY <1>1, <1>4, Frame
  <1> QED BY <1>2, <1>3, <1>5, <1>6 DEF IInv

LEMMA ProcessStep ==
  ASSUME IInv, process_new_packets
  PROVE  IInv'
  <1>1. /\ pc = "idle" /\ UNCHANGED <<common, hsVars, inVars, outVars, plain, env>>
        /\ UNCHANGED <<msg, hs, transcript, hslog, frames, joiner, rl, be, tls>>
    BY DEF process_new_packets, Resting, hsVars, inVars, outVars
  <1>2. script = <<>>
    BY <1>1, Rested
  <1>3. CASE Returned("CorruptMessage")
    <2>1. Output' /\ frames' \in Seq(AllRecords)
      BY <1>1, Frame DEF IInv, Input
    <2> QED BY <1>1, <1>3, <2>1, ReturnedStep
  <1>4. CASE UNCHANGED <<state, script>> /\ (pc' = pc \/ (pc' = "opaque" /\ state \in Waiting))
    <2>1. Sound' /\ Control'
      BY <1>1, <1>2, <1>4, IdleStep
    <2> QED BY <1>1, <1>4, <2>1, Frame DEF IInv
  <1>5. Usable => state \in Waiting
    BY <1>1, Rested DEF Usable, Resting
  <1> QED BY <1>3, <1>4, <1>5 DEF process_new_packets

\* A handler that fails is sound wherever the connection was.
LEMMA FailSound ==
  ASSUME IInv, script = <<>>, state \notin {"Error", "Panic"}, NEW l, script' = <<Fail(l)>>,
         UNCHANGED <<state, hs, be, rl, tls>>
  PROVE  Sound'
  <1>1. PICK s : s = state /\ Holds(Rest(s))
    BY AtRest
  <1>2. PICK p : p = Point(s, {}, Defects, "any", KeysOf(s), TRUE, "any")
    OBVIOUS
  <1>3. /\ p.at = s /\ p.calls = {} /\ p.pending = Defects /\ p.log = "any" /\ p.keys = KeysOf(s)
        /\ p.data /\ p.ver = "any"
    BY <1>2 DEF Point
  <1>4. KeysAre(p.keys)'
    <2>1. KeysAre(p.keys) /\ p.keys # "ccs"
      BY <1>1, <1>3 DEF Holds, Rest, Point, KeysOf
    <2> QED BY <2>1, KeysSame
  <1>5. LogIs(p.log)'
    BY <1>3 DEF LogIs
  <1>6. Holds(p)'
    BY <1>1, <1>3, <1>4, <1>5 DEF Holds
  <1>7. Safe(msg', <<Fail(l)>>, p)
    BY FailSafe
  <1> QED BY <1>6, <1>7 DEF Sound

\* A message enters the log before its handler runs, which starts from there.
LEMMA NextMessageStep ==
  ASSUME IInv, next_handshake_message
  PROVE  IInv'
  <1>0. PICK m : m = Head(joiner)
    OBVIOUS
  <1>1. /\ pc # "idle" /\ script = <<>> /\ joiner # <<>>
        /\ script' = process_main_protocol(m) /\ msg' = m
        /\ hs' = IF m.kind \in Expects(state) THEN [hs EXCEPT !.flaws = @ \union m.flaws] ELSE hs
        /\ hslog' = Append(hslog, m.kind)
        /\ joiner' = Tail(joiner)
        /\ UNCHANGED <<state, pc, transcript, frames, rl, be, tls, common, plain, env>>
    BY <1>0 DEF next_handshake_message, coreVars, outVars
  <1>2. joiner \in Seq(HandshakeMessages)
    BY DEF IInv, Input
  <1>3. m \in HandshakeMessages /\ joiner' \in Seq(HandshakeMessages)
    BY <1>0, <1>1, <1>2
  <1>4. /\ IsHandshake(m) /\ m.ver \in STRING /\ m.opts \in SUBSET STRING /\ m.flaws \in SUBSET STRING
        /\ m.flaws \intersect Defects \subseteq DefectsOf(m)
    BY <1>3 DEF HandshakeMessages, Messages
  <1>5. state \in Waiting /\ state \notin {"Initialized", "Error", "Panic"} /\ pc # "start"
    BY <1>1, Rested DEF IInv, Control
  <1>6. PICK s : s = state /\ Holds(Rest(s))
    BY <1>1, <1>5, AtRest
  <1>7. /\ CallsOf(s) \subseteq be.calls /\ hs.flaws \intersect Defects \subseteq PendingOf(s)
        /\ LogIs(LogOf(s)) /\ KeysAre(KeysOf(s)) /\ (s \in Open \/ NoData)
        /\ (s \in States13 => common.version = "TLSv1_3")
    BY <1>6 DEF Holds, Rest, Point
  <1>8. Fields'
    <2>1. hs'.flaws \in SUBSET STRING /\ hs' \in [opts : SUBSET Option, auth : {"none", "empty", "verify"},
             authBuf : BOOLEAN, retried : BOOLEAN, fakeCcs : BOOLEAN, flaws : SUBSET STRING]
      <3>1. hs \in [opts : SUBSET Option, auth : {"none", "empty", "verify"},
               authBuf : BOOLEAN, retried : BOOLEAN, fakeCcs : BOOLEAN, flaws : SUBSET STRING]
        BY DEF IInv, Fields
      <3> QED BY <1>1, <1>4, <3>1
    <2>2. msg'.ver \in Version /\ msg'.opts \subseteq Option
      BY <1>1, <1>4 DEF Version, Option
    <2>3. IsSeq(hslog')
      BY <1>1, AppendIsSeq DEF IInv, Fields
    <2> QED BY <1>1, <2>1, <2>2, <2>3 DEF IInv, Fields
  <1>9. m.kind \in Expects(s) => hs'.flaws \intersect Defects \subseteq PendingOf(s) \union DefectsOf(m)
    <2>1. m.kind \in Expects(s) => hs'.flaws = hs.flaws \union m.flaws
      BY <1>1, <1>6 DEF IInv, Fields
    <2> QED BY <1>4, <1>7, <2>1
  <1>10. /\ s = "Traffic" => m.kind \notin Expects(s)
         /\ s = "Traffic13" /\ m.kind \in Expects(s) => DefectsOf(m) = {} /\ PendingOf(s) = {}
    BY <1>4 DEF IsHandshake, Expects, DefectsOf, PendingOf
  <1>11. DataAuthenticated'
    <2>1. CASE NoData
      <3>1. ~common'.may_send /\ plain'.received = <<>>
        BY <1>1, <2>1 DEF NoData
      <3>2. DOMAIN plain'.received = {}
        BY <3>1
      <3> QED BY <3>1, <3>2 DEF DataAuthenticated
    <2>2. CASE m.kind \notin Expects(s)
      BY <1>1, <1>6, <2>2, Frame
    <2>3. CASE s \in Open /\ m.kind \in Expects(s)
      <3>1. hs'.flaws \intersect Defects = {}
        BY <1>9, <1>10, <2>3 DEF Open
      <3> QED BY <1>1, <3>1 DEF IInv, DataAuthenticated
    <2> QED BY <1>7, <2>1, <2>2, <2>3
  <1>12. Sound'
    <2>1. CASE common.may_receive /\ common.version # "TLSv1_3" /\ m.kind = "HelloRequest"
      <3>1. script' = <<Step("warn", "NoRenegotiation", "none")>>
        BY <1>1, <2>1 DEF process_main_protocol
      <3>2. s \in Open /\ "HelloRequest" \notin Expects(s)
        BY <1>7, <2>1 DEF NoData, Open, Expects
      <3>3. UNCHANGED hs /\ LogOf(s) = "any"
        BY <1>1, <1>6, <2>1, <3>2 DEF LogOf, Open
      <3>4. PICK p : p = Rest(s) /\ Holds(p) /\ p.log = "any" /\ p.keys # "ccs"
        BY <1>6, <3>3, RestLog DEF Rest, Point
      <3>5. LogIs(p.log)' /\ KeysAre(p.keys)'
        <4>1. LogIs(p.log)'
          BY <3>4 DEF LogIs
        <4>2. KeysAre(p.keys)'
          BY <1>1, <3>4, KeysSame DEF Holds
        <4> QED BY <4>1, <4>2
      <3>6. Holds(p)'
        BY <1>1, <3>3, <3>4, <3>5 DEF Holds, NoData
      <3>7. Safe(msg', script', p)
        BY <1>5, <1>6, <3>1, <3>4, AlertSafe
      <3> QED BY <3>6, <3>7 DEF Sound
    <2>2. CASE /\ ~(common.may_receive /\ common.version # "TLSv1_3" /\ m.kind = "HelloRequest")
               /\ m.kind \in Expects(s)
      <3>1. script' = Handler(s, m)
        BY <1>1, <1>6, <2>2 DEF process_main_protocol
      <3>2. Safe(m, Handler(s, m), Begin(s, m))
        BY <1>5, <1>6, <1>10, <2>2, HandlerSafe
      <3>3. PICK p : p = Begin(s, m)
        OBVIOUS
      <3>4. /\ p.at = s /\ p.calls = CallsOf(s) /\ p.pending = PendingOf(s) \union DefectsOf(m)
            /\ p.log = Received(s, m) /\ p.keys = KeysOf(s) /\ p.data = (s \in Open)
            /\ p.ver = IF s \in States13 THEN "TLSv1_3" ELSE "any"
        BY <1>4, <3>3 DEF Begin, Point
      <3>5. LogIs(Received(s, m))'
        <4>1. IsSeq(hslog)
          BY DEF IInv, Fields
        <4>2. CASE s \in Open
          BY <4>2 DEF Received, LogIs
        <4>3. CASE s \notin Open /\ m.kind = "HelloRetryRequest"
          <5>1. s = "ServerHelloOrRetry"
            BY <1>5, <1>6, <2>2, <4>3 DEF Expects, Waiting, Hello, Encrypting, States13
          <5>2. LogOf(s) = "hello" /\ Received(s, m) = "retry"
            BY <4>3, <5>1 DEF LogOf, Received
          <5>3. hslog = <<"ClientHello">>
            BY <1>7, <5>2 DEF LogIs
          <5>4. hslog' = <<"ClientHello", "HelloRetryRequest">>
            BY <1>1, <4>3, <5>3, Literals
          <5> QED BY <5>2, <5>4 DEF LogIs
        <4>4. CASE s \notin Open /\ m.kind # "HelloRetryRequest"
          <5>1. Received(s, m) = "behind"
            BY <4>4 DEF Received
          <5>2. LogOf(s) \in {"hello", "same"}
            BY <1>5, <1>6, <4>4 DEF LogOf
          <5>3. hslog # <<>> /\ transcript = Conversation(hslog)
            BY <1>7, <5>2 DEF LogIs, Conversation
          <5>4. SubSeq(hslog', 1, Len(hslog') - 1) = hslog
            BY <1>1, <4>1, LogAdded
          <5>5. Len(hslog') = Len(hslog) + 1 /\ hslog'[Len(hslog) + 1] = m.kind /\ Len(hslog) \in Nat
            BY <1>1, <4>1, AppendIsSeq
          <5>6. Len(hslog) > 0
            BY <4>1, <5>3, <5>5 DEF IsSeq
          <5>7. Len(hslog') > 1 /\ hslog'[Len(hslog')] = m.kind
            BY <5>5, <5>6
          <5>8. transcript' = Conversation(SubSeq(hslog', 1, Len(hslog') - 1))
            BY <1>1, <5>3, <5>4
          <5> QED BY <1>1, <4>4, <5>1, <5>7, <5>8 DEF LogIs, Conversation
        <4> QED BY <4>2, <4>3, <4>4
      <3>6. KeysAre(p.keys)'
        <4>1. p.keys # "ccs"
          BY <3>4 DEF KeysOf
        <4> QED BY <1>1, <1>7, <3>4, <4>1, KeysSame
      <3>7. p.ver \in {"any", common'.version} /\ (p.data \/ NoData')
        BY <1>1, <1>7, <3>4 DEF NoData
      <3>8. Holds(p)'
        BY <1>1, <1>6, <1>7, <1>9, <2>2, <3>4, <3>5, <3>6, <3>7 DEF Holds
      <3>9. Safe(msg', script', p)
        BY <1>1, <3>1, <3>2, <3>3
      <3> QED BY <3>8, <3>9 DEF Sound
    <2>3. CASE /\ ~(common.may_receive /\ common.version # "TLSv1_3" /\ m.kind = "HelloRequest")
               /\ m.kind \notin Expects(s)
      <3>1. script' = <<Fail("UnexpectedMessage")>> /\ UNCHANGED hs
        BY <1>1, <1>6, <2>3 DEF process_main_protocol
      <3> QED BY <1>1, <1>5, <3>1, FailSound
    <2> QED BY <2>1, <2>2, <2>3
  <1>13. Output' /\ BackendReady'
    BY <1>1, Frame
  <1>14. Input' /\ Control'
    BY <1>1, <1>3, <1>5 DEF IInv, Input, Control
  <1> QED BY <1>8, <1>11, <1>12, <1>13, <1>14 DEF IInv

\* A message that is none of the handshake finds the state as the last handler left it.
LEMMA BeginAtRest ==
  ASSUME NEW s, NEW m, m.kind \in {"ChangeCipherSpec", "ApplicationData"}
  PROVE  Begin(s, m) = Rest(s)
  <1>1. ~IsHandshake(m) /\ DefectsOf(m) = {}
    BY DEF IsHandshake, DefectsOf
  <1>2. PendingOf(s) \union DefectsOf(m) = PendingOf(s)
    BY <1>1
  <1> QED BY <1>1, <1>2 DEF Begin, Rest

\* What a record holds goes to the joiner or to a handler; once records are decrypted, data without
\* protection does not get there.
LEMMA IncomingPlain ==
  ASSUME IInv, script = <<>>, state \in Waiting, pc # "idle", pc # "start",
         NEW r \in AllRecords, rl.dec = "Active" => Opens(r), process_incoming_plain(r),
         UNCHANGED <<state, pc, hs, transcript, hslog, rl, tls, plain, env>>,
         be'.calls = be.calls
  PROVE  /\ Sound' /\ Control' /\ Fields' /\ DataAuthenticated'
         /\ joiner' \in Seq(HandshakeMessages)
  <1>1. /\ r \in [typ : {"Handshake", "ChangeCipherSpec", "Alert", "ApplicationData"},
                  msgs : Seq(Messages), rest : BOOLEAN, prot : BOOLEAN, valid : BOOLEAN]
        /\ r.typ = "Handshake" => \A i \in DOMAIN r.msgs : IsHandshake(r.msgs[i])
        /\ r.typ # "Handshake" => r.msgs # <<>> /\ r.msgs[1].kind = r.typ
    BY RecordsAssumption DEF AllRecords
  <1>2. state \notin {"Initialized", "Error", "Panic"}
    BY Rested
  <1>3. PICK s : s = state /\ Holds(Rest(s))
    BY <1>2, AtRest
  <1>4. PICK p : p = Rest(s) /\ Holds(p) /\ p.log # "behind" /\ p.keys # "ccs"
    BY <1>3, RestLog
  <1>5. Control'
    BY <1>2 DEF IInv, Control
  <1>6. joiner \in Seq(HandshakeMessages)
    BY DEF IInv, Input
  <1>7. CASE r.typ = "Handshake" /\ Readable(r)
    <2>1. /\ joiner' = r.msgs /\ common' = [common EXCEPT !.aligned = ~r.rest]
          /\ UNCHANGED <<script, msg>>
      BY <1>7 DEF process_incoming_plain
    <2>2. /\ common'.may_send = common.may_send /\ common'.may_receive = common.may_receive
          /\ common'.version = common.version
      BY <2>1 DEF IInv, Fields
    <2>3. joiner' \in Seq(HandshakeMessages)
      <3> DEFINE q == r.msgs
      <3>1. q \in Seq(Messages) /\ \A i \in DOMAIN q : IsHandshake(q[i])
        BY <1>1, <1>7
      <3> HIDE DEF q
      <3>2. \A i \in 1 .. Len(q) : q[i] \in HandshakeMessages
        BY <3>1 DEF HandshakeMessages
      <3>3. q \in Seq(HandshakeMessages)
        BY <3>1, <3>2
      <3> QED BY <2>1, <3>3 DEF q
    <2>4. Fields'
      <3>1. common' \in [version : Version, aligned : BOOLEAN, may_send : BOOLEAN,
                         may_receive : BOOLEAN, fatal : Nat, close_notify : BOOLEAN, eof : BOOLEAN,
                         ccs : Nat, desynced : BOOLEAN]
        <4>1. (~r.rest) \in BOOLEAN
          OBVIOUS
        <4> QED BY <2>1, <4>1 DEF IInv, Fields
      <3> QED BY <2>1, <3>1 DEF IInv, Fields
    <2>5. Holds(p)'
      BY <1>4, <2>1, <2>2, StillHolds
    <2>6. Sound'
      BY <1>4, <2>1, <2>5, RestSound
    <2>7. DataAuthenticated'
      BY <2>2, Frame
    <2> QED BY <1>5, <2>3, <2>4, <2>6, <2>7
  <1>8. CASE r.typ = "Handshake" /\ ~Readable(r)
    <2>1. script' = <<Fail("DecodeError")>> /\ UNCHANGED <<msg, joiner, common>>
      BY <1>8 DEF process_incoming_plain
    <2>2. Sound'
      <3>1. Holds(p)'
        BY <1>4, <2>1, StillHolds
      <3>2. Safe(msg', <<Fail("DecodeError")>>, p)
        BY FailSafe
      <3> QED BY <2>1, <3>1, <3>2 DEF Sound
    <2>3. Fields' /\ DataAuthenticated'
      BY <2>1, Frame
    <2> QED BY <1>5, <1>6, <2>1, <2>2, <2>3
  <1>9. CASE r.typ # "Handshake"
    <2>0. PICK m : m = [r.msgs[1] EXCEPT !.opts = @ \union (IF r.prot THEN {"prot"} ELSE {})]
      OBVIOUS
    <2>1. /\ msg' = m /\ UNCHANGED <<joiner, common>>
          /\ script' = IF ~Readable(r) /\ r.typ # "ApplicationData" THEN <<Fail("none")>>
                       ELSE IF r.typ = "Alert" THEN process_alert(m)
                       ELSE process_main_protocol(m)
      BY <1>9, <2>0 DEF process_incoming_plain
    <2>2. r.msgs[1] \in Messages /\ r.msgs[1].kind = r.typ
      <3> DEFINE q == r.msgs
      <3>1. q \in Seq(Messages) /\ q # <<>>
        BY <1>1, <1>9
      <3> HIDE DEF q
      <3>2. q[1] \in Messages
        BY <3>1
      <3> QED BY <1>1, <1>9, <3>2 DEF q
    <2>3. m.kind = r.typ /\ m.ver \in Version /\ m.opts \subseteq Option /\ (r.prot => "prot" \in m.opts)
      BY <2>0, <2>2 DEF Messages, Version, Option
    <2>4. Fields' /\ DataAuthenticated'
      <3>1. Fields'
        BY <2>1, <2>3 DEF IInv, Fields
      <3>2. DataAuthenticated'
        BY <2>1, Frame
      <3> QED BY <3>1, <3>2
    <2>5. Holds(p)'
      BY <1>4, <2>1, StillHolds
    <2>6. Sound'
      <3>1. ASSUME NEW l, script' = <<Fail(l)>> PROVE Sound'
        <4>1. Safe(msg', <<Fail(l)>>, p)
          BY FailSafe
        <4> QED BY <2>5, <3>1, <4>1 DEF Sound
      <3>2. CASE ~Readable(r) /\ r.typ # "ApplicationData"
        BY <2>1, <3>1, <3>2
      <3>3. CASE ~(~Readable(r) /\ r.typ # "ApplicationData") /\ r.typ = "Alert"
        <4>1. Safe(msg', script', p)
          BY <1>3, <1>4, <2>1, <3>3, AlertSafe
        <4> QED BY <2>5, <4>1 DEF Sound
      <3>4. CASE ~(~Readable(r) /\ r.typ # "ApplicationData") /\ r.typ # "Alert"
        <4>1. script' = process_main_protocol(m) /\ m.kind \in {"ChangeCipherSpec", "ApplicationData"}
          BY <1>1, <1>9, <2>1, <2>3, <3>4
        <4>2. CASE m.kind \in Expects(s)
          <5>1. script' = Handler(s, m)
            BY <1>3, <4>1, <4>2 DEF process_main_protocol
          <5>2. s = "Traffic" => "prot" \in m.opts
            <6>1. ASSUME s = "Traffic" PROVE r.prot
              <7>1. rl.dec = "Active"
                BY <1>3, <6>1 DEF Holds, Rest, Point, KeysOf, KeysAre
              <7>2. r.typ = "ApplicationData"
                BY <2>3, <4>2, <6>1 DEF Expects
              <7> QED BY <7>1, <7>2 DEF Opens
            <6> QED BY <2>3, <6>1
          <5>3. Safe(m, Handler(s, m), Begin(s, m))
            BY <1>3, <4>2, <5>2, HandlerSafe
          <5>4. Safe(msg', script', p)
            BY <1>4, <2>1, <4>1, <5>1, <5>3, BeginAtRest
          <5> QED BY <2>5, <5>4 DEF Sound
        <4>3. CASE m.kind \notin Expects(s)
          <5>1. script' = <<Fail("UnexpectedMessage")>>
            BY <1>3, <4>1, <4>3 DEF process_main_protocol
          <5> QED BY <3>1, <5>1
        <4> QED BY <4>2, <4>3
      <3> QED BY <3>2, <3>3, <3>4
    <2> QED BY <1>5, <1>6, <2>1, <2>4, <2>6
  <1> QED BY <1>7, <1>8, <1>9

\* A queue of which the part behind the last ChangeCipherSpec is protected
Guarded(c) ==
  \A i, j \in DOMAIN c :
    (/\ i < j /\ c[i].kind = "ChangeCipherSpec"
     /\ \A k \in (i + 1)..Len(c) : c[k].kind # "ChangeCipherSpec") => c[j].enc

LEMMA GuardedConcat ==
  ASSUME NEW c, NEW d, IsSeq(c), Guarded(c), Sealed(d)
  PROVE  IsSeq(c \o d) /\ Guarded(c \o d)
  <1> DEFINE e == c \o d
  <1>1. /\ IsSeq(e) /\ Len(c) \in Nat /\ Len(d) \in Nat /\ Len(e) = Len(c) + Len(d)
        /\ \A i \in 1 .. Len(c) : e[i] = c[i]
        /\ \A i \in 1 .. Len(d) : e[Len(c) + i] = d[i]
    BY ConcatIsSeq DEF Sealed
  <1>2. DOMAIN e = 1 .. Len(e) /\ DOMAIN c = 1 .. Len(c)
    BY <1>1 DEF IsSeq
  <1> HIDE DEF e
  <1>3. ASSUME NEW i \in DOMAIN e, NEW j \in DOMAIN e, i < j, e[i].kind = "ChangeCipherSpec",
               \A k \in (i + 1) .. Len(e) : e[k].kind # "ChangeCipherSpec"
        PROVE  e[j].enc
    <2>1. CASE j > Len(c)
      <3>1. j - Len(c) \in 1 .. Len(d) /\ Len(c) + (j - Len(c)) = j
        BY <1>1, <1>2, <1>3, <2>1
      <3> QED BY <1>1, <3>1 DEF Sealed
    <2>2. CASE j <= Len(c)
      <3>1. i \in 1 .. Len(c) /\ j \in 1 .. Len(c)
        BY <1>1, <1>2, <1>3, <2>2
      <3>2. \A k \in (i + 1) .. Len(c) : c[k].kind # "ChangeCipherSpec"
        <4>1. \A k \in (i + 1) .. Len(c) : k \in (i + 1) .. Len(e) /\ k \in 1 .. Len(c)
          BY <1>1, <3>1
        <4> QED BY <1>1, <1>3, <4>1
      <3>3. c[i].kind = "ChangeCipherSpec" /\ c[j] = e[j]
        BY <1>1, <1>3, <3>1
      <3> QED BY <1>2, <1>3, <3>1, <3>2, <3>3 DEF Guarded
    <2> QED BY <1>1, <1>2, <2>1, <2>2
  <1>4. Guarded(e)
    BY <1>3 DEF Guarded
  <1> QED BY <1>1, <1>4 DEF e

\* What the backend has sealed may be queued whenever.
LEMMA QueueSealed ==
  ASSUME NEW c, NEW d, IsSeq(c), Sealed(d), rl.enc = "Active" => Guarded(c),
         tls' = c \o d, rl'.enc = rl.enc
  PROVE  IsSeq(tls') /\ ProtectedAfterCcs' /\ (rl.enc = "Active" => Guarded(c \o d))
  <1>1. IsSeq(tls')
    BY ConcatIsSeq DEF Sealed
  <1>2. rl.enc = "Active" => Guarded(c \o d)
    BY GuardedConcat
  <1>3. ProtectedAfterCcs'
    BY <1>2 DEF ProtectedAfterCcs, Guarded
  <1> QED BY <1>1, <1>2, <1>3

\* decrypt_incoming of the record layer: the record goes to the backend, or the call fails.
LEMMA DecryptOutput ==
  ASSUME IInv, NEW r \in AllRecords, decrypt_incoming(r), UNCHANGED tls
  PROVE  /\ Output' /\ be'.calls = be.calls /\ be'.early = be.early /\ be'.inPlain = be.inPlain
         /\ rl'.enc = rl.enc /\ rl'.dec = rl.dec
         /\ state \notin {"Error", "Panic"} => be'.inEnc \in Seq(AllRecords)
  <1> DEFINE items == IF rl.read_seq = SoftLimit THEN EncryptItems("close_notify") ELSE <<>>
             ok == Fit(items) = Len(items)
             n == Fit(items)
             q == SubSeq(items, 1, n)
             w == rl.write_seq + n
             d == IF ok THEN rl.read_seq + 1 ELSE rl.read_seq
             e == IF ok THEN Append(be.inEnc, r) ELSE be.inEnc
  <1>1. Sealed(items)
    <2>1. Sealed(EncryptItems("close_notify"))
      BY EncryptSealed
    <2>2. Sealed(<<>>)
      BY SealedLiteral, Item("Alert", 0, TRUE).enc DEF Item
    <2> QED BY <2>1, <2>2
  <1>2. rl' = [rl EXCEPT !.write_seq = w, !.read_seq = d]
    BY DEF decrypt_incoming
  <1>3. be' = [be EXCEPT !.outPlain = @ \o q, !.inEnc = e]
    BY DEF decrypt_incoming
  <1>4. be = [calls |-> be.calls, early |-> be.early, inEnc |-> be.inEnc, inPlain |-> be.inPlain,
              outPlain |-> be.outPlain, outEnc |-> be.outEnc]
    BY DEF IInv, Output
  <1>5. e \in {Append(be.inEnc, r), be.inEnc} /\ d \in {rl.read_seq, rl.read_seq + 1}
    OBVIOUS
  <1> HIDE DEF items, ok, e, d
  <1>6. n \in 0 .. Len(items) /\ Len(items) \in Nat
    BY <1>1, FitBound, ConcatIsSeq DEF Sealed, IInv
  <1>7. Sealed(q)
    BY <1>1, <1>6, SealedFront
  <1> HIDE DEF n, q
  <1>8. Sealed(be.outPlain \o q)
    BY <1>7, SealedConcat DEF IInv, Output
  <1>9. be' = [calls |-> be.calls, early |-> be.early, inEnc |-> e, inPlain |-> be.inPlain,
               outPlain |-> be.outPlain \o q, outEnc |-> be.outEnc]
    BY <1>3, <1>4
  <1>10. rl' \in LayerType /\ rl'.enc = rl.enc /\ rl'.dec = rl.dec
    <2>1. rl \in LayerType
      BY DEF IInv, Output
    <2>2. w \in Nat /\ d \in Nat
      BY <1>5, <1>6, <2>1 DEF LayerType
    <2> HIDE DEF w
    <2> QED BY <1>2, <2>1, <2>2 DEF LayerType
  <1>11. ProtectedAfterCcs'
    BY <1>10, QueueSame DEF IInv, Output
  <1>12. /\ be'.calls = be.calls /\ be'.early = be.early /\ be'.inEnc = e
         /\ be'.inPlain = be.inPlain /\ be'.outPlain = be.outPlain \o q /\ be'.outEnc = be.outEnc
    BY <1>9
  <1>13. Output'
    BY <1>8, <1>9, <1>10, <1>11, <1>12 DEF IInv, Output
  <1>14. state \notin {"Error", "Panic"} => e \in Seq(AllRecords)
    <2>1. ASSUME NEW c \in Seq(AllRecords) PROVE Append(c, r) \in Seq(AllRecords)
      OBVIOUS
    <2>2. state \notin {"Error", "Panic"} => be.inEnc \in Seq(AllRecords)
      BY DEF IInv, Input
    <2> QED BY <1>5, <2>1, <2>2
  <1> QED BY <1>10, <1>12, <1>13, <1>14

LEMMA OpaqueStep ==
  ASSUME IInv, process_incoming_opaque
  PROVE  IInv'
  <1>0. PICK r : r = Head(frames)
    OBVIOUS
  <1>1. /\ pc = "opaque" /\ script = <<>> /\ frames # <<>> /\ frames' = Tail(frames)
        /\ UNCHANGED <<hs, transcript, hslog, plain, env>>
    BY DEF process_incoming_opaque, Between
  <1>2. r \in AllRecords /\ frames' \in Seq(AllRecords)
    <2>1. frames \in Seq(AllRecords)
      BY DEF IInv, Input
    <2> QED BY <1>0, <1>1, <2>1
  <1>3. state \in Waiting /\ state \notin {"Initialized", "Error", "Panic"}
    BY <1>1, Rested
  <1>4. be.inEnc \in Seq(AllRecords) /\ be.inPlain \in Seq(Opened) /\ joiner \in Seq(HandshakeMessages)
    BY <1>3 DEF IInv, Input
  <1>5. CASE send_fatal_alert("UnexpectedMessage") /\ Returned("PeerMisbehaved") /\ UNCHANGED <<msg, joiner>>
    <2>1. /\ Output' /\ Kept
          /\ UNCHANGED common \/ common' = [common EXCEPT !.fatal = @ + 1]
      BY <1>5, SendAlert DEF IInv
    <2>2. UNCHANGED <<joiner, hsVars, plain, env>> /\ be'.early = be.early
      BY <1>1, <1>5, <2>1 DEF hsVars, Kept
    <2> QED BY <1>2, <1>5, <2>1, <2>2, ReturnedStep
  <1>6. CASE /\ common' = [common EXCEPT !.ccs = @ + 1]
             /\ UNCHANGED <<coreVars, script, msg, joiner, outVars>>
    <2>1. UNCHANGED <<state, pc, script, msg, joiner, rl, be, tls>>
      BY <1>6 DEF coreVars, outVars
    <2>2. /\ common'.may_send = common.may_send /\ common'.may_receive = common.may_receive
          /\ common'.version = common.version
      BY <1>6 DEF IInv, Fields
    <2>3. Fields'
      <3>1. common \in [version : Version, aligned : BOOLEAN, may_send : BOOLEAN,
                        may_receive : BOOLEAN, fatal : Nat, close_notify : BOOLEAN, eof : BOOLEAN,
                        ccs : Nat, desynced : BOOLEAN]
        BY DEF IInv, Fields
      <3>2. common' \in [version : Version, aligned : BOOLEAN, may_send : BOOLEAN,
                         may_receive : BOOLEAN, fatal : Nat, close_notify : BOOLEAN, eof : BOOLEAN,
                         ccs : Nat, desynced : BOOLEAN]
        BY <1>6, <3>1
      <3> QED BY <1>1, <2>1, <3>2 DEF IInv, Fields
    <2>4. Sound' /\ Control'
      BY <1>1, <2>1, <2>2, IdleStep
    <2>5. Input'
      BY <1>2, <1>4, <2>1 DEF Input
    <2>6. Output' /\ BackendReady' /\ DataAuthenticated'
      BY <1>1, <2>1, <2>2, Frame
    <2> QED BY <2>3, <2>4, <2>5, <2>6 DEF IInv
  <1>7. CASE decrypt_incoming(r) /\ UNCHANGED <<msg, joiner, common, tls>>
    <2>1. /\ Output' /\ be'.calls = be.calls /\ be'.early = be.early /\ be'.inPlain = be.inPlain
          /\ rl'.enc = rl.enc /\ rl'.dec = rl.dec
          /\ be'.inEnc \in Seq(AllRecords)
      BY <1>2, <1>3, <1>7, DecryptOutput
    <2>2. CASE UNCHANGED <<coreVars, script>>
      <3>1. UNCHANGED <<state, pc, script>>
        BY <2>2 DEF coreVars
      <3>2. Sound' /\ Control'
        BY <1>1, <1>7, <2>1, <3>1, IdleStep
      <3>3. Input'
        BY <1>2, <1>4, <1>7, <2>1, <3>1 DEF Input
      <3>4. Fields' /\ BackendReady' /\ DataAuthenticated'
        BY <1>1, <1>7, <2>1, Frame
      <3> QED BY <2>1, <3>2, <3>3, <3>4 DEF IInv
    <2>3. CASE Returned("backend")
      <3>1. UNCHANGED <<joiner, hsVars, plain, env>>
        BY <1>1, <1>7 DEF hsVars
      <3> QED BY <1>2, <1>7, <2>1, <2>3, <3>1, ReturnedStep
    <2> QED BY <1>7, <2>2, <2>3 DEF decrypt_incoming
  <1>8. CASE rl.dec # "Active" /\ process_incoming_plain(r) /\ UNCHANGED <<coreVars, outVars>>
    <2>1. UNCHANGED <<state, pc, rl, be, tls>>
      BY <1>8 DEF coreVars, outVars
    <2>2. pc # "idle" /\ pc # "start"
      BY <1>1
    <2>3. /\ Sound' /\ Control' /\ Fields' /\ DataAuthenticated'
          /\ joiner' \in Seq(HandshakeMessages)
      BY <1>1, <1>2, <1>3, <1>8, <2>1, <2>2, IncomingPlain
    <2>4. Output' /\ BackendReady'
      BY <2>1, Frame
    <2>5. Input'
      BY <1>2, <1>4, <2>1, <2>3 DEF Input
    <2> QED BY <2>3, <2>4, <2>5 DEF IInv
  <1> QED BY <1>0, <1>5, <1>6, <1>7, <1>8 DEF process_incoming_opaque

\* What the backend has opened is what there was up to a record that is not authentic.
LEMMA FlushPacketsStep ==
  ASSUME IInv, flush_packets
  PROVE  IInv'
  <1> DEFINE bad == {i \in DOMAIN be.inEnc : ~Opens(be.inEnc[i])}
             n == CHOOSE i \in 0..Len(be.inEnc) : (\A j \in 1..i : j \notin bad) /\ (bad # {} => i + 1 \in bad)
                                            /\ (bad = {} => i = Len(be.inEnc))
             q == SubSeq(be.inEnc, 1, n)
             x == IF bad = {} THEN <<>> ELSE be.outPlain
             y == IF bad = {} THEN be.outEnc \o be.outPlain ELSE be.outEnc
  <1>1. /\ pc = "opaque" /\ script = <<>>
        /\ UNCHANGED <<hsVars, inVars, rl, tls, common, plain, env>>
        /\ UNCHANGED <<msg, hs, transcript, hslog, frames, joiner>>
    BY DEF flush_packets, Between, hsVars, inVars
  <1>2. state \in Waiting /\ state \notin {"Initialized", "Error", "Panic"}
    BY <1>1, Rested
  <1>3. be.inEnc \in Seq(AllRecords) /\ be.inPlain \in Seq(Opened) /\ frames \in Seq(AllRecords)
    BY <1>2 DEF IInv, Input
  <1>4. be' = [be EXCEPT !.inPlain = @ \o q, !.inEnc = <<>>, !.outPlain = x, !.outEnc = y]
    BY DEF flush_packets, flush
  <1>5. \/ bad = {} /\ pc' = "incoming" /\ UNCHANGED <<state, error, returned, script>>
        \/ Returned("DecryptError")
    BY DEF flush_packets, flush
  <1>6. be = [calls |-> be.calls, early |-> be.early, inEnc |-> be.inEnc, inPlain |-> be.inPlain,
              outPlain |-> be.outPlain, outEnc |-> be.outEnc]
    BY DEF IInv, Output
  <1>7. Sealed(x) /\ Sealed(y)
    <2>1. Sealed(<<>>)
      BY SealedLiteral, Item("Alert", 0, TRUE).enc DEF Item
    <2>2. Sealed(be.outPlain) /\ Sealed(be.outEnc) /\ Sealed(be.outEnc \o be.outPlain)
      BY SealedConcat DEF IInv, Output
    <2> HIDE DEF bad
    <2> QED BY <2>1, <2>2
  <1>8. bad = {} => n = Len(be.inEnc) /\ \A i \in 1 .. Len(be.inEnc) : Opens(be.inEnc[i])
    <2> SUFFICES ASSUME bad = {} PROVE n = Len(be.inEnc) /\ \A i \in 1 .. Len(be.inEnc) : Opens(be.inEnc[i])
      OBVIOUS
    <2> DEFINE l == Len(be.inEnc)
    <2>1. l \in Nat /\ DOMAIN be.inEnc = 1 .. l
      BY <1>3
    <2>2. \A i \in 1 .. l : Opens(be.inEnc[i])
      BY <2>1
    <2> HIDE DEF bad, l
    <2>3. l \in 0 .. l
      BY <2>1
    <2>4. /\ \A j \in 1 .. l : j \notin bad
          /\ bad # {} => l + 1 \in bad
          /\ bad = {} => l = Len(be.inEnc)
      BY DEF l
    <2>5. n = l
      BY <2>3, <2>4 DEF l
    <2> QED BY <2>2, <2>5 DEF l
  <1> HIDE DEF bad, n, x, y
  <1>9. be' = [calls |-> be.calls, early |-> be.early, inEnc |-> <<>>, inPlain |-> be.inPlain \o q,
               outPlain |-> x, outEnc |-> y]
    BY <1>4, <1>6
  <1>10. bad = {} => be.inPlain \o q \in Seq(Opened)
    <2> SUFFICES ASSUME bad = {} PROVE be.inPlain \o q \in Seq(Opened)
      OBVIOUS
    <2> DEFINE c == be.inEnc
               l == Len(c)
    <2>1. c \in Seq(AllRecords) /\ \A i \in 1 .. l : Opens(c[i])
      BY <1>3, <1>8
    <2>2. q = SubSeq(c, 1, l)
      BY <1>8
    <2> HIDE DEF q, c
    <2>3. SubSeq(c, 1, l) \in Seq(Opened)
      <3>1. \A i \in 1 .. l : c[i] \in Opened
        BY <2>1 DEF Opened
      <3>2. c \in Seq(Opened) /\ l \in Nat
        BY <2>1, <3>1
      <3> HIDE DEF l
      <3>3. \A i \in 1 .. l : c[i] \in Opened
        BY <3>1
      <3> QED BY <3>2, <3>3
    <2>4. \A z \in Seq(Opened) : be.inPlain \o z \in Seq(Opened)
      BY <1>3
    <2> QED BY <2>2, <2>3, <2>4
  <1>11. /\ be'.calls = be.calls /\ be'.early = be.early /\ be'.inEnc = <<>>
         /\ be'.inPlain = be.inPlain \o q /\ be'.outPlain = x /\ be'.outEnc = y
    BY <1>9
  <1>12. Output'
    <2>1. ProtectedAfterCcs'
      BY <1>1, QueueSame DEF IInv, Output
    <2> QED BY <1>1, <1>7, <1>9, <1>11, <2>1 DEF IInv, Output
  <1>13. CASE Returned("DecryptError")
    BY <1>1, <1>3, <1>11, <1>12, <1>13, ReturnedStep
  <1>14. CASE bad = {} /\ pc' = "incoming" /\ UNCHANGED <<state, error, returned, script>>
    <2>1. UNCHANGED <<state, script>> /\ (pc' \in {"opaque", "incoming"} /\ state \in Waiting)
      BY <1>2, <1>14
    <2>2. Sound' /\ Control'
      BY <1>1, <1>11, <2>1, IdleStep
    <2>3. Input'
      BY <1>1, <1>10, <1>11, <1>14 DEF IInv, Input
    <2>4. Fields' /\ BackendReady' /\ DataAuthenticated'
      BY <1>1, <1>11, Frame
    <2> QED BY <1>12, <2>2, <2>3, <2>4 DEF IInv
  <1> QED BY <1>5, <1>13, <1>14

LEMMA NextIncomingStep ==
  ASSUME IInv, next_incoming
  PROVE  IInv'
  <1>0. PICK r : r = Head(be.inPlain)
    OBVIOUS
  <1>1. /\ pc = "incoming" /\ script = <<>> /\ be.inPlain # <<>>
        /\ be' = [be EXCEPT !.inPlain = Tail(@)]
        /\ process_incoming_plain(r)
        /\ UNCHANGED <<state, pc, frames, hs, transcript, hslog, rl, tls, plain, env>>
    BY <1>0 DEF next_incoming, Between, coreVars
  <1>2. state \in Waiting /\ state \notin {"Initialized", "Error", "Panic"}
    BY <1>1, Rested
  <1>3. be.inPlain \in Seq(Opened) /\ be.inEnc \in Seq(AllRecords) /\ frames \in Seq(AllRecords)
    BY <1>2 DEF IInv, Input
  <1>4. r \in Opened /\ Tail(be.inPlain) \in Seq(Opened)
    BY <1>0, <1>1, <1>3
  <1>5. r \in AllRecords /\ Opens(r)
    BY <1>4 DEF Opened
  <1> DEFINE t == Tail(be.inPlain)
  <1>6. be' = [be EXCEPT !.inPlain = t]
    BY <1>1
  <1> HIDE DEF t
  <1>7. be = [calls |-> be.calls, early |-> be.early, inEnc |-> be.inEnc, inPlain |-> be.inPlain,
              outPlain |-> be.outPlain, outEnc |-> be.outEnc]
    BY DEF IInv, Output
  <1>8. be' = [calls |-> be.calls, early |-> be.early, inEnc |-> be.inEnc, inPlain |-> t,
               outPlain |-> be.outPlain, outEnc |-> be.outEnc]
    BY <1>6, <1>7
  <1>9. /\ be'.calls = be.calls /\ be'.early = be.early /\ be'.inEnc = be.inEnc
        /\ be'.inPlain = t /\ be'.outPlain = be.outPlain /\ be'.outEnc = be.outEnc
    BY <1>8
  <1>10. /\ Sound' /\ Control' /\ Fields' /\ DataAuthenticated'
         /\ joiner' \in Seq(HandshakeMessages)
    BY <1>1, <1>2, <1>5, <1>9, IncomingPlain
  <1>11. Output'
    <2>1. ProtectedAfterCcs'
      BY <1>1, QueueSame DEF IInv, Output
    <2> QED BY <1>1, <1>8, <1>9, <2>1 DEF IInv, Output
  <1>12. BackendReady'
    BY <1>9, Frame
  <1>13. Input'
    BY <1>1, <1>3, <1>4, <1>9, <1>10 DEF Input, t
  <1> QED BY <1>10, <1>11, <1>12, <1>13 DEF IInv

\* What the backend sealed goes behind what was queued.
LEMMA QueuedOutput ==
  ASSUME Output, NEW q, Sealed(q), NEW p, Sealed(p), UNCHANGED rl,
         be' = [calls |-> be.calls, early |-> be.early, inEnc |-> be.inEnc, inPlain |-> be.inPlain,
                outPlain |-> p, outEnc |-> <<>>],
         tls' = Queued \o q
  PROVE  Output' /\ Kept
  <1>1. /\ be'.calls = be.calls /\ be'.early = be.early /\ be'.inEnc = be.inEnc
        /\ be'.inPlain = be.inPlain /\ be'.outPlain = p /\ be'.outEnc = <<>>
    OBVIOUS
  <1>2. IsSeq(tls) /\ Sealed(be.outEnc) /\ (rl.enc = "Active" => Guarded(tls))
    BY DEF Output, ProtectedAfterCcs, Guarded
  <1>3. IsSeq(tls \o be.outEnc) /\ (rl.enc = "Active" => Guarded(tls \o be.outEnc))
    BY <1>2, GuardedConcat, ConcatIsSeq DEF Sealed
  <1>4. IsSeq(tls') /\ ProtectedAfterCcs'
    <2>1. tls' = (tls \o be.outEnc) \o q
      BY DEF Queued
    <2> QED BY <1>3, <2>1, QueueSealed
  <1>5. Sealed(<<>>)
    BY SealedLiteral, Item("Alert", 0, TRUE).enc DEF Item
  <1> QED BY <1>1, <1>4, <1>5 DEF Output, Kept

LEMMA NextOutgoingStep ==
  ASSUME IInv, next_outgoing
  PROVE  IInv'
  <1>1. /\ pc = "incoming" /\ script = <<>>
        /\ tls' = Queued /\ be' = [be EXCEPT !.outEnc = <<>>] /\ pc' = "idle"
        /\ UNCHANGED <<state, script, msg, hs, transcript, hslog, frames, joiner, rl, common, plain, env>>
    BY DEF next_outgoing, Between, hsVars, inVars
  <1>2. be = [calls |-> be.calls, early |-> be.early, inEnc |-> be.inEnc, inPlain |-> be.inPlain,
              outPlain |-> be.outPlain, outEnc |-> be.outEnc]
    BY DEF IInv, Output
  <1>3. be' = [calls |-> be.calls, early |-> be.early, inEnc |-> be.inEnc, inPlain |-> be.inPlain,
               outPlain |-> be.outPlain, outEnc |-> <<>>]
    BY <1>1, <1>2
  <1>4. Output' /\ Kept
    <2>1. Sealed(be.outPlain) /\ Sealed(<<>>)
      BY SealedLiteral, Item("Alert", 0, TRUE).enc DEF Item, IInv, Output
    <2>2. Queued = Queued \o <<>>
      <3>1. IsSeq(Queued)
        BY ConcatIsSeq DEF Queued, IInv, Output, Sealed
      <3> DEFINE c == Queued
      <3>2. PICK S : c \in Seq(S)
        BY <3>1 DEF IsSeq
      <3> HIDE DEF c
      <3>3. c = c \o <<>>
        BY <3>2
      <3> QED BY <3>3 DEF c
    <2> QED BY <1>1, <1>3, <2>1, <2>2, QueuedOutput DEF IInv
  <1>5. Sound' /\ Control'
    BY <1>1, <1>4, IdleStep DEF Kept
  <1>6. Fields' /\ BackendReady' /\ DataAuthenticated' /\ Input'
    <2>1. state \notin {"Error", "Panic"}
      BY <1>1, Rested
    <2> QED BY <1>1, <1>4, <2>1, Frame DEF Kept
  <1> QED BY <1>4, <1>5, <1>6 DEF IInv

\* Each phase of process_new_packets keeps the invariant.
LEMMA ProcessingStep ==
  ASSUME IInv, Processing
  PROVE  IInv'
  BY ProcessStep, NextMessageStep, OpaqueStep, FlushPacketsStep, NextIncomingStep, NextOutgoingStep
     DEF Processing

-----------------------------------------------------------------------------
(* The other calls of the connection *)

LEMMA StartStep ==
  ASSUME IInv, start
  PROVE  IInv'
  <1>1. /\ pc = "idle" /\ state = "Initialized" /\ pc' = "start" /\ script' = start_handshake
        /\ UNCHANGED <<state, msg, hs, transcript, hslog, frames, joiner, rl, be, tls, common, plain, env>>
    BY DEF start, hsVars, inVars, outVars
  <1>2. script = <<>> /\ state \notin {"Error", "Panic"}
    BY <1>1, Rested
  <1>3. PICK s : s = state /\ Holds(Rest(s))
    BY <1>2, AtRest
  <1>4. PICK p : p = Rest(s) /\ Holds(p) /\ p.log # "behind" /\ p.keys # "ccs"
    BY <1>3, RestLog
  <1>5. Holds(p)'
    BY <1>1, <1>4, StillHolds
  <1>6. Safe(msg', script', p)
    BY <1>1, <1>3, <1>4, StartSafe
  <1>7. Sound' /\ Control'
    BY <1>1, <1>5, <1>6 DEF Sound, Control, IInv
  <1> QED BY <1>1, <1>2, <1>7, Frame DEF IInv

LEMMA StartedStep ==
  ASSUME IInv, started
  PROVE  IInv'
  <1>1. /\ pc = "start" /\ script = <<>> /\ pc' = "idle"
        /\ UNCHANGED <<state, script, msg, hs, transcript, hslog, frames, joiner, rl, be, tls, common,
                       plain, env>>
    BY DEF started, hsVars, inVars, outVars
  <1>2. Sound' /\ Control'
    BY <1>1, IdleStep
  <1>3. state \notin {"Error", "Panic"}
    BY <1>1 DEF IInv, Control
  <1> QED BY <1>1, <1>2, <1>3, Frame DEF IInv

\* What a connection at rest is not changed in, its calls leave alone.
LEMMA UsableStep ==
  ASSUME IInv, Usable
  PROVE  pc = "idle" /\ script = <<>> /\ state \in Waiting /\ state \notin {"Error", "Panic"}
  BY Rested DEF Usable, Resting

LEMMA ReadTlsStep ==
  ASSUME IInv, read_tls
  PROVE  IInv'
  <1>1. /\ Usable
        /\ UNCHANGED <<state, pc, script, msg, hs, transcript, hslog, joiner, rl, be, tls, plain>>
    BY DEF read_tls, coreVars, hsVars, outVars
  <1>2. pc = "idle" /\ script = <<>> /\ state \notin {"Error", "Panic"}
    BY <1>1, UsableStep
  <1>3. frames \in Seq(AllRecords) /\ env \in [sent : Nat, odd : Nat, wrote : Nat]
    BY DEF IInv, Input, Fields
  <1>4. common \in [version : Version, aligned : BOOLEAN, may_send : BOOLEAN,
                    may_receive : BOOLEAN, fatal : Nat, close_notify : BOOLEAN, eof : BOOLEAN,
                    ccs : Nat, desynced : BOOLEAN]
    BY DEF IInv, Fields
  <1>5. /\ frames' \in Seq(AllRecords) /\ env' \in [sent : Nat, odd : Nat, wrote : Nat]
        /\ common' \in {common, [common EXCEPT !.eof = TRUE], [common EXCEPT !.desynced = TRUE]}
    <2>1. CASE /\ \E r \in Records \union OddRecords :
                    LET odd == IF r \in OddRecords THEN 1 ELSE 0
                    IN /\ env.odd + odd <= MaxOdd
                       /\ frames' = Append(frames, r)
                       /\ env' = [env EXCEPT !.sent = @ + 1, !.odd = @ + odd]
               /\ UNCHANGED common
      <3>1. PICK r \in AllRecords, o \in {0, 1} :
              /\ frames' = Append(frames, r)
              /\ env' = [env EXCEPT !.sent = @ + 1, !.odd = @ + o]
        BY <2>1 DEF AllRecords
      <3>2. frames' \in Seq(AllRecords)
        BY <1>3, <3>1
      <3>3. env' \in [sent : Nat, odd : Nat, wrote : Nat]
        <4> DEFINE e == env
        <4>1. /\ e \in [sent : Nat, odd : Nat, wrote : Nat] /\ o \in Nat
              /\ env' = [e EXCEPT !.sent = e.sent + 1, !.odd = e.odd + o]
          BY <1>3, <3>1
        <4> HIDE DEF e
        <4>2. e.sent + 1 \in Nat /\ e.odd + o \in Nat
          BY <4>1
        <4> QED BY <4>1, <4>2
      <3> QED BY <2>1, <3>2, <3>3
    <2>2. CASE /\ UNCHANGED <<frames, env>>
               /\ \/ common' = [common EXCEPT !.eof = TRUE]
                  \/ common' = [common EXCEPT !.desynced = TRUE]
      BY <1>3, <2>2
    <2> QED BY <2>1, <2>2 DEF read_tls
  <1>6. /\ common'.may_send = common.may_send /\ common'.may_receive = common.may_receive
        /\ common'.version = common.version
        /\ common' \in [version : Version, aligned : BOOLEAN, may_send : BOOLEAN,
                        may_receive : BOOLEAN, fatal : Nat, close_notify : BOOLEAN, eof : BOOLEAN,
                        ccs : Nat, desynced : BOOLEAN]
    BY <1>4, <1>5
  <1>7. Fields'
    BY <1>1, <1>5, <1>6 DEF IInv, Fields
  <1>8. Sound' /\ Control'
    BY <1>1, <1>2, <1>6, IdleStep
  <1>9. Input'
    BY <1>1, <1>5 DEF IInv, Input
  <1> QED BY <1>1, <1>6, <1>7, <1>8, <1>9, Frame DEF IInv

\* Data goes to the backend only once the handshake allows it, and is sealed there.
LEMMA WriteStep ==
  ASSUME IInv, write_plaintext
  PROVE  IInv'
  <1>1. /\ Usable
        /\ UNCHANGED <<pc, script, msg, hs, transcript, hslog, frames, joiner, tls, common>>
    BY DEF write_plaintext, hsVars, inVars
  <1>2. pc = "idle" /\ script = <<>> /\ state \notin {"Error", "Panic"}
    BY <1>1, UsableStep
  <1>3. CASE state' = "Panic" /\ UNCHANGED <<rl, be, plain, env>>
    <2>1. Sound' /\ Control'
      BY <1>1, <1>2, <1>3 DEF Sound, Control, IInv
    <2>2. Input'
      BY <1>1, <1>3 DEF IInv, Input
    <2>3. Fields' /\ Output' /\ BackendReady' /\ DataAuthenticated'
      BY <1>1, <1>3, Frame
    <2> QED BY <2>1, <2>2, <2>3 DEF IInv
  <1>4. CASE /\ send_some_plaintext(env.wrote + 1) /\ env' = [env EXCEPT !.wrote = @ + 1]
             /\ UNCHANGED state
    <2> DEFINE k == env.wrote + 1
               x == Item("ApplicationData", k, TRUE)
    <2>1. /\ env \in [sent : Nat, odd : Nat, wrote : Nat]
          /\ plain \in [sendable : Seq(Nat), received : Seq(SUBSET Option)]
      BY DEF IInv, Fields
    <2>2. k \in Nat /\ env' \in [sent : Nat, odd : Nat, wrote : Nat]
      BY <1>4, <2>1
    <2>3. /\ Output' /\ Kept
          /\ plain' = plain \/ plain' = [plain EXCEPT !.sendable = Append(@, k)]
      <3>1. CASE Pushed(<<x>>) /\ UNCHANGED plain
        <4>1. Sealed(<<x>>)
          <5>1. x.enc
            BY DEF Item
          <5> HIDE DEF x
          <5> QED BY <5>1, SealedLiteral
        <4> QED BY <1>1, <3>1, <4>1, PushedOutput DEF IInv
      <3>2. CASE plain' = [plain EXCEPT !.sendable = Append(@, k)] /\ UNCHANGED <<rl, be>>
        BY <1>1, <3>2, Frame DEF Kept
      <3> QED BY <1>4, <3>1, <3>2 DEF send_some_plaintext
    <2> HIDE DEF k
    <2>4. /\ plain' \in [sendable : Seq(Nat), received : Seq(SUBSET Option)]
          /\ plain'.received = plain.received
      <3>1. \A c \in Seq(Nat) : Append(c, k) \in Seq(Nat)
        BY <2>2
      <3> QED BY <2>1, <2>3, <3>1
    <2>5. Fields'
      BY <1>1, <2>2, <2>4 DEF IInv, Fields
    <2>6. Sound' /\ Control'
      BY <1>1, <1>2, <1>4, <2>3, <2>4, IdleStep DEF Kept
    <2> QED BY <1>1, <1>2, <1>4, <2>3, <2>4, <2>5, <2>6, Frame DEF IInv, Kept
  <1> QED BY <1>3, <1>4 DEF write_plaintext

LEMMA FlushWrittenStep ==
  ASSUME IInv, flush_written
  PROVE  IInv'
  <1>1. /\ Usable /\ be' = [be EXCEPT !.outPlain = <<>>, !.outEnc = <<>>]
        /\ tls' = Queued \o be.outPlain
        /\ UNCHANGED <<state, pc, script, msg, hs, transcript, hslog, frames, joiner, rl, common, plain,
                       env>>
    BY DEF flush_written, coreVars, hsVars, inVars
  <1>2. pc = "idle" /\ script = <<>> /\ state \notin {"Error", "Panic"}
    BY <1>1, UsableStep
  <1>3. be = [calls |-> be.calls, early |-> be.early, inEnc |-> be.inEnc, inPlain |-> be.inPlain,
              outPlain |-> be.outPlain, outEnc |-> be.outEnc]
    BY DEF IInv, Output
  <1>4. be' = [calls |-> be.calls, early |-> be.early, inEnc |-> be.inEnc, inPlain |-> be.inPlain,
               outPlain |-> <<>>, outEnc |-> <<>>]
    BY <1>1, <1>3
  <1>5. Output' /\ Kept
    <2>1. Sealed(be.outPlain)
      BY DEF IInv, Output
    <2>2. Sealed(<<>>)
      BY SealedLiteral, Item("Alert", 0, TRUE).enc DEF Item
    <2> QED BY <1>1, <1>4, <2>1, <2>2, QueuedOutput DEF IInv
  <1>6. Sound' /\ Control'
    BY <1>1, <1>2, <1>5, IdleStep DEF Kept
  <1> QED BY <1>1, <1>2, <1>5, <1>6, Frame DEF IInv, Kept

LEMMA ReadPlaintextStep ==
  ASSUME IInv, read_plaintext
  PROVE  IInv'
  <1>1. /\ pc = "idle" /\ plain' = [plain EXCEPT !.received = <<>>]
        /\ UNCHANGED <<state, pc, script, msg, hs, transcript, hslog, frames, joiner, rl, be, tls, common,
                       env>>
    BY DEF read_plaintext, coreVars, hsVars, inVars, outVars
  <1>2. script = <<>>
    BY <1>1, Rested
  <1>3. /\ plain' \in [sendable : Seq(Nat), received : Seq(SUBSET Option)]
        /\ plain'.received = <<>> /\ DOMAIN plain'.received = {}
    <2>1. plain \in [sendable : Seq(Nat), received : Seq(SUBSET Option)]
      BY DEF IInv, Fields
    <2>2. <<>> \in Seq(SUBSET Option) /\ DOMAIN <<>> = {}
      OBVIOUS
    <2> QED BY <1>1, <2>1, <2>2
  <1>4. Sound' /\ Control'
    BY <1>1, <1>2, <1>3, IdleStep
  <1>5. DataAuthenticated'
    BY <1>1, <1>3 DEF IInv, DataAuthenticated
  <1>6. Fields'
    BY <1>1, <1>3 DEF IInv, Fields
  <1> QED BY <1>1, <1>4, <1>5, <1>6, Frame DEF IInv

LEMMA CloseStep ==
  ASSUME IInv, send_close_notify
  PROVE  IInv'
  <1> DEFINE enc == IsEncrypting
  <1>1. /\ Usable /\ send_msg("close_notify", enc)
        /\ UNCHANGED <<state, pc, script, msg, hs, transcript, hslog, frames, joiner, common, plain, env>>
    BY DEF send_close_notify, coreVars, hsVars, inVars
  <1>2. pc = "idle" /\ script = <<>> /\ state \notin {"Error", "Panic"}
    BY <1>1, UsableStep
  <1>3. enc \in BOOLEAN /\ (rl.enc = "Active" => enc)
    BY DEF IsEncrypting
  <1> HIDE DEF enc
  <1>4. Output' /\ Kept
    BY <1>1, <1>3, SendMsg DEF IInv
  <1>5. Sound' /\ Control'
    BY <1>1, <1>2, <1>4, IdleStep DEF Kept
  <1> QED BY <1>1, <1>2, <1>4, <1>5, Frame DEF IInv, Kept

LEMMA StutterStep ==
  ASSUME IInv, UNCHANGED vars
  PROVE  IInv'
  <1>1. UNCHANGED <<state, pc, script, msg, hs, common, rl, be, frames, joiner, transcript, hslog, plain,
                    tls, env>>
    BY DEF vars
  <1>2. Fields' /\ Output' /\ BackendReady' /\ Input' /\ DataAuthenticated'
    <2>1. Input'
      BY <1>1 DEF IInv, Input
    <2> QED BY <1>1, <2>1, Frame
  <1>3. Control'
    BY <1>1 DEF IInv, Control
  <1>4. Sound'
    <2>1. CASE state \in {"Error", "Panic"}
      BY <1>1, <2>1 DEF Sound
    <2>2. CASE state \notin {"Error", "Panic"}
      <3>1. PICK a : Holds(a) /\ Safe(msg, script, a)
        BY <2>2 DEF IInv, Sound
      <3>2. Holds(a)'
        BY <1>1, <3>1, StillHolds
      <3>3. Safe(msg', script', a)
        BY <1>1, <3>1
      <3> QED BY <3>2, <3>3 DEF Sound
    <2> QED BY <2>1, <2>2
  <1> QED BY <1>2, <1>3, <1>4 DEF IInv

-----------------------------------------------------------------------------
(* The theorems *)

LEMMA IInvInit == Init => IInv
  <1> SUFFICES ASSUME Init PROVE IInv
    OBVIOUS
  <1>1. /\ <<>> \in Seq(AllRecords) /\ <<>> \in Seq(HandshakeMessages) /\ <<>> \in Seq(Opened)
        /\ <<>> \in Seq(Nat) /\ <<>> \in Seq(SUBSET Option) /\ DOMAIN <<>> = {}
    OBVIOUS
  <1>2. IsSeq(<<>>) /\ Sealed(<<>>)
    BY SealedLiteral, Literals, Item("Alert", 0, TRUE).enc DEF Item
  <1>3. Fields
    <2>1. hs \in [opts : SUBSET Option, auth : {"none", "empty", "verify"}, authBuf : BOOLEAN,
                  retried : BOOLEAN, fakeCcs : BOOLEAN, flaws : SUBSET STRING]
      BY ClientAssumption DEF Init
    <2>2. common \in [version : Version, aligned : BOOLEAN, may_send : BOOLEAN,
                      may_receive : BOOLEAN, fatal : Nat, close_notify : BOOLEAN, eof : BOOLEAN,
                      ccs : Nat, desynced : BOOLEAN]
      BY DEF Init, Version
    <2>3. plain \in [sendable : Seq(Nat), received : Seq(SUBSET Option)]
      BY <1>1 DEF Init
    <2>4. env \in [sent : Nat, odd : Nat, wrote : Nat] /\ msg.ver \in Version /\ msg.opts \subseteq Option
      BY DEF Init, NoMsg, Version
    <2> QED BY <1>2, <2>1, <2>2, <2>3, <2>4 DEF Fields, Init
  <1>4. Output
    <2>1. rl \in LayerType /\ ProtectedAfterCcs
      BY DEF Init, LayerType, ProtectedAfterCcs
    <2> QED BY <1>2, <2>1 DEF Init, Output
  <1>5. Input /\ BackendReady
    BY <1>1 DEF Init, Input, BackendReady
  <1>6. Control
    BY DEF Init, Control
  <1>7. DataAuthenticated
    BY <1>1 DEF Init, DataAuthenticated
  <1>8. Sound
    <2> DEFINE s == "Initialized"
    <2>1. Path(msg, <<>>, Rest(s), Rest(s))
      BY PathEmpty
    <2>2. PICK p : p = Rest("Initialized")
      OBVIOUS
    <2>3. /\ p.at = "Initialized" /\ p.calls = {} /\ p.pending = {} /\ p.log = "empty"
          /\ p.keys = "clear" /\ p.ver = "any"
      <3>1. /\ CallsOf("Initialized") = {} /\ PendingOf("Initialized") = {}
            /\ LogOf("Initialized") = "empty" /\ KeysOf("Initialized") = "clear"
        BY DEF CallsOf, PendingOf, LogOf, KeysOf, Hello, Open, States13
      <3>2. "Initialized" \notin States13
        BY DEF States13
      <3> QED BY <2>2, <3>1, <3>2 DEF Rest, Point
    <2>4. Holds(p)
      BY <2>3 DEF Holds, Init, LogIs, KeysAre, NoData
    <2>5. Safe(msg, script, p)
      BY <2>1, <2>2 DEF Safe, Init
    <2> QED BY <2>4, <2>5 DEF Sound
  <1> QED BY <1>3, <1>4, <1>5, <1>6, <1>7, <1>8 DEF IInv

LEMMA IInvStep == IInv /\ [Next]_vars => IInv'
  BY HandlingStep, ProcessingStep, StartStep, StartedStep, ReadTlsStep, WriteStep, FlushWrittenStep,
     ReadPlaintextStep, CloseStep, StutterStep DEF Next, Ended

LEMMA Invariance == Spec => []IInv
  BY IInvInit, IInvStep, PTL DEF Spec

\* The order of the calls of the backend: hs.rs, tls12.rs and tls13.rs make no call before those that
\* give the backend what it needs, through every selection of optional messages and every retry.
THEOREM BackendCallsReady == Spec => []BackendReady
  <1>1. IInv => BackendReady
    BY DEF IInv
  <1> QED BY <1>1, Invariance, PTL

\* What the handshake hash covers when the backend is asked for a Finished or a secret: all of the
\* conversation, of which the hash of hash_hs.rs leaves out nothing on any path of the handshake.
THEOREM TranscriptHashed == Spec => []TranscriptComplete
  <1>1. IInv => TranscriptComplete
    <2> SUFFICES ASSUME IInv, script # <<>>, Head(script).op = "call"
                 PROVE  CASE Arg = "get_server_finished_vd" ->
                               transcript = Conversation(SubSeq(hslog, 1, Len(hslog) - 1))
                          [] Arg \in {"get_client_finished_vd", "set_hs_hash_client_key_exchange",
                                      "set_hs_hash_server_hello"} -> transcript = Conversation(hslog)
                          [] OTHER -> TRUE
      BY DEF TranscriptComplete
    <2>1. PICK a, b : Holds(a) /\ Move(msg, Head(script), a, b)
      BY AtPoint
    <2>2. LogMove(Head(script), a, b)
      BY <2>1 DEF Move
    <2>3. CASE Arg = "get_server_finished_vd"
      <3>1. a.log = "behind"
        BY <2>2, <2>3 DEF LogMove, Arg
      <3>2. transcript = Conversation(SubSeq(hslog, 1, Len(hslog) - 1))
        BY <2>1, <3>1 DEF Holds, LogIs
      <3> QED BY <2>3, <3>2
    <2>4. CASE Arg \in Hashed
      <3>1. a.log = "same"
        BY <2>2, <2>4 DEF LogMove, Arg
      <3>2. transcript = Conversation(hslog)
        BY <2>1, <3>1 DEF Holds, LogIs
      <3> QED BY <2>4, <3>2 DEF Hashed
    <2> QED BY <2>3, <2>4 DEF Hashed
  <1> QED BY <1>1, Invariance, PTL

\* Alerts included, nothing that send_msg or queue_tls_message puts behind the ChangeCipherSpec of the
\* client is in the clear once its record layer encrypts.
THEOREM NothingClearAfterCcs == Spec => []ProtectedAfterCcs
  <1>1. IInv => ProtectedAfterCcs
    BY DEF IInv, Output
  <1> QED BY <1>1, Invariance, PTL

\* The certificate, the signature and the Finished of the server have been good whenever
\* application data is sent or was received, and TLS 1.2 delivers none that was not protected.
THEOREM DataFromAuthenticated == Spec => []DataAuthenticated
  <1>1. IInv => DataAuthenticated
    BY DEF IInv
  <1> QED BY <1>1, Invariance, PTL

=============================================================================
