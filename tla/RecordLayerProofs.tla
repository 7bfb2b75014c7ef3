------------------------- MODULE RecordLayerProofs -------------------------
(***************************************************************************)
(* What every operation of the record layer preserves: its type, and that  *)
(* the records are numbered without gap or repetition.                     *)
(***************************************************************************)
EXTENDS RecordLayer, FiniteSetTheorems, SequenceTheorems, WellFoundedInduction, TLAPS

\* A set of natural numbers has a least element.
LEMMA LeastNumber ==
  ASSUME NEW T, T \subseteq Nat, T # {}
  PROVE  \E m \in T : \A y \in T : m <= y
<1>1. \A x, y \in Nat : x < y => <<x, y>> \in OpToRel(<, Nat)
  BY Zenon DEF OpToRel
<1>2. ASSUME NEW R, \A x, y \in Nat : x < y => <<x, y>> \in R, IsWellFoundedOn(R, Nat)
      PROVE  \E m \in T : \A y \in T : m <= y
  <2>0. IsWellFoundedOn(R, Nat) /\ T \subseteq Nat /\ T # {}
    BY <1>2
  <2>1. PICK m \in T : \A y \in T : ~(<<y, m>> \in R)
    <3> HIDE <1>2
    <3> QED BY <2>0, WFMin, Zenon
  <2>2. ASSUME NEW y \in T PROVE m <= y
    <3>1. m \in Nat /\ y \in Nat
      OBVIOUS
    <3>2. ~(<<y, m>> \in R)
      BY <2>1
    <3>3. ~(y < m)
      BY <1>2, <3>1, <3>2
    <3> QED BY <3>1, <3>3
  <2> QED BY <2>2
<1> QED BY <1>1, <1>2, NatLessThanWellFounded, Zenon

\* The sum of finitely many natural numbers is a natural number.
LEMMA TotalType ==
  ASSUME NEW n \in Nat, NEW f \in [1 .. n -> Nat]
  PROVE  Total(f) \in Nat
<1> DEFINE part == [i \in 1 .. n |-> {i} \X (1 .. f[i])]
           parts == {{i} \X (1 .. f[i]) : i \in DOMAIN f}
<1>1. IsFiniteSet(1 .. n)
  BY FS_Interval
<1>2. part \in Surjection(1 .. n, parts)
  BY DEF Surjection
<1>3. IsFiniteSet(parts)
  <2> HIDE DEF part, parts
  <2> QED BY <1>1, <1>2, FS_Surjection
<1>4. ASSUME NEW i \in 1 .. n
      PROVE  IsFiniteSet({i} \X (1 .. f[i]))
  <2>1. IsFiniteSet({i})
    BY FS_Singleton
  <2>2. IsFiniteSet(1 .. f[i])
    BY FS_Interval
  <2> QED BY <2>1, <2>2, FS_Product
<1>5. \A P \in parts : IsFiniteSet(P)
  BY <1>4
<1>6. IsFiniteSet(UNION parts)
  <2> HIDE DEF parts
  <2> QED BY <1>3, <1>5, FS_UNION
<1>7. Cardinality(UNION parts) \in Nat
  <2> HIDE DEF parts
  <2> QED BY <1>6, FS_CardinalityType
<1> QED BY <1>7 DEF Total

LEMMA BytesType ==
  ASSUME NEW ops \in Seq(DecryptOp)
  PROVE  Bytes(ops) \in Nat
<1> DEFINE f == [i \in DOMAIN ops |-> ops[i].len]
<1>1. DOMAIN ops = 1 .. Len(ops) /\ Len(ops) \in Nat
  BY LenProperties
<1>2. \A i \in 1 .. Len(ops) : ops[i] \in DecryptOp
  BY ElementOfSeq
<1>3. f \in [1 .. Len(ops) -> Nat]
  BY <1>1, <1>2 DEF DecryptOp
<1>4. Total(f) \in Nat
  <2> HIDE DEF f
  <2> QED BY <1>1, <1>3, TotalType
<1> QED BY <1>4 DEF Bytes

-----------------------------------------------------------------------------
(***************************************************************************)
(* flush drains a prefix of the buffer, whether or not decryption is       *)
(* deferred; with it deferred the prefix holds no application data and     *)
(* is the longest that does not.                                           *)
(***************************************************************************)
LEMMA DrainCountIs ==
  ASSUME NEW l \in Layer, NEW d \in BOOLEAN
  PROVE  /\ DrainCount(l, d) \in 0 .. Len(l.decrypt_buffer)
         /\ ~d => \A i \in 1 .. DrainCount(l, d) : ~IsData(l.decrypt_buffer[i])
<1> DEFINE b == l.decrypt_buffer
           P(n) == /\ \A i \in 1 .. n : ~IsData(b[i])
                   /\ n < Len(b) => IsData(b[n + 1])
<1>0. b \in Seq(DecryptOp) /\ Len(b) \in Nat
  BY LenProperties DEF Layer
<1>1. CASE d
  BY <1>0, <1>1 DEF DrainCount
<1>2. CASE ~d
  <2> DEFINE T == {i \in 1 .. Len(b) : IsData(b[i])}
  <2>1. \E n \in 0 .. Len(b) : P(n)
    <3>1. CASE T = {}
      <4>1. P(Len(b))
        BY <3>1, <1>0
      <4> QED BY <4>1, <1>0
    <3>2. CASE T # {}
      <4>1. T \subseteq Nat
        OBVIOUS
      <4>2. PICK m \in T : \A y \in T : m <= y
        <5> HIDE DEF T
        <5> QED BY <4>1, <3>2, LeastNumber
      <4>3. m \in 1 .. Len(b) /\ IsData(b[m])
        OBVIOUS
      <4>4. \A i \in 1 .. m - 1 : ~IsData(b[i])
        BY <4>2, <4>3, <1>0
      <4>5. m - 1 \in 0 .. Len(b) /\ m - 1 + 1 = m
        BY <4>3, <1>0
      <4> QED BY <4>3, <4>4, <4>5
    <3> QED BY <3>1, <3>2
  <2>2. DrainCount(l, d) = CHOOSE n \in 0 .. Len(b) : P(n)
    BY <1>2 DEF DrainCount
  <2>3. DrainCount(l, d) \in 0 .. Len(b) /\ P(DrainCount(l, d))
    <3> HIDE DEF P
    <3> QED BY <2>1, <2>2
  <2> QED BY <2>3
<1> QED BY <1>1, <1>2
(***************************************************************************)
(* Numbering: a record pushed takes the next number, and a record moved    *)
(* from the front of the buffer to the processed ones keeps its own.       *)
(***************************************************************************)
LEMMA NumberedAppend ==
  ASSUME NEW S, NEW done \in Seq(S), NEW buffered \in Seq(S), NEW next \in Nat,
         NEW op \in S, op.seq = next, Numbered(done, buffered, next)
  PROVE  Numbered(done, Append(buffered, op), next + 1)
<1>1. Len(done) \in Nat /\ Len(buffered) \in Nat
  BY LenProperties
<1>2. /\ Len(Append(buffered, op)) = Len(buffered) + 1
      /\ \A i \in 1 .. Len(buffered) : Append(buffered, op)[i] = buffered[i]
      /\ Append(buffered, op)[Len(buffered) + 1] = op
  BY AppendProperties
<1>3. ASSUME NEW i \in 1 .. Len(buffered) + 1
      PROVE  Append(buffered, op)[i].seq = Len(done) + i - 1
  <2>1. CASE i = Len(buffered) + 1
    <3>1. Len(done) + Len(buffered) = next
      BY DEF Numbered
    <3> QED BY <2>1, <3>1, <1>1, <1>2
  <2>2. CASE i \in 1 .. Len(buffered)
    BY <2>2, <1>2 DEF Numbered
  <2> QED BY <2>1, <2>2, <1>1
<1> QED BY <1>1, <1>2, <1>3 DEF Numbered

LEMMA NumberedMove ==
  ASSUME NEW S, NEW done \in Seq(S), NEW buffered \in Seq(S), NEW next \in Nat,
         NEW n \in 0 .. Len(buffered), Numbered(done, buffered, next)
  PROVE  Numbered(done \o SubSeq(buffered, 1, n), SubSeq(buffered, n + 1, Len(buffered)), next)
<1> DEFINE front == SubSeq(buffered, 1, n)
           rest == SubSeq(buffered, n + 1, Len(buffered))
<1>1. Len(done) \in Nat /\ Len(buffered) \in Nat
  BY LenProperties
<1>2. \A i \in 1 .. Len(buffered) : buffered[i] \in S
  BY ElementOfSeq
<1>3. /\ front \in Seq(S) /\ Len(front) = n
      /\ \A i \in 1 .. n : front[i] = buffered[i]
  <2>1. \A i \in 1 .. n : buffered[i] \in S
    BY <1>1, <1>2
  <2>2. /\ front \in Seq(S) /\ Len(front) = IF 1 <= n THEN n - 1 + 1 ELSE 0
        /\ \A i \in 1 .. n - 1 + 1 : front[i] = buffered[1 + i - 1]
    BY <2>1, SubSeqProperties
  <2> QED BY <2>2, <1>1
<1>4. /\ rest \in Seq(S) /\ Len(rest) = Len(buffered) - n
      /\ \A i \in 1 .. Len(buffered) - n : rest[i] = buffered[n + i]
  <2>1. \A i \in n + 1 .. Len(buffered) : buffered[i] \in S
    BY <1>1, <1>2
  <2>2. /\ rest \in Seq(S)
        /\ Len(rest) = IF n + 1 <= Len(buffered) THEN Len(buffered) - (n + 1) + 1 ELSE 0
        /\ \A i \in 1 .. Len(buffered) - (n + 1) + 1 : rest[i] = buffered[n + 1 + i - 1]
    <3>1. n + 1 \in Int /\ Len(buffered) \in Int
      BY <1>1
    <3> QED BY <2>1, <3>1, SubSeqProperties
  <2> QED BY <2>2, <1>1
<1> HIDE DEF front, rest
<1>5. /\ Len(done \o front) = Len(done) + n
      /\ \A i \in 1 .. Len(done) + n :
           (done \o front)[i] = IF i <= Len(done) THEN done[i] ELSE front[i - Len(done)]
  BY <1>1, <1>3, ConcatProperties
<1>6. ASSUME NEW i \in 1 .. Len(done) + n
      PROVE  (done \o front)[i].seq = i - 1
  <2>1. CASE i <= Len(done)
    BY <2>1, <1>1, <1>5 DEF Numbered
  <2>2. CASE ~(i <= Len(done))
    <3>1. i - Len(done) \in 1 .. n
      BY <2>2, <1>1
    <3>2. (done \o front)[i] = buffered[i - Len(done)]
      BY <2>2, <3>1, <1>3, <1>5
    <3>3. i - Len(done) \in 1 .. Len(buffered)
      BY <3>1, <1>1
    <3>4. buffered[i - Len(done)].seq = Len(done) + (i - Len(done)) - 1
      BY <3>3 DEF Numbered
    <3> QED BY <3>2, <3>4, <1>1
  <2> QED BY <2>1, <2>2
<1>7. ASSUME NEW i \in 1 .. Len(buffered) - n
      PROVE  rest[i].seq = Len(done) + n + i - 1
  <2>1. n + i \in 1 .. Len(buffered)
    BY <1>1
  <2>2. buffered[n + i].seq = Len(done) + (n + i) - 1
    BY <2>1 DEF Numbered
  <2> QED BY <2>2, <1>1, <1>4
<1>8. Len(done) + n + (Len(buffered) - n) = next
  <2>1. Len(done) + Len(buffered) = next
    BY DEF Numbered
  <2> QED BY <2>1, <1>1
<1>9. Numbered(done \o front, rest, next)
  BY <1>1, <1>4, <1>5, <1>6, <1>7, <1>8 DEF Numbered
<1> QED BY <1>9 DEF front, rest

(***************************************************************************)
(* The operations.                                                         *)
(***************************************************************************)
Good(l) == l \in Layer /\ LayerNumbered(l)

LEMMA NewLayerGood == Good(NewLayer)
<1>1. NewLayer \in Layer
  BY DEF NewLayer, Layer
<1>2. LayerNumbered(NewLayer)
  BY DEF NewLayer, LayerNumbered, Numbered
<1> QED BY <1>1, <1>2 DEF Good

\* alloc, setup, start_traffic and decoding the key touch neither buffers nor numbers.
LEMMA FlagsGood ==
  ASSUME NEW l, Good(l)
  PROVE  Good(alloc_layer(l)) /\ Good(setup_layer(l)) /\ Good(start_layer(l)) /\ Good(decode_key(l))
<1> USE DEF alloc_layer, setup_layer, start_layer, decode_key
<1>1. l \in Layer /\ LayerNumbered(l)
  BY DEF Good
<1>2. /\ alloc_layer(l) \in Layer /\ setup_layer(l) \in Layer
      /\ start_layer(l) \in Layer /\ decode_key(l) \in Layer
  BY <1>1 DEF Layer
<1>3. \A m \in {alloc_layer(l), setup_layer(l), start_layer(l), decode_key(l)} :
        /\ m.sent_records = l.sent_records /\ m.encrypt_buffer = l.encrypt_buffer
        /\ m.recv_records = l.recv_records /\ m.decrypt_buffer = l.decrypt_buffer
        /\ m.write_seq = l.write_seq /\ m.read_seq = l.read_seq
  BY <1>1 DEF Layer
<1>4. \A m \in {alloc_layer(l), setup_layer(l), start_layer(l), decode_key(l)} : LayerNumbered(m)
  BY <1>1, <1>3 DEF LayerNumbered
<1> QED BY <1>2, <1>4 DEF Good

LEMMA PushEncryptGood ==
  ASSUME NEW l, Good(l), NEW r \in [kind : Kinds, len : Nat]
  PROVE  Good(push_encrypt(l, r))
<1> DEFINE op == [seq |-> l.write_seq, kind |-> r.kind, len |-> r.len]
           m == push_encrypt(l, r)
<1>1. l \in Layer /\ LayerNumbered(l)
  BY DEF Good
<1>2. op \in EncryptOp /\ op.seq = l.write_seq
  BY <1>1 DEF Layer, EncryptOp
<1>3. Append(l.encrypt_buffer, op) \in Seq(EncryptOp)
  BY <1>1, <1>2, AppendProperties DEF Layer
<1>4. m = [l EXCEPT !.write_seq = l.write_seq + 1, !.sent = l.sent + r.len,
                    !.encrypt_buffer = Append(l.encrypt_buffer, op)]
  BY <1>1 DEF push_encrypt, Layer
<1> HIDE DEF op, m
<1>5. m \in Layer
  <2>1. l.write_seq + 1 \in Nat /\ l.sent + r.len \in Nat
    BY <1>1 DEF Layer
  <2> QED BY <1>1, <1>3, <1>4, <2>1 DEF Layer
<1>6. /\ m.sent_records = l.sent_records /\ m.encrypt_buffer = Append(l.encrypt_buffer, op)
      /\ m.recv_records = l.recv_records /\ m.decrypt_buffer = l.decrypt_buffer
      /\ m.write_seq = l.write_seq + 1 /\ m.read_seq = l.read_seq
  BY <1>1, <1>4 DEF Layer
<1>7. Numbered(l.sent_records, Append(l.encrypt_buffer, op), l.write_seq + 1)
  <2>1. /\ l.sent_records \in Seq(EncryptOp) /\ l.encrypt_buffer \in Seq(EncryptOp)
        /\ l.write_seq \in Nat /\ Numbered(l.sent_records, l.encrypt_buffer, l.write_seq)
    BY <1>1 DEF Layer, LayerNumbered
  <2> QED BY <2>1, <1>2, NumberedAppend
<1>8. LayerNumbered(m)
  BY <1>1, <1>6, <1>7 DEF LayerNumbered
<1> QED BY <1>5, <1>8 DEF Good, m

LEMMA PushDecryptGood ==
  ASSUME NEW l, Good(l), NEW r \in [kind : Kinds, len : Nat, tag : BOOLEAN]
  PROVE  Good(push_decrypt(l, r))
<1> DEFINE op == [seq |-> l.read_seq, kind |-> r.kind, len |-> r.len, tag |-> r.tag]
           m == push_decrypt(l, r)
<1>1. l \in Layer /\ LayerNumbered(l)
  BY DEF Good
<1>2. op \in DecryptOp /\ op.seq = l.read_seq
  BY <1>1 DEF Layer, DecryptOp
<1>3. Append(l.decrypt_buffer, op) \in Seq(DecryptOp)
  BY <1>1, <1>2, AppendProperties DEF Layer
<1>4. m = [l EXCEPT !.read_seq = l.read_seq + 1, !.recv = l.recv + r.len,
                    !.decrypt_buffer = Append(l.decrypt_buffer, op)]
  BY <1>1 DEF push_decrypt, Layer
<1> HIDE DEF op, m
<1>5. m \in Layer
  <2>1. l.read_seq + 1 \in Nat /\ l.recv + r.len \in Nat
    BY <1>1 DEF Layer
  <2> QED BY <1>1, <1>3, <1>4, <2>1 DEF Layer
<1>6. /\ m.sent_records = l.sent_records /\ m.encrypt_buffer = l.encrypt_buffer
      /\ m.recv_records = l.recv_records /\ m.decrypt_buffer = Append(l.decrypt_buffer, op)
      /\ m.write_seq = l.write_seq /\ m.read_seq = l.read_seq + 1
  BY <1>1, <1>4 DEF Layer
<1>7. Numbered(l.recv_records, Append(l.decrypt_buffer, op), l.read_seq + 1)
  <2>1. /\ l.recv_records \in Seq(DecryptOp) /\ l.decrypt_buffer \in Seq(DecryptOp)
        /\ l.read_seq \in Nat /\ Numbered(l.recv_records, l.decrypt_buffer, l.read_seq)
    BY <1>1 DEF Layer, LayerNumbered
  <2> QED BY <2>1, <1>2, NumberedAppend
<1>8. LayerNumbered(m)
  BY <1>1, <1>6, <1>7 DEF LayerNumbered
<1> QED BY <1>5, <1>8 DEF Good, m

\* The whole buffer is moved.
LEMMA NumberedMoveAll ==
  ASSUME NEW S, NEW done \in Seq(S), NEW buffered \in Seq(S), NEW next \in Nat,
         Numbered(done, buffered, next)
  PROVE  Numbered(done \o buffered, <<>>, next)
<1>1. Len(buffered) \in 0 .. Len(buffered) /\ Len(buffered) \in Int
  BY LenProperties
<1>2. /\ SubSeq(buffered, 1, Len(buffered)) = buffered
      /\ SubSeq(buffered, Len(buffered) + 1, Len(buffered)) = <<>>
  <2>1. Len(buffered) < Len(buffered) + 1 /\ Len(buffered) + 1 \in Int
    BY <1>1
  <2> QED BY <1>1, <2>1, SubSeqFull, SubSeqEmpty
<1>3. Numbered(done \o SubSeq(buffered, 1, Len(buffered)),
               SubSeq(buffered, Len(buffered) + 1, Len(buffered)), next)
  BY <1>1, NumberedMove
<1> QED BY <1>2, <1>3

LEMMA FlushOpsType ==
  ASSUME NEW l \in Layer, NEW d \in BOOLEAN
  PROVE  /\ FlushOps(l, d) \in Seq(DecryptOp)
         /\ SubSeq(l.decrypt_buffer, DrainCount(l, d) + 1, Len(l.decrypt_buffer)) \in Seq(DecryptOp)
<1> DEFINE b == l.decrypt_buffer
           n == DrainCount(l, d)
<1>1. b \in Seq(DecryptOp)
  BY DEF Layer
<1>2. Len(b) \in Nat /\ \A i \in 1 .. Len(b) : b[i] \in DecryptOp
  BY <1>1, LenProperties, ElementOfSeq
<1>3. n \in 0 .. Len(b)
  BY DrainCountIs
<1> HIDE DEF b, n
<1>4. n \in Int /\ n + 1 \in Int /\ Len(b) \in Int
  BY <1>2, <1>3
<1>5. /\ \A i \in 1 .. n : b[i] \in DecryptOp
      /\ \A i \in n + 1 .. Len(b) : b[i] \in DecryptOp
  BY <1>2, <1>3
<1>6. SubSeq(b, 1, n) \in Seq(DecryptOp)
  BY <1>4, <1>5, SubSeqProperties
<1>7. SubSeq(b, n + 1, Len(b)) \in Seq(DecryptOp)
  BY <1>4, <1>5, SubSeqProperties
<1> QED BY <1>6, <1>7 DEF FlushOps, b, n

LEMMA FlushGood ==
  ASSUME NEW l, Good(l), NEW d \in BOOLEAN
  PROVE  /\ Good(flush_layer(l, d))
         /\ flush_layer(l, d).encrypt_buffer = <<>>
         /\ flush_layer(l, d).sent_records = l.sent_records \o l.encrypt_buffer
         /\ flush_layer(l, d).recv_records = l.recv_records \o FlushOps(l, d)
         /\ flush_layer(l, d).key = l.key
         /\ flush_layer(l, d).decrypt_buffer
              = SubSeq(l.decrypt_buffer, DrainCount(l, d) + 1, Len(l.decrypt_buffer))
         /\ flush_layer(l, d).write_seq = l.write_seq /\ flush_layer(l, d).read_seq = l.read_seq
<1> DEFINE ops == FlushOps(l, d)
           rest == SubSeq(l.decrypt_buffer, DrainCount(l, d) + 1, Len(l.decrypt_buffer))
           online == IF d THEN l.recv_online + Bytes(ops) ELSE l.recv_online
           m == flush_layer(l, d)
<1>1. l \in Layer /\ LayerNumbered(l)
  BY DEF Good
<1>2. ops \in Seq(DecryptOp) /\ rest \in Seq(DecryptOp)
  BY <1>1, FlushOpsType
<1>3. online \in Nat
  <2>1. Bytes(ops) \in Nat /\ l.recv_online \in Nat
    BY <1>1, <1>2, BytesType DEF Layer
  <2> QED BY <2>1
<1>4. l.sent_records \o l.encrypt_buffer \in Seq(EncryptOp) /\ l.recv_records \o ops \in Seq(DecryptOp)
  BY <1>1, <1>2, ConcatProperties DEF Layer
<1>5. m = [l EXCEPT !.encrypt_buffer = <<>>, !.decrypt_buffer = rest, !.recv_online = online,
                    !.sent_records = l.sent_records \o l.encrypt_buffer,
                    !.recv_records = l.recv_records \o ops]
  BY <1>1 DEF flush_layer, Layer
<1>6. <<>> \in Seq(EncryptOp)
  BY EmptySeq
<1>10. Numbered(l.recv_records \o ops, rest, l.read_seq)
  <2>1. /\ l.recv_records \in Seq(DecryptOp) /\ l.decrypt_buffer \in Seq(DecryptOp)
        /\ l.read_seq \in Nat /\ Numbered(l.recv_records, l.decrypt_buffer, l.read_seq)
    BY <1>1 DEF Layer, LayerNumbered
  <2>2. DrainCount(l, d) \in 0 .. Len(l.decrypt_buffer)
    BY <1>1, DrainCountIs
  <2> QED BY <2>1, <2>2, NumberedMove DEF FlushOps
<1>11. Numbered(l.sent_records \o l.encrypt_buffer, <<>>, l.write_seq)
  <2>1. /\ l.sent_records \in Seq(EncryptOp) /\ l.encrypt_buffer \in Seq(EncryptOp)
        /\ l.write_seq \in Nat /\ Numbered(l.sent_records, l.encrypt_buffer, l.write_seq)
    BY <1>1 DEF Layer, LayerNumbered
  <2> QED BY <2>1, NumberedMoveAll
<1> HIDE DEF ops, rest, online, m
<1>7. m \in Layer
  BY <1>1, <1>2, <1>3, <1>4, <1>5, <1>6 DEF Layer
<1>8. /\ m.sent_records = l.sent_records \o l.encrypt_buffer /\ m.encrypt_buffer = <<>>
      /\ m.recv_records = l.recv_records \o ops /\ m.decrypt_buffer = rest
      /\ m.write_seq = l.write_seq /\ m.read_seq = l.read_seq /\ m.key = l.key
  BY <1>1, <1>5 DEF Layer
<1>9. LayerNumbered(m)
  BY <1>8, <1>10, <1>11 DEF LayerNumbered
<1> QED BY <1>7, <1>8, <1>9 DEF Good, m, ops, rest

LEMMA CommitGood ==
  ASSUME NEW l, Good(l)
  PROVE  /\ Good(commit_layer(l))
         /\ commit_layer(l).decrypt_buffer = <<>>
         /\ commit_layer(l).recv_records = l.recv_records \o l.decrypt_buffer
         /\ commit_layer(l).sent_records = l.sent_records
         /\ commit_layer(l).encrypt_buffer = l.encrypt_buffer
         /\ commit_layer(l).write_seq = l.write_seq /\ commit_layer(l).read_seq = l.read_seq
<1> DEFINE m == commit_layer(l)
<1>1. l \in Layer /\ LayerNumbered(l)
  BY DEF Good
<1>2. l.recv_records \o l.decrypt_buffer \in Seq(DecryptOp) /\ <<>> \in Seq(DecryptOp)
  BY <1>1, ConcatProperties, EmptySeq DEF Layer
<1>3. m = [l EXCEPT !.state = "Complete", !.key = TRUE, !.decrypt_buffer = <<>>,
                    !.recv_records = l.recv_records \o l.decrypt_buffer]
  BY <1>1 DEF commit_layer, Layer
<1> HIDE DEF m
<1>4. m \in Layer
  BY <1>1, <1>2, <1>3 DEF Layer
<1>5. /\ m.sent_records = l.sent_records /\ m.encrypt_buffer = l.encrypt_buffer
      /\ m.recv_records = l.recv_records \o l.decrypt_buffer /\ m.decrypt_buffer = <<>>
      /\ m.write_seq = l.write_seq /\ m.read_seq = l.read_seq
  BY <1>1, <1>3 DEF Layer
<1>6. Numbered(l.recv_records \o l.decrypt_buffer, <<>>, l.read_seq)
  <2>1. /\ l.recv_records \in Seq(DecryptOp) /\ l.decrypt_buffer \in Seq(DecryptOp)
        /\ l.read_seq \in Nat /\ Numbered(l.recv_records, l.decrypt_buffer, l.read_seq)
    BY <1>1 DEF Layer, LayerNumbered
  <2> QED BY <2>1, NumberedMoveAll
<1>7. LayerNumbered(m)
  BY <1>1, <1>5, <1>6 DEF LayerNumbered
<1> QED BY <1>4, <1>5, <1>7 DEF Good, m

\* Pushing a record and setting a flag leave the processed records and the key alone.
LEMMA OthersKept ==
  ASSUME NEW l \in Layer, NEW r
  PROVE  \A m \in {push_encrypt(l, r), push_decrypt(l, r), alloc_layer(l), setup_layer(l), start_layer(l)} :
           m.sent_records = l.sent_records /\ m.recv_records = l.recv_records /\ m.key = l.key
BY DEF push_encrypt, push_decrypt, alloc_layer, setup_layer, start_layer, Layer
=============================================================================
