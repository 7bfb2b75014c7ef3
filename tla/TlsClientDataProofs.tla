------------------------ MODULE TlsClientDataProofs ------------------------
(***************************************************************************)
(* The order of the application's data in the buffers of the TLS client.   *)
(* Line is all that is on its way out.  Every step leaves it alone, puts   *)
(* messages that are no data somewhere into it, or puts the next chunk     *)
(* behind it.                                                              *)
(***************************************************************************)
EXTENDS TlsClientProofs

Silent(c) == \A i \in 1 .. Len(c) : c[i].kind # "ApplicationData"

-----------------------------------------------------------------------------
(* Sequences *)

LEMMA ConcatThree ==
  ASSUME NEW a, NEW b, NEW c, IsSeq(a), IsSeq(b), IsSeq(c)
  PROVE  /\ (a \o b) \o c = a \o (b \o c) /\ IsSeq((a \o b) \o c)
         /\ a \o <<>> = a /\ <<>> \o a = a
  <1>1. PICK R, S, T : a \in Seq(R) /\ b \in Seq(S) /\ c \in Seq(T)
    BY DEF IsSeq
  <1>2. a \in Seq(R \union S \union T) /\ b \in Seq(R \union S \union T) /\ c \in Seq(R \union S \union T)
    BY <1>1
  <1>3. (a \o b) \o c = a \o (b \o c)
    BY <1>2
  <1>4. IsSeq((a \o b) \o c)
    BY ConcatIsSeq
  <1>5. a \o <<>> = a /\ <<>> \o a = a
    BY <1>1
  <1> QED BY <1>3, <1>4, <1>5

LEMMA Positions ==
  ASSUME NEW c, IsSeq(c)
  PROVE  DOMAIN c = 1 .. Len(c) /\ Len(c) \in Nat
  BY DEF IsSeq

\* Where messages that are no data are put makes no difference to the order of the data.
LEMMA InsertedInOrder ==
  ASSUME NEW x, NEW y, NEW z, IsSeq(x), IsSeq(y), IsSeq(z), Silent(z), NEW n, InOrder(x \o y, n)
  PROVE  InOrder((x \o z) \o y, n)
  <1> DEFINE l == x \o y
             w == x \o z
             m == w \o y
             p == Len(x)
             k == Len(z)
             q == Len(y)
             f(i) == IF i <= p THEN i ELSE i - k
             g(i) == IF i <= p THEN i ELSE i + k
  <1>1. /\ p \in Nat /\ k \in Nat /\ q \in Nat
        /\ IsSeq(l) /\ Len(l) = p + q
        /\ \A i \in 1 .. p : l[i] = x[i]
        /\ \A i \in 1 .. q : l[p + i] = y[i]
    BY ConcatIsSeq
  <1>2. /\ IsSeq(w) /\ Len(w) = p + k
        /\ \A i \in 1 .. p : w[i] = x[i]
        /\ \A i \in 1 .. k : w[p + i] = z[i]
    BY ConcatIsSeq
  <1> HIDE DEF w
  <1>3. /\ IsSeq(m) /\ Len(m) = p + k + q
        /\ \A i \in 1 .. p + k : m[i] = w[i]
        /\ \A i \in 1 .. q : m[p + k + i] = y[i]
    <2>1. /\ IsSeq(m) /\ Len(m) = Len(w) + q
          /\ \A i \in 1 .. Len(w) : m[i] = w[i]
          /\ \A i \in 1 .. q : m[Len(w) + i] = y[i]
      <3>1. IsSeq(w) /\ IsSeq(y)
        BY <1>2
      <3> QED BY ONLY <3>1, ConcatIsSeq
    <2> QED BY <1>2, <2>1
  <1>4. DOMAIN l = 1 .. p + q /\ DOMAIN m = 1 .. p + k + q
    BY <1>1, <1>3, Positions
  <1> HIDE DEF l, m, p, k, q
  <1>5. \A i \in 1 .. k : z[i].kind # "ApplicationData"
    BY DEF Silent, k
  <1>6. /\ \A i \in 1 .. p : m[i] = l[i]
        /\ \A i \in p + 1 .. p + k : m[i].kind # "ApplicationData"
        /\ \A i \in p + 1 .. p + q : m[i + k] = l[i]
    <2>1. ASSUME NEW i \in 1 .. p PROVE m[i] = l[i]
      BY <1>1, <1>2, <1>3
    <2>2. ASSUME NEW i \in p + 1 .. p + k PROVE m[i].kind # "ApplicationData"
      <3>1. i - p \in 1 .. k /\ p + (i - p) = i /\ i \in 1 .. p + k
        BY <1>1
      <3>2. m[i] = z[i - p]
        BY <1>2, <1>3, <3>1
      <3> QED BY <1>5, <3>1, <3>2
    <2>3. ASSUME NEW i \in p + 1 .. p + q PROVE m[i + k] = l[i]
      <3>1. i - p \in 1 .. q /\ p + (i - p) = i /\ p + k + (i - p) = i + k
        BY <1>1
      <3> QED BY <1>1, <1>3, <3>1
    <2> QED BY <2>1, <2>2, <2>3
  <1>7. ASSUME NEW i \in DataAt(m)
        PROVE  f(i) \in DataAt(l) /\ l[f(i)] = m[i] /\ f(i) \in Nat /\ i \in Nat /\ i \notin p + 1 .. p + k
    <2>1. i \in 1 .. p + k + q /\ m[i].kind = "ApplicationData"
      BY <1>4 DEF DataAt
    <2>2. i \notin p + 1 .. p + k
      BY <1>6, <2>1
    <2>3. CASE i <= p
      BY <1>1, <1>4, <1>6, <2>1, <2>2, <2>3 DEF DataAt
    <2>4. CASE i > p
      <3>1. i - k \in p + 1 .. p + q /\ (i - k) + k = i /\ i - k \in 1 .. p + q
        BY <1>1, <2>1, <2>2, <2>4
      <3>2. m[i] = l[i - k]
        BY <1>6, <3>1
      <3> QED BY <1>1, <1>4, <2>1, <2>2, <2>4, <3>1, <3>2 DEF DataAt
    <2> QED BY <1>1, <2>1, <2>3, <2>4
  <1>8. ASSUME NEW i \in DataAt(l)
        PROVE  g(i) \in DataAt(m) /\ m[g(i)] = l[i]
    <2>1. i \in 1 .. p + q /\ l[i].kind = "ApplicationData"
      BY <1>4 DEF DataAt
    <2>2. CASE i <= p
      BY <1>1, <1>4, <1>6, <2>1, <2>2 DEF DataAt
    <2>3. CASE i > p
      <3>1. i \in p + 1 .. p + q /\ i + k \in 1 .. p + k + q
        BY <1>1, <2>1, <2>3
      <3> QED BY <1>1, <1>4, <1>6, <2>1, <2>3, <3>1 DEF DataAt
    <2> QED BY <1>1, <2>1, <2>2, <2>3
  <1>9. /\ {l[i].n : i \in DataAt(l)} = 1 .. n
        /\ \A i, j \in DataAt(l) : i < j => l[i].n < l[j].n
    BY DEF InOrder, l
  <1>10. {m[i].n : i \in DataAt(m)} = 1 .. n
    BY <1>7, <1>8, <1>9
  <1>11. ASSUME NEW i \in DataAt(m), NEW j \in DataAt(m), i < j PROVE m[i].n < m[j].n
    <2>1. f(i) < f(j)
      BY <1>1, <1>7, <1>11
    <2> QED BY <1>7, <1>9, <2>1
  <1>12. InOrder(m, n)
    BY <1>10, <1>11 DEF InOrder
  <1> QED BY <1>12 DEF m, w

LEMMA AppendedInOrder ==
  ASSUME NEW l, IsSeq(l), NEW n \in Nat, InOrder(l, n),
         NEW o, o.kind = "ApplicationData", o.n = n + 1
  PROVE  InOrder(Append(l, o), n + 1)
  <1> DEFINE m == Append(l, o)
             k == Len(l)
  <1>1. /\ IsSeq(m) /\ k \in Nat /\ Len(m) = k + 1 /\ m[k + 1] = o
        /\ \A i \in 1 .. k : m[i] = l[i]
    BY AppendIsSeq
  <1>2. DOMAIN l = 1 .. k /\ DOMAIN m = 1 .. k + 1
    BY <1>1, Positions
  <1> HIDE DEF m, k
  <1>3. /\ {l[i].n : i \in DataAt(l)} = 1 .. n
        /\ \A i, j \in DataAt(l) : i < j => l[i].n < l[j].n
    BY DEF InOrder
  <1>4. DataAt(m) = DataAt(l) \union {k + 1}
    <2>1. ASSUME NEW i \in DataAt(m) PROVE i \in DataAt(l) \union {k + 1}
      BY <1>1, <1>2 DEF DataAt
    <2>2. ASSUME NEW i \in DataAt(l) \union {k + 1} PROVE i \in DataAt(m)
      BY <1>1, <1>2 DEF DataAt
    <2> QED BY <2>1, <2>2
  <1>5. \A i \in DataAt(l) : m[i] = l[i] /\ i \in Nat /\ i < k + 1 /\ m[i].n \in 1 .. n
    BY <1>1, <1>2, <1>3 DEF DataAt
  <1>6. {m[i].n : i \in DataAt(m)} = 1 .. n + 1
    <2>1. ASSUME NEW i \in DataAt(m) PROVE m[i].n \in 1 .. n + 1
      BY <1>1, <1>4, <1>5
    <2>2. ASSUME NEW v \in 1 .. n + 1 PROVE v \in {m[i].n : i \in DataAt(m)}
      <3>1. CASE v = n + 1
        BY <1>1, <1>4, <3>1
      <3>2. CASE v \in 1 .. n
        <4>1. PICK i \in DataAt(l) : l[i].n = v
          BY <1>3, <3>2
        <4> QED BY <1>4, <1>5, <4>1
      <3> QED BY <3>1, <3>2
    <2> QED BY <2>1, <2>2
  <1>7. ASSUME NEW i \in DataAt(m), NEW j \in DataAt(m), i < j PROVE m[i].n < m[j].n
    <2>1. i \in DataAt(l)
      <3>1. j <= k + 1 /\ j \in Nat
        BY <1>1, <1>4, <1>5
      <3> QED BY <1>1, <1>4, <1>7, <3>1
    <2>2. CASE j \in DataAt(l)
      BY <1>3, <1>5, <1>7, <2>1, <2>2
    <2>3. CASE j = k + 1
      <3>1. m[j].n = n + 1
        BY <1>1, <2>3
      <3>2. m[i].n \in 1 .. n
        BY <1>5, <2>1
      <3> QED BY <3>1, <3>2
    <2> QED BY <1>4, <2>2, <2>3
  <1>8. InOrder(m, n + 1)
    BY <1>6, <1>7 DEF InOrder
  <1> QED BY <1>8 DEF m

-----------------------------------------------------------------------------
(* The invariant *)

Quiet == state # "Error" /\ returned = "none"

\* No handler runs once an error was returned, and nothing waits once traffic has started.
Calm ==
  /\ state # "Error" /\ (pc # "idle" \/ state = "Initialized") => returned = "none"
  /\ state # "Error" /\ common.may_send => plain.sendable = <<>>

DataInv == DataInOrder /\ Calm

LEMMA Broke ==
  ASSUME state' = "Error"
  PROVE  DataInv'
  BY DEF DataInv, DataInOrder, Calm

LEMMA Parts ==
  ASSUME IInv
  PROVE  /\ IsSeq(tls) /\ IsSeq(be.outEnc) /\ IsSeq(be.outPlain) /\ IsSeq(DataItems(plain.sendable))
         /\ IsSeq(tls \o be.outEnc) /\ IsSeq((tls \o be.outEnc) \o be.outPlain) /\ IsSeq(Line)
         /\ plain.sendable \in Seq(Nat) /\ env.wrote \in Nat
         /\ be = [calls |-> be.calls, early |-> be.early, inEnc |-> be.inEnc, inPlain |-> be.inPlain,
                  outPlain |-> be.outPlain, outEnc |-> be.outEnc]
  <1>1. IsSeq(tls) /\ IsSeq(be.outEnc) /\ IsSeq(be.outPlain)
    BY DEF IInv, Output, Sealed
  <1>2. plain.sendable \in Seq(Nat) /\ env.wrote \in Nat
    BY DEF IInv, Fields
  <1>3. IsSeq(DataItems(plain.sendable))
    BY <1>2, DataItemsSeq
  <1>4. IsSeq(tls \o be.outEnc)
    BY <1>1, ConcatIsSeq
  <1>5. IsSeq((tls \o be.outEnc) \o be.outPlain)
    BY <1>1, <1>4, ConcatIsSeq
  <1>6. IsSeq(Line)
    BY <1>3, <1>5, ConcatIsSeq DEF Line
  <1>7. be = [calls |-> be.calls, early |-> be.early, inEnc |-> be.inEnc, inPlain |-> be.inPlain,
              outPlain |-> be.outPlain, outEnc |-> be.outEnc]
    BY DEF IInv, Output
  <1> QED BY <1>1, <1>2, <1>3, <1>4, <1>5, <1>6, <1>7

-----------------------------------------------------------------------------
(* What a step may do to the line *)

LEMMA LineSame ==
  ASSUME DataInOrder, tls' = tls, be'.outEnc = be.outEnc, be'.outPlain = be.outPlain,
         plain'.sendable = plain.sendable, env'.wrote = env.wrote, Quiet' => Quiet
  PROVE  DataInOrder'
  <1>1. Line' = Line
    BY DEF Line
  <1> QED BY <1>1 DEF DataInOrder, Quiet

\* Records given to the backend go behind those it has, and before what is still kept.
LEMMA LinePushed ==
  ASSUME IInv, DataInOrder, NEW items, IsSeq(items), Silent(items),
         be'.outPlain = be.outPlain \o SubSeq(items, 1, Fit(items)),
         be'.outEnc = be.outEnc, tls' = tls,
         plain'.sendable = plain.sendable, env'.wrote = env.wrote, Quiet' => Quiet
  PROVE  DataInOrder'
  <1> DEFINE n == Fit(items)
             q == SubSeq(items, 1, n)
             a == tls \o be.outEnc
             b == be.outPlain
             w == DataItems(plain.sendable)
  <1>1. n \in 0 .. Len(items) /\ Len(items) \in Nat
    BY FitBound, ConcatIsSeq DEF IInv
  <1>2. IsSeq(q) /\ Silent(q)
    <2>1. /\ IsSeq(q) /\ Len(q) = IF 1 <= n THEN n - 1 + 1 ELSE 0
          /\ \A i \in 1 .. n - 1 + 1 : q[i] = items[1 + i - 1]
      <3>1. 1 \in 1 .. Len(items) + 1
        BY <1>1
      <3> HIDE DEF n
      <3> QED BY <1>1, <3>1, SubIsSeq
    <2> HIDE DEF q, n
    <2>2. Len(q) = n
      BY <1>1, <2>1
    <2>3. ASSUME NEW i \in 1 .. Len(q) PROVE q[i].kind # "ApplicationData"
      <3>1. i \in 1 .. n - 1 + 1 /\ 1 + i - 1 = i /\ i \in 1 .. Len(items)
        BY <1>1, <2>2
      <3>2. q[i] = items[i]
        BY <2>1, <3>1
      <3> QED BY <3>1, <3>2 DEF Silent
    <2> QED BY <2>1, <2>3 DEF Silent
  <1>3. IsSeq(a) /\ IsSeq(b) /\ IsSeq(a \o b) /\ IsSeq(w)
    BY Parts
  <1>4. Line = (a \o b) \o w
    BY DEF Line
  <1>5. Line' = (a \o (b \o q)) \o w
    BY DEF Line
  <1> HIDE DEF q, a, b, w, n
  <1>6. Line' = ((a \o b) \o q) \o w
    BY <1>2, <1>3, <1>5, ConcatThree
  <1>7. ASSUME Quiet' PROVE InOrder(Line, env.wrote)'
    <2>1. InOrder((a \o b) \o w, env.wrote)
      BY <1>4, <1>7 DEF DataInOrder, Quiet
    <2>2. InOrder(((a \o b) \o q) \o w, env.wrote)
      BY <1>2, <1>3, <2>1, InsertedInOrder
    <2> QED BY <1>6, <2>2
  <1> QED BY <1>7 DEF DataInOrder, Quiet

LEMMA LineSent ==
  ASSUME IInv, DataInOrder, NEW o, o.kind # "ApplicationData", tls' = Append(tls, o),
         be'.outEnc = be.outEnc, be'.outPlain = be.outPlain,
         plain'.sendable = plain.sendable, env'.wrote = env.wrote, Quiet' => Quiet
  PROVE  DataInOrder'
  <1> DEFINE a == tls
             b == be.outEnc
             c == be.outPlain
             w == DataItems(plain.sendable)
             q == <<o>>
             r == (b \o c) \o w
  <1>1. IsSeq(a) /\ IsSeq(b) /\ IsSeq(c) /\ IsSeq(w)
    BY Parts
  <1>2. IsSeq(q) /\ Silent(q)
    <2>1. Len(q) = 1 /\ q[1] = o
      OBVIOUS
    <2>2. IsSeq(q)
      BY Literals
    <2> HIDE DEF q
    <2> QED BY <2>1, <2>2 DEF Silent
  <1>3. Append(a, o) = a \o q
    <2>1. PICK S : a \in Seq(S)
      BY <1>1 DEF IsSeq
    <2>2. a \in Seq(S \union {o})
      BY <2>1
    <2> QED BY <2>2
  <1>4. Line = ((a \o b) \o c) \o w
    BY DEF Line
  <1>5. Line' = (((a \o q) \o b) \o c) \o w
    BY <1>3 DEF Line
  <1> HIDE DEF a, b, c, w, q
  <1>6. IsSeq(a \o q) /\ IsSeq(b \o c) /\ IsSeq(r)
    BY <1>1, <1>2, ConcatIsSeq
  <1>7. Line = a \o r
    <2>1. ((a \o b) \o c) \o w = (a \o (b \o c)) \o w
      BY <1>1, ConcatThree
    <2>2. (a \o (b \o c)) \o w = a \o ((b \o c) \o w)
      BY <1>1, <1>6, ConcatThree
    <2> QED BY <1>4, <2>1, <2>2
  <1>8. Line' = (a \o q) \o r
    <2>1. (((a \o q) \o b) \o c) \o w = ((a \o q) \o (b \o c)) \o w
      BY <1>1, <1>6, ConcatThree
    <2>2. ((a \o q) \o (b \o c)) \o w = (a \o q) \o ((b \o c) \o w)
      BY <1>1, <1>6, ConcatThree
    <2> QED BY <1>5, <2>1, <2>2
  <1> HIDE DEF r
  <1>9. ASSUME Quiet' PROVE InOrder(Line, env.wrote)'
    <2>1. InOrder(a \o r, env.wrote)
      BY <1>7, <1>9 DEF DataInOrder, Quiet
    <2>2. InOrder((a \o q) \o r, env.wrote)
      BY <1>1, <1>2, <1>6, <2>1, InsertedInOrder
    <2> QED BY <1>8, <2>2
  <1> QED BY <1>9 DEF DataInOrder, Quiet

LEMMA EncryptSilent ==
  ASSUME NEW kind, kind # "ApplicationData"
  PROVE  IsSeq(EncryptItems(kind)) /\ Silent(EncryptItems(kind))
  <1> DEFINE x == Item("close_notify", 0, TRUE)
             y == Item(kind, 0, TRUE)
  <1>1. x.kind # "ApplicationData" /\ y.kind # "ApplicationData"
    BY DEF Item
  <1>2. EncryptItems(kind) = <<x, y>> \/ EncryptItems(kind) = <<y>>
    BY DEF EncryptItems
  <1> HIDE DEF x, y
  <1>3. IsSeq(<<x, y>>) /\ IsSeq(<<y>>)
    BY Literals
  <1>4. Silent(<<y>>) /\ Silent(<<x, y>>)
    <2>1. Len(<<y>>) = 1 /\ <<y>>[1] = y /\ Len(<<x, y>>) = 2 /\ <<x, y>>[1] = x /\ <<x, y>>[2] = y
      OBVIOUS
    <2>2. \A i \in 1 .. 2 : i = 1 \/ i = 2
      OBVIOUS
    <2>3. Silent(<<y>>)
      BY <1>1, <2>1 DEF Silent
    <2>4. Silent(<<x, y>>)
      BY <1>1, <2>1, <2>2 DEF Silent
    <2> QED BY <2>3, <2>4
  <1> QED BY <1>2, <1>3, <1>4

LEMMA SendKeepsOrder ==
  ASSUME IInv, DataInOrder, NEW kind, kind # "ApplicationData", NEW enc, send_msg(kind, enc),
         plain'.sendable = plain.sendable, env'.wrote = env.wrote, Quiet' => Quiet
  PROVE  DataInOrder'
  <1>1. CASE enc
    <2> DEFINE q == EncryptItems(kind)
               s == be.outPlain \o SubSeq(q, 1, Fit(q))
    <2>1. be' = [be EXCEPT !.outPlain = s] /\ tls' = tls
      BY <1>1 DEF send_msg, Pushed
    <2>2. IsSeq(q) /\ Silent(q)
      BY EncryptSilent
    <2> HIDE DEF s
    <2>3. be'.outPlain = s /\ be'.outEnc = be.outEnc
      BY <2>1, Parts
    <2> HIDE DEF q
    <2> QED BY <2>1, <2>2, <2>3, LinePushed DEF s
  <1>2. CASE ~enc
    <2>1. tls' = Append(tls, Item(kind, 0, FALSE)) /\ UNCHANGED be
      BY <1>2 DEF send_msg
    <2>2. Item(kind, 0, FALSE).kind # "ApplicationData"
      BY DEF Item
    <2> QED BY <2>1, <2>2, LineSent
  <1> QED BY <1>1, <1>2

-----------------------------------------------------------------------------
(* Steps of a handler *)

LEMMA Runs ==
  ASSUME IInv, Calm, script # <<>>
  PROVE  Quiet /\ pc # "idle"
  BY AtPoint DEF Calm, Quiet

LEMMA StaysCalm ==
  ASSUME IInv, Calm, script # <<>>, returned' = returned, common'.may_send = common.may_send,
         plain'.sendable = plain.sendable
  PROVE  Calm'
  BY Runs DEF Calm, Quiet

\* A step that sends nothing
LEMMA HandlerSame ==
  ASSUME IInv, DataInv, script # <<>>, returned' = returned, common'.may_send = common.may_send,
         tls' = tls, be'.outEnc = be.outEnc, be'.outPlain = be.outPlain,
         UNCHANGED <<plain, env>>
  PROVE  DataInv'
  <1>1. Quiet
    BY Runs DEF DataInv
  <1> QED BY <1>1, LineSame, StaysCalm DEF DataInv

\* A step that sends a message of the handshake or an alert
LEMMA HandlerSends ==
  ASSUME IInv, DataInv, script # <<>>, returned' = returned, common'.may_send = common.may_send,
         NEW kind, kind # "ApplicationData", NEW enc, send_msg(kind, enc),
         UNCHANGED <<plain, env>>
  PROVE  DataInv'
  <1>1. Quiet
    BY Runs DEF DataInv
  <1> QED BY <1>1, SendKeepsOrder, StaysCalm DEF DataInv

LEMMA SilentSteps ==
  ASSUME IInv, DataInv,
         check \/ fail \/ check_aligned_handshake \/ call_backend \/ hash_message \/ goto \/ note
           \/ negotiate \/ retry \/ take_handshake_buf \/ start_encrypting \/ start_decrypting
           \/ may_receive \/ receive
  PROVE  DataInv'
  <1>1. script # <<>>
    BY DEF check, fail, check_aligned_handshake, call_backend, hash_message, goto, note, negotiate,
           retry, take_handshake_buf, start_encrypting, start_decrypting, may_receive, receive,
           Doing, Running
  <1>2. CASE state' = "Error"
    BY <1>2, Broke
  <1>3. CASE /\ UNCHANGED <<be, tls, common, plain, env, returned>>
    BY <1>1, <1>3, HandlerSame
  <1>4. CASE check \/ fail \/ check_aligned_handshake \/ hash_message \/ goto \/ note \/ retry
             \/ take_handshake_buf \/ start_encrypting \/ start_decrypting
    <2>1. state' = "Error" \/ UNCHANGED <<be, tls, common, plain, env, returned>>
      BY <1>4 DEF check, fail, check_aligned_handshake, hash_message, goto, note, Notes, retry,
             take_handshake_buf, start_encrypting, start_decrypting, Aborts, Failed, Continue,
             coreVars, outVars
    <2> QED BY <1>2, <1>3, <2>1
  <1>5. CASE call_backend
    <2>1. /\ be' = [be EXCEPT !.calls = @ \union {Arg}, !.early = @ \/ ~(Needs(Arg) \subseteq be.calls)]
          /\ state' = "Error" \/ UNCHANGED <<tls, common, plain, env, returned>>
      BY <1>5 DEF call_backend, Failed, Continue, coreVars
    <2>2. be'.outEnc = be.outEnc /\ be'.outPlain = be.outPlain
      BY <2>1, Parts
    <2> QED BY <1>1, <1>2, <2>1, <2>2, HandlerSame
  <1>6. CASE negotiate \/ may_receive
    <2>1. /\ UNCHANGED <<be, tls, plain, env, returned>>
          /\ \/ \E v : common' = [common EXCEPT !.version = v]
             \/ common' = [common EXCEPT !.may_receive = TRUE]
      BY <1>6 DEF negotiate, may_receive, Continue, coreVars, outVars
    <2>2. common'.may_send = common.may_send
      BY <2>1 DEF IInv, Fields
    <2> QED BY <1>1, <2>1, <2>2, HandlerSame
  <1>7. CASE receive
    <2>1. /\ UNCHANGED <<be, tls, env, returned>>
          /\ \/ plain' = [plain EXCEPT !.received = Append(@, msg.opts)] /\ UNCHANGED common
             \/ common' = [common EXCEPT !.close_notify = TRUE] /\ UNCHANGED plain
      BY <1>7 DEF receive, coreVars, outVars
    <2>2. common'.may_send = common.may_send /\ plain'.sendable = plain.sendable
      BY <2>1 DEF IInv, Fields
    <2>3. Quiet /\ Calm' /\ DataInOrder'
      BY <1>1, <2>1, <2>2, Runs, StaysCalm, LineSame DEF DataInv
    <2> QED BY <2>3 DEF DataInv
  <1> QED BY <1>4, <1>5, <1>6, <1>7

LEMMA SendingSteps ==
  ASSUME IInv, DataInv, emit \/ send_alert \/ emit_fake_ccs
  PROVE  DataInv'
  <1>1. script # <<>>
    BY DEF emit, send_alert, emit_fake_ccs, Doing, Running
  <1>2. CASE state' = "Error"
    BY <1>2, Broke
  <1>3. CASE emit /\ state' # "Error"
    <2> DEFINE enc == Head(script).op = "encrypt"
    <2>1. send_msg(Arg, enc) /\ UNCHANGED <<common, returned, plain, env>>
      BY <1>3 DEF emit, Failed, Continue, coreVars
    <2>2. Arg # "ApplicationData"
      <3>1. PICK a, b : Move(msg, Head(script), a, b)
        BY <1>1, AtPoint
      <3>2. Head(script).op \in {"emit", "encrypt"}
        BY <1>3 DEF emit, Running
      <3>3. LogMove(Head(script), a, b)
        BY <3>1, <3>2 DEF Move
      <3> QED BY <3>2, <3>3 DEF LogMove, Arg
    <2> HIDE DEF enc
    <2> QED BY <1>1, <2>1, <2>2, HandlerSends
  <1>4. CASE send_alert /\ state' # "Error"
    <2> DEFINE enc == IsEncrypting
    <2>1. /\ send_msg("Alert", enc) /\ UNCHANGED <<returned, plain, env>>
          /\ UNCHANGED common \/ common' = [common EXCEPT !.fatal = @ + 1]
      BY <1>4 DEF send_alert, send_fatal_alert, Failed, Continue, coreVars
    <2>2. common'.may_send = common.may_send
      BY <2>1 DEF IInv, Fields
    <2> HIDE DEF enc
    <2> QED BY <1>1, <2>1, <2>2, HandlerSends
  <1>5. CASE emit_fake_ccs
    <2> DEFINE o == Item("ChangeCipherSpec", 0, FALSE)
    <2>1. /\ tls' = tls \/ tls' = Append(tls, o)
          /\ UNCHANGED <<common, returned, plain, env, be>>
      BY <1>5 DEF emit_fake_ccs, Continue, coreVars
    <2>2. o.kind # "ApplicationData"
      BY DEF Item
    <2> HIDE DEF o
    <2>3. Quiet /\ Calm'
      BY <1>1, <2>1, Runs, StaysCalm DEF DataInv
    <2>4. DataInOrder'
      BY <2>1, <2>2, <2>3, LineSame, LineSent DEF DataInv
    <2> QED BY <2>3, <2>4 DEF DataInv
  <1> QED BY <1>2, <1>3, <1>4, <1>5

\* What was kept during the handshake goes to the backend as it stands.
LEMMA FlushKeepsOrder ==
  ASSUME IInv, DataInv, flush_plaintext
  PROVE  DataInv'
  <1> DEFINE items == DataItems(plain.sendable)
  <1>1. CASE state' = "Error"
    BY <1>1, Broke
  <1>2. CASE state' # "Error"
    <2>1. /\ script # <<>> /\ Pushed(items) /\ Fit(items) = Len(items)
          /\ plain' = [plain EXCEPT !.sendable = <<>>]
          /\ UNCHANGED <<tls, env, returned, pc, state>>
      BY <1>2 DEF flush_plaintext, Doing, Running, coreVars
    <2>2. Quiet
      BY <2>1, Runs DEF DataInv
    <2>3. IsSeq(items) /\ Len(items) \in Nat
      BY Parts, ConcatIsSeq
    <2>4. plain'.sendable = <<>>
      BY <2>1 DEF IInv, Fields
    <2>5. DataItems(<<>>) = <<>>
      <3>1. <<>> \in Seq(Nat) /\ Len(<<>>) = 0
        OBVIOUS
      <3>2. IsSeq(DataItems(<<>>)) /\ Len(DataItems(<<>>)) = 0
        BY <3>1, DataItemsSeq
      <3> QED BY <3>1, <3>2, SameSeq, Literals
    <2> DEFINE q == SubSeq(items, 1, Fit(items))
               s == be.outPlain \o q
    <2>6. q = items
      <3>1. PICK S : items \in Seq(S)
        BY <2>3 DEF IsSeq
      <3> HIDE DEF items
      <3>2. SubSeq(items, 1, Len(items)) = items
        BY <3>1
      <3> QED BY <2>1, <3>2
    <2>7. be'.outPlain = s /\ be'.outEnc = be.outEnc
      <3>1. be' = [be EXCEPT !.outPlain = s]
        BY <2>1 DEF Pushed
      <3> HIDE DEF s
      <3> QED BY <3>1, Parts
    <2>8. Line' = Line
      <3> DEFINE a == tls \o be.outEnc
                 b == be.outPlain
      <3>1. Line = (a \o b) \o items
        BY DEF Line
      <3>2. Line' = (a \o (b \o items)) \o <<>>
        BY <2>1, <2>4, <2>5, <2>6, <2>7 DEF Line
      <3>3. IsSeq(a) /\ IsSeq(b) /\ IsSeq(items)
        BY Parts
      <3> HIDE DEF a, b, items
      <3>4. IsSeq((a \o b) \o items) /\ (a \o b) \o items = a \o (b \o items)
        BY <3>3, ConcatThree
      <3>5. ((a \o b) \o items) \o <<>> = (a \o b) \o items
        <4> DEFINE l == (a \o b) \o items
        <4>1. IsSeq(l)
          BY <3>4
        <4> HIDE DEF l
        <4>2. l \o <<>> = l
          BY <4>1, ConcatThree, Literals
        <4> QED BY <4>2 DEF l
      <3> QED BY <3>1, <3>2, <3>4, <3>5
    <2>9. DataInOrder'
      BY <2>1, <2>2, <2>8 DEF DataInv, DataInOrder, Quiet
    <2>10. Calm'
      BY <2>1, <2>2, <2>4 DEF Calm, Quiet
    <2> QED BY <2>9, <2>10 DEF DataInv
  <1> QED BY <1>1, <1>2

LEMMA HandlingData ==
  ASSUME IInv, DataInv, Handling
  PROVE  DataInv'
  BY SilentSteps, SendingSteps, FlushKeepsOrder DEF Handling

-----------------------------------------------------------------------------
(* Between the handlers *)

LEMMA QuietSame ==
  ASSUME DataInv, Quiet, returned' = returned, common'.may_send = common.may_send,
         tls' = tls, be'.outEnc = be.outEnc, be'.outPlain = be.outPlain,
         plain'.sendable = plain.sendable, env'.wrote = env.wrote
  PROVE  DataInv'
  <1>1. Calm'
    BY DEF DataInv, Calm, Quiet
  <1> QED BY <1>1, LineSame DEF DataInv

LEMMA MovedSame ==
  ASSUME DataInv, Quiet, returned' = returned, Line' = Line,
         UNCHANGED <<common, plain, env>>
  PROVE  DataInv'
  BY DEF DataInv, DataInOrder, Calm, Quiet

\* process_new_packets runs only without an error.
LEMMA Proceeds ==
  ASSUME IInv, DataInv, pc # "idle"
  PROVE  Quiet
  BY DEF IInv, Control, DataInv, Calm, Quiet

LEMMA PlainData ==
  ASSUME IInv, DataInv, Quiet, NEW r, process_incoming_plain(r),
         be'.outEnc = be.outEnc, be'.outPlain = be.outPlain,
         UNCHANGED <<coreVars, tls, plain, env>>
  PROVE  DataInv'
  <1>1. UNCHANGED common \/ common' = [common EXCEPT !.aligned = ~r.rest]
    BY DEF process_incoming_plain
  <1>2. common'.may_send = common.may_send
    BY <1>1 DEF IInv, Fields
  <1> QED BY <1>2, QuietSame DEF coreVars

LEMMA OpaqueData ==
  ASSUME IInv, DataInv, process_incoming_opaque
  PROVE  DataInv'
  <1>1. Quiet /\ UNCHANGED <<plain, env>>
    BY Proceeds DEF process_incoming_opaque, Between
  <1>2. CASE state' = "Error"
    BY <1>2, Broke
  <1>3. CASE common' = [common EXCEPT !.ccs = @ + 1] /\ UNCHANGED <<coreVars, outVars>>
    <2>1. common'.may_send = common.may_send
      BY <1>3 DEF IInv, Fields
    <2> QED BY <1>1, <1>3, <2>1, QuietSame DEF coreVars, outVars
  <1>4. CASE state' # "Error" /\ decrypt_incoming(Head(frames)) /\ UNCHANGED <<common, tls>>
    <2> DEFINE items == IF rl.read_seq = SoftLimit THEN EncryptItems("close_notify") ELSE <<>>
               s == be.outPlain \o SubSeq(items, 1, Fit(items))
    <2>1. /\ UNCHANGED coreVars
          /\ \E v : be' = [be EXCEPT !.outPlain = s, !.inEnc = v]
      BY <1>4 DEF decrypt_incoming, Returned
    <2>2. IsSeq(items) /\ Silent(items)
      <3>1. IsSeq(<<>>) /\ Len(<<>>) = 0
        BY Literals
      <3>2. IsSeq(<<>>) /\ Silent(<<>>)
        BY <3>1 DEF Silent
      <3> QED BY <3>2, EncryptSilent
    <2> HIDE DEF items, s
    <2>3. be'.outPlain = s /\ be'.outEnc = be.outEnc
      BY <2>1, Parts
    <2>4. DataInOrder'
      BY <1>1, <1>4, <2>2, <2>3, LinePushed DEF DataInv, s
    <2>5. Calm'
      BY <1>1, <1>4, <2>1 DEF DataInv, Calm, Quiet, coreVars
    <2> QED BY <2>4, <2>5 DEF DataInv
  <1>5. CASE process_incoming_plain(Head(frames)) /\ UNCHANGED <<coreVars, outVars>>
    BY <1>1, <1>5, PlainData DEF outVars
  <1> QED BY <1>2, <1>3, <1>4, <1>5 DEF process_incoming_opaque, Returned

\* What is sealed moves on in its order.
LEMMA FlushPacketsData ==
  ASSUME IInv, DataInv, flush_packets
  PROVE  DataInv'
  <1>1. Quiet /\ UNCHANGED <<tls, common, plain, env>>
    BY Proceeds DEF flush_packets, Between
  <1>2. CASE state' = "Error"
    BY <1>2, Broke
  <1>3. CASE state' # "Error"
    <2> DEFINE s == be.outEnc \o be.outPlain
    <2>1. returned' = returned /\ \E v : be' = [be EXCEPT !.inPlain = v, !.inEnc = <<>>,
                                                          !.outPlain = <<>>, !.outEnc = s]
      BY <1>3 DEF flush_packets, flush, Returned
    <2>2. be'.outPlain = <<>> /\ be'.outEnc = s
      <3> HIDE DEF s
      <3> QED BY <2>1, Parts
    <2>3. Line' = Line
      <3> DEFINE a == tls
                 b == be.outEnc
                 c == be.outPlain
                 w == DataItems(plain.sendable)
      <3>1. Line = ((a \o b) \o c) \o w
        BY DEF Line
      <3>2. Line' = ((a \o (b \o c)) \o <<>>) \o w
        BY <1>1, <2>2 DEF Line
      <3>3. IsSeq(a) /\ IsSeq(b) /\ IsSeq(c)
        BY Parts
      <3> HIDE DEF a, b, c, w
      <3>4. (a \o b) \o c = a \o (b \o c) /\ IsSeq((a \o b) \o c)
        BY <3>3, ConcatThree
      <3> DEFINE l == a \o (b \o c)
      <3>5. IsSeq(l)
        BY <3>4
      <3> HIDE DEF l
      <3>6. l \o <<>> = l
        BY <3>5, ConcatThree, Literals
      <3> QED BY <3>1, <3>2, <3>4, <3>6 DEF l
    <2> QED BY <1>1, <2>1, <2>3, MovedSame
  <1> QED BY <1>2, <1>3

LEMMA NextOutgoingData ==
  ASSUME IInv, DataInv, next_outgoing
  PROVE  DataInv'
  <1>1. Quiet /\ returned' = "none" /\ tls' = Queued /\ be' = [be EXCEPT !.outEnc = <<>>]
        /\ UNCHANGED <<common, plain, env>>
    BY Proceeds DEF next_outgoing, Between
  <1>2. be'.outPlain = be.outPlain /\ be'.outEnc = <<>>
    BY <1>1, Parts
  <1>3. Queued \o <<>> = Queued
    <2>1. IsSeq(Queued)
      BY Parts DEF Queued
    <2> DEFINE l == Queued
    <2> HIDE DEF l
    <2>2. IsSeq(l)
      BY <2>1 DEF l
    <2>3. l \o <<>> = l
      BY <2>2, ConcatThree, Literals
    <2> QED BY <2>3 DEF l
  <1>4. Line' = Line
    BY <1>1, <1>2, <1>3 DEF Line, Queued
  <1> QED BY <1>1, <1>4, MovedSame DEF Quiet

LEMMA ProcessingData ==
  ASSUME IInv, DataInv, Processing
  PROVE  DataInv'
  <1>1. CASE process_new_packets
    <2>1. CASE state' = "Error"
      BY <2>1, Broke
    <2>2. CASE state' # "Error"
      <3>1. Usable /\ returned' = returned /\ UNCHANGED <<common, plain, env, be, tls>>
        BY <1>1, <2>2 DEF process_new_packets, Returned, outVars
      <3> QED BY <3>1, QuietSame DEF Usable, Quiet
    <2> QED BY <2>1, <2>2
  <1>2. CASE next_handshake_message
    BY <1>2, Proceeds, QuietSame DEF next_handshake_message, coreVars, outVars
  <1>3. CASE next_incoming
    <2>1. /\ process_incoming_plain(Head(be.inPlain)) /\ Quiet
          /\ be' = [be EXCEPT !.inPlain = Tail(@)]
          /\ UNCHANGED <<coreVars, tls, plain, env>>
      BY <1>3, Proceeds DEF next_incoming, Between
    <2>2. be'.outPlain = be.outPlain /\ be'.outEnc = be.outEnc
      BY <2>1, Parts
    <2> QED BY <2>1, <2>2, PlainData
  <1> QED BY <1>1, <1>2, <1>3, OpaqueData, FlushPacketsData, NextOutgoingData DEF Processing

-----------------------------------------------------------------------------
(* The other calls of the connection *)

LEMMA DataItemsAppend ==
  ASSUME NEW c \in Seq(Nat), NEW k \in Nat
  PROVE  DataItems(Append(c, k)) = Append(DataItems(c), Item("ApplicationData", k, TRUE))
  <1> DEFINE d == Append(c, k)
             l == Len(c)
             x == Item("ApplicationData", k, TRUE)
             e == DataItems(c)
             f == Append(e, x)
             g == DataItems(d)
  <1>1. d \in Seq(Nat) /\ l \in Nat /\ Len(d) = l + 1 /\ d[l + 1] = k /\ \A i \in 1 .. l : d[i] = c[i]
    OBVIOUS
  <1> HIDE DEF d, l
  <1>2. IsSeq(e) /\ Len(e) = l /\ \A i \in 1 .. l : e[i] = Item("ApplicationData", c[i], TRUE)
    BY DataItemsSeq DEF l
  <1>3. IsSeq(g) /\ Len(g) = l + 1 /\ \A i \in 1 .. l + 1 : g[i] = Item("ApplicationData", d[i], TRUE)
    BY <1>1, DataItemsSeq
  <1> HIDE DEF e, g, x
  <1>4. IsSeq(f) /\ Len(f) = l + 1 /\ f[l + 1] = x /\ \A i \in 1 .. l : f[i] = e[i]
    BY <1>2, AppendIsSeq
  <1> HIDE DEF f
  <1>5. ASSUME NEW i \in 1 .. l + 1 PROVE g[i] = f[i]
    <2>1. CASE i \in 1 .. l
      BY <1>1, <1>2, <1>3, <1>4, <2>1
    <2>2. CASE i = l + 1
      BY <1>1, <1>3, <1>4, <2>2 DEF x
    <2> QED BY <1>1, <2>1, <2>2
  <1>6. g = f
    BY <1>3, <1>4, <1>5, SameSeq
  <1> QED BY <1>6 DEF g, f, d, e, x

LEMMA ConcatOne ==
  ASSUME NEW c, NEW d, NEW x, IsSeq(c), IsSeq(d)
  PROVE  c \o Append(d, x) = Append(c \o d, x) /\ c \o <<x>> = Append(c, x)
  <1>1. PICK S, T : c \in Seq(S) /\ d \in Seq(T)
    BY DEF IsSeq
  <1>2. c \in Seq(S \union T \union {x}) /\ d \in Seq(S \union T \union {x})
    BY <1>1
  <1> QED BY <1>2

\* A chunk goes behind all that was written before, in the buffer of the handshake or with the backend.
LEMMA WriteData ==
  ASSUME IInv, DataInv, write_plaintext
  PROVE  DataInv'
  <1> DEFINE k == env.wrote + 1
             x == Item("ApplicationData", k, TRUE)
             a == (tls \o be.outEnc) \o be.outPlain
             w == DataItems(plain.sendable)
  <1>1. Quiet /\ UNCHANGED <<tls, common>>
    BY DEF write_plaintext, Usable, Quiet
  <1>2. CASE UNCHANGED <<be, plain, env, returned>>
    BY <1>1, <1>2, QuietSame
  <1>3. CASE /\ send_some_plaintext(k) /\ env' = [env EXCEPT !.wrote = @ + 1] /\ UNCHANGED <<state, pc>>
             /\ returned' = IF common.may_send /\ rl.write_seq >= HardLimit THEN "EncryptError" ELSE "none"
    <2>1. env.wrote \in Nat /\ env'.wrote = k
      BY <1>3 DEF IInv, Fields
    <2>2. plain.sendable \in Seq(Nat) /\ IsSeq(a) /\ IsSeq(w) /\ Line = a \o w /\ IsSeq(Line)
      BY Parts DEF Line
    <2>3. x.kind = "ApplicationData" /\ x.n = k
      BY DEF Item
    <2> HIDE DEF x, a, w
    <2>4. ASSUME Line' = Append(Line, x) PROVE DataInOrder'
      <3>1. InOrder(Line, env.wrote)
        BY <1>1 DEF DataInv, DataInOrder, Quiet
      <3>2. InOrder(Append(Line, x), env.wrote + 1)
        BY <2>1, <2>2, <2>3, <3>1, AppendedInOrder
      <3> QED BY <2>1, <2>4, <3>2 DEF DataInOrder
    <2>5. CASE common.may_send
      <3> DEFINE items == <<x>>
      <3>1. plain' = plain /\ be' = [be EXCEPT !.outPlain = @ \o SubSeq(items, 1, Fit(items))]
        BY <1>3, <2>5 DEF send_some_plaintext, Pushed, x
      <3>2. Calm'
        BY <1>1, <1>3, <3>1 DEF DataInv, Calm, Quiet, write_plaintext, Usable, Resting
      <3>3. CASE rl.write_seq >= HardLimit
        <4>1. returned' # "none"
          BY <1>3, <2>5, <3>3
        <4> QED BY <3>2, <4>1 DEF DataInv, DataInOrder
      <3>4. CASE ~(rl.write_seq >= HardLimit)
        <4>1. Fit(items) = 1 /\ Len(items) = 1
          <5>1. rl.write_seq \in Nat /\ HardLimit \in Nat
            BY ClientAssumption DEF IInv, Output, LayerType
          <5>2. Len(items) = 1
            OBVIOUS
          <5> QED BY <3>4, <5>1, <5>2 DEF Fit, Least
        <4>2. SubSeq(items, 1, 1) = items
          <5>1. items \in Seq({x})
            OBVIOUS
          <5>2. Len(items) = 1
            BY <4>1
          <5> HIDE DEF items
          <5>3. SubSeq(items, 1, Len(items)) = items
            BY <5>1
          <5> QED BY <5>2, <5>3
        <4> DEFINE s == be.outPlain \o items
        <4>3. be'.outPlain = s /\ be'.outEnc = be.outEnc
          <5>1. be' = [be EXCEPT !.outPlain = s]
            BY <3>1, <4>1, <4>2
          <5> HIDE DEF s
          <5> QED BY <5>1, Parts
        <4>4. plain.sendable = <<>> /\ w = <<>>
          <5>1. plain.sendable = <<>>
            BY <1>1, <2>5 DEF DataInv, Calm, Quiet
          <5>2. <<>> \in Seq(Nat) /\ Len(<<>>) = 0
            OBVIOUS
          <5>3. IsSeq(DataItems(<<>>)) /\ Len(DataItems(<<>>)) = 0
            BY <5>2, DataItemsSeq
          <5>4. DataItems(<<>>) = <<>>
            BY <5>2, <5>3, SameSeq, Literals
          <5> QED BY <5>1, <5>4 DEF w
        <4>5. Line = a
          BY <2>2, <4>4, ConcatThree, Literals
        <4>6. Line' = ((tls \o be.outEnc) \o s) \o w
          BY <1>1, <3>1, <4>3 DEF Line, w
        <4>7. (tls \o be.outEnc) \o s = a \o items
          BY Parts, Literals, ConcatThree DEF a
        <4>8. a \o items = Append(a, x)
          BY <2>2, ConcatOne
        <4>9. Append(a, x) \o <<>> = Append(a, x)
          <5> DEFINE l == Append(a, x)
          <5>1. IsSeq(l)
            BY <2>2, AppendIsSeq
          <5> HIDE DEF l
          <5>2. l \o <<>> = l
            BY <5>1, ConcatThree, Literals
          <5> QED BY <5>2 DEF l
        <4>10. Line' = Append(Line, x)
          BY <4>4, <4>5, <4>6, <4>7, <4>8, <4>9
        <4> QED BY <2>4, <3>2, <4>10 DEF DataInv
      <3> QED BY <3>3, <3>4
    <2>6. CASE ~common.may_send
      <3>1. plain' = [plain EXCEPT !.sendable = Append(@, k)] /\ UNCHANGED be
        BY <1>3, <2>6 DEF send_some_plaintext
      <3>2. plain'.sendable = Append(plain.sendable, k)
        BY <3>1 DEF IInv, Fields
      <3>3. DataItems(plain.sendable)' = Append(w, x)
        <4>1. k \in Nat
          BY <2>1
        <4> HIDE DEF k
        <4> QED BY <2>2, <3>2, <4>1, DataItemsAppend DEF w, x
      <3>4. Line' = a \o Append(w, x)
        BY <1>1, <3>1, <3>3 DEF Line, a
      <3>5. Line' = Append(Line, x)
        BY <2>2, <3>4, ConcatOne
      <3>6. Calm'
        BY <1>1, <1>3, <2>6 DEF Calm, Quiet, DataInv
      <3> QED BY <2>4, <3>5, <3>6 DEF DataInv
    <2> QED BY <2>5, <2>6
  <1> QED BY <1>2, <1>3 DEF write_plaintext

LEMMA FlushWrittenData ==
  ASSUME IInv, DataInv, flush_written
  PROVE  DataInv'
  <1> DEFINE a == (tls \o be.outEnc) \o be.outPlain
             w == DataItems(plain.sendable)
  <1>1. /\ Quiet /\ tls' = a /\ be' = [be EXCEPT !.outPlain = <<>>, !.outEnc = <<>>]
        /\ UNCHANGED <<common, plain, env, returned>>
    BY DEF flush_written, Usable, Quiet, Queued, coreVars
  <1>2. be'.outPlain = <<>> /\ be'.outEnc = <<>>
    BY <1>1, Parts
  <1>3. IsSeq(a) /\ Line = a \o w
    BY Parts DEF Line
  <1>4. Line' = ((a \o <<>>) \o <<>>) \o w
    BY <1>1, <1>2 DEF Line
  <1> HIDE DEF a, w
  <1>5. a \o <<>> = a
    BY <1>3, ConcatThree, Literals
  <1>6. Line' = Line
    BY <1>3, <1>4, <1>5
  <1> QED BY <1>1, <1>6, MovedSame

LEMMA OtherData ==
  ASSUME IInv, DataInv, start \/ started \/ read_tls \/ read_plaintext \/ send_close_notify
  PROVE  DataInv'
  <1>1. CASE start
    <2>1. Quiet /\ UNCHANGED <<returned, common, tls, be, plain, env>>
      BY <1>1 DEF start, DataInv, Calm, Quiet, outVars
    <2> QED BY <2>1, QuietSame
  <1>2. CASE started
    <2>1. Quiet /\ UNCHANGED <<returned, common, tls, be, plain, env>>
      BY <1>2, Proceeds DEF started, outVars
    <2> QED BY <2>1, QuietSame
  <1>3. CASE read_tls
    <2>1. Quiet /\ UNCHANGED <<returned, tls, be, plain>>
      BY <1>3 DEF read_tls, Usable, Quiet, coreVars, outVars
    <2>2. common'.may_send = common.may_send
      <3>1. common' \in {common, [common EXCEPT !.eof = TRUE], [common EXCEPT !.desynced = TRUE]}
        BY <1>3 DEF read_tls
      <3> QED BY <3>1 DEF IInv, Fields
    <2>3. env'.wrote = env.wrote
      <3>1. env' = env \/ \E u, v : env' = [env EXCEPT !.sent = u, !.odd = v]
        BY <1>3 DEF read_tls
      <3> QED BY <3>1 DEF IInv, Fields
    <2> QED BY <2>1, <2>2, <2>3, QuietSame
  <1>4. CASE read_plaintext
    <2>1. /\ plain'.sendable = plain.sendable
          /\ UNCHANGED <<state, pc, returned, common, tls, be, env>>
      BY <1>4 DEF read_plaintext, coreVars, outVars, IInv, Fields
    <2>2. DataInOrder'
      BY <2>1, LineSame DEF DataInv, Quiet
    <2>3. Calm'
      BY <2>1 DEF DataInv, Calm
    <2> QED BY <2>2, <2>3 DEF DataInv
  <1>5. CASE send_close_notify
    <2> DEFINE enc == IsEncrypting
    <2>1. Quiet /\ send_msg("close_notify", enc) /\ UNCHANGED <<state, pc, returned, common, plain, env>>
      BY <1>5 DEF send_close_notify, Usable, Quiet, coreVars
    <2> HIDE DEF enc
    <2>2. DataInOrder'
      BY <2>1, SendKeepsOrder DEF DataInv
    <2>3. Calm'
      BY <2>1 DEF DataInv, Calm
    <2> QED BY <2>2, <2>3 DEF DataInv
  <1> QED BY <1>1, <1>2, <1>3, <1>4, <1>5

-----------------------------------------------------------------------------
(* The theorem *)

LEMMA DataInit == Init => DataInv
  <1> SUFFICES ASSUME Init PROVE DataInv
    OBVIOUS
  <1>1. Calm
    BY DEF Init, Calm
  <1>2. IInv
    BY IInvInit
  <1>3. Line = <<>>
    <2>1. <<>> \in Seq(Nat) /\ Len(<<>>) = 0 /\ <<>> \o <<>> = <<>>
      OBVIOUS
    <2>2. IsSeq(DataItems(<<>>)) /\ Len(DataItems(<<>>)) = 0
      BY <2>1, DataItemsSeq
    <2>3. DataItems(<<>>) = <<>>
      BY <2>1, <2>2, SameSeq, Literals
    <2> QED BY <2>1, <2>3 DEF Init, Line
  <1>4. DataAt(<<>>) = {} /\ 1 .. 0 = {}
    BY DEF DataAt
  <1>5. InOrder(<<>>, 0)
    BY <1>4 DEF InOrder
  <1> QED BY <1>1, <1>3, <1>5 DEF DataInv, DataInOrder, Init

LEMMA DataStep == IInv /\ DataInv /\ [Next]_vars => DataInv'
  <1> SUFFICES ASSUME IInv, DataInv, [Next]_vars PROVE DataInv'
    OBVIOUS
  <1>1. CASE UNCHANGED vars
    <2>1. UNCHANGED <<state, pc, returned, common, tls, be, plain, env>>
      BY <1>1 DEF vars
    <2>2. Line' = Line
      BY <2>1 DEF Line
    <2> QED BY <2>1, <2>2 DEF DataInv, DataInOrder, Calm
  <1>2. CASE Handling \/ Processing
    BY <1>2, HandlingData, ProcessingData
  <1>3. CASE start \/ started \/ read_tls \/ write_plaintext \/ flush_written \/ read_plaintext
             \/ send_close_notify
    BY <1>3, WriteData, FlushWrittenData, OtherData
  <1> QED BY <1>1, <1>2, <1>3 DEF Next, Ended

\* Whatever an application writes and whenever, while the handshake still keeps it, in the handler that
\* starts traffic, or later, it is once and in order in the buffers up to sendable_tls.
THEOREM DataSentInOrder == Spec => []DataInOrder
  <1>1. IInv /\ DataInv /\ [Next]_vars => (IInv /\ DataInv)'
    BY IInvStep, DataStep
  <1>2. Init => IInv /\ DataInv
    BY IInvInit, DataInit
  <1>3. IInv /\ DataInv => DataInOrder
    BY DEF DataInv
  <1> QED BY <1>1, <1>2, <1>3, PTL DEF Spec

=============================================================================
