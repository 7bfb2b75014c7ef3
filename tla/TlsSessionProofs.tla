-------------------------- MODULE TlsSessionProofs --------------------------
(***************************************************************************)
(* Proofs about TlsSession, for every bound and every capacity of the      *)
(* channels: a session fails only for a reason outside of the prover, and  *)
(* when it ends well the transcript is the conversation.                   *)
(*                                                                         *)
(* The invariant follows the calls a branch of the loop still makes.       *)
(* Ordered says which call may stand behind which, so that taking one off  *)
(* leaves a list of the same kind; FlightSteps and RecordSteps say what    *)
(* holds whenever a call is the next one.  ByState and OnTheWay say where  *)
(* records can be, and Flow that what is there, taken together and in      *)
(* order, is what was sent and written.                                    *)
(***************************************************************************)
EXTENDS TlsSession, Integers, TLAPS, SequenceTheorems, WellFoundedInduction

-----------------------------------------------------------------------------
\* The calls of a branch.

StartMsgs == {"GetClientKeyShare", "GetClientRandom", "GetNotify"}
Needed == ServerMsgs \union {"SetProtocolVersion", "SetCipherSuite"}

\* Which call may stand behind which.
Behind(op) ==
  CASE op = "GetClientKeyShare" -> {"GetClientRandom", "SetHsHashClientKeyExchange"}
    [] op = "GetClientRandom" -> {"GetNotify"}
    [] op = "SetProtocolVersion" -> {"SetCipherSuite"}
    [] op = "SetCipherSuite" -> {"SetServerRandom"}
    [] op = "SetServerRandom" -> {"SetServerCertDetails"}
    [] op = "SetServerCertDetails" -> {"GetClientKeyShare"}
    [] op = "SetHsHashClientKeyExchange" -> {"SetServerKxDetails"}
    [] op = "SetServerKxDetails" -> {"SetServerKeyShare"}
    [] op = "SetServerKeyShare" -> {"PrepareEncryption"}
    [] op = "PrepareEncryption" -> {"GetClientFinishedVd"}
    [] op = "GetClientFinishedVd" -> {"PushOutgoing"}
    [] op = "PushIncoming" -> {"PushIncoming", "Flush"}
    [] op = "PushOutgoing" -> {"Flush"}
    [] op = "Flush" -> {"NextIncoming", "NextOutgoing"}
    [] op = "GetServerFinishedVd" -> {"StartTraffic"}
    [] op = "StartTraffic" -> {"NextIncoming"}
    [] op = "NextIncoming" -> {"NextOutgoing"}
    [] op \in {"NextOutgoing", "Refused"} -> {"ServerClosed"}
    [] OTHER -> {}
LastMsgs == {"GetNotify", "NextOutgoing", "ServerClosed", "IsEmpty", "Refused"}

\* No message of the control handles, and a call that pushes a record has one.
Askable(c) == c.op \notin {"Stop", "DeferDecryption"} /\ (c.op = "PushOutgoing" => c.msg.typ # "none")

Ordered(s) ==
  /\ \A i \in 1..Len(s) - 1 : s[i + 1].op \in Behind(s[i].op)
  /\ s # <<>> => s[Len(s)].op \in LastMsgs
  /\ \A i \in DOMAIN s : Askable(s[i])

Within(ops, s) == \E i \in DOMAIN s : s[i].op \in ops
Only(ops, s) == \A i \in DOMAIN s : s[i].op \in ops
First(ops) == todo # <<>> /\ Head(todo).op \in ops

Has(typ, s) == \E i \in DOMAIN s : s[i].typ = typ
NoData(s) == ~Has("ApplicationData", s)

\* The records that a list of calls pushes, with NoRec for other calls.
Pushed(op, s) == [i \in DOMAIN s |-> IF s[i].op = op THEN s[i].msg ELSE NoRec]
Incoming(s) == Pushed("PushIncoming", s)
Outgoing(s) == Pushed("PushOutgoing", s)

FinishedGone ==
  /\ ~Has("Finished", socket.in) /\ ~Has("Finished", Incoming(todo))
  /\ ~Has("Finished", leader.decrypt) /\ ~Has("Finished", leader.decrypted)

\* No reason to fail so far but the end of the stream.
Clean == verifier /\ socket.bad = 0

\* What holds when a call is the next one: in the start and the first flight,
FlightMsgs ==
  {"SetProtocolVersion", "SetCipherSuite", "SetServerRandom", "SetServerCertDetails",
   "SetHsHashClientKeyExchange", "SetServerKxDetails", "SetServerKeyShare", "PrepareEncryption"}
InFlight == First(FlightMsgs) \/ (after # "started" /\ First({"GetClientKeyShare"}))
FlightSteps ==
  /\ after = "started" => leader.state = "Handshake" /\ Only(StartMsgs, todo) /\ ~loop.server_closed
  /\ after # "started" => ~Within({"GetClientRandom", "GetNotify"}, todo)
  /\ InFlight => leader.state = "Handshake" /\ after = "packets" /\ ~loop.server_closed
  /\ First({"SetCipherSuite"}) => {"SetProtocolVersion"} \subseteq leader.fields
  /\ First({"SetServerRandom"}) => {"SetProtocolVersion", "SetCipherSuite"} \subseteq leader.fields
  /\ First({"SetServerCertDetails"}) =>
       {"SetProtocolVersion", "SetCipherSuite", "SetServerRandom"} \subseteq leader.fields
  /\ InFlight /\ First({"GetClientKeyShare", "SetHsHashClientKeyExchange", "SetServerKxDetails"}) =>
       Needed \ {"SetServerKxDetails", "SetServerKeyShare"} \subseteq leader.fields
  /\ First({"SetServerKeyShare"}) => Needed \ {"SetServerKeyShare"} \subseteq leader.fields
  /\ First({"PrepareEncryption"}) => Needed \subseteq leader.fields
  /\ First({"GetClientFinishedVd"}) => leader.state = "Active"

\* and while records go through the leader.
RecordSteps ==
  /\ First({"PushIncoming"}) => leader.state = "Active"
  /\ First({"PushOutgoing"}) =>
       /\ leader.state # "Handshake"
       /\ leader.state = "Active" \/ (IsData(Head(todo).msg) /\ after = "packets")
  /\ First({"GetServerFinishedVd", "StartTraffic"}) =>
       /\ leader.state = "Active" /\ ~leader.started
       /\ Len(socket.sent) >= 2 /\ FinishedGone
  /\ First({"NextIncoming", "NextOutgoing", "GetServerFinishedVd", "StartTraffic", "ServerClosed"}) =>
       leader.encrypt = <<>> /\ ~Has("Finished", leader.decrypt)
  /\ First({"NextOutgoing", "ServerClosed"}) => ~Has("Finished", leader.decrypted)
  /\ First({"ServerClosed"}) \/ ((todo = <<>> \/ First({"IsEmpty"})) /\ ~loop.client_closed) =>
       leader.encrypt = <<>> /\ leader.encrypted = <<>>
  /\ Within({"Flush"}, todo) /\ ~Within({"NextIncoming"}, todo) => leader.started
  /\ First({"Refused"}) => ~Clean
  /\ Within({"ServerClosed"}, todo) => loop.server_closed /\ after = "packets" /\ leader.state # "Closed"
  /\ Within({"PushIncoming"}, todo) => ~loop.server_closed /\ after = "packets" /\ leader.state # "Handshake"
  /\ loop.server_closed => leader.state = "Closed" \/ Within({"ServerClosed"}, todo)

\* Where the loop is.
Delivered == client.plaintext = <<>> /\ (client.tls = <<>> \/ loop.client_closed)
Control ==
  /\ pc = "asked" => todo # <<>> /\ Head(todo).op # "Refused"
  /\ pc \notin {"calls", "asked"} => todo = <<>>
  /\ pc \in {"write", "forward", "select"} => after = "none"
  /\ pc = "forward" => client.tls = <<>> \/ loop.client_closed
  /\ pc = "select" => Delivered
  /\ pc = "ended" => after = "break"
  /\ First({"IsEmpty"}) => after = "none" /\ Delivered /\ leader.state = "Closed"
  /\ pc \in {"calls", "asked"} =>
       /\ after = "none" => First({"IsEmpty"})
       /\ after = "select" => todo = <<>> /\ Delivered
       /\ after = "closing" => loop.receiving
  /\ after = "break" =>
       /\ todo = <<>> /\ leader.state = "Closed" /\ Delivered
       /\ leader.decrypted = <<>> /\ leader.encrypted = <<>>

\* The mailbox holds the call that is waited for, and a control message
\* before or behind it.
Own == IF pc = "asked" THEN <<Head(todo)>> ELSE IF pc = "ended" THEN <<Call("Stop")>> ELSE <<>>
Defer == <<Call("DeferDecryption")>>
Mail ==
  IF control = "called" THEN mailbox = Defer \o Own \/ mailbox = Own \o Defer ELSE mailbox = Own

\* Where records can be, by the state of the leader.
Hello == Rec("Hello", 0)
Bad == Rec("Bad", 0)
ByState ==
  /\ leader.state \in {"Handshake", "Active", "Closed"}
  /\ leader.state = "Handshake" =>
       /\ leader.encrypt = <<>> /\ leader.encrypted = <<>> /\ leader.decrypt = <<>> /\ leader.decrypted = <<>>
       /\ ~Has("Finished", client.tls) /\ ~Has("Finished", socket.out)
       /\ ~leader.started /\ Len(socket.sent) <= 1
       /\ socket.in \in {<<>>, <<Hello>>, <<Bad>>, <<Hello, Bad>>}
  /\ leader.state = "Closed" =>
       /\ loop.server_closed /\ leader.encrypt = <<>> /\ leader.decrypt = <<>>
       /\ ~Has("Finished", leader.decrypted)
  /\ Has("Hello", socket.in) => leader.state = "Handshake" /\ ~InFlight
  /\ socket.sent = <<>> => leader.state = "Handshake" /\ ~InFlight /\ socket.in \in {<<>>, <<Bad>>}

\* The server's Finished is alone on its way, and nothing before it is bad.
Lone(s) == Has("Finished", s) => Head(s).typ = "Finished" /\ ~Has("Finished", Tail(s)) /\ Len(socket.sent) >= 2
OnTheWay ==
  /\ socket.bad = 0 /\ Len(socket.sent) <= 1 =>
       /\ leader.decrypt = <<>> /\ leader.decrypted = <<>> /\ ~Within({"PushIncoming"}, todo)
       /\ socket.in \in {<<>>, <<Hello>>}
  /\ Lone(socket.in) /\ Lone(Incoming(todo)) /\ Lone(leader.decrypt) /\ Lone(leader.decrypted)
  /\ Has("Finished", socket.in) =>
       leader.decrypt = <<>> /\ leader.decrypted = <<>> /\ ~Within({"PushIncoming"}, todo)
  /\ Has("Finished", Incoming(todo)) => leader.decrypt = <<>> /\ leader.decrypted = <<>>
  /\ Has("Finished", leader.decrypt) => leader.decrypted = <<>>
  /\ socket.bad = 0 => ~Has("Bad", socket.in) /\ ~Has("Bad", Incoming(todo)) /\ ~Has("Bad", leader.decrypt)
  /\ ~Has("none", leader.encrypt) /\ ~Has("none", leader.encrypted)

\* What the flags of the loop say.
Flags ==
  /\ loop.server_closed => ~loop.reading /\ socket.server # "open" /\ socket.in = <<>>
  /\ loop.receiving => loop.handshake_done /\ ~loop.client_closed
  /\ loop.client_closed => loop.handshake_done
  /\ loop.handshake_done => client.phase # "hello"
  /\ client.phase # "hello" => leader.started
  /\ client.phase = "error" => loop.client_closed /\ ~Clean
  /\ leader.started => leader.state # "Handshake" /\ Len(socket.sent) >= 2 /\ FinishedGone
  /\ ~leader.started => NoData(leader.encrypt) /\ NoData(leader.encrypted) /\ NoData(Outgoing(todo))
  /\ loop.client_closed \/ after = "closing" =>
       /\ NoData(client.tls) /\ NoData(leader.encrypt) /\ NoData(leader.encrypted) /\ NoData(Outgoing(todo))

\* All data on its way, from either end to the other.
Numbers(n) == [i \in 1..n |-> Data(i)]
ReadFlow ==
  ~conn.dropped => (conn.read \o conn.rx) \o (client.plaintext \o DataOf(leader.decrypted)) = DataOf(leader.recv)
InFlow ==
  ~First({"Refused"}) =>
    DataOf(socket.sent) =
      DataOf(leader.recv) \o (DataOf(leader.decrypt) \o (DataOf(Incoming(todo)) \o DataOf(socket.in)))
OutFlow == DataOf(socket.out) \o (DataOf(client.tls) \o DataOf(leader.encrypted)) = DataOf(leader.sent)
WriteFlow ==
  DataOf(leader.sent) \o (DataOf(leader.encrypt) \o (DataOf(Outgoing(todo)) \o DataOf(conn.tx))) = Numbers(conn.written)
Flow == ReadFlow /\ InFlow /\ OutFlow /\ WriteFlow /\ \A i \in DOMAIN conn.tx : IsData(conn.tx[i])

Running ==
  /\ failure = "none" /\ Ordered(todo)
  /\ FlightSteps /\ RecordSteps /\ Control /\ Mail /\ ByState /\ OnTheWay /\ Flags /\ Flow

IInv == TypeOK /\ FailureHasCause /\ TranscriptIsConversation /\ (Live => Running)
-----------------------------------------------------------------------------
\* The data of a sequence of records.

\* A set of natural numbers that is not empty has a smallest member.
LEMMA LeastNumber ==
  ASSUME NEW T, T \subseteq Nat, T # {}
  PROVE  \E m \in T : \A y \in T : m <= y
<1>1. \A x, y \in Nat : x < y => <<x, y>> \in OpToRel(<, Nat)
  BY Zenon DEF OpToRel
<1>2. ASSUME NEW R, \A x, y \in Nat : x < y => <<x, y>> \in R, IsWellFoundedOn(R, Nat)
      PROVE  \E m \in T : \A y \in T : m <= y
  <2>0. IsWellFoundedOn(R, Nat) /\ T \subseteq Nat /\ T # {}
    BY <1>2
  <2>1. PICK m \in T : \A y \in T : ~(<<y, m>> \in R)
    <3> HIDE <1>2
    <3> QED BY <2>0, WFMin, Zenon
  <2>2. ASSUME NEW y \in T PROVE m <= y
    <3>1. m \in Nat /\ y \in Nat
      OBVIOUS
    <3>2. ~(<<y, m>> \in R)
      BY <2>1
    <3>3. ~(y < m)
      BY <1>2, <3>1, <3>2
    <3> QED BY <3>1, <3>3
  <2> QED BY <2>2
<1> QED BY <1>1, <1>2, NatLessThanWellFounded, Zenon

\* f counts up the data of the first n records of s, for every n up to k.
Counts(f, s, k) ==
  /\ f \in [0..k -> Seq(Record)] /\ f[0] = <<>>
  /\ \A n \in 1..k : f[n] = IF IsData(s[n]) THEN Append(f[n - 1], s[n]) ELSE f[n - 1]

\* There is such an f for every k: it can be continued by one more record.
LEMMA CountExists ==
  ASSUME NEW s \in Seq(Record)
  PROVE  \A k \in 0..Len(s) : \E f : Counts(f, s, k)
<1> DEFINE bad == {k \in Nat : k <= Len(s) /\ ~ \E f : Counts(f, s, k)}
<1>1. SUFFICES ASSUME bad # {} PROVE FALSE
  BY LenProperties
<1>2. PICK k \in bad : \A m \in bad : k <= m
  <2>1. bad \subseteq Nat
    OBVIOUS
  <2> HIDE DEF bad
  <2> QED BY <1>1, <2>1, LeastNumber
<1>3. CASE k = 0
  <2>1. Counts([n \in 0..0 |-> <<>>], s, 0)
    BY DEF Counts
  <2> QED BY <1>2, <1>3, <2>1
<1>4. CASE k # 0
  <2>1. k \in Nat /\ k <= Len(s) /\ k - 1 \in Nat /\ k - 1 <= Len(s) /\ ~(k <= k - 1)
    BY <1>2, <1>4, LenProperties
  <2>2. k - 1 \notin bad
    <3> DEFINE j == k - 1
    <3>1. ~(k <= j)
      BY <2>1
    <3> HIDE DEF j, bad
    <3>2. j \notin bad
      BY <3>1, <1>2
    <3> QED BY <3>2 DEF j
  <2>3. PICK f : Counts(f, s, k - 1)
    BY <2>1, <2>2
  <2> DEFINE g == [n \in 0..k |-> IF n < k THEN f[n]
                                  ELSE IF IsData(s[k]) THEN Append(f[k - 1], s[k]) ELSE f[k - 1]]
  <2>4. s[k] \in Record
    BY <2>1, <1>4, ElementOfSeq, LenProperties
  <2>5. Counts(g, s, k)
    <3>1. g \in [0..k -> Seq(Record)]
      BY <2>1, <2>3, <2>4 DEF Counts
    <3>2. g[0] = <<>>
      BY <2>1, <2>3, <1>4 DEF Counts
    <3>3. ASSUME NEW n \in 1..k PROVE g[n] = IF IsData(s[n]) THEN Append(g[n - 1], s[n]) ELSE g[n - 1]
      <4>1. CASE n = k
        BY <2>1, <4>1
      <4>2. CASE n # k
        <5>1. n \in 1..k - 1 /\ n < k /\ n - 1 < k /\ n \in 0..k /\ n - 1 \in 0..k
          BY <2>1, <4>2
        <5> QED BY <5>1, <2>3 DEF Counts
      <4> QED BY <4>1, <4>2
    <3> QED BY <3>1, <3>2, <3>3 DEF Counts
  <2> QED BY <1>2, <2>5
<1> QED BY <1>3, <1>4

\* Two such functions agree as far as the records do.
LEMMA CountUnique ==
  ASSUME NEW s \in Seq(Record), NEW t \in Seq(Record), NEW k \in Nat, k <= Len(s), k <= Len(t),
         NEW f, NEW g, NEW m \in Nat, k <= m, Counts(f, s, k), Counts(g, t, m),
         \A n \in 1..k : s[n] = t[n]
  PROVE  f[k] = g[k]
<1> DEFINE bad == {n \in 0..k : f[n] # g[n]}
<1>1. SUFFICES ASSUME bad # {} PROVE FALSE
  OBVIOUS
<1>2. PICK n \in bad : \A j \in bad : n <= j
  <2>1. bad \subseteq Nat
    OBVIOUS
  <2> HIDE DEF bad
  <2> QED BY <1>1, <2>1, LeastNumber
<1>3. n \in Nat /\ n <= k /\ f[n] # g[n]
  BY <1>2
<1>4. n # 0
  BY <1>3 DEF Counts
<1>5. n \in 1..k /\ n \in 1..m /\ n - 1 \in 0..k /\ ~(n <= n - 1)
  BY <1>3, <1>4
<1>6. f[n - 1] = g[n - 1]
  BY <1>2, <1>5
<1> QED BY <1>3, <1>5, <1>6 DEF Counts

\* What DataOf chooses is the last value of such a function.
LEMMA DataCounted ==
  ASSUME NEW s \in Seq(Record)
  PROVE  \E f : Counts(f, s, Len(s)) /\ DataOf(s) = f[Len(s)]
<1> DEFINE Solves(f) ==
      f = [n \in 0..Len(s) |-> IF n = 0 THEN <<>> ELSE IF IsData(s[n]) THEN Append(f[n - 1], s[n]) ELSE f[n - 1]]
<1>1. Len(s) \in Nat
  BY LenProperties
<1>2. PICK f : Counts(f, s, Len(s))
  BY <1>1, CountExists
<1>3. Solves(f)
  <2> DEFINE e(n) == IF n = 0 THEN <<>> ELSE IF IsData(s[n]) THEN Append(f[n - 1], s[n]) ELSE f[n - 1]
  <2>1. \A n \in 0..Len(s) : f[n] = e(n)
    <3>1. ASSUME NEW n \in 0..Len(s), n # 0 PROVE n \in 1..Len(s)
      BY <1>1, <3>1
    <3> QED BY <1>2, <3>1 DEF Counts
  <2>2. f = [n \in 0..Len(s) |-> f[n]]
    BY <1>2 DEF Counts
  <2> HIDE DEF e
  <2>3. f = [n \in 0..Len(s) |-> e(n)]
    BY <2>1, <2>2
  <2> QED BY <2>3 DEF e
<1> DEFINE h == CHOOSE h : Solves(h)
<1>4. Solves(h)
  <2> HIDE DEF Solves
  <2> QED BY <1>3
<1>5. DataOf(s) = h[Len(s)]
  BY DEF DataOf
<1>6. Counts(h, s, Len(s))
  <2> HIDE DEF h
  <2>1. h[0] = <<>> /\ DOMAIN h = 0..Len(s)
    BY <1>1, <1>4
  <2>2. ASSUME NEW n \in 1..Len(s)
        PROVE  h[n] = IF IsData(s[n]) THEN Append(h[n - 1], s[n]) ELSE h[n - 1]
    <3>1. n \in 0..Len(s) /\ n # 0
      BY <1>1
    <3> QED BY <1>4, <3>1
  <2>3. \A n \in 0..Len(s) : h[n] = f[n]
    <3> DEFINE bad == {n \in 0..Len(s) : h[n] # f[n]}
    <3>1. SUFFICES ASSUME bad # {} PROVE FALSE
      OBVIOUS
    <3>2. PICK n \in bad : \A j \in bad : n <= j
      <4>1. bad \subseteq Nat
        BY <1>1
      <4> HIDE DEF bad
      <4> QED BY <3>1, <4>1, LeastNumber
    <3>3. n \in Nat /\ n <= Len(s) /\ h[n] # f[n] /\ n # 0
      BY <1>1, <1>2, <2>1, <3>2 DEF Counts
    <3>4. n \in 1..Len(s) /\ n - 1 \in 0..Len(s) /\ ~(n <= n - 1)
      BY <1>1, <3>3
    <3>5. h[n - 1] = f[n - 1]
      BY <3>2, <3>4
    <3> QED BY <1>2, <2>2, <3>3, <3>4, <3>5 DEF Counts
  <2>4. h \in [0..Len(s) -> Seq(Record)]
    BY <1>2, <1>4, <2>3 DEF Counts
  <2> QED BY <2>1, <2>2, <2>4 DEF Counts
<1> QED BY <1>5, <1>6

LEMMA DataSeq ==
  ASSUME NEW s \in Seq(Record)
  PROVE  DataOf(s) \in Seq(Record)
<1>1. PICK f : Counts(f, s, Len(s)) /\ DataOf(s) = f[Len(s)]
  BY DataCounted
<1>2. Len(s) \in 0..Len(s)
  BY LenProperties
<1> QED BY <1>1, <1>2 DEF Counts

LEMMA DataEmpty == DataOf(<<>>) = <<>>
<1>1. <<>> \in Seq(Record) /\ Len(<<>>) = 0
  BY EmptySeq
<1>2. PICK f : Counts(f, <<>>, 0) /\ DataOf(<<>>) = f[0]
  BY <1>1, DataCounted
<1> QED BY <1>2 DEF Counts

LEMMA DataAppend ==
  ASSUME NEW s \in Seq(Record), NEW r \in Record
  PROVE  DataOf(Append(s, r)) = IF IsData(r) THEN Append(DataOf(s), r) ELSE DataOf(s)
<1> DEFINE t == Append(s, r)
<1>1. /\ t \in Seq(Record) /\ Len(t) = Len(s) + 1 /\ t[Len(s) + 1] = r /\ Len(s) \in Nat
      /\ \A i \in 1..Len(s) : s[i] = t[i]
  BY AppendProperties, LenProperties
<1> HIDE DEF t
<1>2. PICK f : Counts(f, s, Len(s)) /\ DataOf(s) = f[Len(s)]
  BY DataCounted
<1>3. PICK g : Counts(g, t, Len(t)) /\ DataOf(t) = g[Len(t)]
  BY <1>1, DataCounted
<1>4. Len(s) <= Len(s) /\ Len(s) <= Len(t) /\ Len(t) \in Nat
  BY <1>1
<1>5. f[Len(s)] = g[Len(s)]
  BY <1>1, <1>2, <1>3, <1>4, CountUnique
<1>6. Len(t) \in 1..Len(t) /\ Len(t) - 1 = Len(s) /\ t[Len(t)] = r
  BY <1>1
<1>7. g[Len(t)] = IF IsData(t[Len(t)]) THEN Append(g[Len(t) - 1], t[Len(t)]) ELSE g[Len(t) - 1]
  BY <1>3, <1>6 DEF Counts
<1>8. g[Len(t)] = IF IsData(r) THEN Append(g[Len(s)], r) ELSE g[Len(s)]
  BY <1>6, <1>7
<1>9. DataOf(t) = IF IsData(r) THEN Append(DataOf(s), r) ELSE DataOf(s)
  BY <1>2, <1>3, <1>5, <1>8
<1> QED BY <1>9 DEF t

\* A prefix of a sequence is the prefix that is one shorter, and one more.
LEMMA PrefixAppend ==
  ASSUME NEW S, NEW t \in Seq(S), NEW k \in 1..Len(t)
  PROVE  /\ t[k] \in S /\ SubSeq(t, 1, k - 1) \in Seq(S)
         /\ SubSeq(t, 1, k) = Append(SubSeq(t, 1, k - 1), t[k])
<1>1. k \in 1..Len(t) /\ 1 \in 1..Len(t) /\ k \in 1..k /\ k \in Nat /\ Len(t) \in Nat
  BY LenProperties
<1>2. t[k] \in S
  BY ElementOfSeq
<1>3. SubSeq(t, 1, k - 1) \in Seq(S)
  <2>1. \A i \in 1..(k - 1) : t[i] \in S
    <3>1. ASSUME NEW i \in 1..(k - 1) PROVE i \in 1..Len(t)
      BY <1>1
    <3> QED BY <3>1, ElementOfSeq
  <2> QED BY <1>1, <2>1, SubSeqProperties
<1>4. SubSeq(t, 1, k) = SubSeq(t, 1, k - 1) \o <<t[k]>>
  <2>1. k \in 1..Len(t) /\ 1 \in 1..Len(t) /\ k \in 1..Len(t)
    BY <1>1
  <2> QED BY <2>1, SubSeqRecursiveSecond
<1>5. Append(SubSeq(t, 1, k - 1), t[k]) = SubSeq(t, 1, k - 1) \o <<t[k]>>
  BY <1>2, <1>3, AppendIsConcat
<1> QED BY <1>2, <1>3, <1>4, <1>5

LEMMA DataConcat ==
  ASSUME NEW s \in Seq(Record), NEW t \in Seq(Record)
  PROVE  DataOf(s \o t) = DataOf(s) \o DataOf(t)
<1> DEFINE u(k) == SubSeq(t, 1, k)
           bad == {k \in Nat : k <= Len(t) /\ DataOf(s \o u(k)) # DataOf(s) \o DataOf(u(k))}
<1>1. Len(t) \in Nat /\ DataOf(s) \in Seq(Record)
  BY LenProperties, DataSeq
<1>2. bad = {}
  <2>1. SUFFICES ASSUME bad # {} PROVE FALSE
    OBVIOUS
  <2>2. PICK k \in bad : \A m \in bad : k <= m
    <3>1. bad \subseteq Nat
      OBVIOUS
    <3> HIDE DEF bad
    <3> QED BY <2>1, <3>1, LeastNumber
  <2>3. k \in Nat /\ k <= Len(t) /\ DataOf(s \o u(k)) # DataOf(s) \o DataOf(u(k))
    BY <2>2
  <2>4. k # 0
    <3>1. SUFFICES ASSUME k = 0 PROVE FALSE
      OBVIOUS
    <3>2. u(0) = <<>>
      BY SubSeqEmpty
    <3>3. s \o <<>> = s /\ DataOf(s) \o <<>> = DataOf(s)
      BY <1>1, ConcatEmptySeq
    <3> QED BY <2>3, <3>1, <3>2, <3>3, DataEmpty
  <2>5. k \in 1..Len(t) /\ k - 1 \in Nat /\ k - 1 <= Len(t) /\ ~(k <= k - 1)
    BY <1>1, <2>3, <2>4
  <2>6. DataOf(s \o u(k - 1)) = DataOf(s) \o DataOf(u(k - 1))
    <3> DEFINE j == k - 1
    <3>1. j \in Nat /\ j <= Len(t) /\ ~(k <= j)
      BY <2>5
    <3> HIDE DEF j
    <3>2. j \notin bad
      <4> HIDE DEF bad
      <4> QED BY <3>1, <2>2
    <3>3. DataOf(s \o u(j)) = DataOf(s) \o DataOf(u(j))
      BY <3>1, <3>2
    <3> QED BY <3>3 DEF j
  <2>7. PICK r, v : r = t[k] /\ v = u(k - 1)
    OBVIOUS
  <2>8. r \in Record /\ v \in Seq(Record) /\ u(k) = Append(v, r)
    BY <2>5, <2>7, PrefixAppend
  <2>9. DataOf(s \o v) = DataOf(s) \o DataOf(v)
    BY <2>6, <2>7
  <2>10. DataOf(s \o Append(v, r)) # DataOf(s) \o DataOf(Append(v, r))
    BY <2>3, <2>8
  <2>11. s \o Append(v, r) = Append(s \o v, r) /\ s \o v \in Seq(Record)
    BY <2>8
  <2>12. DataOf(v) \in Seq(Record)
    BY <2>8, DataSeq
  <2>13. DataOf(s) \o Append(DataOf(v), r) = Append(DataOf(s) \o DataOf(v), r)
    BY <1>1, <2>8, <2>12
  <2> QED BY <2>8, <2>9, <2>10, <2>11, <2>13, DataAppend
<1> HIDE DEF u
<1>3. Len(t) \in Nat /\ Len(t) <= Len(t)
  BY <1>1
<1>4. DataOf(s \o u(Len(t))) = DataOf(s) \o DataOf(u(Len(t)))
  BY <1>2, <1>3
<1>5. u(Len(t)) = t
  BY SubSeqFull DEF u
<1> QED BY <1>4, <1>5

LEMMA DataSingle ==
  ASSUME NEW r \in Record
  PROVE  DataOf(<<r>>) = IF IsData(r) THEN <<r>> ELSE <<>>
<1>1. <<>> \in Seq(Record) /\ Append(<<>>, r) = <<r>>
  BY EmptySeq
<1> QED BY <1>1, DataEmpty, DataAppend

LEMMA DataHead ==
  ASSUME NEW s \in Seq(Record), s # <<>>
  PROVE  DataOf(s) = (IF IsData(Head(s)) THEN <<Head(s)>> ELSE <<>>) \o DataOf(Tail(s))
<1>1. Head(s) \in Record /\ Tail(s) \in Seq(Record) /\ <<Head(s)>> \in Seq(Record)
  BY HeadTailProperties
<1>2. s = <<Head(s)>> \o Tail(s)
  OBVIOUS
<1> QED BY <1>1, <1>2, DataConcat, DataSingle

LEMMA DataNone ==
  ASSUME NEW s \in Seq(Record), NoData(s)
  PROVE  DataOf(s) = <<>>
<1>1. PICK f : Counts(f, s, Len(s)) /\ DataOf(s) = f[Len(s)]
  BY DataCounted
<1> DEFINE bad == {k \in 0..Len(s) : f[k] # <<>>}
<1>2. Len(s) \in Nat /\ DOMAIN s = 1..Len(s)
  BY LenProperties
<1>3. bad = {}
  <2>1. SUFFICES ASSUME bad # {} PROVE FALSE
    OBVIOUS
  <2>2. PICK k \in bad : \A m \in bad : k <= m
    <3>1. bad \subseteq Nat
      BY <1>2
    <3> HIDE DEF bad
    <3> QED BY <2>1, <3>1, LeastNumber
  <2>3. k \in 1..Len(s) /\ f[k] # <<>> /\ k - 1 \in 0..Len(s) /\ ~(k <= k - 1)
    BY <1>1, <1>2, <2>2 DEF Counts
  <2>4. f[k - 1] = <<>> /\ ~IsData(s[k])
    <3>1. k - 1 \notin bad
      BY <2>2, <2>3
    <3>2. s[k].typ # "ApplicationData"
      BY <1>2, <2>3 DEF NoData, Has
    <3> QED BY <2>3, <3>1, <3>2 DEF IsData
  <2> QED BY <1>1, <2>3, <2>4 DEF Counts
<1> QED BY <1>1, <1>2, <1>3

-----------------------------------------------------------------------------
\* What sequences contain, after each way in which the model changes them.

LEMMA HasEmpty == ASSUME NEW typ PROVE ~Has(typ, <<>>)
BY DEF Has

LEMMA HasTail ==
  ASSUME NEW typ, NEW s \in Seq(Record), s # <<>>
  PROVE  Has(typ, s) <=> Head(s).typ = typ \/ Has(typ, Tail(s))
<1>1. /\ Len(s) \in Nat /\ Len(s) >= 1 /\ DOMAIN s = 1..Len(s) /\ Head(s) = s[1]
      /\ Tail(s) \in Seq(Record) /\ Len(Tail(s)) = Len(s) - 1 /\ DOMAIN Tail(s) = 1..Len(s) - 1
      /\ \A i \in 1..Len(s) - 1 : Tail(s)[i] = s[i + 1]
  BY HeadTailProperties, LenProperties, EmptySeq
<1>2. ASSUME NEW i \in 1..Len(s), s[i].typ = typ PROVE Head(s).typ = typ \/ Has(typ, Tail(s))
  <2>1. CASE i = 1
    BY <1>1, <1>2, <2>1
  <2>2. CASE i # 1
    <3>1. i - 1 \in 1..Len(s) - 1 /\ (i - 1) + 1 = i
      BY <1>1, <2>2
    <3> QED BY <1>1, <1>2, <3>1 DEF Has
  <2> QED BY <2>1, <2>2
<1>3. ASSUME NEW i \in 1..Len(s) - 1, Tail(s)[i].typ = typ PROVE Has(typ, s)
  <2>1. i + 1 \in 1..Len(s)
    BY <1>1
  <2> QED BY <1>1, <1>3, <2>1 DEF Has
<1>4. Head(s).typ = typ => Has(typ, s)
  <2>1. 1 \in 1..Len(s)
    BY <1>1
  <2> QED BY <1>1, <2>1 DEF Has
<1> QED BY <1>1, <1>2, <1>3, <1>4 DEF Has

LEMMA HasConcat ==
  ASSUME NEW typ, NEW s \in Seq(Record), NEW t \in Seq(Record)
  PROVE  Has(typ, s \o t) <=> Has(typ, s) \/ Has(typ, t)
<1>1. /\ Len(s) \in Nat /\ Len(t) \in Nat /\ DOMAIN s = 1..Len(s) /\ DOMAIN t = 1..Len(t)
      /\ DOMAIN (s \o t) = 1..(Len(s) + Len(t))
      /\ \A i \in 1..(Len(s) + Len(t)) : (s \o t)[i] = IF i <= Len(s) THEN s[i] ELSE t[i - Len(s)]
  BY LenProperties, ConcatProperties
<1>2. ASSUME NEW i \in 1..(Len(s) + Len(t)), (s \o t)[i].typ = typ PROVE Has(typ, s) \/ Has(typ, t)
  <2>1. CASE i <= Len(s)
    <3>1. i \in 1..Len(s)
      BY <1>1, <2>1
    <3> QED BY <1>1, <1>2, <2>1, <3>1 DEF Has
  <2>2. CASE ~(i <= Len(s))
    <3>1. i - Len(s) \in 1..Len(t)
      BY <1>1, <2>2
    <3> QED BY <1>1, <1>2, <2>2, <3>1 DEF Has
  <2> QED BY <2>1, <2>2
<1>3. ASSUME NEW i \in 1..Len(s), s[i].typ = typ PROVE Has(typ, s \o t)
  <2>1. i \in 1..(Len(s) + Len(t)) /\ i <= Len(s)
    BY <1>1
  <2> QED BY <1>1, <1>3, <2>1 DEF Has
<1>4. ASSUME NEW i \in 1..Len(t), t[i].typ = typ PROVE Has(typ, s \o t)
  <2>1. Len(s) + i \in 1..(Len(s) + Len(t)) /\ ~(Len(s) + i <= Len(s)) /\ (Len(s) + i) - Len(s) = i
    BY <1>1
  <2> QED BY <1>1, <1>4, <2>1 DEF Has
<1> QED BY <1>1, <1>2, <1>3, <1>4 DEF Has

LEMMA HasOne == ASSUME NEW typ, NEW r PROVE Has(typ, <<r>>) <=> r.typ = typ
BY DEF Has

LEMMA HasAppend ==
  ASSUME NEW typ, NEW s \in Seq(Record), NEW r \in Record
  PROVE  Has(typ, Append(s, r)) <=> Has(typ, s) \/ r.typ = typ
<1>1. Append(s, r) = s \o <<r>> /\ <<r>> \in Seq(Record)
  BY AppendIsConcat
<1>2. Has(typ, s \o <<r>>) <=> Has(typ, s) \/ Has(typ, <<r>>)
  BY <1>1, HasConcat, Zenon
<1>3. Has(typ, <<r>>) <=> r.typ = typ
  BY HasOne
<1> QED BY <1>1, <1>2, <1>3

\* A sequence cut in two.
LEMMA Cut ==
  ASSUME NEW S, NEW s \in Seq(S), NEW n \in 0..Len(s)
  PROVE  /\ SubSeq(s, 1, n) \in Seq(S) /\ SubSeq(s, n + 1, Len(s)) \in Seq(S)
         /\ SubSeq(s, 1, n) \o SubSeq(s, n + 1, Len(s)) = s
         /\ Len(SubSeq(s, 1, n)) = n /\ Len(SubSeq(s, n + 1, Len(s))) = Len(s) - n
<1>1. Len(s) \in Nat /\ n \in Nat /\ \A i \in 1..Len(s) : s[i] \in S
  BY LenProperties, ElementOfSeq
<1>2. SubSeq(s, 1, n) \in Seq(S) /\ Len(SubSeq(s, 1, n)) = n
  <2>1. 1 \in Int /\ n \in Int /\ \A i \in 1..n : s[i] \in S
    BY <1>1
  <2> QED BY <1>1, <2>1, SubSeqProperties
<1>3. SubSeq(s, n + 1, Len(s)) \in Seq(S) /\ Len(SubSeq(s, n + 1, Len(s))) = Len(s) - n
  <2>1. n + 1 \in Int /\ Len(s) \in Int /\ \A i \in n + 1..Len(s) : s[i] \in S
    BY <1>1
  <2> QED BY <1>1, <2>1, SubSeqProperties
<1>4. 1 \in 1..Len(s) + 1 /\ n \in 1 - 1..Len(s) /\ Len(s) \in n..Len(s)
  BY <1>1
<1>5. SubSeq(s, 1, n) \o SubSeq(s, n + 1, Len(s)) = SubSeq(s, 1, Len(s))
  BY <1>4, ConcatAdjacentSubSeq
<1> QED BY <1>2, <1>3, <1>5, SubSeqFull

\* A list of calls without its first one.
LEMMA WithinTail ==
  ASSUME NEW ops, NEW s \in Seq(Calling), s # <<>>
  PROVE  Within(ops, s) <=> Head(s).op \in ops \/ Within(ops, Tail(s))
<1>1. /\ Len(s) \in Nat /\ Len(s) >= 1 /\ DOMAIN s = 1..Len(s) /\ Head(s) = s[1]
      /\ Tail(s) \in Seq(Calling) /\ Len(Tail(s)) = Len(s) - 1 /\ DOMAIN Tail(s) = 1..Len(s) - 1
      /\ \A i \in 1..Len(s) - 1 : Tail(s)[i] = s[i + 1]
  BY HeadTailProperties, LenProperties, EmptySeq
<1>2. ASSUME NEW i \in 1..Len(s), s[i].op \in ops PROVE Head(s).op \in ops \/ Within(ops, Tail(s))
  <2>1. CASE i = 1
    BY <1>1, <1>2, <2>1
  <2>2. CASE i # 1
    <3>1. i - 1 \in 1..Len(s) - 1 /\ (i - 1) + 1 = i
      BY <1>1, <2>2
    <3> QED BY <1>1, <1>2, <3>1 DEF Within
  <2> QED BY <2>1, <2>2
<1>3. ASSUME NEW i \in 1..Len(s) - 1, Tail(s)[i].op \in ops PROVE Within(ops, s)
  <2>1. i + 1 \in 1..Len(s)
    BY <1>1
  <2> QED BY <1>1, <1>3, <2>1 DEF Within
<1>4. Head(s).op \in ops => Within(ops, s)
  <2>1. 1 \in 1..Len(s)
    BY <1>1
  <2> QED BY <1>1, <2>1 DEF Within
<1> QED BY <1>1, <1>2, <1>3, <1>4 DEF Within

LEMMA OnlyTail ==
  ASSUME NEW ops, NEW s \in Seq(Calling), s # <<>>, Only(ops, s)
  PROVE  Head(s).op \in ops /\ Only(ops, Tail(s))
<1>1. /\ Len(s) \in Nat /\ Len(s) >= 1 /\ DOMAIN s = 1..Len(s) /\ Head(s) = s[1]
      /\ DOMAIN Tail(s) = 1..Len(s) - 1 /\ \A i \in 1..Len(s) - 1 : Tail(s)[i] = s[i + 1]
  BY HeadTailProperties, LenProperties, EmptySeq
<1>2. 1 \in 1..Len(s) /\ \A i \in 1..Len(s) - 1 : i + 1 \in 1..Len(s)
  BY <1>1
<1> QED BY <1>1, <1>2 DEF Only

LEMMA OrderedTail ==
  ASSUME NEW s \in Seq(Calling), s # <<>>, Ordered(s)
  PROVE  /\ Ordered(Tail(s))
         /\ Tail(s) = <<>> => Head(s).op \in LastMsgs
         /\ Tail(s) # <<>> => Head(Tail(s)).op \in Behind(Head(s).op)
         /\ Head(s).op \notin {"Stop", "DeferDecryption"}
         /\ Head(s).op = "PushOutgoing" => Head(s).msg.typ # "none"
<1>1. /\ Len(s) \in Nat /\ Len(s) >= 1 /\ DOMAIN s = 1..Len(s) /\ Head(s) = s[1]
      /\ Tail(s) \in Seq(Calling) /\ Len(Tail(s)) = Len(s) - 1 /\ DOMAIN Tail(s) = 1..Len(s) - 1
      /\ \A i \in 1..Len(s) - 1 : Tail(s)[i] = s[i + 1]
  BY HeadTailProperties, LenProperties, EmptySeq
<1>0. /\ Tail(s) # <<>> => Len(Tail(s)) >= 1 /\ Head(Tail(s)) = Tail(s)[1]
      /\ Tail(s) = <<>> => Len(Tail(s)) = 0
  <2>1. PICK u : u = Tail(s)
    OBVIOUS
  <2>2. u \in Seq(Calling)
    BY <1>1, <2>1
  <2>3. (u # <<>> => Len(u) >= 1 /\ Head(u) = u[1]) /\ (u = <<>> => Len(u) = 0)
    BY <2>2, EmptySeq
  <2> QED BY <2>1, <2>3
<1> DEFINE t == Tail(s)
<1> HIDE DEF t
<1>2. /\ \A i \in 1..Len(s) - 1 : s[i + 1].op \in Behind(s[i].op)
      /\ s[Len(s)].op \in LastMsgs
      /\ \A i \in 1..Len(s) : Askable(s[i])
  BY <1>1 DEF Ordered
<1>3. ASSUME NEW i \in 1..Len(t) - 1 PROVE t[i + 1].op \in Behind(t[i].op)
  <2>1. i \in 1..Len(s) - 1 /\ i + 1 \in 1..Len(s) - 1
    BY <1>1 DEF t
  <2>2. t[i] = s[i + 1] /\ t[i + 1] = s[(i + 1) + 1]
    BY <1>0, <1>1, <2>1 DEF t
  <2> QED BY <1>2, <2>1, <2>2
<1>4. t # <<>> => t[Len(t)].op \in LastMsgs
  <2>1. SUFFICES ASSUME t # <<>> PROVE t[Len(t)] = s[Len(s)]
    BY <1>2
  <2>2. Len(t) \in 1..Len(s) - 1 /\ Len(t) + 1 = Len(s)
    BY <1>0, <1>1, <2>1 DEF t
  <2>3. t[Len(t)] = s[Len(t) + 1]
    BY <1>1, <2>2 DEF t
  <2> QED BY <2>2, <2>3
<1>5. \A i \in DOMAIN t : Askable(t[i])
  <2>1. ASSUME NEW i \in 1..Len(s) - 1 PROVE i + 1 \in 1..Len(s)
    BY <1>1
  <2> QED BY <1>1, <1>2, <2>1 DEF t
<1>6. Ordered(t)
  BY <1>3, <1>4, <1>5 DEF Ordered
<1>7. t = <<>> => Head(s).op \in LastMsgs
  <2>1. SUFFICES ASSUME t = <<>> PROVE Len(s) = 1
    BY <1>1, <1>2
  <2> QED BY <1>0, <1>1, <2>1 DEF t
<1>8. t # <<>> => Head(t).op \in Behind(Head(s).op)
  <2>1. SUFFICES ASSUME t # <<>> PROVE Head(t).op \in Behind(Head(s).op)
    OBVIOUS
  <2>2. 1 \in 1..Len(s) - 1
    BY <1>0, <1>1, <2>1 DEF t
  <2>3. Head(t) = s[1 + 1]
    BY <1>0, <1>1, <2>1, <2>2 DEF t
  <2> QED BY <1>1, <1>2, <2>2, <2>3
<1>9. 1 \in 1..Len(s)
  BY <1>1
<1> QED BY <1>1, <1>2, <1>6, <1>7, <1>8, <1>9 DEF t, Askable

\* A call put in front of a list.
LEMMA OrderedCons ==
  ASSUME NEW s \in Seq(Calling), NEW c \in Calling, Ordered(s), c.op \notin {"Stop", "DeferDecryption"},
         c.op = "PushOutgoing" => c.msg.typ # "none",
         IF s = <<>> THEN c.op \in LastMsgs ELSE Head(s).op \in Behind(c.op)
  PROVE  Ordered(<<c>> \o s)
<1> DEFINE t == <<c>> \o s
<1>1. /\ Len(s) \in Nat /\ DOMAIN s = 1..Len(s) /\ s # <<>> => Head(s) = s[1] /\ Len(s) >= 1
      /\ t \in Seq(Calling) /\ Len(t) = Len(s) + 1 /\ DOMAIN t = 1..Len(s) + 1 /\ t[1] = c
      /\ \A i \in 1..Len(s) : t[i + 1] = s[i]
      /\ s = <<>> => Len(s) = 0
  BY LenProperties, EmptySeq
<1> HIDE DEF t
<1>2. ASSUME NEW i \in 1..Len(t) - 1 PROVE t[i + 1].op \in Behind(t[i].op)
  <2>1. i \in 1..Len(s)
    BY <1>1
  <2>2. CASE i = 1
    <3>1. s # <<>> /\ t[1 + 1] = s[1] /\ t[1] = c
      BY <1>1, <2>1, <2>2
    <3> QED BY <1>1, <2>2, <3>1
  <2>3. CASE i # 1
    <3>1. i - 1 \in 1..Len(s) - 1 /\ i - 1 \in 1..Len(s) /\ (i - 1) + 1 = i
      BY <1>1, <2>1, <2>3
    <3>2. t[i] = s[i - 1] /\ t[i + 1] = s[i]
      BY <1>1, <2>1, <3>1
    <3>3. s[(i - 1) + 1].op \in Behind(s[i - 1].op)
      BY <3>1 DEF Ordered
    <3> QED BY <3>1, <3>2, <3>3
  <2> QED BY <2>2, <2>3
<1>3. t[Len(t)].op \in LastMsgs
  <2>1. CASE s = <<>>
    <3>1. Len(t) = 1
      BY <1>1, <2>1
    <3> QED BY <1>1, <2>1, <3>1
  <2>2. CASE s # <<>>
    <3>1. Len(s) \in 1..Len(s) /\ Len(t) = Len(s) + 1
      BY <1>1, <2>2
    <3> QED BY <1>1, <2>2, <3>1 DEF Ordered
  <2> QED BY <2>1, <2>2
<1>4. ASSUME NEW i \in DOMAIN t PROVE Askable(t[i])
  <2>1. CASE i = 1
    BY <1>1, <2>1 DEF Askable
  <2>2. CASE i # 1
    <3>1. i - 1 \in 1..Len(s) /\ (i - 1) + 1 = i
      BY <1>1, <2>2
    <3> QED BY <1>1, <3>1 DEF Ordered
  <2> QED BY <2>1, <2>2
<1>5. Ordered(t)
  BY <1>2, <1>3, <1>4 DEF Ordered
<1> QED BY <1>5 DEF t

-----------------------------------------------------------------------------
\* The records that a list of calls pushes.

LEMMA PushedSeq ==
  ASSUME NEW op, NEW s \in Seq(Calling)
  PROVE  Pushed(op, s) \in Seq(Record) /\ Len(Pushed(op, s)) = Len(s)
<1>1. Len(s) \in Nat /\ DOMAIN s = 1..Len(s) /\ \A i \in 1..Len(s) : s[i] \in Calling
  BY LenProperties, ElementOfSeq
<1>2. NoRec \in Record
  BY DEF NoRec, Rec, Record
<1>3. Pushed(op, s) \in [1..Len(s) -> Record]
  BY <1>1, <1>2 DEF Pushed, Calling
<1> QED BY <1>1, <1>3

LEMMA PushedTail ==
  ASSUME NEW op, NEW s \in Seq(Calling), s # <<>>
  PROVE  /\ Pushed(op, s) # <<>>
         /\ Head(Pushed(op, s)) = IF Head(s).op = op THEN Head(s).msg ELSE NoRec
         /\ Tail(Pushed(op, s)) = Pushed(op, Tail(s))
<1>1. /\ Len(s) \in Nat /\ Len(s) >= 1 /\ DOMAIN s = 1..Len(s) /\ Head(s) = s[1]
      /\ Tail(s) \in Seq(Calling) /\ Len(Tail(s)) = Len(s) - 1 /\ DOMAIN Tail(s) = 1..Len(s) - 1
      /\ \A i \in 1..Len(s) - 1 : Tail(s)[i] = s[i + 1]
  BY HeadTailProperties, LenProperties, EmptySeq
<1>2. PICK p, q : p = Pushed(op, s) /\ q = Pushed(op, Tail(s))
  OBVIOUS
<1>3. p \in Seq(Record) /\ Len(p) = Len(s) /\ q \in Seq(Record) /\ Len(q) = Len(s) - 1
  BY <1>1, <1>2, PushedSeq
<1>4. \A i \in 1..Len(s) : p[i] = IF s[i].op = op THEN s[i].msg ELSE NoRec
  BY <1>1, <1>2 DEF Pushed
<1>5. \A i \in 1..Len(s) - 1 : q[i] = IF s[i + 1].op = op THEN s[i + 1].msg ELSE NoRec
  BY <1>1, <1>2 DEF Pushed
<1>6. p # <<>> /\ Head(p) = p[1]
  BY <1>1, <1>3, EmptySeq
<1>7. Tail(p) \in Seq(Record) /\ Len(Tail(p)) = Len(s) - 1 /\ \A i \in 1..Len(s) - 1 : Tail(p)[i] = p[i + 1]
  BY <1>3, <1>6, HeadTailProperties
<1>8. \A i \in 1..Len(s) - 1 : i + 1 \in 1..Len(s)
  BY <1>1
<1>9. \A i \in 1..Len(q) : q[i] = Tail(p)[i]
  BY <1>3, <1>4, <1>5, <1>7, <1>8
<1>10. q = Tail(p)
  BY <1>3, <1>7, <1>9, SeqEqual
<1>11. 1 \in 1..Len(s)
  BY <1>1
<1> QED BY <1>1, <1>2, <1>4, <1>6, <1>10, <1>11

LEMMA PushedConcat ==
  ASSUME NEW op, NEW s \in Seq(Calling), NEW t \in Seq(Calling)
  PROVE  Pushed(op, s \o t) = Pushed(op, s) \o Pushed(op, t)
<1>1. PICK p, q, r : p = Pushed(op, s) /\ q = Pushed(op, t) /\ r = Pushed(op, s \o t)
  OBVIOUS
<1>2. /\ Len(s) \in Nat /\ Len(t) \in Nat /\ DOMAIN s = 1..Len(s) /\ DOMAIN t = 1..Len(t)
      /\ s \o t \in Seq(Calling) /\ Len(s \o t) = Len(s) + Len(t)
      /\ DOMAIN (s \o t) = 1..(Len(s) + Len(t))
      /\ \A i \in 1..(Len(s) + Len(t)) : (s \o t)[i] = IF i <= Len(s) THEN s[i] ELSE t[i - Len(s)]
  BY LenProperties, ConcatProperties
<1>3. /\ p \in Seq(Record) /\ Len(p) = Len(s) /\ q \in Seq(Record) /\ Len(q) = Len(t)
      /\ r \in Seq(Record) /\ Len(r) = Len(s) + Len(t)
  BY <1>1, <1>2, PushedSeq
<1>4. /\ \A i \in 1..Len(s) : p[i] = IF s[i].op = op THEN s[i].msg ELSE NoRec
      /\ \A i \in 1..Len(t) : q[i] = IF t[i].op = op THEN t[i].msg ELSE NoRec
      /\ \A i \in 1..(Len(s) + Len(t)) : r[i] = IF (s \o t)[i].op = op THEN (s \o t)[i].msg ELSE NoRec
  BY <1>1, <1>2 DEF Pushed
<1>5. /\ p \o q \in Seq(Record) /\ Len(p \o q) = Len(s) + Len(t)
      /\ \A i \in 1..(Len(s) + Len(t)) : (p \o q)[i] = IF i <= Len(s) THEN p[i] ELSE q[i - Len(s)]
  <2>1. p \in Seq(Record) /\ q \in Seq(Record)
    BY <1>3
  <2>2. /\ p \o q \in Seq(Record) /\ Len(p \o q) = Len(p) + Len(q)
        /\ \A i \in 1..(Len(p) + Len(q)) : (p \o q)[i] = IF i <= Len(p) THEN p[i] ELSE q[i - Len(p)]
    BY <2>1, ConcatProperties, Zenon
  <2>3. Len(p) = Len(s) /\ Len(q) = Len(t)
    BY <1>3
  <2> QED BY <2>2, <2>3
<1>6. ASSUME NEW i \in 1..(Len(s) + Len(t)) PROVE r[i] = (p \o q)[i]
  <2>1. CASE i <= Len(s)
    <3>1. i \in 1..Len(s)
      BY <1>2, <2>1
    <3> QED BY <1>2, <1>4, <1>5, <2>1, <3>1
  <2>2. CASE ~(i <= Len(s))
    <3>1. i - Len(s) \in 1..Len(t)
      BY <1>2, <2>2
    <3> QED BY <1>2, <1>4, <1>5, <2>2, <3>1
  <2> QED BY <2>1, <2>2
<1>7. r = p \o q
  BY <1>3, <1>5, <1>6, SeqEqual
<1> QED BY <1>1, <1>7

LEMMA PushedNone ==
  ASSUME NEW op, NEW s \in Seq(Calling), ~Within({op}, s)
  PROVE  DataOf(Pushed(op, s)) = <<>> /\ \A typ : typ # "none" => ~Has(typ, Pushed(op, s))
<1>1. \A i \in DOMAIN s : Pushed(op, s)[i] = NoRec
  BY DEF Pushed, Within
<1>2. DOMAIN Pushed(op, s) = DOMAIN s
  BY DEF Pushed
<1>3. ASSUME NEW typ, typ # "none" PROVE ~Has(typ, Pushed(op, s))
  BY <1>1, <1>2, <1>3 DEF Has, NoRec, Rec
<1>4. NoData(Pushed(op, s))
  BY <1>3 DEF NoData
<1> QED BY <1>3, <1>4, PushedSeq, DataNone

\* What is left of them when the first call is taken off.
LEMMA PushedNext ==
  ASSUME NEW op, NEW s \in Seq(Calling), s # <<>>
  PROVE  /\ \A typ : typ # "none" =>
              (Has(typ, Pushed(op, s)) <=> (Head(s).op = op /\ Head(s).msg.typ = typ) \/ Has(typ, Pushed(op, Tail(s))))
         /\ DataOf(Pushed(op, s)) =
              (IF Head(s).op = op /\ IsData(Head(s).msg) THEN <<Head(s).msg>> ELSE <<>>) \o DataOf(Pushed(op, Tail(s)))
<1>1. PICK p : p = Pushed(op, s)
  OBVIOUS
<1>2. p \in Seq(Record)
  BY <1>1, PushedSeq
<1>3. p # <<>> /\ Head(p) = (IF Head(s).op = op THEN Head(s).msg ELSE NoRec) /\ Tail(p) = Pushed(op, Tail(s))
  BY <1>1, PushedTail
<1>4. \A typ : Has(typ, p) <=> Head(p).typ = typ \/ Has(typ, Tail(p))
  BY <1>2, <1>3, HasTail
<1>5. DataOf(p) = (IF IsData(Head(p)) THEN <<Head(p)>> ELSE <<>>) \o DataOf(Tail(p))
  BY <1>2, <1>3, DataHead
<1>6. NoRec.typ = "none" /\ ~IsData(NoRec)
  BY DEF NoRec, Rec, IsData
<1>7. (IF IsData(Head(p)) THEN <<Head(p)>> ELSE <<>>)
        = (IF Head(s).op = op /\ IsData(Head(s).msg) THEN <<Head(s).msg>> ELSE <<>>)
  BY <1>3, <1>6
<1> QED BY <1>1, <1>3, <1>4, <1>5, <1>6, <1>7

-----------------------------------------------------------------------------
\* The calls with which each branch of the loop begins.

LEMMA OnlyWithin ==
  ASSUME NEW a, NEW b, NEW s, Only(a, s), a \intersect b = {}
  PROVE  ~Within(b, s)
BY DEF Only, Within

LEMMA CallType ==
  /\ \A op \in MpcTlsLeaderMsg \union {"Refused"} : Call(op) \in Calling
  /\ \A op \in MpcTlsLeaderMsg, r \in Record : Push(op, r) \in Calling
  /\ \A op : Call(op).op = op /\ Call(op).msg = NoRec
  /\ \A op, r : Push(op, r).op = op /\ Push(op, r).msg = r
BY DEF Call, Push, Calling, NoRec, Rec, Record

\* One call put in front of a list.
LEMMA Cons ==
  ASSUME NEW s \in Seq(Calling), NEW c \in Calling
  PROVE  /\ <<c>> \o s \in Seq(Calling) /\ <<c>> \o s # <<>>
         /\ Head(<<c>> \o s) = c /\ Tail(<<c>> \o s) = s
         /\ \A ops : Only(ops, <<c>> \o s) <=> c.op \in ops /\ Only(ops, s)
<1>1. PICK t : t = <<c>> \o s
  OBVIOUS
<1>2. t \in Seq(Calling) /\ t # <<>> /\ Head(t) = c /\ Tail(t) = s
  BY <1>1
<1>3. /\ Len(s) \in Nat /\ DOMAIN s = 1..Len(s) /\ DOMAIN t = 1..Len(s) + 1 /\ t[1] = c
      /\ \A i \in 1..Len(s) : t[i + 1] = s[i] /\ i + 1 \in 1..Len(s) + 1
      /\ \A i \in 1..Len(s) + 1 : i # 1 => i - 1 \in 1..Len(s) /\ (i - 1) + 1 = i
      /\ 1 \in 1..Len(s) + 1
  BY <1>1, LenProperties
<1>4. ASSUME NEW ops PROVE Only(ops, t) <=> c.op \in ops /\ Only(ops, s)
  <2>1. ASSUME Only(ops, t) PROVE c.op \in ops /\ Only(ops, s)
    BY <1>3, <2>1 DEF Only
  <2>2. ASSUME c.op \in ops, Only(ops, s) PROVE Only(ops, t)
    <3>1. SUFFICES ASSUME NEW i \in 1..Len(s) + 1 PROVE t[i].op \in ops
      BY <1>3 DEF Only
    <3>2. CASE i = 1
      BY <1>3, <2>2, <3>2
    <3>3. CASE i # 1
      <4>1. i - 1 \in DOMAIN s /\ t[(i - 1) + 1] = s[i - 1] /\ (i - 1) + 1 = i
        BY <1>3, <3>3
      <4> QED BY <2>2, <4>1 DEF Only
    <3> QED BY <3>2, <3>3
  <2> QED BY <2>1, <2>2
<1> QED BY <1>1, <1>2, <1>4

LEMMA EmptyPlan == <<>> \in Seq(Calling) /\ Ordered(<<>>) /\ \A ops : Only(ops, <<>>)
BY DEF Ordered, Only

LEMMA StartPlan ==
  StartCalls \in Seq(Calling) /\ Ordered(StartCalls) /\ StartCalls # <<>> /\ Only(StartMsgs, StartCalls)
<1>1. StartCalls = <<Call("GetClientKeyShare")>> \o (<<Call("GetClientRandom")>> \o (<<Call("GetNotify")>> \o <<>>))
  BY DEF StartCalls, Calls
<1>2. PICK c1, c2, c3 :
        c1 = Call("GetClientKeyShare") /\ c2 = Call("GetClientRandom") /\ c3 = Call("GetNotify")
  OBVIOUS
<1>3. /\ c1 \in Calling /\ c2 \in Calling /\ c3 \in Calling
      /\ c1.op = "GetClientKeyShare" /\ c2.op = "GetClientRandom" /\ c3.op = "GetNotify"
  BY <1>2, CallType DEF MpcTlsLeaderMsg, HelloMsgs, StateMsgs
<1>4. PICK s3 : s3 = <<c3>> \o <<>>
  OBVIOUS
<1>5. s3 \in Seq(Calling) /\ s3 # <<>> /\ Head(s3) = c3 /\ \A ops : Only(ops, s3) <=> c3.op \in ops
  BY <1>3, <1>4, EmptyPlan, Cons
<1>6. Ordered(s3)
  BY <1>3, <1>4, EmptyPlan, OrderedCons DEF LastMsgs
<1>7. PICK s2 : s2 = <<c2>> \o s3
  OBVIOUS
<1>8. s2 \in Seq(Calling) /\ s2 # <<>> /\ Head(s2) = c2 /\ \A ops : Only(ops, s2) <=> c2.op \in ops /\ c3.op \in ops
  BY <1>3, <1>5, <1>7, Cons
<1>9. Ordered(s2)
  BY <1>3, <1>5, <1>6, <1>7, OrderedCons DEF Behind
<1>10. PICK s1 : s1 = <<c1>> \o s2
  OBVIOUS
<1>11. s1 \in Seq(Calling) /\ s1 # <<>> /\ \A ops : Only(ops, s1) <=> c1.op \in ops /\ c2.op \in ops /\ c3.op \in ops
  BY <1>3, <1>8, <1>10, Cons
<1>12. Ordered(s1)
  BY <1>3, <1>8, <1>9, <1>10, OrderedCons DEF Behind
<1> QED BY <1>1, <1>2, <1>3, <1>4, <1>7, <1>10, <1>11, <1>12 DEF StartMsgs

DrainMsgs == {"Flush", "NextIncoming", "NextOutgoing"}

\* Draining, with the end of the stream behind it or not.
LEMMA DrainPlan ==
  ASSUME NEW e \in {<<>>, <<Call("ServerClosed")>>}
  PROVE  /\ DrainCalls \o e \in Seq(Calling) /\ Ordered(DrainCalls \o e) /\ DrainCalls \o e # <<>>
         /\ Head(DrainCalls \o e).op = "Flush" /\ Within({"NextIncoming"}, DrainCalls \o e)
         /\ e = <<>> => Only(DrainMsgs, DrainCalls \o e)
         /\ e # <<>> => Only(DrainMsgs \union {"ServerClosed"}, DrainCalls \o e) /\ Within({"ServerClosed"}, DrainCalls \o e)
<1>1. PICK c1, c2, c3, c4 :
        c1 = Call("Flush") /\ c2 = Call("NextIncoming") /\ c3 = Call("NextOutgoing") /\ c4 = Call("ServerClosed")
  OBVIOUS
<1>2. /\ c1 \in Calling /\ c2 \in Calling /\ c3 \in Calling /\ c4 \in Calling
      /\ c1.op = "Flush" /\ c2.op = "NextIncoming" /\ c3.op = "NextOutgoing" /\ c4.op = "ServerClosed"
  BY <1>1, CallType DEF MpcTlsLeaderMsg, RecordMsgs, StateMsgs
<1>3. PICK s4 : s4 = IF e = <<>> THEN <<>> ELSE <<c4>>
  OBVIOUS
<1>4. <<c4>> = <<c4>> \o <<>>
  OBVIOUS
<1>5. /\ s4 \in Seq(Calling) /\ Ordered(s4)
      /\ s4 = <<>> \/ Head(s4) = c4
      /\ \A ops : (e = <<>> \/ c4.op \in ops) => Only(ops, s4)
      /\ e # <<>> => s4 # <<>> /\ Head(s4) = c4
  BY <1>2, <1>3, <1>4, EmptyPlan, Cons, OrderedCons DEF LastMsgs
<1>6. PICK s3 : s3 = <<c3>> \o s4
  OBVIOUS
<1>7. s3 \in Seq(Calling) /\ s3 # <<>> /\ Head(s3) = c3 /\ Tail(s3) = s4 /\ \A ops : Only(ops, s3) <=> c3.op \in ops /\ Only(ops, s4)
  BY <1>2, <1>5, <1>6, Cons
<1>8. Ordered(s3)
  BY <1>2, <1>5, <1>6, OrderedCons DEF Behind, LastMsgs
<1>9. PICK s2 : s2 = <<c2>> \o s3
  OBVIOUS
<1>10. s2 \in Seq(Calling) /\ s2 # <<>> /\ Head(s2) = c2 /\ Tail(s2) = s3 /\ \A ops : Only(ops, s2) <=> c2.op \in ops /\ Only(ops, s3)
  BY <1>2, <1>7, <1>9, Cons
<1>11. Ordered(s2)
  BY <1>2, <1>7, <1>8, <1>9, OrderedCons DEF Behind
<1>12. PICK s1 : s1 = <<c1>> \o s2
  OBVIOUS
<1>13. s1 \in Seq(Calling) /\ s1 # <<>> /\ Head(s1) = c1 /\ Tail(s1) = s2 /\ \A ops : Only(ops, s1) <=> c1.op \in ops /\ Only(ops, s2)
  BY <1>2, <1>10, <1>12, Cons
<1>14. Ordered(s1)
  BY <1>2, <1>10, <1>11, <1>12, OrderedCons DEF Behind
<1>15. DrainCalls = <<c1, c2, c3>>
  BY <1>1 DEF DrainCalls, Calls
<1>16. s1 = DrainCalls \o e
  <2>1. CASE e = <<>>
    <3>1. s1 = <<c1>> \o (<<c2>> \o (<<c3>> \o <<>>))
      BY <1>3, <1>6, <1>9, <1>12, <2>1
    <3> QED BY <1>2, <1>15, <2>1, <3>1
  <2>2. CASE e # <<>>
    <3>1. s1 = <<c1>> \o (<<c2>> \o (<<c3>> \o <<c4>>)) /\ e = <<c4>>
      BY <1>1, <1>3, <1>6, <1>9, <1>12, <2>2
    <3> QED BY <1>2, <1>15, <3>1
  <2> QED BY <2>1, <2>2
<1>17. e # <<>> => Within({"ServerClosed"}, s1)
  <2>1. SUFFICES ASSUME e # <<>> PROVE Within({"ServerClosed"}, s1)
    OBVIOUS
  <2>2. Within({"ServerClosed"}, s4)
    BY <1>2, <1>5, <2>1, WithinTail
  <2>3. Within({"ServerClosed"}, s3)
    BY <1>5, <1>7, <2>2, WithinTail
  <2>4. Within({"ServerClosed"}, s2)
    BY <1>7, <1>10, <2>3, WithinTail
  <2> QED BY <1>10, <1>13, <2>4, WithinTail
<1>18. (e = <<>> => Only(DrainMsgs, s1)) /\ (e # <<>> => Only(DrainMsgs \union {"ServerClosed"}, s1))
  BY <1>2, <1>5, <1>7, <1>10, <1>13 DEF DrainMsgs
<1>19. Within({"NextIncoming"}, s1)
  <2>1. Within({"NextIncoming"}, s2)
    BY <1>2, <1>10, WithinTail
  <2> QED BY <1>13, <2>1, WithinTail
<1> QED BY <1>2, <1>13, <1>14, <1>16, <1>17, <1>18, <1>19

LEMMA OneInFront ==
  ASSUME NEW t \in Seq(Calling), t # <<>>, NEW s \in Seq(Calling)
  PROVE  t \o s = <<Head(t)>> \o (Tail(t) \o s)
<1>1. Head(t) \in Calling /\ Tail(t) \in Seq(Calling) /\ <<Head(t)>> \in Seq(Calling)
  BY HeadTailProperties
<1>2. t = <<Head(t)>> \o Tail(t)
  OBVIOUS
<1> QED BY <1>1, <1>2, ConcatAssociative

LEMMA Shorter ==
  ASSUME NEW t \in Seq(Calling), Len(t) >= 1, NEW s \in Seq(Calling)
  PROVE  /\ Tail(t) \in Seq(Calling) /\ Len(Tail(t)) = Len(t) - 1
         /\ \A i \in 1..Len(t) - 1 : Tail(t)[i] = t[i + 1]
         /\ t \o s = <<t[1]>> \o (Tail(t) \o s)
<1>1. t # <<>> /\ Head(t) = t[1]
  BY EmptySeq
<1>2. t \o s = <<Head(t)>> \o (Tail(t) \o s)
  BY <1>1, OneInFront
<1> QED BY <1>1, <1>2, HeadTailProperties

LEMMA FiveInFront ==
  ASSUME NEW t \in Seq(Calling), Len(t) = 5, NEW s \in Seq(Calling)
  PROVE  t \o s = <<t[1]>> \o (<<t[2]>> \o (<<t[3]>> \o (<<t[4]>> \o (<<t[5]>> \o s))))
<1>1. PICK t2, t3, t4, t5 : t2 = Tail(t) /\ t3 = Tail(t2) /\ t4 = Tail(t3) /\ t5 = Tail(t4)
  OBVIOUS
<1>2. t2 \in Seq(Calling) /\ Len(t2) = 4 /\ t \o s = <<t[1]>> \o (t2 \o s) /\ t2[1] = t[2] /\ t2[2] = t[3] /\ t2[3] = t[4] /\ t2[4] = t[5]
  <2>1. t \in Seq(Calling) /\ Len(t) = 5 /\ Len(t) >= 1
    BY LenProperties
  <2>2. /\ t2 \in Seq(Calling) /\ Len(t2) = Len(t) - 1 /\ t \o s = <<t[1]>> \o (t2 \o s)
        /\ \A i \in 1..Len(t) - 1 : t2[i] = t[i + 1]
    BY <1>1, <2>1, Shorter
  <2>3. Len(t2) = 4 /\ t2[1] = t[2] /\ t2[2] = t[3] /\ t2[3] = t[4] /\ t2[4] = t[5]
    BY <2>1, <2>2
  <2> QED BY <2>2, <2>3
<1>3. t3 \in Seq(Calling) /\ Len(t3) = 3 /\ t2 \o s = <<t[2]>> \o (t3 \o s) /\ t3[1] = t[3] /\ t3[2] = t[4] /\ t3[3] = t[5]
  <2>1. t2 \in Seq(Calling) /\ Len(t2) = 4 /\ Len(t2) >= 1
    BY <1>2
  <2>2. /\ t3 \in Seq(Calling) /\ Len(t3) = Len(t2) - 1 /\ t2 \o s = <<t2[1]>> \o (t3 \o s)
        /\ \A i \in 1..Len(t2) - 1 : t3[i] = t2[i + 1]
    BY <1>1, <2>1, Shorter
  <2>3. Len(t3) = 3 /\ t3[1] = t2[2] /\ t3[2] = t2[3] /\ t3[3] = t2[4]
    BY <2>1, <2>2
  <2> QED BY <2>2, <2>3, <1>2
<1>4. t4 \in Seq(Calling) /\ Len(t4) = 2 /\ t3 \o s = <<t[3]>> \o (t4 \o s) /\ t4[1] = t[4] /\ t4[2] = t[5]
  <2>1. t3 \in Seq(Calling) /\ Len(t3) = 3 /\ Len(t3) >= 1
    BY <1>3
  <2>2. /\ t4 \in Seq(Calling) /\ Len(t4) = Len(t3) - 1 /\ t3 \o s = <<t3[1]>> \o (t4 \o s)
        /\ \A i \in 1..Len(t3) - 1 : t4[i] = t3[i + 1]
    BY <1>1, <2>1, Shorter
  <2>3. Len(t4) = 2 /\ t4[1] = t3[2] /\ t4[2] = t3[3]
    BY <2>1, <2>2
  <2> QED BY <2>2, <2>3, <1>3
<1>5. t5 \in Seq(Calling) /\ Len(t5) = 1 /\ t4 \o s = <<t[4]>> \o (t5 \o s) /\ t5[1] = t[5]
  <2>1. t4 \in Seq(Calling) /\ Len(t4) = 2 /\ Len(t4) >= 1
    BY <1>4
  <2>2. /\ t5 \in Seq(Calling) /\ Len(t5) = Len(t4) - 1 /\ t4 \o s = <<t4[1]>> \o (t5 \o s)
        /\ \A i \in 1..Len(t4) - 1 : t5[i] = t4[i + 1]
    BY <1>1, <2>1, Shorter
  <2>3. Len(t5) = 1 /\ t5[1] = t4[2]
    BY <2>1, <2>2
  <2> QED BY <2>2, <2>3, <1>4
<1>6. t5 \o s = <<t[5]>> \o s
  <2>1. Len(t5) >= 1 /\ t5 \in Seq(Calling) /\ t5[1] = t[5] /\ Len(t5) = 1
    BY <1>5
  <2>2. Tail(t5) \in Seq(Calling) /\ Len(Tail(t5)) = Len(t5) - 1 /\ t5 \o s = <<t5[1]>> \o (Tail(t5) \o s)
    BY <2>1, Shorter
  <2>3. PICK u : u = Tail(t5)
    OBVIOUS
  <2>4. u \in Seq(Calling) /\ Len(u) = 0
    BY <2>1, <2>2, <2>3
  <2>5. u = <<>>
    BY <2>4
  <2> QED BY <2>1, <2>2, <2>3, <2>5, ConcatEmptySeq
<1> QED BY <1>2, <1>3, <1>4, <1>5, <1>6

\* The first flight is answered, and drained.
FlightPlan == FlightCalls \o (Pushes(<<>>) \o DrainCalls)
FlightOps == FlightMsgs \union {"GetClientKeyShare", "GetClientFinishedVd", "PushOutgoing"} \union DrainMsgs
LEMMA FlightPlanned ==
  /\ FlightPlan \in Seq(Calling) /\ Ordered(FlightPlan) /\ FlightPlan # <<>>
  /\ Head(FlightPlan).op = "SetProtocolVersion" /\ Only(FlightOps, FlightPlan)
  /\ NoData(Outgoing(FlightPlan)) /\ DataOf(Outgoing(FlightPlan)) = <<>> /\ Within({"NextIncoming"}, FlightPlan)
<1>1. PICK d : d = DrainCalls \o <<>>
  OBVIOUS
<1>2. /\ d \in Seq(Calling) /\ Ordered(d) /\ d # <<>> /\ Head(d).op = "Flush" /\ Only(DrainMsgs, d)
      /\ Within({"NextIncoming"}, d)
  BY <1>1, DrainPlan
<1>3. d = Pushes(<<>>) \o DrainCalls
  BY <1>1 DEF Pushes, DrainCalls, Calls
<1>4. PICK c1, c2, c3, c4, c5, c6, c7, c8, c9, c10, c11 :
        /\ c1 = Call("SetProtocolVersion") /\ c2 = Call("SetCipherSuite") /\ c3 = Call("SetServerRandom")
        /\ c4 = Call("SetServerCertDetails") /\ c5 = Call("GetClientKeyShare") /\ c6 = Call("SetHsHashClientKeyExchange")
        /\ c7 = Call("SetServerKxDetails") /\ c8 = Call("SetServerKeyShare") /\ c9 = Call("PrepareEncryption")
        /\ c10 = Call("GetClientFinishedVd")
        /\ c11 = Push("PushOutgoing", Rec("Finished", 0))
  OBVIOUS
<1>5. Rec("Finished", 0) \in Record
  BY DEF Rec, Record
<1>6. /\ c1 \in Calling /\ c1.op = "SetProtocolVersion"
      /\ c2 \in Calling /\ c2.op = "SetCipherSuite"
      /\ c3 \in Calling /\ c3.op = "SetServerRandom"
      /\ c4 \in Calling /\ c4.op = "SetServerCertDetails"
      /\ c5 \in Calling /\ c5.op = "GetClientKeyShare"
      /\ c6 \in Calling /\ c6.op = "SetHsHashClientKeyExchange"
      /\ c7 \in Calling /\ c7.op = "SetServerKxDetails"
      /\ c8 \in Calling /\ c8.op = "SetServerKeyShare"
      /\ c9 \in Calling /\ c9.op = "PrepareEncryption"
      /\ c10 \in Calling /\ c10.op = "GetClientFinishedVd"
      /\ c11 \in Calling /\ c11.op = "PushOutgoing" /\ c11.msg = Rec("Finished", 0)
  BY <1>4, <1>5, CallType DEF MpcTlsLeaderMsg, HelloMsgs, ServerMsgs, HashMsgs, RecordMsgs
<1>7. PICK s11 : s11 = <<c11>> \o d
  OBVIOUS
<1>8. s11 \in Seq(Calling) /\ s11 # <<>> /\ Head(s11) = c11 /\ Tail(s11) = d /\ \A ops : Only(ops, s11) <=> c11.op \in ops /\ Only(ops, d)
  BY <1>6, <1>2, <1>7, Cons
<1>9. Ordered(s11)
  <2>1. c11.msg.typ # "none"
    BY <1>6 DEF Rec, NoRec
  <2> QED BY <1>2, <1>6, <1>7, <2>1, OrderedCons DEF Behind
<1>10. PICK s10 : s10 = <<c10>> \o s11
  OBVIOUS
<1>11. s10 \in Seq(Calling) /\ s10 # <<>> /\ Head(s10) = c10 /\ Tail(s10) = s11 /\ \A ops : Only(ops, s10) <=> c10.op \in ops /\ Only(ops, s11)
  BY <1>6, <1>8, <1>10, Cons
<1>12. Ordered(s10)
  BY <1>6, <1>8, <1>9, <1>10, OrderedCons DEF Behind
<1>13. PICK s9 : s9 = <<c9>> \o s10
  OBVIOUS
<1>14. s9 \in Seq(Calling) /\ s9 # <<>> /\ Head(s9) = c9 /\ Tail(s9) = s10 /\ \A ops : Only(ops, s9) <=> c9.op \in ops /\ Only(ops, s10)
  BY <1>6, <1>11, <1>13, Cons
<1>15. Ordered(s9)
  BY <1>6, <1>11, <1>12, <1>13, OrderedCons DEF Behind
<1>16. PICK s8 : s8 = <<c8>> \o s9
  OBVIOUS
<1>17. s8 \in Seq(Calling) /\ s8 # <<>> /\ Head(s8) = c8 /\ Tail(s8) = s9 /\ \A ops : Only(ops, s8) <=> c8.op \in ops /\ Only(ops, s9)
  BY <1>6, <1>14, <1>16, Cons
<1>18. Ordered(s8)
  BY <1>6, <1>14, <1>15, <1>16, OrderedCons DEF Behind
<1>19. PICK s7 : s7 = <<c7>> \o s8
  OBVIOUS
<1>20. s7 \in Seq(Calling) /\ s7 # <<>> /\ Head(s7) = c7 /\ Tail(s7) = s8 /\ \A ops : Only(ops, s7) <=> c7.op \in ops /\ Only(ops, s8)
  BY <1>6, <1>17, <1>19, Cons
<1>21. Ordered(s7)
  BY <1>6, <1>17, <1>18, <1>19, OrderedCons DEF Behind
<1>22. PICK s6 : s6 = <<c6>> \o s7
  OBVIOUS
<1>23. s6 \in Seq(Calling) /\ s6 # <<>> /\ Head(s6) = c6 /\ Tail(s6) = s7 /\ \A ops : Only(ops, s6) <=> c6.op \in ops /\ Only(ops, s7)
  BY <1>6, <1>20, <1>22, Cons
<1>24. Ordered(s6)
  BY <1>6, <1>20, <1>21, <1>22, OrderedCons DEF Behind
<1>25. PICK s5 : s5 = <<c5>> \o s6
  OBVIOUS
<1>26. s5 \in Seq(Calling) /\ s5 # <<>> /\ Head(s5) = c5 /\ Tail(s5) = s6 /\ \A ops : Only(ops, s5) <=> c5.op \in ops /\ Only(ops, s6)
  BY <1>6, <1>23, <1>25, Cons
<1>27. Ordered(s5)
  BY <1>6, <1>23, <1>24, <1>25, OrderedCons DEF Behind
<1>28. PICK s4 : s4 = <<c4>> \o s5
  OBVIOUS
<1>29. s4 \in Seq(Calling) /\ s4 # <<>> /\ Head(s4) = c4 /\ Tail(s4) = s5 /\ \A ops : Only(ops, s4) <=> c4.op \in ops /\ Only(ops, s5)
  BY <1>6, <1>26, <1>28, Cons
<1>30. Ordered(s4)
  BY <1>6, <1>26, <1>27, <1>28, OrderedCons DEF Behind
<1>31. PICK s3 : s3 = <<c3>> \o s4
  OBVIOUS
<1>32. s3 \in Seq(Calling) /\ s3 # <<>> /\ Head(s3) = c3 /\ Tail(s3) = s4 /\ \A ops : Only(ops, s3) <=> c3.op \in ops /\ Only(ops, s4)
  BY <1>6, <1>29, <1>31, Cons
<1>33. Ordered(s3)
  BY <1>6, <1>29, <1>30, <1>31, OrderedCons DEF Behind
<1>34. PICK s2 : s2 = <<c2>> \o s3
  OBVIOUS
<1>35. s2 \in Seq(Calling) /\ s2 # <<>> /\ Head(s2) = c2 /\ Tail(s2) = s3 /\ \A ops : Only(ops, s2) <=> c2.op \in ops /\ Only(ops, s3)
  BY <1>6, <1>32, <1>34, Cons
<1>36. Ordered(s2)
  BY <1>6, <1>32, <1>33, <1>34, OrderedCons DEF Behind
<1>37. PICK s1 : s1 = <<c1>> \o s2
  OBVIOUS
<1>38. s1 \in Seq(Calling) /\ s1 # <<>> /\ Head(s1) = c1 /\ Tail(s1) = s2 /\ \A ops : Only(ops, s1) <=> c1.op \in ops /\ Only(ops, s2)
  BY <1>6, <1>35, <1>37, Cons
<1>39. Ordered(s1)
  BY <1>6, <1>35, <1>36, <1>37, OrderedCons DEF Behind
<1>40. s1 = FlightPlan
  <2>1. PICK t : t = <<c1, c2, c3, c4, c5, c6, c7, c8, c9, c10>>
    OBVIOUS
  <2>2. t \in Seq(Calling) /\ <<c11>> \in Seq(Calling)
    BY <1>6, <2>1
  <2>3. FlightCalls = t \o <<c11>>
    <3>1. t = Calls(<<"SetProtocolVersion", "SetCipherSuite", "SetServerRandom", "SetServerCertDetails",
                      "GetClientKeyShare", "SetHsHashClientKeyExchange", "SetServerKxDetails",
                      "SetServerKeyShare", "PrepareEncryption", "GetClientFinishedVd">>)
      BY <1>4, <2>1 DEF Calls
    <3> QED BY <1>4, <3>1 DEF FlightCalls
  <2>4. s1 = <<c1>> \o (<<c2>> \o (<<c3>> \o (<<c4>> \o (<<c5>> \o (<<c6>> \o (<<c7>> \o (<<c8>> \o (<<c9>> \o (<<c10>> \o s11)))))))))
    BY <1>37, <1>34, <1>31, <1>28, <1>25, <1>22, <1>19, <1>16, <1>13, <1>10
  <2>5. s1 = t \o s11
    <3>1. s11 \in Seq(Calling)
      BY <1>8
    <3>2. PICK t1, t2 : t1 = <<c1, c2, c3, c4, c5>> /\ t2 = <<c6, c7, c8, c9, c10>>
      OBVIOUS
    <3>3. t1 \in Seq(Calling) /\ t2 \in Seq(Calling) /\ Len(t1) = 5 /\ Len(t2) = 5 /\ t = t1 \o t2
      BY <1>6, <2>1, <3>2
    <3>4. t2 \o s11 = <<c6>> \o (<<c7>> \o (<<c8>> \o (<<c9>> \o (<<c10>> \o s11))))
      <4>1. t2 \o s11 = <<t2[1]>> \o (<<t2[2]>> \o (<<t2[3]>> \o (<<t2[4]>> \o (<<t2[5]>> \o s11))))
        BY <3>1, <3>3, FiveInFront
      <4>2. t2[1] = c6 /\ t2[2] = c7 /\ t2[3] = c8 /\ t2[4] = c9 /\ t2[5] = c10
        BY <3>2
      <4> QED BY <4>1, <4>2
    <3>5. PICK u : u = t2 \o s11
      OBVIOUS
    <3>6. u \in Seq(Calling)
      BY <3>1, <3>3, <3>5
    <3>7. t1 \o u = <<c1>> \o (<<c2>> \o (<<c3>> \o (<<c4>> \o (<<c5>> \o u))))
      <4>1. t1 \o u = <<t1[1]>> \o (<<t1[2]>> \o (<<t1[3]>> \o (<<t1[4]>> \o (<<t1[5]>> \o u))))
        BY <3>3, <3>6, FiveInFront
      <4>2. t1[1] = c1 /\ t1[2] = c2 /\ t1[3] = c3 /\ t1[4] = c4 /\ t1[5] = c5
        BY <3>2
      <4> QED BY <4>1, <4>2
    <3>8. t \o s11 = t1 \o u
      BY <3>1, <3>3, <3>5, ConcatAssociative
    <3> QED BY <2>4, <3>4, <3>5, <3>7, <3>8
  <2>6. s1 = (t \o <<c11>>) \o d
    BY <1>2, <1>7, <2>2, <2>5, ConcatAssociative
  <2> QED BY <1>3, <2>3, <2>6 DEF FlightPlan
<1>41. Only(FlightOps, s1)
  <2>1. Only(FlightOps, d)
    BY <1>2 DEF Only, FlightOps
  <2> QED BY <1>6, <2>1, <1>38, <1>35, <1>32, <1>29, <1>26, <1>23, <1>20, <1>17, <1>14, <1>11, <1>8 DEF FlightOps, FlightMsgs
<1>42. NoData(Outgoing(s1)) /\ DataOf(Outgoing(s1)) = <<>>
  <2>1. ~Has("ApplicationData", Pushed("PushOutgoing", d))
    <3>1. ~Within({"PushOutgoing"}, d)
      BY <1>2, OnlyWithin DEF DrainMsgs
    <3> QED BY <1>2, <3>1, PushedNone
  <2>2. ~Has("ApplicationData", Pushed("PushOutgoing", s11))
    <3>1. c11.msg.typ # "ApplicationData"
      BY <1>6 DEF Rec
    <3> QED BY <1>8, <2>1, <3>1, PushedNext
  <2>3. ~Has("ApplicationData", Pushed("PushOutgoing", s10))
    BY <1>6, <1>11, <2>2, PushedNext
  <2>4. ~Has("ApplicationData", Pushed("PushOutgoing", s9))
    BY <1>6, <1>14, <2>3, PushedNext
  <2>5. ~Has("ApplicationData", Pushed("PushOutgoing", s8))
    BY <1>6, <1>17, <2>4, PushedNext
  <2>6. ~Has("ApplicationData", Pushed("PushOutgoing", s7))
    BY <1>6, <1>20, <2>5, PushedNext
  <2>7. ~Has("ApplicationData", Pushed("PushOutgoing", s6))
    BY <1>6, <1>23, <2>6, PushedNext
  <2>8. ~Has("ApplicationData", Pushed("PushOutgoing", s5))
    BY <1>6, <1>26, <2>7, PushedNext
  <2>9. ~Has("ApplicationData", Pushed("PushOutgoing", s4))
    BY <1>6, <1>29, <2>8, PushedNext
  <2>10. ~Has("ApplicationData", Pushed("PushOutgoing", s3))
    BY <1>6, <1>32, <2>9, PushedNext
  <2>11. ~Has("ApplicationData", Pushed("PushOutgoing", s2))
    BY <1>6, <1>35, <2>10, PushedNext
  <2>12. ~Has("ApplicationData", Pushed("PushOutgoing", s1))
    BY <1>6, <1>38, <2>11, PushedNext
  <2> QED BY <1>38, <2>12, PushedSeq, DataNone DEF Outgoing, NoData
<1>43. Within({"NextIncoming"}, s1)
  <2>1. Within({"NextIncoming"}, s9)
    BY <1>2, <1>8, <1>11, <1>14, WithinTail
  <2>2. Within({"NextIncoming"}, s6)
    BY <1>17, <1>20, <1>23, <2>1, WithinTail
  <2>3. Within({"NextIncoming"}, s3)
    BY <1>26, <1>29, <1>32, <2>2, WithinTail
  <2> QED BY <1>35, <1>38, <2>3, WithinTail
<1> QED BY <1>6, <1>38, <1>39, <1>40, <1>41, <1>42, <1>43

LEMMA RefusedPlan ==
  ASSUME NEW e \in {<<>>, <<Call("ServerClosed")>>}
  PROVE  /\ Calls(<<"Refused">>) \o e \in Seq(Calling) /\ Ordered(Calls(<<"Refused">>) \o e)
         /\ Calls(<<"Refused">>) \o e # <<>> /\ Head(Calls(<<"Refused">>) \o e).op = "Refused"
         /\ e = <<>> => Only({"Refused"}, Calls(<<"Refused">>) \o e)
         /\ e # <<>> => Only({"Refused", "ServerClosed"}, Calls(<<"Refused">>) \o e)
                        /\ Within({"ServerClosed"}, Calls(<<"Refused">>) \o e)
<1>1. PICK c1, c2 : c1 = Call("Refused") /\ c2 = Call("ServerClosed")
  OBVIOUS
<1>2. c1 \in Calling /\ c2 \in Calling /\ c1.op = "Refused" /\ c2.op = "ServerClosed"
  BY <1>1, CallType DEF MpcTlsLeaderMsg, StateMsgs
<1>3. <<c2>> = <<c2>> \o <<>>
  OBVIOUS
<1>4. /\ e \in Seq(Calling) /\ Ordered(e) /\ (e = <<>> \/ Head(e) = c2)
      /\ \A ops : (e = <<>> \/ c2.op \in ops) => Only(ops, e)
  <2>1. CASE e = <<>>
    BY <2>1, EmptyPlan
  <2>2. CASE e # <<>>
    <3>1. e = <<c2>> \o <<>>
      BY <1>1, <1>3, <2>2
    <3> QED BY <1>2, <2>2, <3>1, EmptyPlan, Cons, OrderedCons DEF LastMsgs
  <2> QED BY <2>1, <2>2
<1>5. PICK s, f : s = <<c1>> \o f /\ f = e
  OBVIOUS
<1>10. f \in Seq(Calling) /\ Ordered(f) /\ (f = <<>> \/ Head(f).op = "ServerClosed")
  BY <1>2, <1>4, <1>5
<1>6. s \in Seq(Calling) /\ s # <<>> /\ Head(s) = c1 /\ Tail(s) = e /\ \A ops : Only(ops, s) <=> c1.op \in ops /\ Only(ops, e)
  <2>1. s \in Seq(Calling) /\ s # <<>> /\ Head(s) = c1 /\ Tail(s) = f /\ \A ops : Only(ops, s) <=> c1.op \in ops /\ Only(ops, f)
    BY <1>2, <1>10, <1>5, Cons
  <2> QED BY <2>1, <1>5
<1>7. Ordered(s)
  <2>1. /\ f # <<>> => Head(f).op \in Behind("Refused")
        /\ "Refused" \in LastMsgs
    BY <1>10 DEF Behind, LastMsgs
  <2>2. c1 \in Calling /\ c1.op = "Refused" /\ s = <<c1>> \o f
    BY <1>2, <1>5
  <2> QED BY <1>10, <2>1, <2>2, OrderedCons
<1>8. s = Calls(<<"Refused">>) \o e
  BY <1>1, <1>5 DEF Calls
<1>9. e # <<>> => Within({"ServerClosed"}, s)
  <2>1. e # <<>> => Within({"ServerClosed"}, e)
    BY <1>2, <1>4, WithinTail
  <2> QED BY <1>6, <2>1, WithinTail
<1> QED BY <1>2, <1>4, <1>6, <1>7, <1>8, <1>9

LEMMA AskPlan ==
  /\ Calls(<<"IsEmpty">>) \in Seq(Calling) /\ Ordered(Calls(<<"IsEmpty">>)) /\ Calls(<<"IsEmpty">>) # <<>>
  /\ Head(Calls(<<"IsEmpty">>)).op = "IsEmpty" /\ Only({"IsEmpty"}, Calls(<<"IsEmpty">>))
<1>1. PICK c : c = Call("IsEmpty")
  OBVIOUS
<1>2. c \in Calling /\ c.op = "IsEmpty"
  BY <1>1, CallType DEF MpcTlsLeaderMsg, StateMsgs
<1>3. Calls(<<"IsEmpty">>) = <<c>> \o <<>>
  BY <1>1 DEF Calls
<1> QED BY <1>2, <1>3, EmptyPlan, Cons, OrderedCons DEF LastMsgs

LEMMA WritePlan ==
  ASSUME NEW r \in Record, r.typ # "none"
  PROVE  /\ write_all_plaintext(r) \in Seq(Calling) /\ Ordered(write_all_plaintext(r)) /\ write_all_plaintext(r) # <<>>
         /\ Head(write_all_plaintext(r)) = Push("PushOutgoing", r)
         /\ Only({"PushOutgoing", "Flush", "NextOutgoing"}, write_all_plaintext(r))
         /\ ~Within({"PushOutgoing"}, Tail(write_all_plaintext(r)))
<1>1. PICK c1, c2, c3 : c1 = Push("PushOutgoing", r) /\ c2 = Call("Flush") /\ c3 = Call("NextOutgoing")
  OBVIOUS
<1>2. /\ c1 \in Calling /\ c2 \in Calling /\ c3 \in Calling
      /\ c1.op = "PushOutgoing" /\ c2.op = "Flush" /\ c3.op = "NextOutgoing" /\ c1.msg.typ # "none"
  BY <1>1, CallType DEF MpcTlsLeaderMsg, RecordMsgs
<1>3. PICK s3 : s3 = <<c3>> \o <<>>
  OBVIOUS
<1>4. s3 \in Seq(Calling) /\ s3 # <<>> /\ Head(s3) = c3 /\ \A ops : Only(ops, s3) <=> c3.op \in ops
  BY <1>2, <1>3, EmptyPlan, Cons
<1>5. Ordered(s3)
  BY <1>2, <1>3, EmptyPlan, OrderedCons DEF LastMsgs
<1>6. PICK s2 : s2 = <<c2>> \o s3
  OBVIOUS
<1>7. s2 \in Seq(Calling) /\ s2 # <<>> /\ Head(s2) = c2 /\ \A ops : Only(ops, s2) <=> c2.op \in ops /\ c3.op \in ops
  BY <1>2, <1>4, <1>6, Cons
<1>8. Ordered(s2)
  BY <1>2, <1>4, <1>5, <1>6, OrderedCons DEF Behind
<1>9. PICK s1 : s1 = <<c1>> \o s2
  OBVIOUS
<1>10. s1 \in Seq(Calling) /\ s1 # <<>> /\ Head(s1) = c1 /\ Tail(s1) = s2 /\ \A ops : Only(ops, s1) <=> c1.op \in ops /\ c2.op \in ops /\ c3.op \in ops
  BY <1>2, <1>7, <1>9, Cons
<1>11. Ordered(s1)
  BY <1>2, <1>7, <1>8, <1>9, OrderedCons DEF Behind
<1>12. s1 = write_all_plaintext(r)
  <2>1. s1 = <<c1>> \o (<<c2>> \o (<<c3>> \o <<>>))
    BY <1>3, <1>6, <1>9
  <2>2. write_all_plaintext(r) = <<c1, c2, c3>>
    BY <1>1 DEF write_all_plaintext
  <2> QED BY <1>2, <2>1, <2>2
<1>13. ~Within({"PushOutgoing"}, s2)
  <2>1. Only({"Flush", "NextOutgoing"}, s2)
    BY <1>2, <1>7
  <2> QED BY <2>1, OnlyWithin
<1> QED BY <1>1, <1>2, <1>10, <1>11, <1>12, <1>13

ClosePlan == <<Push("PushOutgoing", Rec("close_notify", 0))>> \o DrainCalls
LEMMA ClosePlanned ==
  /\ ClosePlan \in Seq(Calling) /\ Ordered(ClosePlan) /\ ClosePlan # <<>>
  /\ Head(ClosePlan) = Push("PushOutgoing", Rec("close_notify", 0))
  /\ Only({"PushOutgoing"} \union DrainMsgs, ClosePlan) /\ ~Within({"PushOutgoing"}, Tail(ClosePlan))
  /\ Within({"NextIncoming"}, ClosePlan)
<1>1. PICK c : c = Push("PushOutgoing", Rec("close_notify", 0))
  OBVIOUS
<1>2. Rec("close_notify", 0) \in Record
  BY DEF Rec, Record
<1>3. c \in Calling /\ c.op = "PushOutgoing" /\ c.msg.typ # "none"
  <2>1. Rec("close_notify", 0).typ # "none"
    BY DEF Rec, NoRec
  <2> QED BY <1>1, <1>2, <2>1, CallType DEF MpcTlsLeaderMsg, RecordMsgs
<1>4. /\ DrainCalls \in Seq(Calling) /\ Ordered(DrainCalls) /\ DrainCalls # <<>> /\ Head(DrainCalls).op = "Flush"
      /\ Only(DrainMsgs, DrainCalls) /\ Within({"NextIncoming"}, DrainCalls)
  <2>1. DrainCalls \o <<>> = DrainCalls
    BY DEF DrainCalls, Calls
  <2> QED BY <2>1, DrainPlan
<1>5. /\ <<c>> \o DrainCalls \in Seq(Calling) /\ <<c>> \o DrainCalls # <<>> /\ Head(<<c>> \o DrainCalls) = c
      /\ Tail(<<c>> \o DrainCalls) = DrainCalls /\ \A ops : Only(ops, <<c>> \o DrainCalls) <=> c.op \in ops /\ Only(ops, DrainCalls)
  BY <1>3, <1>4, Cons
<1>6. Ordered(<<c>> \o DrainCalls)
  BY <1>3, <1>4, OrderedCons DEF Behind
<1>7. Only({"PushOutgoing"} \union DrainMsgs, DrainCalls) /\ ~Within({"PushOutgoing"}, DrainCalls)
  BY <1>4 DEF Only, Within, DrainMsgs
<1>8. Within({"NextIncoming"}, <<c>> \o DrainCalls)
  BY <1>4, <1>5, WithinTail
<1> QED BY <1>1, <1>3, <1>5, <1>6, <1>7, <1>8 DEF ClosePlan

\* The calls for the server's Finished, in front of the call that returned it.
LEMMA FinishedPlan ==
  ASSUME NEW s \in Seq(Calling), Ordered(s), s # <<>>, Head(s).op = "NextIncoming"
  PROVE  /\ FinishedCalls \o s \in Seq(Calling) /\ Ordered(FinishedCalls \o s) /\ FinishedCalls \o s # <<>>
         /\ Head(FinishedCalls \o s) = Call("GetServerFinishedVd")
         /\ \A ops : ops \intersect {"GetServerFinishedVd", "StartTraffic"} = {} =>
              (Within(ops, FinishedCalls \o s) <=> Within(ops, s))
         /\ \A op \in {"PushIncoming", "PushOutgoing"} :
              /\ DataOf(Pushed(op, FinishedCalls \o s)) = DataOf(Pushed(op, s))
              /\ \A typ : typ # "none" => (Has(typ, Pushed(op, FinishedCalls \o s)) <=> Has(typ, Pushed(op, s)))
<1>1. PICK c1, c2 : c1 = Call("GetServerFinishedVd") /\ c2 = Call("StartTraffic")
  OBVIOUS
<1>2. c1 \in Calling /\ c2 \in Calling /\ c1.op = "GetServerFinishedVd" /\ c2.op = "StartTraffic"
  BY <1>1, CallType DEF MpcTlsLeaderMsg, HashMsgs, RecordMsgs
<1>3. PICK s2 : s2 = <<c2>> \o s
  OBVIOUS
<1>4. s2 \in Seq(Calling) /\ s2 # <<>> /\ Head(s2) = c2 /\ Tail(s2) = s
  BY <1>2, <1>3, Cons
<1>5. Ordered(s2)
  BY <1>2, <1>3, OrderedCons DEF Behind
<1>6. PICK s1 : s1 = <<c1>> \o s2
  OBVIOUS
<1>7. s1 \in Seq(Calling) /\ s1 # <<>> /\ Head(s1) = c1 /\ Tail(s1) = s2
  BY <1>2, <1>4, <1>6, Cons
<1>8. Ordered(s1)
  BY <1>2, <1>4, <1>5, <1>6, OrderedCons DEF Behind
<1>9. s1 = FinishedCalls \o s
  <2>1. FinishedCalls = <<c1, c2>>
    BY <1>1 DEF FinishedCalls, Calls
  <2>2. PICK t : t = <<c1, c2>>
    OBVIOUS
  <2>3. t \in Seq(Calling) /\ t # <<>> /\ Head(t) = c1 /\ Tail(t) = <<c2>>
    BY <1>2, <2>2
  <2>4. t \o s = <<c1>> \o (<<c2>> \o s)
    BY <2>3, OneInFront
  <2> QED BY <1>3, <1>6, <2>1, <2>2, <2>4
<1>10. ASSUME NEW ops, ops \intersect {"GetServerFinishedVd", "StartTraffic"} = {}
       PROVE  Within(ops, s1) <=> Within(ops, s)
  <2>1. c1.op \notin ops /\ c2.op \notin ops
    BY <1>2, <1>10
  <2>2. Within(ops, s2) <=> Within(ops, s)
    BY <1>4, <2>1, WithinTail
  <2>3. Within(ops, s1) <=> Within(ops, s2)
    BY <1>7, <2>1, WithinTail
  <2> QED BY <2>2, <2>3
<1>11. ASSUME NEW op \in {"PushIncoming", "PushOutgoing"}
       PROVE  /\ DataOf(Pushed(op, s1)) = DataOf(Pushed(op, s))
              /\ \A typ : typ # "none" => (Has(typ, Pushed(op, s1)) <=> Has(typ, Pushed(op, s)))
  <2>1. op # c1.op /\ op # c2.op
    BY <1>2
  <2>2. Pushed(op, s) \in Seq(Record) /\ Pushed(op, s2) \in Seq(Record)
    BY <1>4, PushedSeq
  <2>3. DataOf(Pushed(op, s)) \in Seq(Record) /\ DataOf(Pushed(op, s2)) \in Seq(Record)
    BY <2>2, DataSeq
  <2>4. /\ \A typ : typ # "none" => (Has(typ, Pushed(op, s2)) <=> Has(typ, Pushed(op, s)))
        /\ DataOf(Pushed(op, s2)) = <<>> \o DataOf(Pushed(op, s))
    BY <1>4, <2>1, PushedNext
  <2>5. /\ \A typ : typ # "none" => (Has(typ, Pushed(op, s1)) <=> Has(typ, Pushed(op, s2)))
        /\ DataOf(Pushed(op, s1)) = <<>> \o DataOf(Pushed(op, s2))
    BY <1>7, <2>1, PushedNext
  <2>6. <<>> \o DataOf(Pushed(op, s)) = DataOf(Pushed(op, s)) /\ <<>> \o DataOf(Pushed(op, s2)) = DataOf(Pushed(op, s2))
    BY <2>3, ConcatEmptySeq
  <2> QED BY <2>4, <2>5, <2>6
<1> QED BY <1>1, <1>7, <1>8, <1>9, <1>10, <1>11

\* Pushing the records that have been read, and draining.
PushPlan(rs) == Pushes(rs) \o DrainCalls
LEMMA PushPlanned ==
  ASSUME NEW rs \in Seq(Record), rs # <<>>
  PROVE  /\ Within({"NextIncoming"}, PushPlan(rs))
         /\ PushPlan(rs) \in Seq(Calling) /\ Ordered(PushPlan(rs)) /\ PushPlan(rs) # <<>>
         /\ Head(PushPlan(rs)).op = "PushIncoming"
         /\ Only({"PushIncoming"} \union DrainMsgs, PushPlan(rs))
         /\ DataOf(Incoming(PushPlan(rs))) = DataOf(rs)
         /\ Head(Incoming(PushPlan(rs))) = Head(rs)
         /\ \A typ : typ # "none" =>
              /\ Has(typ, Incoming(PushPlan(rs))) <=> Has(typ, rs)
              /\ Has(typ, Tail(Incoming(PushPlan(rs)))) <=> Has(typ, Tail(rs))
<1>1. PICK p, d, s : p = Pushes(rs) /\ d = DrainCalls /\ s = PushPlan(rs)
  OBVIOUS
<1>2. /\ Len(rs) \in Nat /\ Len(rs) >= 1 /\ DOMAIN rs = 1..Len(rs) /\ Head(rs) = rs[1]
      /\ \A i \in 1..Len(rs) : rs[i] \in Record
  BY LenProperties, ElementOfSeq, EmptySeq
<1>3. p \in Seq(Calling) /\ Len(p) = Len(rs) /\ \A i \in 1..Len(rs) : p[i].op = "PushIncoming" /\ p[i].msg = rs[i]
  <2>1. "PushIncoming" \in MpcTlsLeaderMsg
    BY DEF MpcTlsLeaderMsg, RecordMsgs
  <2>2. \A i \in 1..Len(rs) : /\ Push("PushIncoming", rs[i]) \in Calling
                              /\ Push("PushIncoming", rs[i]).op = "PushIncoming"
                              /\ Push("PushIncoming", rs[i]).msg = rs[i]
    BY <1>2, <2>1, CallType
  <2>3. p = [i \in 1..Len(rs) |-> Push("PushIncoming", rs[i])]
    BY <1>1, <1>2 DEF Pushes
  <2> QED BY <1>2, <2>2, <2>3
<1>4. /\ d \in Seq(Calling) /\ Ordered(d) /\ d # <<>> /\ Head(d).op = "Flush" /\ Only(DrainMsgs, d)
      /\ Len(d) \in Nat /\ Len(d) >= 1 /\ DOMAIN d = 1..Len(d) /\ Head(d) = d[1] /\ Within({"NextIncoming"}, d)
  <2>1. d \o <<>> = d
    BY <1>1 DEF DrainCalls, Calls
  <2>2. /\ d \in Seq(Calling) /\ Ordered(d) /\ d # <<>> /\ Head(d).op = "Flush" /\ Only(DrainMsgs, d)
        /\ Within({"NextIncoming"}, d)
    BY <1>1, <2>1, DrainPlan
  <2> QED BY <2>2, LenProperties, EmptySeq
<1>5. /\ s = p \o d /\ s \in Seq(Calling) /\ Len(s) = Len(rs) + Len(d) /\ DOMAIN s = 1..Len(rs) + Len(d)
      /\ \A i \in 1..Len(rs) + Len(d) : s[i] = IF i <= Len(rs) THEN p[i] ELSE d[i - Len(rs)]
  <2>1. s = p \o d
    BY <1>1 DEF PushPlan
  <2>2. /\ p \o d \in Seq(Calling) /\ Len(p \o d) = Len(p) + Len(d)
        /\ \A i \in 1..Len(p) + Len(d) : (p \o d)[i] = IF i <= Len(p) THEN p[i] ELSE d[i - Len(p)]
    <3>1. p \in Seq(Calling) /\ d \in Seq(Calling)
      BY <1>3, <1>4
    <3> QED BY <3>1, ConcatProperties, Zenon
  <2>3. Len(p) = Len(rs)
    BY <1>3
  <2> QED BY <1>2, <1>4, <2>1, <2>2, <2>3, LenProperties
<1>6. \A i \in 1..Len(rs) : s[i].op = "PushIncoming" /\ s[i].msg = rs[i]
  BY <1>2, <1>3, <1>4, <1>5
<1>7. \A i \in 1..Len(d) : s[Len(rs) + i] = d[i]
  <2>1. ASSUME NEW i \in 1..Len(d)
        PROVE  Len(rs) + i \in 1..Len(rs) + Len(d) /\ ~(Len(rs) + i <= Len(rs)) /\ (Len(rs) + i) - Len(rs) = i
    BY <1>2, <1>4
  <2> QED BY <1>5, <2>1
<1>8. \A i \in 1..Len(s) : i \in 1..Len(rs) \/ \E j \in 1..Len(d) : i = Len(rs) + j
  <2>1. ASSUME NEW i \in 1..Len(s), i \notin 1..Len(rs) PROVE i - Len(rs) \in 1..Len(d) /\ i = Len(rs) + (i - Len(rs))
    BY <1>2, <1>4, <1>5, <2>1
  <2> QED BY <2>1
<1>9. Only({"PushIncoming"} \union DrainMsgs, s)
  BY <1>4, <1>5, <1>6, <1>7, <1>8 DEF Only
<1>10. Ordered(s)
  <2>1. ASSUME NEW i \in 1..Len(s) - 1 PROVE s[i + 1].op \in Behind(s[i].op)
    <3>1. CASE i + 1 \in 1..Len(rs)
      <4>1. i \in 1..Len(rs)
        BY <1>2, <3>1
      <4> QED BY <1>6, <3>1, <4>1 DEF Behind
    <3>2. CASE i = Len(rs)
      <4>1. 1 \in 1..Len(d) /\ i \in 1..Len(rs)
        BY <1>2, <1>4, <3>2
      <4>2. s[i + 1].op = "Flush" /\ s[i].op = "PushIncoming"
        BY <1>4, <1>6, <1>7, <3>2, <4>1
      <4> QED BY <4>2 DEF Behind
    <3>3. CASE i > Len(rs)
      <4>1. PICK j \in 1..Len(d) - 1 : i = Len(rs) + j
        <5>1. i - Len(rs) \in 1..Len(d) - 1 /\ i = Len(rs) + (i - Len(rs))
          BY <1>2, <1>4, <1>5, <3>3
        <5> QED BY <5>1
      <4>2. j \in 1..Len(d) /\ j + 1 \in 1..Len(d) /\ i + 1 = Len(rs) + (j + 1)
        BY <1>2, <1>4, <4>1
      <4>3. s[i] = d[j] /\ s[i + 1] = d[j + 1]
        BY <1>7, <4>1, <4>2
      <4> QED BY <1>4, <4>1, <4>3 DEF Ordered
    <3>4. i + 1 \in 1..Len(rs) \/ i = Len(rs) \/ i > Len(rs)
      <4>1. i \in Nat /\ i >= 1 /\ Len(rs) \in Nat
        BY <1>2, <2>1
      <4> QED BY <4>1
    <3> QED BY <3>1, <3>2, <3>3, <3>4
  <2>2. s[Len(s)].op \in LastMsgs
    <3>1. Len(d) \in 1..Len(d)
      BY <1>4
    <3> QED BY <1>4, <1>5, <1>7, <3>1 DEF Ordered
  <2>3. \A i \in DOMAIN s : Askable(s[i])
    BY <1>9 DEF Only, DrainMsgs, Askable
  <2> QED BY <1>5, <2>1, <2>2, <2>3 DEF Ordered
<1>11. s # <<>> /\ Head(s) = s[1] /\ Head(s).op = "PushIncoming"
  <2>1. Len(s) >= 1
    BY <1>2, <1>4, <1>5
  <2>2. s # <<>> /\ Head(s) = s[1]
    BY <1>5, <2>1, EmptySeq
  <2>3. 1 \in 1..Len(rs)
    BY <1>2
  <2> QED BY <1>6, <2>2, <2>3
<1>12. Pushed("PushIncoming", p) = rs
  <2>1. PICK q : q = Pushed("PushIncoming", p)
    OBVIOUS
  <2>2. q \in Seq(Record) /\ Len(q) = Len(rs)
    BY <1>3, <2>1, PushedSeq
  <2>3. \A i \in 1..Len(rs) : q[i] = rs[i]
    BY <1>3, <2>1, LenProperties DEF Pushed
  <2> QED BY <2>1, <2>2, <2>3, SeqEqual
<1>13. PICK e : e = Pushed("PushIncoming", d)
  OBVIOUS
<1>14. e \in Seq(Record) /\ DataOf(e) = <<>> /\ \A typ : typ # "none" => ~Has(typ, e)
  <2>1. ~Within({"PushIncoming"}, d)
    BY <1>4, OnlyWithin DEF DrainMsgs
  <2> QED BY <1>4, <1>13, <2>1, PushedNone, PushedSeq
<1>15. Incoming(s) = rs \o e
  BY <1>3, <1>4, <1>5, <1>12, <1>13, PushedConcat DEF Incoming
<1>16. DataOf(rs \o e) = DataOf(rs)
  <2>1. DataOf(rs \o e) = DataOf(rs) \o <<>>
    BY <1>14, DataConcat
  <2>2. DataOf(rs) \in Seq(Record)
    BY DataSeq
  <2> QED BY <2>1, <2>2, ConcatEmptySeq
<1>17. \A typ : typ # "none" => (Has(typ, rs \o e) <=> Has(typ, rs))
  BY <1>14, HasConcat
<1>18. PICK u, v : u = rs \o e /\ v = Tail(rs)
  OBVIOUS
<1>19. u = <<Head(rs)>> \o (v \o e) /\ v \in Seq(Record) /\ Head(rs) \in Record
  <2>1. Head(rs) \in Record /\ v \in Seq(Record) /\ <<Head(rs)>> \in Seq(Record)
    BY <1>18, HeadTailProperties
  <2>2. rs = <<Head(rs)>> \o v
    BY <1>18
  <2> QED BY <1>14, <1>18, <2>1, <2>2, ConcatAssociative
<1>20. Head(u) = Head(rs) /\ Tail(u) = v \o e
  <2>1. PICK w : w = v \o e
    OBVIOUS
  <2>2. w \in Seq(Record)
    BY <1>14, <1>19, <2>1
  <2>3. u = <<Head(rs)>> \o w
    BY <1>19, <2>1
  <2>4. Head(u) = Head(rs) /\ Tail(u) = w
    <3>1. PICK x : x = Head(rs)
      OBVIOUS
    <3>2. x \in Record /\ u = <<x>> \o w
      BY <1>19, <2>3, <3>1
    <3> QED BY <2>2, <3>1, <3>2
  <2> QED BY <2>1, <2>4
<1>21. \A typ : typ # "none" => (Has(typ, v \o e) <=> Has(typ, v))
  BY <1>14, <1>19, HasConcat
<1>22. Within({"NextIncoming"}, s)
  <2>1. PICK j \in 1..Len(d) : d[j].op = "NextIncoming"
    BY <1>4 DEF Within
  <2>2. s[Len(rs) + j] = d[j] /\ Len(rs) + j \in 1..Len(s)
    BY <1>2, <1>4, <1>5, <1>7
  <2> QED BY <1>5, <2>1, <2>2 DEF Within
<1> QED BY <1>1, <1>5, <1>9, <1>10, <1>11, <1>15, <1>16, <1>17, <1>18, <1>20, <1>21, <1>22

-----------------------------------------------------------------------------
\* The mailbox.

\* What the loop has in the mailbox: it waits for at most one answer.
LEMMA OwnMail ==
  ASSUME TypeOK, Ordered(todo), Control
  PROVE  /\ Own = <<>> \/ \E c \in Calling : Own = <<c>> /\ c.op # "DeferDecryption"
                                          /\ ((pc = "asked" /\ c = Head(todo) /\ todo # <<>> /\ c.op # "Stop")
                                              \/ (pc = "ended" /\ c = Call("Stop")))
         /\ Own \in Seq(Calling)
<1>1. CASE pc = "asked"
  <2>1. todo # <<>> /\ todo \in Seq(Calling)
    BY <1>1 DEF Control, TypeOK
  <2>2. Head(todo) \in Calling /\ Head(todo).op \notin {"Stop", "DeferDecryption"}
    BY <2>1, OrderedTail, HeadTailProperties
  <2>3. Own = <<Head(todo)>>
    BY <1>1 DEF Own
  <2> QED BY <1>1, <2>1, <2>2, <2>3
<1>2. CASE pc = "ended"
  <2>1. Call("Stop") \in Calling /\ Call("Stop").op = "Stop"
    BY CallType DEF MpcTlsLeaderMsg, CtrlMsgs
  <2>2. Own = <<Call("Stop")>>
    BY <1>2 DEF Own
  <2> QED BY <1>2, <2>1, <2>2
<1>3. CASE pc # "asked" /\ pc # "ended"
  <2>1. Own = <<>>
    BY <1>3 DEF Own
  <2> QED BY <2>1
<1> QED BY <1>1, <1>2, <1>3

LEMMA DeferType == Call("DeferDecryption") \in Calling /\ Call("DeferDecryption").op = "DeferDecryption"
BY CallType DEF MpcTlsLeaderMsg, CtrlMsgs

\* The first message is the one of the control handle, or the one of the loop.
LEMMA FirstMail ==
  ASSUME TypeOK, Ordered(todo), Control, Mail, mailbox # <<>>
  PROVE  \/ Head(mailbox).op = "DeferDecryption" /\ control = "called" /\ Tail(mailbox) = Own
         \/ /\ pc = "asked" /\ todo # <<>> /\ Head(mailbox) = Head(todo) /\ Head(mailbox).op \notin CtrlMsgs
            /\ Tail(mailbox) = IF control = "called" THEN Defer ELSE <<>>
         \/ pc = "ended" /\ Head(mailbox).op = "Stop"
<1>1. PICK d, o : d = Call("DeferDecryption") /\ o = Own
  OBVIOUS
<1>2. /\ o = <<>> \/ \E c \in Calling : o = <<c>> /\ c.op # "DeferDecryption"
                                        /\ ((pc = "asked" /\ c = Head(todo) /\ todo # <<>> /\ c.op # "Stop")
                                            \/ (pc = "ended" /\ c = Call("Stop")))
      /\ o \in Seq(Calling)
  BY <1>1, OwnMail
<1>3. d \in Calling /\ d.op = "DeferDecryption"
  BY <1>1, DeferType
<1>4. IF control = "called" THEN mailbox = <<d>> \o o \/ mailbox = o \o <<d>> ELSE mailbox = o
  BY <1>1 DEF Mail, Defer
<1>5. CASE control = "called" /\ mailbox = <<d>> \o o
  <2>1. Head(mailbox) = d /\ Tail(mailbox) = o
    BY <1>2, <1>3, <1>5, Cons
  <2> QED BY <1>1, <1>3, <1>5, <2>1
<1>6. CASE o # <<>> /\ mailbox = o \o (IF control = "called" THEN <<d>> ELSE <<>>)
  <2>1. PICK c \in Calling : /\ o = <<c>> /\ c.op # "DeferDecryption"
                             /\ \/ pc = "asked" /\ c = Head(todo) /\ todo # <<>> /\ c.op # "Stop"
                                \/ pc = "ended" /\ c = Call("Stop")
    BY <1>2, <1>6
  <2>2. PICK r : r = IF control = "called" THEN <<d>> ELSE <<>>
    OBVIOUS
  <2>3. r \in Seq(Calling)
    BY <1>3, <2>2
  <2>4. mailbox = <<c>> \o r
    BY <1>6, <2>1, <2>2
  <2>5. Head(mailbox) = c /\ Tail(mailbox) = r
    BY <2>3, <2>4, Cons
  <2>6. Call("Stop").op = "Stop"
    BY CallType
  <2> QED BY <1>1, <2>1, <2>2, <2>5, <2>6 DEF CtrlMsgs, Defer
<1>7. CASE o = <<>> /\ mailbox = o \o (IF control = "called" THEN <<d>> ELSE <<>>)
  <2>1. control = "called" /\ mailbox = <<d>>
    BY <1>3, <1>7
  <2>2. mailbox = <<d>> \o o
    BY <1>3, <1>7, <2>1
  <2> QED BY <1>5, <2>1, <2>2
<1>8. control # "called" => mailbox = o \o <<>>
  BY <1>2, <1>4, ConcatEmptySeq
<1> QED BY <1>4, <1>5, <1>6, <1>7, <1>8

LEMMA MailSame ==
  ASSUME Mail, mailbox' = mailbox, control' = control, Own' = Own
  PROVE  Mail'
BY DEF Mail, Defer

LEMMA MailSent ==
  ASSUME TypeOK, Mail, Own = <<>>, NEW c \in Calling, mailbox' = Append(mailbox, c), control' = control, Own' = <<c>>
  PROVE  Mail'
<1>1. PICK d : d = Call("DeferDecryption")
  OBVIOUS
<1>2. d \in Calling
  BY <1>1, DeferType
<1>3. CASE control = "called"
  <2>1. mailbox = <<d>>
    BY <1>1, <1>2, <1>3 DEF Mail, Defer
  <2>2. mailbox' = <<d>> \o <<c>>
    BY <1>2, <2>1
  <2> QED BY <1>1, <1>3, <2>2 DEF Mail, Defer
<1>4. CASE control # "called"
  <2>1. mailbox = <<>>
    BY <1>4 DEF Mail
  <2>2. mailbox' = <<c>>
    BY <2>1
  <2> QED BY <1>4, <2>2 DEF Mail
<1> QED BY <1>3, <1>4

LEMMA MailDeferred ==
  ASSUME TypeOK, Mail, control = "idle", mailbox' = Append(mailbox, Call("DeferDecryption")), control' = "called",
         Own' = Own
  PROVE  Mail'
<1>1. mailbox = Own /\ mailbox \in Seq(Calling)
  BY DEF Mail, TypeOK
<1>2. mailbox' = mailbox \o <<Call("DeferDecryption")>>
  BY <1>1, DeferType, AppendIsConcat
<1> QED BY <1>1, <1>2 DEF Mail, Defer

LEMMA MailTaken ==
  ASSUME mailbox' = (IF control = "called" THEN Defer ELSE <<>>), control' = control, Own' = <<>>
  PROVE  Mail'
<1>1. Defer \o <<>> = Defer
  BY DeferType DEF Defer
<1> QED BY <1>1 DEF Mail, Defer

-----------------------------------------------------------------------------
\* Steps that leave the calls and the records where they are.

LEMMA RestKept ==
  ASSUME Running, todo' = todo, after' = after, loop' = loop, client' = client,
         leader'.state = leader.state, leader'.fields = leader.fields, leader'.started = leader.started,
         leader'.encrypt = leader.encrypt, leader'.encrypted = leader.encrypted, leader'.decrypt = leader.decrypt,
         leader'.decrypted = leader.decrypted, leader'.sent = leader.sent, leader'.recv = leader.recv,
         socket'.in = socket.in, socket'.out = socket.out, socket'.sent = socket.sent, socket'.bad = socket.bad,
         socket.server # "open" => socket'.server # "open", verifier' => verifier
  PROVE  /\ Ordered(todo)' /\ FlightSteps' /\ RecordSteps' /\ ByState' /\ OnTheWay' /\ Flags' /\ InFlow' /\ OutFlow'
<1>1. Ordered(todo)'
  BY DEF Running, Ordered
<1>2. FlightSteps'
  BY DEF Running, FlightSteps, First, InFlight
<1>3. RecordSteps'
  BY DEF Running, RecordSteps, First, FinishedGone, Clean
<1>4. ByState'
  BY DEF Running, ByState, First, InFlight
<1>5. OnTheWay'
  BY DEF Running, OnTheWay, Lone
<1>6. Flags'
  BY DEF Running, Flags, Clean, FinishedGone
<1>7. InFlow' /\ OutFlow'
  BY DEF Running, Flow, InFlow, OutFlow, First
<1> QED BY <1>1, <1>2, <1>3, <1>4, <1>5, <1>6, <1>7

LEMMA SendKeeps ==
  ASSUME TypeOK, Running, send
  PROVE  TypeOK' /\ Running'
<1>1. /\ pc = "calls" /\ todo # <<>> /\ mailbox' = Append(mailbox, Head(todo)) /\ pc' = "asked"
      /\ UNCHANGED <<todo, after, loop, client, leader, conn, socket, control, verifier, failure, result>>
  BY DEF send, envVars
<1>2. Head(todo) \in Calling
  BY <1>1, HeadTailProperties DEF TypeOK
<1>3. TypeOK'
  BY <1>1, <1>2 DEF TypeOK
<1>4. Control'
  <2>1. Head(todo).op # "Refused"
    BY DEF send
  <2> QED BY <1>1, <2>1 DEF Running, Control, First, Delivered
<1>5. Mail'
  <2>1. Own = <<>> /\ Own' = <<Head(todo)>>
    BY <1>1 DEF Own
  <2> QED BY <1>1, <1>2, <2>1, MailSent DEF Running
<1>6. /\ Ordered(todo)' /\ FlightSteps' /\ RecordSteps' /\ ByState' /\ OnTheWay' /\ Flags' /\ InFlow' /\ OutFlow'
  BY <1>1, RestKept
<1>7. Flow' /\ failure' = "none"
  BY <1>1, <1>6 DEF Running, Flow, ReadFlow, WriteFlow
<1> QED BY <1>3, <1>4, <1>5, <1>6, <1>7 DEF Running

LEMMA NothingToWriteKeeps ==
  ASSUME TypeOK, Running, nothing_to_write
  PROVE  TypeOK' /\ Running'
<1>1. /\ pc = "write" /\ pc' = "forward" /\ (client.tls = <<>> \/ loop.client_closed)
      /\ UNCHANGED <<todo, after, loop, client, mailbox, leader, conn, socket, control, verifier, failure, result>>
  BY DEF nothing_to_write, envVars
<1>2. TypeOK'
  BY <1>1 DEF TypeOK
<1>3. Control'
  BY <1>1 DEF Running, Control, First, Delivered
<1>4. Mail'
  BY <1>1, MailSame DEF Running, Own
<1>5. /\ Ordered(todo)' /\ FlightSteps' /\ RecordSteps' /\ ByState' /\ OnTheWay' /\ Flags' /\ InFlow' /\ OutFlow'
  BY <1>1, RestKept
<1>6. Flow' /\ failure' = "none"
  BY <1>1, <1>5 DEF Running, Flow, ReadFlow, WriteFlow
<1> QED BY <1>2, <1>3, <1>4, <1>5, <1>6 DEF Running

\* Nothing the holders of the connection and of the control handle do, nor the
\* loss of the verifier, gets in the way of the loop.
LEMMA ApplicationKeeps ==
  ASSUME TypeOK, Running, poll_write \/ poll_close \/ drop \/ poll_read
  PROVE  TypeOK' /\ Running'
<1>1. UNCHANGED <<pc, todo, after, loop, client, mailbox, leader, socket, control, verifier, failure, result>>
  BY DEF poll_write, poll_close, drop, poll_read, loopVars
<1>2. /\ Ordered(todo)' /\ FlightSteps' /\ RecordSteps' /\ ByState' /\ OnTheWay' /\ Flags' /\ InFlow' /\ OutFlow'
  BY <1>1, RestKept
<1>3. Control' /\ Mail'
  <2>1. Control'
    BY <1>1 DEF Running, Control, First, Delivered
  <2> QED BY <1>1, <2>1, MailSame DEF Running, Own
<1>4. /\ conn.tx \in Seq(Record) /\ conn.rx \in Seq(Record) /\ conn.read \in Seq(Record) /\ conn.written \in Nat
      /\ conn = [tx |-> conn.tx, written |-> conn.written, tx_closed |-> conn.tx_closed, rx |-> conn.rx,
                 read |-> conn.read, dropped |-> conn.dropped]
      /\ conn.tx_closed \in BOOLEAN /\ conn.dropped \in BOOLEAN
  BY DEF TypeOK
<1>5. DataOf(leader.sent) \in Seq(Record) /\ DataOf(leader.encrypt) \in Seq(Record)
      /\ DataOf(Outgoing(todo)) \in Seq(Record) /\ DataOf(conn.tx) \in Seq(Record) /\ DataOf(leader.decrypted) \in Seq(Record)
  BY DataSeq, PushedSeq DEF TypeOK, Outgoing
<1>6. SUFFICES conn' \in [tx : Seq(Record), written : Nat, tx_closed : BOOLEAN, rx : Seq(Record), read : Seq(Record),
                          dropped : BOOLEAN]
               /\ ReadFlow' /\ WriteFlow' /\ \A i \in DOMAIN conn'.tx : IsData(conn'.tx[i])
  BY <1>1, <1>2, <1>3 DEF TypeOK, Running, Flow
<1>7. CASE poll_close
  <2>1. conn' = [conn EXCEPT !.tx_closed = TRUE]
    BY <1>7 DEF poll_close
  <2>2. /\ conn' \in [tx : Seq(Record), written : Nat, tx_closed : BOOLEAN, rx : Seq(Record), read : Seq(Record),
                      dropped : BOOLEAN]
        /\ conn'.tx = conn.tx /\ conn'.written = conn.written /\ conn'.rx = conn.rx /\ conn'.read = conn.read
        /\ conn'.dropped = conn.dropped
    BY <1>4, <2>1
  <2> QED BY <1>1, <2>2 DEF Running, Flow, ReadFlow, WriteFlow
<1>8. CASE drop
  <2>1. conn' = [conn EXCEPT !.tx_closed = TRUE, !.dropped = TRUE, !.rx = <<>>]
    BY <1>8 DEF drop
  <2>2. /\ conn' \in [tx : Seq(Record), written : Nat, tx_closed : BOOLEAN, rx : Seq(Record), read : Seq(Record),
                      dropped : BOOLEAN]
        /\ conn'.tx = conn.tx /\ conn'.written = conn.written /\ conn'.dropped
    <3>1. conn' = [tx |-> conn.tx, written |-> conn.written, tx_closed |-> TRUE, rx |-> <<>>,
                   read |-> conn.read, dropped |-> TRUE]
      BY <1>4, <2>1
    <3>2. <<>> \in Seq(Record)
      OBVIOUS
    <3> QED BY <1>4, <3>1, <3>2
  <2> QED BY <1>1, <2>2 DEF Running, Flow, ReadFlow, WriteFlow
<1>9. CASE poll_read
  <2>1. conn.rx # <<>> /\ conn' = [conn EXCEPT !.rx = Tail(@), !.read = Append(@, Head(conn.rx))]
    BY <1>9 DEF poll_read
  <2>2. Head(conn.rx) \in Record /\ Tail(conn.rx) \in Seq(Record)
    BY <1>4, <2>1, HeadTailProperties
  <2>3. /\ conn' \in [tx : Seq(Record), written : Nat, tx_closed : BOOLEAN, rx : Seq(Record), read : Seq(Record),
                      dropped : BOOLEAN]
        /\ conn'.tx = conn.tx /\ conn'.written = conn.written /\ conn'.dropped = conn.dropped
        /\ conn'.rx = Tail(conn.rx) /\ conn'.read = Append(conn.read, Head(conn.rx))
    <3>1. PICK x, y : x = Tail(conn.rx) /\ y = Append(conn.read, Head(conn.rx))
      OBVIOUS
    <3>2. x \in Seq(Record) /\ y \in Seq(Record)
      BY <1>4, <2>2, <3>1
    <3>3. conn' = [tx |-> conn.tx, written |-> conn.written, tx_closed |-> conn.tx_closed, rx |-> x,
                   read |-> y, dropped |-> conn.dropped]
      BY <1>4, <2>1, <3>1
    <3> QED BY <1>4, <3>1, <3>2, <3>3
  <2>4. conn'.read \o conn'.rx = conn.read \o conn.rx
    <3>1. PICK h, u : h = Head(conn.rx) /\ u = Tail(conn.rx)
      OBVIOUS
    <3>2. conn.rx = <<h>> \o u
      BY <1>4, <2>1, <3>1
    <3>3. h \in Record /\ u \in Seq(Record) /\ <<h>> \in Seq(Record)
      BY <2>2, <3>1
    <3>4. Append(conn.read, h) = conn.read \o <<h>>
      BY <1>4, <3>3, AppendIsConcat
    <3>5. (conn.read \o <<h>>) \o u = conn.read \o (<<h>> \o u)
      BY <1>4, <3>3, ConcatAssociative
    <3> QED BY <2>3, <3>1, <3>2, <3>4, <3>5
  <2> QED BY <1>1, <2>3, <2>4 DEF Running, Flow, ReadFlow, WriteFlow
<1>10. CASE poll_write
  <2>1. conn' = [conn EXCEPT !.tx = Append(@, Data(conn.written + 1)), !.written = @ + 1]
    BY <1>10 DEF poll_write
  <2>2. PICK n, d : n = conn.written + 1 /\ d = Data(n)
    OBVIOUS
  <2>3. n \in Nat /\ n - 1 = conn.written /\ d \in Record /\ IsData(d)
    <3>1. n \in Nat /\ n - 1 = conn.written
      BY <1>4, <2>2
    <3>2. d = [typ |-> "ApplicationData", n |-> n]
      BY <2>2 DEF Data, Rec
    <3>3. d \in Record
      BY <3>1, <3>2 DEF Record
    <3> QED BY <3>1, <3>2, <3>3 DEF IsData
  <2>4. /\ conn' \in [tx : Seq(Record), written : Nat, tx_closed : BOOLEAN, rx : Seq(Record), read : Seq(Record),
                      dropped : BOOLEAN]
        /\ conn'.tx = Append(conn.tx, d) /\ conn'.written = n /\ conn'.dropped = conn.dropped
        /\ conn'.rx = conn.rx /\ conn'.read = conn.read
    <3>1. PICK x : x = Append(conn.tx, d)
      OBVIOUS
    <3>2. x \in Seq(Record)
      BY <1>4, <2>3, <3>1
    <3>3. conn' = [tx |-> x, written |-> n, tx_closed |-> conn.tx_closed, rx |-> conn.rx,
                   read |-> conn.read, dropped |-> conn.dropped]
      BY <1>4, <2>1, <2>2, <3>1
    <3> QED BY <1>4, <2>3, <3>1, <3>2, <3>3
  <2>5. \A i \in DOMAIN conn'.tx : IsData(conn'.tx[i])
    <3>1. \A i \in DOMAIN conn.tx : IsData(conn.tx[i])
      BY DEF Running, Flow
    <3>2. ASSUME NEW i \in 1..Len(conn.tx) + 1 PROVE i \in 1..Len(conn.tx) \/ i = Len(conn.tx) + 1
      BY <1>4, LenProperties
    <3> QED BY <1>4, <2>3, <2>4, <3>1, <3>2, AppendProperties, LenProperties
  <2>6. DataOf(conn'.tx) = DataOf(conn.tx) \o <<d>>
    <3>1. DataOf(Append(conn.tx, d)) = Append(DataOf(conn.tx), d)
      BY <1>4, <2>3, DataAppend
    <3>2. Append(DataOf(conn.tx), d) = DataOf(conn.tx) \o <<d>>
      BY <1>5, <2>3, AppendIsConcat
    <3> QED BY <2>4, <3>1, <3>2
  <2>7. PICK a, b, c, e : a = DataOf(leader.sent) /\ b = DataOf(leader.encrypt) /\ c = DataOf(Outgoing(todo)) /\ e = DataOf(conn.tx)
    OBVIOUS
  <2>8. a \o (b \o (c \o (e \o <<d>>))) = (a \o (b \o (c \o e))) \o <<d>>
    <3>1. /\ a \in Seq(Record) /\ b \in Seq(Record) /\ c \in Seq(Record) /\ e \in Seq(Record) /\ <<d>> \in Seq(Record)
          /\ c \o e \in Seq(Record) /\ b \o (c \o e) \in Seq(Record)
      BY <1>5, <2>3, <2>7
    <3>2. c \o (e \o <<d>>) = (c \o e) \o <<d>>
      BY <3>1, ConcatAssociative
    <3>3. b \o ((c \o e) \o <<d>>) = (b \o (c \o e)) \o <<d>>
      BY <3>1, ConcatAssociative
    <3>4. a \o ((b \o (c \o e)) \o <<d>>) = (a \o (b \o (c \o e))) \o <<d>>
      BY <3>1, ConcatAssociative
    <3> QED BY <3>2, <3>3, <3>4
  <2>9. Numbers(conn.written) \o <<d>> = Numbers(n)
    <3>1. PICK p, q : p = Numbers(conn.written) /\ q = Numbers(n)
      OBVIOUS
    <3>2. \A k \in Nat : Data(k) \in Record
      BY DEF Data, Rec, Record
    <3>3. p \in Seq(Record) /\ Len(p) = conn.written /\ q \in Seq(Record) /\ Len(q) = n
      <4>1. conn.written \in Nat /\ n \in Nat
        BY <1>4, <2>3
      <4>2. p = [i \in 1..conn.written |-> Data(i)] /\ q = [i \in 1..n |-> Data(i)]
        BY <3>1 DEF Numbers
      <4>3. p \in [1..conn.written -> Record] /\ q \in [1..n -> Record]
        BY <3>2, <4>1, <4>2
      <4> QED BY <4>1, <4>3, LenProperties
    <3>4. p \o <<d>> = Append(p, d)
      BY <2>3, <3>3, AppendIsConcat
    <3>5. Append(p, d) \in Seq(Record) /\ Len(Append(p, d)) = n
      BY <1>4, <2>2, <2>3, <3>3, AppendProperties
    <3>6. ASSUME NEW i \in 1..n PROVE Append(p, d)[i] = q[i]
      <4>1. q[i] = Data(i)
        BY <3>1, <3>6 DEF Numbers
      <4>2. CASE i = n
        BY <1>4, <2>2, <2>3, <3>3, <4>1, <4>2, AppendProperties
      <4>3. CASE i # n
        <5>1. i \in 1..conn.written
          BY <1>4, <2>2, <3>6, <4>3
        <5>2. Append(p, d)[i] = p[i]
          BY <2>3, <3>3, <5>1, AppendProperties
        <5> QED BY <3>1, <4>1, <5>1, <5>2 DEF Numbers
      <4> QED BY <4>2, <4>3
    <3>7. Append(p, d) = q
      BY <3>3, <3>5, <3>6, SeqEqual
    <3> QED BY <3>1, <3>4, <3>7
  <2>10. WriteFlow'
    <3>1. DataOf(leader'.sent) \o (DataOf(leader'.encrypt) \o (DataOf(Outgoing(todo')) \o DataOf(conn'.tx))) = Numbers(conn'.written)
      BY <1>1, <2>4, <2>6, <2>7, <2>8, <2>9 DEF Running, Flow, WriteFlow
    <3> QED BY <3>1 DEF WriteFlow
  <2>11. ReadFlow'
    BY <1>1, <2>4 DEF Running, Flow, ReadFlow
  <2> QED BY <2>4, <2>5, <2>10, <2>11
<1> QED BY <1>7, <1>8, <1>9, <1>10

LEMMA LeaderFields ==
  ASSUME TypeOK
  PROVE  /\ leader = [state |-> leader.state, fields |-> leader.fields, is_decrypting |-> leader.is_decrypting,
                      ready |-> leader.ready, started |-> leader.started, encrypt |-> leader.encrypt,
                      encrypted |-> leader.encrypted, decrypt |-> leader.decrypt, decrypted |-> leader.decrypted,
                      sent |-> leader.sent, recv |-> leader.recv]
         /\ leader.state \in {"Handshake", "Active", "Closed", "Error", "Panicked"}
         /\ leader.fields \in SUBSET MpcTlsLeaderMsg /\ leader.is_decrypting \in BOOLEAN
         /\ leader.ready \in BOOLEAN /\ leader.started \in BOOLEAN
         /\ leader.encrypt \in Seq(Record) /\ leader.encrypted \in Seq(Record) /\ leader.decrypt \in Seq(Record)
         /\ leader.decrypted \in Seq(Record) /\ leader.sent \in Seq(Record) /\ leader.recv \in Seq(Record)
BY DEF TypeOK

LEMMA SocketFields ==
  ASSUME TypeOK
  PROVE  /\ socket = [in |-> socket.in, out |-> socket.out, server |-> socket.server, sent |-> socket.sent,
                      bad |-> socket.bad]
         /\ socket.in \in Seq(Record) /\ socket.out \in Seq(Record) /\ socket.sent \in Seq(Record)
         /\ socket.server \in {"open", "closed"} /\ socket.bad \in Nat
BY DEF TypeOK

LEMMA ClientFields ==
  ASSUME TypeOK
  PROVE  /\ client = [phase |-> client.phase, plaintext |-> client.plaintext, tls |-> client.tls]
         /\ client.phase \in {"hello", "traffic", "error"}
         /\ client.plaintext \in Seq(Record) /\ client.tls \in Seq(Record)
BY DEF TypeOK

LEMMA LoopFields ==
  ASSUME TypeOK
  PROVE  /\ loop = [handshake_done |-> loop.handshake_done, client_closed |-> loop.client_closed,
                    server_closed |-> loop.server_closed, reading |-> loop.reading, receiving |-> loop.receiving]
         /\ loop.handshake_done \in BOOLEAN /\ loop.client_closed \in BOOLEAN /\ loop.server_closed \in BOOLEAN
         /\ loop.reading \in BOOLEAN /\ loop.receiving \in BOOLEAN
BY DEF TypeOK

LEMMA OutsideKeeps ==
  ASSUME TypeOK, Running, server_closes \/ defer_called \/ verifier_lost
  PROVE  TypeOK' /\ Running'
<1>1. UNCHANGED <<pc, todo, after, loop, client, leader, conn, failure, result>>
  BY DEF server_closes, defer_called, verifier_lost, loopVars
<1>2. CASE server_closes
  <2>1. UNCHANGED <<mailbox, control, verifier>> /\ socket' = [socket EXCEPT !.server = "closed"]
    BY <1>2 DEF server_closes
  <2>2. socket' = [in |-> socket.in, out |-> socket.out, server |-> "closed", sent |-> socket.sent, bad |-> socket.bad]
    BY <2>1, SocketFields
  <2>3. /\ Ordered(todo)' /\ FlightSteps' /\ RecordSteps' /\ ByState' /\ OnTheWay' /\ Flags' /\ InFlow' /\ OutFlow'
    BY <1>1, <2>1, <2>2, RestKept
  <2>4. Control' /\ Flow' /\ failure' = "none"
    BY <1>1, <2>3 DEF Running, Control, First, Delivered, Flow, ReadFlow, WriteFlow
  <2>5. Mail'
    BY <1>1, <2>1, MailSame DEF Running, Own
  <2>6. TypeOK'
    <3>1. socket' \in [in : Seq(Record), out : Seq(Record), server : {"open", "closed"}, sent : Seq(Record), bad : Nat]
      BY <2>2, SocketFields
    <3> QED BY <1>1, <2>1, <3>1 DEF TypeOK
  <2> QED BY <2>3, <2>4, <2>5, <2>6 DEF Running
<1>3. CASE defer_called
  <2>1. /\ UNCHANGED <<socket, verifier>> /\ control = "idle" /\ control' = "called"
        /\ mailbox' = Append(mailbox, Call("DeferDecryption"))
    BY <1>3 DEF defer_called
  <2>2. /\ Ordered(todo)' /\ FlightSteps' /\ RecordSteps' /\ ByState' /\ OnTheWay' /\ Flags' /\ InFlow' /\ OutFlow'
    BY <1>1, <2>1, RestKept
  <2>3. Control' /\ Flow' /\ failure' = "none"
    BY <1>1, <2>1, <2>2 DEF Running, Control, First, Delivered, Flow, ReadFlow, WriteFlow
  <2>4. Mail'
    BY <1>1, <2>1, MailDeferred DEF Running, Own
  <2>5. TypeOK'
    BY <1>1, <2>1, DeferType DEF TypeOK
  <2> QED BY <2>2, <2>3, <2>4, <2>5 DEF Running
<1>4. CASE verifier_lost
  <2>1. UNCHANGED <<mailbox, control, socket>> /\ verifier' = FALSE
    BY <1>4 DEF verifier_lost
  <2>2. /\ Ordered(todo)' /\ FlightSteps' /\ RecordSteps' /\ ByState' /\ OnTheWay' /\ Flags' /\ InFlow' /\ OutFlow'
    BY <1>1, <2>1, RestKept
  <2>3. Control' /\ Flow' /\ failure' = "none"
    BY <1>1, <2>1, <2>2 DEF Running, Control, First, Delivered, Flow, ReadFlow, WriteFlow
  <2>4. Mail'
    BY <1>1, <2>1, MailSame DEF Running, Own
  <2>5. TypeOK'
    <3>1. verifier' \in BOOLEAN
      BY <2>1, Zenon
    <3>2. mailbox' = mailbox /\ control' = control /\ socket' = socket
      BY <2>1
    <3> QED BY <1>1, <3>1, <3>2 DEF TypeOK
  <2> QED BY <2>2, <2>3, <2>4, <2>5 DEF Running
<1> QED BY <1>2, <1>3, <1>4

LEMMA DeferKeeps ==
  ASSUME TypeOK, Running, defer_decryption
  PROVE  TypeOK' /\ Running'
<1>1. /\ UNCHANGED <<pc, todo, after, loop, client, conn, socket, verifier, failure, result>>
      /\ mailbox # <<>> /\ Head(mailbox).op = "DeferDecryption" /\ mailbox' = Tail(mailbox)
      /\ leader' = [leader EXCEPT !.is_decrypting = FALSE, !.ready = FALSE] /\ control' = "answered"
  BY DEF defer_decryption, loopVars
<1>2. leader' = [state |-> leader.state, fields |-> leader.fields, is_decrypting |-> FALSE,
                 ready |-> FALSE, started |-> leader.started, encrypt |-> leader.encrypt,
                 encrypted |-> leader.encrypted, decrypt |-> leader.decrypt, decrypted |-> leader.decrypted,
                 sent |-> leader.sent, recv |-> leader.recv]
  BY <1>1, LeaderFields
<1>3. /\ Ordered(todo)' /\ FlightSteps' /\ RecordSteps' /\ ByState' /\ OnTheWay' /\ Flags' /\ InFlow' /\ OutFlow'
  BY <1>1, <1>2, RestKept
<1>4. Control' /\ Flow' /\ failure' = "none"
  BY <1>1, <1>2, <1>3 DEF Running, Control, First, Delivered, Flow, ReadFlow, WriteFlow
<1>5. mailbox' = Own
  BY <1>1, FirstMail DEF Running, CtrlMsgs
<1>6. Mail'
  BY <1>1, <1>5 DEF Mail, Own
<1>7. TypeOK'
  <2>1. mailbox' \in Seq(Calling)
    BY <1>5, OwnMail DEF Running
  <2>2. leader' \in [state : {"Handshake", "Active", "Closed", "Error", "Panicked"}, fields : SUBSET MpcTlsLeaderMsg,
                     is_decrypting : BOOLEAN, ready : BOOLEAN, started : BOOLEAN, encrypt : Seq(Record),
                     encrypted : Seq(Record), decrypt : Seq(Record), decrypted : Seq(Record),
                     sent : Seq(Record), recv : Seq(Record)]
    BY <1>2, LeaderFields
  <2> QED BY <1>1, <2>1, <2>2 DEF TypeOK
<1> QED BY <1>3, <1>4, <1>6, <1>7 DEF Running

\* A record put behind the others.
LEMMA BehindOthers ==
  ASSUME NEW s \in Seq(Record), NEW r \in Record
  PROVE  /\ Append(s, r) \in Seq(Record) /\ Append(s, r) # <<>> /\ Len(Append(s, r)) = Len(s) + 1
         /\ s = <<>> => Append(s, r) = <<r>> /\ Head(Append(s, r)) = r /\ Tail(Append(s, r)) = <<>>
         /\ s # <<>> => Head(Append(s, r)) = Head(s) /\ Tail(Append(s, r)) = Append(Tail(s), r) /\ Tail(s) \in Seq(Record)
         /\ DataOf(Append(s, r)) = DataOf(s) \o (IF IsData(r) THEN <<r>> ELSE <<>>)
<1>1. Append(s, r) \in Seq(Record) /\ Append(s, r) # <<>> /\ Len(Append(s, r)) = Len(s) + 1
  BY AppendProperties, EmptySeq, LenProperties
<1>2. s = <<>> => Append(s, r) = <<r>> /\ Head(Append(s, r)) = r /\ Tail(Append(s, r)) = <<>>
  OBVIOUS
<1>3. ASSUME s # <<>>
      PROVE Head(Append(s, r)) = Head(s) /\ Tail(Append(s, r)) = Append(Tail(s), r) /\ Tail(s) \in Seq(Record)
  <2>1. PICK h, t : h = Head(s) /\ t = Tail(s)
    OBVIOUS
  <2>2. h \in Record /\ t \in Seq(Record)
    BY <1>3, <2>1, HeadTailProperties
  <2>3. s = <<h>> \o t
    BY <1>3, <2>1
  <2>4. Append(s, r) = (<<h>> \o t) \o <<r>>
    BY <2>3, AppendIsConcat
  <2>5. (<<h>> \o t) \o <<r>> = <<h>> \o (t \o <<r>>)
    BY <2>2, ConcatAssociative
  <2>6. PICK u : u = t \o <<r>>
    OBVIOUS
  <2>7. u = Append(t, r) /\ u \in Seq(Record)
    BY <2>2, <2>6, AppendIsConcat
  <2>8. Append(s, r) = <<h>> \o u
    BY <2>4, <2>5, <2>6
  <2>9. Head(<<h>> \o u) = h /\ Tail(<<h>> \o u) = u
    BY <2>2, <2>7
  <2> QED BY <2>1, <2>2, <2>7, <2>8, <2>9
<1>4. DataOf(Append(s, r)) = DataOf(s) \o (IF IsData(r) THEN <<r>> ELSE <<>>)
  <2>1. DataOf(s) \in Seq(Record)
    BY DataSeq
  <2>2. DataOf(Append(s, r)) = IF IsData(r) THEN Append(DataOf(s), r) ELSE DataOf(s)
    BY DataAppend
  <2> QED BY <2>1, <2>2, AppendIsConcat, ConcatEmptySeq
<1> QED BY <1>1, <1>2, <1>3, <1>4

\* The server's Finished is behind its Hello, and only data and close_notify follow.
LEMMA NextSent ==
  ASSUME TypeOK, Running, server_sends
  PROVE  /\ UNCHANGED <<pc, todo, after, loop, client, mailbox, leader, conn, control, verifier, failure, result>>
         /\ socket.server = "open" /\ socket.bad = 0 /\ socket'.out = socket.out /\ socket'.server = "open"
         /\ socket' \in [in : Seq(Record), out : Seq(Record), server : {"open", "closed"}, sent : Seq(Record), bad : Nat]
         /\ \E r \in Record :
              /\ socket'.in = Append(socket.in, r)
              /\ \/ r = Bad /\ socket'.sent = socket.sent /\ socket'.bad = 1
                 \/ /\ socket'.bad = 0 /\ socket'.sent = Append(socket.sent, r)
                    /\ Len(socket.sent) = 0 => r = Hello
                    /\ Len(socket.sent) = 1 => r = Rec("Finished", 0) /\ Has("Finished", socket.out)
                    /\ Len(socket.sent) >= 2 => r.typ \in {"ApplicationData", "close_notify"}
<1>1. /\ UNCHANGED <<pc, todo, after, loop, client, mailbox, leader, conn, control, verifier, failure, result>>
      /\ socket.server = "open" /\ socket.bad = 0
      /\ Stage = 1 => Sees("Finished")
      /\ \/ \E r \in {NextRecord} \union (IF Stage > 1 THEN {Rec("close_notify", 0)} ELSE {}) :
              socket' = [socket EXCEPT !.in = Append(@, r), !.sent = Append(@, r)]
         \/ socket' = [socket EXCEPT !.in = Append(@, Rec("Bad", 0)), !.bad = @ + 1]
  BY DEF server_sends, loopVars
<1>2. Len(socket.sent) \in Nat /\ MaxReceived \in Nat
  BY SocketFields, SessionAssumption, LenProperties
<1>3. CASE \E r \in {NextRecord} \union (IF Stage > 1 THEN {Rec("close_notify", 0)} ELSE {}) :
              socket' = [socket EXCEPT !.in = Append(@, r), !.sent = Append(@, r)]
  <2>1. PICK r \in {NextRecord} \union (IF Stage > 1 THEN {Rec("close_notify", 0)} ELSE {}) :
              socket' = [socket EXCEPT !.in = Append(@, r), !.sent = Append(@, r)]
    BY <1>3
  <2>0. r = NextRecord \/ (r = Rec("close_notify", 0) /\ Stage > 1)
    OBVIOUS
  <2>2. /\ r \in Record
        /\ Len(socket.sent) = 0 => r = Hello
        /\ Len(socket.sent) = 1 => r = Rec("Finished", 0)
        /\ Len(socket.sent) >= 2 => r.typ \in {"ApplicationData", "close_notify"}
    <3>1. Rec("close_notify", 0) \in Record /\ Rec("close_notify", 0).typ = "close_notify"
      BY DEF Rec, Record
    <3>2. CASE Len(socket.sent) = 0
      <4>1. r = Rec("Hello", 0)
        BY <2>0, <3>2 DEF NextRecord, Stage
      <4>2. r \in Record /\ r = Hello
        BY <4>1 DEF Rec, Record, Hello
      <4> QED BY <3>2, <4>2
    <3>3. CASE Len(socket.sent) = 1
      <4>1. r = Rec("Finished", 0)
        BY <2>0, <3>3 DEF NextRecord, Stage
      <4>2. r \in Record
        BY <4>1 DEF Rec, Record
      <4> QED BY <3>3, <4>1, <4>2
    <3>4. CASE Len(socket.sent) \in 2..(MaxReceived + 1)
      <4>1. NextRecord = Rec("ApplicationData", Len(socket.sent) - 1)
        BY <1>2, <3>4 DEF NextRecord, Stage, Data
      <4>2. NextRecord \in Record /\ NextRecord.typ = "ApplicationData"
        BY <1>2, <3>4, <4>1 DEF Rec, Record
      <4>3. r = NextRecord \/ r = Rec("close_notify", 0)
        BY <2>0
      <4>4. Len(socket.sent) # 0 /\ Len(socket.sent) # 1
        <5>1. \A n, m \in Nat : n \in 2..(m + 1) => n # 0 /\ n # 1
          OBVIOUS
        <5> QED BY <1>2, <3>4, <5>1, Zenon
      <4> QED BY <3>1, <4>2, <4>3, <4>4
    <3>5. CASE Len(socket.sent) \notin {0, 1} /\ Len(socket.sent) \notin 2..(MaxReceived + 1)
      <4>1. NextRecord = Rec("close_notify", 0)
        BY <1>2, <3>5 DEF NextRecord, Stage
      <4>2. r = Rec("close_notify", 0)
        BY <2>0, <4>1
      <4> QED BY <1>2, <3>1, <3>5, <4>2
    <3> QED BY <3>2, <3>3, <3>4, <3>5
  <2>3. PICK x, y : x = Append(socket.in, r) /\ y = Append(socket.sent, r)
    OBVIOUS
  <2>4. x \in Seq(Record) /\ y \in Seq(Record)
    BY <2>2, <2>3, SocketFields
  <2>5. socket' = [in |-> x, out |-> socket.out, server |-> socket.server, sent |-> y, bad |-> socket.bad]
    BY <2>1, <2>3, SocketFields
  <2>6. socket' \in [in : Seq(Record), out : Seq(Record), server : {"open", "closed"}, sent : Seq(Record), bad : Nat]
    BY <2>4, <2>5, SocketFields
  <2>7. Len(socket.sent) = 1 => Has("Finished", socket.out)
    BY <1>1 DEF Stage, Sees, Has
  <2> QED BY <1>1, <2>2, <2>3, <2>5, <2>6, <2>7
<1>4. CASE socket' = [socket EXCEPT !.in = Append(@, Rec("Bad", 0)), !.bad = @ + 1]
  <2>1. PICK r, x : r = Rec("Bad", 0) /\ x = Append(socket.in, r)
    OBVIOUS
  <2>2. r \in Record /\ r = Bad
    BY <2>1 DEF Rec, Record, Bad
  <2>3. x \in Seq(Record)
    BY <2>1, <2>2, SocketFields
  <2>4. socket' = [in |-> x, out |-> socket.out, server |-> socket.server, sent |-> socket.sent, bad |-> 1]
    <3>1. socket' = [in |-> x, out |-> socket.out, server |-> socket.server, sent |-> socket.sent, bad |-> socket.bad + 1]
      BY <1>4, <2>1, SocketFields
    <3>0. socket.bad = 0
      BY <1>1
    <3>2. socket.bad + 1 = 1
      BY <3>0
    <3> QED BY <3>1, <3>2
  <2>5. socket' \in [in : Seq(Record), out : Seq(Record), server : {"open", "closed"}, sent : Seq(Record), bad : Nat]
    BY <2>3, <2>4, SocketFields
  <2> QED BY <1>1, <2>1, <2>2, <2>4, <2>5
<1> QED BY <1>1, <1>3, <1>4

LEMMA LoneBehind ==
  ASSUME NEW s \in Seq(Record), NEW r \in Record, r.typ # "Finished" \/ s = <<>>,
         Has("Finished", s) => Head(s).typ = "Finished" /\ ~Has("Finished", Tail(s))
  PROVE  Has("Finished", Append(s, r)) => Head(Append(s, r)).typ = "Finished" /\ ~Has("Finished", Tail(Append(s, r)))
<1>1. Has("Finished", Append(s, r)) <=> Has("Finished", s) \/ r.typ = "Finished"
  BY HasAppend
<1>2. CASE s = <<>>
  <2>1. Head(Append(s, r)) = r /\ Tail(Append(s, r)) = <<>> /\ ~Has("Finished", s)
    BY <1>2, BehindOthers, HasEmpty
  <2>2. ~Has("Finished", Tail(Append(s, r)))
    BY <2>1, HasEmpty
  <2> QED BY <1>1, <2>1, <2>2
<1>3. CASE s # <<>>
  <2>1. Head(Append(s, r)) = Head(s) /\ Tail(Append(s, r)) = Append(Tail(s), r) /\ Tail(s) \in Seq(Record)
    BY <1>3, BehindOthers
  <2>2. Has("Finished", Append(Tail(s), r)) <=> Has("Finished", Tail(s)) \/ r.typ = "Finished"
    BY <2>1, HasAppend
  <2> QED BY <1>1, <1>3, <2>1, <2>2
<1> QED BY <1>2, <1>3

LEMMA Associative == \A s, t, u \in Seq(Record) : (s \o t) \o u = s \o (t \o u)
BY ConcatAssociative

LEMMA UpToTwo == \A n \in Nat : n = 0 \/ n = 1 \/ n >= 2
OBVIOUS

LEMMA ServerSendsKeeps ==
  ASSUME TypeOK, Running, server_sends
  PROVE  TypeOK' /\ Running'
<1>1. /\ UNCHANGED <<pc, todo, after, loop, client, mailbox, leader, conn, control, verifier, failure, result>>
      /\ socket.server = "open" /\ socket.bad = 0 /\ socket'.out = socket.out /\ socket'.server = "open"
      /\ socket' \in [in : Seq(Record), out : Seq(Record), server : {"open", "closed"}, sent : Seq(Record), bad : Nat]
  BY NextSent
<1>2. PICK r \in Record :
        /\ socket'.in = Append(socket.in, r)
        /\ \/ r = Bad /\ socket'.sent = socket.sent /\ socket'.bad = 1
           \/ /\ socket'.bad = 0 /\ socket'.sent = Append(socket.sent, r)
              /\ Len(socket.sent) = 0 => r = Hello
              /\ Len(socket.sent) = 1 => r = Rec("Finished", 0) /\ Has("Finished", socket.out)
              /\ Len(socket.sent) >= 2 => r.typ \in {"ApplicationData", "close_notify"}
  BY NextSent
<1>3. /\ Hello \in Record /\ Hello.typ = "Hello" /\ Bad \in Record /\ Bad.typ = "Bad" /\ ~IsData(Bad)
      /\ Rec("Finished", 0).typ = "Finished"
  BY DEF Hello, Bad, Rec, Record, IsData
<1>4. /\ socket.in \in Seq(Record) /\ socket.sent \in Seq(Record) /\ Len(socket.sent) \in Nat
      /\ Len(socket.sent) = 0 => socket.sent = <<>>
      /\ socket.sent = <<>> => Len(socket.sent) = 0
      /\ Append(socket.sent, r) # <<>> /\ Len(Append(socket.sent, r)) = Len(socket.sent) + 1
  <2>1. PICK u : u = socket.sent
    OBVIOUS
  <2>2. u \in Seq(Record)
    BY <2>1, SocketFields
  <2>3. Len(u) \in Nat /\ (Len(u) = 0 => u = <<>>) /\ (u = <<>> => Len(u) = 0)
    BY <2>2, LenProperties
  <2>4. Append(u, r) # <<>> /\ Len(Append(u, r)) = Len(u) + 1
    BY <2>2, BehindOthers
  <2> QED BY <2>1, <2>2, <2>3, <2>4, SocketFields
<1>00. Len(socket.sent) \in Nat
  BY <1>4
<1>0. Len(socket.sent) = 0 \/ Len(socket.sent) = 1 \/ Len(socket.sent) >= 2
  BY <1>00, UpToTwo, Zenon
<1>5. Len(socket'.sent) \in Nat /\ Len(socket'.sent) >= Len(socket.sent)
  BY <1>2, <1>4
<1>6. \A typ : Has(typ, socket'.in) <=> Has(typ, socket.in) \/ r.typ = typ
  BY <1>2, <1>4, HasAppend
<1>7. leader.state = "Handshake" => Len(socket.sent) <= 1 /\ ~Has("Finished", socket.out)
  BY DEF Running, ByState
<1>8. ~loop.server_closed
  BY <1>1 DEF Running, Flags
<1>9. r.typ = "Finished" => /\ Len(socket.sent) = 1 /\ Len(socket.sent) <= 1 /\ ~(Len(socket.sent) >= 2)
                           /\ leader.state # "Handshake" /\ socket'.bad = 0 /\ Len(socket'.sent) >= 2
  <2>1. Len(socket.sent) = 0 \/ Len(socket.sent) = 1 \/ Len(socket.sent) >= 2
    BY <1>0
  <2>2. SUFFICES ASSUME r.typ = "Finished" PROVE Len(socket.sent) = 1 /\ leader.state # "Handshake" /\ socket'.bad = 0
                                                   /\ socket'.sent = Append(socket.sent, r)
    <3>1. PICK n : n = Len(socket.sent)
      OBVIOUS
    <3>2. Len(Append(socket.sent, r)) = n + 1 /\ n \in Nat
      BY <1>4, <3>1
    <3>3. n = 1 => n <= 1 /\ ~(n >= 2) /\ n + 1 >= 2
      BY <3>2
    <3> QED BY <3>1, <3>2, <3>3
  <2> QED BY <1>2, <1>3, <1>7, <2>1, <2>2
<1>10. r.typ = "Hello" => r = Hello /\ socket.sent = <<>> /\ socket'.sent # <<>> /\ socket'.bad = 0
  <2>1. Len(socket.sent) = 0 \/ Len(socket.sent) = 1 \/ Len(socket.sent) >= 2
    BY <1>0
  <2> QED BY <1>2, <1>3, <1>4, <2>1
<1>11. Ordered(todo)' /\ FlightSteps'
  BY <1>1 DEF Running, Ordered, FlightSteps, First, InFlight
<1>12. RecordSteps'
  <2>1. First({"GetServerFinishedVd", "StartTraffic"}) => Len(socket'.sent) >= 2 /\ FinishedGone'
    <3>1. SUFFICES ASSUME First({"GetServerFinishedVd", "StartTraffic"})
                   PROVE  Len(socket'.sent) >= 2 /\ FinishedGone'
      OBVIOUS
    <3>2. Len(socket.sent) >= 2 /\ FinishedGone
      BY <3>1 DEF Running, RecordSteps
    <3>3. r.typ # "Finished"
      BY <1>9, <3>2
    <3>4. ~Has("Finished", socket'.in)
      BY <1>6, <3>2, <3>3 DEF FinishedGone
    <3> QED BY <1>1, <1>4, <1>5, <3>2, <3>4 DEF FinishedGone
  <2>2. ~Clean => ~Clean'
    BY <1>1 DEF Clean
  <2> QED BY <1>1, <2>1, <2>2 DEF Running, RecordSteps, First
<1>13. socket.in \in {<<>>, <<Hello>>} /\ Len(socket.sent) = 1 /\ leader.state # "Handshake" => socket.in = <<>>
  <2>1. Has("Hello", <<Hello>>)
    BY <1>3, HasOne
  <2> QED BY <2>1 DEF Running, ByState
<1>14. Len(socket.sent) <= 1 => socket.in \in {<<>>, <<Hello>>} /\ leader.decrypt = <<>> /\ leader.decrypted = <<>>
                                /\ ~Within({"PushIncoming"}, todo)
  BY <1>1 DEF Running, OnTheWay
<1>15. ByState'
  <2>1. leader.state = "Handshake" => Len(socket'.sent) <= 1 /\ socket'.in \in {<<>>, <<Hello>>, <<Bad>>, <<Hello, Bad>>}
    <3>1. SUFFICES ASSUME leader.state = "Handshake"
                   PROVE Len(socket'.sent) <= 1 /\ socket'.in \in {<<>>, <<Hello>>, <<Bad>>, <<Hello, Bad>>}
      OBVIOUS
    <3>2. socket.in \in {<<>>, <<Hello>>} /\ Len(socket.sent) <= 1
      BY <1>7, <1>14, <3>1
    <3>3. CASE r = Bad /\ socket'.sent = socket.sent
      <4>1. Append(<<>>, Bad) = <<Bad>> /\ Append(<<Hello>>, Bad) = <<Hello, Bad>>
        <5>1. PICK x, y : x = Bad /\ y = Hello
          OBVIOUS
        <5>2. x \in Record /\ y \in Record
          BY <1>3, <5>1
        <5>3. Append(<<>>, x) = <<x>>
          BY <5>2
        <5>4. Append(<<y>>, x) = <<y, x>>
          <6>1. <<y>> \in Seq(Record) /\ Append(<<y>>, x) \in Seq(Record) /\ <<y, x>> \in Seq(Record)
            BY <5>2
          <6>2. /\ Len(Append(<<y>>, x)) = 2 /\ Len(<<y, x>>) = 2
                /\ Append(<<y>>, x)[1] = y /\ Append(<<y>>, x)[2] = x /\ <<y, x>>[1] = y /\ <<y, x>>[2] = x
            BY <5>2
          <6>3. \A k \in 1..2 : k = 1 \/ k = 2
            OBVIOUS
          <6> QED BY <6>1, <6>2, <6>3, SeqEqual
        <5> QED BY <5>1, <5>3, <5>4
      <4> QED BY <1>2, <3>2, <3>3, <4>1
    <3>4. CASE socket'.sent = Append(socket.sent, r) /\ Len(socket.sent) = 0 /\ r = Hello
      <4>1. socket.in = <<>>
        <5>1. socket.in \in {<<>>, <<Bad>>}
          BY <1>4, <3>4 DEF Running, ByState
        <5>2. ~Has("Bad", socket.in)
          BY <1>1 DEF Running, OnTheWay
        <5>3. Has("Bad", <<Bad>>)
          BY <1>3, HasOne
        <5> QED BY <5>1, <5>2, <5>3
      <4>2. socket'.in = <<Hello>>
        BY <1>2, <1>3, <3>4, <4>1, BehindOthers
      <4>3. Len(socket'.sent) = 1
        BY <1>4, <3>4
      <4> QED BY <4>2, <4>3
    <3>5. (r = Bad /\ socket'.sent = socket.sent) \/ (socket'.sent = Append(socket.sent, r) /\ Len(socket.sent) = 0 /\ r = Hello)
      <4>1. Len(socket.sent) = 0 \/ Len(socket.sent) = 1
        BY <1>0, <3>2
      <4> QED BY <1>2, <1>7, <3>1, <4>1
    <3> QED BY <3>3, <3>4, <3>5
  <2>2. Has("Hello", socket'.in) => leader.state = "Handshake" /\ ~InFlight
    BY <1>6, <1>10 DEF Running, ByState
  <2>3. socket'.sent = <<>> => leader.state = "Handshake" /\ ~InFlight /\ socket'.in \in {<<>>, <<Bad>>}
    <3>1. SUFFICES ASSUME socket'.sent = <<>> PROVE leader.state = "Handshake" /\ ~InFlight /\ socket'.in = <<Bad>>
      OBVIOUS
    <3>2. r = Bad /\ socket.sent = <<>>
      BY <1>2, <1>4, <3>1
    <3>3. socket.in \in {<<>>, <<Bad>>} /\ leader.state = "Handshake" /\ ~InFlight
      BY <3>2 DEF Running, ByState
    <3>4. ~Has("Bad", socket.in) /\ Has("Bad", <<Bad>>)
      BY <1>1, <1>3, HasOne DEF Running, OnTheWay
    <3>5. socket.in = <<>>
      BY <3>3, <3>4
    <3>6. socket'.in = <<Bad>>
      BY <1>2, <1>3, <3>2, <3>5, BehindOthers
    <3> QED BY <3>3, <3>6
  <2>4. InFlight' <=> InFlight
    BY <1>1 DEF InFlight, First
  <2>5. /\ leader.state \in {"Handshake", "Active", "Closed"}
        /\ leader.state = "Handshake" =>
             /\ leader.encrypt = <<>> /\ leader.encrypted = <<>> /\ leader.decrypt = <<>> /\ leader.decrypted = <<>>
             /\ ~Has("Finished", client.tls) /\ ~Has("Finished", socket.out) /\ ~leader.started
        /\ leader.state = "Closed" =>
             /\ loop.server_closed /\ leader.encrypt = <<>> /\ leader.decrypt = <<>>
             /\ ~Has("Finished", leader.decrypted)
    BY DEF Running, ByState
  <2> QED BY <1>1, <2>1, <2>2, <2>3, <2>4, <2>5 DEF ByState
<1>16. OnTheWay'
  <2>1. socket'.bad = 0 /\ Len(socket'.sent) <= 1 => socket.sent = <<>> /\ socket'.in = <<Hello>>
    <3>1. SUFFICES ASSUME socket'.bad = 0, Len(socket'.sent) <= 1 PROVE socket.sent = <<>> /\ socket'.in = <<Hello>>
      OBVIOUS
    <3>2. socket'.sent = Append(socket.sent, r) /\ Len(socket.sent) = 0 /\ r = Hello
      BY <1>2, <1>4, <3>1
    <3>3. socket.in \in {<<>>, <<Bad>>} /\ ~Has("Bad", socket.in) /\ Has("Bad", <<Bad>>)
      BY <1>1, <1>3, <1>4, <3>2, HasOne DEF Running, ByState, OnTheWay
    <3>4. socket.in = <<>>
      BY <3>3
    <3>5. socket'.in = <<Hello>>
      BY <1>2, <1>3, <3>2, <3>4, BehindOthers
    <3> QED BY <1>4, <3>2, <3>5
  <2>2. r.typ = "Finished" => socket.in = <<>>
    <3>1. SUFFICES ASSUME r.typ = "Finished" PROVE socket.in = <<>>
      OBVIOUS
    <3>2. Len(socket.sent) = 1 /\ leader.state # "Handshake"
      BY <1>9, <3>1
    <3>3. Len(socket.sent) <= 1
      BY <3>2
    <3> QED BY <1>13, <1>14, <3>2, <3>3
  <2>3. Has("Finished", socket'.in) => Head(socket'.in).typ = "Finished" /\ ~Has("Finished", Tail(socket'.in))
    <3>1. Has("Finished", socket.in) => Head(socket.in).typ = "Finished" /\ ~Has("Finished", Tail(socket.in))
      BY DEF Running, OnTheWay, Lone
    <3> QED BY <1>2, <1>4, <2>2, <3>1, LoneBehind
  <2>4. Has("Finished", socket'.in) => Len(socket'.sent) >= 2
    <3>1. CASE r.typ = "Finished"
      BY <1>9, <3>1
    <3>2. CASE Has("Finished", socket.in)
      <4>1. Len(socket.sent) >= 2
        BY <3>2 DEF Running, OnTheWay, Lone
      <4> QED BY <1>4, <1>5, <4>1
    <3> QED BY <1>6, <3>1, <3>2
  <2>5. Has("Finished", socket'.in) => leader.decrypt = <<>> /\ leader.decrypted = <<>> /\ ~Within({"PushIncoming"}, todo)
    <3>1. CASE r.typ = "Finished"
      <4>1. Len(socket.sent) <= 1
        BY <1>9, <3>1
      <4> QED BY <1>14, <4>1
    <3>2. CASE Has("Finished", socket.in)
      BY <3>2 DEF Running, OnTheWay
    <3> QED BY <1>6, <3>1, <3>2
  <2>6. socket'.bad = 0 => ~Has("Bad", socket'.in)
    <3>1. socket'.bad = 0 => r.typ # "Bad"
      <4>1. Len(socket.sent) = 0 \/ Len(socket.sent) = 1 \/ Len(socket.sent) >= 2
        BY <1>0
      <4> QED BY <1>2, <1>3, <4>1
    <3>2. ~Has("Bad", socket.in)
      BY <1>1 DEF Running, OnTheWay
    <3> QED BY <1>6, <3>1, <3>2
  <2>7. Lone(socket.in)' <=> (Has("Finished", socket'.in) => Head(socket'.in).typ = "Finished"
                               /\ ~Has("Finished", Tail(socket'.in)) /\ Len(socket'.sent) >= 2)
    BY DEF Lone
  <2>8. Lone(Incoming(todo))' /\ Lone(leader.decrypt)' /\ Lone(leader.decrypted)'
    BY <1>1, <1>4, <1>5 DEF Running, OnTheWay, Lone
  <2>9. /\ Has("Finished", Incoming(todo)) => leader.decrypt = <<>> /\ leader.decrypted = <<>>
        /\ Has("Finished", leader.decrypt) => leader.decrypted = <<>>
        /\ ~Has("Bad", Incoming(todo)) /\ ~Has("Bad", leader.decrypt)
        /\ ~Has("none", leader.encrypt) /\ ~Has("none", leader.encrypted)
    BY <1>1 DEF Running, OnTheWay
  <2>10. socket'.bad = 0 /\ Len(socket'.sent) <= 1 => leader.decrypt = <<>> /\ leader.decrypted = <<>> /\ ~Within({"PushIncoming"}, todo)
    BY <1>4, <1>14, <2>1
  <2> QED BY <1>1, <2>1, <2>3, <2>4, <2>5, <2>6, <2>7, <2>8, <2>9, <2>10 DEF OnTheWay
<1>17. Flags'
  <2>1. leader.started => Len(socket'.sent) >= 2 /\ FinishedGone'
    <3>1. SUFFICES ASSUME leader.started PROVE  Len(socket'.sent) >= 2 /\ FinishedGone'
      OBVIOUS
    <3>2. Len(socket.sent) >= 2 /\ FinishedGone
      BY <3>1 DEF Running, Flags
    <3>3. r.typ # "Finished"
      BY <1>9, <3>2
    <3>4. ~Has("Finished", socket'.in)
      BY <1>6, <3>2, <3>3 DEF FinishedGone
    <3> QED BY <1>1, <1>4, <1>5, <3>2, <3>4 DEF FinishedGone
  <2>2. ~Clean => ~Clean'
    BY <1>1 DEF Clean
  <2> QED BY <1>1, <1>8, <2>1, <2>2 DEF Running, Flags
<1>18. Flow'
  <2>1. DataOf(socket'.in) = DataOf(socket.in) \o (IF IsData(r) THEN <<r>> ELSE <<>>)
    BY <1>2, <1>4, BehindOthers
  <2>2. DataOf(socket'.sent) = DataOf(socket.sent) \o (IF IsData(r) THEN <<r>> ELSE <<>>)
    <3>1. CASE r = Bad /\ socket'.sent = socket.sent
      <4>1. DataOf(socket.sent) \in Seq(Record)
        BY <1>4, DataSeq
      <4> QED BY <1>3, <3>1, <4>1, ConcatEmptySeq
    <3>2. CASE socket'.sent = Append(socket.sent, r)
      BY <1>4, <3>2, BehindOthers
    <3> QED BY <1>2, <3>1, <3>2
  <2>3. PICK a, b, c, d, e, x : /\ a = DataOf(leader.recv) /\ b = DataOf(leader.decrypt) /\ c = DataOf(Incoming(todo))
                                /\ d = DataOf(socket.in) /\ e = DataOf(socket.sent) /\ x = IF IsData(r) THEN <<r>> ELSE <<>>
    OBVIOUS
  <2>4. a \in Seq(Record) /\ b \in Seq(Record) /\ c \in Seq(Record) /\ d \in Seq(Record) /\ x \in Seq(Record)
    <3>1. Incoming(todo) \in Seq(Record)
      BY PushedSeq DEF TypeOK, Incoming
    <3>2. x \in Seq(Record)
      BY <2>3
    <3> QED BY <1>4, <2>3, <3>1, <3>2, LeaderFields, DataSeq
  <2>5. a \o (b \o (c \o (d \o x))) = (a \o (b \o (c \o d))) \o x
    <3>1. PICK p, q : p = c \o d /\ q = b \o p
      OBVIOUS
    <3>2. a \in Seq(Record)
      BY <2>4
    <3>3. b \in Seq(Record)
      BY <2>4
    <3>4. c \in Seq(Record)
      BY <2>4
    <3>5. d \in Seq(Record)
      BY <2>4
    <3>6. x \in Seq(Record)
      BY <2>4
    <3>7. p \in Seq(Record)
      BY <3>1, <3>4, <3>5
    <3>8. q \in Seq(Record)
      BY <3>1, <3>3, <3>7
    <3>9. (c \o d) \o x = c \o (d \o x)
      BY <3>4, <3>5, <3>6, Associative, Zenon
    <3>10. (b \o p) \o x = b \o (p \o x)
      BY <3>3, <3>7, <3>6, Associative, Zenon
    <3>11. (a \o q) \o x = a \o (q \o x)
      BY <3>2, <3>8, <3>6, Associative, Zenon
    <3> QED BY <3>1, <3>9, <3>10, <3>11, Zenon
  <2>6. InFlow'
    <3>1. ~First({"Refused"}) => e = a \o (b \o (c \o d))
      BY <2>3 DEF Running, Flow, InFlow
    <3>2. ~First({"Refused"}) => e \o x = a \o (b \o (c \o (d \o x)))
      BY <2>5, <3>1
    <3>3. First({"Refused"})' <=> First({"Refused"})
      BY <1>1 DEF First
    <3>4. DataOf(socket'.in) = d \o x /\ DataOf(socket'.sent) = e \o x
      BY <2>1, <2>2, <2>3
    <3> QED BY <1>1, <2>3, <3>2, <3>3, <3>4 DEF InFlow
  <2> QED BY <1>1, <2>6 DEF Running, Flow, ReadFlow, OutFlow, WriteFlow
<1>19. Control' /\ failure' = "none"
  BY <1>1 DEF Running, Control, First, Delivered
<1>20. Mail'
  BY <1>1, MailSame DEF Running, Own
<1>21. TypeOK'
  BY <1>1 DEF TypeOK
<1> QED BY <1>11, <1>12, <1>15, <1>16, <1>17, <1>18, <1>19, <1>20, <1>21 DEF Running

\* What the client has written is on its way to the server.
LEMMA OutMoves ==
  ASSUME TypeOK, OutFlow
  PROVE  /\ socket.out \o client.tls \in Seq(Record)
         /\ \A typ : Has(typ, socket.out \o client.tls) <=> Has(typ, socket.out) \/ Has(typ, client.tls)
         /\ DataOf(socket.out \o client.tls) \o (DataOf(<<>>) \o DataOf(leader.encrypted)) = DataOf(leader.sent)
<1>1. PICK a, b, c : a = DataOf(socket.out) /\ b = DataOf(client.tls) /\ c = DataOf(leader.encrypted)
  OBVIOUS
<1>2. a \in Seq(Record)
  BY <1>1, SocketFields, DataSeq
<1>3. b \in Seq(Record)
  BY <1>1, ClientFields, DataSeq
<1>4. c \in Seq(Record)
  BY <1>1, LeaderFields, DataSeq
<1>5. DataOf(socket.out \o client.tls) = a \o b
  BY <1>1, SocketFields, ClientFields, DataConcat
<1>6. DataOf(<<>>) \o c = c
  BY <1>4, DataEmpty, ConcatEmptySeq
<1>7. (a \o b) \o c = a \o (b \o c)
  BY <1>2, <1>3, <1>4, Associative, Zenon
<1>8. socket.out \o client.tls \in Seq(Record)
  BY SocketFields, ClientFields
<1>9. \A typ : Has(typ, socket.out \o client.tls) <=> Has(typ, socket.out) \/ Has(typ, client.tls)
  BY SocketFields, ClientFields, HasConcat
<1>10. DataOf(socket.out \o client.tls) \o (DataOf(<<>>) \o DataOf(leader.encrypted)) = (a \o b) \o c
  BY <1>1, <1>5, <1>6
<1> QED BY <1>1, <1>7, <1>8, <1>9, <1>10 DEF OutFlow

LEMMA WriteKeeps ==
  ASSUME TypeOK, Running, write_tls, Live
  PROVE  TypeOK' /\ (Running' \/ (FailureHasCause' /\ result' = "Err"))
<1>1. /\ pc = "write" /\ ~loop.client_closed /\ UNCHANGED <<mailbox, leader, conn, control, verifier>>
      /\ \/ /\ pc' = "forward" /\ socket' = Written /\ client' = [client EXCEPT !.tls = <<>>]
            /\ UNCHANGED <<todo, after, loop, failure, result>>
         \/ socket.server # "open" /\ Fails("write") /\ UNCHANGED socket
  BY DEF write_tls
<1>2. CASE /\ pc' = "forward" /\ socket' = Written /\ client' = [client EXCEPT !.tls = <<>>]
           /\ UNCHANGED <<todo, after, loop, failure, result>>
  <2>1. PICK x : x = socket.out \o client.tls
    OBVIOUS
  <2>2. /\ x \in Seq(Record) /\ \A typ : Has(typ, x) <=> Has(typ, socket.out) \/ Has(typ, client.tls)
        /\ DataOf(x) \o (DataOf(<<>>) \o DataOf(leader.encrypted)) = DataOf(leader.sent)
    BY <2>1, OutMoves DEF Running, Flow
  <2>3. socket' = [in |-> socket.in, out |-> x, server |-> socket.server, sent |-> socket.sent, bad |-> socket.bad]
    BY <1>2, <2>1, SocketFields DEF Written
  <2>4. client' = [phase |-> client.phase, plaintext |-> client.plaintext, tls |-> <<>>]
    BY <1>2, ClientFields
  <2>5. TypeOK'
    <3>1. socket' \in [in : Seq(Record), out : Seq(Record), server : {"open", "closed"}, sent : Seq(Record), bad : Nat]
      BY <2>2, <2>3, SocketFields
    <3>2. client' \in [phase : {"hello", "traffic", "error"}, plaintext : Seq(Record), tls : Seq(Record)]
      <4>1. <<>> \in Seq(Record)
        OBVIOUS
      <4> QED BY <2>4, <4>1, ClientFields
    <3> QED BY <1>1, <1>2, <3>1, <3>2 DEF TypeOK
  <2>6. Ordered(todo)' /\ FlightSteps'
    BY <1>1, <1>2 DEF Running, Ordered, FlightSteps, First, InFlight
  <2>7. RecordSteps'
    BY <1>1, <1>2, <2>3 DEF Running, RecordSteps, First, FinishedGone, Clean
  <2>8. ~Has("Finished", <<>>) /\ NoData(<<>>)
    BY HasEmpty DEF NoData
  <2>9. ByState'
    BY <1>1, <1>2, <2>2, <2>3, <2>4, <2>8 DEF Running, ByState, First, InFlight
  <2>10. OnTheWay'
    BY <1>1, <1>2, <2>3 DEF Running, OnTheWay, Lone
  <2>11. Flags'
    BY <1>1, <1>2, <2>3, <2>4, <2>8 DEF Running, Flags, Clean, FinishedGone
  <2>12. Flow'
    <3>1. OutFlow'
      BY <1>1, <2>2, <2>3, <2>4 DEF OutFlow
    <3>2. ReadFlow'
      BY <1>1, <2>4 DEF Running, Flow, ReadFlow
    <3>3. InFlow' /\ WriteFlow'
      BY <1>1, <1>2, <2>3 DEF Running, Flow, InFlow, WriteFlow, First
    <3> QED BY <1>1, <3>1, <3>2, <3>3 DEF Running, Flow
  <2>13. Control'
    BY <1>1, <1>2, <2>4 DEF Running, Control, First, Delivered
  <2>14. Mail'
    <3>1. Own' = Own
      BY <1>1, <1>2 DEF Own
    <3> QED BY <1>1, <3>1, MailSame DEF Running
  <2> QED BY <1>2, <2>5, <2>6, <2>7, <2>9, <2>10, <2>11, <2>12, <2>13, <2>14 DEF Running
<1>3. CASE socket.server # "open" /\ Fails("write") /\ UNCHANGED socket
  <2>1. TypeOK'
    BY <1>1, <1>3 DEF TypeOK, Fails
  <2>2. FailureHasCause' /\ result' = "Err"
    BY <1>3 DEF FailureHasCause, Fails
  <2> QED BY <2>1, <2>2
<1> QED BY <1>1, <1>2, <1>3

LEMMA CloseNotifyKeeps ==
  ASSUME TypeOK, Running, send_close_notify
  PROVE  TypeOK' /\ Running'
<1>1. /\ pc = "calls" /\ todo = <<>> /\ after = "closing" /\ pc' = "write" /\ after' = "none"
      /\ loop' = [loop EXCEPT !.client_closed = TRUE, !.receiving = FALSE]
      /\ UNCHANGED <<todo, mailbox, leader, conn, control, verifier, failure, result>>
      /\ (socket' = Written /\ client' = [client EXCEPT !.tls = <<>>]) \/ (socket' = socket /\ client' = client)
  BY DEF send_close_notify
<1>2. loop' = [handshake_done |-> loop.handshake_done, client_closed |-> TRUE,
               server_closed |-> loop.server_closed, reading |-> loop.reading, receiving |-> FALSE]
  BY <1>1, LoopFields
<1>3. loop' \in [handshake_done : BOOLEAN, client_closed : BOOLEAN, server_closed : BOOLEAN,
                 reading : BOOLEAN, receiving : BOOLEAN]
  BY <1>2, LoopFields
<1>4. PICK x, y : /\ x = socket'.out /\ y = client'.tls
                  /\ (x = socket.out \o client.tls /\ y = <<>>) \/ (x = socket.out /\ y = client.tls)
  BY <1>1, SocketFields, ClientFields DEF Written
<1>5. ~Has("Finished", <<>>) /\ NoData(<<>>)
  BY HasEmpty DEF NoData
<1>6. /\ x \in Seq(Record) /\ y \in Seq(Record)
      /\ \A typ : Has(typ, x) => Has(typ, socket.out) \/ Has(typ, client.tls)
      /\ \A typ : Has(typ, y) => Has(typ, client.tls)
      /\ DataOf(x) \o (DataOf(y) \o DataOf(leader.encrypted)) = DataOf(leader.sent)
  <2>1. CASE x = socket.out \o client.tls /\ y = <<>>
    <3>1. y \in Seq(Record) /\ \A typ : ~Has(typ, y)
      BY <2>1, HasEmpty
    <3> QED BY <2>1, <3>1, OutMoves DEF Running, Flow
  <2>2. CASE x = socket.out /\ y = client.tls
    BY <2>2, SocketFields, ClientFields DEF Running, Flow, OutFlow
  <2> QED BY <1>4, <2>1, <2>2
<1>7. socket' = [in |-> socket.in, out |-> x, server |-> socket.server, sent |-> socket.sent, bad |-> socket.bad]
  BY <1>1, <1>4, SocketFields DEF Written
<1>8. client' = [phase |-> client.phase, plaintext |-> client.plaintext, tls |-> y]
  BY <1>1, <1>4, ClientFields
<1>9. TypeOK'
  <2>1. socket' \in [in : Seq(Record), out : Seq(Record), server : {"open", "closed"}, sent : Seq(Record), bad : Nat]
    BY <1>6, <1>7, SocketFields
  <2>2. client' \in [phase : {"hello", "traffic", "error"}, plaintext : Seq(Record), tls : Seq(Record)]
    BY <1>6, <1>8, ClientFields
  <2> QED BY <1>1, <1>3, <2>1, <2>2 DEF TypeOK
<1>10. loop.receiving /\ loop.handshake_done /\ ~loop.client_closed
  BY <1>1 DEF Running, Control, Flags
<1>12. Ordered(todo)' /\ FlightSteps'
  <2>1. ~InFlight /\ ~InFlight'
    BY <1>1 DEF InFlight, First
  <2>2. after # "started" => ~Within({"GetClientRandom", "GetNotify"}, todo)
    BY DEF Running, FlightSteps
  <2> QED BY <1>1, <2>1, <2>2 DEF Running, Ordered, FlightSteps, First
<1>13. RecordSteps'
  BY <1>1, <1>2, <1>7 DEF Running, RecordSteps, First, Within
<1>14. ByState'
  BY <1>1, <1>2, <1>6, <1>7, <1>8 DEF Running, ByState, First, InFlight
<1>15. OnTheWay'
  BY <1>1, <1>2, <1>7 DEF Running, OnTheWay, Lone
<1>16. Flags'
  <2>1. NoData(y) /\ NoData(leader.encrypt) /\ NoData(leader.encrypted) /\ NoData(Outgoing(todo))
    BY <1>1, <1>6 DEF Running, Flags, NoData
  <2> QED BY <1>1, <1>2, <1>7, <1>8, <1>10, <2>1 DEF Running, Flags, Clean, FinishedGone
<1>17. Flow'
  BY <1>1, <1>6, <1>7, <1>8 DEF Running, Flow, ReadFlow, InFlow, OutFlow, WriteFlow, First
<1>18. Control'
  BY <1>1, <1>2, <1>8 DEF Running, Control, First, Delivered
<1>19. Mail'
  <2>1. Own' = Own
    BY <1>1 DEF Own
  <2> QED BY <1>1, <2>1, MailSame DEF Running
<1> QED BY <1>1, <1>9, <1>12, <1>13, <1>14, <1>15, <1>16, <1>17, <1>18, <1>19 DEF Running

\* Calls that push nothing.
LEMMA NothingPushed ==
  ASSUME NEW s \in Seq(Calling), ~Within({"PushIncoming"}, s), ~Within({"PushOutgoing"}, s)
  PROVE  /\ DataOf(Incoming(s)) = <<>> /\ DataOf(Outgoing(s)) = <<>> /\ NoData(Outgoing(s)) /\ NoData(Incoming(s))
         /\ ~Has("Finished", Incoming(s)) /\ ~Has("Bad", Incoming(s)) /\ Lone(Incoming(s))
<1>1. DataOf(Pushed("PushIncoming", s)) = <<>> /\ \A typ : typ # "none" => ~Has(typ, Pushed("PushIncoming", s))
  BY PushedNone
<1>2. DataOf(Pushed("PushOutgoing", s)) = <<>> /\ \A typ : typ # "none" => ~Has(typ, Pushed("PushOutgoing", s))
  BY PushedNone
<1> QED BY <1>1, <1>2 DEF Incoming, Outgoing, NoData, Lone

LEMMA NoneWithin == \A ops : ~Within(ops, <<>>)
BY DEF Within

LEMMA AnsweredKeeps ==
  ASSUME TypeOK, Running, answered
  PROVE  TypeOK' /\ Running'
<1>1. /\ pc = "calls" /\ todo = <<>> /\ after \notin {"closing", "break"}
      /\ pc' = (IF after = "select" THEN "select" ELSE "write") /\ after' = "none"
      /\ client' = (IF after = "started" THEN [client EXCEPT !.tls = Append(@, Rec("ClientHello", 0))] ELSE client)
      /\ UNCHANGED <<todo, loop, mailbox, leader, conn, socket, control, verifier, failure, result>>
  BY DEF answered, envVars
<1>0. /\ todo = <<>> /\ after' = "none" /\ after # "closing"
      /\ UNCHANGED <<todo, loop, mailbox, leader, conn, socket, control, verifier, failure, result>>
  BY <1>1
<1>2. PICK x : x = client'.tls
  OBVIOUS
<1>3. client' = [phase |-> client.phase, plaintext |-> client.plaintext, tls |-> x]
  BY <1>1, <1>2, ClientFields
<1>4. /\ x \in Seq(Record) /\ DataOf(x) = DataOf(client.tls) /\ (after = "select" => x = client.tls)
      /\ Has("Finished", x) => Has("Finished", client.tls)
      /\ NoData(client.tls) => NoData(x)
  <2>1. CASE after = "started"
    <3>1. PICK r : r = Rec("ClientHello", 0)
      OBVIOUS
    <3>2. r \in Record /\ ~IsData(r) /\ r.typ = "ClientHello"
      BY <3>1 DEF Rec, Record, IsData
    <3>3. x = Append(client.tls, r)
      BY <1>1, <1>2, <2>1, <3>1, ClientFields
    <3>4. DataOf(x) = DataOf(client.tls)
      BY <3>2, <3>3, ClientFields, DataAppend
    <3>5. \A typ : Has(typ, x) <=> Has(typ, client.tls) \/ r.typ = typ
      BY <3>2, <3>3, ClientFields, HasAppend
    <3>6. x \in Seq(Record)
      BY <3>2, <3>3, ClientFields
    <3> QED BY <2>1, <3>2, <3>4, <3>5, <3>6 DEF NoData
  <2>2. CASE after # "started"
    BY <1>1, <1>2, <2>2, ClientFields
  <2> QED BY <2>1, <2>2
<1>5. TypeOK'
  <2>1. client' \in [phase : {"hello", "traffic", "error"}, plaintext : Seq(Record), tls : Seq(Record)]
    BY <1>3, <1>4, ClientFields
  <2> QED BY <1>1, <2>1 DEF TypeOK
<1>6. ~InFlight /\ ~InFlight' /\ \A ops : ~First(ops)' /\ ~First(ops)
  BY <1>1 DEF InFlight, First
<1>7. Ordered(todo)' /\ FlightSteps'
  BY <1>1, <1>6, NoneWithin DEF Running, Ordered, FlightSteps
<1>8. RecordSteps'
  BY <1>1, <1>6, NoneWithin DEF Running, RecordSteps
<1>9. ByState'
  BY <1>0, <1>3, <1>4, <1>6 DEF Running, ByState
<1>10. OnTheWay'
  BY <1>1, <1>3 DEF Running, OnTheWay, Lone
<1>11. Flags'
  BY <1>0, <1>3, <1>4 DEF Running, Flags, Clean, FinishedGone
<1>12. Flow'
  <2>1. OutFlow'
    <3>1. client'.tls = x /\ DataOf(x) = DataOf(client.tls)
      BY <1>3, <1>4
    <3> QED BY <1>0, <3>1 DEF Running, Flow, OutFlow
  <2>2. ReadFlow' /\ InFlow' /\ WriteFlow'
    BY <1>1, <1>3 DEF Running, Flow, ReadFlow, InFlow, WriteFlow, First
  <2> QED BY <1>1, <2>1, <2>2 DEF Running, Flow
<1>13. Control'
  <2>1. after = "select" => Delivered /\ client' = client
    BY <1>1 DEF Running, Control
  <2> QED BY <1>1, <1>6, <2>1 DEF Running, Control, Delivered
<1>14. Mail'
  <2>1. Own' = Own
    BY <1>1 DEF Own
  <2> QED BY <1>1, <2>1, MailSame DEF Running
<1> QED BY <1>1, <1>5, <1>7, <1>8, <1>9, <1>10, <1>11, <1>12, <1>13, <1>14 DEF Running

LEMMA EndsKeeps ==
  ASSUME TypeOK, Running, connection_ends
  PROVE  TypeOK' /\ Running'
<1>1. /\ pc = "calls" /\ todo = <<>> /\ after = "break" /\ pc' = "ended" /\ mailbox' = Append(mailbox, Call("Stop"))
      /\ UNCHANGED <<todo, after, loop, client, leader, conn, socket, control, verifier, failure, result>>
  BY DEF connection_ends, envVars
<1>2. Call("Stop") \in Calling
  BY CallType DEF MpcTlsLeaderMsg, CtrlMsgs
<1>3. TypeOK'
  BY <1>1, <1>2 DEF TypeOK
<1>4. Control'
  BY <1>1 DEF Running, Control, First, Delivered
<1>5. Mail'
  <2>1. Own = <<>> /\ Own' = <<Call("Stop")>>
    BY <1>1 DEF Own
  <2> QED BY <1>1, <1>2, <2>1, MailSent DEF Running
<1>6. /\ Ordered(todo)' /\ FlightSteps' /\ RecordSteps' /\ ByState' /\ OnTheWay' /\ Flags' /\ InFlow' /\ OutFlow'
  BY <1>1, RestKept
<1>7. Flow' /\ failure' = "none"
  BY <1>1, <1>6 DEF Running, Flow, ReadFlow, WriteFlow
<1> QED BY <1>3, <1>4, <1>5, <1>6, <1>7 DEF Running

LEMMA RefuseKeeps ==
  ASSUME TypeOK, Running, refuse
  PROVE  TypeOK' /\ FailureHasCause' /\ result' = "Err"
<1>1. /\ todo # <<>> /\ Head(todo).op = "Refused" /\ pc' = "ended" /\ failure' = "client" /\ result' = "Err"
      /\ UNCHANGED <<todo, after, loop, client, mailbox, leader, conn, socket, control, verifier>>
  BY DEF refuse, Fails, envVars
<1>2. ~Clean
  BY <1>1 DEF Running, RecordSteps, First
<1>3. socket.bad # 0 => socket.bad > 0
  BY SocketFields
<1>4. FailureHasCause'
  BY <1>1, <1>2, <1>3 DEF FailureHasCause, Clean
<1>5. TypeOK'
  BY <1>1 DEF TypeOK
<1> QED BY <1>1, <1>4, <1>5

LEMMA StoppedKeeps ==
  ASSUME TypeOK, Running, stopped
  PROVE  TypeOK' /\ FailureHasCause' /\ TranscriptIsConversation' /\ result' = "Ok"
<1>1. /\ mailbox # <<>> /\ Head(mailbox).op = "Stop" /\ mailbox' = Tail(mailbox)
      /\ result' = (IF leader.state = "Closed" THEN "Ok" ELSE "Err")
      /\ failure' = (IF leader.state = "Closed" THEN "none" ELSE "Stop")
      /\ UNCHANGED <<pc, todo, after, loop, client, leader, conn, socket, control, verifier>>
  BY DEF stopped, loopVars, envVars
<1>2. pc = "ended"
  BY <1>1, FirstMail DEF Running, CtrlMsgs
<1>3. /\ todo = <<>> /\ leader.state = "Closed" /\ client.plaintext = <<>> /\ (client.tls = <<>> \/ loop.client_closed)
      /\ leader.decrypted = <<>> /\ leader.encrypted = <<>>
  BY <1>2 DEF Running, Control, Delivered
<1>4. loop.server_closed /\ leader.encrypt = <<>> /\ leader.decrypt = <<>> /\ socket.in = <<>>
  BY <1>3 DEF Running, ByState, Flags
<1>5. DataOf(client.tls) = <<>>
  <2>1. NoData(client.tls)
    BY <1>3, HasEmpty DEF Running, Flags, NoData
  <2> QED BY <2>1, ClientFields, DataNone
<1>6. DataOf(Incoming(todo)) = <<>>
  BY <1>3, EmptyPlan, NoneWithin, NothingPushed
<1>7. PICK a, b, c, d, e : /\ a = DataOf(leader.recv) /\ b = DataOf(socket.sent) /\ c = DataOf(leader.sent)
                           /\ d = DataOf(socket.out) /\ e = conn.read \o conn.rx
  OBVIOUS
<1>8. a \in Seq(Record) /\ b \in Seq(Record) /\ c \in Seq(Record) /\ d \in Seq(Record) /\ e \in Seq(Record)
  <2>1. a \in Seq(Record) /\ b \in Seq(Record) /\ c \in Seq(Record) /\ d \in Seq(Record)
    BY <1>7, LeaderFields, SocketFields, DataSeq
  <2>2. conn.read \in Seq(Record) /\ conn.rx \in Seq(Record)
    BY DEF TypeOK
  <2> QED BY <1>7, <2>1, <2>2
<1>9. a = b
  <2>1. b = a \o (<<>> \o (<<>> \o <<>>))
    BY <1>3, <1>4, <1>6, <1>7, DataEmpty DEF Running, Flow, InFlow, First
  <2>2. <<>> \o (<<>> \o <<>>) = <<>>
    OBVIOUS
  <2> QED BY <1>8, <2>1, <2>2, ConcatEmptySeq
<1>10. c = d
  <2>1. d \o (<<>> \o <<>>) = c
    BY <1>3, <1>5, <1>7, DataEmpty DEF Running, Flow, OutFlow
  <2>2. <<>> \o <<>> = <<>>
    OBVIOUS
  <2> QED BY <1>8, <2>1, <2>2, ConcatEmptySeq
<1>11. \A i \in DOMAIN d : d[i] = Data(i)
  <2>1. PICK f, g : /\ f = DataOf(leader.encrypt) \o (DataOf(Outgoing(todo)) \o DataOf(conn.tx))
                    /\ g = Numbers(conn.written)
    OBVIOUS
  <2>2. f \in Seq(Record)
    <3>1. DataOf(Outgoing(todo)) \in Seq(Record) /\ DataOf(conn.tx) \in Seq(Record)
      BY DataSeq, PushedSeq DEF TypeOK, Outgoing
    <3> QED BY <2>1, <3>1, LeaderFields, DataSeq
  <2>3. d \o f = g
    BY <1>7, <1>10, <2>1 DEF Running, Flow, WriteFlow
  <2>4. Len(d) \in Nat /\ Len(f) \in Nat /\ DOMAIN d = 1..Len(d)
    BY <1>8, <2>2, LenProperties
  <2>5. Len(d \o f) = Len(d) + Len(f) /\ \A i \in 1..Len(d) : (d \o f)[i] = d[i]
    BY <1>8, <2>2, <2>4, ConcatProperties
  <2>6. conn.written \in Nat /\ DOMAIN g = 1..conn.written /\ \A i \in 1..conn.written : g[i] = Data(i)
    BY <2>1 DEF TypeOK, Numbers
  <2>7. \A i \in 1..Len(d) : i \in DOMAIN g
    <3>1. d \o f \in Seq(Record) /\ DOMAIN (d \o f) = 1..Len(d) + Len(f)
      BY <1>8, <2>2, <2>5, LenProperties
    <3> QED BY <2>3, <2>4, <3>1
  <2> QED BY <2>3, <2>4, <2>5, <2>6, <2>7
<1>12. ~conn.dropped => e = a
  <2>1. ~conn.dropped => e \o (<<>> \o <<>>) = a
    BY <1>3, <1>7, DataEmpty DEF Running, Flow, ReadFlow
  <2>2. <<>> \o <<>> = <<>>
    OBVIOUS
  <2> QED BY <1>8, <2>1, <2>2, ConcatEmptySeq
<1>13. TranscriptIsConversation'
  BY <1>1, <1>7, <1>9, <1>10, <1>11, <1>12 DEF TranscriptIsConversation
<1>14. FailureHasCause'
  BY <1>1, <1>3 DEF FailureHasCause
<1>15. TypeOK'
  <2>1. mailbox' \in Seq(Calling)
    BY <1>1 DEF TypeOK
  <2> QED BY <1>1, <1>3, <2>1 DEF TypeOK
<1> QED BY <1>1, <1>3, <1>13, <1>14, <1>15

LEMMA ForwardKeeps ==
  ASSUME TypeOK, Running, forward
  PROVE  TypeOK' /\ Running'
<1>1. /\ pc = "forward" /\ client.plaintext # <<>> /\ client' = [client EXCEPT !.plaintext = Tail(@)]
      /\ conn' = IF conn.dropped THEN conn ELSE [conn EXCEPT !.rx = Append(@, Head(client.plaintext))]
  BY DEF forward
<1>2. UNCHANGED <<pc, todo, after, loop, mailbox, leader, socket, control, verifier, failure, result>>
  BY DEF forward
<1>3. PICK h, t : h = Head(client.plaintext) /\ t = Tail(client.plaintext)
  OBVIOUS
<1>4. h \in Record /\ t \in Seq(Record) /\ client.plaintext = <<h>> \o t
  BY <1>1, <1>3, ClientFields, HeadTailProperties
<1>5. client' = [phase |-> client.phase, plaintext |-> t, tls |-> client.tls]
  BY <1>1, <1>3, ClientFields
<1>6. /\ conn.tx \in Seq(Record) /\ conn.rx \in Seq(Record) /\ conn.read \in Seq(Record) /\ conn.written \in Nat
      /\ conn = [tx |-> conn.tx, written |-> conn.written, tx_closed |-> conn.tx_closed, rx |-> conn.rx,
                 read |-> conn.read, dropped |-> conn.dropped]
      /\ conn.tx_closed \in BOOLEAN /\ conn.dropped \in BOOLEAN
  BY DEF TypeOK
<1>7. PICK x : x = conn'.rx
  OBVIOUS
<1>8. /\ conn' = [tx |-> conn.tx, written |-> conn.written, tx_closed |-> conn.tx_closed, rx |-> x,
                  read |-> conn.read, dropped |-> conn.dropped]
      /\ x \in Seq(Record) /\ (~conn.dropped => x = Append(conn.rx, h))
  <2>1. CASE conn.dropped
    BY <1>1, <1>6, <1>7, <2>1
  <2>2. CASE ~conn.dropped
    <3>1. PICK y : y = Append(conn.rx, h)
      OBVIOUS
    <3>2. conn' = [tx |-> conn.tx, written |-> conn.written, tx_closed |-> conn.tx_closed, rx |-> y,
                  read |-> conn.read, dropped |-> conn.dropped]
      BY <1>1, <1>3, <1>6, <2>2, <3>1
    <3>3. y \in Seq(Record) /\ x = y
      BY <1>4, <1>6, <1>7, <3>1, <3>2
    <3> QED BY <3>1, <3>2, <3>3
  <2> QED BY <2>1, <2>2
<1>9. TypeOK'
  <2>1. client' \in [phase : {"hello", "traffic", "error"}, plaintext : Seq(Record), tls : Seq(Record)]
    BY <1>4, <1>5, ClientFields
  <2>2. conn' \in [tx : Seq(Record), written : Nat, tx_closed : BOOLEAN, rx : Seq(Record), read : Seq(Record),
                   dropped : BOOLEAN]
    BY <1>6, <1>8
  <2> QED BY <1>2, <2>1, <2>2 DEF TypeOK
<1>10. Ordered(todo)' /\ FlightSteps'
  BY <1>2 DEF Running, Ordered, FlightSteps, First, InFlight
<1>11. RecordSteps'
  BY <1>2 DEF Running, RecordSteps, First, FinishedGone, Clean
<1>12. ByState'
  BY <1>2, <1>5 DEF Running, ByState, First, InFlight
<1>13. OnTheWay'
  BY <1>2 DEF Running, OnTheWay, Lone
<1>14. Flags'
  BY <1>2, <1>5 DEF Running, Flags, Clean, FinishedGone
<1>15. ReadFlow'
  <2>1. SUFFICES ASSUME ~conn.dropped
        PROVE  (conn.read \o x) \o (t \o DataOf(leader.decrypted)) = DataOf(leader.recv)
    BY <1>2, <1>5, <1>8 DEF ReadFlow
  <2>2. PICK a, b, c : a = conn.read /\ b = conn.rx /\ c = DataOf(leader.decrypted)
    OBVIOUS
  <2>3. a \in Seq(Record) /\ b \in Seq(Record) /\ c \in Seq(Record) /\ <<h>> \in Seq(Record)
    BY <1>4, <1>6, <2>2, LeaderFields, DataSeq
  <2>4. (a \o b) \o ((<<h>> \o t) \o c) = DataOf(leader.recv)
    BY <1>4, <2>1, <2>2 DEF Running, Flow, ReadFlow
  <2>5. x = b \o <<h>>
    BY <1>4, <1>8, <2>1, <2>2, <2>3, AppendIsConcat
  <2>6. PICK g, p, q : g = <<h>> /\ p = a \o b /\ q = t \o c
    OBVIOUS
  <2>7. p \in Seq(Record)
    BY <2>3, <2>6
  <2>8. q \in Seq(Record)
    BY <1>4, <2>3, <2>6
  <2>9. g \in Seq(Record)
    BY <2>3, <2>6
  <2>10. (a \o b) \o g = a \o (b \o g)
    BY <2>3, <2>9, Associative
  <2>11. (g \o t) \o c = g \o (t \o c)
    BY <1>4, <2>3, <2>9, Associative
  <2>12. (p \o g) \o q = p \o (g \o q)
    BY <2>7, <2>8, <2>9, Associative, Zenon
  <2> QED BY <2>2, <2>4, <2>5, <2>6, <2>10, <2>11, <2>12
<1>16. Flow'
  <2>1. OutFlow'
    BY <1>2, <1>5 DEF Running, Flow, OutFlow
  <2>2. InFlow' /\ WriteFlow' /\ \A i \in DOMAIN conn'.tx : IsData(conn'.tx[i])
    BY <1>2, <1>8 DEF Running, Flow, InFlow, WriteFlow, First
  <2> QED BY <1>15, <2>1, <2>2 DEF Flow
<1>17. Control'
  BY <1>1, <1>2, <1>5 DEF Running, Control, First, Delivered
<1>18. Mail'
  BY <1>2, MailSame DEF Running, Own
<1> QED BY <1>2, <1>9, <1>10, <1>11, <1>12, <1>13, <1>14, <1>16, <1>17, <1>18 DEF Running

LEMMA CheckKeeps ==
  ASSUME TypeOK, Running, check
  PROVE  TypeOK' /\ Running'
<1>1. /\ pc = "forward" /\ client.plaintext = <<>>
      /\ loop' = IF client.phase = "traffic" /\ ~loop.handshake_done
                 THEN [loop EXCEPT !.handshake_done = TRUE, !.receiving = TRUE] ELSE loop
      /\ pc' = IF loop.server_closed THEN "calls" ELSE "select"
      /\ todo' = IF loop.server_closed THEN Calls(<<"IsEmpty">>) ELSE todo
  BY DEF check
<1>2. UNCHANGED <<after, client, mailbox, leader, conn, socket, control, verifier, failure, result>>
  BY DEF check, envVars
<1>3. todo = <<>> /\ after = "none" /\ (client.tls = <<>> \/ loop.client_closed)
  BY <1>1 DEF Running, Control
<1>4. /\ \A ops : ~First(ops) /\ ~Within(ops, todo)
      /\ DataOf(Incoming(todo)) = <<>> /\ DataOf(Outgoing(todo)) = <<>>
  <2>1. \A ops : ~First(ops) /\ ~Within(ops, todo)
    BY <1>3, NoneWithin DEF First
  <2> QED BY <1>3, <2>1, EmptyPlan, NothingPushed
<1>5. /\ loop'.client_closed = loop.client_closed /\ loop'.server_closed = loop.server_closed
      /\ loop'.reading = loop.reading
      /\ loop'.handshake_done => client.phase # "hello"
      /\ loop.handshake_done => loop'.handshake_done
      /\ loop'.receiving => loop'.handshake_done /\ ~loop.client_closed
      /\ loop' \in [handshake_done : BOOLEAN, client_closed : BOOLEAN, server_closed : BOOLEAN,
                    reading : BOOLEAN, receiving : BOOLEAN]
  <2>1. CASE client.phase = "traffic" /\ ~loop.handshake_done
    <3>1. loop' = [handshake_done |-> TRUE, client_closed |-> loop.client_closed,
                   server_closed |-> loop.server_closed, reading |-> loop.reading, receiving |-> TRUE]
      BY <1>1, <2>1, LoopFields
    <3>2. ~loop.client_closed
      BY <2>1 DEF Running, Flags
    <3> QED BY <2>1, <3>1, <3>2, LoopFields
  <2>2. CASE ~(client.phase = "traffic" /\ ~loop.handshake_done)
    <3>1. loop' = loop
      BY <1>1, <2>2
    <3>2. loop \in [handshake_done : BOOLEAN, client_closed : BOOLEAN, server_closed : BOOLEAN,
                    reading : BOOLEAN, receiving : BOOLEAN]
      BY DEF TypeOK
    <3> QED BY <3>1, <3>2 DEF Running, Flags
  <2> QED BY <2>1, <2>2
<1>6. PICK t : t = todo'
  OBVIOUS
<1>7. /\ t \in Seq(Calling) /\ Ordered(t) /\ Only({"IsEmpty"}, t)
      /\ \A ops : "IsEmpty" \notin ops => ~Within(ops, t)
      /\ t # <<>> => Head(t).op = "IsEmpty" /\ loop.server_closed /\ pc' = "calls"
      /\ t = <<>> => ~loop.server_closed /\ pc' = "select"
  <2>1. CASE loop.server_closed
    <3>1. t = Calls(<<"IsEmpty">>) /\ pc' = "calls"
      BY <1>1, <1>6, <2>1
    <3>2. t \in Seq(Calling) /\ Ordered(t) /\ t # <<>> /\ Head(t).op = "IsEmpty" /\ Only({"IsEmpty"}, t)
      BY <3>1, AskPlan
    <3>3. \A ops : "IsEmpty" \notin ops => ~Within(ops, t)
      BY <3>2 DEF Within, Only
    <3> QED BY <2>1, <3>1, <3>2, <3>3
  <2>2. CASE ~loop.server_closed
    <3>1. t = <<>> /\ pc' = "select"
      BY <1>1, <1>3, <1>6, <2>2
    <3> QED BY <2>2, <3>1, EmptyPlan, NoneWithin
  <2> QED BY <2>1, <2>2
<1>8. /\ DataOf(Incoming(t)) = <<>> /\ DataOf(Outgoing(t)) = <<>> /\ NoData(Outgoing(t)) /\ NoData(Incoming(t))
      /\ ~Has("Finished", Incoming(t)) /\ ~Has("Bad", Incoming(t)) /\ Lone(Incoming(t))
  BY <1>7, NothingPushed
<1>9. \A ops : "IsEmpty" \notin ops => ~First(ops)'
  BY <1>6, <1>7 DEF First
<1>10. ~InFlight /\ ~InFlight'
  BY <1>2, <1>3, <1>4, <1>9 DEF InFlight, FlightMsgs
<1>11. TypeOK'
  BY <1>1, <1>2, <1>5, <1>6, <1>7 DEF TypeOK
<1>12. FlightSteps'
  BY <1>2, <1>3, <1>6, <1>7, <1>9, <1>10 DEF FlightSteps
<1>13. leader.state = "Closed" \/ ~loop.server_closed
  BY <1>4 DEF Running, RecordSteps
<1>14. RecordSteps'
  <2>1. ~loop'.client_closed => leader.encrypt = <<>> /\ leader.encrypted = <<>>
    BY <1>3, <1>5 DEF Running, RecordSteps
  <2>2. ~Within({"ServerClosed"}, todo') /\ ~Within({"PushIncoming"}, todo') /\ ~Within({"Flush"}, todo')
    BY <1>6, <1>7
  <2> QED BY <1>2, <1>5, <1>9, <1>13, <2>1, <2>2 DEF RecordSteps
<1>15. ByState'
  BY <1>2, <1>5, <1>10 DEF Running, ByState
<1>16. OnTheWay'
  <2>1. ~Within({"PushIncoming"}, todo')
    BY <1>6, <1>7
  <2>2. ~Has("Finished", Incoming(todo')) /\ ~Has("Bad", Incoming(todo'))
    BY <1>6, <1>8
  <2> QED BY <1>2, <2>1, <2>2 DEF Running, OnTheWay, Lone
<1>17. Flags'
  <2>1. NoData(Outgoing(todo')) /\ ~Has("Finished", Incoming(todo'))
    BY <1>6, <1>8
  <2> QED BY <1>2, <1>5, <2>1 DEF Running, Flags, Clean, FinishedGone
<1>18. Flow'
  <2>1. DataOf(Incoming(todo')) = <<>> /\ DataOf(Outgoing(todo')) = <<>>
    BY <1>6, <1>8
  <2>2. InFlow'
    BY <1>2, <1>4, <2>1 DEF Running, Flow, InFlow
  <2>3. WriteFlow'
    BY <1>2, <1>4, <2>1 DEF Running, Flow, WriteFlow
  <2>4. ReadFlow' /\ OutFlow'
    BY <1>2 DEF Running, Flow, ReadFlow, OutFlow
  <2> QED BY <1>2, <2>2, <2>3, <2>4 DEF Running, Flow
<1>19. Control'
  <2>1. Delivered'
    BY <1>1, <1>2, <1>3, <1>5 DEF Delivered
  <2> QED BY <1>2, <1>3, <1>6, <1>7, <1>13, <2>1 DEF Control, First
<1>20. Mail'
  <2>1. Own = <<>> /\ Own' = <<>>
    BY <1>1, <1>6, <1>7 DEF Own
  <2> QED BY <1>2, <2>1, MailSame DEF Running
<1>21. Ordered(todo)'
  <2>1. Ordered(todo')
    BY <1>6, <1>7
  <2> QED BY <2>1 DEF Ordered
<1> QED BY <1>2, <1>11, <1>12, <1>14, <1>15, <1>16, <1>17, <1>18, <1>19, <1>20, <1>21 DEF Running

-----------------------------------------------------------------------------
\* The branches of the select.

LEMMA Selecting ==
  ASSUME TypeOK, Running, pc = "select"
  PROVE  /\ todo = <<>> /\ after = "none" /\ Delivered /\ Own = <<>> /\ ~InFlight
         /\ \A ops : ~First(ops) /\ ~Within(ops, todo)
         /\ DataOf(Incoming(todo)) = <<>> /\ DataOf(Outgoing(todo)) = <<>>
<1>1. todo = <<>> /\ after = "none" /\ Delivered /\ Own = <<>>
  BY DEF Running, Control, Own
<1>2. \A ops : ~First(ops) /\ ~Within(ops, todo)
  BY <1>1, NoneWithin DEF First
<1>3. ~InFlight
  BY <1>2 DEF InFlight
<1> QED BY <1>1, <1>2, <1>3, EmptyPlan, NothingPushed

\* What process_new_packets does when nothing was read.
LEMMA DrainProcessing ==
  ASSUME NEW e \in {<<>>, <<Call("ServerClosed")>>}
  PROVE  /\ Processing(<<>>) = IF client.phase = "error" THEN Calls(<<"Refused">>) ELSE DrainCalls
         /\ Processing(<<>>) \o e \in Seq(Calling) /\ Ordered(Processing(<<>>) \o e) /\ Processing(<<>>) \o e # <<>>
         /\ Head(Processing(<<>>) \o e).op = IF client.phase = "error" THEN "Refused" ELSE "Flush"
         /\ Within({"Flush"}, Processing(<<>>) \o e) => Within({"NextIncoming"}, Processing(<<>>) \o e)
         /\ e = <<>> => Only(DrainMsgs \union {"Refused"}, Processing(<<>>) \o e)
         /\ e # <<>> => /\ Only(DrainMsgs \union {"Refused", "ServerClosed"}, Processing(<<>>) \o e)
                        /\ Within({"ServerClosed"}, Processing(<<>>) \o e)
<1>1. Pushes(<<>>) \o DrainCalls = DrainCalls
  BY DEF Pushes, DrainCalls, Calls
<1>2. Processing(<<>>) = IF client.phase = "error" THEN Calls(<<"Refused">>) ELSE DrainCalls
  <2>1. ~ \E i \in DOMAIN <<>> : <<>>[i].typ = "Bad" /\ leader.state = "Handshake"
    OBVIOUS
  <2>2. process_new_packets(<<>>) = Pushes(<<>>) \o DrainCalls
    BY DEF process_new_packets
  <2> QED BY <1>1, <2>1, <2>2 DEF Processing
<1>3. CASE client.phase = "error"
  <2>1. Processing(<<>>) = Calls(<<"Refused">>)
    BY <1>2, <1>3
  <2>2. PICK s : s = Calls(<<"Refused">>) \o e
    OBVIOUS
  <2>3. /\ s \in Seq(Calling) /\ Ordered(s) /\ s # <<>> /\ Head(s).op = "Refused"
        /\ e = <<>> => Only({"Refused"}, s)
        /\ e # <<>> => Only({"Refused", "ServerClosed"}, s) /\ Within({"ServerClosed"}, s)
    BY <2>2, RefusedPlan
  <2>4. /\ e = <<>> => Only(DrainMsgs \union {"Refused"}, s)
        /\ e # <<>> => Only(DrainMsgs \union {"Refused", "ServerClosed"}, s)
        /\ ~Within({"Flush"}, s)
    BY <2>3 DEF Only, Within
  <2> QED BY <1>2, <1>3, <2>1, <2>2, <2>3, <2>4
<1>4. CASE client.phase # "error"
  <2>1. Processing(<<>>) = DrainCalls
    BY <1>2, <1>4
  <2>2. PICK s : s = DrainCalls \o e
    OBVIOUS
  <2>3. /\ s \in Seq(Calling) /\ Ordered(s) /\ s # <<>> /\ Head(s).op = "Flush" /\ Within({"NextIncoming"}, s)
        /\ e = <<>> => Only(DrainMsgs, s)
        /\ e # <<>> => Only(DrainMsgs \union {"ServerClosed"}, s) /\ Within({"ServerClosed"}, s)
    BY <2>2, DrainPlan
  <2>4. /\ e = <<>> => Only(DrainMsgs \union {"Refused"}, s)
        /\ e # <<>> => Only(DrainMsgs \union {"Refused", "ServerClosed"}, s)
    BY <2>3 DEF Only
  <2> QED BY <1>2, <1>4, <2>1, <2>2, <2>3, <2>4
<1> QED BY <1>3, <1>4

\* A branch that only drains: the loop was notified, or the stream ended.
LEMMA DrainKeeps ==
  ASSUME TypeOK, Running, pc = "select", NEW e \in {<<>>, <<Call("ServerClosed")>>},
         todo' = Processing(<<>>) \o e, after' = "packets", pc' = "calls",
         UNCHANGED <<client, mailbox, leader, conn, socket, control, verifier, failure, result>>,
         IF e = <<>> THEN loop' = loop
         ELSE /\ loop' = [loop EXCEPT !.server_closed = TRUE, !.reading = FALSE]
              /\ loop.reading /\ socket.server # "open" /\ socket.in = <<>>
  PROVE  TypeOK' /\ Running'
<1>1. PICK t : t = Processing(<<>>) \o e
  OBVIOUS
<1>2. todo' = t /\ after' = "packets" /\ pc' = "calls"
      /\ UNCHANGED <<client, mailbox, leader, conn, socket, control, verifier, failure, result>>
  BY <1>1
<1>3. /\ t \in Seq(Calling) /\ Ordered(t) /\ t # <<>>
      /\ Within({"Flush"}, t) => Within({"NextIncoming"}, t)
      /\ Head(t).op = (IF client.phase = "error" THEN "Refused" ELSE "Flush")
      /\ e = <<>> => Only(DrainMsgs \union {"Refused"}, t)
      /\ e # <<>> => Only(DrainMsgs \union {"Refused", "ServerClosed"}, t) /\ Within({"ServerClosed"}, t)
  BY <1>1, DrainProcessing
<1>4. /\ \A ops : ops \intersect (DrainMsgs \union {"Refused", "ServerClosed"}) = {} => ~Within(ops, t)
      /\ e = <<>> => ~Within({"ServerClosed"}, t)
  <2>1. Only(DrainMsgs \union {"Refused", "ServerClosed"}, t)
    BY <1>3 DEF Only
  <2>2. e = <<>> => ~Within({"ServerClosed"}, t)
    BY <1>3, OnlyWithin DEF DrainMsgs
  <2> QED BY <2>1, <2>2 DEF Only, Within
<1>5. /\ ~Within({"PushIncoming"}, t) /\ ~Within({"PushOutgoing"}, t) /\ ~Within({"GetClientRandom", "GetNotify"}, t)
  BY <1>4 DEF DrainMsgs
<1>6. /\ DataOf(Incoming(t)) = <<>> /\ DataOf(Outgoing(t)) = <<>> /\ NoData(Outgoing(t)) /\ NoData(Incoming(t))
      /\ ~Has("Finished", Incoming(t)) /\ ~Has("Bad", Incoming(t)) /\ Lone(Incoming(t))
  BY <1>3, <1>5, NothingPushed
<1>7. /\ todo = <<>> /\ after = "none" /\ Delivered /\ Own = <<>> /\ ~InFlight
      /\ \A ops : ~First(ops) /\ ~Within(ops, todo)
      /\ DataOf(Incoming(todo)) = <<>> /\ DataOf(Outgoing(todo)) = <<>>
  BY Selecting
<1>8. /\ loop'.client_closed = loop.client_closed /\ loop'.receiving = loop.receiving
      /\ loop'.handshake_done = loop.handshake_done
      /\ loop' \in [handshake_done : BOOLEAN, client_closed : BOOLEAN, server_closed : BOOLEAN,
                    reading : BOOLEAN, receiving : BOOLEAN]
      /\ e = <<>> => loop'.server_closed = loop.server_closed /\ loop'.reading = loop.reading
      /\ e # <<>> => loop'.server_closed /\ ~loop'.reading
  <2>1. CASE e = <<>>
    <3>1. loop' = loop /\ loop \in [handshake_done : BOOLEAN, client_closed : BOOLEAN, server_closed : BOOLEAN,
                    reading : BOOLEAN, receiving : BOOLEAN]
      BY <2>1 DEF TypeOK
    <3> QED BY <2>1, <3>1
  <2>2. CASE e # <<>>
    <3>1. loop' = [handshake_done |-> loop.handshake_done, client_closed |-> loop.client_closed,
                   server_closed |-> TRUE, reading |-> FALSE, receiving |-> loop.receiving]
      BY <2>2, LoopFields
    <3> QED BY <2>2, <3>1, LoopFields
  <2> QED BY <2>1, <2>2
<1>9. e # <<>> => leader.state # "Closed" /\ socket.server # "open" /\ socket.in = <<>>
  BY DEF Running, ByState, Flags
<1>10. \A ops : ops \intersect {"Refused", "Flush"} = {} => ~First(ops)'
  BY <1>2, <1>3 DEF First
<1>11. ~InFlight'
  BY <1>10 DEF InFlight, FlightMsgs
<1>12. TypeOK'
  <2>1. /\ todo' \in Seq(Calling) /\ pc' = "calls" /\ after' = "packets"
        /\ loop' \in [handshake_done : BOOLEAN, client_closed : BOOLEAN, server_closed : BOOLEAN,
                       reading : BOOLEAN, receiving : BOOLEAN]
    BY <1>2, <1>3, <1>8
  <2>2. UNCHANGED <<client, mailbox, leader, conn, socket, control, verifier, failure, result>>
    BY <1>2
  <2> HIDE <1>2
  <2> QED BY <2>1, <2>2 DEF TypeOK
<1>13. Ordered(todo)'
  <2>1. Ordered(todo')
    BY <1>2, <1>3
  <2> QED BY <2>1 DEF Ordered
<1>14. FlightSteps'
  BY <1>2, <1>5, <1>10, <1>11 DEF FlightSteps
<1>15. First({"Refused"})' => ~Clean
  <2>1. First({"Refused"})' => client.phase = "error"
    BY <1>2, <1>3 DEF First
  <2> QED BY <2>1 DEF Running, Flags
<1>16. RecordSteps'
  <2>1. \A ops : ops \intersect {"Refused", "Flush"} = {} => ~First(ops)'
    BY <1>10
  <2>2. /\ todo' # <<>> /\ ~Within({"PushIncoming"}, todo') /\ after' = "packets"
        /\ Within({"Flush"}, todo') => Within({"NextIncoming"}, todo')
    BY <1>2, <1>3, <1>5
  <2>3. Within({"ServerClosed"}, todo') => loop'.server_closed /\ leader.state # "Closed"
    BY <1>2, <1>4, <1>8, <1>9
  <2>4. loop'.server_closed => leader.state = "Closed" \/ Within({"ServerClosed"}, todo')
    <3>1. loop.server_closed => leader.state = "Closed"
      BY <1>7 DEF Running, RecordSteps
    <3> QED BY <1>2, <1>3, <1>8, <3>1
  <2>5. First({"Refused"})' => ~Clean'
    BY <1>2, <1>15 DEF Clean
  <2>6. leader' = leader
    BY <1>2
  <2> QED BY <2>1, <2>2, <2>3, <2>4, <2>5, <2>6 DEF RecordSteps
<1>17. ByState'
  <2>1. leader.state = "Closed" => loop'.server_closed
    BY <1>8 DEF Running, ByState
  <2> QED BY <1>2, <1>11, <2>1 DEF Running, ByState
<1>18. OnTheWay'
  <2>1. ~Within({"PushIncoming"}, todo')
    BY <1>2, <1>5
  <2>2. ~Has("Finished", Incoming(todo')) /\ ~Has("Bad", Incoming(todo'))
    BY <1>2, <1>6
  <2> QED BY <1>2, <2>1, <2>2 DEF Running, OnTheWay, Lone
<1>19. Flags'
  <2>1. NoData(Outgoing(todo')) /\ ~Has("Finished", Incoming(todo'))
    BY <1>2, <1>6
  <2>2. loop'.server_closed => ~loop'.reading /\ socket.server # "open" /\ socket.in = <<>>
    BY <1>8, <1>9 DEF Running, Flags
  <2>3. UNCHANGED <<client, leader, socket, verifier>> /\ after' = "packets"
    BY <1>2
  <2> QED BY <1>8, <2>1, <2>2, <2>3 DEF Running, Flags, Clean, FinishedGone
<1>20. Flow'
  <2>1. DataOf(Incoming(todo')) = <<>> /\ DataOf(Outgoing(todo')) = <<>>
    BY <1>2, <1>6
  <2>2. InFlow'
    BY <1>2, <1>7, <2>1 DEF Running, Flow, InFlow
  <2>3. WriteFlow'
    BY <1>2, <1>7, <2>1 DEF Running, Flow, WriteFlow
  <2>4. ReadFlow' /\ OutFlow'
    BY <1>2 DEF Running, Flow, ReadFlow, OutFlow
  <2> QED BY <1>2, <2>2, <2>3, <2>4 DEF Running, Flow
<1>21. Control'
  <2>1. ~First({"IsEmpty"})'
    BY <1>10
  <2> QED BY <1>2, <1>3, <2>1 DEF Control
<1>22. Mail'
  <2>1. Own' = <<>>
    BY <1>2 DEF Own
  <2> QED BY <1>2, <1>7, <2>1, MailSame DEF Running
<1> QED BY <1>2, <1>12, <1>13, <1>14, <1>16, <1>17, <1>18, <1>19, <1>20, <1>21, <1>22 DEF Running

LEMMA NotifiedKeeps ==
  ASSUME TypeOK, Running, notified
  PROVE  TypeOK' /\ Running'
<1>1. /\ pc = "select" /\ todo' = Processing(<<>>) /\ after' = "packets" /\ pc' = "calls"
      /\ UNCHANGED <<loop, client, mailbox, leader, conn, socket, control, verifier, failure, result>>
  BY DEF notified, envVars
<1>2. Processing(<<>>) \o <<>> = Processing(<<>>)
  <2>1. Processing(<<>>) = IF client.phase = "error" THEN Calls(<<"Refused">>) ELSE DrainCalls
    BY DrainProcessing
  <2>2. Calls(<<"Refused">>) \o <<>> = Calls(<<"Refused">>) /\ DrainCalls \o <<>> = DrainCalls
    BY DEF DrainCalls, Calls
  <2> QED BY <2>1, <2>2
<1> QED BY <1>1, <1>2, DrainKeeps

LEMMA ReadEndKeeps ==
  ASSUME TypeOK, Running, read_end, Live
  PROVE  TypeOK' /\ (Running' \/ (FailureHasCause' /\ result' = "Err"))
<1>1. /\ pc = "select" /\ loop.reading /\ socket.in = <<>> /\ socket.server # "open"
      /\ UNCHANGED <<mailbox, leader, conn, socket, control, verifier>>
      /\ \/ Fails("read")
         \/ /\ todo' = Processing(<<>>) \o Calls(<<"ServerClosed">>)
            /\ loop' = [loop EXCEPT !.server_closed = TRUE, !.reading = FALSE]
            /\ pc' = "calls" /\ after' = "packets"
            /\ UNCHANGED <<client, failure, result>>
  BY DEF read_end, ReadReady, envVars
<1>2. CASE Fails("read")
  <2>1. TypeOK'
    BY <1>1, <1>2 DEF TypeOK, Fails
  <2>2. FailureHasCause' /\ result' = "Err"
    BY <1>1, <1>2 DEF FailureHasCause, Fails
  <2> QED BY <2>1, <2>2
<1>3. CASE /\ todo' = Processing(<<>>) \o Calls(<<"ServerClosed">>)
           /\ loop' = [loop EXCEPT !.server_closed = TRUE, !.reading = FALSE]
           /\ pc' = "calls" /\ after' = "packets"
           /\ UNCHANGED <<client, failure, result>>
  <2>1. PICK e : e = <<Call("ServerClosed")>>
    OBVIOUS
  <2>2. Calls(<<"ServerClosed">>) = e /\ e # <<>>
    BY <2>1 DEF Calls
  <2> QED BY <1>1, <1>3, <2>1, <2>2, DrainKeeps
<1> QED BY <1>1, <1>2, <1>3

\* A call to push a record and, behind it, calls that push nothing.
LEMMA PushedFirst ==
  ASSUME NEW s \in Seq(Calling), s # <<>>, NEW r \in Record, Head(s) = Push("PushOutgoing", r),
         ~Within({"PushOutgoing"}, Tail(s)), ~Within({"PushIncoming"}, s)
  PROVE  /\ DataOf(Outgoing(s)) = (IF IsData(r) THEN <<r>> ELSE <<>>)
         /\ NoData(Outgoing(s)) <=> ~IsData(r)
         /\ DataOf(Incoming(s)) = <<>> /\ ~Has("Finished", Incoming(s)) /\ ~Has("Bad", Incoming(s)) /\ Lone(Incoming(s))
<1>1. Tail(s) \in Seq(Calling) /\ Head(s).op = "PushOutgoing" /\ Head(s).msg = r
  BY HeadTailProperties, CallType
<1>2. DataOf(Pushed("PushOutgoing", Tail(s))) = <<>> /\ \A typ : typ # "none" => ~Has(typ, Pushed("PushOutgoing", Tail(s)))
  BY <1>1, PushedNone
<1>3. /\ \A typ : typ # "none" => (Has(typ, Pushed("PushOutgoing", s)) <=> r.typ = typ)
      /\ DataOf(Pushed("PushOutgoing", s)) = (IF IsData(r) THEN <<r>> ELSE <<>>) \o <<>>
  BY <1>1, <1>2, PushedNext
<1>4. (IF IsData(r) THEN <<r>> ELSE <<>>) \o <<>> = (IF IsData(r) THEN <<r>> ELSE <<>>)
  OBVIOUS
<1>5. DataOf(Pushed("PushIncoming", s)) = <<>> /\ \A typ : typ # "none" => ~Has(typ, Pushed("PushIncoming", s))
  BY PushedNone
<1> QED BY <1>3, <1>4, <1>5 DEF Incoming, Outgoing, NoData, IsData, Lone

LEMMA ReceiveKeeps ==
  ASSUME TypeOK, Running, receive
  PROVE  TypeOK' /\ Running'
<1>1. /\ pc = "select" /\ loop.receiving
      /\ UNCHANGED <<client, mailbox, leader, socket, control, verifier, failure, result>>
  BY DEF receive, ReceiveReady
<1>2. /\ todo = <<>> /\ after = "none" /\ Delivered /\ Own = <<>> /\ ~InFlight
      /\ \A ops : ~First(ops) /\ ~Within(ops, todo)
      /\ DataOf(Incoming(todo)) = <<>> /\ DataOf(Outgoing(todo)) = <<>>
  BY <1>1, Selecting
<1>3. /\ loop.handshake_done /\ ~loop.client_closed /\ leader.started /\ client.phase # "error" /\ client.phase # "hello"
      /\ leader.state # "Handshake"
  BY <1>1 DEF Running, Flags
<1>4. client.tls = <<>> /\ leader.encrypt = <<>> /\ leader.encrypted = <<>> /\ client.plaintext = <<>>
  BY <1>2, <1>3 DEF Running, RecordSteps, Delivered
<1>5. loop.server_closed => leader.state = "Closed"
  BY <1>2 DEF Running, RecordSteps
<1>6. conn.tx \in Seq(Record)
  BY DEF TypeOK
<1>7. CASE conn.tx # <<>> /\ todo' = write_all_plaintext(Head(conn.tx)) /\ after' = "packets" /\ pc' = "calls"
           /\ conn' = [conn EXCEPT !.tx = Tail(@)] /\ UNCHANGED loop
  <2>1. PICK h, t, s : h = Head(conn.tx) /\ t = Tail(conn.tx) /\ s = write_all_plaintext(h)
    OBVIOUS
  <2>0. /\ todo' = s /\ after' = "packets" /\ pc' = "calls"
        /\ UNCHANGED <<loop, client, mailbox, leader, socket, control, verifier, failure, result>>
    BY <1>1, <1>7, <2>1
  <2>2. h \in Record /\ t \in Seq(Record)
    BY <1>6, <1>7, <2>1, HeadTailProperties
  <2>3. IsData(h)
    <3>1. Head(conn.tx) = conn.tx[1] /\ 1 \in DOMAIN conn.tx
      BY <1>6, <1>7, EmptySeq, LenProperties
    <3> QED BY <2>1, <3>1 DEF Running, Flow
  <2>4. \A i \in DOMAIN t : IsData(t[i])
    <3>1. Len(t) = Len(conn.tx) - 1 /\ \A i \in 1..Len(t) : t[i] = conn.tx[i + 1]
      BY <1>6, <1>7, <2>1, HeadTailProperties
    <3>2. Len(conn.tx) \in Nat /\ DOMAIN conn.tx = 1..Len(conn.tx) /\ DOMAIN t = 1..Len(t) /\ Len(t) \in Nat
      BY <1>6, <2>2, LenProperties
    <3>3. \A i \in DOMAIN t : t[i] = conn.tx[i + 1] /\ i + 1 \in DOMAIN conn.tx
      BY <3>1, <3>2
    <3> QED BY <3>3 DEF Running, Flow
  <2>24. h.typ # "none"
    BY <2>3 DEF IsData, NoRec, Rec
  <2>5. /\ s \in Seq(Calling) /\ Ordered(s) /\ s # <<>> /\ Head(s) = Push("PushOutgoing", h)
        /\ Only({"PushOutgoing", "Flush", "NextOutgoing"}, s) /\ ~Within({"PushOutgoing"}, Tail(s))
    BY <2>1, <2>2, <2>24, WritePlan
  <2>6. Head(s).op = "PushOutgoing" /\ Head(s).msg = h
    BY <2>5, CallType
  <2>7. \A ops : ops \intersect {"PushOutgoing", "Flush", "NextOutgoing"} = {} => ~Within(ops, s)
    BY <2>5, OnlyWithin
  <2>8. ~Within({"PushIncoming"}, s) /\ ~Within({"ServerClosed"}, s) /\ ~Within({"GetClientRandom", "GetNotify"}, s)
    BY <2>7
  <2>9. /\ DataOf(Outgoing(s)) = <<h>>
        /\ DataOf(Incoming(s)) = <<>> /\ ~Has("Finished", Incoming(s)) /\ ~Has("Bad", Incoming(s)) /\ Lone(Incoming(s))
    BY <2>2, <2>3, <2>5, <2>8, PushedFirst
  <2>10. conn' = [tx |-> t, written |-> conn.written, tx_closed |-> conn.tx_closed, rx |-> conn.rx,
                  read |-> conn.read, dropped |-> conn.dropped]
    BY <1>7, <2>1 DEF TypeOK
  <2>11. conn' \in [tx : Seq(Record), written : Nat, tx_closed : BOOLEAN, rx : Seq(Record), read : Seq(Record),
                   dropped : BOOLEAN]
    BY <2>2, <2>10 DEF TypeOK
  <2>12. TypeOK'
    <3>1. todo' \in Seq(Calling)
      BY <2>0, <2>5
    <3> QED BY <2>0, <2>11, <3>1 DEF TypeOK
  <2>13. \A ops : "PushOutgoing" \notin ops => ~First(ops)'
    BY <2>0, <2>6 DEF First
  <2>14. ~InFlight'
    BY <2>13 DEF InFlight, FlightMsgs
  <2>15. Ordered(todo)'
    <3>1. Ordered(todo')
      BY <2>0, <2>5
    <3> QED BY <3>1 DEF Ordered
  <2>16. FlightSteps'
    BY <2>0, <2>8, <2>13, <2>14 DEF FlightSteps
  <2>17. RecordSteps'
    <3>1. IsData(Head(todo').msg) /\ todo' # <<>> /\ ~Within({"PushIncoming"}, todo') /\ ~Within({"ServerClosed"}, todo')
      BY <2>0, <2>3, <2>5, <2>6, <2>8
    <3> QED BY <1>3, <1>5, <2>0, <2>13, <3>1 DEF RecordSteps
  <2>18. ByState'
    BY <2>0, <2>14 DEF Running, ByState
  <2>19. OnTheWay'
    <3>1. ~Within({"PushIncoming"}, todo') /\ ~Has("Finished", Incoming(todo')) /\ ~Has("Bad", Incoming(todo'))
      BY <2>0, <2>8, <2>9
    <3> QED BY <2>0, <3>1 DEF Running, OnTheWay, Lone
  <2>20. Flags'
    <3>1. ~Has("Finished", Incoming(todo'))
      BY <2>0, <2>9
    <3> QED BY <1>3, <2>0, <3>1 DEF Running, Flags, Clean, FinishedGone
  <2>21. Flow'
    <3>1. DataOf(Incoming(todo')) = <<>> /\ DataOf(Outgoing(todo')) = <<h>>
      BY <2>0, <2>9
    <3>2. InFlow'
      BY <1>2, <2>0, <3>1 DEF Running, Flow, InFlow
    <3>3. DataOf(conn.tx) = <<h>> \o DataOf(t) /\ DataOf(t) \in Seq(Record) /\ DataOf(conn.tx) \in Seq(Record)
      BY <1>6, <1>7, <2>1, <2>2, <2>3, DataHead, DataSeq
    <3>4. WriteFlow'
      <4>1. <<>> \o DataOf(conn.tx) = <<h>> \o DataOf(t)
        BY <3>3, ConcatEmptySeq
      <4> QED BY <1>2, <2>0, <2>10, <3>1, <4>1 DEF Running, Flow, WriteFlow
    <3>5. ReadFlow' /\ OutFlow'
      BY <2>0, <2>10 DEF Running, Flow, ReadFlow, OutFlow
    <3> QED BY <2>4, <2>10, <3>2, <3>4, <3>5 DEF Flow
  <2>22. Control'
    BY <2>0, <2>5, <2>13 DEF Control
  <2>23. Mail'
    <3>1. Own' = <<>>
      BY <2>0 DEF Own
    <3> QED BY <1>2, <2>0, <3>1, MailSame DEF Running
  <2> QED BY <2>0, <2>12, <2>15, <2>16, <2>17, <2>18, <2>19, <2>20, <2>21, <2>22, <2>23 DEF Running
<1>8. CASE conn.tx = <<>> /\ ~loop.server_closed
           /\ todo' = <<Push("PushOutgoing", Rec("close_notify", 0))>> \o Processing(<<>>)
           /\ after' = "closing" /\ pc' = "calls" /\ UNCHANGED <<conn, loop>>
  <2>1. PICK s, r : s = ClosePlan /\ r = Rec("close_notify", 0)
    OBVIOUS
  <2>2. r \in Record /\ ~IsData(r)
    BY <2>1 DEF Rec, Record, IsData
  <2>3. Processing(<<>>) = DrainCalls
    BY <1>3, DrainProcessing
  <2>0. /\ todo' = s /\ after' = "closing" /\ pc' = "calls"
        /\ UNCHANGED <<loop, client, mailbox, leader, conn, socket, control, verifier, failure, result>>
    BY <1>1, <1>8, <2>1, <2>3 DEF ClosePlan
  <2>5. /\ s \in Seq(Calling) /\ Ordered(s) /\ s # <<>> /\ Head(s) = Push("PushOutgoing", r)
        /\ Only({"PushOutgoing"} \union DrainMsgs, s) /\ ~Within({"PushOutgoing"}, Tail(s)) /\ Within({"NextIncoming"}, s)
    BY <2>1, ClosePlanned
  <2>6. Head(s).op = "PushOutgoing" /\ Head(s).msg = r
    BY <2>5, CallType
  <2>7. \A ops : ops \intersect ({"PushOutgoing"} \union DrainMsgs) = {} => ~Within(ops, s)
    BY <2>5, OnlyWithin
  <2>8. ~Within({"PushIncoming"}, s) /\ ~Within({"ServerClosed"}, s) /\ ~Within({"GetClientRandom", "GetNotify"}, s)
    BY <2>7 DEF DrainMsgs
  <2>9. /\ DataOf(Outgoing(s)) = <<>> /\ NoData(Outgoing(s))
        /\ DataOf(Incoming(s)) = <<>> /\ ~Has("Finished", Incoming(s)) /\ ~Has("Bad", Incoming(s)) /\ Lone(Incoming(s))
    BY <2>2, <2>5, <2>8, PushedFirst
  <2>12. TypeOK'
    <3>1. todo' \in Seq(Calling)
      BY <2>0, <2>5
    <3> QED BY <2>0, <3>1 DEF TypeOK
  <2>13. \A ops : "PushOutgoing" \notin ops => ~First(ops)'
    BY <2>0, <2>6 DEF First
  <2>14. ~InFlight'
    BY <2>13 DEF InFlight, FlightMsgs
  <2>15. Ordered(todo)'
    <3>1. Ordered(todo')
      BY <2>0, <2>5
    <3> QED BY <3>1 DEF Ordered
  <2>16. FlightSteps'
    BY <2>0, <2>8, <2>13, <2>14 DEF FlightSteps
  <2>17. RecordSteps'
    <3>1. /\ todo' # <<>> /\ ~Within({"PushIncoming"}, todo') /\ ~Within({"ServerClosed"}, todo')
          /\ Within({"NextIncoming"}, todo')
      BY <2>0, <2>5, <2>8
    <3>2. leader.state = "Active"
      BY <1>3, <1>8 DEF Running, ByState
    <3>3. ~loop'.server_closed
      BY <1>8
    <3> QED BY <2>0, <2>13, <3>1, <3>2, <3>3 DEF RecordSteps
  <2>18. ByState'
    BY <2>0, <2>14 DEF Running, ByState
  <2>19. OnTheWay'
    <3>1. ~Within({"PushIncoming"}, todo') /\ ~Has("Finished", Incoming(todo')) /\ ~Has("Bad", Incoming(todo'))
      BY <2>0, <2>8, <2>9
    <3> QED BY <2>0, <3>1 DEF Running, OnTheWay, Lone
  <2>20. Flags'
    <3>1. ~Has("Finished", Incoming(todo')) /\ NoData(Outgoing(todo'))
      BY <2>0, <2>9
    <3>2. NoData(client.tls) /\ NoData(leader.encrypt) /\ NoData(leader.encrypted)
      BY <1>4, HasEmpty DEF NoData
    <3> QED BY <1>3, <2>0, <3>1, <3>2 DEF Running, Flags, Clean, FinishedGone
  <2>21. Flow'
    <3>1. DataOf(Incoming(todo')) = <<>> /\ DataOf(Outgoing(todo')) = <<>>
      BY <2>0, <2>9
    <3>2. InFlow'
      BY <1>2, <2>0, <3>1 DEF Running, Flow, InFlow
    <3>4. WriteFlow'
      BY <1>2, <2>0, <3>1 DEF Running, Flow, WriteFlow
    <3>5. ReadFlow' /\ OutFlow'
      BY <2>0 DEF Running, Flow, ReadFlow, OutFlow
    <3> QED BY <2>0, <3>2, <3>4, <3>5 DEF Running, Flow
  <2>22. Control'
    BY <1>1, <2>0, <2>5, <2>13 DEF Control
  <2>23. Mail'
    <3>1. Own' = <<>>
      BY <2>0 DEF Own
    <3> QED BY <1>2, <2>0, <3>1, MailSame DEF Running
  <2> QED BY <2>0, <2>12, <2>15, <2>16, <2>17, <2>18, <2>19, <2>20, <2>21, <2>22, <2>23 DEF Running
<1>9. CASE loop.server_closed /\ loop' = [loop EXCEPT !.client_closed = TRUE, !.receiving = FALSE]
           /\ pc' = "write" /\ UNCHANGED <<todo, after, conn>>
  <2>0. /\ pc' = "write"
        /\ UNCHANGED <<todo, after, client, mailbox, leader, conn, socket, control, verifier, failure, result>>
    BY <1>1, <1>9
  <2>1. loop' = [handshake_done |-> loop.handshake_done, client_closed |-> TRUE,
                 server_closed |-> loop.server_closed, reading |-> loop.reading, receiving |-> FALSE]
    BY <1>9, LoopFields
  <2>2. TypeOK'
    <3>1. loop' \in [handshake_done : BOOLEAN, client_closed : BOOLEAN, server_closed : BOOLEAN,
                    reading : BOOLEAN, receiving : BOOLEAN]
      BY <2>1, LoopFields
    <3> QED BY <2>0, <3>1 DEF TypeOK
  <2>3. /\ loop'.handshake_done = loop.handshake_done /\ loop'.client_closed = TRUE
        /\ loop'.server_closed = loop.server_closed /\ loop'.reading = loop.reading /\ loop'.receiving = FALSE
    BY <2>1
  <2>4. Ordered(todo)' /\ FlightSteps'
    BY <2>0, <2>3 DEF Running, Ordered, FlightSteps, First, InFlight
  <2>5. RecordSteps'
    <3>1. \A ops : ~First(ops)'
      BY <1>2, <2>0 DEF First
    <3>2. leader.encrypt = <<>> /\ leader.encrypted = <<>>
      BY <1>4
    <3> QED BY <1>2, <1>5, <2>0, <2>3, <3>1, <3>2 DEF RecordSteps
  <2>6. ByState'
    BY <2>0, <2>3 DEF Running, ByState, First, InFlight
  <2>7. OnTheWay'
    BY <2>0 DEF Running, OnTheWay, Lone
  <2>8. Flags'
    <3>1. NoData(client.tls) /\ NoData(leader.encrypt) /\ NoData(leader.encrypted)
      BY <1>4, HasEmpty DEF NoData
    <3>2. NoData(Outgoing(todo))
      BY <1>2, EmptyPlan, NothingPushed
    <3> QED BY <1>3, <2>0, <2>3, <3>1, <3>2 DEF Running, Flags, Clean, FinishedGone
  <2>9. Flow'
    BY <2>0 DEF Running, Flow, ReadFlow, InFlow, OutFlow, WriteFlow, First
  <2>10. Control'
    BY <1>2, <2>0 DEF Control, First
  <2>11. Mail'
    <3>1. Own' = <<>>
      BY <2>0 DEF Own
    <3> QED BY <1>2, <2>0, <3>1, MailSame DEF Running
  <2> QED BY <2>0, <2>2, <2>4, <2>5, <2>6, <2>7, <2>8, <2>9, <2>10, <2>11 DEF Running
<1> QED BY <1>7, <1>8, <1>9 DEF receive

\* What read_tls takes off the stream, and what is left there.
LEMMA Taken ==
  ASSUME NEW f \in Seq(Record), NEW g \in Seq(Record), f # <<>>
  PROVE  /\ f \o g # <<>> /\ Head(f \o g) = Head(f) /\ Tail(f \o g) = Tail(f) \o g
         /\ \A typ : Has(typ, f \o g) <=> Has(typ, f) \/ Has(typ, g)
         /\ \A typ : Has(typ, Tail(f \o g)) <=> Has(typ, Tail(f)) \/ Has(typ, g)
         /\ DataOf(f \o g) = DataOf(f) \o DataOf(g)
<1>1. PICK h, t : h = Head(f) /\ t = Tail(f)
  OBVIOUS
<1>2. h \in Record /\ t \in Seq(Record) /\ f = <<h>> \o t
  BY <1>1, HeadTailProperties
<1>3. PICK u : u = t \o g
  OBVIOUS
<1>4. u \in Seq(Record) /\ <<h>> \in Seq(Record)
  BY <1>2, <1>3
<1>5. (<<h>> \o t) \o g = <<h>> \o (t \o g)
  BY <1>2, <1>4, Associative
<1>6. f \o g = <<h>> \o u
  BY <1>2, <1>3, <1>5
<1>7. <<h>> \o u # <<>> /\ Head(<<h>> \o u) = h /\ Tail(<<h>> \o u) = u
  BY <1>2, <1>4
<1>8. \A typ : Has(typ, f \o g) <=> Has(typ, f) \/ Has(typ, g)
  BY HasConcat
<1>9. \A typ : Has(typ, u) <=> Has(typ, t) \/ Has(typ, g)
  BY <1>2, <1>3, HasConcat
<1> QED BY <1>1, <1>3, <1>6, <1>7, <1>8, <1>9, DataConcat

LEMMA CutTwo ==
  ASSUME NEW a, NEW b
  PROVE  /\ SubSeq(<<a, b>>, 1, 1) = <<a>> /\ SubSeq(<<a, b>>, 1 + 1, 2) = <<b>>
         /\ SubSeq(<<a, b>>, 1, 2) = <<a, b>> /\ SubSeq(<<a, b>>, 3, 2) = <<>>
<1>1. PICK s : s = <<a, b>>
  OBVIOUS
<1>2. s \in Seq({a, b}) /\ Len(s) = 2 /\ s[1] = a /\ s[2] = b
  BY <1>1
<1>3. PICK x, y, z, w : x = SubSeq(s, 1, 1) /\ y = SubSeq(s, 2, 2) /\ z = SubSeq(s, 1, 2) /\ w = SubSeq(s, 3, 2)
  OBVIOUS
<1>4. x \in Seq({a, b}) /\ Len(x) = 1 /\ x[1] = a
  BY <1>2, <1>3
<1>5. y \in Seq({a, b}) /\ Len(y) = 1 /\ y[1] = b
  BY <1>2, <1>3
<1>6. z \in Seq({a, b}) /\ Len(z) = 2 /\ z[1] = a /\ z[2] = b
  BY <1>2, <1>3
<1>7. w = <<>>
  BY <1>2, <1>3
<1>8. x = <<a>> /\ y = <<b>>
  BY <1>4, <1>5
<1>9. z = <<a, b>>
  BY <1>6
<1>10. 1 + 1 = 2
  OBVIOUS
<1> QED BY <1>1, <1>3, <1>7, <1>8, <1>9, <1>10

\* Before encryption is prepared the stream holds no more than the first flight.
LEMMA FirstTaken ==
  ASSUME NEW s \in {<<Hello>>, <<Bad>>, <<Hello, Bad>>}, NEW n \in 1..Len(s)
  PROVE  \/ SubSeq(s, 1, n) = <<Hello>> /\ SubSeq(s, n + 1, Len(s)) \in {<<>>, <<Bad>>}
         \/ Has("Bad", SubSeq(s, 1, n)) /\ SubSeq(s, n + 1, Len(s)) = <<>>
<1>1. Bad.typ = "Bad"
  BY DEF Bad, Rec
<1>2. CASE s \in {<<Hello>>, <<Bad>>}
  <2>1. Len(s) = 1 /\ n = 1
    BY <1>2
  <2>2. SubSeq(s, 1, n) = s /\ SubSeq(s, n + 1, Len(s)) = <<>>
    BY <1>2, <2>1
  <2>3. Has("Bad", <<Bad>>)
    BY <1>1 DEF Has
  <2> QED BY <1>2, <2>2, <2>3
<1>3. CASE s = <<Hello, Bad>>
  <2>1. Len(s) = 2 /\ (n = 1 \/ n = 2)
    BY <1>3
  <2>2. n = 1 => SubSeq(s, 1, n) = <<Hello>> /\ SubSeq(s, n + 1, Len(s)) = <<Bad>>
    <3>1. Len(<<Hello, Bad>>) = 2
      OBVIOUS
    <3> QED BY <1>3, <3>1, CutTwo
  <2>3. n = 2 => SubSeq(s, 1, n) = <<Hello, Bad>> /\ SubSeq(s, n + 1, Len(s)) = <<>>
    <3>1. Len(<<Hello, Bad>>) = 2 /\ 2 + 1 = 3
      OBVIOUS
    <3> QED BY <1>3, <3>1, CutTwo
  <2>4. Has("Bad", <<Hello, Bad>>)
    <3>1. 2 \in DOMAIN <<Hello, Bad>> /\ <<Hello, Bad>>[2] = Bad
      OBVIOUS
    <3> QED BY <1>1, <3>1 DEF Has
  <2> QED BY <2>1, <2>2, <2>3, <2>4
<1> QED BY <1>2, <1>3

\* What the client makes of what was read: it refuses, answers the first flight,
\* or hands the records to the leader.
LEMMA ReadPlan ==
  ASSUME TypeOK, Running, read_tls
  PROVE  \E f, g \in Seq(Record) :
           /\ socket.in = f \o g /\ f # <<>>
           /\ socket' = [in |-> g, out |-> socket.out, server |-> socket.server, sent |-> socket.sent,
                         bad |-> socket.bad]
           /\ leader.state = "Handshake" => g \in {<<>>, <<Bad>>}
           /\ \/ todo' = Calls(<<"Refused">>) /\ ~Clean
              \/ todo' = FlightPlan /\ leader.state = "Handshake" /\ f = <<Hello>>
              \/ todo' = PushPlan(f) /\ leader.state # "Handshake"
<1>1. PICK n \in 1..Len(socket.in) :
        /\ todo' = Processing(SubSeq(socket.in, 1, n))
        /\ socket' = [socket EXCEPT !.in = SubSeq(@, n + 1, Len(@))]
  BY DEF read_tls
<1>2. PICK f, g, s : f = SubSeq(socket.in, 1, n) /\ g = SubSeq(socket.in, n + 1, Len(socket.in)) /\ s = socket.in
  OBVIOUS
<1>3. s \in Seq(Record) /\ n \in 0..Len(s) /\ n \in Nat /\ n >= 1
  <2>1. s \in Seq(Record) /\ Len(s) \in Nat
    BY <1>2, SocketFields, LenProperties
  <2> QED BY <1>2, <2>1
<1>4. f \in Seq(Record) /\ g \in Seq(Record) /\ f \o g = s /\ f # <<>>
  <2>1. f \in Seq(Record) /\ g \in Seq(Record) /\ f \o g = s /\ Len(f) = n
    BY <1>2, <1>3, Cut
  <2>2. f # <<>>
    BY <1>3, <2>1
  <2> QED BY <2>1, <2>2
<1>5. socket' = [in |-> g, out |-> socket.out, server |-> socket.server, sent |-> socket.sent, bad |-> socket.bad]
  BY <1>1, <1>2, SocketFields
<1>6. s # <<>> /\ Head(s) = Head(f) /\ \A typ : Has(typ, s) <=> Has(typ, f) \/ Has(typ, g)
  BY <1>4, Taken
<1>7. leader.state = "Handshake" => (f = <<Hello>> /\ g \in {<<>>, <<Bad>>}) \/ (Has("Bad", f) /\ g = <<>>)
  <2>1. SUFFICES ASSUME leader.state = "Handshake"
        PROVE  (f = <<Hello>> /\ g \in {<<>>, <<Bad>>}) \/ (Has("Bad", f) /\ g = <<>>)
    OBVIOUS
  <2>2. s \in {<<Hello>>, <<Bad>>, <<Hello, Bad>>}
    BY <1>2, <1>6, <2>1 DEF Running, ByState
  <2> QED BY <1>2, <2>2, FirstTaken
<1>8. todo' = Processing(f)
  BY <1>1, <1>2
<1>9. CASE client.phase = "error" \/ (Has("Bad", f) /\ leader.state = "Handshake")
  <2>1. client.phase = "error" \/ \E i \in DOMAIN f : f[i].typ = "Bad" /\ leader.state = "Handshake"
    BY <1>9 DEF Has
  <2>2. todo' = Calls(<<"Refused">>)
    BY <1>8, <2>1 DEF Processing
  <2>3. ~Clean
    BY <1>2, <1>6, <1>9 DEF Running, OnTheWay, Flags, Clean
  <2> QED BY <1>2, <1>4, <1>5, <1>7, <2>2, <2>3
<1>10. CASE ~(client.phase = "error" \/ (Has("Bad", f) /\ leader.state = "Handshake"))
  <2>1. ~(client.phase = "error" \/ \E i \in DOMAIN f : f[i].typ = "Bad" /\ leader.state = "Handshake")
    BY <1>10 DEF Has
  <2>2. todo' = process_new_packets(f)
    BY <1>8, <2>1 DEF Processing
  <2>3. CASE leader.state = "Handshake"
    <3>1. f = <<Hello>>
      BY <1>7, <1>10, <2>3
    <3>2. Head(<<Hello>>).typ = "Hello" /\ Tail(<<Hello>>) = <<>> /\ <<Hello>> # <<>>
      BY DEF Hello, Rec
    <3>3. process_new_packets(f) = FlightPlan
      BY <3>1, <3>2 DEF process_new_packets, FlightPlan
    <3> QED BY <1>2, <1>4, <1>5, <1>7, <2>2, <2>3, <3>1, <3>3
  <2>4. CASE leader.state # "Handshake"
    <3>1. ~Has("Hello", f)
      BY <1>2, <1>6, <2>4 DEF Running, ByState
    <3>2. Head(f).typ # "Hello"
      BY <1>4, <3>1, HasTail
    <3>3. process_new_packets(f) = PushPlan(f)
      BY <1>4, <3>2 DEF process_new_packets, PushPlan
    <3> QED BY <1>2, <1>4, <1>5, <2>2, <2>4, <3>3
  <2> QED BY <2>3, <2>4
<1> QED BY <1>9, <1>10

LEMMA ReadKeeps ==
  ASSUME TypeOK, Running, read_tls
  PROVE  TypeOK' /\ Running'
<1>1. /\ pc = "select" /\ loop.reading /\ pc' = "calls" /\ after' = "packets"
      /\ UNCHANGED <<loop, client, mailbox, leader, conn, control, verifier, failure, result>>
  BY DEF read_tls, ReadReady
<1>2. PICK f \in Seq(Record), g \in Seq(Record) :
           /\ socket.in = f \o g /\ f # <<>>
           /\ socket' = [in |-> g, out |-> socket.out, server |-> socket.server, sent |-> socket.sent,
                         bad |-> socket.bad]
           /\ leader.state = "Handshake" => g \in {<<>>, <<Bad>>}
           /\ \/ todo' = Calls(<<"Refused">>) /\ ~Clean
              \/ todo' = FlightPlan /\ leader.state = "Handshake" /\ f = <<Hello>>
              \/ todo' = PushPlan(f) /\ leader.state # "Handshake"
  BY ReadPlan
<1>3. /\ socket'.in = g /\ socket'.out = socket.out /\ socket'.server = socket.server
      /\ socket'.sent = socket.sent /\ socket'.bad = socket.bad
  BY <1>2
<1>4. /\ todo = <<>> /\ after = "none" /\ Delivered /\ Own = <<>> /\ ~InFlight
      /\ \A ops : ~First(ops) /\ ~Within(ops, todo)
      /\ DataOf(Incoming(todo)) = <<>> /\ DataOf(Outgoing(todo)) = <<>>
  BY <1>1, Selecting
<1>5. ~loop.server_closed /\ leader.state # "Closed"
  BY <1>1 DEF Running, Flags, ByState
<1>6. /\ f \o g # <<>> /\ Head(f \o g) = Head(f) /\ Tail(f \o g) = Tail(f) \o g
      /\ \A typ : Has(typ, f \o g) <=> Has(typ, f) \/ Has(typ, g)
      /\ \A typ : Has(typ, Tail(f \o g)) <=> Has(typ, Tail(f)) \/ Has(typ, g)
      /\ DataOf(f \o g) = DataOf(f) \o DataOf(g)
  BY <1>2, Taken
<1>7. /\ socket.in # <<>> /\ Head(socket.in) = Head(f)
      /\ \A typ : Has(typ, socket.in) <=> Has(typ, f) \/ Has(typ, g)
      /\ \A typ : Has(typ, Tail(socket.in)) <=> Has(typ, Tail(f)) \/ Has(typ, g)
      /\ DataOf(socket.in) = DataOf(f) \o DataOf(g)
  BY <1>2, <1>6
<1>8. ~Has("Finished", g)
  BY <1>7 DEF Running, OnTheWay, Lone
<1>9. PICK t : t = todo'
  OBVIOUS
<1>0. /\ todo' = t /\ after' = "packets" /\ pc' = "calls"
      /\ UNCHANGED <<loop, client, mailbox, leader, conn, control, verifier, failure, result>>
  BY <1>1, <1>9
<1>10. /\ t \in Seq(Calling) /\ Ordered(t) /\ t # <<>>
       /\ Within({"Flush"}, t) => Within({"NextIncoming"}, t)
       /\ \A ops : ops \intersect ({"Refused", "PushIncoming"} \union FlightOps) = {} => ~Within(ops, t)
       /\ DataOf(Outgoing(t)) = <<>> /\ NoData(Outgoing(t))
       /\ \/ Head(t).op = "Refused" /\ ~Clean /\ ~Within({"PushIncoming"}, t)
          \/ /\ Head(t).op = "SetProtocolVersion" /\ leader.state = "Handshake" /\ f = <<Hello>>
             /\ ~Within({"PushIncoming"}, t)
          \/ /\ Head(t).op = "PushIncoming" /\ leader.state # "Handshake" /\ DataOf(Incoming(t)) = DataOf(f)
             /\ Head(Incoming(t)) = Head(f)
             /\ \A typ : typ # "none" => /\ Has(typ, Incoming(t)) <=> Has(typ, f)
                                         /\ Has(typ, Tail(Incoming(t))) <=> Has(typ, Tail(f))
  <2>1. CASE t = Calls(<<"Refused">>) /\ ~Clean
    <3>1. Calls(<<"Refused">>) \o <<>> = Calls(<<"Refused">>)
      BY DEF Calls
    <3>2. t \in Seq(Calling) /\ Ordered(t) /\ t # <<>> /\ Head(t).op = "Refused" /\ Only({"Refused"}, t)
      BY <2>1, <3>1, RefusedPlan
    <3>3. \A ops : "Refused" \notin ops => ~Within(ops, t)
      BY <3>2 DEF Only, Within
    <3>4. ~Within({"PushIncoming"}, t) /\ ~Within({"PushOutgoing"}, t) /\ ~Within({"Flush"}, t)
      BY <3>3
    <3>5. DataOf(Outgoing(t)) = <<>> /\ NoData(Outgoing(t))
      BY <3>2, <3>4, NothingPushed
    <3>6. \A ops : ops \intersect ({"Refused", "PushIncoming"} \union FlightOps) = {} => ~Within(ops, t)
      BY <3>3
    <3> QED BY <2>1, <3>2, <3>4, <3>5, <3>6
  <2>2. CASE t = FlightPlan /\ leader.state = "Handshake" /\ f = <<Hello>>
    <3>1. /\ t \in Seq(Calling) /\ Ordered(t) /\ t # <<>> /\ Head(t).op = "SetProtocolVersion" /\ Only(FlightOps, t)
          /\ NoData(Outgoing(t)) /\ DataOf(Outgoing(t)) = <<>> /\ Within({"NextIncoming"}, t)
      BY <2>2, FlightPlanned
    <3>2. \A ops : ops \intersect FlightOps = {} => ~Within(ops, t)
      BY <3>1 DEF Only, Within
    <3>3. ~Within({"PushIncoming"}, t)
      BY <3>2 DEF FlightOps, FlightMsgs, DrainMsgs
    <3>4. \A ops : ops \intersect ({"Refused", "PushIncoming"} \union FlightOps) = {} => ~Within(ops, t)
      BY <3>2
    <3> QED BY <2>2, <3>1, <3>3, <3>4
  <2>3. CASE t = PushPlan(f) /\ leader.state # "Handshake"
    <3>1. PICK i : i = Incoming(t)
      OBVIOUS
    <3>2. /\ t \in Seq(Calling) /\ Ordered(t) /\ t # <<>> /\ Head(t).op = "PushIncoming"
          /\ Only({"PushIncoming"} \union DrainMsgs, t) /\ Within({"NextIncoming"}, t)
          /\ DataOf(i) = DataOf(f) /\ Head(i) = Head(f)
          /\ \A typ : typ # "none" => /\ Has(typ, i) <=> Has(typ, f)
                                      /\ Has(typ, Tail(i)) <=> Has(typ, Tail(f))
      BY <1>2, <2>3, <3>1, PushPlanned
    <3>3. \A ops : ops \intersect ({"PushIncoming"} \union DrainMsgs) = {} => ~Within(ops, t)
      BY <3>2 DEF Only, Within
    <3>4. ~Within({"PushOutgoing"}, t)
      BY <3>3 DEF DrainMsgs
    <3>5. DataOf(Outgoing(t)) = <<>> /\ NoData(Outgoing(t))
      BY <3>2, <3>4, PushedNone DEF Outgoing, NoData
    <3>6. \A ops : ops \intersect ({"Refused", "PushIncoming"} \union FlightOps) = {} => ~Within(ops, t)
      BY <3>3 DEF FlightOps
    <3> QED BY <2>3, <3>1, <3>2, <3>5, <3>6
  <2> QED BY <1>2, <1>9, <2>1, <2>2, <2>3
<1>11. ~Within({"ServerClosed"}, t) /\ ~Within({"GetClientRandom", "GetNotify"}, t)
  BY <1>10 DEF FlightOps, FlightMsgs, DrainMsgs
<1>12. \A ops : First(ops)' <=> Head(t).op \in ops
  BY <1>0, <1>10 DEF First
<1>13. \A ops : ops \intersect {"Refused", "PushIncoming", "SetProtocolVersion"} = {} => ~First(ops)'
  BY <1>10, <1>12
<1>14. InFlight' <=> Head(t).op = "SetProtocolVersion"
  BY <1>10, <1>12 DEF InFlight, FlightMsgs
<1>15. TypeOK'
  <2>1. socket' \in [in : Seq(Record), out : Seq(Record), server : {"open", "closed"}, sent : Seq(Record), bad : Nat]
    BY <1>2, SocketFields
  <2>2. todo' \in Seq(Calling)
    BY <1>0, <1>10
  <2> QED BY <1>0, <2>1, <2>2 DEF TypeOK
<1>16. Ordered(todo)'
  <2>1. Ordered(todo')
    BY <1>0, <1>10
  <2> QED BY <2>1 DEF Ordered
<1>17. FlightSteps'
  <2>1. InFlight' => leader.state = "Handshake"
    BY <1>10, <1>14
  <2> QED BY <1>0, <1>5, <1>11, <1>13, <2>1 DEF FlightSteps
<1>18. RecordSteps'
  <2>1. First({"Refused"})' => ~Clean'
    <3>1. Clean' <=> Clean
      BY <1>0, <1>3 DEF Clean
    <3> QED BY <1>10, <1>12, <3>1
  <2>2. /\ Within({"PushIncoming"}, t) => leader.state # "Handshake"
        /\ First({"PushIncoming"})' => leader.state = "Active"
    BY <1>5, <1>10, <1>12 DEF Running, ByState
  <2>3. /\ todo' = t /\ t # <<>> /\ after' = "packets" /\ leader' = leader /\ loop' = loop
        /\ Within({"Flush"}, t) => Within({"NextIncoming"}, t)
    BY <1>0, <1>10
  <2> QED BY <1>5, <1>11, <1>13, <2>1, <2>2, <2>3 DEF RecordSteps
<1>19. ByState'
  <2>1. leader.state = "Handshake" => g \in {<<>>, <<Bad>>}
    BY <1>2
  <2>2. Hello.typ = "Hello" /\ Bad.typ = "Bad"
    BY DEF Hello, Bad, Rec
  <2>3. ~Has("Hello", g)
    <3>1. ~Has("Hello", <<>>) /\ ~Has("Hello", <<Bad>>)
      BY <2>2, HasEmpty, HasOne
    <3>2. Has("Hello", g) => leader.state = "Handshake"
      BY <1>7 DEF Running, ByState
    <3> QED BY <2>1, <3>1, <3>2
  <2>4. socket.sent = <<>> => leader.state = "Handshake" /\ ~InFlight'
    <3>1. SUFFICES ASSUME socket.sent = <<>> PROVE leader.state = "Handshake" /\ ~InFlight'
      OBVIOUS
    <3>2. leader.state = "Handshake" /\ socket.in \in {<<>>, <<Bad>>}
      BY <3>1 DEF Running, ByState
    <3>3. ~Has("Hello", socket.in)
      BY <2>2, <3>2, HasEmpty, HasOne
    <3>4. f # <<Hello>>
      BY <1>7, <2>2, <3>3, HasOne
    <3> QED BY <1>10, <1>14, <3>2, <3>4
  <2> QED BY <1>0, <1>3, <2>1, <2>3, <2>4 DEF Running, ByState
<1>20. OnTheWay'
  <2>1. socket.bad = 0 => ~Has("Bad", g) /\ ~Has("Bad", f)
    BY <1>7 DEF Running, OnTheWay
  <2>2. /\ Lone(Incoming(t))
        /\ Has("Finished", Incoming(t)) => leader.decrypt = <<>> /\ leader.decrypted = <<>>
        /\ socket.bad = 0 => ~Has("Bad", Incoming(t))
    <3>1. CASE ~Within({"PushIncoming"}, t)
      <4>1. ~Has("Finished", Incoming(t)) /\ ~Has("Bad", Incoming(t))
        BY <1>10, <3>1, PushedNone DEF Incoming
      <4> QED BY <4>1 DEF Lone
    <3>2. CASE Within({"PushIncoming"}, t)
      <4>1. /\ Head(Incoming(t)) = Head(f)
            /\ \A typ : typ # "none" => /\ Has(typ, Incoming(t)) <=> Has(typ, f)
                                        /\ Has(typ, Tail(Incoming(t))) <=> Has(typ, Tail(f))
        BY <1>10, <3>2
      <4>2. PICK i : i = Incoming(t)
        OBVIOUS
      <4>3. Lone(i)
        <5>1. SUFFICES ASSUME Has("Finished", i)
              PROVE  Head(i).typ = "Finished" /\ ~Has("Finished", Tail(i)) /\ Len(socket.sent) >= 2
          BY DEF Lone
        <5>2. Has("Finished", f)
          BY <4>1, <4>2, <5>1
        <5>3. Has("Finished", socket.in)
          BY <1>7, <5>2
        <5>4. Head(f).typ = "Finished" /\ ~Has("Finished", Tail(f)) /\ Len(socket.sent) >= 2
          BY <1>7, <5>3 DEF Running, OnTheWay, Lone
        <5> QED BY <4>1, <4>2, <5>4
      <4>4. Has("Finished", i) => leader.decrypt = <<>> /\ leader.decrypted = <<>>
        BY <1>7, <4>1, <4>2 DEF Running, OnTheWay
      <4>5. socket.bad = 0 => ~Has("Bad", i)
        BY <2>1, <4>1, <4>2
      <4> QED BY <4>2, <4>3, <4>4, <4>5
    <3> QED BY <3>1, <3>2
  <2>3. Lone(Incoming(todo))' /\ Lone(socket.in)'
    <3>1. Incoming(todo)' = Incoming(t)
      BY <1>0 DEF Incoming, Pushed
    <3>2. Lone(Incoming(todo))'
      BY <1>3, <2>2, <3>1 DEF Lone, Has
    <3>3. ~Has("Finished", socket.in)'
      BY <1>3, <1>8 DEF Has
    <3> QED BY <3>2, <3>3 DEF Lone
  <2>4. socket.bad = 0 /\ Len(socket.sent) <= 1 => ~Within({"PushIncoming"}, t) /\ g \in {<<>>, <<Hello>>}
    <3>1. SUFFICES ASSUME socket.bad = 0, Len(socket.sent) <= 1
          PROVE  ~Within({"PushIncoming"}, t) /\ g \in {<<>>, <<Hello>>}
      OBVIOUS
    <3>2. socket.in = <<Hello>>
      BY <1>7, <3>1 DEF Running, OnTheWay
    <3>3. Has("Hello", socket.in)
      BY <3>2, HasOne DEF Hello, Rec
    <3>4. leader.state = "Handshake"
      BY <3>3 DEF Running, ByState
    <3>5. ~Has("Bad", g)
      BY <2>1, <3>1
    <3>6. g # <<Bad>>
      BY <3>5, HasOne DEF Bad, Rec
    <3> QED BY <1>2, <1>10, <3>4, <3>6
  <2>5. /\ Lone(leader.decrypt)' /\ Lone(leader.decrypted)'
    BY <1>0, <1>3 DEF Running, OnTheWay, Lone
  <2>6. leader' = leader /\ todo' = t
    BY <1>0
  <2>7. socket.bad = 0 /\ Len(socket.sent) <= 1 => leader.decrypt = <<>> /\ leader.decrypted = <<>>
    BY DEF Running, OnTheWay
  <2>8. Has("Finished", leader.decrypt) => leader.decrypted = <<>>
    BY DEF Running, OnTheWay
  <2>9. /\ socket.bad = 0 => ~Has("Bad", leader.decrypt)
        /\ ~Has("none", leader.encrypt) /\ ~Has("none", leader.encrypted)
    BY DEF Running, OnTheWay
  <2> QED BY <1>3, <1>8, <2>1, <2>2, <2>3, <2>4, <2>5, <2>6, <2>7, <2>8, <2>9 DEF OnTheWay
<1>21. Flags'
  <2>1. NoData(Outgoing(todo'))
    BY <1>0, <1>10
  <2>2. leader.started => ~Has("Finished", Incoming(todo')) /\ leader.state # "Handshake"
    <3>1. SUFFICES ASSUME leader.started PROVE ~Has("Finished", Incoming(t)) /\ leader.state # "Handshake"
      BY <1>0
    <3>2. ~Has("Finished", f) /\ leader.state # "Handshake"
      BY <1>7, <3>1 DEF Running, Flags, FinishedGone
    <3>3. ~Within({"PushIncoming"}, t) => ~Has("Finished", Incoming(t))
      BY <1>10, PushedNone DEF Incoming
    <3> QED BY <1>10, <3>2, <3>3
  <2>3. leader' = leader /\ loop' = loop /\ client' = client /\ verifier' = verifier /\ after' = "packets"
    BY <1>0
  <2> QED BY <1>3, <1>5, <1>8, <2>1, <2>2, <2>3 DEF Running, Flags, Clean, FinishedGone
<1>22. Flow'
  <2>1. PICK a, b, c, d : /\ a = DataOf(leader.recv) /\ b = DataOf(leader.decrypt) /\ c = DataOf(Incoming(t))
                          /\ d = DataOf(socket.in)
    OBVIOUS
  <2>2. InFlow'
    <3>1. SUFFICES ASSUME Head(t).op # "Refused"
          PROVE  DataOf(socket.sent) = a \o (b \o (c \o DataOf(g)))
      BY <1>0, <1>3, <1>12, <2>1 DEF InFlow
    <3>2. DataOf(socket.sent) = a \o (b \o (<<>> \o d))
      BY <1>4, <2>1 DEF Running, Flow, InFlow
    <3>3. <<>> \o d = d
      BY <2>1, SocketFields, DataSeq, ConcatEmptySeq
    <3>4. c = DataOf(f)
      <4>1. CASE Head(t).op = "SetProtocolVersion"
        <5>1. ~Within({"PushIncoming"}, t) /\ f = <<Hello>>
          BY <1>10, <4>1
        <5>2. c = <<>>
          BY <1>10, <2>1, <5>1, PushedNone DEF Incoming
        <5>3. NoData(f)
          BY <5>1, HasOne DEF NoData, Hello, Rec
        <5> QED BY <1>2, <5>2, <5>3, DataNone
      <4>2. CASE Head(t).op = "PushIncoming"
        BY <1>10, <2>1, <4>2
      <4> QED BY <1>10, <3>1, <4>1, <4>2
    <3> QED BY <1>7, <2>1, <3>2, <3>3, <3>4
  <2>3. WriteFlow'
    <3>1. DataOf(Outgoing(todo')) = <<>>
      BY <1>0, <1>10
    <3> QED BY <1>0, <1>4, <3>1 DEF Running, Flow, WriteFlow
  <2>4. ReadFlow' /\ OutFlow'
    BY <1>0, <1>3 DEF Running, Flow, ReadFlow, OutFlow
  <2> QED BY <1>0, <2>2, <2>3, <2>4 DEF Running, Flow
<1>23. Control'
  BY <1>0, <1>10, <1>13 DEF Control
<1>24. Mail'
  <2>1. Own' = <<>>
    BY <1>0 DEF Own
  <2> QED BY <1>0, <1>4, <2>1, MailSame DEF Running
<1> QED BY <1>0, <1>15, <1>16, <1>17, <1>18, <1>19, <1>20, <1>21, <1>22, <1>23, <1>24 DEF Running

-----------------------------------------------------------------------------
\* The actor answers a call, and the loop takes the reply.

\* The call the loop waits for is taken from the mailbox.
Asked(m) ==
  /\ pc = "asked" /\ todo # <<>> /\ m = Head(todo)
  /\ m.op \in MpcTlsLeaderMsg \ (CtrlMsgs \union {"GetSuite", "SetEncrypt", "SetDecrypt", "SetHsHashServerHello"})
  /\ mailbox' = (IF control = "called" THEN Defer ELSE <<>>)
  /\ UNCHANGED <<conn, socket, control, verifier>>

\* Which calls may follow a call.
LEMMA Follows ==
  /\ Behind("GetClientKeyShare") = {"GetClientRandom", "SetHsHashClientKeyExchange"}
  /\ Behind("GetClientRandom") = {"GetNotify"} /\ Behind("SetProtocolVersion") = {"SetCipherSuite"}
  /\ Behind("SetCipherSuite") = {"SetServerRandom"} /\ Behind("SetServerRandom") = {"SetServerCertDetails"}
  /\ Behind("SetServerCertDetails") = {"GetClientKeyShare"}
  /\ Behind("SetHsHashClientKeyExchange") = {"SetServerKxDetails"}
  /\ Behind("SetServerKxDetails") = {"SetServerKeyShare"} /\ Behind("SetServerKeyShare") = {"PrepareEncryption"}
  /\ Behind("PrepareEncryption") = {"GetClientFinishedVd"} /\ Behind("GetClientFinishedVd") = {"PushOutgoing"}
  /\ Behind("PushIncoming") = {"PushIncoming", "Flush"} /\ Behind("PushOutgoing") = {"Flush"}
  /\ Behind("Flush") = {"NextIncoming", "NextOutgoing"} /\ Behind("GetServerFinishedVd") = {"StartTraffic"}
  /\ Behind("StartTraffic") = {"NextIncoming"} /\ Behind("NextIncoming") = {"NextOutgoing"}
  /\ Behind("NextOutgoing") = {"ServerClosed"}
  /\ Behind("GetNotify") = {} /\ Behind("IsEmpty") = {} /\ Behind("ServerClosed") = {}
  /\ \A op \in {"GetSuite", "SetEncrypt", "SetDecrypt", "SetHsHashServerHello"} : Behind(op) = {}
BY DEF Behind

LEMMA Dispatched ==
  ASSUME TypeOK, Running, handle
  PROVE  \E m \in Calling : /\ Asked(m) /\ leader' = dispatch(m).leader
                            /\ IF dispatch(m).ok THEN Replied(m, dispatch(m).value) ELSE CallFails(m)
<1>1. /\ mailbox # <<>> /\ Head(mailbox).op \notin CtrlMsgs /\ mailbox' = Tail(mailbox)
      /\ UNCHANGED <<conn, socket, control, verifier>>
      /\ \E m : /\ m = Head(mailbox) /\ leader' = dispatch(m).leader
                /\ IF dispatch(m).ok THEN Replied(m, dispatch(m).value) ELSE CallFails(m)
  BY Zenon DEF handle, envVars
<1>2. PICK m : /\ m = Head(mailbox) /\ leader' = dispatch(m).leader
               /\ IF dispatch(m).ok THEN Replied(m, dispatch(m).value) ELSE CallFails(m)
  BY <1>1
<1>3. Head(mailbox).op # "DeferDecryption" /\ Head(mailbox).op # "Stop"
  BY <1>1 DEF CtrlMsgs
<1>4. /\ pc = "asked" /\ todo # <<>> /\ m = Head(todo) /\ mailbox' = (IF control = "called" THEN Defer ELSE <<>>)
  BY <1>1, <1>2, <1>3, FirstMail DEF Running
<1>5. m \in Calling
  BY <1>4 DEF TypeOK
<1>6. /\ m.op # "Refused"
      /\ m.op \notin {"GetSuite", "SetEncrypt", "SetDecrypt", "SetHsHashServerHello"}
  <2>1. m.op # "Refused"
    BY <1>4 DEF Running, Control
  <2>2. /\ Tail(todo) = <<>> => m.op \in LastMsgs
        /\ Tail(todo) # <<>> => Head(Tail(todo)).op \in Behind(m.op)
    BY <1>4, OrderedTail DEF TypeOK, Running
  <2>3. ASSUME m.op \in {"GetSuite", "SetEncrypt", "SetDecrypt", "SetHsHashServerHello"} PROVE FALSE
    BY <2>2, <2>3, Follows DEF LastMsgs
  <2> QED BY <2>1, <2>3
<1>7. m.op \in MpcTlsLeaderMsg \ CtrlMsgs
  <2>1. m.op \in MpcTlsLeaderMsg \union {"Refused"}
    BY <1>5 DEF Calling
  <2> QED BY <1>1, <1>2, <1>6, <2>1
<1>8. Asked(m)
  BY <1>1, <1>4, <1>6, <1>7 DEF Asked
<1> QED BY <1>2, <1>5, <1>8

LEMMA RestTyped ==
  ASSUME TypeOK, NEW m, Asked(m)
  PROVE  \E t \in Seq(Calling) : t = Tail(todo)
<1>1. Tail(todo) \in Seq(Calling)
  BY DEF TypeOK, Asked
<1> QED BY <1>1, Zenon

LEMMA MailTyped ==
  ASSUME NEW m, Asked(m)
  PROVE  mailbox' \in Seq(Calling)
<1>1. PICK c : c = Call("DeferDecryption")
  OBVIOUS
<1>2. c \in Calling
  BY <1>1, DeferType
<1>3. <<c>> \in Seq(Calling) /\ <<>> \in Seq(Calling)
  BY <1>2
<1> QED BY <1>1, <1>3 DEF Asked, Defer

\* The types of what changes when a call is answered.
Leaders ==
  [state : {"Handshake", "Active", "Closed", "Error", "Panicked"}, fields : SUBSET MpcTlsLeaderMsg,
   is_decrypting : BOOLEAN, ready : BOOLEAN, started : BOOLEAN, encrypt : Seq(Record),
   encrypted : Seq(Record), decrypt : Seq(Record), decrypted : Seq(Record),
   sent : Seq(Record), recv : Seq(Record)]
Clients == [phase : {"hello", "traffic", "error"}, plaintext : Seq(Record), tls : Seq(Record)]

LEMMA ClientTyped == ASSUME TypeOK PROVE client \in Clients
BY DEF TypeOK, Clients

LEMMA Typed ==
  ASSUME TypeOK, NEW t \in Seq(Calling), todo' = t, mailbox' \in Seq(Calling), leader' \in Leaders, client' \in Clients,
         pc' = "calls", after' = after \/ after' \in {"select", "break"},
         UNCHANGED <<loop, failure, result, conn, socket, control, verifier>>
  PROVE  TypeOK'
<1>1. /\ pc' \in {"calls", "asked", "write", "forward", "select", "ended"}
      /\ after' \in {"none", "started", "packets", "closing", "select", "break"}
  BY DEF TypeOK
<1>2. /\ loop' \in [handshake_done : BOOLEAN, client_closed : BOOLEAN, server_closed : BOOLEAN,
                     reading : BOOLEAN, receiving : BOOLEAN]
  BY DEF TypeOK
<1>3. /\ conn' \in [tx : Seq(Record), written : Nat, tx_closed : BOOLEAN, rx : Seq(Record), read : Seq(Record),
                     dropped : BOOLEAN]
      /\ socket' \in [in : Seq(Record), out : Seq(Record), server : {"open", "closed"}, sent : Seq(Record), bad : Nat]
  BY DEF TypeOK
<1>4. /\ control' \in {"idle", "called", "answered"} /\ verifier' \in BOOLEAN
      /\ failure' \in MpcTlsLeaderMsg \union {"none", "client", "read", "write"} /\ result' \in {"none", "Ok", "Err"}
  BY DEF TypeOK
<1>5. todo' \in Seq(Calling)
  OBVIOUS
<1> QED BY <1>1, <1>2, <1>3, <1>4, <1>5 DEF TypeOK, Leaders, Clients

LEMMA DecryptedTyped ==
  ASSUME TypeOK, NEW x \in Seq(Record)
  PROVE  [state |-> leader.state, fields |-> leader.fields, is_decrypting |-> leader.is_decrypting,
          ready |-> leader.ready, started |-> leader.started, encrypt |-> leader.encrypt,
          encrypted |-> leader.encrypted, decrypt |-> leader.decrypt, decrypted |-> x,
          sent |-> leader.sent, recv |-> leader.recv] \in Leaders
BY LeaderFields DEF Leaders

LEMMA EncryptedTyped ==
  ASSUME TypeOK, NEW y \in Seq(Record)
  PROVE  [state |-> leader.state, fields |-> leader.fields, is_decrypting |-> leader.is_decrypting,
          ready |-> leader.ready, started |-> leader.started, encrypt |-> leader.encrypt,
          encrypted |-> y, decrypt |-> leader.decrypt, decrypted |-> leader.decrypted,
          sent |-> leader.sent, recv |-> leader.recv] \in Leaders
BY LeaderFields DEF Leaders

LEMMA ReplyTyped ==
  ASSUME TypeOK, NEW p \in Seq(Record), NEW u \in Seq(Record)
  PROVE  [phase |-> client.phase, plaintext |-> p, tls |-> u] \in Clients
BY ClientFields DEF Clients

\* A call is answered and the next one has its turn.
LEMMA NextCall ==
  ASSUME TypeOK, Running, NEW m \in Calling, Asked(m), NEW t \in Seq(Calling), t = Tail(todo)
  PROVE  /\ Ordered(t) /\ (t = <<>> => m.op \in LastMsgs) /\ (t # <<>> => Head(t).op \in Behind(m.op))
         /\ \A ops : Within(ops, todo) <=> m.op \in ops \/ Within(ops, t)
         /\ \A ops : First(ops) <=> m.op \in ops
         /\ m.op # "PushIncoming" =>
              /\ DataOf(Incoming(t)) = DataOf(Incoming(todo)) /\ ~Has("Finished", Incoming(todo))
              /\ \A typ : typ # "none" => (Has(typ, Incoming(t)) <=> Has(typ, Incoming(todo)))
         /\ m.op # "PushOutgoing" =>
              /\ DataOf(Outgoing(t)) = DataOf(Outgoing(todo))
              /\ \A typ : typ # "none" => (Has(typ, Outgoing(t)) <=> Has(typ, Outgoing(todo)))
         /\ ~Has("Finished", Incoming(t)) /\ Lone(Incoming(t))
<1>1. todo \in Seq(Calling) /\ todo # <<>> /\ m = Head(todo) /\ Ordered(todo)
  BY DEF TypeOK, Running, Asked
<1>2. /\ Ordered(t) /\ (t = <<>> => m.op \in LastMsgs) /\ (t # <<>> => Head(t).op \in Behind(m.op))
  BY <1>1, OrderedTail
<1>3. /\ \A ops : Within(ops, todo) <=> m.op \in ops \/ Within(ops, t)
      /\ \A ops : First(ops) <=> m.op \in ops
  BY <1>1, WithinTail DEF First
<1>4. /\ Incoming(todo) # <<>> /\ Head(Incoming(todo)) = (IF m.op = "PushIncoming" THEN m.msg ELSE NoRec)
      /\ Tail(Incoming(todo)) = Incoming(t)
  BY <1>1, PushedTail DEF Incoming
<1>5. ASSUME NEW op \in {"PushIncoming", "PushOutgoing"}, m.op # op
      PROVE  /\ DataOf(Pushed(op, t)) = DataOf(Pushed(op, todo))
             /\ \A typ : typ # "none" => (Has(typ, Pushed(op, t)) <=> Has(typ, Pushed(op, todo)))
  <2>1. /\ \A typ : typ # "none" => (Has(typ, Pushed(op, todo)) <=> Has(typ, Pushed(op, t)))
        /\ DataOf(Pushed(op, todo)) = <<>> \o DataOf(Pushed(op, t))
    BY <1>1, <1>5, PushedNext
  <2>2. DataOf(Pushed(op, t)) \in Seq(Record)
    BY PushedSeq, DataSeq
  <2> QED BY <2>1, <2>2, ConcatEmptySeq
<1>6. Has("Finished", Incoming(todo)) => Head(Incoming(todo)).typ = "Finished" /\ ~Has("Finished", Incoming(t))
  BY <1>4 DEF Running, OnTheWay, Lone
<1>7. ~Has("Finished", Incoming(t))
  <2>1. Has("Finished", Incoming(t)) => Has("Finished", Incoming(todo))
    BY <1>1, PushedNext DEF Incoming
  <2> QED BY <1>6, <2>1
<1>8. m.op # "PushIncoming" => ~Has("Finished", Incoming(todo))
  BY <1>4, <1>6 DEF NoRec, Rec
<1>9. Lone(Incoming(t))
  BY <1>7 DEF Lone
<1>10. m.op # "PushIncoming" =>
         /\ DataOf(Incoming(t)) = DataOf(Incoming(todo))
         /\ \A typ : typ # "none" => (Has(typ, Incoming(t)) <=> Has(typ, Incoming(todo)))
  BY <1>5 DEF Incoming
<1>11. m.op # "PushOutgoing" =>
         /\ DataOf(Outgoing(t)) = DataOf(Outgoing(todo))
         /\ \A typ : typ # "none" => (Has(typ, Outgoing(t)) <=> Has(typ, Outgoing(todo)))
  BY <1>5 DEF Outgoing
<1> QED BY <1>2, <1>3, <1>7, <1>8, <1>9, <1>10, <1>11

\* What that says of the loop and of the mailbox.
LEMMA Turned ==
  ASSUME TypeOK, Running, NEW m \in Calling, Asked(m), NEW t \in Seq(Calling), todo' = t,
         t # <<>> => Head(t).op # "IsEmpty",
         m.op # "IsEmpty", pc' = "calls", after' = after, loop' = loop
  PROVE  /\ Control' /\ Mail' /\ after \in {"started", "packets", "closing"}
<1>1. after \in {"started", "packets", "closing"}
  BY DEF TypeOK, Running, Control, First, Asked
<1>2. Control'
  <2>1. ~First({"IsEmpty"})'
    BY DEF First
  <2>2. after = "closing" => loop.receiving
    BY DEF Running, Control, Asked
  <2> QED BY <1>1, <2>1, <2>2 DEF Control
<1>3. Mail'
  <2>1. Own' = <<>>
    BY DEF Own
  <2> QED BY <2>1, MailTaken DEF Asked
<1> QED BY <1>1, <1>2, <1>3

\* The reply of a call that returns no record.
LEMMA Plain ==
  ASSUME NEW m, NEW v, Replied(m, v), m.op \notin {"NextIncoming", "NextOutgoing", "IsEmpty"}
  PROVE  /\ pc' = "calls" /\ todo' = Tail(todo) /\ after' = after
         /\ client' = (IF m.op = "StartTraffic" THEN [client EXCEPT !.phase = "traffic"] ELSE client)
         /\ UNCHANGED <<loop, failure, result>>
BY DEF Replied

\* Calls that leave the records of the leader and of the client where they are.
LEMMA RecordsKept ==
  ASSUME TypeOK, Running, NEW m \in Calling, Asked(m), m.op \notin {"PushIncoming", "PushOutgoing", "Refused"},
         NEW t \in Seq(Calling), t = Tail(todo), todo' = t,
         leader'.encrypt = leader.encrypt, leader'.encrypted = leader.encrypted, leader'.decrypt = leader.decrypt,
         leader'.decrypted = leader.decrypted, leader'.sent = leader.sent, leader'.recv = leader.recv,
         client'.plaintext = client.plaintext, client'.tls = client.tls
  PROVE  /\ Ordered(todo)' /\ OnTheWay' /\ Flow' /\ (FinishedGone => FinishedGone')
         /\ NoData(Outgoing(todo))' <=> NoData(Outgoing(todo))
<1>1. UNCHANGED <<conn, socket, control, verifier>>
  BY DEF Asked
<1>2. /\ Ordered(t)
      /\ \A ops : Within(ops, todo) <=> m.op \in ops \/ Within(ops, t)
      /\ \A ops : First(ops) <=> m.op \in ops
      /\ DataOf(Incoming(t)) = DataOf(Incoming(todo)) /\ ~Has("Finished", Incoming(todo))
      /\ \A typ : typ # "none" => (Has(typ, Incoming(t)) <=> Has(typ, Incoming(todo)))
      /\ DataOf(Outgoing(t)) = DataOf(Outgoing(todo))
      /\ \A typ : typ # "none" => (Has(typ, Outgoing(t)) <=> Has(typ, Outgoing(todo)))
      /\ ~Has("Finished", Incoming(t)) /\ Lone(Incoming(t))
  BY NextCall
<1>3. Ordered(todo)'
  <2>1. Ordered(todo')
    BY <1>2
  <2> QED BY <2>1 DEF Ordered
<1>4. Incoming(todo)' = Incoming(t) /\ Outgoing(todo)' = Outgoing(t)
  BY DEF Incoming, Outgoing, Pushed
<1>5. NoData(Outgoing(todo))' <=> NoData(Outgoing(todo))
  <2>1. NoData(Outgoing(t)) <=> NoData(Outgoing(todo))
    BY <1>2 DEF NoData
  <2> QED BY <1>4, <2>1 DEF NoData, Has
<1>6. FinishedGone => FinishedGone'
  BY <1>1, <1>2, <1>4 DEF FinishedGone
<1>7. OnTheWay'
  <2>1. Lone(Incoming(todo))'
    BY <1>1, <1>2, <1>4 DEF Lone, Has
  <2>2. Lone(socket.in)' /\ Lone(leader.decrypt)' /\ Lone(leader.decrypted)'
    BY <1>1 DEF Running, OnTheWay, Lone
  <2>3. Within({"PushIncoming"}, t) => Within({"PushIncoming"}, todo)
    BY <1>2
  <2>4. /\ ~Has("Finished", Incoming(todo)')
        /\ Has("Bad", Incoming(todo)') => Has("Bad", Incoming(todo))
    BY <1>2, <1>4
  <2> QED BY <1>1, <2>1, <2>2, <2>3, <2>4 DEF Running, OnTheWay
<1>8. Flow'
  <2>1. ~First({"Refused"})
    BY <1>2
  <2>2. InFlow'
    BY <1>1, <1>2, <1>4, <2>1 DEF Running, Flow, InFlow
  <2>3. WriteFlow'
    BY <1>1, <1>2, <1>4 DEF Running, Flow, WriteFlow
  <2>4. ReadFlow' /\ OutFlow'
    BY <1>1 DEF Running, Flow, ReadFlow, OutFlow
  <2> QED BY <1>1, <2>2, <2>3, <2>4 DEF Running, Flow
<1> QED BY <1>3, <1>5, <1>6, <1>7, <1>8

Quiet ==
  {"SetProtocolVersion", "SetCipherSuite", "GetClientRandom", "GetClientKeyShare", "SetHsHashClientKeyExchange",
   "GetServerFinishedVd", "GetClientFinishedVd", "GetNotify"} \union ServerMsgs

LEMMA DispatchTo ==
  ASSUME NEW m
  PROVE  /\ m.op \in HelloMsgs => dispatch(m) = HandleHello(m.op)
         /\ m.op \in ServerMsgs => dispatch(m) = HandleServer(m.op)
         /\ m.op \in HashMsgs => dispatch(m) = HandleHash(m.op)
         /\ m.op \in RecordMsgs => dispatch(m) = HandleRecord(m.op, m.msg)
         /\ m.op \in StateMsgs => dispatch(m) = HandleState(m.op)
<1>1. PICK op : op = m.op
  OBVIOUS
<1>2. PICK a, b, c, d, e : /\ a = HandleHello(op) /\ b = HandleServer(op) /\ c = HandleHash(op)
                           /\ d = HandleRecord(op, m.msg) /\ e = HandleState(op)
  OBVIOUS
<1>3. dispatch(m) = CASE op \in HelloMsgs -> a [] op \in ServerMsgs -> b [] op \in HashMsgs -> c
                      [] op \in RecordMsgs -> d [] op \in StateMsgs -> e
  BY <1>1, <1>2, Zenon DEF dispatch
<1>4. /\ op \in HelloMsgs => dispatch(m) = a
      /\ op \in ServerMsgs => dispatch(m) = b
      /\ op \in HashMsgs => dispatch(m) = c
      /\ op \in RecordMsgs => dispatch(m) = d
      /\ op \in StateMsgs => dispatch(m) = e
  BY <1>3 DEF HelloMsgs, ServerMsgs, HashMsgs, RecordMsgs, StateMsgs
<1> QED BY <1>1, <1>2, <1>4, Zenon

\* A handler that answers without an error has met its condition.
LEMMA WhenOk ==
  ASSUME NEW c, NEW l
  PROVE  /\ When(c, l).ok <=> c
         /\ When(c, l).leader = (IF c THEN l ELSE leader)
<1>1. CASE c
  BY <1>1 DEF When, Ok, Answer
<1>2. CASE ~c
  BY <1>2 DEF When, Err, Answer
<1> QED BY <1>1, <1>2

\* Calls that at most set a field of the leader.
LEMMA QuietDispatch ==
  ASSUME NEW m \in Calling, m.op \in Quiet, dispatch(m).ok
  PROVE  dispatch(m).leader = IF m.op \in HelloMsgs \union ServerMsgs
                              THEN [leader EXCEPT !.fields = @ \union {m.op}] ELSE leader
<1>1. CASE m.op \in ServerMsgs
  <2>1. dispatch(m) = HandleServer(m.op)
    BY <1>1, DispatchTo
  <2>2. PICK c : HandleServer(m.op) = When(c, [leader EXCEPT !.fields = @ \union {m.op}])
    BY Zenon DEF HandleServer
  <2> QED BY <1>1, <2>1, <2>2, WhenOk
<1>2. CASE m.op \in HelloMsgs
  <2>1. m.op \notin {"GetSuite", "SetEncrypt", "SetDecrypt"}
    BY DEF Quiet, ServerMsgs
  <2>2. dispatch(m) = HandleHello(m.op)
    BY <1>2, DispatchTo
  <2>3. PICK c : HandleHello(m.op) = When(c, [leader EXCEPT !.fields = @ \union {m.op}])
    BY <2>1, Zenon DEF HandleHello
  <2> QED BY <1>2, <2>2, <2>3, WhenOk
<1>3. CASE m.op = "GetNotify"
  BY <1>3 DEF dispatch, HandleState, HelloMsgs, ServerMsgs, HashMsgs, RecordMsgs, StateMsgs, Ok, Answer
<1>4. CASE m.op \in {"SetHsHashClientKeyExchange", "GetServerFinishedVd", "GetClientFinishedVd"}
  <2>1. dispatch(m) = HandleHash(m.op)
    BY <1>4, DispatchTo DEF HashMsgs
  <2>2. m.op \notin HelloMsgs \union ServerMsgs
    BY <1>4 DEF HelloMsgs, ServerMsgs
  <2>3. CASE m.op = "SetHsHashClientKeyExchange"
    BY <2>1, <2>2, <2>3 DEF HandleHash, Ok, Answer
  <2>4. CASE m.op # "SetHsHashClientKeyExchange"
    <3>1. PICK c : HandleHash(m.op) = When(c, leader)
      BY <1>4, <2>4 DEF HandleHash
    <3> QED BY <2>1, <2>2, <3>1, WhenOk
  <2> QED BY <2>3, <2>4
<1> QED BY <1>1, <1>2, <1>3, <1>4 DEF Quiet, HelloMsgs

LEMMA QuietKeeps ==
  ASSUME TypeOK, Running, NEW m \in Calling, Asked(m), m.op \in Quiet, leader' = dispatch(m).leader, dispatch(m).ok,
         Replied(m, dispatch(m).value)
  PROVE  TypeOK' /\ Running'
<1>1. /\ pc' = "calls" /\ todo' = Tail(todo) /\ after' = after
      /\ UNCHANGED <<loop, client, failure, result, conn, socket, control, verifier>>
      /\ mailbox' = (IF control = "called" THEN Defer ELSE <<>>)
  <2>1. m.op \notin {"NextIncoming", "NextOutgoing", "IsEmpty", "StartTraffic"}
    BY DEF Quiet, ServerMsgs
  <2> QED BY <2>1, Plain DEF Asked
<1>2. PICK t \in Seq(Calling) : t = Tail(todo)
  BY RestTyped
<1>0. /\ pc' = "calls" /\ todo' = t /\ after' = after
      /\ UNCHANGED <<loop, client, failure, result, conn, socket, control, verifier>>
  BY <1>1, <1>2
<1>3. PICK fs : fs = leader'.fields
  OBVIOUS
<1>4. /\ leader' = [state |-> leader.state, fields |-> fs, is_decrypting |-> leader.is_decrypting,
                    ready |-> leader.ready, started |-> leader.started, encrypt |-> leader.encrypt,
                    encrypted |-> leader.encrypted, decrypt |-> leader.decrypt, decrypted |-> leader.decrypted,
                    sent |-> leader.sent, recv |-> leader.recv]
      /\ fs \in SUBSET MpcTlsLeaderMsg /\ leader.fields \subseteq fs
      /\ m.op \in HelloMsgs \union ServerMsgs => m.op \in fs
  <2>1. m.op \in MpcTlsLeaderMsg
    BY DEF Asked
  <2>2. leader' = IF m.op \in HelloMsgs \union ServerMsgs
                  THEN [leader EXCEPT !.fields = @ \union {m.op}] ELSE leader
    BY QuietDispatch
  <2>3. CASE m.op \in HelloMsgs \union ServerMsgs
    <3>1. leader' = [leader EXCEPT !.fields = @ \union {m.op}]
      BY <2>2, <2>3
    <3>2. leader' = [leader EXCEPT !.fields = leader.fields \union {m.op}]
      BY <3>1
    <3>3. PICK gs : gs = leader.fields \union {m.op}
      OBVIOUS
    <3>4. gs \in SUBSET MpcTlsLeaderMsg /\ leader.fields \subseteq gs /\ m.op \in gs
      BY <2>1, <3>3, LeaderFields
    <3>5. leader' = [leader EXCEPT !.fields = gs]
      BY <3>2, <3>3
    <3>6. fs = gs
      BY <1>3, <3>5, LeaderFields
    <3> QED BY <3>4, <3>5, <3>6, LeaderFields
  <2>4. CASE m.op \notin HelloMsgs \union ServerMsgs
    BY <1>3, <2>2, <2>4, LeaderFields
  <2> QED BY <2>3, <2>4
<1>5. /\ Ordered(t) /\ (t = <<>> => m.op \in LastMsgs) /\ (t # <<>> => Head(t).op \in Behind(m.op))
      /\ \A ops : Within(ops, todo) <=> m.op \in ops \/ Within(ops, t)
      /\ \A ops : First(ops) <=> m.op \in ops
  BY <1>2, NextCall
<1>6. /\ DataOf(Incoming(t)) = DataOf(Incoming(todo)) /\ ~Has("Finished", Incoming(todo))
      /\ \A typ : typ # "none" => (Has(typ, Incoming(t)) <=> Has(typ, Incoming(todo)))
      /\ DataOf(Outgoing(t)) = DataOf(Outgoing(todo))
      /\ \A typ : typ # "none" => (Has(typ, Outgoing(t)) <=> Has(typ, Outgoing(todo)))
      /\ ~Has("Finished", Incoming(t)) /\ Lone(Incoming(t))
  <2>1. m.op # "PushIncoming" /\ m.op # "PushOutgoing"
    BY DEF Quiet, ServerMsgs
  <2> QED BY <1>2, <2>1, NextCall
<1>7. \/ m.op = "SetProtocolVersion" /\ Head(t).op = "SetCipherSuite"
      \/ m.op = "SetCipherSuite" /\ Head(t).op = "SetServerRandom"
      \/ m.op = "SetServerRandom" /\ Head(t).op = "SetServerCertDetails"
      \/ m.op = "SetServerCertDetails" /\ Head(t).op = "GetClientKeyShare"
      \/ m.op = "GetClientKeyShare" /\ Head(t).op \in {"GetClientRandom", "SetHsHashClientKeyExchange"}
      \/ m.op = "GetClientRandom" /\ Head(t).op = "GetNotify"
      \/ m.op = "SetHsHashClientKeyExchange" /\ Head(t).op = "SetServerKxDetails"
      \/ m.op = "SetServerKxDetails" /\ Head(t).op = "SetServerKeyShare"
      \/ m.op = "SetServerKeyShare" /\ Head(t).op = "PrepareEncryption"
      \/ m.op = "GetServerFinishedVd" /\ Head(t).op = "StartTraffic"
      \/ m.op = "GetClientFinishedVd" /\ Head(t).op = "PushOutgoing"
      \/ m.op = "GetNotify" /\ t = <<>>
  <2>1. t # <<>> => Head(t).op \in Behind(m.op)
    BY <1>5
  <2>2. t = <<>> => m.op = "GetNotify"
    BY <1>5 DEF Quiet, ServerMsgs, LastMsgs
  <2>3. m.op = "GetNotify" => t = <<>>
    BY <2>1, Follows
  <2> QED BY <2>1, <2>2, <2>3, Follows DEF Quiet, ServerMsgs
<1>8. /\ \A ops : First(ops)' <=> t # <<>> /\ Head(t).op \in ops
      /\ m.op # "GetNotify" => t # <<>>
  BY <1>0, <1>5 DEF First, Quiet, ServerMsgs, LastMsgs
<1>9. after = "started" => Only(StartMsgs, t) /\ (t # <<>> => Head(t).op \in StartMsgs)
  <2>1. SUFFICES ASSUME after = "started" PROVE Only(StartMsgs, t) /\ (t # <<>> => Head(t).op \in StartMsgs)
    OBVIOUS
  <2>2. Only(StartMsgs, todo) /\ todo \in Seq(Calling) /\ todo # <<>>
    BY <2>1 DEF Running, FlightSteps, TypeOK, Asked
  <2>3. Only(StartMsgs, t)
    BY <1>2, <2>2, OnlyTail
  <2> QED BY <2>3, OnlyTail
<1>10. InFlight' => InFlight
  <2>1. InFlight' <=> t # <<>> /\ (Head(t).op \in FlightMsgs \/ (after # "started" /\ Head(t).op = "GetClientKeyShare"))
    BY <1>0, <1>8 DEF InFlight
  <2>2. InFlight <=> m.op \in FlightMsgs \/ (after # "started" /\ m.op = "GetClientKeyShare")
    BY <1>5 DEF InFlight
  <2> QED BY <1>7, <1>9, <2>1, <2>2 DEF FlightMsgs, StartMsgs
<1>11. TypeOK'
  <2>1. leader' \in Leaders
    BY <1>4, LeaderFields DEF Leaders
  <2>2. mailbox' \in Seq(Calling)
    BY MailTyped
  <2>3. client' \in Clients
    BY <1>0, ClientTyped
  <2> QED BY <1>0, <2>1, <2>2, <2>3, Typed
<1>12. Ordered(todo)' /\ OnTheWay' /\ Flow' /\ (NoData(Outgoing(todo))' <=> NoData(Outgoing(todo)))
  <2>1. m.op \notin {"PushIncoming", "PushOutgoing", "Refused"}
    BY DEF Quiet, ServerMsgs
  <2>2. /\ leader'.encrypt = leader.encrypt /\ leader'.encrypted = leader.encrypted
        /\ leader'.decrypt = leader.decrypt /\ leader'.decrypted = leader.decrypted
        /\ leader'.sent = leader.sent /\ leader'.recv = leader.recv
    BY <1>4
  <2>3. client'.plaintext = client.plaintext /\ client'.tls = client.tls
    BY <1>0
  <2>4. todo' = t
    BY <1>0
  <2> QED BY <1>2, <2>1, <2>2, <2>3, <2>4, RecordsKept
<1>13. FlightSteps'
  <2>1. /\ m.op \in FlightMsgs => InFlight
        /\ after # "started" /\ m.op = "GetClientKeyShare" => InFlight
    BY <1>5 DEF InFlight
  <2>2. /\ after = "started" => leader.state = "Handshake" /\ Only(StartMsgs, t) /\ ~loop.server_closed
        /\ after # "started" => ~Within({"GetClientRandom", "GetNotify"}, t)
        /\ InFlight' => leader.state = "Handshake" /\ after = "packets" /\ ~loop.server_closed
    BY <1>5, <1>9, <1>10 DEF Running, FlightSteps
  <2>3. t # <<>> =>
          /\ Head(t).op = "SetCipherSuite" => {"SetProtocolVersion"} \subseteq fs
          /\ Head(t).op = "SetServerRandom" => {"SetProtocolVersion", "SetCipherSuite"} \subseteq fs
          /\ Head(t).op = "SetServerCertDetails" => {"SetProtocolVersion", "SetCipherSuite", "SetServerRandom"} \subseteq fs
    BY <1>4, <1>5, <1>7 DEF Running, FlightSteps, HelloMsgs, ServerMsgs
  <2>4. t # <<>> /\ Head(t).op = "GetClientKeyShare" =>
          Needed \ {"SetServerKxDetails", "SetServerKeyShare"} \subseteq fs
    BY <1>4, <1>5, <1>7 DEF Running, FlightSteps, HelloMsgs, ServerMsgs, Needed
  <2>5. t # <<>> /\ InFlight' /\ Head(t).op \in {"SetHsHashClientKeyExchange", "SetServerKxDetails"} =>
          Needed \ {"SetServerKxDetails", "SetServerKeyShare"} \subseteq fs
    <3>1. SUFFICES ASSUME t # <<>>, InFlight', Head(t).op \in {"SetHsHashClientKeyExchange", "SetServerKxDetails"}
                   PROVE  Needed \ {"SetServerKxDetails", "SetServerKeyShare"} \subseteq fs
      OBVIOUS
    <3>2. InFlight /\ First({"GetClientKeyShare", "SetHsHashClientKeyExchange", "SetServerKxDetails"})
      BY <1>5, <1>7, <1>10, <3>1
    <3>3. Needed \ {"SetServerKxDetails", "SetServerKeyShare"} \subseteq leader.fields
      BY <3>2 DEF Running, FlightSteps
    <3> QED BY <1>4, <3>3
  <2>6. t # <<>> /\ Head(t).op = "SetServerKeyShare" => Needed \ {"SetServerKeyShare"} \subseteq fs
    <3>1. SUFFICES ASSUME t # <<>>, Head(t).op = "SetServerKeyShare" PROVE Needed \ {"SetServerKeyShare"} \subseteq fs
      OBVIOUS
    <3>2. m.op = "SetServerKxDetails"
      BY <1>7, <3>1
    <3>3. InFlight /\ First({"GetClientKeyShare", "SetHsHashClientKeyExchange", "SetServerKxDetails"})
      BY <1>5, <2>1, <3>2 DEF FlightMsgs
    <3>4. Needed \ {"SetServerKxDetails", "SetServerKeyShare"} \subseteq leader.fields
      BY <3>3 DEF Running, FlightSteps
    <3>5. m.op \in fs
      BY <1>4, <3>2 DEF ServerMsgs
    <3> QED BY <1>4, <3>2, <3>4, <3>5
  <2>7. t # <<>> /\ Head(t).op = "PrepareEncryption" => Needed \subseteq fs
    <3>1. SUFFICES ASSUME t # <<>>, Head(t).op = "PrepareEncryption" PROVE Needed \subseteq fs
      OBVIOUS
    <3>2. m.op = "SetServerKeyShare"
      BY <1>7, <3>1
    <3>3. Needed \ {"SetServerKeyShare"} \subseteq leader.fields
      BY <1>5, <3>2 DEF Running, FlightSteps
    <3>4. m.op \in fs
      BY <1>4, <3>2 DEF ServerMsgs
    <3> QED BY <1>4, <3>2, <3>3, <3>4
  <2>8. t # <<>> => Head(t).op # "GetClientFinishedVd"
    BY <1>7
  <2>9. /\ leader'.state = leader.state /\ leader'.fields = fs /\ todo' = t /\ after' = after /\ loop' = loop
    BY <1>0, <1>4
  <2> QED BY <1>8, <2>2, <2>3, <2>4, <2>5, <2>6, <2>7, <2>8, <2>9 DEF FlightSteps
<1>14. RecordSteps'
  <2>1. /\ leader'.state = leader.state /\ leader'.started = leader.started /\ leader'.encrypt = leader.encrypt
        /\ leader'.encrypted = leader.encrypted /\ leader'.decrypt = leader.decrypt
        /\ leader'.decrypted = leader.decrypted
    BY <1>4
  <2>2. t # <<>> => Head(t).op \notin {"PushIncoming", "GetServerFinishedVd", "NextIncoming", "NextOutgoing",
                                       "ServerClosed", "Refused", "IsEmpty"}
    BY <1>7
  <2>3. t # <<>> /\ Head(t).op = "PushOutgoing" => leader.state = "Active"
    BY <1>5, <1>7 DEF Running, FlightSteps
  <2>4. t # <<>> /\ Head(t).op = "StartTraffic" =>
           /\ leader.state = "Active" /\ ~leader.started /\ Len(socket.sent) >= 2 /\ FinishedGone
           /\ leader.encrypt = <<>> /\ ~Has("Finished", leader.decrypt)
    BY <1>5, <1>7 DEF Running, RecordSteps
  <2>5. FinishedGone => FinishedGone'
    BY <1>0, <1>6, <2>1 DEF FinishedGone
  <2>6. t = <<>> => leader.encrypt = <<>> /\ leader.encrypted = <<>>
    <3>1. SUFFICES ASSUME t = <<>> PROVE leader.encrypt = <<>> /\ leader.encrypted = <<>>
      OBVIOUS
    <3>2. m.op = "GetNotify"
      BY <1>7, <1>8, <3>1
    <3>3. after = "started"
      BY <1>5, <3>2 DEF Running, FlightSteps
    <3> QED BY <3>3 DEF Running, FlightSteps, ByState
  <2>7. /\ Within({"Flush"}, t) /\ ~Within({"NextIncoming"}, t) => leader.started
        /\ Within({"ServerClosed"}, t) => loop.server_closed /\ after = "packets" /\ leader.state # "Closed"
        /\ Within({"PushIncoming"}, t) => ~loop.server_closed /\ after = "packets" /\ leader.state # "Handshake"
        /\ loop.server_closed => leader.state = "Closed" \/ Within({"ServerClosed"}, t)
    <3>1. m.op \notin {"NextIncoming", "ServerClosed"}
      BY DEF Quiet, ServerMsgs
    <3> QED BY <1>5, <3>1 DEF Running, RecordSteps
  <2>8. todo' = t /\ after' = after /\ loop' = loop /\ socket' = socket
    BY <1>0
  <2> QED BY <1>8, <2>1, <2>2, <2>3, <2>4, <2>5, <2>6, <2>7, <2>8 DEF RecordSteps
<1>15. ByState'
  BY <1>0, <1>4, <1>10 DEF Running, ByState
<1>16. Flags'
  <2>1. /\ leader'.state = leader.state /\ leader'.started = leader.started /\ leader'.encrypt = leader.encrypt
        /\ leader'.encrypted = leader.encrypted /\ leader'.decrypt = leader.decrypt
        /\ leader'.decrypted = leader.decrypted
    BY <1>4
  <2>2. NoData(Outgoing(todo))' <=> NoData(Outgoing(todo))
    BY <1>12
  <2>3. Incoming(todo)' = Incoming(t)
    BY <1>0 DEF Incoming, Pushed
  <2> QED BY <1>0, <1>6, <2>1, <2>2, <2>3 DEF Running, Flags, Clean, FinishedGone
<1>17. Control' /\ Mail'
  <2>1. t # <<>> => Head(t).op # "IsEmpty"
    BY <1>7
  <2>2. m.op # "IsEmpty"
    BY DEF Quiet, ServerMsgs
  <2> QED BY <1>0, <2>1, <2>2, Turned
<1> QED BY <1>0, <1>11, <1>12, <1>13, <1>14, <1>15, <1>16, <1>17 DEF Running

\* Encryption is prepared: the first flight is answered, and nothing of it is on its way.
LEMMA PrepareKeeps ==
  ASSUME TypeOK, Running, NEW m \in Calling, Asked(m), m.op = "PrepareEncryption", leader' = dispatch(m).leader,
         dispatch(m).ok, Replied(m, dispatch(m).value)
  PROVE  TypeOK' /\ Running'
<1>1. /\ pc' = "calls" /\ todo' = Tail(todo) /\ after' = after
      /\ UNCHANGED <<loop, client, failure, result, conn, socket, control, verifier>>
  BY Plain DEF Asked
<1>2. PICK t \in Seq(Calling) : t = Tail(todo)
  BY RestTyped
<1>0. /\ pc' = "calls" /\ todo' = t /\ after' = after
      /\ UNCHANGED <<loop, client, failure, result, conn, socket, control, verifier>>
  BY <1>1, <1>2
<1>3. leader' = [state |-> "Active", fields |-> leader.fields, is_decrypting |-> leader.is_decrypting,
                 ready |-> leader.ready, started |-> leader.started, encrypt |-> leader.encrypt,
                 encrypted |-> leader.encrypted, decrypt |-> leader.decrypt, decrypted |-> leader.decrypted,
                 sent |-> leader.sent, recv |-> leader.recv]
  <2>1. dispatch(m) = prepare_encryption
    <3>1. dispatch(m) = HandleHash(m.op)
      BY DispatchTo DEF HashMsgs
    <3> QED BY <3>1 DEF HandleHash
  <2>2. leader' = [leader EXCEPT !.state = "Active"]
    BY <2>1 DEF prepare_encryption, Ok, Err, Answer
  <2> QED BY <2>2, LeaderFields
<1>4. leader'.state = "Active" /\ leader'.started = leader.started /\ leader'.encrypt = leader.encrypt
      /\ leader'.encrypted = leader.encrypted /\ leader'.decrypt = leader.decrypt
      /\ leader'.decrypted = leader.decrypted /\ leader'.sent = leader.sent /\ leader'.recv = leader.recv
  BY <1>3
<1>5. /\ (t = <<>> => m.op \in LastMsgs) /\ (t # <<>> => Head(t).op \in Behind(m.op))
      /\ \A ops : Within(ops, todo) <=> m.op \in ops \/ Within(ops, t)
      /\ \A ops : First(ops) <=> m.op \in ops
      /\ ~Has("Finished", Incoming(t))
  BY <1>2, NextCall
<1>6. t # <<>> /\ Head(t).op = "GetClientFinishedVd" /\ \A ops : First(ops)' <=> "GetClientFinishedVd" \in ops
  BY <1>0, <1>5, Follows DEF LastMsgs, First
<1>7. InFlight /\ ~InFlight'
  BY <1>5, <1>6 DEF InFlight, FlightMsgs
<1>8. leader.state = "Handshake" /\ after = "packets" /\ ~loop.server_closed
  BY <1>7 DEF Running, FlightSteps
<1>9. TypeOK'
  <2>1. leader' \in Leaders
    BY <1>3, LeaderFields DEF Leaders
  <2>2. mailbox' \in Seq(Calling)
    BY MailTyped
  <2>3. client' \in Clients
    BY <1>0, ClientTyped
  <2> QED BY <1>0, <2>1, <2>2, <2>3, Typed
<1>10. Ordered(todo)' /\ OnTheWay' /\ Flow' /\ (NoData(Outgoing(todo))' <=> NoData(Outgoing(todo)))
  <2>1. m.op \notin {"PushIncoming", "PushOutgoing", "Refused"}
    OBVIOUS
  <2>2. client'.plaintext = client.plaintext /\ client'.tls = client.tls
    BY <1>0
  <2>3. todo' = t
    BY <1>0
  <2> QED BY <1>2, <1>4, <2>1, <2>2, <2>3, RecordsKept
<1>11. FlightSteps'
  <2>1. ~Within({"GetClientRandom", "GetNotify"}, t)
    BY <1>5, <1>8 DEF Running, FlightSteps
  <2> QED BY <1>0, <1>4, <1>6, <1>7, <1>8, <2>1 DEF FlightSteps
<1>12. RecordSteps'
  <2>1. /\ Within({"Flush"}, t) /\ ~Within({"NextIncoming"}, t) => leader.started
        /\ Within({"ServerClosed"}, t) => loop.server_closed /\ after = "packets"
        /\ ~Within({"PushIncoming"}, t)
    BY <1>5, <1>8 DEF Running, RecordSteps
  <2>2. todo' = t /\ after' = after /\ loop' = loop
    BY <1>0
  <2> QED BY <1>4, <1>6, <1>8, <2>1, <2>2 DEF RecordSteps
<1>13. ByState'
  BY <1>0, <1>4, <1>7 DEF Running, ByState
<1>14. Flags'
  <2>1. ~leader.started
    BY <1>8 DEF Running, ByState
  <2> QED BY <1>0, <1>4, <1>10, <2>1 DEF Running, Flags, Clean
<1>15. Control' /\ Mail'
  BY <1>0, <1>6, Turned
<1> QED BY <1>0, <1>9, <1>10, <1>11, <1>12, <1>13, <1>14, <1>15 DEF Running

\* The handshake is complete: application data may pass.
LEMMA StartKeeps ==
  ASSUME TypeOK, Running, NEW m \in Calling, Asked(m), m.op = "StartTraffic", leader' = dispatch(m).leader,
         dispatch(m).ok, Replied(m, dispatch(m).value)
  PROVE  TypeOK' /\ Running'
<1>1. /\ pc' = "calls" /\ todo' = Tail(todo) /\ after' = after /\ client' = [client EXCEPT !.phase = "traffic"]
      /\ UNCHANGED <<loop, failure, result, conn, socket, control, verifier>>
  BY Plain DEF Asked
<1>2. PICK t \in Seq(Calling) : t = Tail(todo)
  BY RestTyped
<1>0. /\ pc' = "calls" /\ todo' = t /\ after' = after
      /\ UNCHANGED <<loop, failure, result, conn, socket, control, verifier>>
  BY <1>1, <1>2
<1>3. leader' = [state |-> leader.state, fields |-> leader.fields, is_decrypting |-> leader.is_decrypting,
                 ready |-> leader.ready, started |-> TRUE, encrypt |-> leader.encrypt,
                 encrypted |-> leader.encrypted, decrypt |-> leader.decrypt, decrypted |-> leader.decrypted,
                 sent |-> leader.sent, recv |-> leader.recv]
  <2>1. PICK c : dispatch(m) = When(c, [leader EXCEPT !.started = TRUE])
    <3>1. dispatch(m) = HandleRecord(m.op, m.msg)
      BY DispatchTo DEF RecordMsgs
    <3> QED BY <3>1 DEF HandleRecord
  <2>2. leader' = [leader EXCEPT !.started = TRUE]
    BY <2>1, WhenOk
  <2> QED BY <2>2, LeaderFields
<1>4. leader'.state = leader.state /\ leader'.started = TRUE /\ leader'.encrypt = leader.encrypt
      /\ leader'.encrypted = leader.encrypted /\ leader'.decrypt = leader.decrypt
      /\ leader'.decrypted = leader.decrypted /\ leader'.sent = leader.sent /\ leader'.recv = leader.recv
  BY <1>3
<1>5. client' = [phase |-> "traffic", plaintext |-> client.plaintext, tls |-> client.tls]
  BY <1>1, ClientFields
<1>6. /\ (t = <<>> => m.op \in LastMsgs) /\ (t # <<>> => Head(t).op \in Behind(m.op))
      /\ \A ops : Within(ops, todo) <=> m.op \in ops \/ Within(ops, t)
      /\ \A ops : First(ops) <=> m.op \in ops
  BY <1>2, NextCall
<1>7. t # <<>> /\ Head(t).op = "NextIncoming" /\ \A ops : First(ops)' <=> "NextIncoming" \in ops
  BY <1>0, <1>6, Follows DEF LastMsgs, First
<1>8. /\ leader.state = "Active" /\ ~leader.started /\ Len(socket.sent) >= 2 /\ FinishedGone
      /\ leader.encrypt = <<>> /\ ~Has("Finished", leader.decrypt)
  BY <1>6 DEF Running, RecordSteps
<1>9. ~InFlight'
  BY <1>7 DEF InFlight, FlightMsgs
<1>10. TypeOK'
  <2>1. leader' \in Leaders
    BY <1>3, LeaderFields DEF Leaders
  <2>2. mailbox' \in Seq(Calling)
    BY MailTyped
  <2>3. client' \in Clients
    BY <1>5, ClientFields DEF Clients
  <2> QED BY <1>0, <2>1, <2>2, <2>3, Typed
<1>11. /\ Ordered(todo)' /\ OnTheWay' /\ Flow' /\ FinishedGone'
       /\ NoData(Outgoing(todo))' <=> NoData(Outgoing(todo))
  <2>1. m.op \notin {"PushIncoming", "PushOutgoing", "Refused"}
    OBVIOUS
  <2>2. client'.plaintext = client.plaintext /\ client'.tls = client.tls
    BY <1>5
  <2>3. todo' = t
    BY <1>0
  <2> QED BY <1>2, <1>4, <1>8, <2>1, <2>2, <2>3, RecordsKept
<1>12. FlightSteps'
  <2>1. after # "started" /\ ~Within({"GetClientRandom", "GetNotify"}, t)
    BY <1>6, <1>8 DEF Running, FlightSteps
  <2> QED BY <1>0, <1>4, <1>7, <1>9, <2>1 DEF FlightSteps
<1>13. RecordSteps'
  <2>1. /\ Within({"ServerClosed"}, t) => loop.server_closed /\ after = "packets" /\ leader.state # "Closed"
        /\ Within({"PushIncoming"}, t) => ~loop.server_closed /\ after = "packets" /\ leader.state # "Handshake"
        /\ loop.server_closed => leader.state = "Closed" \/ Within({"ServerClosed"}, t)
    BY <1>6 DEF Running, RecordSteps
  <2>2. todo' = t /\ after' = after /\ loop' = loop
    BY <1>0
  <2> QED BY <1>4, <1>7, <1>8, <2>1, <2>2 DEF RecordSteps
<1>14. ByState'
  BY <1>0, <1>4, <1>8, <1>9 DEF Running, ByState
<1>15. Flags'
  BY <1>0, <1>4, <1>5, <1>8, <1>11 DEF Running, Flags, Clean
<1>16. Control' /\ Mail'
  BY <1>0, <1>7, Turned
<1> QED BY <1>0, <1>10, <1>11, <1>12, <1>13, <1>14, <1>15, <1>16 DEF Running

\* The loop asks whether anything is left before it ends.
LEMMA IsEmptyKeeps ==
  ASSUME TypeOK, Running, NEW m \in Calling, Asked(m), m.op = "IsEmpty", leader' = dispatch(m).leader,
         Replied(m, dispatch(m).value)
  PROVE  TypeOK' /\ Running'
<1>1. PICK v : v = (IF is_empty THEN "true" ELSE "false")
  OBVIOUS
<1>2. leader' = leader /\ dispatch(m).value = Rec(v, 0)
  <2>1. dispatch(m) = HandleState(m.op)
    BY DispatchTo DEF StateMsgs
  <2>2. HandleState(m.op) = Answer(leader, TRUE, Rec(v, 0))
    BY <1>1, Zenon DEF HandleState
  <2> QED BY <2>1, <2>2 DEF Answer
<1>3. /\ pc' = "calls" /\ todo' = Tail(todo) /\ after' = (IF v = "true" THEN "break" ELSE "select")
      /\ UNCHANGED <<loop, client, failure, result, conn, socket, control, verifier>>
  <2>1. Replied(m, Rec(v, 0))
    BY <1>2
  <2> QED BY <2>1 DEF Replied, Rec, Asked
<1>4. /\ Tail(todo) \in Seq(Calling) /\ (Tail(todo) # <<>> => Head(Tail(todo)).op \in Behind("IsEmpty"))
      /\ \A ops : First(ops) <=> "IsEmpty" \in ops
      /\ \A ops : Within(ops, todo) <=> "IsEmpty" \in ops \/ Within(ops, Tail(todo))
  <2>1. PICK t \in Seq(Calling) : t = Tail(todo)
    BY RestTyped
  <2> QED BY <2>1, NextCall
<1>5. Tail(todo) = <<>>
  BY <1>4, Follows
<1>0. /\ pc' = "calls" /\ todo' = <<>> /\ leader' = leader
      /\ UNCHANGED <<loop, client, failure, result, conn, socket, control, verifier>>
  BY <1>2, <1>3, <1>5
<1>6. after = "none" /\ Delivered /\ leader.state = "Closed"
  BY <1>4 DEF Running, Control
<1>7. \/ after' = "select"
      \/ after' = "break" /\ leader.decrypted = <<>> /\ leader.encrypted = <<>>
  <2>1. CASE is_empty
    BY <1>1, <1>3, <1>6, <2>1 DEF is_empty
  <2>2. CASE ~is_empty
    BY <1>1, <1>3, <2>2
  <2> QED BY <2>1, <2>2
<1>8. ~InFlight' /\ ~InFlight /\ \A ops : ~First(ops)' /\ ~Within(ops, <<>>)
  <2>1. \A ops : ~First(ops)' /\ ~Within(ops, <<>>)
    BY <1>0, NoneWithin DEF First
  <2> QED BY <1>4, <2>1 DEF InFlight, FlightMsgs
<1>9. TypeOK'
  <2>1. leader' \in Leaders
    BY <1>0, LeaderFields DEF Leaders
  <2>2. mailbox' \in Seq(Calling)
    BY MailTyped
  <2>3. client' \in Clients
    BY <1>0, ClientTyped
  <2>4. <<>> \in Seq(Calling)
    OBVIOUS
  <2> QED BY <1>0, <1>7, <2>1, <2>2, <2>3, <2>4, Typed
<1>10. Ordered(todo)' /\ OnTheWay' /\ Flow' /\ (NoData(Outgoing(todo))' <=> NoData(Outgoing(todo)))
  <2>1. m.op \notin {"PushIncoming", "PushOutgoing", "Refused"}
    OBVIOUS
  <2>2. client'.plaintext = client.plaintext /\ client'.tls = client.tls
    BY <1>0
  <2>3. PICK t \in Seq(Calling) : t = Tail(todo)
    BY RestTyped
  <2>4. todo' = t
    BY <1>3, <2>3
  <2> QED BY <1>0, <2>1, <2>2, <2>3, <2>4, RecordsKept
<1>11. FlightSteps'
  BY <1>0, <1>7, <1>8 DEF FlightSteps
<1>12. RecordSteps'
  <2>1. ~loop.client_closed => leader.encrypt = <<>> /\ leader.encrypted = <<>>
    BY <1>4 DEF Running, RecordSteps
  <2> QED BY <1>0, <1>6, <1>8, <2>1 DEF RecordSteps
<1>13. ByState'
  BY <1>0, <1>6, <1>8 DEF Running, ByState
<1>14. Flags'
  <2>1. Incoming(todo)' = <<>>
    BY <1>0 DEF Incoming, Pushed
  <2>2. ~Has("Finished", Incoming(todo)')
    BY <2>1, HasEmpty
  <2> QED BY <1>0, <1>6, <1>7, <1>10, <2>2 DEF Running, Flags, Clean, FinishedGone
<1>15. Control'
  <2>1. after' = "break" => leader.decrypted = <<>> /\ leader.encrypted = <<>>
    BY <1>7
  <2>2. after' \in {"select", "break"}
    BY <1>7
  <2> QED BY <1>0, <1>6, <1>8, <2>1, <2>2 DEF Control, Delivered
<1>16. Mail'
  <2>1. Own' = <<>>
    BY <1>0 DEF Own
  <2> QED BY <2>1, MailTaken DEF Asked
<1> QED BY <1>0, <1>9, <1>10, <1>11, <1>12, <1>13, <1>14, <1>15, <1>16 DEF Running

LEMMA PushIncomingKeeps ==
  ASSUME TypeOK, Running, NEW m \in Calling, Asked(m), m.op = "PushIncoming", leader' = dispatch(m).leader,
         dispatch(m).ok, Replied(m, dispatch(m).value)
  PROVE  TypeOK' /\ Running'
<1>1. /\ pc' = "calls" /\ todo' = Tail(todo) /\ after' = after
      /\ UNCHANGED <<loop, client, failure, result, conn, socket, control, verifier>>
  BY Plain DEF Asked
<1>2. PICK t \in Seq(Calling) : t = Tail(todo)
  BY RestTyped
<1>0. /\ pc' = "calls" /\ todo' = t /\ after' = after
      /\ UNCHANGED <<loop, client, failure, result, conn, socket, control, verifier>>
  BY <1>1, <1>2
<1>3. PICK r \in Record : r = m.msg
  BY DEF Calling
<1>4. PICK q : q = Append(leader.decrypt, r)
  OBVIOUS
<1>5. leader' = [state |-> leader.state, fields |-> leader.fields, is_decrypting |-> leader.is_decrypting,
                 ready |-> leader.ready, started |-> leader.started, encrypt |-> leader.encrypt,
                 encrypted |-> leader.encrypted, decrypt |-> q, decrypted |-> leader.decrypted,
                 sent |-> leader.sent, recv |-> leader.recv]
  <2>1. PICK c : dispatch(m) = When(c, [leader EXCEPT !.decrypt = Append(@, m.msg)])
    <3>1. dispatch(m) = HandleRecord(m.op, m.msg)
      BY DispatchTo DEF RecordMsgs
    <3> QED BY <3>1 DEF HandleRecord
  <2>2. leader' = [leader EXCEPT !.decrypt = Append(leader.decrypt, m.msg)]
    BY <2>1, WhenOk
  <2>3. leader' = [leader EXCEPT !.decrypt = q]
    BY <1>3, <1>4, <2>2
  <2> QED BY <2>3, LeaderFields
<1>6. leader'.state = leader.state /\ leader'.started = leader.started /\ leader'.encrypt = leader.encrypt
      /\ leader'.encrypted = leader.encrypted /\ leader'.decrypt = q
      /\ leader'.decrypted = leader.decrypted /\ leader'.sent = leader.sent /\ leader'.recv = leader.recv
  BY <1>5
<1>7. /\ Ordered(t) /\ (t = <<>> => m.op \in LastMsgs) /\ (t # <<>> => Head(t).op \in Behind(m.op))
      /\ \A ops : Within(ops, todo) <=> m.op \in ops \/ Within(ops, t)
      /\ \A ops : First(ops) <=> m.op \in ops
      /\ DataOf(Outgoing(t)) = DataOf(Outgoing(todo))
      /\ \A typ : typ # "none" => (Has(typ, Outgoing(t)) <=> Has(typ, Outgoing(todo)))
      /\ ~Has("Finished", Incoming(t)) /\ Lone(Incoming(t))
  <2>1. m.op # "PushOutgoing"
    OBVIOUS
  <2> QED BY <1>2, <2>1, NextCall
<1>8. /\ t # <<>> /\ Head(t).op \in {"PushIncoming", "Flush"}
      /\ \A ops : First(ops)' <=> Head(t).op \in ops
  BY <1>0, <1>7, Follows DEF LastMsgs, First
<1>9. ~InFlight'
  BY <1>8 DEF InFlight, FlightMsgs
<1>10. /\ leader.state = "Active" /\ ~loop.server_closed /\ after = "packets" /\ Within({"PushIncoming"}, todo)
  BY <1>7 DEF Running, RecordSteps
<1>11. /\ \A typ : typ # "none" => (Has(typ, Incoming(todo)) <=> r.typ = typ \/ Has(typ, Incoming(t)))
       /\ DataOf(Incoming(todo)) = (IF IsData(r) THEN <<r>> ELSE <<>>) \o DataOf(Incoming(t))
  <2>1. todo \in Seq(Calling) /\ todo # <<>> /\ m = Head(todo)
    BY DEF TypeOK, Asked
  <2> QED BY <1>2, <1>3, <2>1, PushedNext DEF Incoming
<1>12. /\ q \in Seq(Record) /\ (\A typ : Has(typ, q) <=> Has(typ, leader.decrypt) \/ r.typ = typ)
       /\ DataOf(q) = DataOf(leader.decrypt) \o (IF IsData(r) THEN <<r>> ELSE <<>>)
  BY <1>4, LeaderFields, HasAppend, BehindOthers
<1>13. Incoming(todo)' = Incoming(t) /\ Outgoing(todo)' = Outgoing(t)
  BY <1>0 DEF Incoming, Outgoing, Pushed
<1>14. TypeOK'
  <2>1. leader' \in Leaders
    BY <1>5, <1>12, LeaderFields DEF Leaders
  <2>2. mailbox' \in Seq(Calling)
    BY MailTyped
  <2>3. client' \in Clients
    BY <1>0, ClientTyped
  <2> QED BY <1>0, <2>1, <2>2, <2>3, Typed
<1>15. Ordered(todo)'
  <2>1. Ordered(todo')
    BY <1>0, <1>7
  <2> QED BY <2>1 DEF Ordered
<1>16. FlightSteps'
  <2>1. after # "started" /\ ~Within({"GetClientRandom", "GetNotify"}, t)
    BY <1>7, <1>10 DEF Running, FlightSteps
  <2> QED BY <1>0, <1>6, <1>8, <1>9, <2>1 DEF FlightSteps
<1>17. RecordSteps'
  <2>1. /\ Within({"Flush"}, t) /\ ~Within({"NextIncoming"}, t) => leader.started
        /\ Within({"ServerClosed"}, t) => loop.server_closed /\ after = "packets" /\ leader.state # "Closed"
    BY <1>7 DEF Running, RecordSteps
  <2>2. todo' = t /\ after' = after /\ loop' = loop
    BY <1>0
  <2> QED BY <1>6, <1>8, <1>10, <2>1, <2>2 DEF RecordSteps
<1>18. ByState'
  BY <1>0, <1>6, <1>9, <1>10 DEF Running, ByState
<1>19. OnTheWay'
  <2>1. ~(socket.bad = 0 /\ Len(socket.sent) <= 1) /\ ~Has("Finished", socket.in)
    BY <1>10 DEF Running, OnTheWay
  <2>2. r.typ = "Finished" => Has("Finished", Incoming(todo))
    BY <1>11
  <2>3. r.typ = "Finished" => leader.decrypt = <<>> /\ leader.decrypted = <<>> /\ Len(socket.sent) >= 2
    BY <2>2 DEF Running, OnTheWay, Lone
  <2>4. Has("Finished", leader.decrypt) => Head(leader.decrypt).typ = "Finished" /\ ~Has("Finished", Tail(leader.decrypt))
    BY DEF Running, OnTheWay, Lone
  <2>5. Has("Finished", leader.decrypt) => Len(socket.sent) >= 2 /\ leader.decrypted = <<>>
    BY DEF Running, OnTheWay, Lone
  <2>6. Lone(q)
    <3>1. r.typ # "Finished" \/ leader.decrypt = <<>>
      BY <2>3
    <3>2. Has("Finished", q) => Head(q).typ = "Finished" /\ ~Has("Finished", Tail(q))
      BY <1>4, <2>4, <3>1, LeaderFields, LoneBehind
    <3> QED BY <1>12, <2>3, <2>5, <3>2 DEF Lone
  <2>7. Lone(leader.decrypt)'
    BY <1>0, <1>6, <2>6 DEF Lone
  <2>8. Lone(Incoming(todo))'
    BY <1>0, <1>7, <1>13 DEF Lone, Has
  <2>9. Lone(socket.in)' /\ Lone(leader.decrypted)'
    BY <1>0, <1>6 DEF Running, OnTheWay, Lone
  <2>10. Has("Finished", q) => leader.decrypted = <<>>
    BY <1>12, <2>3, <2>5
  <2>11. socket.bad = 0 => ~Has("Bad", socket.in) /\ ~Has("Bad", Incoming(t)) /\ ~Has("Bad", q)
    BY <1>11, <1>12 DEF Running, OnTheWay
  <2>12. ~Has("none", leader.encrypt) /\ ~Has("none", leader.encrypted)
    BY DEF Running, OnTheWay
  <2>13. ~Has("Finished", Incoming(todo)')
    BY <1>7, <1>13
  <2>14. socket' = socket /\ todo' = t
    BY <1>0
  <2> QED BY <1>6, <1>13, <2>1, <2>7, <2>8, <2>9, <2>10, <2>11, <2>12, <2>13, <2>14 DEF OnTheWay
<1>20. Flags'
  <2>1. leader.started => FinishedGone'
    BY <1>0, <1>6, <1>11, <1>12, <1>13 DEF Running, Flags, FinishedGone
  <2>2. NoData(Outgoing(todo)') <=> NoData(Outgoing(todo))
    BY <1>7, <1>13 DEF NoData
  <2> QED BY <1>0, <1>6, <2>1, <2>2 DEF Running, Flags, Clean
<1>21. Flow'
  <2>1. PICK a, b, c, d, e : /\ a = DataOf(leader.recv) /\ b = DataOf(leader.decrypt) /\ c = DataOf(Incoming(t))
                             /\ d = (IF IsData(r) THEN <<r>> ELSE <<>>) /\ e = DataOf(socket.in)
    OBVIOUS
  <2>2. InFlow'
    <3>1. /\ b \in Seq(Record) /\ d \in Seq(Record) /\ c \in Seq(Record) /\ e \in Seq(Record)
      <4>1. Incoming(t) \in Seq(Record)
        BY PushedSeq DEF Incoming
      <4>2. d \in Seq(Record)
        BY <2>1
      <4> QED BY <2>1, <4>1, <4>2, LeaderFields, SocketFields, DataSeq
    <3>2. DataOf(socket.sent) = a \o (b \o ((d \o c) \o e))
      <4>1. ~First({"Refused"})
        BY <1>7
      <4> QED BY <1>11, <2>1, <4>1 DEF Running, Flow, InFlow
    <3>3. (b \o d) \o (c \o e) = b \o ((d \o c) \o e)
      <4>1. b \in Seq(Record)
        BY <3>1
      <4>2. c \in Seq(Record)
        BY <3>1
      <4>3. d \in Seq(Record)
        BY <3>1
      <4>4. e \in Seq(Record)
        BY <3>1
      <4>5. c \o e \in Seq(Record)
        BY <4>2, <4>4
      <4>6. (b \o d) \o (c \o e) = b \o (d \o (c \o e))
        BY <4>1, <4>3, <4>5, Associative, Zenon
      <4>7. (d \o c) \o e = d \o (c \o e)
        BY <4>2, <4>3, <4>4, Associative, Zenon
      <4> QED BY <4>6, <4>7
    <3>4. DataOf(socket.sent) = a \o ((b \o d) \o (c \o e))
      BY <3>2, <3>3
    <3>5. DataOf(q) = b \o d
      BY <1>12, <2>1
    <3>6. /\ leader'.recv = leader.recv /\ leader'.decrypt = q /\ Incoming(todo)' = Incoming(t) /\ socket' = socket
      BY <1>0, <1>6, <1>13
    <3> QED BY <2>1, <3>4, <3>5, <3>6 DEF InFlow
  <2>3. WriteFlow'
    BY <1>0, <1>6, <1>7, <1>13 DEF Running, Flow, WriteFlow
  <2>4. ReadFlow' /\ OutFlow'
    BY <1>0, <1>6 DEF Running, Flow, ReadFlow, OutFlow
  <2> QED BY <1>0, <2>2, <2>3, <2>4 DEF Running, Flow
<1>22. Control' /\ Mail'
  <2>1. Head(t).op # "IsEmpty" /\ m.op # "IsEmpty"
    BY <1>8
  <2> QED BY <1>0, <2>1, Turned
<1> QED BY <1>0, <1>14, <1>15, <1>16, <1>17, <1>18, <1>19, <1>20, <1>21, <1>22 DEF Running

LEMMA PushOutgoingKeeps ==
  ASSUME TypeOK, Running, NEW m \in Calling, Asked(m), m.op = "PushOutgoing", leader' = dispatch(m).leader,
         dispatch(m).ok, Replied(m, dispatch(m).value)
  PROVE  TypeOK' /\ Running'
<1>1. /\ pc' = "calls" /\ todo' = Tail(todo) /\ after' = after
      /\ UNCHANGED <<loop, client, failure, result, conn, socket, control, verifier>>
  BY Plain DEF Asked
<1>2. PICK t \in Seq(Calling) : t = Tail(todo)
  BY RestTyped
<1>0. /\ pc' = "calls" /\ todo' = t /\ after' = after
      /\ UNCHANGED <<loop, client, failure, result, conn, socket, control, verifier>>
  BY <1>1, <1>2
<1>3. PICK r \in Record : r = m.msg
  BY DEF Calling
<1>4. PICK q : q = Append(leader.encrypt, r)
  OBVIOUS
<1>5. /\ leader' = [state |-> leader.state, fields |-> leader.fields, is_decrypting |-> leader.is_decrypting,
                    ready |-> leader.ready, started |-> leader.started, encrypt |-> q,
                    encrypted |-> leader.encrypted, decrypt |-> leader.decrypt, decrypted |-> leader.decrypted,
                    sent |-> leader.sent, recv |-> leader.recv]
      /\ Pushable
  <2>1. dispatch(m) = When(Pushable, [leader EXCEPT !.encrypt = Append(@, m.msg)])
    <3>1. dispatch(m) = HandleRecord(m.op, m.msg)
      BY DispatchTo DEF RecordMsgs
    <3> QED BY <3>1 DEF HandleRecord
  <2>2. Pushable /\ leader' = [leader EXCEPT !.encrypt = Append(leader.encrypt, m.msg)]
    BY <2>1, WhenOk
  <2>3. leader' = [leader EXCEPT !.encrypt = q]
    BY <1>3, <1>4, <2>2
  <2>4. Pushable
    BY <2>2
  <2> HIDE <2>2
  <2> QED BY <2>3, <2>4, LeaderFields
<1>6. leader'.state = leader.state /\ leader'.started = leader.started /\ leader'.encrypt = q
      /\ leader'.encrypted = leader.encrypted /\ leader'.decrypt = leader.decrypt
      /\ leader'.decrypted = leader.decrypted /\ leader'.sent = leader.sent /\ leader'.recv = leader.recv
  BY <1>5
<1>7. /\ Ordered(t) /\ (t = <<>> => m.op \in LastMsgs) /\ (t # <<>> => Head(t).op \in Behind(m.op))
      /\ \A ops : Within(ops, todo) <=> m.op \in ops \/ Within(ops, t)
      /\ \A ops : First(ops) <=> m.op \in ops
      /\ DataOf(Incoming(t)) = DataOf(Incoming(todo)) /\ ~Has("Finished", Incoming(todo))
      /\ \A typ : typ # "none" => (Has(typ, Incoming(t)) <=> Has(typ, Incoming(todo)))
      /\ ~Has("Finished", Incoming(t)) /\ Lone(Incoming(t))
  <2>1. m.op # "PushIncoming"
    OBVIOUS
  <2> QED BY <1>2, <2>1, NextCall
<1>8. /\ t # <<>> /\ Head(t).op = "Flush" /\ \A ops : First(ops)' <=> "Flush" \in ops
  BY <1>0, <1>7, Follows DEF LastMsgs, First
<1>9. ~InFlight'
  BY <1>8 DEF InFlight, FlightMsgs
<1>10. leader.state = "Active" /\ r.typ # "none"
  <2>1. leader.state # "Handshake"
    BY <1>7 DEF Running, RecordSteps
  <2>2. r.typ # "none"
    BY <1>3, OrderedTail DEF Running, TypeOK, Asked
  <2> QED BY <1>5, <2>1, <2>2 DEF Pushable
<1>11. /\ \A typ : typ # "none" => (Has(typ, Outgoing(todo)) <=> r.typ = typ \/ Has(typ, Outgoing(t)))
       /\ DataOf(Outgoing(todo)) = (IF IsData(r) THEN <<r>> ELSE <<>>) \o DataOf(Outgoing(t))
  <2>1. todo \in Seq(Calling) /\ todo # <<>> /\ m = Head(todo)
    BY DEF TypeOK, Asked
  <2> QED BY <1>2, <1>3, <2>1, PushedNext DEF Outgoing
<1>12. /\ q \in Seq(Record) /\ (\A typ : Has(typ, q) <=> Has(typ, leader.encrypt) \/ r.typ = typ)
       /\ DataOf(q) = DataOf(leader.encrypt) \o (IF IsData(r) THEN <<r>> ELSE <<>>)
  BY <1>4, LeaderFields, HasAppend, BehindOthers
<1>13. Incoming(todo)' = Incoming(t) /\ Outgoing(todo)' = Outgoing(t)
  BY <1>0 DEF Incoming, Outgoing, Pushed
<1>14. TypeOK'
  <2>1. leader' \in Leaders
    BY <1>5, <1>12, LeaderFields DEF Leaders
  <2>2. mailbox' \in Seq(Calling)
    BY MailTyped
  <2>3. client' \in Clients
    BY <1>0, ClientTyped
  <2> QED BY <1>0, <2>1, <2>2, <2>3, Typed
<1>15. Ordered(todo)'
  <2>1. Ordered(todo')
    BY <1>0, <1>7
  <2> QED BY <2>1 DEF Ordered
<1>16. FlightSteps'
  <2>1. after # "started" /\ ~Within({"GetClientRandom", "GetNotify"}, t)
    BY <1>7, <1>10 DEF Running, FlightSteps
  <2> QED BY <1>0, <1>6, <1>8, <1>9, <2>1 DEF FlightSteps
<1>17. RecordSteps'
  <2>1. /\ Within({"Flush"}, t) /\ ~Within({"NextIncoming"}, t) => leader.started
        /\ Within({"ServerClosed"}, t) => loop.server_closed /\ after = "packets" /\ leader.state # "Closed"
        /\ Within({"PushIncoming"}, t) => ~loop.server_closed /\ after = "packets" /\ leader.state # "Handshake"
        /\ loop.server_closed => leader.state = "Closed" \/ Within({"ServerClosed"}, t)
    BY <1>7 DEF Running, RecordSteps
  <2>2. todo' = t /\ after' = after /\ loop' = loop
    BY <1>0
  <2> QED BY <1>6, <1>8, <1>10, <2>1, <2>2 DEF RecordSteps
<1>18. ByState'
  BY <1>0, <1>6, <1>9, <1>10 DEF Running, ByState
<1>19. OnTheWay'
  <2>1. Lone(Incoming(todo))'
    BY <1>0, <1>7, <1>13 DEF Lone, Has
  <2>2. Lone(socket.in)' /\ Lone(leader.decrypt)' /\ Lone(leader.decrypted)'
    BY <1>0, <1>6 DEF Running, OnTheWay, Lone
  <2>3. Within({"PushIncoming"}, t) => Within({"PushIncoming"}, todo)
    BY <1>7
  <2>4. ~Has("Finished", Incoming(todo)') /\ (Has("Bad", Incoming(todo)') => Has("Bad", Incoming(todo)))
    BY <1>7, <1>13
  <2>5. ~Has("none", q) /\ ~Has("none", leader.encrypted)
    BY <1>10, <1>12 DEF Running, OnTheWay
  <2>6. socket' = socket /\ todo' = t
    BY <1>0
  <2> QED BY <1>6, <2>1, <2>2, <2>3, <2>4, <2>5, <2>6 DEF Running, OnTheWay
<1>20. Flags'
  <2>1. leader.started => FinishedGone'
    BY <1>0, <1>6, <1>7, <1>13 DEF Running, Flags, FinishedGone
  <2>2. NoData(Outgoing(todo)) /\ NoData(leader.encrypt) => NoData(Outgoing(todo)') /\ NoData(q)
    BY <1>11, <1>12, <1>13 DEF NoData
  <2> QED BY <1>0, <1>6, <2>1, <2>2 DEF Running, Flags, Clean
<1>21. Flow'
  <2>1. PICK a, b, c, d, e : /\ a = DataOf(leader.sent) /\ b = DataOf(leader.encrypt) /\ c = DataOf(Outgoing(t))
                             /\ d = (IF IsData(r) THEN <<r>> ELSE <<>>) /\ e = DataOf(conn.tx)
    OBVIOUS
  <2>2. WriteFlow'
    <3>1. /\ b \in Seq(Record) /\ d \in Seq(Record) /\ c \in Seq(Record) /\ e \in Seq(Record)
      <4>1. Outgoing(t) \in Seq(Record)
        BY PushedSeq DEF Outgoing
      <4>2. d \in Seq(Record)
        BY <2>1
      <4>3. conn.tx \in Seq(Record)
        BY DEF TypeOK
      <4> QED BY <2>1, <4>1, <4>2, <4>3, LeaderFields, DataSeq
    <3>2. a \o (b \o ((d \o c) \o e)) = Numbers(conn.written)
      BY <1>11, <2>1 DEF Running, Flow, WriteFlow
    <3>3. (b \o d) \o (c \o e) = b \o ((d \o c) \o e)
      <4>1. b \in Seq(Record)
        BY <3>1
      <4>2. c \in Seq(Record)
        BY <3>1
      <4>3. d \in Seq(Record)
        BY <3>1
      <4>4. e \in Seq(Record)
        BY <3>1
      <4>5. c \o e \in Seq(Record)
        BY <4>2, <4>4
      <4>6. (b \o d) \o (c \o e) = b \o (d \o (c \o e))
        BY <4>1, <4>3, <4>5, Associative, Zenon
      <4>7. (d \o c) \o e = d \o (c \o e)
        BY <4>2, <4>3, <4>4, Associative, Zenon
      <4> QED BY <4>6, <4>7
    <3>4. a \o ((b \o d) \o (c \o e)) = Numbers(conn.written)
      BY <3>2, <3>3
    <3>5. DataOf(q) = b \o d
      BY <1>12, <2>1
    <3>6. /\ leader'.sent = leader.sent /\ leader'.encrypt = q /\ Outgoing(todo)' = Outgoing(t) /\ conn' = conn
      BY <1>0, <1>6, <1>13
    <3> QED BY <2>1, <3>4, <3>5, <3>6 DEF WriteFlow
  <2>3. InFlow'
    <3>1. ~First({"Refused"})
      BY <1>7
    <3> QED BY <1>0, <1>6, <1>7, <1>13, <3>1 DEF Running, Flow, InFlow
  <2>4. ReadFlow' /\ OutFlow'
    BY <1>0, <1>6 DEF Running, Flow, ReadFlow, OutFlow
  <2> QED BY <1>0, <2>2, <2>3, <2>4 DEF Running, Flow
<1>22. Control' /\ Mail'
  <2>1. Head(t).op # "IsEmpty" /\ m.op # "IsEmpty"
    BY <1>8
  <2> QED BY <1>0, <2>1, Turned
<1> QED BY <1>0, <1>14, <1>15, <1>16, <1>17, <1>18, <1>19, <1>20, <1>21, <1>22 DEF Running

\* Behind the call for outgoing records is at most the one that closes the connection.
LEMMA OutgoingLast ==
  ASSUME NEW s \in Seq(Calling), s # <<>>, Ordered(s), Head(s).op = "NextOutgoing"
  PROVE  \A ops : Within(ops, s) => "NextOutgoing" \in ops \/ "ServerClosed" \in ops
<1>1. PICK t : t = Tail(s)
  OBVIOUS
<1>2. t \in Seq(Calling) /\ Ordered(t) /\ (t # <<>> => Head(t).op = "ServerClosed")
  BY <1>1, OrderedTail, Follows
<1>3. \A ops : Within(ops, s) <=> "NextOutgoing" \in ops \/ Within(ops, t)
  BY <1>1, WithinTail
<1>4. CASE t = <<>>
  BY <1>3, <1>4, NoneWithin
<1>5. CASE t # <<>>
  <2>1. PICK u : u = Tail(t)
    OBVIOUS
  <2>2. u \in Seq(Calling) /\ (u # <<>> => Head(u).op \in Behind("ServerClosed"))
    BY <1>2, <1>5, <2>1, OrderedTail
  <2>3. u = <<>>
    BY <2>2, Follows
  <2>4. \A ops : Within(ops, t) <=> "ServerClosed" \in ops \/ Within(ops, u)
    BY <1>2, <1>5, <2>1, WithinTail
  <2> QED BY <1>3, <2>3, <2>4, NoneWithin
<1> QED BY <1>4, <1>5

\* A record is handed to the client: what is on its way stays in its order.
LEMMA Moved ==
  ASSUME TypeOK, Running, NEW m \in Calling, Asked(m), m.op \in {"NextIncoming", "NextOutgoing"},
         NEW s \in Seq(Calling), Ordered(s), todo' = s,
         DataOf(Incoming(s)) = DataOf(Incoming(todo)), DataOf(Outgoing(s)) = DataOf(Outgoing(todo)),
         \A typ : typ # "none" => /\ Has(typ, Incoming(s)) => Has(typ, Incoming(todo))
                                  /\ Has(typ, Outgoing(s)) <=> Has(typ, Outgoing(todo)),
         Within({"PushIncoming"}, s) => Within({"PushIncoming"}, todo),
         leader'.encrypt = leader.encrypt, leader'.decrypt = leader.decrypt,
         leader'.sent = leader.sent, leader'.recv = leader.recv,
         NEW x \in Seq(Record), leader'.decrypted = x,
         x = leader.decrypted \/ ~Has("Finished", x), leader.decrypted = <<>> => x = <<>>,
         client'.plaintext \o DataOf(x) = client.plaintext \o DataOf(leader.decrypted),
         NEW y \in Seq(Record), leader'.encrypted = y, Has("none", y) => Has("none", leader.encrypted),
         DataOf(client'.tls) \o DataOf(y) = DataOf(client.tls) \o DataOf(leader.encrypted)
  PROVE  /\ Ordered(todo)' /\ OnTheWay' /\ Flow' /\ (FinishedGone => FinishedGone')
         /\ NoData(Outgoing(todo))' <=> NoData(Outgoing(todo))
<1>1. UNCHANGED <<conn, socket, control, verifier>>
  BY DEF Asked
<1>2. ~Has("Finished", Incoming(todo)) /\ \A ops : First(ops) <=> m.op \in ops
  <2>1. PICK t \in Seq(Calling) : t = Tail(todo)
    BY RestTyped
  <2> QED BY <2>1, NextCall
<1>3. Ordered(todo)'
  <2>1. Ordered(todo')
    OBVIOUS
  <2> QED BY <2>1 DEF Ordered
<1>4. Incoming(todo)' = Incoming(s) /\ Outgoing(todo)' = Outgoing(s)
  BY DEF Incoming, Outgoing, Pushed
<1>5. NoData(Outgoing(todo))' <=> NoData(Outgoing(todo))
  <2>1. NoData(Outgoing(s)) <=> NoData(Outgoing(todo))
    BY DEF NoData
  <2> QED BY <1>4, <2>1 DEF NoData, Has
<1>6. ~Has("Finished", Incoming(todo)')
  BY <1>2, <1>4
<1>7. FinishedGone => FinishedGone'
  BY <1>1, <1>6 DEF FinishedGone
<1>8. OnTheWay'
  <2>1. Lone(Incoming(todo))'
    BY <1>6 DEF Lone
  <2>2. Lone(socket.in)' /\ Lone(leader.decrypt)'
    BY <1>1 DEF Running, OnTheWay, Lone
  <2>3. Lone(leader.decrypted)'
    <3>1. Lone(x)
      BY DEF Running, OnTheWay, Lone
    <3> QED BY <1>1, <3>1 DEF Lone
  <2>4. Has("Bad", Incoming(todo)') => Has("Bad", Incoming(todo))
    BY <1>4
  <2>5. todo' = s /\ socket' = socket
    BY <1>1
  <2>6. socket.bad = 0 /\ Len(socket.sent) <= 1 =>
          /\ leader.decrypt = <<>> /\ x = <<>> /\ ~Within({"PushIncoming"}, s)
          /\ socket.in \in {<<>>, <<Hello>>}
    BY DEF Running, OnTheWay
  <2>7. /\ Has("Finished", socket.in) => leader.decrypt = <<>> /\ x = <<>> /\ ~Within({"PushIncoming"}, s)
        /\ Has("Finished", leader.decrypt) => x = <<>>
    BY DEF Running, OnTheWay
  <2>8. /\ socket.bad = 0 => ~Has("Bad", socket.in) /\ ~Has("Bad", Incoming(todo)') /\ ~Has("Bad", leader.decrypt)
        /\ ~Has("none", leader.encrypt) /\ ~Has("none", y)
    BY <2>4 DEF Running, OnTheWay
  <2> QED BY <1>6, <2>1, <2>2, <2>3, <2>5, <2>6, <2>7, <2>8 DEF OnTheWay
<1>9. Flow'
  <2>1. ~First({"Refused"})
    BY <1>2
  <2>2. InFlow'
    BY <1>1, <1>4, <2>1 DEF Running, Flow, InFlow
  <2>3. WriteFlow'
    BY <1>1, <1>4 DEF Running, Flow, WriteFlow
  <2>4. ReadFlow' /\ OutFlow'
    BY <1>1 DEF Running, Flow, ReadFlow, OutFlow
  <2> QED BY <1>1, <2>2, <2>3, <2>4 DEF Running, Flow
<1> QED BY <1>3, <1>5, <1>7, <1>8, <1>9

\* The queue of decrypted records has none for the client: the loop goes on.
LEMMA NoIncomingKeeps ==
  ASSUME TypeOK, Running, NEW m \in Calling, Asked(m), m.op = "NextIncoming", NEW x \in Seq(Record),
         leader' = [leader EXCEPT !.decrypted = x],
         \A typ : typ # "none" => (Has(typ, x) => Has(typ, leader.decrypted)), ~Has("Finished", x),
         leader.decrypted = <<>> => x = <<>>, DataOf(x) = DataOf(leader.decrypted),
         pc' = "calls", todo' = Tail(todo), after' = after, UNCHANGED <<loop, client, failure, result>>
  PROVE  TypeOK' /\ Running'
<1>2. PICK t \in Seq(Calling) : t = Tail(todo)
  BY RestTyped
<1>0. /\ pc' = "calls" /\ todo' = t /\ after' = after
      /\ UNCHANGED <<loop, client, failure, result, conn, socket, control, verifier>>
  BY <1>2 DEF Asked
<1>3. leader' = [state |-> leader.state, fields |-> leader.fields, is_decrypting |-> leader.is_decrypting,
                 ready |-> leader.ready, started |-> leader.started, encrypt |-> leader.encrypt,
                 encrypted |-> leader.encrypted, decrypt |-> leader.decrypt, decrypted |-> x,
                 sent |-> leader.sent, recv |-> leader.recv]
  BY LeaderFields
<1>4. leader'.state = leader.state /\ leader'.started = leader.started /\ leader'.encrypt = leader.encrypt
      /\ leader'.encrypted = leader.encrypted /\ leader'.decrypt = leader.decrypt
      /\ leader'.decrypted = x /\ leader'.sent = leader.sent /\ leader'.recv = leader.recv
  BY <1>3
<1>5. /\ Ordered(t) /\ (t = <<>> => m.op \in LastMsgs) /\ (t # <<>> => Head(t).op \in Behind(m.op))
      /\ \A ops : Within(ops, todo) <=> m.op \in ops \/ Within(ops, t)
      /\ \A ops : First(ops) <=> m.op \in ops
      /\ DataOf(Incoming(t)) = DataOf(Incoming(todo)) /\ ~Has("Finished", Incoming(todo))
      /\ \A typ : typ # "none" => (Has(typ, Incoming(t)) <=> Has(typ, Incoming(todo)))
      /\ DataOf(Outgoing(t)) = DataOf(Outgoing(todo))
      /\ \A typ : typ # "none" => (Has(typ, Outgoing(t)) <=> Has(typ, Outgoing(todo)))
  BY <1>2, NextCall
<1>6. t # <<>> /\ Head(t).op = "NextOutgoing" /\ \A ops : First(ops)' <=> "NextOutgoing" \in ops
  <2>1. t # <<>> /\ Head(t).op = "NextOutgoing"
    BY <1>5, Follows DEF LastMsgs
  <2> QED BY <1>0, <2>1 DEF First
<1>7. /\ leader.encrypt = <<>> /\ ~Has("Finished", leader.decrypt)
  BY <1>5 DEF Running, RecordSteps
<1>8. ~InFlight' /\ ~InFlight
  BY <1>5, <1>6 DEF InFlight, FlightMsgs
<1>9. TypeOK'
  <2>1. leader' \in Leaders
    BY <1>3, LeaderFields DEF Leaders
  <2>2. mailbox' \in Seq(Calling)
    BY MailTyped
  <2>3. client' \in Clients
    BY <1>0, ClientTyped
  <2> QED BY <1>0, <2>1, <2>2, <2>3, Typed
<1>10. /\ Ordered(todo)' /\ OnTheWay' /\ Flow' /\ (FinishedGone => FinishedGone')
       /\ NoData(Outgoing(todo))' <=> NoData(Outgoing(todo))
  <2>1. m.op \in {"NextIncoming", "NextOutgoing"}
    OBVIOUS
  <2>2. client'.plaintext = client.plaintext /\ client'.tls = client.tls
    BY <1>0
  <2>3. todo' = t /\ Ordered(t)
    BY <1>0, <1>5
  <2>4. Within({"PushIncoming"}, t) => Within({"PushIncoming"}, todo)
    BY <1>5
  <2>5. leader.encrypted \in Seq(Record)
    BY LeaderFields
  <2>6. client'.plaintext \o DataOf(x) = client.plaintext \o DataOf(leader.decrypted)
    BY <2>2
  <2>7. DataOf(client'.tls) \o DataOf(leader.encrypted) = DataOf(client.tls) \o DataOf(leader.encrypted)
    BY <2>2
  <2> QED BY <1>4, <1>5, <2>1, <2>3, <2>4, <2>5, <2>6, <2>7, Moved
<1>11. FlightSteps'
  <2>1. /\ after = "started" => leader.state = "Handshake" /\ ~loop.server_closed /\ Only(StartMsgs, t)
        /\ after # "started" => ~Within({"GetClientRandom", "GetNotify"}, t)
    <3>1. todo \in Seq(Calling) /\ todo # <<>>
      BY DEF TypeOK, Asked
    <3>2. after = "started" => Only(StartMsgs, todo) /\ leader.state = "Handshake" /\ ~loop.server_closed
      BY DEF Running, FlightSteps
    <3>3. after = "started" => Only(StartMsgs, t)
      BY <1>2, <3>1, <3>2, OnlyTail
    <3> QED BY <1>5, <3>2, <3>3 DEF Running, FlightSteps
  <2>2. /\ leader'.state = leader.state /\ todo' = t /\ after' = after /\ loop' = loop
    BY <1>0, <1>4
  <2>3. \A ops : "NextOutgoing" \notin ops => ~First(ops)'
    BY <1>6
  <2> QED BY <1>8, <2>1, <2>2, <2>3 DEF FlightSteps
<1>12. RecordSteps'
  <2>1. ~Within({"Flush"}, t)
    BY <1>5, <1>6, OutgoingLast
  <2>2. /\ Within({"ServerClosed"}, t) => loop.server_closed /\ after = "packets" /\ leader.state # "Closed"
        /\ Within({"PushIncoming"}, t) => ~loop.server_closed /\ after = "packets" /\ leader.state # "Handshake"
        /\ loop.server_closed => leader.state = "Closed" \/ Within({"ServerClosed"}, t)
    BY <1>5 DEF Running, RecordSteps
  <2>3. todo' = t /\ after' = after /\ loop' = loop
    BY <1>0
  <2> QED BY <1>4, <1>6, <1>7, <2>1, <2>2, <2>3 DEF RecordSteps
<1>13. ByState'
  BY <1>0, <1>4, <1>8 DEF Running, ByState
<1>14. Flags'
  BY <1>0, <1>4, <1>10 DEF Running, Flags, Clean
<1>15. Control' /\ Mail'
  BY <1>0, <1>6, Turned
<1> QED BY <1>0, <1>9, <1>10, <1>11, <1>12, <1>13, <1>14, <1>15 DEF Running

\* The first record of a queue, and the rest.
LEMMA Popped ==
  ASSUME NEW q \in Seq(Record), q # <<>>
  PROVE  /\ Tail(q) \in Seq(Record) /\ Head(q) \in Record
         /\ \A typ : Has(typ, q) <=> Head(q).typ = typ \/ Has(typ, Tail(q))
         /\ \A p \in Seq(Record) :
              p \o DataOf(q) = (IF IsData(Head(q)) THEN Append(p, Head(q)) ELSE p) \o DataOf(Tail(q))
         /\ \A p \in Seq(Record) :
              DataOf(p) \o DataOf(q) = DataOf(Append(p, Head(q))) \o DataOf(Tail(q))
<1>1. Tail(q) \in Seq(Record) /\ Head(q) \in Record
  OBVIOUS
<1>2. \A typ : Has(typ, q) <=> Head(q).typ = typ \/ Has(typ, Tail(q))
  BY HasTail
<1>3. PICK h, t, b, d : h = Head(q) /\ t = Tail(q) /\ b = DataOf(t) /\ d = (IF IsData(h) THEN <<h>> ELSE <<>>)
  OBVIOUS
<1>4. b \in Seq(Record) /\ d \in Seq(Record) /\ h \in Record
  <2>1. h \in Record /\ t \in Seq(Record)
    BY <1>1, <1>3
  <2>2. <<h>> \in Seq(Record) /\ <<>> \in Seq(Record)
    BY <2>1
  <2>3. b \in Seq(Record)
    BY <1>3, <2>1, DataSeq
  <2> QED BY <1>3, <2>1, <2>2, <2>3
<1>5. DataOf(q) = d \o b
  BY <1>3, DataHead
<1>6. ASSUME NEW p \in Seq(Record) PROVE p \o DataOf(q) = (IF IsData(h) THEN Append(p, h) ELSE p) \o b
  <2>0. d \in Seq(Record) /\ b \in Seq(Record)
    BY <1>4
  <2>1. (p \o d) \o b = p \o (d \o b)
    BY <2>0, Associative, Zenon
  <2>2. p \o d = IF IsData(h) THEN Append(p, h) ELSE p
    <3>1. CASE IsData(h)
      <4>1. d = <<h>>
        BY <1>3, <3>1
      <4> QED BY <1>4, <3>1, <4>1, AppendIsConcat
    <3>2. CASE ~IsData(h)
      <4>1. d = <<>>
        BY <1>3, <3>2
      <4> QED BY <3>2, <4>1, ConcatEmptySeq
    <3> QED BY <3>1, <3>2
  <2> QED BY <1>5, <2>1, <2>2
<1>7. ASSUME NEW p \in Seq(Record) PROVE DataOf(p) \o DataOf(q) = DataOf(Append(p, h)) \o b
  <2>1. DataOf(p) \in Seq(Record)
    BY DataSeq
  <2>2. DataOf(p) \o DataOf(q) = (IF IsData(h) THEN Append(DataOf(p), h) ELSE DataOf(p)) \o b
    BY <1>6, <2>1
  <2>3. h \in Record
    BY <1>4
  <2>4. DataOf(Append(p, h)) = IF IsData(h) THEN Append(DataOf(p), h) ELSE DataOf(p)
    BY <2>3, DataAppend
  <2> QED BY <2>2, <2>4
<1> QED BY <1>1, <1>2, <1>3, <1>6, <1>7

\* A record that is not the Finished is handed to the client, and the loop asks again.
LEMMA IncomingKeeps ==
  ASSUME TypeOK, Running, NEW m \in Calling, Asked(m), m.op = "NextIncoming", leader.decrypted # <<>>,
         Head(leader.decrypted).typ # "Finished", leader' = [leader EXCEPT !.decrypted = Tail(@)],
         pc' = "calls", todo' = todo, after' = after,
         client' = (IF IsData(Head(leader.decrypted))
                    THEN [client EXCEPT !.plaintext = Append(@, Head(leader.decrypted))] ELSE client),
         UNCHANGED <<loop, failure, result>>
  PROVE  TypeOK' /\ Running'
<1>0. /\ pc' = "calls" /\ todo' = todo /\ after' = after
      /\ UNCHANGED <<loop, failure, result, conn, socket, control, verifier>>
  BY DEF Asked
<1>1. PICK q, h, x : q = leader.decrypted /\ h = Head(q) /\ x = Tail(q)
  OBVIOUS
<1>2. /\ x \in Seq(Record) /\ h \in Record /\ q \in Seq(Record)
      /\ \A typ : Has(typ, q) <=> h.typ = typ \/ Has(typ, x)
      /\ \A p \in Seq(Record) : p \o DataOf(q) = (IF IsData(h) THEN Append(p, h) ELSE p) \o DataOf(x)
  <2>1. q \in Seq(Record) /\ q # <<>>
    BY <1>1, LeaderFields
  <2> QED BY <1>1, <2>1, Popped
<1>3. leader' = [state |-> leader.state, fields |-> leader.fields, is_decrypting |-> leader.is_decrypting,
                 ready |-> leader.ready, started |-> leader.started, encrypt |-> leader.encrypt,
                 encrypted |-> leader.encrypted, decrypt |-> leader.decrypt, decrypted |-> x,
                 sent |-> leader.sent, recv |-> leader.recv]
  <2>1. leader' = [leader EXCEPT !.decrypted = x]
    BY <1>1
  <2> QED BY <2>1, LeaderFields
<1>4. leader'.state = leader.state /\ leader'.started = leader.started /\ leader'.encrypt = leader.encrypt
      /\ leader'.encrypted = leader.encrypted /\ leader'.decrypt = leader.decrypt
      /\ leader'.decrypted = x /\ leader'.sent = leader.sent /\ leader'.recv = leader.recv
  BY <1>3
<1>5. PICK p : p = (IF IsData(h) THEN Append(client.plaintext, h) ELSE client.plaintext)
  OBVIOUS
<1>6. client' = [phase |-> client.phase, plaintext |-> p, tls |-> client.tls] /\ p \in Seq(Record)
  <2>1. CASE IsData(h)
    <3>1. client' = [client EXCEPT !.plaintext = Append(client.plaintext, h)]
      BY <1>1, <2>1
    <3>2. p = Append(client.plaintext, h)
      BY <1>5, <2>1
    <3>3. client' = [client EXCEPT !.plaintext = p]
      BY <3>1, <3>2
    <3>4. p \in Seq(Record)
      <4>1. h \in Record
        BY <1>2
      <4> QED BY <3>2, <4>1, ClientFields
    <3> QED BY <3>3, <3>4, ClientFields
  <2>2. CASE ~IsData(h)
    BY <1>1, <1>5, <2>2, ClientFields
  <2> QED BY <2>1, <2>2
<1>7. /\ \A ops : First(ops) <=> m.op \in ops
      /\ \A ops : First(ops)' <=> First(ops)
      /\ ~Has("Finished", x)
  <2>1. PICK t \in Seq(Calling) : t = Tail(todo)
    BY RestTyped
  <2>2. \A ops : First(ops) <=> m.op \in ops
    BY <2>1, NextCall
  <2>3. \A ops : First(ops)' <=> First(ops)
    BY <1>0 DEF First
  <2>4. ~Has("Finished", x)
    BY <1>1, <1>2 DEF Running, OnTheWay, Lone
  <2> QED BY <2>2, <2>3, <2>4
<1>8. (InFlight' <=> InFlight) /\ ~InFlight
  BY <1>0, <1>7 DEF InFlight, FlightMsgs
<1>9. leader.state # "Handshake"
  BY DEF Running, ByState
<1>10. TypeOK'
  <2>1. leader' \in Leaders
    <3>1. x \in Seq(Record)
      BY <1>2
    <3> QED BY <1>3, <3>1, DecryptedTyped
  <2>2. mailbox' \in Seq(Calling)
    BY MailTyped
  <2>3. client' \in Clients
    <3>1. p \in Seq(Record) /\ client' = [phase |-> client.phase, plaintext |-> p, tls |-> client.tls]
      BY <1>6
    <3>2. client.tls \in Seq(Record)
      BY ClientFields
    <3> QED BY <3>1, <3>2, ReplyTyped
  <2>4. todo \in Seq(Calling)
    BY DEF TypeOK
  <2> QED BY <1>0, <2>1, <2>2, <2>3, <2>4, Typed
<1>11. /\ Ordered(todo)' /\ OnTheWay' /\ Flow' /\ (FinishedGone => FinishedGone')
       /\ NoData(Outgoing(todo))' <=> NoData(Outgoing(todo))
  <2>1. m.op \in {"NextIncoming", "NextOutgoing"}
    OBVIOUS
  <2>2. client'.plaintext \o DataOf(x) = client.plaintext \o DataOf(leader.decrypted)
    <3>1. client.plaintext \in Seq(Record) /\ client'.plaintext = p
      BY <1>6, ClientFields
    <3>2. client.plaintext \o DataOf(q) = p \o DataOf(x)
      BY <1>2, <1>5, <3>1
    <3> QED BY <1>1, <3>1, <3>2
  <2>3. todo' = todo /\ Ordered(todo) /\ todo \in Seq(Calling)
    BY <1>0 DEF Running, TypeOK
  <2>4. leader.encrypted \in Seq(Record)
    BY LeaderFields
  <2>5. DataOf(client'.tls) \o DataOf(leader.encrypted) = DataOf(client.tls) \o DataOf(leader.encrypted)
    BY <1>6
  <2> QED BY <1>2, <1>4, <1>7, <2>1, <2>2, <2>3, <2>4, <2>5, Moved
<1>12. FlightSteps'
  <2>1. /\ leader'.state = leader.state /\ leader'.fields = leader.fields /\ todo' = todo /\ after' = after /\ loop' = loop
    BY <1>0, <1>3
  <2> QED BY <1>7, <1>8, <2>1 DEF Running, FlightSteps
<1>13. RecordSteps'
  <2>1. todo' = todo /\ after' = after /\ loop' = loop /\ todo # <<>>
    BY <1>0 DEF Asked
  <2>2. leader.encrypt = <<>> /\ ~Has("Finished", leader.decrypt)
    BY <1>7 DEF Running, RecordSteps
  <2> QED BY <1>4, <1>7, <2>1, <2>2 DEF Running, RecordSteps
<1>14. ByState'
  BY <1>0, <1>4, <1>7, <1>8, <1>9 DEF Running, ByState
<1>15. Flags'
  <2>1. client'.phase = client.phase /\ client'.tls = client.tls
    BY <1>6
  <2> QED BY <1>0, <1>4, <1>11, <2>1 DEF Running, Flags, Clean
<1>16. Control' /\ Mail'
  <2>1. todo \in Seq(Calling) /\ Head(todo).op # "IsEmpty"
    BY DEF TypeOK, Asked
  <2> QED BY <1>0, <2>1, Turned
<1> QED BY <1>0, <1>10, <1>11, <1>12, <1>13, <1>14, <1>15, <1>16 DEF Running

\* The server's Finished: its hash is asked for, and application data started.
LEMMA FinishedKeeps ==
  ASSUME TypeOK, Running, NEW m \in Calling, Asked(m), m.op = "NextIncoming", leader.decrypted # <<>>,
         Head(leader.decrypted).typ = "Finished", leader' = [leader EXCEPT !.decrypted = Tail(@)],
         pc' = "calls", todo' = FinishedCalls \o todo, after' = after, UNCHANGED <<loop, client, failure, result>>
  PROVE  TypeOK' /\ Running'
<1>1. PICK q, h, x, s : q = leader.decrypted /\ h = Head(q) /\ x = Tail(q) /\ s = FinishedCalls \o todo
  OBVIOUS
<1>0. /\ pc' = "calls" /\ todo' = s /\ after' = after
      /\ UNCHANGED <<loop, client, failure, result, conn, socket, control, verifier>>
  BY <1>1 DEF Asked
<1>2. /\ x \in Seq(Record) /\ h \in Record /\ h.typ = "Finished"
      /\ \A typ : Has(typ, q) <=> h.typ = typ \/ Has(typ, x)
      /\ \A p \in Seq(Record) : p \o DataOf(q) = (IF IsData(h) THEN Append(p, h) ELSE p) \o DataOf(x)
  <2>1. q \in Seq(Record) /\ q # <<>>
    BY <1>1, LeaderFields
  <2> QED BY <1>1, <2>1, Popped
<1>3. leader' = [state |-> leader.state, fields |-> leader.fields, is_decrypting |-> leader.is_decrypting,
                 ready |-> leader.ready, started |-> leader.started, encrypt |-> leader.encrypt,
                 encrypted |-> leader.encrypted, decrypt |-> leader.decrypt, decrypted |-> x,
                 sent |-> leader.sent, recv |-> leader.recv]
  <2>1. leader' = [leader EXCEPT !.decrypted = x]
    BY <1>1
  <2> QED BY <2>1, LeaderFields
<1>4. leader'.state = leader.state /\ leader'.started = leader.started /\ leader'.encrypt = leader.encrypt
      /\ leader'.encrypted = leader.encrypted /\ leader'.decrypt = leader.decrypt
      /\ leader'.decrypted = x /\ leader'.sent = leader.sent /\ leader'.recv = leader.recv
  BY <1>3
<1>5. /\ \A ops : First(ops) <=> m.op \in ops
      /\ ~Has("Finished", Incoming(todo))
  <2>1. PICK t \in Seq(Calling) : t = Tail(todo)
    BY RestTyped
  <2> QED BY <2>1, NextCall
<1>6. /\ s \in Seq(Calling) /\ Ordered(s) /\ s # <<>> /\ Head(s) = Call("GetServerFinishedVd")
      /\ \A ops : ops \intersect {"GetServerFinishedVd", "StartTraffic"} = {} => (Within(ops, s) <=> Within(ops, todo))
      /\ \A op \in {"PushIncoming", "PushOutgoing"} :
           /\ DataOf(Pushed(op, s)) = DataOf(Pushed(op, todo))
           /\ \A typ : typ # "none" => (Has(typ, Pushed(op, s)) <=> Has(typ, Pushed(op, todo)))
  <2>1. todo \in Seq(Calling) /\ Ordered(todo) /\ todo # <<>> /\ Head(todo).op = "NextIncoming"
    BY DEF TypeOK, Running, Asked
  <2> QED BY <1>1, <2>1, FinishedPlan
<1>7. /\ DataOf(Incoming(s)) = DataOf(Incoming(todo)) /\ DataOf(Outgoing(s)) = DataOf(Outgoing(todo))
      /\ \A typ : typ # "none" => /\ Has(typ, Incoming(s)) <=> Has(typ, Incoming(todo))
                                  /\ Has(typ, Outgoing(s)) <=> Has(typ, Outgoing(todo))
  BY <1>6 DEF Incoming, Outgoing
<1>8. Head(s).op = "GetServerFinishedVd" /\ \A ops : First(ops)' <=> "GetServerFinishedVd" \in ops
  <2>1. Head(s).op = "GetServerFinishedVd"
    BY <1>6, CallType
  <2> QED BY <1>0, <1>6, <2>1 DEF First
<1>9. ~InFlight' /\ ~InFlight
  <2>1. ~InFlight
    BY <1>5 DEF InFlight, FlightMsgs
  <2>2. ~InFlight'
    BY <1>8 DEF InFlight, FlightMsgs
  <2> QED BY <2>1, <2>2
<1>10. Has("Finished", leader.decrypted) /\ ~Has("Finished", x) /\ Len(socket.sent) >= 2
  <2>1. Has("Finished", leader.decrypted)
    BY <1>1, <1>2
  <2> QED BY <1>1, <2>1 DEF Running, OnTheWay, Lone
<1>11. leader.state = "Active" /\ ~leader.started
  <2>1. leader.state = "Active"
    BY <1>10 DEF Running, ByState
  <2> QED BY <1>10, <2>1 DEF Running, Flags, FinishedGone
<1>12. leader.encrypt = <<>> /\ ~Has("Finished", leader.decrypt)
  BY <1>5 DEF Running, RecordSteps
<1>13. FinishedGone'
  <2>1. ~Has("Finished", socket.in)
    BY DEF Running, OnTheWay
  <2>2. Incoming(todo)' = Incoming(s)
    BY <1>0 DEF Incoming, Pushed
  <2>3. ~Has("Finished", Incoming(todo)')
    BY <1>5, <1>7, <2>2
  <2> QED BY <1>0, <1>4, <1>10, <1>12, <2>1, <2>3 DEF FinishedGone
<1>14. TypeOK'
  <2>1. leader' \in Leaders
    <3>1. x \in Seq(Record)
      BY <1>2
    <3> QED BY <1>3, <3>1, DecryptedTyped
  <2>2. mailbox' \in Seq(Calling)
    BY MailTyped
  <2>3. client' \in Clients
    BY <1>0, ClientTyped
  <2> QED BY <1>0, <1>6, <2>1, <2>2, <2>3, Typed
<1>15. /\ Ordered(todo)' /\ OnTheWay' /\ Flow'
       /\ NoData(Outgoing(todo))' <=> NoData(Outgoing(todo))
  <2>1. m.op \in {"NextIncoming", "NextOutgoing"}
    OBVIOUS
  <2>2. client'.plaintext \o DataOf(x) = client.plaintext \o DataOf(leader.decrypted)
    <3>1. client.plaintext \in Seq(Record) /\ client'.plaintext = client.plaintext
      BY <1>0, ClientFields
    <3>2. ~IsData(h)
      BY <1>2 DEF IsData
    <3>3. client.plaintext \o DataOf(q) = client.plaintext \o DataOf(x)
      BY <1>2, <3>1, <3>2
    <3> QED BY <1>1, <3>1, <3>3
  <2>3. Within({"PushIncoming"}, s) => Within({"PushIncoming"}, todo)
    BY <1>6
  <2>4. leader.encrypted \in Seq(Record)
    BY LeaderFields
  <2>5. DataOf(client'.tls) \o DataOf(leader.encrypted) = DataOf(client.tls) \o DataOf(leader.encrypted)
    BY <1>0
  <2>6. todo' = s
    BY <1>0
  <2> QED BY <1>2, <1>4, <1>6, <1>7, <1>10, <2>1, <2>2, <2>3, <2>4, <2>5, <2>6, Moved
<1>16. FlightSteps'
  <2>1. after # "started" /\ ~Within({"GetClientRandom", "GetNotify"}, s)
    BY <1>6, <1>11 DEF Running, FlightSteps
  <2>2. \A ops : "GetServerFinishedVd" \notin ops => ~First(ops)'
    BY <1>8
  <2>3. todo' = s /\ after' = after
    BY <1>0
  <2> QED BY <1>9, <2>1, <2>2, <2>3 DEF FlightSteps
<1>17. RecordSteps'
  <2>1. /\ Within({"NextIncoming"}, s)
        /\ Within({"ServerClosed"}, s) => loop.server_closed /\ after = "packets" /\ leader.state # "Closed"
        /\ Within({"PushIncoming"}, s) => ~loop.server_closed /\ after = "packets" /\ leader.state # "Handshake"
        /\ loop.server_closed => leader.state = "Closed" \/ Within({"ServerClosed"}, s)
    <3>1. Within({"NextIncoming"}, todo)
      <4>1. todo \in Seq(Calling) /\ todo # <<>> /\ Head(todo).op \in {"NextIncoming"}
        BY DEF TypeOK, Asked
      <4> QED BY <4>1, WithinTail
    <3> QED BY <1>6, <3>1 DEF Running, RecordSteps
  <2>2. todo' = s /\ after' = after /\ loop' = loop /\ socket' = socket
    BY <1>0
  <2> QED BY <1>4, <1>6, <1>8, <1>10, <1>11, <1>12, <1>13, <2>1, <2>2 DEF RecordSteps
<1>18. ByState'
  BY <1>0, <1>4, <1>9, <1>11 DEF Running, ByState
<1>19. Flags'
  BY <1>0, <1>4, <1>13, <1>15 DEF Running, Flags, Clean
<1>20. Control' /\ Mail'
  <2>1. Head(s).op # "IsEmpty" /\ m.op # "IsEmpty"
    BY <1>8
  <2> QED BY <1>0, <1>6, <2>1, Turned
<1> QED BY <1>0, <1>14, <1>15, <1>16, <1>17, <1>18, <1>19, <1>20 DEF Running

LEMMA NextIncomingKeeps ==
  ASSUME TypeOK, Running, NEW m \in Calling, Asked(m), m.op = "NextIncoming", leader' = dispatch(m).leader,
         Replied(m, dispatch(m).value)
  PROVE  TypeOK' /\ Running'
<1>1. dispatch(m) = next_incoming
  <2>1. dispatch(m) = HandleRecord(m.op, m.msg)
    BY DispatchTo DEF RecordMsgs
  <2> QED BY <2>1 DEF HandleRecord
<1>2. Open
  BY DEF Running, ByState, Open
<1>3. PICK q : q = leader.decrypted
  OBVIOUS
<1>4. q \in Seq(Record) /\ ~IsData(NoRec) /\ NoRec.typ = "none"
  BY <1>3, LeaderFields DEF IsData, NoRec, Rec
<1>5. CASE Blocked(leader.decrypted)
  <2>1. leader' = leader /\ dispatch(m).value = NoRec
    <3>1. next_incoming = Ok(leader)
      BY <1>2, <1>5 DEF next_incoming
    <3> QED BY <1>1, <3>1 DEF Ok, Answer
  <2>2. pc' = "calls" /\ todo' = Tail(todo) /\ after' = after /\ UNCHANGED <<loop, client, failure, result>>
    <3>1. Replied(m, NoRec)
      BY <2>1
    <3> QED BY <1>4, <3>1 DEF Replied
  <2>3. leader' = [leader EXCEPT !.decrypted = q]
    BY <1>3, <2>1, LeaderFields
  <2>4. ~Has("Finished", q)
    <3>1. q = <<>> => ~Has("Finished", q)
      BY HasEmpty
    <3>2. q # <<>> => Head(q).typ # "Finished"
      BY <1>3, <1>5 DEF Blocked, IsData
    <3> QED BY <1>3, <3>1, <3>2 DEF Running, OnTheWay, Lone
  <2> QED BY <1>3, <1>4, <2>2, <2>3, <2>4, NoIncomingKeeps
<1>6. CASE ~Blocked(leader.decrypted)
  <2>1. PICK h, x : h = Head(q) /\ x = Tail(q)
    OBVIOUS
  <2>2. q # <<>>
    BY <1>3, <1>6 DEF Blocked
  <2>3. leader' = [leader EXCEPT !.decrypted = x] /\ dispatch(m).value = h
    <3>1. next_incoming = Answer([leader EXCEPT !.decrypted = Tail(leader.decrypted)], TRUE, Head(leader.decrypted))
      BY <1>2, <1>6 DEF next_incoming
    <3> QED BY <1>1, <1>3, <2>1, <3>1 DEF Answer
  <2>4. Replied(m, h)
    BY <2>3
  <2>5. CASE h = NoRec
    <3>1. pc' = "calls" /\ todo' = Tail(todo) /\ after' = after /\ UNCHANGED <<loop, client, failure, result>>
      BY <1>4, <2>4, <2>5 DEF Replied
    <3>2. /\ x \in Seq(Record) /\ \A typ : Has(typ, q) <=> h.typ = typ \/ Has(typ, x)
          /\ \A p \in Seq(Record) : p \o DataOf(q) = (IF IsData(h) THEN Append(p, h) ELSE p) \o DataOf(x)
      BY <1>4, <2>1, <2>2, Popped
    <3>3. DataOf(x) = DataOf(leader.decrypted)
      <4>1. <<>> \o DataOf(q) = <<>> \o DataOf(x)
        <5>1. ~IsData(h) /\ <<>> \in Seq(Record)
          BY <1>4, <2>5
        <5> QED BY <3>2, <5>1
      <4>2. DataOf(q) \in Seq(Record) /\ DataOf(x) \in Seq(Record)
        BY <1>4, <3>2, DataSeq
      <4> QED BY <1>3, <4>1, <4>2, ConcatEmptySeq
    <3>4. ~Has("Finished", x)
      <4>1. Head(q).typ # "Finished"
        BY <1>4, <2>1, <2>5
      <4> QED BY <1>3, <3>2, <4>1 DEF Running, OnTheWay, Lone
    <3>5. \A typ : typ # "none" => (Has(typ, x) => Has(typ, leader.decrypted))
      BY <1>3, <3>2
    <3>6. x \in Seq(Record) /\ (leader.decrypted = <<>> => x = <<>>)
      BY <1>3, <2>2, <3>2
    <3> QED BY <2>3, <3>1, <3>3, <3>4, <3>5, <3>6, NoIncomingKeeps
  <2>6. CASE h # NoRec /\ h.typ # "Finished"
    <3>1. /\ pc' = "calls" /\ todo' = <<>> \o todo /\ after' = after
          /\ client' = (IF IsData(h) THEN [client EXCEPT !.plaintext = Append(@, h)] ELSE client)
          /\ UNCHANGED <<loop, failure, result>>
      BY <2>4, <2>6 DEF Replied
    <3>2. todo' = todo
      BY <3>1, ConcatEmptySeq DEF TypeOK
    <3> QED BY <1>3, <2>1, <2>2, <2>3, <2>6, <3>1, <3>2, IncomingKeeps
  <2>7. CASE h.typ = "Finished"
    <3>1. h # NoRec /\ ~IsData(h)
      BY <1>4, <2>7 DEF IsData
    <3>2. /\ pc' = "calls" /\ todo' = FinishedCalls \o todo /\ after' = after
          /\ UNCHANGED <<loop, client, failure, result>>
      BY <2>4, <2>7, <3>1 DEF Replied
    <3> QED BY <1>3, <2>1, <2>2, <2>3, <2>7, <3>2, FinishedKeeps
  <2> QED BY <2>5, <2>6, <2>7
<1> QED BY <1>5, <1>6

\* The queue of encrypted records has none for the client: what was written has been sent.
LEMMA NoOutgoingKeeps ==
  ASSUME TypeOK, Running, NEW m \in Calling, Asked(m), m.op = "NextOutgoing", Blocked(leader.encrypted),
         leader' = leader, pc' = "calls", todo' = Tail(todo), after' = after,
         UNCHANGED <<loop, client, failure, result>>
  PROVE  TypeOK' /\ Running'
<1>2. PICK t \in Seq(Calling) : t = Tail(todo)
  BY RestTyped
<1>0. /\ pc' = "calls" /\ todo' = t /\ after' = after /\ leader' = leader
      /\ UNCHANGED <<loop, client, failure, result, conn, socket, control, verifier>>
  BY <1>2 DEF Asked
<1>3. /\ (t # <<>> => Head(t).op \in Behind(m.op))
      /\ \A ops : Within(ops, todo) <=> m.op \in ops \/ Within(ops, t)
      /\ \A ops : First(ops) <=> m.op \in ops
  BY <1>2, NextCall
<1>4. /\ t # <<>> => Head(t).op = "ServerClosed"
      /\ \A ops : "ServerClosed" \notin ops => ~First(ops)'
  <2>1. t # <<>> => Head(t).op = "ServerClosed"
    BY <1>3, Follows
  <2> QED BY <1>0, <2>1 DEF First
<1>5. ~InFlight' /\ ~InFlight
  <2>1. ~InFlight
    BY <1>3 DEF InFlight, FlightMsgs
  <2>2. ~InFlight'
    BY <1>4 DEF InFlight, FlightMsgs
  <2> QED BY <2>1, <2>2
<1>6. leader.encrypt = <<>> /\ ~Has("Finished", leader.decrypt) /\ ~Has("Finished", leader.decrypted)
  BY <1>3 DEF Running, RecordSteps
<1>7. leader.encrypted = <<>>
  <2>1. SUFFICES ASSUME leader.encrypted # <<>> PROVE FALSE
    OBVIOUS
  <2>2. IsData(Head(leader.encrypted)) /\ ~leader.started
    BY <2>1 DEF Blocked
  <2>3. NoData(leader.encrypted)
    BY <2>2 DEF Running, Flags
  <2>4. leader.encrypted \in Seq(Record)
    BY LeaderFields
  <2>5. Has("ApplicationData", leader.encrypted)
    BY <2>1, <2>2, <2>4, HasTail DEF IsData
  <2> QED BY <2>3, <2>5 DEF NoData
<1>8. TypeOK'
  <2>1. leader' \in Leaders
    BY <1>0, LeaderFields DEF Leaders
  <2>2. mailbox' \in Seq(Calling)
    BY MailTyped
  <2>3. client' \in Clients
    BY <1>0, ClientTyped
  <2> QED BY <1>0, <2>1, <2>2, <2>3, Typed
<1>9. /\ Ordered(todo)' /\ OnTheWay' /\ Flow' /\ (FinishedGone => FinishedGone')
      /\ NoData(Outgoing(todo))' <=> NoData(Outgoing(todo))
  <2>1. m.op \notin {"PushIncoming", "PushOutgoing", "Refused"}
    OBVIOUS
  <2>2. client'.plaintext = client.plaintext /\ client'.tls = client.tls
    BY <1>0
  <2>3. todo' = t
    BY <1>0
  <2> QED BY <1>0, <1>2, <2>1, <2>2, <2>3, RecordsKept
<1>10. FlightSteps'
  <2>1. /\ after = "started" => leader.state = "Handshake" /\ ~loop.server_closed /\ Only(StartMsgs, t)
        /\ after # "started" => ~Within({"GetClientRandom", "GetNotify"}, t)
    <3>1. todo \in Seq(Calling) /\ todo # <<>>
      BY DEF TypeOK, Asked
    <3>2. after = "started" => Only(StartMsgs, todo) /\ leader.state = "Handshake" /\ ~loop.server_closed
      BY DEF Running, FlightSteps
    <3>3. after = "started" => Only(StartMsgs, t)
      BY <1>2, <3>1, <3>2, OnlyTail
    <3> QED BY <1>3, <3>2, <3>3 DEF Running, FlightSteps
  <2>2. /\ leader' = leader /\ todo' = t /\ after' = after /\ loop' = loop
    BY <1>0
  <2> QED BY <1>4, <1>5, <2>1, <2>2 DEF FlightSteps
<1>11. RecordSteps'
  <2>1. ~Within({"Flush"}, t)
    <3>1. todo \in Seq(Calling) /\ todo # <<>> /\ Ordered(todo) /\ Head(todo).op = "NextOutgoing"
      BY DEF TypeOK, Running, Asked
    <3>2. ~Within({"Flush"}, todo)
      BY <3>1, OutgoingLast
    <3> QED BY <1>3, <3>2
  <2>2. /\ Within({"ServerClosed"}, t) => loop.server_closed /\ after = "packets" /\ leader.state # "Closed"
        /\ Within({"PushIncoming"}, t) => ~loop.server_closed /\ after = "packets" /\ leader.state # "Handshake"
        /\ loop.server_closed => leader.state = "Closed" \/ Within({"ServerClosed"}, t)
    BY <1>3 DEF Running, RecordSteps
  <2>3. leader' = leader /\ todo' = t /\ after' = after /\ loop' = loop
    BY <1>0
  <2> QED BY <1>4, <1>6, <1>7, <2>1, <2>2, <2>3 DEF RecordSteps
<1>12. ByState'
  BY <1>0, <1>5 DEF Running, ByState
<1>13. Flags'
  BY <1>0, <1>9 DEF Running, Flags, Clean
<1>14. Control' /\ Mail'
  <2>1. (t # <<>> => Head(t).op # "IsEmpty") /\ m.op # "IsEmpty"
    BY <1>4
  <2> QED BY <1>0, <2>1, Turned
<1> QED BY <1>0, <1>8, <1>9, <1>10, <1>11, <1>12, <1>13, <1>14 DEF Running

\* An encrypted record is handed to the client, and the loop asks again.
LEMMA OutgoingKeeps ==
  ASSUME TypeOK, Running, NEW m \in Calling, Asked(m), m.op = "NextOutgoing", leader.encrypted # <<>>,
         leader' = [leader EXCEPT !.encrypted = Tail(@)], pc' = "calls", todo' = todo, after' = after,
         client' = [client EXCEPT !.tls = Append(@, Head(leader.encrypted))],
         UNCHANGED <<loop, failure, result>>
  PROVE  TypeOK' /\ Running'
<1>0. /\ pc' = "calls" /\ todo' = todo /\ after' = after
      /\ UNCHANGED <<loop, failure, result, conn, socket, control, verifier>>
  BY DEF Asked
<1>1. PICK q, h, y, u : q = leader.encrypted /\ h = Head(q) /\ y = Tail(q) /\ u = Append(client.tls, h)
  OBVIOUS
<1>2. /\ y \in Seq(Record) /\ h \in Record
      /\ \A typ : Has(typ, q) <=> h.typ = typ \/ Has(typ, y)
      /\ \A p \in Seq(Record) : DataOf(p) \o DataOf(q) = DataOf(Append(p, h)) \o DataOf(y)
  <2>1. q \in Seq(Record) /\ q # <<>>
    BY <1>1, LeaderFields
  <2> QED BY <1>1, <2>1, Popped
<1>3. leader' = [state |-> leader.state, fields |-> leader.fields, is_decrypting |-> leader.is_decrypting,
                 ready |-> leader.ready, started |-> leader.started, encrypt |-> leader.encrypt,
                 encrypted |-> y, decrypt |-> leader.decrypt, decrypted |-> leader.decrypted,
                 sent |-> leader.sent, recv |-> leader.recv]
  <2>1. leader' = [leader EXCEPT !.encrypted = y]
    BY <1>1
  <2> QED BY <2>1, LeaderFields
<1>4. leader'.state = leader.state /\ leader'.started = leader.started /\ leader'.encrypt = leader.encrypt
      /\ leader'.encrypted = y /\ leader'.decrypt = leader.decrypt
      /\ leader'.decrypted = leader.decrypted /\ leader'.sent = leader.sent /\ leader'.recv = leader.recv
  BY <1>3
<1>5. client' = [phase |-> client.phase, plaintext |-> client.plaintext, tls |-> u]
  <2>1. client' = [client EXCEPT !.tls = u]
    BY <1>1
  <2> QED BY <2>1, ClientFields
<1>6. u \in Seq(Record) /\ \A typ : Has(typ, u) <=> Has(typ, client.tls) \/ h.typ = typ
  <2>1. h \in Record /\ client.tls \in Seq(Record)
    BY <1>2, ClientFields
  <2>2. u \in Seq(Record)
    BY <1>1, <2>1
  <2>3. \A typ : Has(typ, Append(client.tls, h)) <=> Has(typ, client.tls) \/ h.typ = typ
    BY <2>1, HasAppend
  <2> QED BY <1>1, <2>2, <2>3
<1>7. /\ \A ops : First(ops) <=> m.op \in ops
      /\ \A ops : First(ops)' <=> First(ops)
  <2>1. PICK t \in Seq(Calling) : t = Tail(todo)
    BY RestTyped
  <2>2. \A ops : First(ops) <=> m.op \in ops
    BY <2>1, NextCall
  <2>3. \A ops : First(ops)' <=> First(ops)
    BY <1>0 DEF First
  <2> QED BY <2>2, <2>3
<1>8. (InFlight' <=> InFlight) /\ ~InFlight
  BY <1>0, <1>7 DEF InFlight, FlightMsgs
<1>9. leader.state # "Handshake"
  BY DEF Running, ByState
<1>10. TypeOK'
  <2>1. leader' \in Leaders
    <3>1. y \in Seq(Record)
      BY <1>2
    <3> QED BY <1>3, <3>1, EncryptedTyped
  <2>2. mailbox' \in Seq(Calling)
    BY MailTyped
  <2>3. client' \in Clients
    <3>1. u \in Seq(Record) /\ client.plaintext \in Seq(Record)
      BY <1>6, ClientFields
    <3> QED BY <1>5, <3>1, ReplyTyped
  <2>4. todo \in Seq(Calling)
    BY DEF TypeOK
  <2> QED BY <1>0, <2>1, <2>2, <2>3, <2>4, Typed
<1>11. /\ Ordered(todo)' /\ OnTheWay' /\ Flow' /\ (FinishedGone => FinishedGone')
       /\ NoData(Outgoing(todo))' <=> NoData(Outgoing(todo))
  <2>1. m.op \in {"NextIncoming", "NextOutgoing"}
    OBVIOUS
  <2>2. DataOf(client'.tls) \o DataOf(y) = DataOf(client.tls) \o DataOf(leader.encrypted)
    <3>1. client.tls \in Seq(Record) /\ client'.tls = u
      BY <1>5, ClientFields
    <3>2. DataOf(client.tls) \o DataOf(q) = DataOf(u) \o DataOf(y)
      BY <1>1, <1>2, <3>1
    <3> QED BY <1>1, <3>1, <3>2
  <2>3. todo' = todo /\ Ordered(todo) /\ todo \in Seq(Calling)
    BY <1>0 DEF Running, TypeOK
  <2>4. leader.decrypted \in Seq(Record) /\ y \in Seq(Record) /\ (Has("none", y) => Has("none", leader.encrypted))
    BY <1>1, <1>2, LeaderFields
  <2>5. client'.plaintext \o DataOf(leader.decrypted) = client.plaintext \o DataOf(leader.decrypted)
    BY <1>5
  <2> QED BY <1>4, <2>1, <2>2, <2>3, <2>4, <2>5, Moved
<1>12. FlightSteps'
  <2>1. /\ leader'.state = leader.state /\ leader'.fields = leader.fields /\ todo' = todo /\ after' = after /\ loop' = loop
    BY <1>0, <1>3
  <2> QED BY <1>7, <1>8, <2>1 DEF Running, FlightSteps
<1>13. RecordSteps'
  <2>1. todo' = todo /\ after' = after /\ loop' = loop /\ todo # <<>>
    BY <1>0 DEF Asked
  <2>2. leader.encrypt = <<>> /\ ~Has("Finished", leader.decrypt) /\ ~Has("Finished", leader.decrypted)
    BY <1>7 DEF Running, RecordSteps
  <2> QED BY <1>4, <1>7, <2>1, <2>2 DEF Running, RecordSteps
<1>14. ByState'
  BY <1>0, <1>4, <1>8, <1>9 DEF Running, ByState
<1>15. Flags'
  <2>1. client'.phase = client.phase /\ client'.tls = u
    BY <1>5
  <2>2. NoData(leader.encrypted) => NoData(y) /\ (NoData(client.tls) => NoData(u))
    BY <1>1, <1>2, <1>6 DEF NoData
  <2> QED BY <1>0, <1>4, <1>11, <2>1, <2>2 DEF Running, Flags, Clean
<1>16. Control' /\ Mail'
  <2>1. todo \in Seq(Calling) /\ Head(todo).op # "IsEmpty"
    BY DEF TypeOK, Asked
  <2> QED BY <1>0, <2>1, Turned
<1> QED BY <1>0, <1>10, <1>11, <1>12, <1>13, <1>14, <1>15, <1>16 DEF Running

LEMMA NextOutgoingKeeps ==
  ASSUME TypeOK, Running, NEW m \in Calling, Asked(m), m.op = "NextOutgoing", leader' = dispatch(m).leader,
         Replied(m, dispatch(m).value)
  PROVE  TypeOK' /\ Running'
<1>1. dispatch(m) = next_outgoing
  <2>1. dispatch(m) = HandleRecord(m.op, m.msg)
    BY DispatchTo DEF RecordMsgs
  <2> QED BY <2>1 DEF HandleRecord
<1>2. Open
  BY DEF Running, ByState, Open
<1>3. CASE Blocked(leader.encrypted)
  <2>1. leader' = leader /\ dispatch(m).value = NoRec
    <3>1. next_outgoing = Ok(leader)
      BY <1>2, <1>3 DEF next_outgoing
    <3> QED BY <1>1, <3>1 DEF Ok, Answer
  <2>2. pc' = "calls" /\ todo' = Tail(todo) /\ after' = after /\ UNCHANGED <<loop, client, failure, result>>
    <3>1. Replied(m, NoRec)
      BY <2>1
    <3> QED BY <3>1 DEF Replied
  <2> QED BY <1>3, <2>1, <2>2, NoOutgoingKeeps
<1>4. CASE ~Blocked(leader.encrypted)
  <2>1. PICK h : h = Head(leader.encrypted)
    OBVIOUS
  <2>2. leader.encrypted # <<>> /\ leader.encrypted \in Seq(Record)
    BY <1>4, LeaderFields DEF Blocked
  <2>3. leader' = [leader EXCEPT !.encrypted = Tail(@)] /\ dispatch(m).value = h
    <3>1. next_outgoing = Answer([leader EXCEPT !.encrypted = Tail(leader.encrypted)], TRUE, Head(leader.encrypted))
      BY <1>2, <1>4 DEF next_outgoing
    <3> QED BY <1>1, <2>1, <3>1 DEF Answer
  <2>4. h # NoRec
    <3>1. Has(h.typ, leader.encrypted)
      BY <2>1, <2>2, HasTail
    <3> QED BY <3>1 DEF Running, OnTheWay, NoRec, Rec
  <2>5. /\ pc' = "calls" /\ todo' = todo /\ after' = after /\ client' = [client EXCEPT !.tls = Append(@, h)]
        /\ UNCHANGED <<loop, failure, result>>
    <3>1. Replied(m, h)
      BY <2>3
    <3> QED BY <2>4, <3>1 DEF Replied
  <2> QED BY <2>1, <2>2, <2>3, <2>5, OutgoingKeeps
<1> QED BY <1>3, <1>4

\* Records go through the leader: what was to be encrypted is, and of what was to
\* be decrypted the first part p, with s left.
LEMMA FlushMoves ==
  ASSUME TypeOK, Running, NEW m \in Calling, Asked(m), m.op \in {"Flush", "ServerClosed"},
         NEW t \in Seq(Calling), t = Tail(todo), todo' = t,
         NEW p \in Seq(Record), NEW s \in Seq(Record), leader.decrypt = p \o s, ~Has("Finished", s),
         leader'.decrypt = s, leader'.decrypted = leader.decrypted \o p, leader'.recv = leader.recv \o p,
         leader'.encrypt = <<>>, leader'.encrypted = leader.encrypted \o leader.encrypt,
         leader'.sent = leader.sent \o leader.encrypt, UNCHANGED client
  PROVE  /\ Ordered(todo)' /\ OnTheWay' /\ Flow' /\ (FinishedGone => FinishedGone')
         /\ NoData(Outgoing(todo))' <=> NoData(Outgoing(todo))
<1>1. UNCHANGED <<conn, socket, control, verifier>>
  BY DEF Asked
<1>2. /\ Ordered(t)
      /\ \A ops : Within(ops, todo) <=> m.op \in ops \/ Within(ops, t)
      /\ \A ops : First(ops) <=> m.op \in ops
      /\ DataOf(Incoming(t)) = DataOf(Incoming(todo)) /\ ~Has("Finished", Incoming(todo))
      /\ \A typ : typ # "none" => (Has(typ, Incoming(t)) <=> Has(typ, Incoming(todo)))
      /\ DataOf(Outgoing(t)) = DataOf(Outgoing(todo))
      /\ \A typ : typ # "none" => (Has(typ, Outgoing(t)) <=> Has(typ, Outgoing(todo)))
      /\ ~Has("Finished", Incoming(t)) /\ Lone(Incoming(t))
  BY NextCall
<1>3. Ordered(todo)'
  <2>1. Ordered(todo')
    BY <1>2
  <2> QED BY <2>1 DEF Ordered
<1>4. Incoming(todo)' = Incoming(t) /\ Outgoing(todo)' = Outgoing(t)
  BY DEF Incoming, Outgoing, Pushed
<1>5. NoData(Outgoing(todo))' <=> NoData(Outgoing(todo))
  <2>1. NoData(Outgoing(t)) <=> NoData(Outgoing(todo))
    BY <1>2 DEF NoData
  <2> QED BY <1>4, <2>1 DEF NoData, Has
<1>6. /\ leader.encrypt \in Seq(Record) /\ leader.encrypted \in Seq(Record) /\ leader.decrypt \in Seq(Record)
      /\ leader.decrypted \in Seq(Record) /\ leader.sent \in Seq(Record) /\ leader.recv \in Seq(Record)
  BY LeaderFields
<1>7. /\ \A typ : Has(typ, leader.decrypt) <=> Has(typ, p) \/ Has(typ, s)
      /\ \A typ : Has(typ, leader.decrypted \o p) <=> Has(typ, leader.decrypted) \/ Has(typ, p)
      /\ \A typ : Has(typ, leader.encrypted \o leader.encrypt) <=> Has(typ, leader.encrypted) \/ Has(typ, leader.encrypt)
  <2>1. \A typ : Has(typ, p \o s) <=> Has(typ, p) \/ Has(typ, s)
    BY HasConcat, Zenon
  <2>2. leader.decrypted \in Seq(Record)
    BY <1>6
  <2>3. \A typ : Has(typ, leader.decrypted \o p) <=> Has(typ, leader.decrypted) \/ Has(typ, p)
    BY <2>2, HasConcat, Zenon
  <2>4. leader.encrypted \in Seq(Record)
    BY <1>6
  <2>5. leader.encrypt \in Seq(Record)
    BY <1>6
  <2>6. \A typ : Has(typ, leader.encrypted \o leader.encrypt) <=> Has(typ, leader.encrypted) \/ Has(typ, leader.encrypt)
    BY <2>4, <2>5, HasConcat, Zenon
  <2> QED BY <2>1, <2>3, <2>6
<1>8. ~Has("Finished", Incoming(todo)')
  BY <1>2, <1>4
<1>9. FinishedGone => FinishedGone'
  BY <1>1, <1>7, <1>8 DEF FinishedGone
<1>10. PICK d, x : d = leader.decrypted /\ x = d \o p
  OBVIOUS
<1>11. d \in Seq(Record) /\ x \in Seq(Record) /\ leader'.decrypted = x
  BY <1>6, <1>10
<1>12. Lone(x)
  <2>1. SUFFICES ASSUME Has("Finished", x)
                 PROVE  Head(x).typ = "Finished" /\ ~Has("Finished", Tail(x)) /\ Len(socket.sent) >= 2
    BY DEF Lone
  <2>2. CASE Has("Finished", p)
    <3>1. Has("Finished", leader.decrypt)
      BY <1>7, <2>2
    <3>2. d = <<>> /\ Head(leader.decrypt).typ = "Finished" /\ ~Has("Finished", Tail(leader.decrypt))
          /\ Len(socket.sent) >= 2
      BY <1>10, <3>1 DEF Running, OnTheWay, Lone
    <3>3. x = p
      BY <1>10, <3>2, ConcatEmptySeq
    <3>4. p # <<>>
      BY <2>2, HasEmpty
    <3>5. /\ Head(p \o s) = Head(p) /\ \A typ : Has(typ, Tail(p \o s)) <=> Has(typ, Tail(p)) \/ Has(typ, s)
      BY <3>4, Taken
    <3> QED BY <3>2, <3>3, <3>5
  <2>3. CASE ~Has("Finished", p)
    <3>1. Has("Finished", d)
      BY <1>7, <1>10, <2>1, <2>3
    <3>2. Head(d).typ = "Finished" /\ ~Has("Finished", Tail(d)) /\ Len(socket.sent) >= 2
      BY <1>10, <3>1 DEF Running, OnTheWay, Lone
    <3>3. d # <<>>
      BY <3>1, HasEmpty
    <3>4. /\ Head(d \o p) = Head(d) /\ \A typ : Has(typ, Tail(d \o p)) <=> Has(typ, Tail(d)) \/ Has(typ, p)
      BY <1>11, <3>3, Taken
    <3> QED BY <1>10, <2>3, <3>2, <3>4
  <2> QED BY <2>2, <2>3
<1>13. leader.decrypt = <<>> => p = <<>> /\ s = <<>>
  <2>1. p # <<>> => p \o s # <<>>
    BY Taken
  <2>2. p = <<>> => p \o s = s
    BY ConcatEmptySeq
  <2> QED BY <2>1, <2>2
<1>14. OnTheWay'
  <2>1. Lone(Incoming(todo))' /\ Lone(leader.decrypt)'
    BY <1>8 DEF Lone
  <2>2. Lone(socket.in)'
    BY <1>1 DEF Running, OnTheWay, Lone
  <2>3. Lone(leader.decrypted)'
    BY <1>1, <1>11, <1>12 DEF Lone
  <2>4. leader.decrypt = <<>> /\ leader.decrypted = <<>> => s = <<>> /\ x = <<>>
    BY <1>10, <1>13, ConcatEmptySeq
  <2>5. socket.bad = 0 /\ Len(socket.sent) <= 1 =>
          s = <<>> /\ x = <<>> /\ ~Within({"PushIncoming"}, t) /\ socket.in \in {<<>>, <<Hello>>}
    BY <1>2, <2>4 DEF Running, OnTheWay
  <2>6. Has("Finished", socket.in) => s = <<>> /\ x = <<>> /\ ~Within({"PushIncoming"}, t)
    BY <1>2, <2>4 DEF Running, OnTheWay
  <2>7. socket.bad = 0 => ~Has("Bad", socket.in) /\ ~Has("Bad", Incoming(todo)') /\ ~Has("Bad", s)
    BY <1>2, <1>4, <1>7 DEF Running, OnTheWay
  <2>8. ~Has("none", <<>>) /\ ~Has("none", leader.encrypted \o leader.encrypt)
    BY <1>7, HasEmpty DEF Running, OnTheWay
  <2>9. todo' = t /\ socket' = socket
    BY <1>1
  <2> QED BY <1>8, <1>11, <2>1, <2>2, <2>3, <2>5, <2>6, <2>7, <2>8, <2>9 DEF OnTheWay
<1>15. Flow'
  <2>1. ~First({"Refused"})
    BY <1>2
  <2>2. PICK dp, ds, dd, de, df, dr, dt :
          /\ dp = DataOf(p) /\ ds = DataOf(s) /\ dd = DataOf(d) /\ de = DataOf(leader.encrypt)
          /\ df = DataOf(leader.encrypted) /\ dr = DataOf(leader.recv) /\ dt = DataOf(leader.sent)
    OBVIOUS
  <2>3. /\ DataOf(leader.decrypt) = dp \o ds /\ DataOf(x) = dd \o dp
        /\ DataOf(leader.encrypted \o leader.encrypt) = df \o de
        /\ DataOf(leader.recv \o p) = dr \o dp /\ DataOf(leader.sent \o leader.encrypt) = dt \o de
    <3>1. DataOf(p \o s) = DataOf(p) \o DataOf(s)
      BY DataConcat
    <3>2. DataOf(d \o p) = DataOf(d) \o DataOf(p)
      BY <1>11, DataConcat
    <3>3. leader.encrypted \in Seq(Record)
      BY <1>6
    <3>4. leader.encrypt \in Seq(Record)
      BY <1>6
    <3>5. DataOf(leader.encrypted \o leader.encrypt) = DataOf(leader.encrypted) \o DataOf(leader.encrypt)
      BY <3>3, <3>4, DataConcat
    <3>6. leader.recv \in Seq(Record)
      BY <1>6
    <3>7. DataOf(leader.recv \o p) = DataOf(leader.recv) \o DataOf(p)
      BY <3>6, DataConcat
    <3>8. leader.sent \in Seq(Record)
      BY <1>6
    <3>9. DataOf(leader.sent \o leader.encrypt) = DataOf(leader.sent) \o DataOf(leader.encrypt)
      BY <3>8, <3>4, DataConcat
    <3> QED BY <1>10, <2>2, <3>1, <3>2, <3>5, <3>7, <3>9
  <2>4. dp \in Seq(Record) /\ ds \in Seq(Record) /\ dd \in Seq(Record) /\ de \in Seq(Record)
    BY <1>6, <1>11, <2>2, DataSeq
  <2>5. df \in Seq(Record) /\ dr \in Seq(Record) /\ dt \in Seq(Record)
    BY <1>6, <2>2, DataSeq
  <2>6. InFlow'
    <3>1. PICK z : z = DataOf(Incoming(todo)) \o DataOf(socket.in)
      OBVIOUS
    <3>2. z \in Seq(Record)
      <4>1. Incoming(todo) \in Seq(Record)
        BY PushedSeq DEF Incoming, TypeOK
      <4> QED BY <3>1, <4>1, SocketFields, DataSeq
    <3>3. DataOf(socket.sent) = dr \o ((dp \o ds) \o z)
      BY <1>10, <2>1, <2>2, <2>3, <3>1 DEF Running, Flow, InFlow
    <3>4. ds \in Seq(Record)
      BY <2>4
    <3>9. dp \in Seq(Record)
      BY <2>4
    <3>10. dr \in Seq(Record)
      BY <2>5
    <3>11. ds \o z \in Seq(Record)
      BY <3>2, <3>4, ConcatProperties
    <3>5. (dp \o ds) \o z = dp \o (ds \o z)
      BY <3>2, <3>4, <3>9, Associative, Zenon
    <3>6. (dr \o dp) \o (ds \o z) = dr \o (dp \o (ds \o z))
      BY <3>9, <3>10, <3>11, Associative, Zenon
    <3>7. DataOf(socket.sent) = (dr \o dp) \o (ds \o z)
      BY <3>3, <3>5, <3>6
    <3>8. /\ leader'.recv = leader.recv \o p /\ leader'.decrypt = s /\ Incoming(todo)' = Incoming(t) /\ socket' = socket
      BY <1>1, <1>4
    <3> QED BY <1>2, <2>2, <2>3, <3>1, <3>7, <3>8 DEF InFlow
  <2>7. WriteFlow'
    <3>1. PICK z : z = DataOf(Outgoing(todo)) \o DataOf(conn.tx)
      OBVIOUS
    <3>2. z \in Seq(Record)
      <4>1. Outgoing(todo) \in Seq(Record) /\ conn.tx \in Seq(Record)
        BY PushedSeq DEF Outgoing, TypeOK
      <4> QED BY <3>1, <4>1, DataSeq
    <3>3. dt \o (de \o z) = Numbers(conn.written)
      BY <2>2, <3>1 DEF Running, Flow, WriteFlow
    <3>4. dt \in Seq(Record)
      BY <2>5
    <3>8. de \in Seq(Record)
      BY <2>4
    <3>5. (dt \o de) \o z = dt \o (de \o z)
      BY <3>2, <3>4, <3>8, Associative, Zenon
    <3>6. (dt \o de) \o (DataOf(<<>>) \o z) = Numbers(conn.written)
      BY <3>2, <3>3, <3>5, DataEmpty, ConcatEmptySeq
    <3>7. leader'.sent = leader.sent \o leader.encrypt /\ leader'.encrypt = <<>> /\ Outgoing(todo)' = Outgoing(t) /\ conn' = conn
      BY <1>1, <1>4
    <3> QED BY <1>2, <2>3, <3>1, <3>6, <3>7 DEF WriteFlow
  <2>8. OutFlow'
    <3>1. PICK o, l : o = DataOf(socket.out) /\ l = DataOf(client.tls)
      OBVIOUS
    <3>2. o \in Seq(Record)
      BY <3>1, SocketFields, DataSeq
    <3>9. l \in Seq(Record)
      BY <3>1, ClientFields, DataSeq
    <3>10. df \in Seq(Record)
      BY <2>5
    <3>11. l \o df \in Seq(Record)
      BY <3>9, <3>10, ConcatProperties
    <3>3. o \o (l \o df) = dt
      BY <2>2, <3>1 DEF Running, Flow, OutFlow
    <3>4. de \in Seq(Record)
      BY <2>4
    <3>5. (l \o df) \o de = l \o (df \o de)
      BY <3>4, <3>9, <3>10, Associative, Zenon
    <3>6. (o \o (l \o df)) \o de = o \o ((l \o df) \o de)
      BY <3>2, <3>4, <3>11, Associative, Zenon
    <3>7. o \o (l \o (df \o de)) = dt \o de
      BY <3>3, <3>5, <3>6
    <3>8. /\ leader'.encrypted = leader.encrypted \o leader.encrypt /\ leader'.sent = leader.sent \o leader.encrypt
          /\ client' = client /\ socket' = socket
      BY <1>1
    <3> QED BY <2>3, <3>1, <3>7, <3>8 DEF OutFlow
  <2>9. ReadFlow'
    <3>1. SUFFICES ASSUME ~conn.dropped
                   PROVE  (conn.read \o conn.rx) \o (client.plaintext \o (dd \o dp)) = dr \o dp
      BY <1>1, <1>11, <2>3 DEF ReadFlow
    <3>2. PICK o, l : o = conn.read \o conn.rx /\ l = client.plaintext
      OBVIOUS
    <3>3. o \in Seq(Record)
      <4>1. conn.read \in Seq(Record) /\ conn.rx \in Seq(Record)
        BY DEF TypeOK
      <4> QED BY <3>2, <4>1, ConcatProperties
    <3>8. l \in Seq(Record)
      BY <3>2, ClientFields
    <3>4. o \o (l \o dd) = dr
      BY <1>10, <2>2, <3>1, <3>2 DEF Running, Flow, ReadFlow
    <3>5. dd \in Seq(Record)
      BY <2>4
    <3>9. dp \in Seq(Record)
      BY <2>4
    <3>10. l \o dd \in Seq(Record)
      BY <3>5, <3>8, ConcatProperties
    <3>6. (l \o dd) \o dp = l \o (dd \o dp)
      BY <3>5, <3>8, <3>9, Associative, Zenon
    <3>7. (o \o (l \o dd)) \o dp = o \o ((l \o dd) \o dp)
      BY <3>3, <3>9, <3>10, Associative, Zenon
    <3> QED BY <3>2, <3>4, <3>6, <3>7
  <2> QED BY <1>1, <2>6, <2>7, <2>8, <2>9 DEF Running, Flow
<1> QED BY <1>3, <1>5, <1>9, <1>14, <1>15

\* What is decrypted goes up to the end, or to application data that is put off.
LEMMA DecryptableMeets ==
  ASSUME TypeOK
  PROVE  /\ Decryptable \in 0..Len(leader.decrypt)
         /\ Decryptable < Len(leader.decrypt) => IsData(leader.decrypt[Decryptable + 1])
<1>1. PICK q, held : q = leader.decrypt /\ held = {i \in DOMAIN q : IsData(q[i]) /\ ~leader.is_decrypting}
  OBVIOUS
<1>2. q \in Seq(Record) /\ Len(q) \in Nat /\ DOMAIN q = 1..Len(q)
  BY <1>1, LeaderFields, LenProperties
<1> DEFINE Meets(n) == (\A i \in 1..n : i \notin held) /\ (n < Len(q) => n + 1 \in held)
           ends == {j \in Nat : j <= Len(q) /\ (j < Len(q) => j + 1 \in held)}
<1>3. PICK n \in ends : \A j \in ends : n <= j
  <2>1. ends \subseteq Nat /\ Len(q) \in ends
    BY <1>2
  <2>2. ends # {}
    BY <2>1
  <2> HIDE DEF ends
  <2> QED BY <2>1, <2>2, LeastNumber
<1>4. n \in 0..Len(q) /\ Meets(n)
  <2>1. n \in Nat /\ n <= Len(q) /\ (n < Len(q) => n + 1 \in held)
    BY <1>3
  <2>2. ASSUME NEW i \in 1..n PROVE i \notin held
    <3>1. i - 1 \in Nat /\ i - 1 <= Len(q) /\ i - 1 < Len(q) /\ ~(n <= i - 1) /\ (i - 1) + 1 = i
      BY <1>2, <2>1
    <3>2. i - 1 \notin ends
      <4> HIDE DEF ends
      <4>1. i - 1 \in ends => n <= i - 1
        BY <1>3
      <4> QED BY <3>1, <4>1
    <3>3. ~(i - 1 < Len(q) => (i - 1) + 1 \in held)
      BY <3>1, <3>2
    <3> QED BY <3>1, <3>3
  <2> QED BY <1>2, <2>1, <2>2
<1>5. Decryptable = CHOOSE j \in 0..Len(q) : Meets(j)
  BY <1>1 DEF Decryptable
<1>6. Decryptable \in 0..Len(q) /\ Meets(Decryptable)
  <2> HIDE DEF Meets
  <2> QED BY <1>4, <1>5
<1>7. Decryptable < Len(q) => Decryptable + 1 \in held
  BY <1>6
<1> QED BY <1>1, <1>6, <1>7

\* The leader after records have gone through it.
FlushedLeader(state, ready, p, s) ==
  [state |-> state, fields |-> leader.fields, is_decrypting |-> leader.is_decrypting,
   ready |-> ready, started |-> leader.started, encrypt |-> <<>>,
   encrypted |-> leader.encrypted \o leader.encrypt, decrypt |-> s, decrypted |-> leader.decrypted \o p,
   sent |-> leader.sent \o leader.encrypt, recv |-> leader.recv \o p]

\* The server's Finished is never left among the records that are put off.
LEMMA FlushedParts ==
  ASSUME TypeOK, Running, NEW k \in 0..Len(leader.decrypt),
         k < Len(leader.decrypt) => IsData(leader.decrypt[k + 1])
  PROVE  \E p, s \in Seq(Record) :
           /\ leader.decrypt = p \o s /\ ~Has("Finished", s) /\ (k = Len(leader.decrypt) => s = <<>>)
           /\ Flushed(k) = FlushedLeader(leader.state, leader.ready, p, s)
<1>1. PICK q \in Seq(Record) : q = leader.decrypt
  BY LeaderFields
<1>2. PICK p, s : p = SubSeq(q, 1, k) /\ s = SubSeq(q, k + 1, Len(q))
  OBVIOUS
<1>3. Len(q) \in Nat /\ k \in 0..Len(q) /\ k \in Nat
  BY <1>1, LenProperties
<1>4. p \in Seq(Record) /\ s \in Seq(Record) /\ p \o s = q /\ Len(p) = k /\ Len(s) = Len(q) - k
  BY <1>2, <1>3, Cut
<1>5. k = Len(q) => s = <<>>
  <2>1. k = Len(q) => Len(s) = 0
    BY <1>3, <1>4
  <2> QED BY <1>4, <2>1, EmptySeq
<1>6. ~Has("Finished", s)
  <2>1. SUFFICES ASSUME Has("Finished", s) PROVE FALSE
    OBVIOUS
  <2>2. Has("Finished", p \o s)
    BY <1>4, <2>1, HasConcat
  <2>3. Has("Finished", leader.decrypt)
    BY <1>1, <1>4, <2>2
  <2>4. Head(q).typ = "Finished" /\ ~Has("Finished", Tail(q))
    BY <1>1, <2>3 DEF Running, OnTheWay, Lone
  <2>5. CASE p = <<>>
    <3>1. k = 0
      BY <1>4, <2>5, EmptySeq
    <3>2. s # <<>>
      BY <2>1, HasEmpty
    <3>3. k < Len(q)
      BY <1>3, <1>5, <3>1, <3>2
    <3>4. IsData(q[1])
      BY <1>1, <3>1, <3>3
    <3> QED BY <2>4, <3>4 DEF IsData, Head
  <2>6. CASE p # <<>>
    <3>1. \A typ : Has(typ, Tail(p \o s)) <=> Has(typ, Tail(p)) \/ Has(typ, s)
      BY <1>4, <2>6, Taken
    <3> QED BY <1>4, <2>1, <2>4, <3>1
  <2> QED BY <2>5, <2>6
<1>7. Flushed(k) = FlushedLeader(leader.state, leader.ready, p, s)
  <2>1. Flushed(k) = [leader EXCEPT !.encrypt = <<>>, !.encrypted = leader.encrypted \o leader.encrypt,
                                    !.sent = leader.sent \o leader.encrypt, !.decrypt = s,
                                    !.decrypted = leader.decrypted \o p, !.recv = leader.recv \o p]
    BY <1>1, <1>2 DEF Flushed
  <2> QED BY <2>1, LeaderFields DEF FlushedLeader
<1> QED BY <1>1, <1>4, <1>5, <1>6, <1>7

LEMMA FlushedTyped ==
  ASSUME TypeOK, NEW p \in Seq(Record), NEW s \in Seq(Record), NEW b \in BOOLEAN, NEW st \in {"Active", "Closed"}
  PROVE  FlushedLeader(st, b, p, s) \in Leaders
<1>1. PICK a, x, d, r : /\ a = leader.encrypted \o leader.encrypt /\ x = leader.sent \o leader.encrypt
                        /\ d = leader.decrypted \o p /\ r = leader.recv \o p
  OBVIOUS
<1>2. a \in Seq(Record) /\ x \in Seq(Record)
  BY <1>1, LeaderFields, ConcatProperties
<1>3. d \in Seq(Record) /\ r \in Seq(Record)
  BY <1>1, LeaderFields, ConcatProperties
<1>4. FlushedLeader(st, b, p, s) =
        [state |-> st, fields |-> leader.fields, is_decrypting |-> leader.is_decrypting,
         ready |-> b, started |-> leader.started, encrypt |-> <<>>,
         encrypted |-> a, decrypt |-> s, decrypted |-> d, sent |-> x, recv |-> r]
  BY <1>1 DEF FlushedLeader
<1>5. <<>> \in Seq(Record)
  OBVIOUS
<1> QED BY <1>2, <1>3, <1>4, <1>5, LeaderFields DEF Leaders

\* The calls behind a flush ask for what came out of it.
LEMMA BehindFlush ==
  ASSUME TypeOK, Running, NEW m \in Calling, Asked(m), m.op = "Flush", NEW t \in Seq(Calling), t = Tail(todo)
  PROVE  /\ t # <<>> /\ Head(t).op \in {"NextIncoming", "NextOutgoing"} /\ after # "started"
         /\ ~Within({"GetClientRandom", "GetNotify"}, t)
         /\ Within({"Flush"}, t) => Within({"NextIncoming"}, t)
         /\ Head(t).op = "NextOutgoing" => FinishedGone
         /\ Within({"ServerClosed"}, t) => loop.server_closed /\ after = "packets" /\ leader.state # "Closed"
         /\ Within({"PushIncoming"}, t) => ~loop.server_closed /\ after = "packets" /\ leader.state # "Handshake"
         /\ loop.server_closed => leader.state = "Closed" \/ Within({"ServerClosed"}, t)
<1>1. /\ Ordered(t) /\ (t = <<>> => m.op \in LastMsgs) /\ (t # <<>> => Head(t).op \in Behind(m.op))
      /\ \A ops : Within(ops, todo) <=> m.op \in ops \/ Within(ops, t)
      /\ \A ops : First(ops) <=> m.op \in ops
  BY NextCall
<1>2. t # <<>> /\ Head(t).op \in {"NextIncoming", "NextOutgoing"}
  BY <1>1, Follows DEF LastMsgs
<1>3. after # "started"
  <2>1. ~Only(StartMsgs, todo)
    <3>1. Within({"Flush"}, todo)
      BY <1>1
    <3> QED BY <3>1 DEF Within, Only, StartMsgs
  <2> QED BY <2>1 DEF Running, FlightSteps
<1>4. ~Within({"GetClientRandom", "GetNotify"}, t)
  BY <1>1, <1>3 DEF Running, FlightSteps
<1>5. \A ops : Within(ops, t) <=> Head(t).op \in ops \/ Within(ops, Tail(t))
  BY <1>2, WithinTail
<1>6. Head(t).op = "NextOutgoing" => ~Within({"NextIncoming"}, t) /\ ~Within({"Flush"}, t)
  BY <1>1, <1>2, OutgoingLast
<1>7. Within({"Flush"}, t) => Within({"NextIncoming"}, t)
  BY <1>2, <1>5, <1>6
<1>8. Head(t).op = "NextOutgoing" => FinishedGone
  <2>1. SUFFICES ASSUME Head(t).op = "NextOutgoing" PROVE FinishedGone
    OBVIOUS
  <2>2. Within({"Flush"}, todo) /\ ~Within({"NextIncoming"}, todo)
    BY <1>1, <1>6, <2>1
  <2>3. leader.started
    BY <2>2 DEF Running, RecordSteps
  <2> QED BY <2>3 DEF Running, Flags
<1>9. /\ Within({"ServerClosed"}, t) => loop.server_closed /\ after = "packets" /\ leader.state # "Closed"
      /\ Within({"PushIncoming"}, t) => ~loop.server_closed /\ after = "packets" /\ leader.state # "Handshake"
      /\ loop.server_closed => leader.state = "Closed" \/ Within({"ServerClosed"}, t)
  BY <1>1 DEF Running, RecordSteps
<1> QED BY <1>2, <1>3, <1>4, <1>7, <1>8, <1>9

\* A flush that leaves the state of the leader.
LEMMA FlushDone ==
  ASSUME TypeOK, Running, NEW m \in Calling, Asked(m), m.op = "Flush",
         pc' = "calls", after' = after, UNCHANGED <<loop, client, failure, result>>,
         NEW t \in Seq(Calling), t = Tail(todo), todo' = t,
         leader' \in Leaders, leader'.state = leader.state, leader'.started = leader.started,
         leader'.encrypt = <<>>, ~Has("Finished", leader'.decrypt),
         \A typ : Has(typ, leader'.encrypted) => Has(typ, leader.encrypt) \/ Has(typ, leader.encrypted),
         leader.state # "Active" => UNCHANGED leader,
         Ordered(todo)', OnTheWay', Flow', FinishedGone => FinishedGone',
         NoData(Outgoing(todo)) => NoData(Outgoing(todo))'
  PROVE  TypeOK' /\ Running'
<1>1. UNCHANGED <<conn, socket, control, verifier>>
  BY DEF Asked
<1>2. /\ t # <<>> /\ Head(t).op \in {"NextIncoming", "NextOutgoing"} /\ after # "started"
      /\ ~Within({"GetClientRandom", "GetNotify"}, t)
      /\ Within({"Flush"}, t) => Within({"NextIncoming"}, t)
      /\ Head(t).op = "NextOutgoing" => FinishedGone
      /\ Within({"ServerClosed"}, t) => loop.server_closed /\ after = "packets" /\ leader.state # "Closed"
      /\ Within({"PushIncoming"}, t) => ~loop.server_closed /\ after = "packets" /\ leader.state # "Handshake"
      /\ loop.server_closed => leader.state = "Closed" \/ Within({"ServerClosed"}, t)
  BY BehindFlush
<1>3. \A ops : First(ops)' <=> Head(t).op \in ops
  BY <1>2 DEF First
<1>4. ~InFlight'
  BY <1>2, <1>3 DEF InFlight, FlightMsgs
<1>5. ~InFlight
  <2>1. \A ops : First(ops) <=> m.op \in ops
    BY NextCall
  <2> QED BY <2>1 DEF InFlight, FlightMsgs
<1>6. TypeOK'
  <2>1. mailbox' \in Seq(Calling)
    BY MailTyped
  <2>2. client' \in Clients
    BY ClientTyped
  <2> QED BY <1>1, <2>1, <2>2, Typed
<1>7. FlightSteps'
  <2>1. todo' = t /\ after' = after
    OBVIOUS
  <2> QED BY <1>2, <1>3, <1>4, <2>1 DEF FlightSteps
<1>8. RecordSteps'
  <2>1. First({"NextOutgoing", "ServerClosed"})' => ~Has("Finished", leader'.decrypted)
    <3>1. First({"NextOutgoing", "ServerClosed"})' => FinishedGone'
      BY <1>2, <1>3
    <3> QED BY <3>1 DEF FinishedGone
  <2>2. todo' = t /\ after' = after /\ loop' = loop
    OBVIOUS
  <2>3. todo' # <<>> /\ ~First({"IsEmpty"})' /\ ~First({"ServerClosed"})'
    BY <1>2, <1>3
  <2>4. /\ ~First({"PushIncoming"})' /\ ~First({"PushOutgoing"})' /\ ~First({"Refused"})'
        /\ ~First({"GetServerFinishedVd", "StartTraffic"})'
    BY <1>2, <1>3
  <2> QED BY <1>2, <2>1, <2>2, <2>3, <2>4 DEF RecordSteps
<1>9. ByState'
  <2>1. CASE leader.state = "Active"
    BY <1>1, <1>4, <2>1 DEF Running, ByState
  <2>2. CASE leader.state # "Active"
    BY <1>1, <1>4, <1>5, <2>2 DEF Running, ByState
  <2> QED BY <2>1, <2>2
<1>10. Flags'
  <2>1. NoData(leader'.encrypt)
    BY HasEmpty DEF NoData
  <2>2. NoData(leader.encrypt) /\ NoData(leader.encrypted) => NoData(leader'.encrypted)
    BY DEF NoData
  <2> QED BY <1>1, <2>1, <2>2 DEF Running, Flags, Clean
<1>11. Control' /\ Mail'
  <2>1. (t # <<>> => Head(t).op # "IsEmpty") /\ m.op # "IsEmpty"
    BY <1>2
  <2> QED BY <2>1, Turned
<1> QED BY <1>6, <1>7, <1>8, <1>9, <1>10, <1>11 DEF Running

LEMMA FlushKeeps ==
  ASSUME TypeOK, Running, NEW m \in Calling, Asked(m), m.op = "Flush", leader' = dispatch(m).leader,
         dispatch(m).ok, Replied(m, dispatch(m).value)
  PROVE  TypeOK' /\ Running'
<1>1. /\ pc' = "calls" /\ todo' = Tail(todo) /\ after' = after
      /\ UNCHANGED <<loop, client, failure, result>>
  BY Plain
<1>2. PICK t \in Seq(Calling) : t = Tail(todo)
  BY RestTyped
<1>0. pc' = "calls" /\ todo' = t /\ after' = after /\ UNCHANGED <<loop, client, failure, result>>
  BY <1>1, <1>2
<1>3. dispatch(m) = flush
  <2>1. dispatch(m) = HandleRecord(m.op, m.msg)
    BY DispatchTo DEF RecordMsgs
  <2>2. PICK z : z = flush
    OBVIOUS
  <2>3. HandleRecord(m.op, m.msg) = z
    BY <2>2 DEF HandleRecord
  <2> QED BY <2>1, <2>2, <2>3
<1>4. leader.state \in {"Handshake", "Active", "Closed"}
  BY DEF Running, ByState
<1>5. PICK c, l : /\ c = (verifier /\ leader.state = "Active" /\ Genuine(SubSeq(leader.decrypt, 1, Decryptable)))
                  /\ l = Flushed(Decryptable)
  OBVIOUS
<1>6. flush = IF leader.state = "Handshake" \/ (leader.encrypt = <<>> /\ leader.decrypt = <<>>)
              THEN Ok(leader) ELSE When(c, l)
  BY <1>4, <1>5 DEF flush
<1>7. CASE leader.state = "Handshake" \/ (leader.encrypt = <<>> /\ leader.decrypt = <<>>)
  <2>1. leader' = leader
    BY <1>3, <1>6, <1>7 DEF Ok, Answer
  <2>2. leader.encrypt = <<>> /\ leader.decrypt = <<>>
    BY <1>7 DEF Running, ByState
  <2>3. ~Has("Finished", leader'.decrypt) /\ leader' \in Leaders
    <3>1. leader' \in Leaders
      BY <2>1, LeaderFields DEF Leaders
    <3>2. ~Has("Finished", leader.decrypt)
      BY <2>2, HasEmpty
    <3> QED BY <2>1, <3>1, <3>2
  <2>4. /\ Ordered(todo)' /\ OnTheWay' /\ Flow' /\ (FinishedGone => FinishedGone')
        /\ NoData(Outgoing(todo))' <=> NoData(Outgoing(todo))
    <3>1. m.op \notin {"PushIncoming", "PushOutgoing", "Refused"}
      OBVIOUS
    <3>2. client'.plaintext = client.plaintext /\ client'.tls = client.tls
      BY <1>0
    <3>3. todo' = t
      BY <1>0
    <3> QED BY <1>2, <2>1, <3>1, <3>2, <3>3, RecordsKept
  <2> QED BY <1>0, <1>2, <2>1, <2>2, <2>3, <2>4, FlushDone
<1>8. CASE ~(leader.state = "Handshake" \/ (leader.encrypt = <<>> /\ leader.decrypt = <<>>))
  <2>1. c /\ leader' = l
    <3>1. dispatch(m) = When(c, l)
      BY <1>3, <1>6, <1>8
    <3> QED BY <3>1, WhenOk
  <2>2. leader.state = "Active"
    BY <1>5, <2>1
  <2>3. PICK k : k = Decryptable
    OBVIOUS
  <2>4. /\ k \in 0..Len(leader.decrypt) /\ (k < Len(leader.decrypt) => IsData(leader.decrypt[k + 1]))
    BY <2>3, DecryptableMeets
  <2>5. PICK p, s \in Seq(Record) :
           /\ leader.decrypt = p \o s /\ ~Has("Finished", s)
           /\ Flushed(k) = FlushedLeader(leader.state, leader.ready, p, s)
    BY <2>4, FlushedParts
  <2>6. leader' = FlushedLeader(leader.state, leader.ready, p, s)
    BY <1>5, <2>1, <2>3, <2>5
  <2>7. /\ leader'.decrypt = s /\ leader'.decrypted = leader.decrypted \o p /\ leader'.recv = leader.recv \o p
        /\ leader'.encrypt = <<>> /\ leader'.encrypted = leader.encrypted \o leader.encrypt
        /\ leader'.sent = leader.sent \o leader.encrypt /\ leader'.state = leader.state
        /\ leader'.started = leader.started
    <3>1. PICK f, st, b : f = FlushedLeader(st, b, p, s) /\ st = leader.state /\ b = leader.ready
      OBVIOUS
    <3>2. /\ f.decrypt = s /\ f.decrypted = leader.decrypted \o p /\ f.recv = leader.recv \o p
          /\ f.encrypt = <<>> /\ f.encrypted = leader.encrypted \o leader.encrypt
          /\ f.sent = leader.sent \o leader.encrypt /\ f.state = st /\ f.started = leader.started
      BY <3>1 DEF FlushedLeader
    <3>3. leader' = f
      BY <2>6, <3>1
    <3> QED BY <3>1, <3>2, <3>3
  <2>8. leader' \in Leaders
    <3>1. leader.ready \in BOOLEAN
      BY LeaderFields
    <3> QED BY <2>2, <2>6, <3>1, FlushedTyped
  <2>9. /\ Ordered(todo)' /\ OnTheWay' /\ Flow' /\ (FinishedGone => FinishedGone')
        /\ NoData(Outgoing(todo))' <=> NoData(Outgoing(todo))
    <3>1. m.op \in {"Flush", "ServerClosed"} /\ todo' = t
      BY <1>0
    <3>2. UNCHANGED client
      BY <1>0
    <3> QED BY <1>2, <2>5, <2>7, <3>1, <3>2, FlushMoves
  <2>10. \A typ : Has(typ, leader'.encrypted) => Has(typ, leader.encrypt) \/ Has(typ, leader.encrypted)
    <3>1. leader.encrypt \in Seq(Record)
      BY LeaderFields
    <3>2. leader.encrypted \in Seq(Record)
      BY LeaderFields
    <3>3. \A typ : Has(typ, leader.encrypted \o leader.encrypt) <=> Has(typ, leader.encrypted) \/ Has(typ, leader.encrypt)
      BY <3>1, <3>2, HasConcat, Zenon
    <3> QED BY <2>7, <3>3
  <2> QED BY <1>0, <1>2, <2>2, <2>5, <2>7, <2>8, <2>9, <2>10, FlushDone
<1> QED BY <1>7, <1>8

\* The leader closes the connection: it decrypts all that is left.
LEMMA ServerClosedKeeps ==
  ASSUME TypeOK, Running, NEW m \in Calling, Asked(m), m.op = "ServerClosed", leader' = dispatch(m).leader,
         dispatch(m).ok, Replied(m, dispatch(m).value)
  PROVE  TypeOK' /\ Running'
<1>1. /\ pc' = "calls" /\ todo' = Tail(todo) /\ after' = after
      /\ UNCHANGED <<loop, client, failure, result, conn, socket, control, verifier>>
  BY Plain DEF Asked
<1>2. PICK t \in Seq(Calling) : t = Tail(todo)
  BY RestTyped
<1>3. /\ (t # <<>> => Head(t).op \in Behind(m.op))
      /\ \A ops : Within(ops, todo) <=> m.op \in ops \/ Within(ops, t)
      /\ \A ops : First(ops) <=> m.op \in ops
  BY <1>2, NextCall
<1>4. t = <<>>
  BY <1>3, Follows
<1>0. /\ pc' = "calls" /\ todo' = t /\ todo' = <<>> /\ after' = after
      /\ UNCHANGED <<loop, client, failure, result, conn, socket, control, verifier>>
  BY <1>1, <1>2, <1>4
<1>5. /\ leader.encrypt = <<>> /\ leader.encrypted = <<>>
      /\ ~Has("Finished", leader.decrypt) /\ ~Has("Finished", leader.decrypted)
      /\ loop.server_closed /\ after = "packets"
  BY <1>3 DEF Running, RecordSteps
<1>6. PICK k : k = Len(leader.decrypt)
  OBVIOUS
<1>7. PICK p, s \in Seq(Record) :
        /\ leader.decrypt = p \o s /\ ~Has("Finished", s) /\ s = <<>>
        /\ Flushed(k) = FlushedLeader(leader.state, leader.ready, p, s)
  <2>1. k \in Nat
    BY <1>6, LeaderFields, LenProperties
  <2>2. k \in 0..Len(leader.decrypt) /\ ~(k < Len(leader.decrypt))
    BY <1>6, <2>1
  <2>3. \E p, s \in Seq(Record) :
           /\ leader.decrypt = p \o s /\ ~Has("Finished", s) /\ (k = Len(leader.decrypt) => s = <<>>)
           /\ Flushed(k) = FlushedLeader(leader.state, leader.ready, p, s)
    BY <2>2, FlushedParts
  <2> QED BY <1>6, <2>3
<1>8. PICK l : l = Flushed(k)
  OBVIOUS
<1>9. PICK b \in BOOLEAN : b = (leader.ready \/ l.encrypted # <<>> \/ l.decrypted # <<>>)
  BY LeaderFields
<1>10. leader' = [l EXCEPT !.state = "Closed", !.ready = b] /\ leader.state = "Active"
  <2>1. dispatch(m) = close_connection
    <3>1. dispatch(m) = HandleState(m.op)
      BY DispatchTo DEF StateMsgs
    <3>2. PICK z : z = close_connection
      OBVIOUS
    <3>3. HandleState(m.op) = z
      BY <3>2 DEF HandleState
    <3> QED BY <3>1, <3>2, <3>3
  <2>2. PICK c : c = (leader.state = "Active" /\ verifier /\ leader.encrypt = <<>> /\ Genuine(leader.decrypt))
    OBVIOUS
  <2>3. l.ready = leader.ready
    BY <1>7, <1>8 DEF FlushedLeader
  <2>4. close_connection = IF c THEN Ok([l EXCEPT !.state = "Closed", !.ready = b])
                           ELSE Err([leader EXCEPT !.state = "Error"])
    BY <1>6, <1>8, <1>9, <2>2, <2>3 DEF close_connection
  <2>5. c
    BY <2>1, <2>4 DEF Err, Answer
  <2>6. leader' = [l EXCEPT !.state = "Closed", !.ready = b]
    BY <2>1, <2>4, <2>5 DEF Ok, Answer
  <2> QED BY <2>2, <2>5, <2>6
<1>11. leader' = FlushedLeader("Closed", b, p, s)
  <2>1. l = FlushedLeader(leader.state, leader.ready, p, s)
    BY <1>7, <1>8
  <2>2. l \in Leaders
    <3>1. leader.ready \in BOOLEAN /\ leader.state \in {"Active", "Closed"}
      BY <1>10, LeaderFields
    <3> QED BY <2>1, <3>1, FlushedTyped
  <2>3. l = [state |-> l.state, fields |-> l.fields, is_decrypting |-> l.is_decrypting,
             ready |-> l.ready, started |-> l.started, encrypt |-> l.encrypt, encrypted |-> l.encrypted,
             decrypt |-> l.decrypt, decrypted |-> l.decrypted, sent |-> l.sent, recv |-> l.recv]
    BY <2>2 DEF Leaders
  <2>4. leader' = [state |-> "Closed", fields |-> l.fields, is_decrypting |-> l.is_decrypting,
                   ready |-> b, started |-> l.started, encrypt |-> l.encrypt, encrypted |-> l.encrypted,
                   decrypt |-> l.decrypt, decrypted |-> l.decrypted, sent |-> l.sent, recv |-> l.recv]
    BY <1>10, <2>3
  <2>5. /\ l.fields = leader.fields /\ l.is_decrypting = leader.is_decrypting /\ l.started = leader.started
        /\ l.encrypt = <<>> /\ l.encrypted = leader.encrypted \o leader.encrypt /\ l.decrypt = s
        /\ l.decrypted = leader.decrypted \o p /\ l.sent = leader.sent \o leader.encrypt /\ l.recv = leader.recv \o p
    BY <2>1 DEF FlushedLeader
  <2> QED BY <2>4, <2>5 DEF FlushedLeader
<1>12. /\ leader'.decrypt = s /\ leader'.decrypted = leader.decrypted \o p /\ leader'.recv = leader.recv \o p
       /\ leader'.encrypt = <<>> /\ leader'.encrypted = leader.encrypted \o leader.encrypt
       /\ leader'.sent = leader.sent \o leader.encrypt /\ leader'.state = "Closed"
       /\ leader'.started = leader.started
  <2>1. PICK f : f = FlushedLeader("Closed", b, p, s)
    OBVIOUS
  <2>2. leader' = f
    BY <1>11, <2>1
  <2>3. /\ f.decrypt = s /\ f.decrypted = leader.decrypted \o p /\ f.recv = leader.recv \o p
        /\ f.encrypt = <<>> /\ f.encrypted = leader.encrypted \o leader.encrypt
        /\ f.sent = leader.sent \o leader.encrypt /\ f.state = "Closed" /\ f.started = leader.started
    BY <2>1 DEF FlushedLeader
  <2> QED BY <2>2, <2>3
<1>13. leader'.encrypted = <<>> /\ leader'.decrypt = <<>> /\ leader.decrypt = p
  BY <1>5, <1>7, <1>12, ConcatEmptySeq
<1>14. TypeOK'
  <2>1. leader' \in Leaders
    BY <1>11, FlushedTyped
  <2>2. mailbox' \in Seq(Calling)
    BY MailTyped
  <2>3. client' \in Clients
    BY <1>0, ClientTyped
  <2> QED BY <1>0, <2>1, <2>2, <2>3, Typed
<1>15. /\ Ordered(todo)' /\ OnTheWay' /\ Flow' /\ (FinishedGone => FinishedGone')
       /\ NoData(Outgoing(todo))' <=> NoData(Outgoing(todo))
  <2>1. m.op \in {"Flush", "ServerClosed"} /\ todo' = t
    BY <1>0
  <2>2. UNCHANGED client
    BY <1>0
  <2> QED BY <1>2, <1>7, <1>12, <2>1, <2>2, FlushMoves
<1>16. \A ops : ~First(ops)' /\ ~Within(ops, todo')
  BY <1>0, NoneWithin DEF First
<1>17. ~InFlight'
  BY <1>16 DEF InFlight
<1>18. FlightSteps'
  <2>1. after' = "packets"
    BY <1>0, <1>5
  <2>2. ~Within({"GetClientRandom", "GetNotify"}, todo)'
    BY <1>16 DEF Within
  <2> QED BY <1>16, <1>17, <2>1, <2>2 DEF FlightSteps
<1>19. RecordSteps'
  <2>1. ~Within({"Flush"}, todo') /\ ~Within({"ServerClosed"}, todo') /\ ~Within({"PushIncoming"}, todo')
    BY <1>16
  <2> QED BY <1>12, <1>13, <1>16, <2>1 DEF RecordSteps
<1>20. ByState'
  <2>1. ~Has("Finished", leader.decrypted \o p)
    <3>1. leader.decrypted \in Seq(Record)
      BY LeaderFields
    <3>2. ~Has("Finished", p)
      BY <1>5, <1>13
    <3> QED BY <1>5, <1>7, <3>1, <3>2, HasConcat
  <2>2. ~Has("Hello", socket.in) /\ socket.sent # <<>>
    BY <1>5, <1>10, HasEmpty DEF Running, Flags, ByState
  <2> QED BY <1>0, <1>5, <1>12, <1>13, <2>1, <2>2 DEF ByState
<1>21. Flags'
  <2>1. NoData(leader'.encrypt) /\ NoData(leader'.encrypted)
    BY <1>12, <1>13, HasEmpty DEF NoData
  <2> QED BY <1>0, <1>12, <1>15, <2>1 DEF Running, Flags, Clean
<1>22. Control' /\ Mail'
  <2>1. (t # <<>> => Head(t).op # "IsEmpty") /\ m.op # "IsEmpty"
    BY <1>4
  <2> QED BY <1>0, <2>1, Turned
<1> QED BY <1>0, <1>14, <1>15, <1>18, <1>19, <1>20, <1>21, <1>22 DEF Running

\* A handler answers with an error only if its condition is not met.

\* Why a call of the loop may have failed.
Cause(m) ==
  \/ ~Clean
  \/ m.op = "PushOutgoing" /\ leader.state = "Closed" /\ after = "packets"
  \/ m.op = "ServerClosed" /\ ~Has("Finished", socket.out) /\ after = "packets"
Spoilt == [leader EXCEPT !.state = "Error"]

LEMMA NotGenuine ==
  ASSUME TypeOK, Running, NEW k \in 0..Len(leader.decrypt), ~Genuine(SubSeq(leader.decrypt, 1, k))
  PROVE  ~Clean
<1>1. PICK q \in Seq(Record) : q = leader.decrypt
  BY LeaderFields
<1>2. PICK p, s : p = SubSeq(q, 1, k) /\ s = SubSeq(q, k + 1, Len(q))
  OBVIOUS
<1>3. p \in Seq(Record) /\ s \in Seq(Record) /\ p \o s = q
  BY <1>1, <1>2, Cut
<1>4. Has("Bad", p)
  BY <1>1, <1>2 DEF Genuine, Has
<1>5. Has("Bad", p \o s)
  BY <1>3, <1>4, HasConcat
<1>6. Has("Bad", leader.decrypt)
  BY <1>1, <1>3, <1>5
<1> QED BY <1>6 DEF Running, OnTheWay, Clean

LEMMA HelloFails ==
  ASSUME TypeOK, Running, NEW m \in Calling, Asked(m), m.op \in HelloMsgs \union ServerMsgs, ~dispatch(m).ok
  PROVE  ~Clean /\ dispatch(m).leader = leader
<1>1. \A ops : First(ops) <=> m.op \in ops
  BY RestTyped, NextCall
<1>2. leader.state = "Handshake"
  <2>1. CASE m.op \in FlightMsgs
    <3>1. InFlight
      BY <1>1, <2>1 DEF InFlight
    <3> QED BY <3>1 DEF Running, FlightSteps
  <2>2. CASE m.op = "GetClientRandom"
    <3>1. Within({"GetClientRandom", "GetNotify"}, todo)
      <4>1. todo \in Seq(Calling) /\ todo # <<>> /\ Head(todo) = m
        BY DEF TypeOK, Asked
      <4> QED BY <2>2, <4>1, WithinTail
    <3> QED BY <3>1 DEF Running, FlightSteps
  <2>3. CASE m.op = "GetClientKeyShare"
    <3>1. after = "started" \/ InFlight
      BY <1>1, <2>3 DEF InFlight
    <3> QED BY <3>1 DEF Running, FlightSteps
  <2> QED BY <2>1, <2>2, <2>3 DEF Asked, HelloMsgs, ServerMsgs, FlightMsgs
<1>3. CASE m.op \in HelloMsgs
  <2>1. dispatch(m) = HandleHello(m.op)
    BY <1>3, DispatchTo
  <2>2. m.op \notin {"GetSuite", "SetEncrypt", "SetDecrypt"}
    BY DEF Asked
  <2>3. PICK l : dispatch(m) = When(leader.state = "Handshake", l)
    <3>1. PICK l : l = [leader EXCEPT !.fields = @ \union {m.op}]
      OBVIOUS
    <3> QED BY <2>1, <2>2, <3>1 DEF HandleHello
  <2> QED BY <1>2, <2>3, WhenOk
<1>4. CASE m.op \in ServerMsgs
  <2>1. dispatch(m) = HandleServer(m.op)
    BY <1>4, DispatchTo
  <2>2. PICK c, l : /\ c = (leader.state = "Handshake" /\ (m.op \in {"SetServerRandom", "SetServerKeyShare"} => verifier))
                    /\ l = [leader EXCEPT !.fields = @ \union {m.op}]
    OBVIOUS
  <2>3. HandleServer(m.op) = When(c, l)
    BY <2>2, Zenon DEF HandleServer
  <2>4. dispatch(m) = When(c, l)
    BY <2>1, <2>3
  <2>5. ~c /\ dispatch(m).leader = leader
    BY <2>4, WhenOk
  <2> QED BY <1>2, <2>2, <2>5 DEF Clean
<1> QED BY <1>3, <1>4

LEMMA HashFails ==
  ASSUME TypeOK, Running, NEW m \in Calling, Asked(m), m.op \in HashMsgs, ~dispatch(m).ok
  PROVE  ~Clean /\ (dispatch(m).leader = leader \/ (m.op = "PrepareEncryption" /\ dispatch(m).leader = Spoilt))
<1>1. \A ops : First(ops) <=> m.op \in ops
  BY RestTyped, NextCall
<1>2. dispatch(m) = HandleHash(m.op)
  BY DispatchTo
<1>3. CASE m.op \in {"SetHsHashClientKeyExchange", "SetHsHashServerHello"}
  <2>1. HandleHash(m.op) = Ok(leader)
    BY <1>3 DEF HandleHash
  <2> QED BY <1>2, <2>1 DEF Ok, Answer
<1>4. CASE m.op \in {"GetServerFinishedVd", "GetClientFinishedVd"}
  <2>1. HandleHash(m.op) = When(leader.state = "Active" /\ verifier, leader)
    BY <1>4 DEF HandleHash
  <2>2. leader.state = "Active"
    BY <1>1, <1>4 DEF Running, FlightSteps, RecordSteps
  <2>3. PICK c : c = (leader.state = "Active" /\ verifier)
    OBVIOUS
  <2>4. dispatch(m) = When(c, leader)
    BY <1>2, <2>1, <2>3
  <2>5. ~c /\ dispatch(m).leader = leader
    BY <2>4, WhenOk
  <2> QED BY <2>2, <2>3, <2>5 DEF Clean
<1>5. CASE m.op = "PrepareEncryption"
  <2>1. PICK z : z = prepare_encryption
    OBVIOUS
  <2>2. HandleHash(m.op) = z
    BY <1>5, <2>1 DEF HandleHash
  <2>3. InFlight
    BY <1>1, <1>5 DEF InFlight, FlightMsgs
  <2>4. leader.state = "Handshake" /\ Needed \subseteq leader.fields
    BY <1>1, <1>5, <2>3 DEF Running, FlightSteps
  <2>5. ~verifier /\ dispatch(m) = Err(Spoilt)
    <3>1. PICK c, l : /\ c = (/\ leader.state = "Handshake" /\ verifier
                              /\ ServerMsgs \union {"SetProtocolVersion", "SetCipherSuite"} \subseteq leader.fields)
                      /\ l = [leader EXCEPT !.state = "Active"]
      OBVIOUS
    <3>2. dispatch(m) = IF c THEN Ok(l) ELSE Err(Spoilt)
      BY <1>2, <2>1, <2>2, <3>1 DEF prepare_encryption, Spoilt
    <3>3. ~c
      BY <3>2 DEF Ok, Answer
    <3> QED BY <2>4, <3>1, <3>2, <3>3 DEF Needed
  <2> QED BY <1>5, <2>5 DEF Clean, Err, Answer
<1> QED BY <1>3, <1>4, <1>5 DEF HashMsgs

LEMMA PushFails ==
  ASSUME TypeOK, Running, NEW m \in Calling, Asked(m), m.op \in {"PushIncoming", "PushOutgoing", "StartTraffic"},
         ~dispatch(m).ok
  PROVE  Cause(m) /\ m.op # "ServerClosed" /\ dispatch(m).leader = leader
<1>1. \A ops : First(ops) <=> m.op \in ops
  BY RestTyped, NextCall
<1>2. dispatch(m) = HandleRecord(m.op, m.msg)
  BY DispatchTo DEF RecordMsgs
<1>3. leader.state \in {"Handshake", "Active", "Closed"}
  BY DEF Running, ByState
<1>4. CASE m.op = "PushIncoming"
  <2>1. PICK l : l = [leader EXCEPT !.decrypt = Append(@, m.msg)]
    OBVIOUS
  <2>2. HandleRecord(m.op, m.msg) = When(Pushable, l)
    BY <1>4, <2>1 DEF HandleRecord
  <2>3. ~Pushable /\ dispatch(m).leader = leader
    BY <1>2, <2>2, WhenOk
  <2>4. leader.state = "Active"
    BY <1>1, <1>4 DEF Running, RecordSteps
  <2> QED BY <1>4, <2>3, <2>4 DEF Pushable, Cause, Clean
<1>5. CASE m.op = "PushOutgoing"
  <2>1. PICK l : l = [leader EXCEPT !.encrypt = Append(@, m.msg)]
    OBVIOUS
  <2>2. HandleRecord(m.op, m.msg) = When(Pushable, l)
    BY <1>5, <2>1 DEF HandleRecord
  <2>3. ~Pushable /\ dispatch(m).leader = leader
    BY <1>2, <2>2, WhenOk
  <2>4. leader.state # "Handshake" /\ (leader.state = "Active" \/ after = "packets")
    BY <1>1, <1>5 DEF Running, RecordSteps
  <2> QED BY <1>3, <1>5, <2>3, <2>4 DEF Pushable, Cause, Clean
<1>6. CASE m.op = "StartTraffic"
  <2>1. PICK c, l : c = (leader.state = "Active" /\ verifier) /\ l = [leader EXCEPT !.started = TRUE]
    OBVIOUS
  <2>2. HandleRecord(m.op, m.msg) = When(c, l)
    BY <1>6, <2>1 DEF HandleRecord
  <2>3. ~c /\ dispatch(m).leader = leader
    BY <1>2, <2>2, WhenOk
  <2>4. leader.state = "Active"
    BY <1>1, <1>6 DEF Running, RecordSteps
  <2> QED BY <1>6, <2>1, <2>3, <2>4 DEF Cause, Clean
<1> QED BY <1>4, <1>5, <1>6

LEMMA NextAnswers ==
  ASSUME TypeOK, Running, NEW m \in Calling, m.op \in {"NextIncoming", "NextOutgoing"}
  PROVE  dispatch(m).ok
<1>1. dispatch(m) = HandleRecord(m.op, m.msg)
  BY DispatchTo DEF RecordMsgs
<1>2. Open
  BY DEF Running, ByState, Open
<1>3. CASE m.op = "NextIncoming"
  <2>1. PICK z : z = next_incoming
    OBVIOUS
  <2>2. HandleRecord(m.op, m.msg) = z
    BY <1>3, <2>1 DEF HandleRecord
  <2>3. next_incoming.ok
    <3>1. PICK l, v : l = [leader EXCEPT !.decrypted = Tail(@)] /\ v = Head(leader.decrypted)
      OBVIOUS
    <3>2. next_incoming = IF Blocked(leader.decrypted) THEN Ok(leader) ELSE Answer(l, TRUE, v)
      BY <1>2, <3>1 DEF next_incoming
    <3> QED BY <3>2 DEF Ok, Answer
  <2> QED BY <1>1, <2>1, <2>2, <2>3
<1>4. CASE m.op = "NextOutgoing"
  <2>1. PICK z : z = next_outgoing
    OBVIOUS
  <2>2. HandleRecord(m.op, m.msg) = z
    BY <1>4, <2>1 DEF HandleRecord
  <2>3. next_outgoing.ok
    <3>1. PICK l, v : l = [leader EXCEPT !.encrypted = Tail(@)] /\ v = Head(leader.encrypted)
      OBVIOUS
    <3>2. next_outgoing = IF Blocked(leader.encrypted) THEN Ok(leader) ELSE Answer(l, TRUE, v)
      BY <1>2, <3>1 DEF next_outgoing
    <3> QED BY <3>2 DEF Ok, Answer
  <2> QED BY <1>1, <2>1, <2>2, <2>3
<1> QED BY <1>3, <1>4

LEMMA FlushFails ==
  ASSUME TypeOK, Running, NEW m \in Calling, Asked(m), m.op = "Flush", ~dispatch(m).ok
  PROVE  ~Clean /\ dispatch(m).leader = leader
<1>1. dispatch(m) = HandleRecord(m.op, m.msg)
  BY DispatchTo DEF RecordMsgs
<1>2. leader.state \in {"Handshake", "Active", "Closed"}
  BY DEF Running, ByState
<1>3. PICK z : z = flush
  OBVIOUS
<1>4. dispatch(m) = z
  <2>1. HandleRecord(m.op, m.msg) = z
    BY <1>3 DEF HandleRecord
  <2> QED BY <1>1, <2>1
<1>5. PICK g, c, l : /\ g = Genuine(SubSeq(leader.decrypt, 1, Decryptable))
                     /\ c = (verifier /\ leader.state = "Active" /\ g) /\ l = Flushed(Decryptable)
  OBVIOUS
<1>6. flush = IF leader.state = "Handshake" \/ (leader.encrypt = <<>> /\ leader.decrypt = <<>>)
              THEN Ok(leader) ELSE When(c, l)
  BY <1>2, <1>5 DEF flush
<1>7. ~(leader.state = "Handshake" \/ (leader.encrypt = <<>> /\ leader.decrypt = <<>>))
  BY <1>3, <1>4, <1>6 DEF Ok, Answer
<1>8. ~c /\ dispatch(m).leader = leader
  <2>1. dispatch(m) = When(c, l)
    BY <1>3, <1>4, <1>6, <1>7
  <2> QED BY <2>1, WhenOk
<1>9. leader.state = "Active"
  BY <1>2, <1>7 DEF Running, ByState
<1>10. ~verifier \/ ~Genuine(SubSeq(leader.decrypt, 1, Decryptable))
  BY <1>5, <1>8, <1>9
<1>11. ~Clean
  <2>1. PICK k : k = Decryptable
    OBVIOUS
  <2>2. k \in 0..Len(leader.decrypt)
    BY <2>1, DecryptableMeets
  <2>3. ~Genuine(SubSeq(leader.decrypt, 1, k)) => ~Clean
    BY <2>2, NotGenuine
  <2> QED BY <1>10, <2>1, <2>3 DEF Clean
<1> QED BY <1>8, <1>11

LEMMA StateFails ==
  ASSUME TypeOK, Running, NEW m \in Calling, Asked(m), m.op \in StateMsgs, ~dispatch(m).ok
  PROVE  m.op = "ServerClosed" /\ Cause(m) /\ after = "packets" /\ dispatch(m).leader = Spoilt
<1>1. dispatch(m) = HandleState(m.op)
  BY DispatchTo
<1>2. m.op = "ServerClosed"
  <2>1. CASE m.op = "GetNotify"
    <3>1. HandleState(m.op) = Ok(leader)
      BY <2>1 DEF HandleState
    <3> QED BY <1>1, <3>1 DEF Ok, Answer
  <2>2. CASE m.op = "IsEmpty"
    <3>1. PICK v : v = Rec(IF is_empty THEN "true" ELSE "false", 0)
      OBVIOUS
    <3>2. HandleState(m.op) = Answer(leader, TRUE, v)
      BY <2>2, <3>1 DEF HandleState
    <3> QED BY <1>1, <3>2 DEF Answer
  <2> QED BY <2>1, <2>2 DEF StateMsgs
<1>3. /\ \A ops : First(ops) <=> m.op \in ops
      /\ Within({"ServerClosed"}, todo)
  <2>1. todo \in Seq(Calling) /\ todo # <<>> /\ Head(todo) = m
    BY DEF TypeOK, Asked
  <2> QED BY <1>2, <2>1, RestTyped, NextCall, WithinTail
<1>4. leader.encrypt = <<>> /\ after = "packets" /\ leader.state \in {"Handshake", "Active"}
  BY <1>2, <1>3 DEF Running, RecordSteps, ByState
<1>5. PICK c, l, g : /\ g = Genuine(leader.decrypt)
                     /\ c = (leader.state = "Active" /\ verifier /\ leader.encrypt = <<>> /\ g)
                     /\ l = LET f == Flushed(Len(leader.decrypt))
                            IN [f EXCEPT !.state = "Closed", !.ready = @ \/ f.encrypted # <<>> \/ f.decrypted # <<>>]
  OBVIOUS
<1>6. ~c /\ dispatch(m).leader = Spoilt
  <2>1. PICK z : z = close_connection
    OBVIOUS
  <2>2. HandleState(m.op) = z
    BY <1>2, <2>1 DEF HandleState
  <2>3. close_connection = IF c THEN Ok(l) ELSE Err(Spoilt)
    BY <1>5 DEF close_connection, Spoilt
  <2> QED BY <1>1, <2>1, <2>2, <2>3 DEF Ok, Err, Answer
<1>7. leader.state = "Handshake" => ~Has("Finished", socket.out)
  BY DEF Running, ByState
<1>8. leader.state = "Active" => ~Clean
  <2>1. SUFFICES ASSUME leader.state = "Active", verifier PROVE socket.bad # 0
    BY DEF Clean
  <2>2. ~Genuine(leader.decrypt)
    BY <1>4, <1>5, <1>6, <2>1
  <2>3. Has("Bad", leader.decrypt)
    BY <2>2 DEF Genuine, Has
  <2> QED BY <2>3 DEF Running, OnTheWay
<1> QED BY <1>2, <1>4, <1>6, <1>7, <1>8 DEF Cause

\* All of them together.
LEMMA DispatchFails ==
  ASSUME TypeOK, Running, NEW m \in Calling, Asked(m), ~dispatch(m).ok
  PROVE  /\ Cause(m)
         /\ \/ dispatch(m).leader = leader /\ m.op # "ServerClosed"
            \/ dispatch(m).leader = Spoilt /\ m.op # "PushOutgoing" /\ after = "packets"
<1>1. CASE m.op \in HelloMsgs \union ServerMsgs
  <2>1. m.op # "ServerClosed"
    BY <1>1 DEF HelloMsgs, ServerMsgs
  <2> QED BY <1>1, <2>1, HelloFails DEF Cause
<1>2. CASE m.op \in HashMsgs
  <2>1. m.op # "ServerClosed" /\ m.op # "PushOutgoing"
    BY <1>2 DEF HashMsgs
  <2>2. m.op = "PrepareEncryption" => after = "packets"
    <3>1. SUFFICES ASSUME m.op = "PrepareEncryption" PROVE after = "packets"
      OBVIOUS
    <3>2. \A ops : First(ops) <=> m.op \in ops
      BY RestTyped, NextCall
    <3>3. InFlight
      BY <3>1, <3>2 DEF InFlight, FlightMsgs
    <3> QED BY <3>3 DEF Running, FlightSteps
  <2> QED BY <1>2, <2>1, <2>2, HashFails DEF Cause
<1>3. CASE m.op \in {"PushIncoming", "PushOutgoing", "StartTraffic"}
  BY <1>3, PushFails
<1>4. CASE m.op \in {"NextIncoming", "NextOutgoing"}
  BY <1>4, NextAnswers
<1>5. CASE m.op = "Flush"
  BY <1>5, FlushFails DEF Cause
<1>6. CASE m.op \in StateMsgs
  BY <1>6, StateFails
<1> QED BY <1>1, <1>2, <1>3, <1>4, <1>5, <1>6
        DEF Asked, MpcTlsLeaderMsg, HelloMsgs, ServerMsgs, HashMsgs, RecordMsgs, StateMsgs, CtrlMsgs

\* `?' of the loop: the cause is on record.
LEMMA CallEnds ==
  ASSUME TypeOK, Running, NEW m \in Calling, Asked(m), leader' = dispatch(m).leader, ~dispatch(m).ok, Fails(m.op)
  PROVE  TypeOK' /\ FailureHasCause' /\ result' = "Err"
<1>1. /\ pc' = "ended" /\ failure' = m.op /\ result' = "Err"
      /\ UNCHANGED <<todo, after, loop, client, conn, socket, control, verifier>>
  BY DEF Fails, Asked
<1>2. /\ Cause(m)
      /\ \/ leader' = leader /\ m.op # "ServerClosed"
         \/ leader' = Spoilt /\ m.op # "PushOutgoing" /\ after = "packets"
  BY DispatchFails
<1>3. leader' \in Leaders
  <2>1. leader \in Leaders
    BY DEF TypeOK, Leaders
  <2>2. Spoilt = [state |-> "Error", fields |-> leader.fields, is_decrypting |-> leader.is_decrypting,
                  ready |-> leader.ready, started |-> leader.started, encrypt |-> leader.encrypt,
                  encrypted |-> leader.encrypted, decrypt |-> leader.decrypt, decrypted |-> leader.decrypted,
                  sent |-> leader.sent, recv |-> leader.recv]
    BY LeaderFields DEF Spoilt
  <2>3. Spoilt \in Leaders
    BY <2>2, LeaderFields DEF Leaders
  <2> QED BY <1>2, <2>1, <2>3
<1>4. TypeOK'
  <2>1. mailbox' \in Seq(Calling)
    BY MailTyped
  <2>2. failure' \in MpcTlsLeaderMsg
    BY <1>1 DEF Asked
  <2>3. /\ pc' \in {"calls", "asked", "write", "forward", "select", "ended"}
        /\ todo' \in Seq(Calling) /\ after' \in {"none", "started", "packets", "closing", "select", "break"}
        /\ failure' \in MpcTlsLeaderMsg \union {"none", "client", "read", "write"}
        /\ result' \in {"none", "Ok", "Err"} /\ control' \in {"idle", "called", "answered"} /\ verifier' \in BOOLEAN
    BY <1>1, <2>2 DEF TypeOK
  <2>4. /\ loop' = loop /\ client' = client /\ conn' = conn /\ socket' = socket
    BY <1>1
  <2> QED BY <1>3, <2>1, <2>3, <2>4 DEF TypeOK, Leaders
<1>5. FailureHasCause'
  <2>1. socket.bad # 0 => socket.bad > 0
    BY SocketFields
  <2>2. CASE ~Clean
    BY <1>1, <2>1, <2>2 DEF FailureHasCause, Clean
  <2>3. CASE m.op = "PushOutgoing" /\ leader.state = "Closed"
    BY <1>1, <1>2, <2>3 DEF FailureHasCause
  <2>4. CASE m.op = "ServerClosed" /\ ~Has("Finished", socket.out)
    BY <1>1, <2>4 DEF FailureHasCause, Sees, Has
  <2> QED BY <1>2, <2>2, <2>3, <2>4 DEF Cause
<1> QED BY <1>1, <1>4, <1>5

\* The error of a close_notify is only logged: the loop goes on.
LEMMA CallLogged ==
  ASSUME TypeOK, Running, NEW m \in Calling, Asked(m), leader' = dispatch(m).leader, ~dispatch(m).ok,
         CallFails(m), after = "closing"
  PROVE  TypeOK' /\ Running'
<1>1. /\ pc' = "write" /\ todo' = <<>> /\ after' = "none"
      /\ loop' = [loop EXCEPT !.client_closed = TRUE, !.receiving = FALSE]
      /\ client' = [client EXCEPT !.phase = IF m.op = "PushOutgoing" THEN @ ELSE "error"]
      /\ UNCHANGED <<failure, result, conn, socket, control, verifier>>
  BY DEF CallFails, Asked
<1>2. ~Clean /\ leader' = leader
  <2>1. Cause(m) /\ (dispatch(m).leader = leader \/ after = "packets")
    BY DispatchFails
  <2> QED BY <2>1 DEF Cause
<1>3. loop' = [handshake_done |-> loop.handshake_done, client_closed |-> TRUE,
               server_closed |-> loop.server_closed, reading |-> loop.reading, receiving |-> FALSE]
  BY <1>1, LoopFields
<1>4. PICK ph \in {client.phase, "error"} :
        client' = [phase |-> ph, plaintext |-> client.plaintext, tls |-> client.tls]
  BY <1>1, ClientFields
<1>0. /\ pc' = "write" /\ todo' = <<>> /\ after' = "none" /\ leader' = leader
      /\ UNCHANGED <<failure, result, conn, socket, control, verifier>>
  BY <1>1, <1>2
<1>5. TypeOK'
  <2>1. loop' \in [handshake_done : BOOLEAN, client_closed : BOOLEAN, server_closed : BOOLEAN,
                   reading : BOOLEAN, receiving : BOOLEAN]
    BY <1>3, LoopFields
  <2>2. client' \in [phase : {"hello", "traffic", "error"}, plaintext : Seq(Record), tls : Seq(Record)]
    BY <1>4, ClientFields
  <2>3. todo' \in Seq(Calling) /\ mailbox' \in Seq(Calling)
    BY <1>0, EmptyPlan, MailTyped
  <2> QED BY <1>0, <2>1, <2>2, <2>3 DEF TypeOK
<1>6. loop.receiving /\ loop.handshake_done /\ client.phase # "hello"
  BY DEF Running, Control, Flags, Asked
<1>7. \A ops : ~First(ops)' /\ ~Within(ops, todo')
  BY <1>0, NoneWithin DEF First
<1>8. ~InFlight'
  BY <1>7 DEF InFlight
<1>9. Ordered(todo)'
  <2>1. Ordered(todo')
    BY <1>0, EmptyPlan
  <2> QED BY <2>1 DEF Ordered
<1>10. FlightSteps'
  <2>1. ~Within({"GetClientRandom", "GetNotify"}, todo')
    BY <1>7
  <2> QED BY <1>0, <1>7, <1>8, <2>1 DEF FlightSteps
<1>11. RecordSteps'
  <2>1. ~Within({"Flush"}, todo') /\ ~Within({"ServerClosed"}, todo') /\ ~Within({"PushIncoming"}, todo')
    BY <1>7
  <2>2. loop.server_closed => leader.state = "Closed"
    BY DEF Running, RecordSteps
  <2> QED BY <1>0, <1>3, <1>7, <2>1, <2>2 DEF RecordSteps
<1>12. /\ DataOf(Incoming(todo')) = <<>> /\ DataOf(Outgoing(todo')) = <<>> /\ NoData(Outgoing(todo'))
       /\ ~Has("Finished", Incoming(todo')) /\ ~Has("Bad", Incoming(todo')) /\ Lone(Incoming(todo'))
  <2>1. todo' \in Seq(Calling) /\ ~Within({"PushIncoming"}, todo') /\ ~Within({"PushOutgoing"}, todo')
    BY <1>0, <1>7, EmptyPlan
  <2> QED BY <2>1, NothingPushed
<1>13. Incoming(todo)' = Incoming(todo') /\ Outgoing(todo)' = Outgoing(todo')
  BY DEF Incoming, Outgoing, Pushed
<1>14. ByState'
  BY <1>0, <1>3, <1>4, <1>8 DEF Running, ByState
<1>15. OnTheWay'
  <2>1. Lone(Incoming(todo))'
    BY <1>0, <1>12, <1>13 DEF Lone
  <2>2. Lone(socket.in)' /\ Lone(leader.decrypt)' /\ Lone(leader.decrypted)'
    BY <1>0 DEF Running, OnTheWay, Lone
  <2>3. ~Within({"PushIncoming"}, todo')
    BY <1>7
  <2> QED BY <1>0, <1>12, <1>13, <2>1, <2>2, <2>3 DEF Running, OnTheWay
<1>16. Flags'
  <2>1. NoData(client.tls) /\ NoData(leader.encrypt) /\ NoData(leader.encrypted)
    BY DEF Running, Flags
  <2>2. leader.started /\ leader.state # "Handshake" /\ Len(socket.sent) >= 2 /\ FinishedGone
    BY <1>6 DEF Running, Flags
  <2>3. FinishedGone'
    BY <1>0, <1>12, <1>13, <2>2 DEF FinishedGone
  <2>4. NoData(Outgoing(todo))'
    BY <1>12, <1>13 DEF NoData
  <2>5. loop.server_closed => ~loop.reading /\ socket.server # "open" /\ socket.in = <<>>
    BY DEF Running, Flags
  <2> QED BY <1>0, <1>2, <1>3, <1>4, <1>6, <2>1, <2>2, <2>3, <2>4, <2>5 DEF Flags, Clean
<1>17. Flow'
  <2>1. DataOf(Incoming(todo)) = <<>> /\ DataOf(Outgoing(todo)) = <<>>
    <3>1. ~Within({"PushIncoming"}, todo)
      BY DEF Running, RecordSteps
    <3>2. todo \in Seq(Calling) /\ Outgoing(todo) \in Seq(Record)
      BY PushedSeq DEF TypeOK, Outgoing
    <3>3. NoData(Outgoing(todo))
      BY DEF Running, Flags
    <3> QED BY <3>1, <3>2, <3>3, PushedNone, DataNone DEF Incoming
  <2>2. ~First({"Refused"})
    <3>1. \A ops : First(ops) <=> m.op \in ops
      BY RestTyped, NextCall
    <3> QED BY <3>1 DEF Asked, MpcTlsLeaderMsg, HelloMsgs, ServerMsgs, HashMsgs, RecordMsgs, StateMsgs, CtrlMsgs
  <2>3. InFlow'
    BY <1>0, <1>12, <1>13, <2>1, <2>2 DEF Running, Flow, InFlow
  <2>4. WriteFlow'
    BY <1>0, <1>12, <1>13, <2>1 DEF Running, Flow, WriteFlow
  <2>5. ReadFlow' /\ OutFlow'
    BY <1>0, <1>4 DEF Running, Flow, ReadFlow, OutFlow
  <2> QED BY <1>0, <2>3, <2>4, <2>5 DEF Running, Flow
<1>18. Control'
  BY <1>0, <1>7 DEF Control
<1>19. Mail'
  <2>1. Own' = <<>>
    BY <1>0 DEF Own
  <2> QED BY <2>1, MailTaken DEF Asked
<1> QED BY <1>0, <1>5, <1>9, <1>10, <1>11, <1>14, <1>15, <1>16, <1>17, <1>18, <1>19 DEF Running

LEMMA HandleKeeps ==
  ASSUME TypeOK, Running, handle
  PROVE  TypeOK' /\ (Running' \/ (FailureHasCause' /\ result' = "Err"))
<1>1. PICK m \in Calling : /\ Asked(m) /\ leader' = dispatch(m).leader
                           /\ IF dispatch(m).ok THEN Replied(m, dispatch(m).value) ELSE CallFails(m)
  BY Dispatched
<1>2. CASE ~dispatch(m).ok
  <2>1. CallFails(m)
    BY <1>1, <1>2
  <2>2. CASE after = "closing"
    BY <1>1, <1>2, <2>1, <2>2, CallLogged
  <2>3. CASE after # "closing"
    <3>1. Fails(m.op)
      BY <2>1, <2>3 DEF CallFails
    <3> QED BY <1>1, <1>2, <3>1, CallEnds
  <2> QED BY <2>2, <2>3
<1>3. CASE dispatch(m).ok
  <2>0. Asked(m) /\ leader' = dispatch(m).leader /\ Replied(m, dispatch(m).value)
    BY <1>1, <1>3
  <2>1. CASE m.op \in Quiet
    BY <1>3, <2>0, <2>1, QuietKeeps
  <2>2. CASE m.op = "PrepareEncryption"
    BY <1>3, <2>0, <2>2, PrepareKeeps
  <2>3. CASE m.op = "StartTraffic"
    BY <1>3, <2>0, <2>3, StartKeeps
  <2>4. CASE m.op = "IsEmpty"
    BY <1>3, <2>0, <2>4, IsEmptyKeeps
  <2>5. CASE m.op = "PushIncoming"
    BY <1>3, <2>0, <2>5, PushIncomingKeeps
  <2>6. CASE m.op = "PushOutgoing"
    BY <1>3, <2>0, <2>6, PushOutgoingKeeps
  <2>7. CASE m.op = "NextIncoming"
    BY <1>3, <2>0, <2>7, NextIncomingKeeps
  <2>8. CASE m.op = "NextOutgoing"
    BY <1>3, <2>0, <2>8, NextOutgoingKeeps
  <2>9. CASE m.op = "Flush"
    BY <1>3, <2>0, <2>9, FlushKeeps
  <2>10. CASE m.op = "ServerClosed"
    BY <1>3, <2>0, <2>10, ServerClosedKeeps
  <2>11. \/ m.op \in Quiet
         \/ m.op \in {"PrepareEncryption", "StartTraffic", "IsEmpty", "PushIncoming", "PushOutgoing",
                      "NextIncoming", "NextOutgoing", "Flush", "ServerClosed"}
    BY <2>0 DEF Asked, Quiet, MpcTlsLeaderMsg, HelloMsgs, ServerMsgs, HashMsgs, RecordMsgs, StateMsgs, CtrlMsgs
  <2> QED BY <2>1, <2>2, <2>3, <2>4, <2>5, <2>6, <2>7, <2>8, <2>9, <2>10, <2>11
<1> QED BY <1>2, <1>3

-----------------------------------------------------------------------------
\* The invariant, and what follows from it.

LEMMA InitInv == Init => IInv
<1> SUFFICES ASSUME Init PROVE IInv
  OBVIOUS
<1>1. /\ pc = "calls" /\ todo = StartCalls /\ after = "started" /\ mailbox = <<>>
      /\ control = "idle" /\ verifier = TRUE /\ failure = "none" /\ result = "none"
      /\ loop = [handshake_done |-> FALSE, client_closed |-> FALSE, server_closed |-> FALSE,
                 reading |-> TRUE, receiving |-> FALSE]
      /\ client = [phase |-> "hello", plaintext |-> <<>>, tls |-> <<>>]
      /\ conn = [tx |-> <<>>, written |-> 0, tx_closed |-> FALSE, rx |-> <<>>, read |-> <<>>, dropped |-> FALSE]
      /\ socket = [in |-> <<>>, out |-> <<>>, server |-> "open", sent |-> <<>>, bad |-> 0]
  BY DEF Init
<1>2. /\ leader.state = "Handshake" /\ leader.fields = {} /\ leader.started = FALSE
      /\ leader.encrypt = <<>> /\ leader.encrypted = <<>> /\ leader.decrypt = <<>> /\ leader.decrypted = <<>>
      /\ leader.sent = <<>> /\ leader.recv = <<>>
      /\ leader = [state |-> "Handshake", fields |-> {}, is_decrypting |-> ~DeferFromStart, ready |-> FALSE,
                   started |-> FALSE, encrypt |-> <<>>, encrypted |-> <<>>, decrypt |-> <<>>,
                   decrypted |-> <<>>, sent |-> <<>>, recv |-> <<>>]
  BY DEF Init
<1>3. todo \in Seq(Calling) /\ Ordered(todo) /\ todo # <<>> /\ Only(StartMsgs, todo)
  BY <1>1, StartPlan
<1>4. Head(todo).op \in StartMsgs
  <2>1. Head(todo) = todo[1] /\ 1 \in DOMAIN todo
    BY <1>3
  <2> QED BY <1>3, <2>1 DEF Only
<1>5. \A ops : ops \intersect StartMsgs = {} => ~First(ops) /\ ~Within(ops, todo)
  BY <1>3, <1>4 DEF First, Only, Within
<1>6. ~InFlight
  BY <1>1, <1>5 DEF InFlight, FlightMsgs, StartMsgs
<1>7. /\ ~Within({"PushIncoming"}, todo) /\ ~Within({"PushOutgoing"}, todo) /\ ~Within({"Flush"}, todo)
      /\ ~Within({"ServerClosed"}, todo)
  BY <1>5 DEF StartMsgs
<1>8. /\ DataOf(Incoming(todo)) = <<>> /\ DataOf(Outgoing(todo)) = <<>> /\ NoData(Outgoing(todo))
      /\ ~Has("Finished", Incoming(todo)) /\ ~Has("Bad", Incoming(todo)) /\ Lone(Incoming(todo))
  BY <1>3, <1>7, NothingPushed
<1>9. \A typ : ~Has(typ, <<>>)
  BY HasEmpty
<1>10. TypeOK
  <2>1. leader \in Leaders
    <3>1. PICK b : b = ~DeferFromStart
      OBVIOUS
    <3>2. b \in BOOLEAN
      BY <3>1, SessionAssumption, Zenon
    <3>3. <<>> \in Seq(Record)
      OBVIOUS
    <3>4. leader = [state |-> "Handshake", fields |-> {}, is_decrypting |-> b, ready |-> FALSE,
                    started |-> FALSE, encrypt |-> <<>>, encrypted |-> <<>>, decrypt |-> <<>>,
                    decrypted |-> <<>>, sent |-> <<>>, recv |-> <<>>]
      BY <1>2, <3>1
    <3> QED BY <3>2, <3>3, <3>4 DEF Leaders
  <2>2. /\ client \in [phase : {"hello", "traffic", "error"}, plaintext : Seq(Record), tls : Seq(Record)]
        /\ conn \in [tx : Seq(Record), written : Nat, tx_closed : BOOLEAN, rx : Seq(Record), read : Seq(Record),
                     dropped : BOOLEAN]
        /\ socket \in [in : Seq(Record), out : Seq(Record), server : {"open", "closed"}, sent : Seq(Record), bad : Nat]
    BY <1>1
  <2>3. loop \in [handshake_done : BOOLEAN, client_closed : BOOLEAN, server_closed : BOOLEAN,
                  reading : BOOLEAN, receiving : BOOLEAN]
    BY <1>1
  <2> QED BY <1>1, <1>3, <2>1, <2>2, <2>3 DEF TypeOK, Leaders
<1>11. FlightSteps
  <2>1. /\ ~First({"SetCipherSuite"}) /\ ~First({"SetServerRandom"}) /\ ~First({"SetServerCertDetails"})
        /\ ~First({"SetServerKeyShare"}) /\ ~First({"PrepareEncryption"}) /\ ~First({"GetClientFinishedVd"})
    BY <1>5 DEF StartMsgs
  <2> QED BY <1>1, <1>2, <1>3, <1>6, <2>1 DEF FlightSteps
<1>12. RecordSteps
  <2>1. /\ ~First({"PushIncoming"}) /\ ~First({"PushOutgoing"}) /\ ~First({"GetServerFinishedVd", "StartTraffic"})
        /\ ~First({"NextIncoming", "NextOutgoing", "GetServerFinishedVd", "StartTraffic", "ServerClosed"})
        /\ ~First({"NextOutgoing", "ServerClosed"}) /\ ~First({"ServerClosed"}) /\ ~First({"IsEmpty"})
        /\ ~First({"Refused"})
    BY <1>5 DEF StartMsgs
  <2> QED BY <1>1, <1>3, <1>7, <2>1 DEF RecordSteps
<1>13. Control
  <2>1. ~First({"IsEmpty"})
    BY <1>5 DEF StartMsgs
  <2> QED BY <1>1, <2>1 DEF Control
<1>14. Mail
  BY <1>1 DEF Mail, Own
<1>15. ByState
  BY <1>1, <1>2, <1>6, <1>9 DEF ByState
<1>16. OnTheWay
  BY <1>1, <1>2, <1>7, <1>8, <1>9 DEF OnTheWay, Lone
<1>17. Flags
  BY <1>1, <1>2, <1>8, <1>9 DEF Flags, NoData
<1>18. Flow
  <2>1. <<>> \o <<>> = <<>> /\ DataOf(<<>>) = <<>>
    BY DataEmpty, ConcatEmptySeq, EmptySeq
  <2>2. Numbers(0) = <<>>
    BY DEF Numbers
  <2>3. conn.tx = <<>> /\ conn.rx = <<>> /\ conn.read = <<>> /\ conn.written = 0 /\ client.plaintext = <<>>
        /\ client.tls = <<>> /\ socket.in = <<>> /\ socket.out = <<>> /\ socket.sent = <<>>
    BY <1>1
  <2>4. ReadFlow
    BY <1>2, <2>1, <2>3 DEF ReadFlow
  <2>5. InFlow
    BY <1>2, <1>8, <2>1, <2>3 DEF InFlow
  <2>6. OutFlow
    BY <1>2, <2>1, <2>3 DEF OutFlow
  <2>7. WriteFlow
    BY <1>2, <1>8, <2>1, <2>2, <2>3 DEF WriteFlow
  <2> QED BY <2>3, <2>4, <2>5, <2>6, <2>7 DEF Flow
<1>19. FailureHasCause /\ TranscriptIsConversation
  BY <1>1 DEF FailureHasCause, TranscriptIsConversation
<1> QED BY <1>1, <1>3, <1>10, <1>11, <1>12, <1>13, <1>14, <1>15, <1>16, <1>17, <1>18, <1>19 DEF IInv, Running

\* Only the actor that stops makes the future end well.
LEMMA ResultKept ==
  ASSUME TypeOK, Running, Next, ~stopped
  PROVE  result' = result \/ result' = "Err"
<1>1. CASE send \/ answered \/ nothing_to_write \/ send_close_notify \/ forward \/ check
  BY <1>1 DEF send, answered, nothing_to_write, send_close_notify, forward, check
<1>2. CASE refuse \/ write_tls \/ read_end
  BY <1>2 DEF refuse, write_tls, read_end, Fails
<1>3. CASE read_tls \/ receive \/ notified \/ connection_ends \/ defer_decryption
  BY <1>3 DEF read_tls, receive, notified, connection_ends, defer_decryption
<1>4. CASE handle
  <2>1. PICK m \in Calling : IF dispatch(m).ok THEN Replied(m, dispatch(m).value) ELSE CallFails(m)
    BY <1>4, Dispatched
  <2>2. CASE dispatch(m).ok
    BY <2>1, <2>2 DEF Replied
  <2>3. CASE ~dispatch(m).ok
    BY <2>1, <2>3 DEF CallFails, Fails
  <2> QED BY <2>2, <2>3
<1>5. CASE poll_read \/ Environment
  BY <1>5 DEF poll_read, Environment, poll_write, poll_close, drop, server_sends, server_closes, defer_called, verifier_lost
<1> QED BY <1>1, <1>2, <1>3, <1>4, <1>5 DEF Next, Loop, Actor

\* Once there is a result the application only reads what has arrived.
LEMMA EndedKeeps ==
  ASSUME TypeOK, FailureHasCause, TranscriptIsConversation, ~Live, Next
  PROVE  TypeOK' /\ FailureHasCause' /\ TranscriptIsConversation' /\ ~Live'
<1>1. poll_read
  BY DEF Next, Loop, Actor, Environment, send, refuse, answered, write_tls, nothing_to_write, send_close_notify,
         forward, check, read_tls, read_end, receive, notified, connection_ends, handle, defer_decryption, stopped,
         poll_write, poll_close, drop, server_sends, server_closes, defer_called, verifier_lost
<1>2. /\ conn.rx # <<>> /\ conn' = [conn EXCEPT !.rx = Tail(@), !.read = Append(@, Head(conn.rx))]
      /\ UNCHANGED <<pc, todo, after, loop, client, mailbox, leader, socket, control, verifier, failure, result>>
  BY <1>1 DEF poll_read, loopVars
<1>3. PICK h, t : h = Head(conn.rx) /\ t = Tail(conn.rx)
  OBVIOUS
<1>4. h \in Record /\ t \in Seq(Record) /\ conn.rx = <<h>> \o t /\ conn.read \in Seq(Record)
  <2>1. conn.rx \in Seq(Record)
    BY DEF TypeOK
  <2>2. conn.read \in Seq(Record)
    BY DEF TypeOK
  <2> QED BY <1>2, <1>3, <2>1, <2>2, HeadTailProperties
<1>5. PICK x : x = Append(conn.read, h)
  OBVIOUS
<1>6. x \in Seq(Record) /\ x = conn.read \o <<h>>
  BY <1>4, <1>5, AppendProperties, AppendIsConcat
<1>7. conn' = [tx |-> conn.tx, written |-> conn.written, tx_closed |-> conn.tx_closed, rx |-> t, read |-> x,
               dropped |-> conn.dropped]
  <2>1. conn = [tx |-> conn.tx, written |-> conn.written, tx_closed |-> conn.tx_closed, rx |-> conn.rx,
                read |-> conn.read, dropped |-> conn.dropped]
    BY DEF TypeOK
  <2> QED BY <1>2, <1>3, <1>5, <2>1
<1>8. TypeOK'
  <2>1. conn' \in [tx : Seq(Record), written : Nat, tx_closed : BOOLEAN, rx : Seq(Record), read : Seq(Record),
                   dropped : BOOLEAN]
    BY <1>4, <1>6, <1>7 DEF TypeOK
  <2> QED BY <1>2, <2>1 DEF TypeOK
<1>9. x \o t = conn.read \o conn.rx
  <2>1. <<h>> \in Seq(Record)
    BY <1>4
  <2>2. conn.read \in Seq(Record)
    BY <1>4
  <2>3. t \in Seq(Record)
    BY <1>4
  <2>4. (conn.read \o <<h>>) \o t = conn.read \o (<<h>> \o t)
    BY <2>1, <2>2, <2>3, Associative, Zenon
  <2> QED BY <1>4, <1>6, <2>4
<1>10. FailureHasCause'
  BY <1>2 DEF FailureHasCause, Sees
<1>11. TranscriptIsConversation'
  BY <1>2, <1>7, <1>9 DEF TranscriptIsConversation
<1> QED BY <1>2, <1>8, <1>10, <1>11 DEF Live

LEMMA RunningStep ==
  ASSUME TypeOK, Running, Live, Next
  PROVE  /\ TypeOK'
         /\ \/ Running' /\ (Live' \/ result' = "Err")
            \/ FailureHasCause' /\ TranscriptIsConversation' /\ ~Live'
<1>1. CASE stopped
  BY <1>1, StoppedKeeps DEF Live
<1>2. CASE ~stopped
  <2>1. Live' \/ result' = "Err"
    BY <1>2, ResultKept DEF Live
  <2>2. result' = "Err" => TranscriptIsConversation' /\ ~Live'
    BY DEF TranscriptIsConversation, Live
  <2>3. TypeOK' /\ (Running' \/ (FailureHasCause' /\ result' = "Err"))
    <3>1. CASE Loop
      BY <3>1, SendKeeps, RefuseKeeps, AnsweredKeeps, WriteKeeps, NothingToWriteKeeps, CloseNotifyKeeps,
         ForwardKeeps, CheckKeeps, ReadKeeps, ReadEndKeeps, ReceiveKeeps, NotifiedKeeps, EndsKeeps DEF Loop
    <3>2. CASE Actor
      BY <1>2, <3>2, HandleKeeps, DeferKeeps DEF Actor
    <3>3. CASE poll_read \/ Environment
      BY <3>3, ApplicationKeeps, OutsideKeeps, ServerSendsKeeps DEF Environment
    <3> QED BY <3>1, <3>2, <3>3 DEF Next
  <2> QED BY <2>1, <2>2, <2>3
<1> QED BY <1>1, <1>2

LEMMA StepInv == IInv /\ [Next]_vars => IInv'
<1> SUFFICES ASSUME IInv, [Next]_vars PROVE IInv'
  OBVIOUS
<1>1. CASE Next /\ Live
  <2>1. TypeOK /\ Running
    BY <1>1 DEF IInv
  <2>2. Running' => FailureHasCause'
    BY DEF Running, FailureHasCause
  <2>3. (Live' \/ result' = "Err") => TranscriptIsConversation'
    BY DEF Live, TranscriptIsConversation
  <2> QED BY <1>1, <2>1, <2>2, <2>3, RunningStep DEF IInv
<1>2. CASE Next /\ ~Live
  BY <1>2, EndedKeeps DEF IInv
<1>3. CASE UNCHANGED vars
  <2>1. UNCHANGED <<pc, todo, after, loop, client, mailbox, leader, conn, socket, control, verifier, failure, result>>
    BY <1>3 DEF vars
  <2>2. TypeOK'
    BY <2>1 DEF IInv, TypeOK
  <2>3. FailureHasCause' /\ TranscriptIsConversation'
    BY <2>1 DEF IInv, FailureHasCause, TranscriptIsConversation, Sees
  <2>4. Live' => Running'
    <3>1. SUFFICES ASSUME Live PROVE Running'
      BY <2>1 DEF Live
    <3>2. Running
      BY <3>1 DEF IInv
    <3>3. /\ Ordered(todo)' /\ FlightSteps' /\ RecordSteps' /\ ByState' /\ OnTheWay' /\ Flags' /\ InFlow' /\ OutFlow'
      BY <2>1, <3>2, RestKept
    <3>4. Control' /\ Mail' /\ Flow'
      BY <2>1, <3>2, <3>3 DEF Running, Control, Delivered, First, Mail, Own, Flow, ReadFlow, WriteFlow
    <3> QED BY <2>1, <3>2, <3>3, <3>4 DEF Running
  <2> QED BY <2>2, <2>3, <2>4 DEF IInv
<1> QED BY <1>1, <1>2, <1>3

\* The invariant holds in every reachable state.
LEMMA Invariance == Spec => []IInv
BY InitInv, StepInv, PTL DEF Spec

(***************************************************************************)
(* Every variable keeps its type: in particular the leader, for each call  *)
(* the loop makes is one the actor has a handler for (actor.rs 88).        *)
(***************************************************************************)
THEOREM TypeCorrect == Spec => []TypeOK
<1>1. IInv => TypeOK
  BY DEF IInv
<1> QED BY <1>1, Invariance, PTL

(***************************************************************************)
(* The future of a session fails only for a reason outside of the prover:  *)
(* whatever the interleaving of the loop, the actor, the notifier, the     *)
(* application and the control handles, no call of the loop meets the      *)
(* leader in a state in which its handler answers with an error (lib.rs    *)
(* 115-242, leader.rs 274, 791, actor.rs 88), but for data written after   *)
(* the leader has closed and the end of the stream before the handshake.   *)
(***************************************************************************)
THEOREM FailuresHaveCauses == Spec => []FailureHasCause
<1>1. IInv => FailureHasCause
  BY DEF IInv
<1> QED BY <1>1, Invariance, PTL

(***************************************************************************)
(* When the prover's future ends well the transcript the leader committed  *)
(* to is the conversation: all data of the server and of the application,  *)
(* in order, none of it lost between the buffers of the socket, the loop,  *)
(* the client, the record layer and the channels (leader.rs 273-311,       *)
(* lib.rs 115-242).                                                        *)
(***************************************************************************)
THEOREM TranscriptMatches == Spec => []TranscriptIsConversation
<1>1. IInv => TranscriptIsConversation
  BY DEF IInv
<1> QED BY <1>1, Invariance, PTL

=============================================================================
