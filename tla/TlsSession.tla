------------------------------ MODULE TlsSession ------------------------------
(***************************************************************************)
(* A TLS session of the prover: the connection loop of                     *)
(* tls/client-async/src/lib.rs, the leader of MPC-TLS as the actor of      *)
(* mpc-tls/src/leader/actor.rs that answers its calls, the notifier of     *)
(* tls/backend/src/notify.rs that wakes the loop, and the future of        *)
(* Prover::connect that joins the two.  Around them the application that   *)
(* holds the TlsConnection, the server, and the holder of a ProverControl. *)
(*                                                                         *)
(* The loop owns the client and makes one call of the backend at a time.   *)
(* todo is the rest of the calls its present branch makes; a call goes     *)
(* through the mailbox of the actor, where messages of the control handles *)
(* may stand before it.  The step in which the actor handles a call is also*)
(* the one in which the loop takes the reply: no one else reads it.        *)
(*                                                                         *)
(* The handshake is the one of TLS 1.2 (TlsClient has all of its checks);  *)
(* here the server's first flight and its Finished are one record each.    *)
(* Records that the client or the tag check refuses have typ "Bad".        *)
(***************************************************************************)
EXTENDS Naturals, Sequences, FiniteSets

CONSTANTS
  DeferFromStart, \* Config.defer_decryption
  VerifierLost,   \* whether the connection to the verifier may break
  ChannelSize,    \* capacity of the two channels of the TlsConnection, 1 << 14
  MaxSent,        \* bound: chunks the application writes
  MaxReceived,    \* bound: records of data the server sends
  MaxBad          \* bound: records of the server that are refused

ASSUME SessionAssumption ==
  /\ {DeferFromStart, VerifierLost} \subseteq BOOLEAN
  /\ {MaxSent, MaxReceived, MaxBad} \subseteq Nat /\ ChannelSize \in Nat \ {0}

VARIABLES
  pc,       \* where the loop is
  todo,     \* calls of the backend the present branch still makes
  after,    \* what the branch does when they are answered
  loop,     \* locals of the loop
  client,   \* ClientConnection: handshake, plaintext received, TLS to be sent
  mailbox,  \* messages to the actor
  leader,   \* MpcTlsLeader with the buffers of its record layer
  conn,     \* TlsConnection: the two channels and what the application has read
  socket,   \* records from and to the server
  control,  \* "idle", "called" or "answered": ProverControl.defer_decryption
  verifier, \* whether the verifier can be reached
  failure,  \* what made the connection future fail
  result    \* result of the prover's future

vars == <<pc, todo, after, loop, client, mailbox, leader, conn, socket, control, verifier, failure, result>>
loopVars == <<pc, todo, after, loop, client>>
envVars == <<conn, socket, control, verifier>>

Rec(typ, n) == [typ |-> typ, n |-> n]
Data(n) == Rec("ApplicationData", n)
IsData(r) == r.typ = "ApplicationData"
DataOf(s) ==
  LET data[n \in 0..Len(s)] ==
        IF n = 0 THEN <<>> ELSE IF IsData(s[n]) THEN Append(data[n - 1], s[n]) ELSE data[n - 1]
  IN data[Len(s)]
NoRec == Rec("none", 0)
Call(op) == [op |-> op, msg |-> NoRec]
Push(op, r) == [op |-> op, msg |-> r]

-----------------------------------------------------------------------------
\* Messages of the actor, and of them the ones the client sends.

HelloMsgs == {"SetProtocolVersion", "SetCipherSuite", "GetSuite", "SetEncrypt", "SetDecrypt",
              "GetClientRandom", "GetClientKeyShare"}
ServerMsgs == {"SetServerRandom", "SetServerKeyShare", "SetServerCertDetails", "SetServerKxDetails"}
HashMsgs == {"SetHsHashClientKeyExchange", "SetHsHashServerHello", "GetServerFinishedVd",
             "GetClientFinishedVd", "PrepareEncryption"}
RecordMsgs == {"PushIncoming", "NextIncoming", "PushOutgoing", "NextOutgoing", "StartTraffic", "Flush"}
StateMsgs == {"GetNotify", "IsEmpty", "ServerClosed"}
CtrlMsgs == {"DeferDecryption", "Stop"}
MpcTlsLeaderMsg == HelloMsgs \union ServerMsgs \union HashMsgs \union RecordMsgs \union StateMsgs \union CtrlMsgs

Calls(ops) == [i \in DOMAIN ops |-> Call(ops[i])]

\* client.start() and client.get_notify() before the loop.
StartCalls == Calls(<<"GetClientKeyShare", "GetClientRandom", "GetNotify">>)
\* The first flight of the server, and the client's answer to it.
FlightCalls ==
  Calls(<<"SetProtocolVersion", "SetCipherSuite", "SetServerRandom", "SetServerCertDetails",
          "GetClientKeyShare", "SetHsHashClientKeyExchange", "SetServerKxDetails",
          "SetServerKeyShare", "PrepareEncryption", "GetClientFinishedVd">>)
  \o <<Push("PushOutgoing", Rec("Finished", 0))>>
FinishedCalls == Calls(<<"GetServerFinishedVd", "StartTraffic">>)

\* process_new_packets on what read_tls has read.  The server's first flight
\* can only be the first of its records.
Pushes(frames) == [i \in DOMAIN frames |-> Push("PushIncoming", frames[i])]
DrainCalls == Calls(<<"Flush", "NextIncoming", "NextOutgoing">>)
process_new_packets(frames) ==
  IF frames # <<>> /\ Head(frames).typ = "Hello"
  THEN FlightCalls \o (Pushes(Tail(frames)) \o DrainCalls)
  ELSE Pushes(frames) \o DrainCalls

write_all_plaintext(r) == <<Push("PushOutgoing", r), Call("Flush"), Call("NextOutgoing")>>

Init ==
  /\ pc = "calls" /\ todo = StartCalls /\ after = "started"
  /\ loop = [handshake_done |-> FALSE, client_closed |-> FALSE, server_closed |-> FALSE,
             reading |-> TRUE, receiving |-> FALSE]
  /\ client = [phase |-> "hello", plaintext |-> <<>>, tls |-> <<>>]
  /\ mailbox = <<>>
  /\ leader = [state |-> "Handshake", fields |-> {}, is_decrypting |-> ~DeferFromStart, ready |-> FALSE,
               started |-> FALSE, encrypt |-> <<>>, encrypted |-> <<>>, decrypt |-> <<>>,
               decrypted |-> <<>>, sent |-> <<>>, recv |-> <<>>]
  /\ conn = [tx |-> <<>>, written |-> 0, tx_closed |-> FALSE, rx |-> <<>>, read |-> <<>>, dropped |-> FALSE]
  /\ socket = [in |-> <<>>, out |-> <<>>, server |-> "open", sent |-> <<>>, bad |-> 0]
  /\ control = "idle" /\ verifier = TRUE /\ failure = "none" /\ result = "none"

-----------------------------------------------------------------------------
\* The actor: what the leader does with a message.  Each handler gives the
\* leader after it, whether it answers with an error, and what it returns.

Answer(l, ok, value) == [leader |-> l, ok |-> ok, value |-> value]
Ok(l) == Answer(l, TRUE, NoRec)
Err(l) == Answer(l, FALSE, NoRec)
When(condition, l) == IF condition THEN Ok(l) ELSE Err(leader)

\* get_suite, set_encrypt and set_decrypt are unimplemented!().
HandleHello(op) ==
  IF op \in {"GetSuite", "SetEncrypt", "SetDecrypt"} THEN Err([leader EXCEPT !.state = "Panicked"])
  ELSE When(leader.state = "Handshake", [leader EXCEPT !.fields = @ \union {op}])

\* The first two also tell the follower.
HandleServer(op) ==
  When(/\ leader.state = "Handshake"
       /\ op \in {"SetServerRandom", "SetServerKeyShare"} => verifier,
       [leader EXCEPT !.fields = @ \union {op}])

prepare_encryption ==
  IF /\ leader.state = "Handshake" /\ verifier
     /\ ServerMsgs \union {"SetProtocolVersion", "SetCipherSuite"} \subseteq leader.fields
  THEN Ok([leader EXCEPT !.state = "Active"])
  ELSE Err([leader EXCEPT !.state = "Error"])

HandleHash(op) ==
  CASE op \in {"SetHsHashClientKeyExchange", "SetHsHashServerHello"} -> Ok(leader)
    [] op \in {"GetServerFinishedVd", "GetClientFinishedVd"} -> When(leader.state = "Active" /\ verifier, leader)
    [] op = "PrepareEncryption" -> prepare_encryption

\* next_decrypted and next_encrypted hold application data back until start_traffic.
Blocked(q) == q = <<>> \/ (IsData(Head(q)) /\ ~leader.started)
Open == leader.state \in {"Handshake", "Active", "Closed"}
next_incoming ==
  CASE ~Open -> Err(leader)
    [] Open /\ Blocked(leader.decrypted) -> Ok(leader)
    [] Open /\ ~Blocked(leader.decrypted) ->
         Answer([leader EXCEPT !.decrypted = Tail(@)], TRUE, Head(leader.decrypted))
next_outgoing ==
  CASE ~Open -> Err(leader)
    [] Open /\ Blocked(leader.encrypted) -> Ok(leader)
    [] Open /\ ~Blocked(leader.encrypted) ->
         Answer([leader EXCEPT !.encrypted = Tail(@)], TRUE, Head(leader.encrypted))

\* Without is_decrypting only what stands before the first application data.
Decryptable ==
  LET q == leader.decrypt
      held == {i \in DOMAIN q : IsData(q[i]) /\ ~leader.is_decrypting}
  IN CHOOSE n \in 0..Len(q) : (\A i \in 1..n : i \notin held) /\ (n < Len(q) => n + 1 \in held)
Genuine(q) == \A i \in DOMAIN q : q[i].typ # "Bad"

Flushed(n) ==
  [leader EXCEPT !.encrypt = <<>>, !.encrypted = @ \o leader.encrypt, !.sent = @ \o leader.encrypt,
                 !.decrypt = SubSeq(@, n + 1, Len(@)), !.decrypted = @ \o SubSeq(leader.decrypt, 1, n),
                 !.recv = @ \o SubSeq(leader.decrypt, 1, n)]

flush ==
  CASE leader.state = "Handshake" -> Ok(leader)
    [] leader.state \in {"Active", "Closed"} ->
         IF leader.encrypt = <<>> /\ leader.decrypt = <<>> THEN Ok(leader)
         ELSE When(verifier /\ leader.state = "Active" /\ Genuine(SubSeq(leader.decrypt, 1, Decryptable)),
                   Flushed(Decryptable))
    [] OTHER -> Err(leader)

Pushable == leader.state \in {"Handshake", "Active"} /\ verifier
HandleRecord(op, r) ==
  CASE op = "PushIncoming" -> When(Pushable, [leader EXCEPT !.decrypt = Append(@, r)])
    [] op = "PushOutgoing" -> When(Pushable, [leader EXCEPT !.encrypt = Append(@, r)])
    [] op = "NextIncoming" -> next_incoming
    [] op = "NextOutgoing" -> next_outgoing
    [] op = "StartTraffic" -> When(leader.state = "Active" /\ verifier, [leader EXCEPT !.started = TRUE])
    [] op = "Flush" -> flush

\* A variant that forgets what is decrypted.
is_empty_Encrypted ==
  leader.state \in {"Active", "Closed"} =>
    leader.encrypt = <<>> /\ leader.decrypt = <<>> /\ leader.encrypted = <<>>
is_empty ==
  leader.state \in {"Active", "Closed"} =>
    leader.encrypt = <<>> /\ leader.decrypt = <<>> /\ leader.encrypted = <<>> /\ leader.decrypted = <<>>

\* The notifier is set when records are left for the client; not so in the variant.
close_connection_Silent ==
  IF leader.state = "Active" /\ verifier /\ leader.encrypt = <<>> /\ Genuine(leader.decrypt)
  THEN Ok([Flushed(Len(leader.decrypt)) EXCEPT !.state = "Closed"])
  ELSE Err([leader EXCEPT !.state = "Error"])
close_connection ==
  IF leader.state = "Active" /\ verifier /\ leader.encrypt = <<>> /\ Genuine(leader.decrypt)
  THEN LET l == Flushed(Len(leader.decrypt))
       IN Ok([l EXCEPT !.state = "Closed", !.ready = @ \/ l.encrypted # <<>> \/ l.decrypted # <<>>])
  ELSE Err([leader EXCEPT !.state = "Error"])

HandleState(op) ==
  CASE op = "GetNotify" -> Ok(leader)
    [] op = "IsEmpty" -> Answer(leader, TRUE, Rec(IF is_empty THEN "true" ELSE "false", 0))
    [] op = "ServerClosed" -> close_connection

dispatch(m) ==
  CASE m.op \in HelloMsgs -> HandleHello(m.op)
    [] m.op \in ServerMsgs -> HandleServer(m.op)
    [] m.op \in HashMsgs -> HandleHash(m.op)
    [] m.op \in RecordMsgs -> HandleRecord(m.op, m.msg)
    [] m.op \in StateMsgs -> HandleState(m.op)

-----------------------------------------------------------------------------
\* The loop, which is dropped with the future once that has a result.

Live == result = "none"

\* `?' in the loop: the future of the connection ends, try_join ends with it.
Fails(cause) ==
  /\ pc' = "ended" /\ failure' = cause /\ result' = "Err"
  /\ UNCHANGED <<todo, after, loop, client>>

\* send_close_notify has its error only logged; a process_new_packets that
\* fails leaves an Err in the place of the client's state.
CallFails(m) ==
  IF after = "closing"
  THEN /\ pc' = "write" /\ todo' = <<>> /\ after' = "none"
       /\ loop' = [loop EXCEPT !.client_closed = TRUE, !.receiving = FALSE]
       /\ client' = [client EXCEPT !.phase = IF m.op = "PushOutgoing" THEN @ ELSE "error"]
       /\ UNCHANGED <<failure, result>>
  ELSE Fails(m.op)

Replied(m, r) ==
  /\ pc' = "calls"
  /\ todo' = CASE m.op = "NextIncoming" /\ r # NoRec -> (IF r.typ = "Finished" THEN FinishedCalls ELSE <<>>) \o todo
               [] m.op = "NextOutgoing" /\ r # NoRec -> todo
               [] OTHER -> Tail(todo)
  /\ after' = CASE m.op = "IsEmpty" -> (IF r.typ = "true" THEN "break" ELSE "select")
                [] OTHER -> after
  /\ client' = CASE m.op = "NextIncoming" /\ IsData(r) -> [client EXCEPT !.plaintext = Append(@, r)]
                 [] m.op = "NextOutgoing" /\ r # NoRec -> [client EXCEPT !.tls = Append(@, r)]
                 [] m.op = "StartTraffic" -> [client EXCEPT !.phase = "traffic"]
                 [] OTHER -> client
  /\ UNCHANGED <<loop, failure, result>>

\* address.send(..) of the loop: the message is queued and its reply awaited.
send ==
  /\ Live /\ pc = "calls" /\ todo # <<>> /\ Head(todo).op # "Refused"
  /\ mailbox' = Append(mailbox, Head(todo)) /\ pc' = "asked"
  /\ UNCHANGED <<todo, after, loop, client, leader, envVars, failure, result>>

\* The client itself returns the error.
refuse ==
  /\ Live /\ pc = "calls" /\ todo # <<>> /\ Head(todo).op = "Refused"
  /\ Fails("client") /\ UNCHANGED <<mailbox, leader, envVars>>

\* ludi::run takes the messages in their order.
handle ==
  /\ Live /\ mailbox # <<>> /\ Head(mailbox).op \notin CtrlMsgs
  /\ mailbox' = Tail(mailbox)
  /\ LET m == Head(mailbox) IN LET a == dispatch(m) IN
       /\ leader' = a.leader
       /\ IF a.ok THEN Replied(m, a.value) ELSE CallFails(m)
  /\ UNCHANGED envVars

defer_decryption ==
  /\ Live /\ mailbox # <<>> /\ Head(mailbox).op = "DeferDecryption"
  /\ mailbox' = Tail(mailbox)
  /\ leader' = [leader EXCEPT !.is_decrypting = FALSE, !.ready = FALSE]
  /\ control' = "answered"
  /\ UNCHANGED <<loopVars, conn, socket, verifier, failure, result>>

\* The actor stops; stopped() wants it closed, and the join is complete.
stopped ==
  /\ Live /\ mailbox # <<>> /\ Head(mailbox).op = "Stop"
  /\ mailbox' = Tail(mailbox)
  /\ result' = IF leader.state = "Closed" THEN "Ok" ELSE "Err"
  /\ failure' = IF leader.state = "Closed" THEN "none" ELSE "Stop"
  /\ UNCHANGED <<loopVars, leader, envVars>>

\* The end of a branch of the loop.
answered ==
  /\ Live /\ pc = "calls" /\ todo = <<>> /\ after \notin {"closing", "break"}
  /\ pc' = IF after = "select" THEN "select" ELSE "write"
  /\ client' = IF after = "started" THEN [client EXCEPT !.tls = Append(@, Rec("ClientHello", 0))] ELSE client
  /\ after' = "none"
  /\ UNCHANGED <<todo, loop, mailbox, leader, envVars, failure, result>>

\* write_tls_async: a server that has closed may make it fail.
Written == [socket EXCEPT !.out = @ \o client.tls]
write_tls ==
  /\ Live /\ pc = "write" /\ client.tls # <<>> /\ ~loop.client_closed
  /\ \/ /\ pc' = "forward" /\ socket' = Written /\ client' = [client EXCEPT !.tls = <<>>]
        /\ UNCHANGED <<todo, after, loop, failure, result>>
     \/ socket.server # "open" /\ Fails("write") /\ UNCHANGED socket
  /\ UNCHANGED <<mailbox, leader, conn, control, verifier>>
nothing_to_write ==
  /\ Live /\ pc = "write" /\ (client.tls = <<>> \/ loop.client_closed)
  /\ pc' = "forward"
  /\ UNCHANGED <<todo, after, loop, client, mailbox, leader, envVars, failure, result>>

\* send_close_notify writes what it has, and its failure is only logged.
send_close_notify ==
  /\ Live /\ pc = "calls" /\ todo = <<>> /\ after = "closing"
  /\ \/ socket' = Written /\ client' = [client EXCEPT !.tls = <<>>]
     \/ socket.server # "open" /\ UNCHANGED <<socket, client>>
  /\ loop' = [loop EXCEPT !.client_closed = TRUE, !.receiving = FALSE]
  /\ pc' = "write" /\ after' = "none"
  /\ UNCHANGED <<todo, mailbox, leader, conn, control, verifier, failure, result>>

\* rx_sender.send: waits for room, its failure is ignored.
forward ==
  /\ Live /\ pc = "forward" /\ client.plaintext # <<>>
  /\ conn.dropped \/ Len(conn.rx) < ChannelSize
  /\ client' = [client EXCEPT !.plaintext = Tail(@)]
  /\ conn' = IF conn.dropped THEN conn ELSE [conn EXCEPT !.rx = Append(@, Head(client.plaintext))]
  /\ UNCHANGED <<pc, todo, after, loop, mailbox, leader, socket, control, verifier, failure, result>>

\* tx_receiver is polled from the end of the handshake on; the loop ends when
\* the server has closed and the backend is empty.  The variant never polls it.
check_Unarmed ==
  /\ Live /\ pc = "forward" /\ client.plaintext = <<>>
  /\ loop' = IF client.phase = "traffic" /\ ~loop.handshake_done
             THEN [loop EXCEPT !.handshake_done = TRUE] ELSE loop
  /\ pc' = IF loop.server_closed THEN "calls" ELSE "select"
  /\ todo' = IF loop.server_closed THEN Calls(<<"IsEmpty">>) ELSE todo
  /\ UNCHANGED <<after, client, mailbox, leader, envVars, failure, result>>
check ==
  /\ Live /\ pc = "forward" /\ client.plaintext = <<>>
  /\ loop' = IF client.phase = "traffic" /\ ~loop.handshake_done
             THEN [loop EXCEPT !.handshake_done = TRUE, !.receiving = TRUE] ELSE loop
  /\ pc' = IF loop.server_closed THEN "calls" ELSE "select"
  /\ todo' = IF loop.server_closed THEN Calls(<<"IsEmpty">>) ELSE todo
  /\ UNCHANGED <<after, client, mailbox, leader, envVars, failure, result>>

ReadReady == loop.reading /\ (socket.in # <<>> \/ socket.server # "open")
ReceiveReady == loop.receiving /\ (conn.tx # <<>> \/ conn.tx_closed)

\* A call of process_new_packets: the client refuses if it has failed before,
\* or at a record that is wrong before there is a backend to push it to.
Processing(frames) ==
  IF client.phase = "error" \/ \E i \in DOMAIN frames : frames[i].typ = "Bad" /\ leader.state = "Handshake"
  THEN Calls(<<"Refused">>) ELSE process_new_packets(frames)

read_tls ==
  /\ Live /\ pc = "select" /\ ReadReady /\ socket.in # <<>>
  /\ \E n \in 1..Len(socket.in) :
       /\ todo' = Processing(SubSeq(socket.in, 1, n))
       /\ socket' = [socket EXCEPT !.in = SubSeq(@, n + 1, Len(@))]
  /\ pc' = "calls" /\ after' = "packets"
  /\ UNCHANGED <<loop, client, mailbox, leader, conn, control, verifier, failure, result>>

\* A variant goes on reading after the end of the stream.
read_end_Again ==
  /\ Live /\ pc = "select" /\ ReadReady /\ socket.in = <<>>
  /\ \/ Fails("read")
     \/ /\ todo' = Processing(<<>>) \o Calls(<<"ServerClosed">>)
          /\ loop' = [loop EXCEPT !.server_closed = TRUE]
          /\ pc' = "calls" /\ after' = "packets"
          /\ UNCHANGED <<client, failure, result>>
  /\ UNCHANGED <<mailbox, leader, envVars>>
read_end ==
  /\ Live /\ pc = "select" /\ ReadReady /\ socket.in = <<>>
  /\ \/ Fails("read")
     \/ /\ todo' = Processing(<<>>) \o Calls(<<"ServerClosed">>)
          /\ loop' = [loop EXCEPT !.server_closed = TRUE, !.reading = FALSE]
          /\ pc' = "calls" /\ after' = "packets"
          /\ UNCHANGED <<client, failure, result>>
  /\ UNCHANGED <<mailbox, leader, envVars>>

receive ==
  /\ Live /\ pc = "select" /\ ~ReadReady /\ ReceiveReady
  /\ \/ /\ conn.tx # <<>>
        /\ todo' = write_all_plaintext(Head(conn.tx)) /\ after' = "packets" /\ pc' = "calls"
        /\ conn' = [conn EXCEPT !.tx = Tail(@)] /\ UNCHANGED loop
     \/ /\ conn.tx = <<>> /\ ~loop.server_closed
        /\ todo' = <<Push("PushOutgoing", Rec("close_notify", 0))>> \o Processing(<<>>)
        /\ after' = "closing" /\ pc' = "calls" /\ UNCHANGED <<conn, loop>>
     \/ /\ conn.tx = <<>> /\ loop.server_closed
        /\ loop' = [loop EXCEPT !.client_closed = TRUE, !.receiving = FALSE]
        /\ pc' = "write" /\ UNCHANGED <<todo, after, conn>>
  /\ UNCHANGED <<client, mailbox, leader, socket, control, verifier, failure, result>>

\* The notification stays ready once it is set.
notified ==
  /\ Live /\ pc = "select" /\ ~ReadReady /\ ~ReceiveReady /\ leader.ready
  /\ todo' = Processing(<<>>) /\ after' = "packets" /\ pc' = "calls"
  /\ UNCHANGED <<loop, client, mailbox, leader, envVars, failure, result>>

\* break 'conn, and mpc_ctrl.stop() of the prover's future.
connection_ends ==
  /\ Live /\ pc = "calls" /\ todo = <<>> /\ after = "break"
  /\ pc' = "ended" /\ mailbox' = Append(mailbox, Call("Stop"))
  /\ UNCHANGED <<todo, after, loop, client, leader, envVars, failure, result>>

Loop ==
  \/ send \/ refuse \/ answered \/ write_tls \/ nothing_to_write \/ send_close_notify \/ forward
  \/ check \/ read_tls \/ read_end \/ receive \/ notified \/ connection_ends
Actor == handle \/ defer_decryption \/ stopped

-----------------------------------------------------------------------------
\* The holder of the TlsConnection, which ends when the loop does.

poll_write ==
  /\ Live /\ pc # "ended" /\ ~conn.tx_closed /\ conn.written < MaxSent /\ Len(conn.tx) < ChannelSize
  /\ conn' = [conn EXCEPT !.tx = Append(@, Data(conn.written + 1)), !.written = @ + 1]
  /\ UNCHANGED <<loopVars, mailbox, leader, socket, control, verifier, failure, result>>
poll_close ==
  /\ Live /\ ~conn.tx_closed /\ conn' = [conn EXCEPT !.tx_closed = TRUE]
  /\ UNCHANGED <<loopVars, mailbox, leader, socket, control, verifier, failure, result>>
drop ==
  /\ Live /\ ~conn.dropped /\ conn' = [conn EXCEPT !.tx_closed = TRUE, !.dropped = TRUE, !.rx = <<>>]
  /\ UNCHANGED <<loopVars, mailbox, leader, socket, control, verifier, failure, result>>
poll_read ==
  /\ conn.rx # <<>>
  /\ conn' = [conn EXCEPT !.rx = Tail(@), !.read = Append(@, Head(conn.rx))]
  /\ UNCHANGED <<loopVars, mailbox, leader, socket, control, verifier, failure, result>>

\* The server: the order of its records is the one of an honest server, which
\* may stop, close or reset the connection at any time: the loop then reads the
\* end of the stream or an error.
Sees(typ) == \E i \in DOMAIN socket.out : socket.out[i].typ = typ
Stage == Len(socket.sent)
NextRecord ==
  CASE Stage = 0 -> Rec("Hello", 0)
    [] Stage = 1 -> Rec("Finished", 0)
    [] Stage \in 2..(MaxReceived + 1) -> Data(Stage - 1)
    [] OTHER -> Rec("close_notify", 0)
server_sends ==
  /\ Live /\ socket.server = "open" /\ socket.bad = 0 /\ Stage <= MaxReceived + 2
  /\ Stage = 0 => Sees("ClientHello")
  /\ Stage = 1 => Sees("Finished")
  /\ \/ \E r \in {NextRecord} \union (IF Stage > 1 THEN {Rec("close_notify", 0)} ELSE {}) :
          /\ Stage > 0 => socket.sent[Stage].typ # "close_notify"
          /\ socket' = [socket EXCEPT !.in = Append(@, r), !.sent = Append(@, r)]
     \/ /\ socket.bad < MaxBad
        /\ socket' = [socket EXCEPT !.in = Append(@, Rec("Bad", 0)), !.bad = @ + 1]
  /\ UNCHANGED <<loopVars, mailbox, leader, conn, control, verifier, failure, result>>
server_closes ==
  /\ Live /\ socket.server = "open" /\ socket' = [socket EXCEPT !.server = "closed"]
  /\ UNCHANGED <<loopVars, mailbox, leader, conn, control, verifier, failure, result>>
\* ProverControl.defer_decryption, at most once.
defer_called ==
  /\ Live /\ control = "idle"
  /\ mailbox' = Append(mailbox, Call("DeferDecryption")) /\ control' = "called"
  /\ UNCHANGED <<loopVars, leader, conn, socket, verifier, failure, result>>

verifier_lost ==
  /\ Live /\ VerifierLost /\ verifier /\ verifier' = FALSE
  /\ UNCHANGED <<loopVars, mailbox, leader, conn, socket, control, failure, result>>

Environment ==
  \/ poll_write \/ poll_close \/ drop \/ server_sends \/ server_closes
  \/ defer_called \/ verifier_lost

Next == Loop \/ Actor \/ poll_read \/ Environment

\* The futures are polled, and the application reads what arrives.
Fairness == WF_vars(Loop) /\ WF_vars(Actor) /\ WF_vars(poll_read)
Spec == Init /\ [][Next]_vars /\ Fairness

-----------------------------------------------------------------------------
Record ==
  [typ : {"Hello", "ClientHello", "Finished", "ApplicationData", "close_notify", "Bad", "none", "true", "false"},
   n : Nat]
Calling == [op : MpcTlsLeaderMsg \union {"Refused"}, msg : Record]

\* The values each variable takes.
TypeOK ==
  /\ pc \in {"calls", "asked", "write", "forward", "select", "ended"}
  /\ todo \in Seq(Calling) /\ mailbox \in Seq(Calling)
  /\ after \in {"none", "started", "packets", "closing", "select", "break"}
  /\ loop \in [handshake_done : BOOLEAN, client_closed : BOOLEAN, server_closed : BOOLEAN,
               reading : BOOLEAN, receiving : BOOLEAN]
  /\ client \in [phase : {"hello", "traffic", "error"}, plaintext : Seq(Record), tls : Seq(Record)]
  /\ leader \in [state : {"Handshake", "Active", "Closed", "Error", "Panicked"}, fields : SUBSET MpcTlsLeaderMsg,
                 is_decrypting : BOOLEAN, ready : BOOLEAN, started : BOOLEAN, encrypt : Seq(Record),
                 encrypted : Seq(Record), decrypt : Seq(Record), decrypted : Seq(Record),
                 sent : Seq(Record), recv : Seq(Record)]
  /\ conn \in [tx : Seq(Record), written : Nat, tx_closed : BOOLEAN, rx : Seq(Record), read : Seq(Record),
               dropped : BOOLEAN]
  /\ socket \in [in : Seq(Record), out : Seq(Record), server : {"open", "closed"}, sent : Seq(Record), bad : Nat]
  /\ control \in {"idle", "called", "answered"} /\ verifier \in BOOLEAN
  /\ failure \in MpcTlsLeaderMsg \union {"none", "client", "read", "write"} /\ result \in {"none", "Ok", "Err"}

-----------------------------------------------------------------------------
\* When the prover's future ends well, the transcript the leader committed to
\* is the conversation: all data the server sent before it closed, in order,
\* which is also what the application got, and all data the server was sent,
\* which is what the application wrote first (lib.rs 115-242, leader.rs 273).
TranscriptIsConversation ==
  result = "Ok" =>
    /\ DataOf(leader.recv) = DataOf(socket.sent)
    /\ DataOf(leader.sent) = DataOf(socket.out)
    /\ \A i \in DOMAIN DataOf(socket.out) : DataOf(socket.out)[i] = Data(i)
    /\ ~conn.dropped => conn.read \o conn.rx = DataOf(socket.sent)

\* The future of a session fails only for a reason outside of the prover: a
\* record of the server that is wrong, the verifier gone, the socket broken,
\* the end of the stream before encryption was prepared, or data written by
\* the application once the leader has closed (leader.rs 274, 791; actor 88).
FailureHasCause ==
  failure # "none" =>
    \/ ~verifier
    \/ socket.bad > 0
    \/ failure \in {"read", "write"} /\ socket.server # "open"
    \/ failure = "ServerClosed" /\ ~Sees("Finished")
    \/ failure = "PushOutgoing" /\ leader.state = "Closed"

\* Once the server has closed its side the prover's future ends: what is still
\* encrypted is decrypted, delivered and the loop woken for it (leader.rs 305,
\* lib.rs 149).
SessionEnds == (socket.server # "open") ~> (result # "none")

\* What the application writes on an open session is sent to the server, unless
\* the session or the server ends first (lib.rs 117, 193).
WrittenIsSent ==
  \A n \in 1..MaxSent :
    (loop.handshake_done /\ conn.written >= n)
      ~> (Data(n) \in {socket.out[i] : i \in DOMAIN socket.out} \/ result # "none" \/ socket.server # "open")
=============================================================================
