------------------------------- MODULE MpcTls -------------------------------
(***************************************************************************)
(* The MPC-TLS connection (tlsn/crates/mpc-tls): MpcTlsLeader, run by the  *)
(* prover as the backend of its TLS client, MpcTlsFollower, run by the     *)
(* verifier, and the ordered channel from the one to the other.            *)
(*                                                                         *)
(* The leader is an actor: it handles one call of the TLS client at a time.*)
(* Some calls only send a message, which the follower handles later.       *)
(* Others also compute something with the follower, and return only once   *)
(* the follower has handled everything sent before: `call' is the one in   *)
(* progress.  Such a computation is one action of both parties.            *)
(*                                                                         *)
(* The TLS client may make the calls in any order the leader's states      *)
(* allow, except that it sets the server's random, then its key, once each *)
(* (hs.rs, tls12.rs).  The error of a call ends the leader: the prover     *)
(* drops the connection and the leader together.                           *)
(***************************************************************************)
EXTENDS RecordLayer

CONSTANTS
  LocalParams, \* parameters only the leader keeps: version, suite, certificate, kx details
  Outgoing,    \* records the client may send: [kind, len]
  Incoming,    \* records the server may send: [kind, len, tag]
  Deferred,    \* values of defer_decryption in the configuration
  LinkFaults,  \* whether the connection of the parties may break
  MaxInFlight  \* bound: messages the channel takes before a send has to wait

ASSUME RecordAssumption ==
  /\ LocalParams \intersect {"random", "key"} = {}
  /\ Outgoing \subseteq [kind : Kinds, len : Nat]
  /\ Incoming \subseteq [kind : Kinds, len : Nat, tag : BOOLEAN]
  /\ Deferred \subseteq BOOLEAN /\ LinkFaults \in BOOLEAN
  /\ MaxInFlight \in Nat \ {0}

VARIABLES
  rl,                \* the record layer of each party
  chan,              \* messages on their way to the follower
  link,              \* whether the connection of the parties stands
  lstate,            \* state of the leader
  call,              \* computation with the follower the leader waits for
  params,            \* handshake parameters the leader has been given
  lprf,              \* state of the leader's PRF
  is_decrypting,     \* the leader's is_decrypting
  notify,            \* the leader's notifier is set
  encrypted_buffer,  \* records encrypted, not yet taken by the client
  decrypted_buffer,  \* records decrypted, not yet taken by the client
  wire,              \* records the client took to send to the server
  delivered,         \* plaintext records the client took
  lerr,              \* error that ended the leader
  fstate,            \* state of the follower
  fset,              \* what the follower's run has been given or has computed
  fprf,              \* state of the follower's PRF
  ferr               \* error that ended the follower

vars == <<rl, chan, link, lstate, call, params, lprf, is_decrypting, notify, encrypted_buffer,
          decrypted_buffer, wire, delivered, lerr, fstate, fset, fprf, ferr>>
outVars == <<encrypted_buffer, decrypted_buffer, wire, delivered>>
hsVars == <<params, lprf>>
flagVars == <<is_decrypting, notify>>
fVars == <<fstate, fset, fprf, ferr>>

Role == {"leader", "follower"}
Params == LocalParams \union {"random", "key"}
PrfStates == {"SessionKeys", "ClientFinished", "ServerFinished", "Complete", "Error"}
Message ==
  [type : {"SetServerRandom", "SetServerKey", "ClientFinishedVd", "ServerFinishedVd",
           "StartTraffic", "CloseConnection"}]
  \union [type : {"Encrypt"}, rec : Outgoing]
  \union [type : {"Decrypt"}, rec : Incoming]
  \union [type : {"Flush"}, is_decrypting : BOOLEAN]

\* What made a party fail, "none" if nothing did
Errors ==
  {"none", "missing parameter", "prf state", "already set", "sent volume", "recv volume",
   "state", "online volume", "not ready", "keystream", "otp", "records", "pending encrypt",
   "tag", "handshake incomplete", "transcript", "peer"}

TypeOK ==
  /\ rl \in [Role -> Layer]
  /\ chan \in Seq(Message)
  /\ link \in BOOLEAN
  /\ lstate \in {"Init", "Setup", "Handshake", "Active", "Closed", "Stopped", "Error"}
  /\ call \in {"none", "prepare_encryption", "client_finished", "server_finished",
               "flush", "commit"}
  /\ params \subseteq Params
  /\ lprf \in PrfStates
  /\ is_decrypting \in BOOLEAN /\ notify \in BOOLEAN
  /\ encrypted_buffer \in Seq(EncryptOp) /\ wire \in Seq(EncryptOp)
  /\ decrypted_buffer \in Seq(DecryptOp) /\ delivered \in Seq(DecryptOp)
  /\ lerr \in Errors /\ ferr \in Errors
  /\ fstate \in {"Init", "Setup", "Ready", "Running", "Done", "Error"}
  /\ fset \subseteq {"random", "key", "cf", "sf"}
  /\ fprf \in PrfStates

Init ==
  /\ rl = [p \in Role |-> NewLayer]
  /\ chan = <<>> /\ link = TRUE
  /\ lstate = "Init" /\ call = "none" /\ params = {} /\ lprf = "SessionKeys"
  /\ \E d \in Deferred : is_decrypting = ~d
  /\ notify = FALSE
  /\ encrypted_buffer = <<>> /\ decrypted_buffer = <<>>
  /\ wire = <<>> /\ delivered = <<>>
  /\ lerr = "none"
  /\ fstate = "Init" /\ fset = {} /\ fprf = "SessionKeys" /\ ferr = "none"

-----------------------------------------------------------------------------
Lead == rl["leader"]
Follow == rl["follower"]

\* The actor can take the next call.
Idle == call = "none" /\ lstate \notin {"Stopped", "Error"}

Send(m) == Len(chan) < MaxInFlight /\ chan' = Append(chan, m)

LeaderFails(why) ==
  /\ lstate' = "Error" /\ lerr' = why /\ call' = "none"
LeaderContinues == UNCHANGED <<lstate, lerr, call>>
LeaderWaits(for) == call' = for /\ UNCHANGED <<lstate, lerr>>

FollowerFails(why) ==
  /\ fstate' = "Error" /\ ferr' = why
  /\ UNCHANGED <<fset, fprf>>

-----------------------------------------------------------------------------
(***************************************************************************)
(* Setup.  preprocess runs in both parties at once.                        *)
(***************************************************************************)
leader_alloc ==
  /\ lstate = "Init"
  /\ lstate' = "Setup"
  /\ rl' = [rl EXCEPT !["leader"] = alloc_layer(@)]
  /\ UNCHANGED <<chan, link, call, hsVars, flagVars, outVars, lerr, fVars>>

follower_alloc ==
  /\ fstate = "Init"
  /\ fstate' = "Setup"
  /\ rl' = [rl EXCEPT !["follower"] = alloc_layer(@)]
  /\ UNCHANGED <<chan, link, lstate, call, hsVars, flagVars, outVars, lerr, fset, fprf, ferr>>

preprocess ==
  /\ lstate = "Setup" /\ fstate = "Setup" /\ link
  /\ lstate' = "Handshake" /\ fstate' = "Ready"
  /\ UNCHANGED <<rl, chan, link, call, hsVars, flagVars, outVars, lerr, fset, fprf, ferr>>

follower_run ==
  /\ fstate = "Ready"
  /\ fstate' = "Running"
  /\ UNCHANGED <<rl, chan, link, lstate, call, hsVars, flagVars, outVars, lerr, fset, fprf, ferr>>

-----------------------------------------------------------------------------
(***************************************************************************)
(* The handshake, as the TLS client drives the leader through it.          *)
(***************************************************************************)
set_param(p) ==
  /\ Idle /\ lstate = "Handshake"
  /\ params' = params \union {p}
  /\ UNCHANGED <<rl, chan, link, lstate, call, lprf, flagVars, outVars, lerr, fVars>>

set_server_random ==
  /\ Idle /\ lstate = "Handshake" /\ "random" \notin params
  /\ Send([type |-> "SetServerRandom"])
  /\ lprf' = "ClientFinished"
  /\ params' = params \union {"random"}
  /\ UNCHANGED <<rl, link, lstate, call, flagVars, outVars, lerr, fVars>>

set_server_key_share ==
  /\ Idle /\ lstate = "Handshake" /\ "random" \in params /\ "key" \notin params
  /\ Send([type |-> "SetServerKey"])
  /\ params' = params \union {"key"}
  /\ UNCHANGED <<rl, link, lstate, call, lprf, flagVars, outVars, lerr, fVars>>

prepare_encryption ==
  /\ Idle /\ lstate = "Handshake"
  /\ IF params = Params THEN LeaderWaits("prepare_encryption") ELSE LeaderFails("missing parameter")
  /\ UNCHANGED <<rl, chan, link, hsVars, flagVars, outVars, fVars>>

get_client_finished_vd ==
  /\ Idle /\ lstate = "Active"
  /\ Send([type |-> "ClientFinishedVd"])
  /\ IF lprf = "ClientFinished"
     THEN lprf' = "ServerFinished" /\ LeaderWaits("client_finished")
     ELSE lprf' = "Error" /\ LeaderFails("prf state")
  /\ UNCHANGED <<rl, link, params, flagVars, outVars, fVars>>

get_server_finished_vd ==
  /\ Idle /\ lstate = "Active"
  /\ Send([type |-> "ServerFinishedVd"])
  /\ IF lprf = "ServerFinished"
     THEN lprf' = "Complete" /\ LeaderWaits("server_finished")
     ELSE lprf' = "Error" /\ LeaderFails("prf state")
  /\ UNCHANGED <<rl, link, params, flagVars, outVars, fVars>>

-----------------------------------------------------------------------------
(***************************************************************************)
(* Records.                                                                *)
(***************************************************************************)
\* Mutant: the record is sent to the follower before its own layer took it.
push_incoming_SendFirst(r) ==
  /\ Idle /\ lstate \in {"Handshake", "Active"}
  /\ Send([type |-> "Decrypt", rec |-> r])
  /\ IF CanDecrypt(Lead, r)
     THEN rl' = [rl EXCEPT !["leader"] = push_decrypt(@, r)] /\ LeaderContinues
     ELSE rl' = rl /\ LeaderContinues
  /\ UNCHANGED <<link, hsVars, flagVars, outVars, fVars>>
\* Mutant: records are taken even after the connection was closed.
push_incoming_AfterClose(r) ==
  /\ Idle /\ lstate \in {"Handshake", "Active", "Closed"} /\ CanDecrypt(Lead, r)
  /\ rl' = [rl EXCEPT !["leader"] = push_decrypt(@, r)]
  /\ Send([type |-> "Decrypt", rec |-> r])
  /\ LeaderContinues
  /\ UNCHANGED <<link, hsVars, flagVars, outVars, fVars>>
push_incoming(r) ==
  /\ Idle /\ lstate \in {"Handshake", "Active"}
  /\ IF CanDecrypt(Lead, r)
     THEN /\ rl' = [rl EXCEPT !["leader"] = push_decrypt(@, r)]
          /\ Send([type |-> "Decrypt", rec |-> r])
          /\ LeaderContinues
     ELSE /\ LeaderFails("recv volume")
          /\ UNCHANGED <<rl, chan>>
  /\ UNCHANGED <<link, hsVars, flagVars, outVars, fVars>>

push_outgoing(r) ==
  /\ Idle /\ lstate \in {"Handshake", "Active"}
  /\ IF CanEncrypt(Lead, r)
     THEN /\ rl' = [rl EXCEPT !["leader"] = push_encrypt(@, r)]
          /\ Send([type |-> "Encrypt", rec |-> r])
          /\ LeaderContinues
     ELSE /\ LeaderFails("sent volume")
          /\ UNCHANGED <<rl, chan>>
  /\ UNCHANGED <<link, hsVars, flagVars, outVars, fVars>>

\* next_encrypted and next_decrypted hold application data back until traffic starts.
Available(buffer) == buffer # <<>> /\ (Lead.started \/ ~IsData(Head(buffer)))

next_incoming ==
  /\ Idle /\ lstate \in {"Handshake", "Active", "Closed"}
  /\ Available(decrypted_buffer)
  /\ delivered' = Append(delivered, Head(decrypted_buffer))
  /\ decrypted_buffer' = Tail(decrypted_buffer)
  /\ UNCHANGED <<rl, chan, link, lstate, call, hsVars, flagVars, encrypted_buffer, wire, lerr, fVars>>

\* Mutant: the record stays at the front of the queue.
next_outgoing_Peek ==
  /\ Idle /\ lstate \in {"Handshake", "Active", "Closed"}
  /\ Available(encrypted_buffer) /\ Len(wire) < MaxSentRecords
  /\ wire' = Append(wire, Head(encrypted_buffer))
  /\ UNCHANGED <<rl, chan, link, lstate, call, hsVars, flagVars, encrypted_buffer,
                 decrypted_buffer, delivered, lerr, fVars>>
next_outgoing ==
  /\ Idle /\ lstate \in {"Handshake", "Active", "Closed"}
  /\ Available(encrypted_buffer)
  /\ wire' = Append(wire, Head(encrypted_buffer))
  /\ encrypted_buffer' = Tail(encrypted_buffer)
  /\ UNCHANGED <<rl, chan, link, lstate, call, hsVars, flagVars, decrypted_buffer, delivered, lerr, fVars>>

\* Mutant: the follower is not told.
start_traffic_Silent ==
  /\ Idle /\ lstate = "Active" /\ ~Lead.started
  /\ rl' = [rl EXCEPT !["leader"] = start_layer(@)]
  /\ UNCHANGED <<chan, link, lstate, call, hsVars, flagVars, outVars, lerr, fVars>>
start_traffic ==
  /\ Idle /\ lstate = "Active" /\ ~Lead.started
  /\ rl' = [rl EXCEPT !["leader"] = start_layer(@)]
  /\ Send([type |-> "StartTraffic"])
  /\ UNCHANGED <<link, lstate, call, hsVars, flagVars, outVars, lerr, fVars>>

\* Mutant: the leader waits for the follower even when neither has anything to do.
flush_AlwaysWaits ==
  /\ Idle /\ lstate \in {"Active", "Closed"} /\ wants_flush(Lead)
  /\ Send([type |-> "Flush", is_decrypting |-> is_decrypting])
  /\ LET error == FlushError(Lead, is_decrypting, TRUE) IN
       IF error # "none" THEN LeaderFails(error) ELSE LeaderWaits("flush")
  /\ UNCHANGED <<rl, link, hsVars, flagVars, outVars, fVars>>
\* Skipped in the Handshake state and with nothing buffered.
flush ==
  /\ Idle /\ lstate \in {"Active", "Closed"} /\ wants_flush(Lead)
  /\ Send([type |-> "Flush", is_decrypting |-> is_decrypting])
  /\ LET error == FlushError(Lead, is_decrypting, TRUE) IN
       IF error # "none" THEN LeaderFails(error)
       ELSE IF NothingToFlush(Lead, is_decrypting) THEN LeaderContinues
       ELSE LeaderWaits("flush")
  /\ UNCHANGED <<rl, link, hsVars, flagVars, outVars, fVars>>

defer_decryption ==
  /\ Idle
  /\ is_decrypting' = FALSE /\ notify' = FALSE
  /\ UNCHANGED <<rl, chan, link, lstate, call, hsVars, outVars, lerr, fVars>>

\* server_closed, called once.  Before the Active state it loses the state of the leader.
close_connection ==
  /\ Idle /\ lstate \in {"Handshake", "Active"}
  /\ IF lstate = "Active"
     THEN /\ Send([type |-> "CloseConnection"])
          /\ IF CommitError(Lead) = "none" THEN LeaderWaits("commit") ELSE LeaderFails(CommitError(Lead))
     ELSE LeaderFails("state") /\ UNCHANGED chan
  /\ UNCHANGED <<rl, link, hsVars, flagVars, outVars, fVars>>

stop ==
  /\ Idle /\ lstate = "Closed"
  /\ lstate' = "Stopped"
  /\ UNCHANGED <<rl, chan, link, call, hsVars, flagVars, outVars, lerr, fVars>>

-----------------------------------------------------------------------------
(***************************************************************************)
(* The follower.  run takes one message after the other.  Rejected is the  *)
(* check of the head message that fails before anything is computed with   *)
(* the leader.                                                             *)
(***************************************************************************)
Handles(type) == fstate = "Running" /\ chan # <<>> /\ Head(chan).type = type

Rejected(m) ==
  CASE m.type = "SetServerRandom" ->
         IF "random" \in fset THEN "already set" ELSE IF fprf # "SessionKeys" THEN "prf state" ELSE "none"
    [] m.type = "SetServerKey" -> IF "key" \in fset THEN "already set" ELSE "none"
    [] m.type = "ClientFinishedVd" ->
         IF "cf" \in fset THEN "already set" ELSE IF fprf # "ClientFinished" THEN "prf state" ELSE "none"
    [] m.type = "ServerFinishedVd" ->
         IF "sf" \in fset THEN "already set" ELSE IF fprf # "ServerFinished" THEN "prf state" ELSE "none"
    [] m.type = "Encrypt" -> IF CanEncrypt(Follow, m.rec) THEN "none" ELSE "sent volume"
    [] m.type = "Decrypt" -> IF CanDecrypt(Follow, m.rec) THEN "none" ELSE "recv volume"
    [] m.type = "Flush" -> FlushError(Follow, m.is_decrypting, FALSE)
    [] m.type = "CloseConnection" -> CommitError(Follow)
    [] m.type = "StartTraffic" -> "none"

leaderSide == <<link, lstate, call, hsVars, flagVars, outVars, lerr>>

follower_rejects ==
  /\ fstate = "Running" /\ chan # <<>> /\ Rejected(Head(chan)) # "none"
  /\ FollowerFails(Rejected(Head(chan)))
  /\ chan' = Tail(chan)
  /\ UNCHANGED <<rl, leaderSide>>

follower_random ==
  /\ Handles("SetServerRandom") /\ Rejected(Head(chan)) = "none"
  /\ fset' = fset \union {"random"} /\ fprf' = "ClientFinished"
  /\ chan' = Tail(chan)
  /\ UNCHANGED <<rl, fstate, ferr, leaderSide>>

\* Encrypt, Decrypt, StartTraffic, and a Flush with nothing to do
Applied(l, m) ==
  CASE m.type = "Encrypt" -> push_encrypt(l, m.rec)
    [] m.type = "Decrypt" -> push_decrypt(l, m.rec)
    [] m.type = "StartTraffic" -> start_layer(l)
    [] m.type = "Flush" -> l
follower_record ==
  /\ \/ Handles("Encrypt") \/ Handles("Decrypt") \/ Handles("StartTraffic")
     \/ Handles("Flush") /\ NothingToFlush(Follow, Head(chan).is_decrypting)
  /\ Rejected(Head(chan)) = "none"
  /\ rl' = [rl EXCEPT !["follower"] = Applied(@, Head(chan))]
  /\ chan' = Tail(chan)
  /\ UNCHANGED <<fVars, leaderSide>>

-----------------------------------------------------------------------------
(***************************************************************************)
(* Computations of both parties: the leader waits in its call and the      *)
(* follower has come to the message of that call.                          *)
(***************************************************************************)
Together(waiting, type) ==
  /\ call = waiting /\ Handles(type) /\ Rejected(Head(chan)) = "none" /\ link
  /\ chan' = Tail(chan) /\ call' = "none"
  /\ UNCHANGED <<link, hsVars, is_decrypting>>

\* Key exchange, session keys, and the setup of both AES-GCM instances
compute_keys ==
  /\ Together("prepare_encryption", "SetServerKey")
  /\ lstate' = "Active"
  /\ fset' = fset \union {"key"}
  /\ rl' = [p \in Role |-> setup_layer(rl[p])]
  /\ UNCHANGED <<outVars, notify, lerr, fstate, fprf, ferr>>

compute_client_finished ==
  /\ Together("client_finished", "ClientFinishedVd")
  /\ fset' = fset \union {"cf"} /\ fprf' = "ServerFinished"
  /\ UNCHANGED <<rl, lstate, outVars, notify, lerr, fstate, ferr>>

compute_server_finished ==
  /\ Together("server_finished", "ServerFinishedVd")
  /\ fset' = fset \union {"sf"} /\ fprf' = "Complete"
  /\ UNCHANGED <<rl, lstate, outVars, notify, lerr, fstate, ferr>>

BothFail(why) ==
  /\ lstate' = "Error" /\ lerr' = why /\ fstate' = "Error" /\ ferr' = why
  /\ UNCHANGED <<outVars, notify, fset, fprf>>

\* Mutant: only the first tag is compared.
TagsVerify_First(ops, theirs) == ops = theirs /\ (ops # <<>> => ops[1].tag)
\* Parties with different operations cannot complete the computation.
TagsVerify(ops, theirs) == ops = theirs /\ VerifyTags(ops)

compute_flush ==
  /\ Together("flush", "Flush") /\ ~NothingToFlush(Follow, Head(chan).is_decrypting)
  /\ LET theirs == Head(chan).is_decrypting
         ops == FlushOps(Lead, is_decrypting)
     IN IF /\ Lead.encrypt_buffer = Follow.encrypt_buffer
           /\ TagsVerify(ops, FlushOps(Follow, theirs))
        THEN /\ rl' = [rl EXCEPT !["leader"] = flush_layer(@, is_decrypting),
                                 !["follower"] = flush_layer(@, theirs)]
             /\ encrypted_buffer' = encrypted_buffer \o Lead.encrypt_buffer
             /\ decrypted_buffer' = decrypted_buffer \o ops
             /\ UNCHANGED <<wire, delivered, lstate, lerr, notify, fVars>>
        ELSE rl' = rl /\ BothFail("tag")

\* Mutant: the last record is taken for application data.
Finishes_LastUnchecked(records) ==
  /\ records # <<>> /\ records[1].kind = "finished"
  /\ \A i \in 2 .. Len(records) - 1 : IsData(records[i])
\* validate_transcript, of one direction
Finishes(records) ==
  /\ records # <<>> /\ records[1].kind = "finished"
  /\ Len(records) > 1 => records[Len(records)].kind \in {"data", "close_notify"}
  /\ \A i \in 2 .. Len(records) - 1 : IsData(records[i])

\* What run finds missing or wrong once the record layer is committed
RunError(l) ==
  IF ~({"key", "cf", "sf"} \subseteq fset) THEN "handshake incomplete"
  ELSE IF ~(Finishes(l.sent_records) /\ Finishes(l.recv_records)) THEN "transcript"
  ELSE "none"

compute_commit ==
  /\ Together("commit", "CloseConnection")
  /\ LET ops == Lead.decrypt_buffer
         committed == [p \in Role |-> commit_layer(rl[p])]
     IN IF ~TagsVerify(ops, Follow.decrypt_buffer)
        THEN rl' = rl /\ BothFail("tag")
        ELSE IF ~CommitKeystream(Lead)
        THEN rl' = [p \in Role |-> decode_key(rl[p])] /\ BothFail("keystream")
        ELSE /\ rl' = committed
             /\ lstate' = "Closed" /\ lerr' = lerr
             /\ decrypted_buffer' = decrypted_buffer \o ops
             /\ notify' = (notify \/ encrypted_buffer # <<>> \/ decrypted_buffer \o ops # <<>>)
             /\ fstate' = IF RunError(committed["follower"]) = "none" THEN "Done" ELSE "Error"
             /\ ferr' = RunError(committed["follower"])
             /\ UNCHANGED <<encrypted_buffer, wire, delivered, fset, fprf>>

-----------------------------------------------------------------------------
(***************************************************************************)
(* Losing the other party: its end of the connection is dropped with it.   *)
(***************************************************************************)
break_link ==
  /\ LinkFaults /\ link
  /\ link' = FALSE
  /\ UNCHANGED <<rl, chan, lstate, call, hsVars, flagVars, outVars, lerr, fVars>>

leader_loses_peer ==
  /\ lstate \in {"Setup", "Handshake", "Active"}
  /\ ~link \/ fstate = "Error"
  /\ LeaderFails("peer")
  /\ UNCHANGED <<rl, chan, link, hsVars, flagVars, outVars, fVars>>

\* Mutant: a leader that failed is not noticed while the connection stands.
follower_loses_peer_Deaf ==
  /\ fstate \in {"Setup", "Ready", "Running"} /\ ~link
  /\ FollowerFails("peer")
  /\ UNCHANGED <<rl, chan, leaderSide>>
follower_loses_peer ==
  /\ fstate \in {"Setup", "Ready", "Running"}
  /\ ~link \/ lstate = "Error"
  /\ FollowerFails("peer")
  /\ UNCHANGED <<rl, chan, leaderSide>>

-----------------------------------------------------------------------------
Call ==
  \/ \E p \in LocalParams : set_param(p)
  \/ set_server_random
  \/ set_server_key_share
  \/ prepare_encryption
  \/ get_client_finished_vd
  \/ get_server_finished_vd
  \/ \E r \in Incoming : push_incoming(r)
  \/ \E r \in Outgoing : push_outgoing(r)
  \/ next_incoming
  \/ next_outgoing
  \/ start_traffic
  \/ flush
  \/ defer_decryption
  \/ close_connection
  \/ stop

Setup == leader_alloc \/ follower_alloc \/ preprocess \/ follower_run

Compute ==
  \/ compute_keys
  \/ compute_client_finished
  \/ compute_server_finished
  \/ compute_flush
  \/ compute_commit

Handle == follower_rejects \/ follower_random \/ follower_record

Lose == leader_loses_peer \/ follower_loses_peer

\* Both parties have ended: nothing is left to do.
Ended ==
  /\ lstate \in {"Stopped", "Error"} /\ fstate \in {"Done", "Error"}
  /\ UNCHANGED vars

Next == Setup \/ Call \/ Handle \/ Compute \/ Lose \/ break_link \/ Ended

Spec == Init /\ [][Next]_vars

\* The follower's task and the computations are polled as long as they can
\* proceed, and a dropped connection is noticed.  Nothing is assumed of the TLS
\* client that calls the leader.
Fairness ==
  /\ WF_vars(follower_run) /\ WF_vars(Handle) /\ WF_vars(Compute) /\ WF_vars(Lose)

FairSpec == Spec /\ Fairness

-----------------------------------------------------------------------------
(***************************************************************************)
(* Safety.                                                                 *)
(***************************************************************************)
\* Each party numbers the records by itself, and the number is the nonce of
\* AES-GCM (next_write, next_read).  In each record layer, what was processed
\* followed by what is buffered is numbered from 0 without gap or repetition, so
\* no nonce is used twice and no record is lost between buffer and transcript.
SequenceIntact == \A p \in Role : LayerNumbered(rl[p])

\* The follower keeps a replica of the leader's record layer from the messages
\* alone.  Whenever the follower has caught up with a leader that waits for
\* nothing, both layers are the same, through deferrals and flushes.
ReplicasAgree ==
  (/\ chan = <<>> /\ call = "none"
   /\ lstate \in {"Handshake", "Active", "Closed", "Stopped"}
   /\ fstate \in {"Ready", "Running", "Done"})
    => rl["leader"] = rl["follower"]

\* The records the TLS client took or can take, for the server or for the
\* application, are exactly those of the follower's transcript, in its order:
\* nothing is sent or delivered that the verifier does not hold.
TranscriptIsTheConnection ==
  /\ wire \o encrypted_buffer = Follow.sent_records
  /\ delivered \o decrypted_buffer = Follow.recv_records

\* A follower with a connected, honest leader refuses nothing that the leader's
\* own record layer and PRF accepted: except for its verdict on the complete
\* transcript it fails only together with the leader or after it.
FailsWithLeader ==
  ferr \notin {"none", "peer", "handshake incomplete", "transcript"} => lstate = "Error"

\* Every record of a transcript passed its tag check, and the server write key
\* is decoded to the leader only when every tag of every received record was
\* verified and the connection is no longer active.
AuthenticatedBeforeKey ==
  /\ \A p \in Role : VerifyTags(rl[p].recv_records)
  /\ Lead.key => VerifyTags(Follow.decrypt_buffer) /\ lstate # "Active"

\* A transcript the follower accepts is the leader's, holds every record that was
\* pushed in either direction, and shows a completed handshake.
AcceptedIsComplete ==
  fstate = "Done" =>
    /\ lstate \in {"Closed", "Stopped"}
    /\ Follow.sent_records = Lead.sent_records /\ Follow.recv_records = Lead.recv_records
    /\ Len(Follow.sent_records) = Lead.write_seq /\ Len(Follow.recv_records) = Lead.read_seq
    /\ \A records \in {wire \o encrypted_buffer, delivered \o decrypted_buffer} :
         /\ records[1].kind = "finished"
         /\ \A i \in 2 .. Len(records) :
              ~IsData(records[i]) => i = Len(records) /\ records[i].kind = "close_notify"

-----------------------------------------------------------------------------
(***************************************************************************)
(* What the parties implement together: the witnessed connection of        *)
(* Witness.  Its transcript is the one in the follower's record layer, and *)
(* the records handed over are those the leader has processed or buffers.  *)
(***************************************************************************)
Verdict == IF fstate = "Done" THEN "accepted" ELSE IF fstate = "Error" THEN "rejected" ELSE "open"

Witnessed == INSTANCE Witness WITH
  outgoing <- rl["leader"].sent_records \o rl["leader"].encrypt_buffer,
  incoming <- rl["leader"].recv_records \o rl["leader"].decrypt_buffer,
  sent <- rl["follower"].sent_records,
  received <- rl["follower"].recv_records,
  key <- rl["leader"].key,
  verdict <- Verdict

\* Through deferrals, flushes, failures and a close, two parties with a record
\* layer each behave as one witness: records are processed in the order they
\* were handed over, none after the key of the server was decoded to the leader,
\* only the processed ones are sent or delivered, and what the follower accepts
\* when it ends is all of what was handed over (MpcTlsLeader, MpcTlsFollower::run).
ImplementsWitness == Witnessed!Spec

-----------------------------------------------------------------------------
(***************************************************************************)
(* Liveness.                                                               *)
(***************************************************************************)
\* A call that computes with the follower returns, with a result or an error,
\* even when the peer fails or the connection breaks.
CallReturns == (call # "none") ~> (call = "none")

\* A follower whose leader has closed, or has failed, ends.
FollowerEnds == (lstate \in {"Closed", "Error"} /\ fstate # "Init") ~> (fstate \in {"Done", "Error"})
=============================================================================
