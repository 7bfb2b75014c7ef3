---------------------------- MODULE MpcTlsProofs ----------------------------
(***************************************************************************)
(* Proofs about MpcTls, for all records, limits and interleavings.         *)
(*                                                                         *)
(* The properties are not inductive one by one.  What binds them together  *)
(* is that the processed records of both layers and what the TLS client    *)
(* has taken or can take are one and the same, that a close in progress    *)
(* leaves nothing to encrypt, and that once the key is decoded the         *)
(* follower is gone: it handles no further message.                        *)
(*                                                                         *)
(* That the follower's replica is faithful needs an invariant of its own,  *)
(* over the messages in the channel; it is in the second half.             *)
(***************************************************************************)
EXTENDS MpcTls, RecordLayerProofs

Gone == {"Done", "Error"}
Over == {"Closed", "Stopped", "Error"}

\* The processed records of the two layers are the same.
Synced ==
  /\ Lead.sent_records = Follow.sent_records
  /\ Lead.recv_records = Follow.recv_records

\* Every processed record passed its tag check.
Verified == \A p \in Role : VerifyTags(rl[p].recv_records)

\* With the key decoded, the follower is gone and the connection is over.
KeyLast ==
  Lead.key => fstate \in Gone /\ lstate \in Over /\ VerifyTags(Follow.decrypt_buffer)

\* Nothing waits to be encrypted while the leader closes the connection.
Committing == call = "commit" => lstate = "Active" /\ Lead.encrypt_buffer = <<>>

\* A transcript the follower accepted is finished, and nothing is left of it.
Accepted ==
  fstate = "Done" =>
    /\ lstate \in {"Closed", "Stopped"}
    /\ Lead.encrypt_buffer = <<>> /\ Lead.decrypt_buffer = <<>>
    /\ Finishes(Follow.sent_records) /\ Finishes(Follow.recv_records)

IInv ==
  /\ TypeOK
  /\ SequenceIntact
  /\ TranscriptIsTheConnection
  /\ Synced
  /\ Verified
  /\ KeyLast
  /\ Committing
  /\ Accepted

-----------------------------------------------------------------------------
(***************************************************************************)
(* Facts about the values.                                                 *)
(***************************************************************************)
LEMMA MessageFields ==
  ASSUME NEW m \in Message
  PROVE  /\ m.type \in {"SetServerRandom", "SetServerKey", "ClientFinishedVd", "ServerFinishedVd",
                        "StartTraffic", "CloseConnection", "Encrypt", "Decrypt", "Flush"}
         /\ m.type = "Encrypt" => m.rec \in [kind : Kinds, len : Nat]
         /\ m.type = "Decrypt" => m.rec \in [kind : Kinds, len : Nat, tag : BOOLEAN]
         /\ m.type = "Flush" => m.is_decrypting \in BOOLEAN
BY RecordAssumption DEF Message

LEMMA MessagesAre ==
  /\ \A t \in {"SetServerRandom", "SetServerKey", "ClientFinishedVd", "ServerFinishedVd",
               "StartTraffic", "CloseConnection"} : [type |-> t] \in Message
  /\ \A r \in Outgoing : [type |-> "Encrypt", rec |-> r] \in Message
  /\ \A r \in Incoming : [type |-> "Decrypt", rec |-> r] \in Message
  /\ \A d \in BOOLEAN : [type |-> "Flush", is_decrypting |-> d] \in Message
BY DEF Message

LEMMA ErrorsType ==
  /\ \A l, d, h : FlushError(l, d, h) \in Errors
  /\ \A l : CommitError(l) \in Errors
  /\ \A l : RunError(l) \in Errors
<1>1. ASSUME NEW l, NEW d, NEW h PROVE FlushError(l, d, h) \in Errors
  BY DEF FlushError, Errors
<1>2. ASSUME NEW l PROVE CommitError(l) \in Errors
  BY DEF CommitError, Errors
<1>3. ASSUME NEW l PROVE RunError(l) \in Errors
  BY DEF RunError, Errors
<1> QED BY <1>1, <1>2, <1>3

LEMMA RejectedType ==
  ASSUME NEW m \in Message
  PROVE  Rejected(m) \in Errors
<1>1. m.type \in {"SetServerRandom", "SetServerKey", "ClientFinishedVd", "ServerFinishedVd",
                  "StartTraffic", "CloseConnection", "Encrypt", "Decrypt", "Flush"}
  BY MessageFields
<1>2. FlushError(Follow, m.is_decrypting, FALSE) \in Errors /\ CommitError(Follow) \in Errors
  BY ErrorsType
<1>3. CASE m.type = "SetServerRandom"
  BY <1>3, <1>2 DEF Rejected, Errors
<1>4. CASE m.type = "SetServerKey"
  BY <1>4, <1>2 DEF Rejected, Errors
<1>5. CASE m.type = "ClientFinishedVd"
  BY <1>5, <1>2 DEF Rejected, Errors
<1>6. CASE m.type = "ServerFinishedVd"
  BY <1>6, <1>2 DEF Rejected, Errors
<1>7. CASE m.type = "StartTraffic"
  BY <1>7, <1>2 DEF Rejected, Errors
<1>8. CASE m.type = "CloseConnection"
  BY <1>8, <1>2 DEF Rejected
<1>9. CASE m.type = "Encrypt"
  BY <1>9, <1>2 DEF Rejected, Errors
<1>10. CASE m.type = "Decrypt"
  BY <1>10, <1>2 DEF Rejected, Errors
<1>11. CASE m.type = "Flush"
  BY <1>11, <1>2 DEF Rejected
<1> QED BY <1>1, <1>3, <1>4, <1>5, <1>6, <1>7, <1>8, <1>9, <1>10, <1>11

\* Taking the head of a queue and appending it to what was taken keeps the whole.
LEMMA TakeHead ==
  ASSUME NEW S, NEW taken \in Seq(S), NEW queue \in Seq(S), queue # <<>>
  PROVE  /\ Append(taken, Head(queue)) \in Seq(S) /\ Tail(queue) \in Seq(S)
         /\ Append(taken, Head(queue)) \o Tail(queue) = taken \o queue
<1>1. Head(queue) \in S /\ Tail(queue) \in Seq(S) /\ Len(queue) \in Nat \ {0}
  BY HeadTailProperties, EmptySeq
<1>2. <<Head(queue)>> \in Seq(S) /\ <<Head(queue)>> \o Tail(queue) = queue
  BY <1>1
<1>3. Append(taken, Head(queue)) = taken \o <<Head(queue)>>
  BY <1>1, AppendIsConcat
<1>4. (taken \o <<Head(queue)>>) \o Tail(queue) = taken \o (<<Head(queue)>> \o Tail(queue))
  BY <1>1, <1>2, ConcatAssociative
<1>5. Append(taken, Head(queue)) \in Seq(S)
  BY <1>1, AppendProperties
<1> QED BY <1>1, <1>2, <1>3, <1>4, <1>5

LEMMA Regroup ==
  /\ \A a, b, c \in Seq(EncryptOp) : a \o (b \o c) = (a \o b) \o c
  /\ \A a, b, c \in Seq(DecryptOp) : a \o (b \o c) = (a \o b) \o c
<1>1. ASSUME NEW S, NEW a \in Seq(S), NEW b \in Seq(S), NEW c \in Seq(S)
      PROVE  a \o (b \o c) = (a \o b) \o c
  <2>1. (a \o b) \o c = a \o (b \o c)
    BY ConcatAssociative
  <2> QED BY <2>1
<1>2. ASSUME NEW a \in Seq(EncryptOp), NEW b \in Seq(EncryptOp), NEW c \in Seq(EncryptOp)
      PROVE  a \o (b \o c) = (a \o b) \o c
  BY <1>1
<1>3. ASSUME NEW a \in Seq(DecryptOp), NEW b \in Seq(DecryptOp), NEW c \in Seq(DecryptOp)
      PROVE  a \o (b \o c) = (a \o b) \o c
  BY <1>1
<1> QED BY <1>2, <1>3

LEMMA VerifyTagsConcat ==
  ASSUME NEW a \in Seq(DecryptOp), NEW b \in Seq(DecryptOp), VerifyTags(a), VerifyTags(b)
  PROVE  VerifyTags(a \o b)
<1>1. Len(a) \in Nat /\ Len(b) \in Nat /\ DOMAIN a = 1 .. Len(a) /\ DOMAIN b = 1 .. Len(b)
  BY LenProperties
<1>2. /\ a \o b \in Seq(DecryptOp) /\ Len(a \o b) = Len(a) + Len(b)
      /\ \A i \in 1 .. Len(a) + Len(b) :
           (a \o b)[i] = IF i <= Len(a) THEN a[i] ELSE b[i - Len(a)]
  BY ConcatProperties
<1>3. DOMAIN (a \o b) = 1 .. Len(a) + Len(b)
  BY <1>2, LenProperties
<1>4. ASSUME NEW i \in 1 .. Len(a) + Len(b)
      PROVE  (a \o b)[i].tag
  <2>1. CASE i <= Len(a)
    BY <2>1, <1>1, <1>2 DEF VerifyTags
  <2>2. CASE ~(i <= Len(a))
    <3>1. i - Len(a) \in DOMAIN b
      BY <2>2, <1>1
    <3> QED BY <2>2, <3>1, <1>2 DEF VerifyTags
  <2> QED BY <2>1, <2>2
<1> QED BY <1>3, <1>4 DEF VerifyTags
-----------------------------------------------------------------------------
LEMMA Initially == Init => IInv
<1> SUFFICES ASSUME Init PROVE IInv
  OBVIOUS
<1>1. Lead = NewLayer /\ Follow = NewLayer /\ \A p \in Role : rl[p] = NewLayer
  BY DEF Init, Lead, Follow, Role
<1>2. NewLayer \in Layer /\ LayerNumbered(NewLayer)
  BY NewLayerGood DEF Good
<1>3. /\ NewLayer.sent_records = <<>> /\ NewLayer.recv_records = <<>> /\ ~NewLayer.key
  BY DEF NewLayer
<1>4. rl \in [Role -> Layer]
  BY <1>2 DEF Init
<1>5. TypeOK
  <2>1. \A d \in Deferred : (~d) \in BOOLEAN
    BY RecordAssumption, Zenon
  <2>2. is_decrypting \in BOOLEAN
    BY <2>1 DEF Init
  <2>3. <<>> \in Seq(Message) /\ <<>> \in Seq(EncryptOp) /\ <<>> \in Seq(DecryptOp)
    BY EmptySeq
  <2> QED BY <1>4, <2>2, <2>3 DEF Init, TypeOK, Params, PrfStates, Errors
<1>6. SequenceIntact
  BY <1>1, <1>2 DEF SequenceIntact
<1>7. VerifyTags(<<>>)
  BY DEF VerifyTags
<1>8. TranscriptIsTheConnection
  <2>1. <<>> \o <<>> = <<>>
    BY ConcatEmptySeq, EmptySeq
  <2> QED BY <1>1, <1>3, <2>1 DEF Init, TranscriptIsTheConnection
<1>9. Synced /\ Verified
  BY <1>1, <1>3, <1>7 DEF Synced, Verified
<1>10. KeyLast /\ Committing /\ Accepted
  BY <1>1, <1>3 DEF Init, KeyLast, Committing, Accepted
<1> QED BY <1>5, <1>6, <1>8, <1>9, <1>10 DEF IInv

(***************************************************************************)
(* The two kinds of steps that move no record between buffers.  In a quiet *)
(* step the layers stay; in a working step a layer takes a record or sets  *)
(* a flag, before the key is decoded and the follower has accepted.        *)
(***************************************************************************)
LEMMA Quiet ==
  ASSUME IInv, TypeOK', rl' = rl, outVars' = outVars,
         fstate \in Gone => fstate' = fstate,
         fstate' = "Done" => fstate = "Done",
         lstate \in Over => lstate' \in Over,
         fstate = "Done" => lstate' \in {"Closed", "Stopped"},
         call' = "commit" => lstate' = "Active" /\ (call = "commit" \/ Lead.encrypt_buffer = <<>>)
  PROVE  IInv'
<1>1. Lead' = Lead /\ Follow' = Follow
  BY DEF Lead, Follow
<1>2. SequenceIntact' /\ Verified'
  BY DEF IInv, SequenceIntact, Verified
<1>3. TranscriptIsTheConnection' /\ Synced'
  BY <1>1 DEF IInv, TranscriptIsTheConnection, Synced, outVars
<1>4. KeyLast'
  BY <1>1 DEF IInv, KeyLast
<1>5. Committing'
  BY <1>1 DEF IInv, Committing
<1>6. Accepted'
  BY <1>1 DEF IInv, Accepted
<1> QED BY <1>2, <1>3, <1>4, <1>5, <1>6 DEF IInv

LEMMA Working ==
  ASSUME IInv, TypeOK', outVars' = outVars,
         \A p \in Role : /\ Good(rl'[p])
                         /\ rl'[p].sent_records = rl[p].sent_records
                         /\ rl'[p].recv_records = rl[p].recv_records,
         ~rl'["leader"].key,
         fstate' # "Done",
         call' = "commit" => lstate' = "Active" /\ rl'["leader"].encrypt_buffer = <<>>
  PROVE  IInv'
<1>1. Lead' = rl'["leader"] /\ Follow' = rl'["follower"] /\ "leader" \in Role /\ "follower" \in Role
  BY DEF Lead, Follow, Role
<1>2. SequenceIntact'
  BY DEF SequenceIntact, Good
<1>3. Verified'
  BY DEF IInv, Verified
<1>4. TranscriptIsTheConnection' /\ Synced'
  BY <1>1 DEF IInv, TranscriptIsTheConnection, Synced, outVars, Lead, Follow
<1>5. KeyLast' /\ Committing' /\ Accepted'
  BY <1>1 DEF KeyLast, Committing, Accepted
<1> QED BY <1>2, <1>3, <1>4, <1>5 DEF IInv

\* The same with one layer changed.
LEMMA WorkingOne ==
  ASSUME IInv, TypeOK', outVars' = outVars, NEW q \in Role, NEW m,
         rl' = [rl EXCEPT ![q] = m],
         Good(m), m.sent_records = rl[q].sent_records, m.recv_records = rl[q].recv_records,
         m.key = rl[q].key, ~Lead.key,
         fstate' # "Done",
         call' = "commit" => lstate' = "Active" /\ q = "follower" /\ call = "commit"
  PROVE  IInv'
<1>1. rl \in [Role -> Layer] /\ \A p \in Role : Good(rl[p])
  BY DEF IInv, TypeOK, SequenceIntact, Good
<1>2. \A p \in Role : rl'[p] = IF p = q THEN m ELSE rl[p]
  BY <1>1
<1>3. "leader" \in Role
  BY DEF Role
<1>4. ~rl'["leader"].key
  BY <1>2, <1>3 DEF Lead
<1>5. call' = "commit" => lstate' = "Active" /\ rl'["leader"].encrypt_buffer = <<>>
  BY <1>2, <1>3 DEF IInv, Committing, Lead
<1>6. \A p \in Role : /\ Good(rl'[p])
                      /\ rl'[p].sent_records = rl[p].sent_records
                      /\ rl'[p].recv_records = rl[p].recv_records
  BY <1>1, <1>2
<1> QED BY <1>4, <1>5, <1>6, Working
LEMMA SendType ==
  ASSUME TypeOK, NEW m \in Message, Send(m)
  PROVE  chan' \in Seq(Message)
BY AppendProperties DEF TypeOK, Send

LEMMA ReceiveType ==
  ASSUME TypeOK, chan # <<>>
  PROVE  Head(chan) \in Message /\ Tail(chan) \in Seq(Message)
BY HeadTailProperties DEF TypeOK

\* What an accepting follower says of the leader
LEMMA AfterAcceptance ==
  ASSUME IInv, fstate = "Done"
  PROVE  lstate \in {"Closed", "Stopped"} /\ ~wants_flush(Lead)
BY DEF IInv, Accepted, wants_flush

-----------------------------------------------------------------------------
(***************************************************************************)
(* The actions.                                                            *)
(***************************************************************************)

LEMMA SetupStep ==
  ASSUME IInv, Setup
  PROVE  IInv'
<1>0. /\ TypeOK
      /\ fstate = "Done" => lstate \in {"Closed", "Stopped"}
      /\ call = "commit" => lstate = "Active"
      /\ \A p \in Role : Good(rl[p])
  BY AfterAcceptance DEF IInv, TypeOK, SequenceIntact, Good, Committing
<1>1. CASE leader_alloc
  <2> DEFINE m == alloc_layer(rl["leader"])
  <2>1. "leader" \in Role /\ Good(rl["leader"])
    BY <1>0 DEF Role
  <2>2. /\ Good(m) /\ m.sent_records = rl["leader"].sent_records
        /\ m.recv_records = rl["leader"].recv_records /\ m.key = rl["leader"].key
    BY <2>1, FlagsGood DEF alloc_layer, Good, Layer
  <2>3. rl' = [rl EXCEPT !["leader"] = m] /\ m \in Layer
    BY <1>1, <2>2 DEF leader_alloc, Good
  <2> HIDE DEF m
  <2>4. TypeOK'
    BY <1>0, <1>1, <2>3 DEF TypeOK, leader_alloc, hsVars, flagVars, outVars, fVars
  <2>5. ~Lead.key /\ fstate' # "Done" /\ call' # "commit" /\ outVars' = outVars
    BY <1>0, <1>1 DEF IInv, KeyLast, leader_alloc, Over, fVars
  <2> QED BY <2>1, <2>2, <2>3, <2>4, <2>5, WorkingOne
<1>2. CASE follower_alloc
  <2> DEFINE m == alloc_layer(rl["follower"])
  <2>1. "follower" \in Role /\ Good(rl["follower"])
    BY <1>0 DEF Role
  <2>2. /\ Good(m) /\ m.sent_records = rl["follower"].sent_records
        /\ m.recv_records = rl["follower"].recv_records /\ m.key = rl["follower"].key
    BY <2>1, FlagsGood DEF alloc_layer, Good, Layer
  <2>3. rl' = [rl EXCEPT !["follower"] = m] /\ m \in Layer
    BY <1>2, <2>2 DEF follower_alloc, Good
  <2> HIDE DEF m
  <2>4. TypeOK'
    BY <1>0, <1>2, <2>3 DEF TypeOK, follower_alloc, hsVars, flagVars, outVars
  <2>5. /\ ~Lead.key /\ fstate' # "Done" /\ outVars' = outVars
        /\ call' = "commit" => lstate' = "Active" /\ call = "commit"
    BY <1>0, <1>2 DEF IInv, KeyLast, follower_alloc, Gone
  <2> QED BY <2>1, <2>2, <2>3, <2>4, <2>5, WorkingOne
<1>3. CASE preprocess
  <2>1. TypeOK'
    BY <1>0, <1>3 DEF TypeOK, preprocess, hsVars, flagVars, outVars
  <2> QED BY <1>0, <1>3, <2>1, Quiet DEF preprocess, Over, Gone
<1>4. CASE follower_run
  <2>1. TypeOK'
    BY <1>0, <1>4 DEF TypeOK, follower_run, hsVars, flagVars, outVars
  <2> QED BY <1>0, <1>4, <2>1, Quiet DEF follower_run, Over, Gone
<1> QED BY <1>1, <1>2, <1>3, <1>4 DEF Setup

(***************************************************************************)
(* Calls that leave the record layers alone.                               *)
(***************************************************************************)
LEMMA QuietCall ==
  ASSUME IInv,
         \/ \E p \in LocalParams : set_param(p)
         \/ set_server_random \/ set_server_key_share \/ prepare_encryption
         \/ get_client_finished_vd \/ get_server_finished_vd
         \/ defer_decryption \/ stop \/ flush \/ close_connection
  PROVE  IInv'
<1>0. /\ TypeOK
      /\ fstate = "Done" => lstate \in {"Closed", "Stopped"} /\ ~wants_flush(Lead)
      /\ call = "commit" => lstate = "Active"
  BY AfterAcceptance DEF IInv, Committing
<1>1. ASSUME NEW p \in LocalParams, set_param(p)
      PROVE  IInv'
  <2>1. TypeOK'
    BY <1>0, <1>1 DEF TypeOK, Params, set_param, hsVars, flagVars, outVars, fVars
  <2> QED BY <1>0, <1>1, <2>1, Quiet DEF set_param, fVars, Over, Gone
<1>2. CASE set_server_random
  <2>1. chan' \in Seq(Message)
    BY <1>0, <1>2, SendType, MessagesAre DEF set_server_random
  <2>2. TypeOK'
    BY <1>0, <1>2, <2>1 DEF TypeOK, set_server_random, Params, PrfStates, hsVars, flagVars, outVars, fVars
  <2> QED BY <1>0, <1>2, <2>2, Quiet DEF set_server_random, Idle, fVars, Over, Gone
<1>3. CASE set_server_key_share
  <2>1. chan' \in Seq(Message)
    BY <1>0, <1>3, SendType, MessagesAre DEF set_server_key_share
  <2>2. TypeOK'
    BY <1>0, <1>3, <2>1 DEF TypeOK, set_server_key_share, Params, hsVars, flagVars, outVars, fVars
  <2> QED BY <1>0, <1>3, <2>2, Quiet DEF set_server_key_share, Idle, fVars, Over, Gone
<1>4. CASE prepare_encryption
  <2>1. chan' \in Seq(Message)
    BY <1>0, <1>4 DEF TypeOK, prepare_encryption
  <2>2. /\ rl' = rl /\ outVars' = outVars /\ fVars' = fVars
        /\ flagVars' = flagVars /\ link' = link /\ params' = params /\ lprf' \in PrfStates
        /\ lstate \in {"Handshake", "Active"}
        /\ \/ lstate' = "Error" /\ lerr' \in Errors /\ call' = "none"
           \/ lstate' = lstate /\ lerr' = lerr /\ call' = "prepare_encryption"
    BY <1>0, <1>4 DEF prepare_encryption, TypeOK, LeaderFails, LeaderWaits, PrfStates, Errors, hsVars
  <2>3. TypeOK'
    BY <1>0, <2>1, <2>2 DEF TypeOK, flagVars, outVars, fVars
  <2> QED BY <1>0, <2>2, <2>3, Quiet DEF fVars, Over, Gone
<1>5. CASE get_client_finished_vd
  <2>1. chan' \in Seq(Message)
    BY <1>0, <1>5, SendType, MessagesAre DEF get_client_finished_vd
  <2>2. /\ rl' = rl /\ outVars' = outVars /\ fVars' = fVars
        /\ flagVars' = flagVars /\ link' = link /\ params' = params /\ lprf' \in PrfStates
        /\ lstate \in {"Handshake", "Active"}
        /\ \/ lstate' = "Error" /\ lerr' \in Errors /\ call' = "none"
           \/ lstate' = lstate /\ lerr' = lerr /\ call' = "client_finished"
    BY <1>0, <1>5 DEF get_client_finished_vd, TypeOK, LeaderFails, LeaderWaits, PrfStates, Errors, hsVars
  <2>3. TypeOK'
    BY <1>0, <2>1, <2>2 DEF TypeOK, flagVars, outVars, fVars
  <2> QED BY <1>0, <2>2, <2>3, Quiet DEF fVars, Over, Gone
<1>6. CASE get_server_finished_vd
  <2>1. chan' \in Seq(Message)
    BY <1>0, <1>6, SendType, MessagesAre DEF get_server_finished_vd
  <2>2. /\ rl' = rl /\ outVars' = outVars /\ fVars' = fVars
        /\ flagVars' = flagVars /\ link' = link /\ params' = params /\ lprf' \in PrfStates
        /\ lstate \in {"Handshake", "Active"}
        /\ \/ lstate' = "Error" /\ lerr' \in Errors /\ call' = "none"
           \/ lstate' = lstate /\ lerr' = lerr /\ call' = "server_finished"
    BY <1>0, <1>6 DEF get_server_finished_vd, TypeOK, LeaderFails, LeaderWaits, PrfStates, Errors, hsVars
  <2>3. TypeOK'
    BY <1>0, <2>1, <2>2 DEF TypeOK, flagVars, outVars, fVars
  <2> QED BY <1>0, <2>2, <2>3, Quiet DEF fVars, Over, Gone
<1>7. CASE defer_decryption
  <2>2. TypeOK'
    BY <1>0, <1>7 DEF TypeOK, defer_decryption, hsVars, flagVars, outVars, fVars
  <2> QED BY <1>0, <1>7, <2>2, Quiet DEF defer_decryption, Idle, fVars, Over, Gone
<1>8. CASE stop
  <2>2. TypeOK'
    BY <1>0, <1>8 DEF TypeOK, stop, hsVars, flagVars, outVars, fVars
  <2> QED BY <1>0, <1>8, <2>2, Quiet DEF stop, Idle, fVars, Over, Gone
<1>9. CASE flush
  <2>1. chan' \in Seq(Message)
    BY <1>0, <1>9, SendType, MessagesAre DEF flush, TypeOK
  <2>2. FlushError(Lead, is_decrypting, TRUE) \in Errors
    BY ErrorsType
  <2>3. /\ rl' = rl /\ outVars' = outVars /\ fVars' = fVars /\ wants_flush(Lead)
        /\ lstate \in {"Active", "Closed"} /\ hsVars' = hsVars /\ flagVars' = flagVars /\ link' = link
        /\ \/ lstate' = "Error" /\ lerr' \in Errors /\ call' = "none"
           \/ lstate' = lstate /\ lerr' = lerr /\ call' \in {"none", "flush"}
    BY <1>9, <2>2 DEF flush, LeaderFails, LeaderContinues, LeaderWaits, Idle
  <2>4. TypeOK'
    BY <1>0, <2>1, <2>3 DEF TypeOK, hsVars, flagVars, outVars, fVars
  <2> QED BY <1>0, <2>3, <2>4, Quiet DEF fVars, Over, Gone
<1>10. CASE close_connection
  <2>1. chan' \in Seq(Message)
    BY <1>0, <1>10, SendType, MessagesAre DEF close_connection, TypeOK
  <2>2. CommitError(Lead) \in Errors /\ "state" \in Errors
    BY ErrorsType DEF Errors
  <2>3. CommitError(Lead) = "none" => Lead.encrypt_buffer = <<>>
    BY DEF CommitError
  <2>4. /\ rl' = rl /\ outVars' = outVars /\ fVars' = fVars
        /\ lstate \in {"Handshake", "Active"} /\ hsVars' = hsVars /\ flagVars' = flagVars /\ link' = link
        /\ \/ lstate' = "Error" /\ lerr' \in Errors /\ call' = "none"
           \/ lstate = "Active" /\ lstate' = lstate /\ lerr' = lerr /\ call' = "commit"
                /\ Lead.encrypt_buffer = <<>>
    BY <1>10, <2>2, <2>3 DEF close_connection, LeaderFails, LeaderWaits
  <2>5. TypeOK'
    BY <1>0, <2>1, <2>4 DEF TypeOK, hsVars, flagVars, outVars, fVars
  <2> QED BY <1>0, <2>4, <2>5, Quiet DEF fVars, Over, Gone
<1> QED BY <1>1, <1>2, <1>3, <1>4, <1>5, <1>6, <1>7, <1>8, <1>9, <1>10

(***************************************************************************)
(* Calls that push and take records.                                       *)
(***************************************************************************)
LEMMA RecordCall ==
  ASSUME IInv,
         \/ \E r \in Incoming : push_incoming(r)
         \/ \E r \in Outgoing : push_outgoing(r)
         \/ next_incoming \/ next_outgoing \/ start_traffic
  PROVE  IInv'
<1>0. /\ TypeOK
      /\ fstate = "Done" => lstate \in {"Closed", "Stopped"}
      /\ Lead.key => lstate \in Over
      /\ "leader" \in Role /\ Good(rl["leader"]) /\ rl["leader"] \in Layer
      /\ Lead = rl["leader"]
  BY AfterAcceptance DEF IInv, KeyLast, TypeOK, SequenceIntact, Good, Role, Lead
<1>1. ASSUME NEW r \in Incoming, push_incoming(r)
      PROVE  IInv'
  <2>1. CASE CanDecrypt(Lead, r)
    <3> DEFINE m == push_decrypt(rl["leader"], r)
    <3>1. Good(m)
      BY <1>0, PushDecryptGood, RecordAssumption
    <3>2. m.sent_records = rl["leader"].sent_records /\ m.recv_records = rl["leader"].recv_records
          /\ m.key = rl["leader"].key /\ m \in Layer
      BY <1>0, <3>1, OthersKept DEF Good
    <3>3. rl' = [rl EXCEPT !["leader"] = m]
      BY <1>1, <2>1 DEF push_incoming
    <3> HIDE DEF m
    <3>4. chan' \in Seq(Message)
      BY <1>0, <1>1, <2>1, SendType, MessagesAre DEF push_incoming
    <3>5. TypeOK'
      BY <1>0, <1>1, <2>1, <3>2, <3>3, <3>4
         DEF TypeOK, push_incoming, LeaderContinues, hsVars, flagVars, outVars, fVars
    <3>6. /\ ~Lead.key /\ fstate' # "Done" /\ call' # "commit" /\ outVars' = outVars
      BY <1>0, <1>1, <2>1 DEF push_incoming, Idle, LeaderContinues, Over, fVars
    <3> QED BY <1>0, <3>1, <3>2, <3>3, <3>5, <3>6, WorkingOne
  <2>2. CASE ~CanDecrypt(Lead, r)
    <3>1. /\ rl' = rl /\ outVars' = outVars /\ fVars' = fVars /\ chan' = chan /\ link' = link
          /\ hsVars' = hsVars /\ flagVars' = flagVars /\ lstate \in {"Handshake", "Active"}
          /\ lstate' = "Error" /\ lerr' \in Errors /\ call' = "none"
      BY <1>1, <2>2 DEF push_incoming, LeaderFails, Errors
    <3>2. TypeOK'
      BY <1>0, <3>1 DEF TypeOK, hsVars, flagVars, outVars, fVars
    <3> QED BY <1>0, <3>1, <3>2, Quiet DEF fVars, Over, Gone
  <2> QED BY <2>1, <2>2
<1>2. ASSUME NEW r \in Outgoing, push_outgoing(r)
      PROVE  IInv'
  <2>1. CASE CanEncrypt(Lead, r)
    <3> DEFINE m == push_encrypt(rl["leader"], r)
    <3>1. Good(m)
      BY <1>0, PushEncryptGood, RecordAssumption
    <3>2. m.sent_records = rl["leader"].sent_records /\ m.recv_records = rl["leader"].recv_records
          /\ m.key = rl["leader"].key /\ m \in Layer
      BY <1>0, <3>1, OthersKept DEF Good
    <3>3. rl' = [rl EXCEPT !["leader"] = m]
      BY <1>2, <2>1 DEF push_outgoing
    <3> HIDE DEF m
    <3>4. chan' \in Seq(Message)
      BY <1>0, <1>2, <2>1, SendType, MessagesAre DEF push_outgoing
    <3>5. TypeOK'
      BY <1>0, <1>2, <2>1, <3>2, <3>3, <3>4
         DEF TypeOK, push_outgoing, LeaderContinues, hsVars, flagVars, outVars, fVars
    <3>6. /\ ~Lead.key /\ fstate' # "Done" /\ call' # "commit" /\ outVars' = outVars
      BY <1>0, <1>2, <2>1 DEF push_outgoing, Idle, LeaderContinues, Over, fVars
    <3> QED BY <1>0, <3>1, <3>2, <3>3, <3>5, <3>6, WorkingOne
  <2>2. CASE ~CanEncrypt(Lead, r)
    <3>1. /\ rl' = rl /\ outVars' = outVars /\ fVars' = fVars /\ chan' = chan /\ link' = link
          /\ hsVars' = hsVars /\ flagVars' = flagVars /\ lstate \in {"Handshake", "Active"}
          /\ lstate' = "Error" /\ lerr' \in Errors /\ call' = "none"
      BY <1>2, <2>2 DEF push_outgoing, LeaderFails, Errors
    <3>2. TypeOK'
      BY <1>0, <3>1 DEF TypeOK, hsVars, flagVars, outVars, fVars
    <3> QED BY <1>0, <3>1, <3>2, Quiet DEF fVars, Over, Gone
  <2> QED BY <2>1, <2>2
<1>3. CASE next_incoming
  <2>1. /\ delivered \in Seq(DecryptOp) /\ decrypted_buffer \in Seq(DecryptOp) /\ decrypted_buffer # <<>>
        /\ delivered' = Append(delivered, Head(decrypted_buffer)) /\ decrypted_buffer' = Tail(decrypted_buffer)
    BY <1>0, <1>3 DEF next_incoming, TypeOK, Available
  <2>2. delivered' \in Seq(DecryptOp) /\ decrypted_buffer' \in Seq(DecryptOp) /\ delivered' \o decrypted_buffer' = delivered \o decrypted_buffer
    BY <2>1, TakeHead
  <2>3. /\ UNCHANGED <<rl, chan, link, lstate, call, params, lprf, is_decrypting, notify, lerr>>
        /\ UNCHANGED <<encrypted_buffer, wire, fstate, fset, fprf, ferr>>
    BY <1>3 DEF next_incoming, hsVars, flagVars, fVars
  <2>4. TypeOK'
    BY <1>0, <2>2, <2>3 DEF TypeOK
  <2>5. Lead' = Lead /\ Follow' = Follow
    BY <2>3 DEF Lead, Follow
  <2>6. TranscriptIsTheConnection'
    BY <2>2, <2>3, <2>5 DEF IInv, TranscriptIsTheConnection
  <2>7. SequenceIntact' /\ Verified' /\ Synced' /\ KeyLast' /\ Committing' /\ Accepted'
    BY <2>3, <2>5 DEF IInv, SequenceIntact, Verified, Synced, KeyLast, Committing, Accepted
  <2> QED BY <2>4, <2>6, <2>7 DEF IInv
<1>4. CASE next_outgoing
  <2>1. /\ wire \in Seq(EncryptOp) /\ encrypted_buffer \in Seq(EncryptOp) /\ encrypted_buffer # <<>>
        /\ wire' = Append(wire, Head(encrypted_buffer)) /\ encrypted_buffer' = Tail(encrypted_buffer)
    BY <1>0, <1>4 DEF next_outgoing, TypeOK, Available
  <2>2. wire' \in Seq(EncryptOp) /\ encrypted_buffer' \in Seq(EncryptOp) /\ wire' \o encrypted_buffer' = wire \o encrypted_buffer
    BY <2>1, TakeHead
  <2>3. /\ UNCHANGED <<rl, chan, link, lstate, call, params, lprf, is_decrypting, notify, lerr>>
        /\ UNCHANGED <<decrypted_buffer, delivered, fstate, fset, fprf, ferr>>
    BY <1>4 DEF next_outgoing, hsVars, flagVars, fVars
  <2>4. TypeOK'
    BY <1>0, <2>2, <2>3 DEF TypeOK
  <2>5. Lead' = Lead /\ Follow' = Follow
    BY <2>3 DEF Lead, Follow
  <2>6. TranscriptIsTheConnection'
    BY <2>2, <2>3, <2>5 DEF IInv, TranscriptIsTheConnection
  <2>7. SequenceIntact' /\ Verified' /\ Synced' /\ KeyLast' /\ Committing' /\ Accepted'
    BY <2>3, <2>5 DEF IInv, SequenceIntact, Verified, Synced, KeyLast, Committing, Accepted
  <2> QED BY <2>4, <2>6, <2>7 DEF IInv
<1>5. CASE start_traffic
  <2> DEFINE m == start_layer(rl["leader"])
  <2>1. Good(m)
    BY <1>0, FlagsGood
  <2>2. m.sent_records = rl["leader"].sent_records /\ m.recv_records = rl["leader"].recv_records
        /\ m.key = rl["leader"].key /\ m \in Layer
    BY <1>0, <2>1, OthersKept DEF Good
  <2>3. rl' = [rl EXCEPT !["leader"] = m]
    BY <1>5 DEF start_traffic
  <2> HIDE DEF m
  <2>4. chan' \in Seq(Message)
    BY <1>0, <1>5, SendType, MessagesAre DEF start_traffic
  <2>5. TypeOK'
    BY <1>0, <1>5, <2>2, <2>3, <2>4 DEF TypeOK, start_traffic, hsVars, flagVars, outVars, fVars
  <2>6. /\ ~Lead.key /\ fstate' # "Done" /\ call' # "commit" /\ outVars' = outVars
    BY <1>0, <1>5 DEF start_traffic, Idle, Over, fVars
  <2> QED BY <1>0, <2>1, <2>2, <2>3, <2>5, <2>6, WorkingOne
<1> QED BY <1>1, <1>2, <1>3, <1>4, <1>5

(***************************************************************************)
(* The follower, and the loss of the other party.                          *)
(***************************************************************************)
LEMMA FollowerStep ==
  ASSUME IInv, Handle \/ Lose \/ break_link \/ Ended \/ UNCHANGED vars
  PROVE  IInv'
<1>0. /\ TypeOK
      /\ fstate = "Done" => lstate \in {"Closed", "Stopped"}
      /\ Lead.key => fstate \in Gone
      /\ call = "commit" => lstate = "Active"
      /\ "follower" \in Role /\ Good(rl["follower"]) /\ rl["follower"] \in Layer
  BY AfterAcceptance DEF IInv, KeyLast, Committing, TypeOK, SequenceIntact, Good, Role
<1>1. CASE follower_rejects
  <2>1. Tail(chan) \in Seq(Message) /\ Rejected(Head(chan)) \in Errors
    BY <1>0, <1>1, ReceiveType, RejectedType DEF follower_rejects
  <2>2. TypeOK'
    BY <1>0, <1>1, <2>1 DEF TypeOK, follower_rejects, FollowerFails, leaderSide, hsVars, flagVars, outVars
  <2> QED BY <1>0, <1>1, <2>2, Quiet DEF follower_rejects, FollowerFails, leaderSide, Over, Gone
<1>2. CASE follower_random
  <2>1. Tail(chan) \in Seq(Message)
    BY <1>0, <1>2, ReceiveType DEF follower_random, Handles
  <2>2. TypeOK'
    BY <1>0, <1>2, <2>1 DEF TypeOK, follower_random, PrfStates, leaderSide, hsVars, flagVars, outVars
  <2> QED BY <1>0, <1>2, <2>2, Quiet DEF follower_random, leaderSide, Over, Gone
<1>3. CASE follower_record
  <2> DEFINE h == Head(chan)
             m == Applied(rl["follower"], h)
  <2>1. h \in Message /\ Tail(chan) \in Seq(Message) /\ h.type \in {"Encrypt", "Decrypt", "StartTraffic", "Flush"}
    BY <1>0, <1>3, ReceiveType DEF follower_record, Handles
  <2>2. /\ rl' = [rl EXCEPT !["follower"] = m] /\ chan' = Tail(chan)
        /\ fVars' = fVars /\ leaderSide' = leaderSide /\ fstate = "Running"
    BY <1>3 DEF follower_record, Handles
  <2> HIDE DEF h
  <2>3. /\ Good(m) /\ m.sent_records = rl["follower"].sent_records
        /\ m.recv_records = rl["follower"].recv_records /\ m.key = rl["follower"].key
    <3>1. CASE h.type = "Encrypt"
      <4>1. m = push_encrypt(rl["follower"], h.rec)
        BY <3>1 DEF Applied
      <4> QED BY <1>0, <2>1, <3>1, <4>1, MessageFields, PushEncryptGood, OthersKept
    <3>2. CASE h.type = "Decrypt"
      <4>1. m = push_decrypt(rl["follower"], h.rec)
        BY <3>2 DEF Applied
      <4> QED BY <1>0, <2>1, <3>2, <4>1, MessageFields, PushDecryptGood, OthersKept
    <3>3. CASE h.type = "StartTraffic"
      <4>1. m = start_layer(rl["follower"])
        BY <3>3 DEF Applied
      <4> QED BY <1>0, <4>1, FlagsGood, OthersKept
    <3>4. CASE h.type = "Flush"
      <4>1. m = rl["follower"]
        BY <3>4 DEF Applied
      <4> QED BY <1>0, <4>1
    <3> QED BY <2>1, <3>1, <3>2, <3>3, <3>4
  <2>4. m \in Layer
    BY <2>3 DEF Good
  <2> HIDE DEF m
  <2>5. TypeOK'
    BY <1>0, <2>1, <2>2, <2>4 DEF TypeOK, fVars, leaderSide, hsVars, flagVars, outVars
  <2>6. /\ ~Lead.key /\ fstate' # "Done" /\ outVars' = outVars
        /\ call' = "commit" => lstate' = "Active" /\ call = "commit"
    BY <1>0, <2>2 DEF Gone, fVars, leaderSide
  <2> QED BY <1>0, <2>2, <2>3, <2>5, <2>6, WorkingOne
<1>4. CASE leader_loses_peer
  <2>1. TypeOK'
    BY <1>0, <1>4 DEF TypeOK, leader_loses_peer, LeaderFails, Errors, hsVars, flagVars, outVars, fVars
  <2> QED BY <1>0, <1>4, <2>1, Quiet DEF leader_loses_peer, LeaderFails, fVars, Over, Gone
<1>5. CASE follower_loses_peer
  <2>0. ferr' \in Errors /\ fstate' = "Error" /\ fset' = fset /\ fprf' = fprf
        /\ rl' = rl /\ chan' = chan /\ leaderSide' = leaderSide
    BY <1>5 DEF follower_loses_peer, FollowerFails, Errors
  <2>1. TypeOK'
    BY <1>0, <2>0 DEF TypeOK, leaderSide, hsVars, flagVars, outVars
  <2> QED BY <1>0, <1>5, <2>1, Quiet DEF follower_loses_peer, FollowerFails, leaderSide, Over, Gone
<1>6. CASE break_link
  <2>1. TypeOK'
    BY <1>0, <1>6 DEF TypeOK, break_link, hsVars, flagVars, outVars, fVars
  <2> QED BY <1>0, <1>6, <2>1, Quiet DEF break_link, fVars, Over, Gone
<1>7. CASE UNCHANGED vars
  <2>1. TypeOK'
    BY <1>0, <1>7 DEF TypeOK, vars
  <2>2. rl' = rl /\ outVars' = outVars /\ fstate' = fstate /\ lstate' = lstate /\ call' = call
    BY <1>7 DEF vars, outVars
  <2> QED BY <1>0, <2>1, <2>2, Quiet
<1> QED BY <1>1, <1>2, <1>3, <1>4, <1>5, <1>6, <1>7 DEF Handle, Lose, Ended

-----------------------------------------------------------------------------
(***************************************************************************)
(* The computations of both parties.                                       *)
(***************************************************************************)
LEMMA HandshakeCompute ==
  ASSUME IInv, compute_keys \/ compute_client_finished \/ compute_server_finished
  PROVE  IInv'
<1>0. /\ TypeOK
      /\ fstate = "Done" => lstate \in {"Closed", "Stopped"}
      /\ Lead.key => fstate \in Gone
      /\ \A p \in Role : Good(rl[p]) /\ rl[p] \in Layer
      /\ "leader" \in Role /\ rl \in [Role -> Layer]
  BY AfterAcceptance DEF IInv, KeyLast, TypeOK, SequenceIntact, Good, Role
<1>1. Tail(chan) \in Seq(Message) /\ fstate = "Running"
  BY <1>0, ReceiveType
     DEF compute_keys, compute_client_finished, compute_server_finished, Together, Handles
<1>2. CASE compute_keys
  <2>1. ASSUME NEW p \in Role
        PROVE  /\ Good(rl'[p]) /\ rl'[p].sent_records = rl[p].sent_records
               /\ rl'[p].recv_records = rl[p].recv_records /\ rl'[p].key = rl[p].key
    <3>1. rl'[p] = setup_layer(rl[p])
      BY <1>2 DEF compute_keys
    <3> QED BY <1>0, <3>1, FlagsGood, OthersKept
  <2>2. rl' = [p \in Role |-> setup_layer(rl[p])] /\ \A p \in Role : setup_layer(rl[p]) \in Layer
    BY <1>0, <1>2, FlagsGood DEF compute_keys, Good
  <2>3. rl' \in [Role -> Layer]
    BY <2>2
  <2>4. TypeOK'
    BY <1>0, <1>1, <1>2, <2>3 DEF TypeOK, compute_keys, Together, hsVars, outVars
  <2>5. /\ ~rl'["leader"].key /\ fstate' # "Done" /\ call' # "commit" /\ outVars' = outVars
    BY <1>0, <1>1, <1>2, <2>1 DEF compute_keys, Together, Gone, Lead
  <2> QED BY <2>1, <2>4, <2>5, Working
<1>3. CASE compute_client_finished
  <2>1. TypeOK'
    BY <1>0, <1>1, <1>3 DEF TypeOK, compute_client_finished, Together, PrfStates, hsVars, outVars
  <2> QED BY <1>0, <1>1, <1>3, <2>1, Quiet DEF compute_client_finished, Together, Over, Gone
<1>4. CASE compute_server_finished
  <2>1. TypeOK'
    BY <1>0, <1>1, <1>4 DEF TypeOK, compute_server_finished, Together, PrfStates, hsVars, outVars
  <2> QED BY <1>0, <1>1, <1>4, <2>1, Quiet DEF compute_server_finished, Together, Over, Gone
<1> QED BY <1>2, <1>3, <1>4

\* A failed computation ends both parties and leaves the layers alone.
LEMMA FailedCompute ==
  ASSUME IInv, fstate = "Running", rl' = rl, NEW why \in Errors, BothFail(why), call' = "none",
         Tail(chan) \in Seq(Message), chan' = Tail(chan),
         UNCHANGED <<link, hsVars, is_decrypting>>
  PROVE  IInv'
<1>1. TypeOK'
  BY DEF IInv, TypeOK, BothFail, hsVars, outVars
<1> QED BY <1>1, Quiet DEF BothFail, Over, Gone

LEMMA FlushCompute ==
  ASSUME IInv, compute_flush
  PROVE  IInv'
<1> DEFINE theirs == Head(chan).is_decrypting
           ops == FlushOps(Lead, is_decrypting)
<1>0. /\ TypeOK /\ Lead = rl["leader"] /\ Follow = rl["follower"]
      /\ Good(Lead) /\ Good(Follow) /\ Lead \in Layer /\ Follow \in Layer
      /\ rl \in [Role -> Layer] /\ Role = {"leader", "follower"}
  BY DEF IInv, TypeOK, SequenceIntact, Good, Role, Lead, Follow
<1>1. /\ Tail(chan) \in Seq(Message) /\ fstate = "Running" /\ theirs \in BOOLEAN
      /\ is_decrypting \in BOOLEAN /\ chan' = Tail(chan) /\ call' = "none"
      /\ UNCHANGED <<link, hsVars, is_decrypting>>
  BY <1>0, ReceiveType, MessageFields DEF compute_flush, Together, Handles, TypeOK
<1>2. ops \in Seq(DecryptOp)
  BY <1>0, <1>1, FlushOpsType
<1>3. CASE ~(Lead.encrypt_buffer = Follow.encrypt_buffer /\ TagsVerify(ops, FlushOps(Follow, theirs)))
  <2>1. rl' = rl /\ BothFail("tag") /\ "tag" \in Errors
    BY <1>3 DEF compute_flush, Errors
  <2> QED BY <1>1, <2>1, FailedCompute
<1>4. CASE Lead.encrypt_buffer = Follow.encrypt_buffer /\ TagsVerify(ops, FlushOps(Follow, theirs))
  <2>1. FlushOps(Follow, theirs) = ops /\ VerifyTags(ops) /\ Follow.encrypt_buffer = Lead.encrypt_buffer
    BY <1>4 DEF TagsVerify
  <2>2. /\ rl' = [rl EXCEPT !["leader"] = flush_layer(Lead, is_decrypting),
                            !["follower"] = flush_layer(Follow, theirs)]
        /\ encrypted_buffer' = encrypted_buffer \o Lead.encrypt_buffer
        /\ decrypted_buffer' = decrypted_buffer \o ops
        /\ UNCHANGED <<wire, delivered, lstate, lerr, notify, fVars>>
    BY <1>0, <1>4 DEF compute_flush
  <2>3. Lead' = flush_layer(Lead, is_decrypting) /\ Follow' = flush_layer(Follow, theirs)
    BY <1>0, <2>2 DEF Lead, Follow
  <2>4. /\ Good(Lead') /\ Lead'.sent_records = Lead.sent_records \o Lead.encrypt_buffer
        /\ Lead'.recv_records = Lead.recv_records \o ops /\ Lead'.key = Lead.key
    BY <1>0, <1>1, <2>3, FlushGood
  <2>5. /\ Good(Follow') /\ Follow'.sent_records = Follow.sent_records \o Lead.encrypt_buffer
        /\ Follow'.recv_records = Follow.recv_records \o ops
    <3>1. /\ Good(Follow') /\ Follow'.sent_records = Follow.sent_records \o Follow.encrypt_buffer
          /\ Follow'.recv_records = Follow.recv_records \o FlushOps(Follow, theirs)
      <4> HIDE DEF theirs
      <4> QED BY <1>0, <1>1, <2>3, FlushGood
    <3> QED BY <2>1, <3>1
  <2>6. /\ Lead.encrypt_buffer \in Seq(EncryptOp) /\ encrypted_buffer \in Seq(EncryptOp)
        /\ wire \in Seq(EncryptOp) /\ decrypted_buffer \in Seq(DecryptOp) /\ delivered \in Seq(DecryptOp)
        /\ Follow.recv_records \in Seq(DecryptOp)
    BY <1>0 DEF Layer, TypeOK
  <2>7. /\ encrypted_buffer' \in Seq(EncryptOp) /\ decrypted_buffer' \in Seq(DecryptOp)
        /\ wire \o encrypted_buffer' = (wire \o encrypted_buffer) \o Lead.encrypt_buffer
        /\ delivered \o decrypted_buffer' = (delivered \o decrypted_buffer) \o ops
    <3> HIDE DEF ops
    <3>1. encrypted_buffer' \in Seq(EncryptOp) /\ decrypted_buffer' \in Seq(DecryptOp)
      BY <1>2, <2>2, <2>6, ConcatProperties
    <3>2. wire \o (encrypted_buffer \o Lead.encrypt_buffer) = (wire \o encrypted_buffer) \o Lead.encrypt_buffer
      BY <2>6, Regroup
    <3>3. delivered \o (decrypted_buffer \o ops) = (delivered \o decrypted_buffer) \o ops
      BY <1>2, <2>6, Regroup
    <3> QED BY <2>2, <3>1, <3>2, <3>3
  <2>8. rl' \in [Role -> Layer]
    <3>1. flush_layer(Lead, is_decrypting) \in Layer /\ flush_layer(Follow, theirs) \in Layer
      BY <2>3, <2>4, <2>5 DEF Good
    <3> QED BY <1>0, <2>2, <3>1
  <2>9. TypeOK'
    BY <1>0, <1>1, <2>2, <2>7, <2>8 DEF TypeOK, hsVars, fVars
  <2>10. SequenceIntact'
    <3>1. \A p \in Role : rl'[p] = Lead' \/ rl'[p] = Follow'
      BY <1>0 DEF Lead, Follow
    <3>2. LayerNumbered(Lead') /\ LayerNumbered(Follow')
      BY <2>4, <2>5 DEF Good
    <3> QED BY <3>1, <3>2 DEF SequenceIntact
  <2>11. Synced'
    BY <2>4, <2>5 DEF IInv, Synced
  <2>12. TranscriptIsTheConnection'
    BY <2>2, <2>5, <2>7 DEF IInv, TranscriptIsTheConnection
  <2>13. Verified'
    <3>1. VerifyTags(Follow'.recv_records)
      BY <1>0, <1>2, <2>1, <2>5, <2>6, VerifyTagsConcat DEF IInv, Verified
    <3>2. \A p \in Role : rl'[p].recv_records = Follow'.recv_records
      BY <1>0, <2>11 DEF Synced, Lead, Follow
    <3> QED BY <3>1, <3>2 DEF Verified
  <2>14. KeyLast' /\ Committing' /\ Accepted'
    BY <1>1, <2>2, <2>4 DEF IInv, KeyLast, Committing, Accepted, Gone, fVars
  <2> QED BY <2>9, <2>10, <2>11, <2>12, <2>13, <2>14 DEF IInv
<1> QED BY <1>3, <1>4

LEMMA CommitCompute ==
  ASSUME IInv, compute_commit
  PROVE  IInv'
<1> DEFINE ops == Lead.decrypt_buffer
<1>0. /\ TypeOK /\ Lead = rl["leader"] /\ Follow = rl["follower"]
      /\ Good(Lead) /\ Good(Follow) /\ Lead \in Layer /\ Follow \in Layer
      /\ rl \in [Role -> Layer] /\ Role = {"leader", "follower"}
  BY DEF IInv, TypeOK, SequenceIntact, Good, Role, Lead, Follow
<1>1. /\ Tail(chan) \in Seq(Message) /\ fstate = "Running" /\ chan' = Tail(chan) /\ call' = "none"
      /\ Lead.encrypt_buffer = <<>> /\ UNCHANGED <<link, hsVars, is_decrypting>>
  BY <1>0, ReceiveType DEF compute_commit, Together, Handles, IInv, Committing
<1>2. /\ ops \in Seq(DecryptOp) /\ encrypted_buffer \in Seq(EncryptOp) /\ wire \in Seq(EncryptOp)
      /\ decrypted_buffer \in Seq(DecryptOp) /\ delivered \in Seq(DecryptOp)
      /\ Follow.recv_records \in Seq(DecryptOp)
  BY <1>0 DEF Layer, TypeOK
<1>3. CASE ~TagsVerify(ops, Follow.decrypt_buffer)
  <2>1. rl' = rl /\ BothFail("tag") /\ "tag" \in Errors
    BY <1>3 DEF compute_commit, Errors
  <2> QED BY <1>1, <2>1, FailedCompute
<1>4. CASE TagsVerify(ops, Follow.decrypt_buffer) /\ ~CommitKeystream(Lead)
  <2>1. Follow.decrypt_buffer = ops /\ VerifyTags(ops)
    BY <1>4 DEF TagsVerify
  <2>2. rl' = [p \in Role |-> decode_key(rl[p])] /\ BothFail("keystream")
    BY <1>4 DEF compute_commit
  <2>3. Lead' = decode_key(Lead) /\ Follow' = decode_key(Follow)
    BY <1>0, <2>2 DEF Lead, Follow
  <2>4. \A l \in {Lead, Follow} :
          /\ decode_key(l).sent_records = l.sent_records /\ decode_key(l).recv_records = l.recv_records
          /\ decode_key(l).decrypt_buffer = l.decrypt_buffer
    BY <1>0 DEF decode_key, Layer
  <2>5. Good(Lead') /\ Good(Follow') /\ \A p \in Role : rl'[p] = Lead' \/ rl'[p] = Follow'
    BY <1>0, <2>3, FlagsGood DEF Lead, Follow
  <2>6. rl' \in [Role -> Layer]
    BY <1>0, <2>2, FlagsGood DEF Good
  <2>7. TypeOK'
    BY <1>0, <1>1, <2>2, <2>6 DEF TypeOK, BothFail, Errors, hsVars, outVars
  <2>8. SequenceIntact'
    BY <2>5 DEF SequenceIntact, Good
  <2>9. Synced' /\ TranscriptIsTheConnection'
    BY <2>2, <2>3, <2>4 DEF IInv, Synced, TranscriptIsTheConnection, BothFail, outVars
  <2>10. Verified'
    BY <1>0, <2>3, <2>4, <2>5 DEF IInv, Verified
  <2>11. KeyLast'
    BY <2>1, <2>2, <2>3, <2>4 DEF KeyLast, BothFail, Gone, Over
  <2>12. Committing' /\ Accepted'
    BY <1>1, <2>2 DEF Committing, Accepted, BothFail
  <2> QED BY <2>7, <2>8, <2>9, <2>10, <2>11, <2>12 DEF IInv
<1>5. CASE TagsVerify(ops, Follow.decrypt_buffer) /\ CommitKeystream(Lead)
  <2> DEFINE committed == [p \in Role |-> commit_layer(rl[p])]
  <2>1. Follow.decrypt_buffer = ops /\ VerifyTags(ops)
    BY <1>5 DEF TagsVerify
  <2>2. /\ rl' = committed
        /\ lstate' = "Closed" /\ lerr' = lerr
        /\ decrypted_buffer' = decrypted_buffer \o ops
        /\ notify' = (notify \/ encrypted_buffer # <<>> \/ decrypted_buffer \o ops # <<>>)
        /\ fstate' = IF RunError(committed["follower"]) = "none" THEN "Done" ELSE "Error"
        /\ ferr' = RunError(committed["follower"])
        /\ UNCHANGED <<encrypted_buffer, wire, delivered, fset, fprf>>
    BY <1>5 DEF compute_commit
  <2>3. Lead' = commit_layer(Lead) /\ Follow' = commit_layer(Follow) /\ committed["follower"] = Follow'
    BY <1>0, <2>2 DEF Lead, Follow
  <2>4. /\ Good(Lead') /\ Lead'.sent_records = Lead.sent_records
        /\ Lead'.recv_records = Lead.recv_records \o ops
        /\ Lead'.encrypt_buffer = <<>> /\ Lead'.decrypt_buffer = <<>>
    BY <1>0, <1>1, <2>3, CommitGood
  <2>5. /\ Good(Follow') /\ Follow'.sent_records = Follow.sent_records
        /\ Follow'.recv_records = Follow.recv_records \o ops /\ Follow'.decrypt_buffer = <<>>
    BY <1>0, <2>1, <2>3, CommitGood
  <2>6. rl' \in [Role -> Layer]
    <3>1. \A p \in Role : commit_layer(rl[p]) \in Layer
      BY <1>0, CommitGood DEF Good
    <3> QED BY <2>2, <3>1
  <2>7. /\ fstate' \in {"Done", "Error"} /\ ferr' \in Errors
        /\ fstate' = "Done" => RunError(Follow') = "none"
    BY <2>2, <2>3, ErrorsType
  <2>8. /\ decrypted_buffer' \in Seq(DecryptOp)
        /\ delivered \o decrypted_buffer' = (delivered \o decrypted_buffer) \o ops
    <3> HIDE DEF ops
    <3>1. decrypted_buffer' \in Seq(DecryptOp)
      BY <1>2, <2>2, ConcatProperties
    <3>2. delivered \o (decrypted_buffer \o ops) = (delivered \o decrypted_buffer) \o ops
      BY <1>2, Regroup
    <3> QED BY <2>2, <3>1, <3>2
  <2>9. notify' \in BOOLEAN
    BY <2>2
  <2>10. TypeOK'
    BY <1>0, <1>1, <2>2, <2>6, <2>7, <2>8, <2>9 DEF TypeOK, hsVars
  <2>11. SequenceIntact'
    <3>1. \A p \in Role : rl'[p] = Lead' \/ rl'[p] = Follow'
      BY <1>0 DEF Lead, Follow
    <3> QED BY <2>4, <2>5, <3>1 DEF SequenceIntact, Good
  <2>12. Synced'
    BY <2>4, <2>5 DEF IInv, Synced
  <2>13. TranscriptIsTheConnection'
    BY <2>2, <2>5, <2>8 DEF IInv, TranscriptIsTheConnection
  <2>14. Verified'
    <3>1. VerifyTags(Follow'.recv_records)
      BY <1>0, <1>2, <2>1, <2>5, VerifyTagsConcat DEF IInv, Verified
    <3>2. \A p \in Role : rl'[p].recv_records = Follow'.recv_records
      BY <1>0, <2>12 DEF Synced, Lead, Follow
    <3> QED BY <3>1, <3>2 DEF Verified
  <2>15. KeyLast'
    <3>1. VerifyTags(<<>>)
      BY DEF VerifyTags
    <3> QED BY <2>2, <2>5, <2>7, <3>1 DEF KeyLast, Gone, Over
  <2>16. Committing'
    BY <1>1 DEF Committing
  <2>17. Accepted'
    <3>1. RunError(Follow') = "none" => Finishes(Follow'.sent_records) /\ Finishes(Follow'.recv_records)
      BY DEF RunError
    <3> QED BY <2>2, <2>4, <2>7, <3>1 DEF Accepted
  <2> QED BY <2>10, <2>11, <2>12, <2>13, <2>14, <2>15, <2>16, <2>17 DEF IInv
<1> QED BY <1>3, <1>4, <1>5

-----------------------------------------------------------------------------
LEMMA Step == IInv /\ [Next]_vars => IInv'
<1> SUFFICES ASSUME IInv, [Next]_vars PROVE IInv'
  OBVIOUS
<1>1. CASE Setup
  BY <1>1, SetupStep
<1>2. CASE Call
  BY <1>2, QuietCall, RecordCall DEF Call
<1>3. CASE Compute
  BY <1>3, HandshakeCompute, FlushCompute, CommitCompute DEF Compute
<1>4. CASE Handle \/ Lose \/ break_link \/ Ended \/ UNCHANGED vars
  BY <1>4, FollowerStep
<1> QED BY <1>1, <1>2, <1>3, <1>4 DEF Next

THEOREM Invariance == Spec => []IInv
BY Initially, Step, PTL DEF Spec

(***************************************************************************)
(* Every variable of the leader, the follower and the channel keeps its    *)
(* type, through every failure of either party.                            *)
(***************************************************************************)
THEOREM TypeCorrect == Spec => []TypeOK
<1>1. IInv => TypeOK
  BY DEF IInv
<1> QED BY <1>1, Invariance, PTL

(***************************************************************************)
(* No nonce of AES-GCM is used twice by either record layer, and no record *)
(* is lost between its buffer and its transcript, whatever is pushed,      *)
(* deferred, flushed and committed.                                        *)
(***************************************************************************)
THEOREM NoncesUnique == Spec => []SequenceIntact
<1>1. IInv => SequenceIntact
  BY DEF IInv
<1> QED BY <1>1, Invariance, PTL

(***************************************************************************)
(* What the prover's TLS client takes from the leader, for the server and  *)
(* for the application, is exactly what the verifier's record layer holds  *)
(* as its transcript.                                                      *)
(***************************************************************************)
THEOREM TranscriptFaithful == Spec => []TranscriptIsTheConnection
<1>1. IInv => TranscriptIsTheConnection
  BY DEF IInv
<1> QED BY <1>1, Invariance, PTL

(***************************************************************************)
(* Nothing is decrypted that was not authenticated, and the server's write *)
(* key is decoded only when every tag was verified and the connection is   *)
(* over.                                                                   *)
(***************************************************************************)
THEOREM KeyAfterAuthentication == Spec => []AuthenticatedBeforeKey
<1>1. IInv => AuthenticatedBeforeKey
  BY DEF IInv, Verified, KeyLast, AuthenticatedBeforeKey, Over
<1> QED BY <1>1, Invariance, PTL

(***************************************************************************)
(* A transcript that the verifier accepts is the prover's own, is missing  *)
(* no record that was pushed in either direction, starts with a Finished   *)
(* message and has nothing but application data after it, up to a          *)
(* close_notify at its end.                                                *)
(***************************************************************************)
THEOREM AcceptedTranscriptComplete == Spec => []AcceptedIsComplete
<1>1. ASSUME NEW S \in {EncryptOp, DecryptOp}, NEW records \in Seq(S), Finishes(records)
      PROVE  /\ records[1].kind = "finished"
             /\ \A i \in 2 .. Len(records) :
                  ~IsData(records[i]) => i = Len(records) /\ records[i].kind = "close_notify"
  <2>1. Len(records) \in Nat
    BY LenProperties
  <2>2. records[1].kind = "finished"
    BY <1>1 DEF Finishes
  <2>3. ASSUME NEW i \in 2 .. Len(records), ~IsData(records[i])
        PROVE  i = Len(records) /\ records[i].kind = "close_notify"
    <3>1. i = Len(records)
      BY <1>1, <2>1, <2>3 DEF Finishes
    <3>2. records[i].kind \in {"data", "close_notify"}
      BY <1>1, <2>1, <3>1 DEF Finishes
    <3> QED BY <2>3, <3>1, <3>2 DEF IsData
  <2> QED BY <2>2, <2>3
<1>2. ASSUME IInv, fstate = "Done"
      PROVE  /\ lstate \in {"Closed", "Stopped"}
             /\ Follow.sent_records = Lead.sent_records /\ Follow.recv_records = Lead.recv_records
             /\ Len(Follow.sent_records) = Lead.write_seq /\ Len(Follow.recv_records) = Lead.read_seq
             /\ Finishes(Follow.sent_records) /\ Finishes(Follow.recv_records)
             /\ wire \o encrypted_buffer = Follow.sent_records
             /\ delivered \o decrypted_buffer = Follow.recv_records
             /\ Follow.sent_records \in Seq(EncryptOp) /\ Follow.recv_records \in Seq(DecryptOp)
  <2>1. /\ lstate \in {"Closed", "Stopped"} /\ Lead.encrypt_buffer = <<>> /\ Lead.decrypt_buffer = <<>>
        /\ Finishes(Follow.sent_records) /\ Finishes(Follow.recv_records)
    BY <1>2 DEF IInv, Accepted
  <2>2. Follow.sent_records = Lead.sent_records /\ Follow.recv_records = Lead.recv_records
    BY <1>2 DEF IInv, Synced
  <2>3. LayerNumbered(Lead) /\ Lead \in Layer /\ Follow \in Layer
    BY <1>2 DEF IInv, SequenceIntact, TypeOK, Lead, Follow, Role
  <2>4. /\ Follow.sent_records \in Seq(EncryptOp) /\ Follow.recv_records \in Seq(DecryptOp)
        /\ Lead.write_seq \in Nat /\ Lead.read_seq \in Nat
    BY <2>3 DEF Layer
  <2>5. Len(Follow.sent_records) \in Nat /\ Len(Follow.recv_records) \in Nat
    BY <2>4, LenProperties
  <2>6. /\ Len(Lead.sent_records) + Len(<<>>) = Lead.write_seq
        /\ Len(Lead.recv_records) + Len(<<>>) = Lead.read_seq
    BY <2>1, <2>3 DEF LayerNumbered, Numbered
  <2>7. Len(Follow.sent_records) = Lead.write_seq /\ Len(Follow.recv_records) = Lead.read_seq
    BY <2>2, <2>5, <2>6
  <2>8. wire \o encrypted_buffer = Follow.sent_records /\ delivered \o decrypted_buffer = Follow.recv_records
    BY <1>2 DEF IInv, TranscriptIsTheConnection
  <2> QED BY <2>1, <2>2, <2>4, <2>7, <2>8
<1>3. IInv => AcceptedIsComplete
  BY <1>1, <1>2 DEF AcceptedIsComplete
<1> QED BY <1>3, Invariance, PTL

-----------------------------------------------------------------------------
(***************************************************************************)
(* The follower's replica.                                                 *)
(*                                                                         *)
(* A view is what one party holds of the state both replicate: the record  *)
(* layer, what the handshake has given or computed, and the state of the   *)
(* PRF.  The messages in the channel lead from the follower's view to the  *)
(* leader's: there is a history of views that starts with the one, takes   *)
(* the effect of each message in turn, ends with the other, and at no      *)
(* message meets a check that fails.  A message that waits for a           *)
(* computation on the records is the last of the channel, and its call is  *)
(* in progress.                                                            *)
(***************************************************************************)
View == [layer : Layer, set : SUBSET {"random", "key", "cf", "sf"}, prf : PrfStates]

Given(type) ==
  IF type = "SetServerRandom" THEN {"random"}
  ELSE IF type = "SetServerKey" THEN {"key"}
  ELSE IF type = "ClientFinishedVd" THEN {"cf"}
  ELSE IF type = "ServerFinishedVd" THEN {"sf"}
  ELSE {}
PrfAfter(prf, type) ==
  IF type = "SetServerRandom" THEN "ClientFinished"
  ELSE IF type = "ClientFinishedVd" THEN "ServerFinished"
  ELSE IF type = "ServerFinishedVd" THEN "Complete"
  ELSE prf
LayerAfter(l, m) ==
  IF m.type \in {"Encrypt", "Decrypt", "StartTraffic"} THEN Applied(l, m) ELSE l
Effect(v, m) ==
  [layer |-> LayerAfter(v.layer, m), set |-> v.set \union Given(m.type),
   prf |-> PrfAfter(v.prf, m.type)]

\* The checks of the follower's handler, against the view they meet
LayerAdmits(l, m) ==
  /\ m.type = "Encrypt" => CanEncrypt(l, m.rec)
  /\ m.type = "Decrypt" => CanDecrypt(l, m.rec)
  /\ m.type = "Flush" => FlushError(l, m.is_decrypting, FALSE) = "none"
  /\ m.type = "CloseConnection" => CommitError(l) = "none"
Admits(v, m) ==
  /\ m.type = "SetServerRandom" => "random" \notin v.set /\ v.prf = "SessionKeys"
  /\ m.type = "SetServerKey" => "key" \notin v.set
  /\ m.type = "ClientFinishedVd" => "cf" \notin v.set /\ v.prf = "ClientFinished"
  /\ m.type = "ServerFinishedVd" => "sf" \notin v.set /\ v.prf = "ServerFinished"
  /\ LayerAdmits(v.layer, m)

\* Messages whose computation processes records
Computes(l, m) ==
  \/ m.type = "CloseConnection"
  \/ m.type = "Flush" /\ ~NothingToFlush(l, m.is_decrypting)

\* The views h are a history of the messages c, of which those of waits may
\* wait for their computation.
History(h, c, waits) ==
  /\ h \in Seq(View) /\ Len(h) = Len(c) + 1
  /\ \A i \in 1 .. Len(c) :
       /\ h[i + 1] = Effect(h[i], c[i])
       /\ Admits(h[i], c[i])
       /\ Computes(h[i].layer, c[i]) => i = Len(c) /\ c[i] \in waits
Leads(v, c, w, waits) ==
  \E h : History(h, c, waits) /\ h[1] = v /\ h[Len(c) + 1] = w

-----------------------------------------------------------------------------
LEMMA LeadsEmpty ==
  ASSUME NEW v, NEW w, NEW waits
  PROVE  /\ Leads(v, <<>>, w, waits) => v = w
         /\ v \in View => Leads(v, <<>>, v, waits)
<1>0. Len(<<>>) = 0
  OBVIOUS
<1>1. ASSUME Leads(v, <<>>, w, waits) PROVE v = w
  BY <1>0, <1>1 DEF Leads
<1>2. ASSUME v \in View PROVE Leads(v, <<>>, v, waits)
  <2>1. <<v>> \in Seq(View) /\ Len(<<v>>) = 1 /\ <<v>>[1] = v
    BY <1>2
  <2>2. History(<<v>>, <<>>, waits)
    BY <1>0, <2>1 DEF History
  <2>3. <<v>>[Len(<<>>) + 1] = v
    BY <1>0, <2>1
  <2> QED BY <2>1, <2>2, <2>3 DEF Leads
<1> QED BY <1>1, <1>2

\* A message the leader's view admits joins the channel.
LEMMA LeadsAppend ==
  ASSUME NEW c \in Seq(Message), NEW v, NEW w, NEW m, NEW waits, Leads(v, c, w, {}),
         Effect(w, m) \in View, Admits(w, m), Computes(w.layer, m) => m \in waits
  PROVE  Leads(v, Append(c, m), Effect(w, m), waits)
<1> DEFINE n == Len(c)
           d == Append(c, m)
<1>1. PICK h : History(h, c, {}) /\ h[1] = v /\ h[n + 1] = w
  BY DEF Leads
<1> DEFINE g == Append(h, Effect(w, m))
<1>2. /\ n \in Nat /\ Len(d) = n + 1 /\ d[n + 1] = m
      /\ \A i \in 1 .. n : d[i] = c[i]
  OBVIOUS
<1>3. h \in Seq(View) /\ Len(h) = n + 1
  BY <1>1 DEF History
<1>4. /\ g \in Seq(View) /\ Len(g) = n + 2 /\ g[n + 2] = Effect(w, m)
      /\ \A i \in 1 .. n + 1 : g[i] = h[i]
  BY <1>2, <1>3
<1>5. \A i \in 1 .. n :
        /\ h[i + 1] = Effect(h[i], c[i]) /\ Admits(h[i], c[i]) /\ ~Computes(h[i].layer, c[i])
  BY <1>1 DEF History
<1> HIDE DEF g, d, n
<1>6. ASSUME NEW i \in 1 .. n + 1
      PROVE  /\ g[i + 1] = Effect(g[i], d[i])
             /\ Admits(g[i], d[i])
             /\ Computes(g[i].layer, d[i]) => i = n + 1 /\ d[i] \in waits
  <2>1. CASE i = n + 1
    <3>1. g[i + 1] = Effect(w, m) /\ g[i] = w /\ d[i] = m
      <4>1. i + 1 = n + 2 /\ n + 1 \in 1 .. n + 1
        BY <1>2, <2>1
      <4> QED BY <1>1, <1>2, <1>4, <2>1, <4>1
    <3> QED BY <2>1, <3>1
  <2>2. CASE i # n + 1
    <3>1. i \in 1 .. n /\ i + 1 \in 1 .. n + 1
      BY <1>2, <2>2
    <3>2. g[i + 1] = h[i + 1] /\ g[i] = h[i] /\ d[i] = c[i]
      BY <1>2, <1>4, <3>1
    <3>3. h[i + 1] = Effect(h[i], c[i]) /\ Admits(h[i], c[i]) /\ ~Computes(h[i].layer, c[i])
      BY <1>5, <3>1
    <3> QED BY <3>2, <3>3
  <2> QED BY <2>1, <2>2
<1>7. History(g, d, waits)
  <2>1. Len(d) = n + 1 /\ Len(g) = Len(d) + 1
    BY <1>2, <1>4
  <2> QED BY <1>4, <1>6, <2>1 DEF History
<1>8. g[1] = v /\ g[Len(d) + 1] = Effect(w, m)
  BY <1>1, <1>2, <1>4
<1> QED BY <1>7, <1>8 DEF Leads, d

\* The follower takes the oldest message, which its view admits.
LEMMA LeadsTail ==
  ASSUME NEW c \in Seq(Message), c # <<>>, NEW v, NEW w, NEW waits, Leads(v, c, w, waits)
  PROVE  /\ Admits(v, Head(c))
         /\ Leads(Effect(v, Head(c)), Tail(c), w, waits)
         /\ Computes(v.layer, Head(c)) => Tail(c) = <<>> /\ Head(c) \in waits
         /\ Tail(c) = <<>> => Effect(v, Head(c)) = w
<1> DEFINE n == Len(c)
           d == Tail(c)
<1>1. PICK h : History(h, c, waits) /\ h[1] = v /\ h[n + 1] = w
  BY DEF Leads
<1> DEFINE g == Tail(h)
<1>2. /\ n \in Nat \ {0} /\ Len(d) = n - 1 /\ Head(c) = c[1]
      /\ \A i \in 1 .. n - 1 : d[i] = c[i + 1]
      /\ n = 1 => d = <<>>
  OBVIOUS
<1>3. h \in Seq(View) /\ Len(h) = n + 1
  BY <1>1 DEF History
<1>4. /\ g \in Seq(View) /\ Len(g) = n
      /\ \A i \in 1 .. n : g[i] = h[i + 1]
  BY <1>2, <1>3
<1>5. \A i \in 1 .. n :
        /\ h[i + 1] = Effect(h[i], c[i]) /\ Admits(h[i], c[i])
        /\ Computes(h[i].layer, c[i]) => i = n /\ c[i] \in waits
  BY <1>1 DEF History
<1> HIDE DEF g, d, n
<1>6. ASSUME NEW i \in 1 .. n - 1
      PROVE  /\ g[i + 1] = Effect(g[i], d[i])
             /\ Admits(g[i], d[i])
             /\ Computes(g[i].layer, d[i]) => i = n - 1 /\ d[i] \in waits
  <2>1. i \in 1 .. n /\ i + 1 \in 1 .. n /\ (i + 1 = n <=> i = n - 1)
    BY <1>2
  <2>2. g[i + 1] = h[i + 1 + 1] /\ g[i] = h[i + 1] /\ d[i] = c[i + 1]
    BY <1>2, <1>4, <2>1
  <2>3. /\ h[i + 1 + 1] = Effect(h[i + 1], c[i + 1]) /\ Admits(h[i + 1], c[i + 1])
        /\ Computes(h[i + 1].layer, c[i + 1]) => i + 1 = n /\ c[i + 1] \in waits
    BY <1>5, <2>1
  <2> QED BY <2>1, <2>2, <2>3
<1>7. History(g, d, waits)
  <2>1. Len(d) = n - 1 /\ Len(g) = Len(d) + 1
    BY <1>2, <1>4
  <2> QED BY <1>4, <1>6, <2>1 DEF History
<1>8. 1 \in 1 .. n /\ n \in 1 .. n /\ Len(d) + 1 = n
  BY <1>2
<1>9. g[1] = Effect(v, Head(c)) /\ g[Len(d) + 1] = w
  <2>1. g[1] = h[1 + 1] /\ g[n] = h[n + 1] /\ h[1 + 1] = Effect(h[1], c[1])
    BY <1>4, <1>5, <1>8
  <2> QED BY <1>1, <1>2, <1>8, <2>1
<1>10. Leads(Effect(v, Head(c)), d, w, waits)
  BY <1>7, <1>9 DEF Leads
<1>11. /\ Admits(v, Head(c))
       /\ Computes(v.layer, Head(c)) => n = 1 /\ Head(c) \in waits
  BY <1>1, <1>2, <1>5, <1>8
<1>12. d = <<>> => Effect(v, Head(c)) = w
  BY <1>10, LeadsEmpty
<1> QED BY <1>2, <1>10, <1>11, <1>12 DEF d

\* What a flush drains depends on the buffers alone.
LEMMA SameBuffers ==
  ASSUME NEW l, NEW s, NEW d, s.decrypt_buffer = l.decrypt_buffer, s.encrypt_buffer = l.encrypt_buffer
  PROVE  /\ FlushOps(s, d) = FlushOps(l, d)
         /\ NothingToFlush(s, d) <=> NothingToFlush(l, d)
<1>1. DrainCount(s, d) = DrainCount(l, d)
  BY DEF DrainCount
<1>2. FlushOps(s, d) = FlushOps(l, d)
  BY <1>1 DEF FlushOps
<1> QED BY <1>2 DEF NothingToFlush

\* The keys change nothing that a message meets, except that more is ready.
LEMMA SetupCommutes ==
  ASSUME NEW l \in Layer, NEW m \in Message
  PROVE  /\ setup_layer(LayerAfter(l, m)) = LayerAfter(setup_layer(l), m)
         /\ LayerAdmits(l, m) => LayerAdmits(setup_layer(l), m)
         /\ Computes(setup_layer(l), m) => Computes(l, m)
<1> DEFINE s == setup_layer(l)
<1>1. /\ s.state = l.state /\ s.ready /\ s.sent = l.sent /\ s.recv = l.recv
      /\ s.recv_online = l.recv_online
      /\ s.encrypt_buffer = l.encrypt_buffer /\ s.decrypt_buffer = l.decrypt_buffer
      /\ s.sent_records = l.sent_records /\ s.recv_records = l.recv_records
  BY DEF setup_layer, Layer
<1>2. m.type \in {"SetServerRandom", "SetServerKey", "ClientFinishedVd", "ServerFinishedVd",
                  "StartTraffic", "CloseConnection", "Encrypt", "Decrypt", "Flush"}
  BY MessageFields
<1>3. setup_layer(LayerAfter(l, m)) = LayerAfter(setup_layer(l), m)
  <2>1. CASE m.type = "Encrypt"
    <3>1. LayerAfter(l, m) = push_encrypt(l, m.rec) /\ LayerAfter(s, m) = push_encrypt(s, m.rec)
      BY <2>1 DEF LayerAfter, Applied
    <3>2. setup_layer(push_encrypt(l, m.rec)) = push_encrypt(setup_layer(l), m.rec)
      BY DEF push_encrypt, setup_layer, Layer
    <3> QED BY <3>1, <3>2
  <2>2. CASE m.type = "Decrypt"
    <3>1. LayerAfter(l, m) = push_decrypt(l, m.rec) /\ LayerAfter(s, m) = push_decrypt(s, m.rec)
      BY <2>2 DEF LayerAfter, Applied
    <3>2. setup_layer(push_decrypt(l, m.rec)) = push_decrypt(setup_layer(l), m.rec)
      BY DEF push_decrypt, setup_layer, Layer
    <3> QED BY <3>1, <3>2
  <2>3. CASE m.type = "StartTraffic"
    <3>1. LayerAfter(l, m) = start_layer(l) /\ LayerAfter(s, m) = start_layer(s)
      BY <2>3 DEF LayerAfter, Applied
    <3>2. setup_layer(start_layer(l)) = start_layer(setup_layer(l))
      BY DEF start_layer, setup_layer, Layer
    <3> QED BY <3>1, <3>2
  <2>4. CASE m.type \notin {"Encrypt", "Decrypt", "StartTraffic"}
    BY <2>4 DEF LayerAfter
  <2> QED BY <2>1, <2>2, <2>3, <2>4
<1> HIDE DEF s
<1>4. \A d : FlushOps(s, d) = FlushOps(l, d) /\ (NothingToFlush(s, d) <=> NothingToFlush(l, d))
  BY <1>1, SameBuffers
<1>5. ASSUME LayerAdmits(l, m) PROVE LayerAdmits(s, m)
  <2>1. m.type = "Encrypt" => CanEncrypt(s, m.rec)
    BY <1>1, <1>5 DEF LayerAdmits, CanEncrypt
  <2>2. m.type = "Decrypt" => CanDecrypt(s, m.rec)
    BY <1>1, <1>5 DEF LayerAdmits, CanDecrypt
  <2>3. ASSUME m.type = "Flush" PROVE FlushError(s, m.is_decrypting, FALSE) = "none"
    <3>1. FlushError(l, m.is_decrypting, FALSE) = "none"
      BY <1>5, <2>3 DEF LayerAdmits
    <3>2. /\ FlushOnline(s, m.is_decrypting) <=> FlushOnline(l, m.is_decrypting)
          /\ FlushKeystream(s, m.is_decrypting) <=> FlushKeystream(l, m.is_decrypting)
          /\ FlushRecords(s, m.is_decrypting) <=> FlushRecords(l, m.is_decrypting)
      BY <1>1, <1>4 DEF FlushOnline, FlushKeystream, FlushRecords
    <3> QED BY <1>1, <1>4, <3>1, <3>2 DEF FlushError
  <2>4. m.type = "CloseConnection" => CommitError(s) = "none"
    BY <1>1, <1>5 DEF LayerAdmits, CommitError
  <2> QED BY <2>1, <2>2, <2>3, <2>4 DEF LayerAdmits
<1>6. Computes(s, m) => Computes(l, m)
  BY <1>4 DEF Computes
<1> QED BY <1>3, <1>5, <1>6 DEF s

WithKeys(v) == [layer |-> setup_layer(v.layer), set |-> v.set, prf |-> v.prf]

LEMMA LeadsWithKeys ==
  ASSUME NEW c \in Seq(Message), NEW v, NEW w, NEW waits, Leads(v, c, w, waits)
  PROVE  Leads(WithKeys(v), c, WithKeys(w), waits)
<1> DEFINE n == Len(c)
<1>1. PICK h : History(h, c, waits) /\ h[1] = v /\ h[n + 1] = w
  BY DEF Leads
<1> DEFINE g == [i \in 1 .. n + 1 |-> WithKeys(h[i])]
<1>2. n \in Nat /\ \A i \in 1 .. n : c[i] \in Message
  OBVIOUS
<1>3. h \in Seq(View) /\ Len(h) = n + 1
  BY <1>1 DEF History
<1>4. \A i \in 1 .. n + 1 : h[i] \in View
  BY <1>2, <1>3
<1>5. \A i \in 1 .. n :
        /\ h[i + 1] = Effect(h[i], c[i]) /\ Admits(h[i], c[i])
        /\ Computes(h[i].layer, c[i]) => i = n /\ c[i] \in waits
  BY <1>1 DEF History
<1> HIDE DEF n
<1>6. \A u \in View : WithKeys(u) \in View
  <2>1. ASSUME NEW u \in View PROVE WithKeys(u) \in View
    <3>1. u.layer \in Layer /\ u.set \in SUBSET {"random", "key", "cf", "sf"} /\ u.prf \in PrfStates
      BY DEF View
    <3>2. setup_layer(u.layer) \in Layer
      BY <3>1 DEF setup_layer, Layer
    <3> QED BY <3>1, <3>2 DEF View, WithKeys
  <2> QED BY <2>1
<1>7. g \in Seq(View) /\ Len(g) = n + 1 /\ \A i \in 1 .. n + 1 : g[i] = WithKeys(h[i])
  <2>1. \A i \in 1 .. n + 1 : WithKeys(h[i]) \in View
    BY <1>4, <1>6
  <2>2. n + 1 \in Nat
    BY <1>2
  <2> QED BY <2>1, <2>2
<1> HIDE DEF g
<1>8. ASSUME NEW i \in 1 .. n
      PROVE  /\ g[i + 1] = Effect(g[i], c[i])
             /\ Admits(g[i], c[i])
             /\ Computes(g[i].layer, c[i]) => i = n /\ c[i] \in waits
  <2>1. i \in 1 .. n + 1 /\ i + 1 \in 1 .. n + 1 /\ c[i] \in Message
    BY <1>2
  <2>2. h[i] \in View /\ g[i] = WithKeys(h[i]) /\ g[i + 1] = WithKeys(Effect(h[i], c[i]))
    BY <1>4, <1>5, <1>7, <2>1
  <2>3. h[i].layer \in Layer
    BY <2>2 DEF View
  <2>4. /\ setup_layer(LayerAfter(h[i].layer, c[i])) = LayerAfter(setup_layer(h[i].layer), c[i])
        /\ LayerAdmits(h[i].layer, c[i]) => LayerAdmits(setup_layer(h[i].layer), c[i])
        /\ Computes(setup_layer(h[i].layer), c[i]) => Computes(h[i].layer, c[i])
    BY <2>1, <2>3, SetupCommutes
  <2>5. g[i + 1] = Effect(g[i], c[i])
    <3>1. /\ Effect(h[i], c[i]).layer = LayerAfter(h[i].layer, c[i])
          /\ Effect(h[i], c[i]).set = h[i].set \union Given(c[i].type)
          /\ Effect(h[i], c[i]).prf = PrfAfter(h[i].prf, c[i].type)
      BY DEF Effect
    <3>2. /\ WithKeys(h[i]).layer = setup_layer(h[i].layer)
          /\ WithKeys(h[i]).set = h[i].set /\ WithKeys(h[i]).prf = h[i].prf
      BY DEF WithKeys
    <3>3. WithKeys(Effect(h[i], c[i]))
            = [layer |-> setup_layer(LayerAfter(h[i].layer, c[i])),
               set |-> h[i].set \union Given(c[i].type), prf |-> PrfAfter(h[i].prf, c[i].type)]
      BY <3>1 DEF WithKeys
    <3>4. Effect(WithKeys(h[i]), c[i])
            = [layer |-> LayerAfter(setup_layer(h[i].layer), c[i]),
               set |-> h[i].set \union Given(c[i].type), prf |-> PrfAfter(h[i].prf, c[i].type)]
      BY <3>2 DEF Effect
    <3> QED BY <2>2, <2>4, <3>3, <3>4
  <2>6. Admits(g[i], c[i])
    BY <1>5, <2>2, <2>4 DEF Admits, WithKeys
  <2>7. Computes(g[i].layer, c[i]) => i = n /\ c[i] \in waits
    BY <1>5, <2>2, <2>4 DEF WithKeys
  <2> QED BY <2>5, <2>6, <2>7
<1>9. g[1] = WithKeys(v) /\ g[n + 1] = WithKeys(w)
  BY <1>1, <1>2, <1>7
<1>10. History(g, c, waits)
  BY <1>7, <1>8 DEF History, n
<1> QED BY <1>9, <1>10 DEF Leads, n

-----------------------------------------------------------------------------
FollowerView == [layer |-> Follow, set |-> fset, prf |-> fprf]
LeaderSet ==
  (params \intersect {"random", "key"})
    \union (IF lprf \in {"ServerFinished", "Complete"} THEN {"cf"} ELSE {})
    \union (IF lprf = "Complete" THEN {"sf"} ELSE {})
LeaderView == [layer |-> Lead, set |-> LeaderSet, prf |-> lprf]

\* The message of the computation on records the leader waits for
Waits ==
  IF call = "flush" THEN {[type |-> "Flush", is_decrypting |-> is_decrypting]}
  ELSE IF call = "commit" THEN {[type |-> "CloseConnection"]}
  ELSE {}

\* Both parties run the connection.
Linked == lstate \in {"Handshake", "Active"} /\ fstate \in {"Ready", "Running"}
Followed ==
  /\ Leads(FollowerView, chan, LeaderView, Waits)
  /\ "random" \in params <=> lprf # "SessionKeys"

\* Before the connection nothing has been sent, after it nothing is left.
Before ==
  /\ lstate = "Init" => Lead = NewLayer
  /\ lstate = "Setup" => Lead = alloc_layer(NewLayer)
  /\ lstate \in {"Init", "Setup"} => /\ chan = <<>> /\ call = "none"
                                     /\ params = {} /\ lprf = "SessionKeys"
  /\ fstate = "Init" => Follow = NewLayer
  /\ fstate = "Setup" => Follow = alloc_layer(NewLayer)
  /\ fstate \in {"Init", "Setup"} => /\ fset = {} /\ fprf = "SessionKeys"
                                     /\ lstate \in {"Init", "Setup", "Error"}
After ==
  /\ fstate \in {"Ready", "Running"} => lstate \in {"Handshake", "Active", "Error"}
  /\ fstate = "Done" => Lead = Follow
  /\ lstate = "Closed" => ~wants_flush(Lead)
  /\ call # "none" => lstate \in {"Handshake", "Active"}

ReplicaInv ==
  /\ Before
  /\ After
  /\ Linked => Followed
  /\ FailsWithLeader

-----------------------------------------------------------------------------
(***************************************************************************)
(* Steps after which the leader has failed, steps of the connection, and   *)
(* steps that move nothing the parties replicate.                          *)
(***************************************************************************)
LEMMA LeaderDown ==
  ASSUME ReplicaInv, lstate' = "Error", call' = "none", fstate' # "Done",
         fstate' \in {"Init", "Setup"} => UNCHANGED <<rl, fstate, fset, fprf>>
  PROVE  ReplicaInv'
<1>1. Before'
  BY DEF ReplicaInv, Before, Follow
<1>2. After' /\ ~Linked' /\ FailsWithLeader'
  BY DEF After, Linked, FailsWithLeader
<1> QED BY <1>1, <1>2 DEF ReplicaInv

LEMMA Connects ==
  ASSUME IInv, ReplicaInv, lstate \in {"Handshake", "Active"}, lstate' \in {"Handshake", "Active"},
         fstate' = fstate \/ fstate' \in {"Ready", "Running"}, ferr' = ferr,
         Linked' => Followed'
  PROVE  ReplicaInv'
<1>1. fstate' \notin {"Init", "Setup", "Done"}
  BY AfterAcceptance DEF ReplicaInv, Before
<1>2. Before' /\ After'
  BY <1>1 DEF Before, After
<1>3. FailsWithLeader'
  BY DEF ReplicaInv, FailsWithLeader
<1> QED BY <1>2, <1>3 DEF ReplicaInv

LEMMA NothingMoves ==
  ASSUME ReplicaInv, UNCHANGED <<rl, chan, call, params, lprf, fstate, fset, fprf, ferr>>,
         lstate' = lstate \/ (lstate = "Closed" /\ lstate' = "Stopped"),
         is_decrypting' = is_decrypting \/ call = "none"
  PROVE  ReplicaInv'
<1>1. Lead' = Lead /\ Follow' = Follow
  BY DEF Lead, Follow
<1>2. FollowerView' = FollowerView /\ LeaderView' = LeaderView
  BY <1>1 DEF FollowerView, LeaderView, LeaderSet
<1>3. Waits' = Waits
  BY DEF Waits
<1>4. Before' /\ After'
  BY <1>1 DEF ReplicaInv, Before, After
<1>5. Linked' => Followed'
  BY <1>2, <1>3 DEF ReplicaInv, Linked, Followed
<1>6. FailsWithLeader'
  BY DEF ReplicaInv, FailsWithLeader
<1> QED BY <1>4, <1>5, <1>6 DEF ReplicaInv

LEMMA ReplicaInitially == Init => ReplicaInv
<1> SUFFICES ASSUME Init PROVE ReplicaInv
  OBVIOUS
<1>1. Lead = NewLayer /\ Follow = NewLayer
  BY DEF Init, Lead, Follow, Role
<1> QED BY <1>1 DEF Init, ReplicaInv, Before, After, Linked, FailsWithLeader

LEMMA ViewsType ==
  ASSUME TypeOK
  PROVE  FollowerView \in View /\ LeaderView \in View
<1>1. Lead \in Layer /\ Follow \in Layer
  BY DEF TypeOK, Lead, Follow, Role
<1>2. fset \in SUBSET {"random", "key", "cf", "sf"} /\ fprf \in PrfStates /\ lprf \in PrfStates
  BY DEF TypeOK
<1> QED BY <1>1, <1>2 DEF View, FollowerView, LeaderView, LeaderSet

LEMMA SetupReplicas ==
  ASSUME IInv, ReplicaInv, Setup
  PROVE  ReplicaInv'
<1>0. TypeOK /\ rl \in [Role -> Layer] /\ "leader" \in Role /\ "follower" \in Role
  BY DEF IInv, TypeOK, Role
<1>1. CASE leader_alloc
  <2>1. Lead' = alloc_layer(Lead) /\ Follow' = Follow
    BY <1>0, <1>1 DEF leader_alloc, Lead, Follow
  <2>2. /\ lstate = "Init" /\ lstate' = "Setup" /\ fstate' = fstate
        /\ UNCHANGED <<chan, call, params, lprf, fset, fprf, ferr>>
    BY <1>1 DEF leader_alloc, hsVars, fVars
  <2>3. fstate # "Done"
    BY <2>2, AfterAcceptance
  <2>4. Before' /\ After' /\ ~Linked'
    BY <2>1, <2>2, <2>3 DEF ReplicaInv, Before, After, Linked
  <2>5. FailsWithLeader'
    BY <2>2 DEF ReplicaInv, FailsWithLeader
  <2> QED BY <2>4, <2>5 DEF ReplicaInv
<1>2. CASE follower_alloc
  <2>1. Follow' = alloc_layer(Follow) /\ Lead' = Lead
    BY <1>0, <1>2 DEF follower_alloc, Lead, Follow
  <2>2. /\ fstate = "Init" /\ fstate' = "Setup" /\ lstate' = lstate
        /\ UNCHANGED <<chan, call, params, lprf, fset, fprf, ferr>>
    BY <1>2 DEF follower_alloc, hsVars
  <2>3. Before' /\ After' /\ ~Linked'
    BY <2>1, <2>2 DEF ReplicaInv, Before, After, Linked
  <2>4. FailsWithLeader'
    BY <2>2 DEF ReplicaInv, FailsWithLeader
  <2> QED BY <2>3, <2>4 DEF ReplicaInv
<1>3. CASE preprocess
  <2>1. /\ lstate = "Setup" /\ fstate = "Setup" /\ lstate' = "Handshake" /\ fstate' = "Ready"
        /\ UNCHANGED <<rl, chan, call, params, lprf, fset, fprf, ferr>>
    BY <1>3 DEF preprocess, hsVars
  <2>2. Lead' = Lead /\ Follow' = Follow /\ Lead = Follow
    BY <2>1 DEF ReplicaInv, Before, Lead, Follow
  <2>3. chan = <<>> /\ call = "none" /\ params = {} /\ lprf = "SessionKeys" /\ fset = {} /\ fprf = "SessionKeys"
    BY <2>1 DEF ReplicaInv, Before
  <2>4. FollowerView' = FollowerView /\ LeaderView' = FollowerView
    <3>1. ({} \intersect {"random", "key"}) \union {} \union {} = {}
      OBVIOUS
    <3> QED BY <2>1, <2>2, <2>3, <3>1 DEF FollowerView, LeaderView, LeaderSet
  <2>5. Leads(FollowerView, <<>>, FollowerView, Waits')
    BY <1>0, ViewsType, LeadsEmpty
  <2>6. Followed'
    BY <2>1, <2>3, <2>4, <2>5 DEF Followed
  <2>7. Before' /\ After'
    BY <2>1, <2>3 DEF Before, After
  <2>8. FailsWithLeader'
    BY <2>1 DEF ReplicaInv, FailsWithLeader
  <2> QED BY <2>6, <2>7, <2>8 DEF ReplicaInv
<1>4. CASE follower_run
  <2>1. /\ fstate = "Ready" /\ fstate' = "Running"
        /\ UNCHANGED <<rl, chan, lstate, call, params, lprf, is_decrypting, fset, fprf, ferr>>
    BY <1>4 DEF follower_run, hsVars, flagVars
  <2>2. lstate \in {"Handshake", "Active", "Error"} /\ (lstate = "Error" => call = "none")
    BY <2>1 DEF ReplicaInv, After
  <2>3. CASE lstate = "Error"
    BY <2>1, <2>2, <2>3, LeaderDown
  <2>4. CASE lstate \in {"Handshake", "Active"}
    <3>1. Linked /\ Followed
      BY <2>1, <2>4 DEF ReplicaInv, Linked
    <3>2. Lead' = Lead /\ Follow' = Follow
      BY <2>1 DEF Lead, Follow
    <3>3. FollowerView' = FollowerView /\ LeaderView' = LeaderView /\ Waits' = Waits
      BY <2>1, <3>2 DEF FollowerView, LeaderView, LeaderSet, Waits
    <3>4. Followed'
      BY <2>1, <3>1, <3>3 DEF Followed
    <3> QED BY <2>1, <2>4, <3>4, Connects
  <2> QED BY <2>2, <2>3, <2>4
<1> QED BY <1>1, <1>2, <1>3, <1>4 DEF Setup

-----------------------------------------------------------------------------
(***************************************************************************)
(* The calls of the TLS client.                                            *)
(***************************************************************************)
LEMMA Sends ==
  ASSUME IInv, IInv', ReplicaInv, lstate \in {"Handshake", "Active"}, lstate' = lstate, call = "none",
         NEW m \in Message, chan' = Append(chan, m),
         Follow' = Follow, UNCHANGED <<fstate, fset, fprf, ferr>>,
         Followed => /\ Lead' = LayerAfter(Lead, m)
                     /\ LeaderSet' = LeaderSet \union Given(m.type)
                     /\ lprf' = PrfAfter(lprf, m.type)
                     /\ Admits(LeaderView, m)
                     /\ Computes(Lead, m) => m \in Waits'
                     /\ "random" \in params' <=> lprf' # "SessionKeys"
  PROVE  ReplicaInv'
<1>1. ASSUME Linked' PROVE Followed'
  <2>1. Followed
    BY <1>1 DEF ReplicaInv, Linked
  <2>2. LeaderView.layer = Lead /\ LeaderView.set = LeaderSet /\ LeaderView.prf = lprf
    BY DEF LeaderView
  <2>3. Effect(LeaderView, m) = LeaderView'
    BY <2>1, <2>2 DEF Effect, LeaderView
  <2>4. FollowerView' = FollowerView
    BY DEF FollowerView
  <2>5. Waits = {}
    BY DEF Waits
  <2>6. Leads(FollowerView, chan, LeaderView, {})
    BY <2>1, <2>5 DEF Followed
  <2>7. Effect(LeaderView, m) \in View
    <3>1. Lead' \in Layer /\ lprf' \in PrfStates
      BY DEF IInv, TypeOK, Lead, Role
    <3>2. LeaderSet' \in SUBSET {"random", "key", "cf", "sf"}
      BY DEF LeaderSet
    <3>3. LeaderView' \in View
      BY <3>1, <3>2 DEF View, LeaderView
    <3> QED BY <2>3, <3>3
  <2>8. chan \in Seq(Message)
    BY DEF IInv, TypeOK
  <2>9. Computes(LeaderView.layer, m) => m \in Waits'
    BY <2>1, <2>2
  <2>10. Admits(LeaderView, m)
    BY <2>1
  <2>11. Leads(FollowerView, Append(chan, m), Effect(LeaderView, m), Waits')
    BY <2>6, <2>7, <2>8, <2>9, <2>10, LeadsAppend
  <2>12. Leads(FollowerView', chan', LeaderView', Waits')
    BY <2>3, <2>4, <2>11
  <2> QED BY <2>1, <2>12 DEF Followed
<1> QED BY <1>1, Connects

\* The calls of the handshake that send a message to the follower
LEMMA HandshakeSends ==
  ASSUME IInv, IInv', ReplicaInv,
         \/ set_server_random \/ set_server_key_share
         \/ get_client_finished_vd \/ get_server_finished_vd
  PROVE  ReplicaInv'
<1>0. /\ rl' = rl /\ UNCHANGED <<fstate, fset, fprf, ferr>> /\ call = "none"
      /\ lstate \in {"Handshake", "Active"} /\ fstate # "Done"
  BY AfterAcceptance DEF set_server_random, set_server_key_share, get_client_finished_vd,
     get_server_finished_vd, Idle, fVars
<1>1. Lead' = Lead /\ Follow' = Follow /\ Waits = {}
  BY <1>0 DEF Lead, Follow, Waits
<1>2. LeaderView.layer = Lead /\ LeaderView.set = LeaderSet /\ LeaderView.prf = lprf
  BY DEF LeaderView
<1>3. CASE set_server_random
  <2> DEFINE m == [type |-> "SetServerRandom"]
  <2>1. m \in Message /\ m.type = "SetServerRandom"
    BY MessagesAre
  <2> HIDE DEF m
  <2>2. /\ lstate' = lstate /\ "random" \notin params /\ chan' = Append(chan, m)
        /\ lprf' = "ClientFinished" /\ params' = params \union {"random"}
    BY <1>3 DEF set_server_random, Send, m
  <2>3. Followed => lprf = "SessionKeys"
    BY <2>2 DEF Followed
  <2>4. /\ LayerAfter(Lead, m) = Lead /\ Given(m.type) = {"random"}
        /\ PrfAfter(lprf, m.type) = "ClientFinished" /\ ~Computes(Lead, m)
    BY <2>1 DEF LayerAfter, Given, PrfAfter, Computes
  <2>5. Followed => LeaderSet' = LeaderSet \union {"random"} /\ "random" \notin LeaderSet
    BY <2>2, <2>3 DEF LeaderSet
  <2>6. Followed => Admits(LeaderView, m)
    BY <1>2, <2>1, <2>3, <2>5 DEF Admits, LayerAdmits
  <2>7. "random" \in params' <=> lprf' # "SessionKeys"
    BY <2>2
  <2> QED BY <1>0, <1>1, <2>1, <2>2, <2>4, <2>5, <2>6, <2>7, Sends
<1>4. CASE set_server_key_share
  <2> DEFINE m == [type |-> "SetServerKey"]
  <2>1. m \in Message /\ m.type = "SetServerKey"
    BY MessagesAre
  <2> HIDE DEF m
  <2>2. /\ lstate' = lstate /\ "key" \notin params /\ chan' = Append(chan, m)
        /\ lprf' = lprf /\ params' = params \union {"key"}
    BY <1>4 DEF set_server_key_share, Send, m
  <2>4. /\ LayerAfter(Lead, m) = Lead /\ Given(m.type) = {"key"}
        /\ PrfAfter(lprf, m.type) = lprf /\ ~Computes(Lead, m)
    BY <2>1 DEF LayerAfter, Given, PrfAfter, Computes
  <2>5. LeaderSet' = LeaderSet \union {"key"} /\ "key" \notin LeaderSet
    BY <2>2 DEF LeaderSet
  <2>6. Admits(LeaderView, m)
    BY <1>2, <2>1, <2>5 DEF Admits, LayerAdmits
  <2>7. Followed => ("random" \in params' <=> lprf' # "SessionKeys")
    BY <2>2 DEF Followed
  <2> QED BY <1>0, <1>1, <2>1, <2>2, <2>4, <2>5, <2>6, <2>7, Sends
<1>5. CASE get_client_finished_vd
  <2> DEFINE m == [type |-> "ClientFinishedVd"]
  <2>1. m \in Message /\ m.type = "ClientFinishedVd"
    BY MessagesAre
  <2> HIDE DEF m
  <2>2. chan' = Append(chan, m) /\ params' = params
    BY <1>5 DEF get_client_finished_vd, Send, m
  <2>3. CASE lprf # "ClientFinished"
    <3>1. lstate' = "Error" /\ call' = "none"
      BY <1>5, <2>3 DEF get_client_finished_vd, LeaderFails
    <3> QED BY <1>0, <3>1, LeaderDown
  <2>4. CASE lprf = "ClientFinished"
    <3>1. lprf' = "ServerFinished" /\ lstate' = lstate
      BY <1>5, <2>4 DEF get_client_finished_vd, LeaderWaits
    <3>2. /\ LayerAfter(Lead, m) = Lead /\ Given(m.type) = {"cf"}
          /\ PrfAfter(lprf, m.type) = "ServerFinished" /\ ~Computes(Lead, m)
      BY <2>1 DEF LayerAfter, Given, PrfAfter, Computes
    <3>3. LeaderSet' = LeaderSet \union {"cf"} /\ "cf" \notin LeaderSet
      BY <2>2, <2>4, <3>1 DEF LeaderSet
    <3>4. Admits(LeaderView, m)
      BY <1>2, <2>1, <2>4, <3>3 DEF Admits, LayerAdmits
    <3>5. Followed => ("random" \in params' <=> lprf' # "SessionKeys")
      BY <2>2, <2>4, <3>1 DEF Followed
    <3> QED BY <1>0, <1>1, <2>1, <2>2, <3>1, <3>2, <3>3, <3>4, <3>5, Sends
  <2> QED BY <2>3, <2>4
<1>6. CASE get_server_finished_vd
  <2> DEFINE m == [type |-> "ServerFinishedVd"]
  <2>1. m \in Message /\ m.type = "ServerFinishedVd"
    BY MessagesAre
  <2> HIDE DEF m
  <2>2. chan' = Append(chan, m) /\ params' = params
    BY <1>6 DEF get_server_finished_vd, Send, m
  <2>3. CASE lprf # "ServerFinished"
    <3>1. lstate' = "Error" /\ call' = "none"
      BY <1>6, <2>3 DEF get_server_finished_vd, LeaderFails
    <3> QED BY <1>0, <3>1, LeaderDown
  <2>4. CASE lprf = "ServerFinished"
    <3>1. lprf' = "Complete" /\ lstate' = lstate
      BY <1>6, <2>4 DEF get_server_finished_vd, LeaderWaits
    <3>2. /\ LayerAfter(Lead, m) = Lead /\ Given(m.type) = {"sf"}
          /\ PrfAfter(lprf, m.type) = "Complete" /\ ~Computes(Lead, m)
      BY <2>1 DEF LayerAfter, Given, PrfAfter, Computes
    <3>3. LeaderSet' = LeaderSet \union {"sf"} /\ "sf" \notin LeaderSet
      BY <2>2, <2>4, <3>1 DEF LeaderSet
    <3>4. Admits(LeaderView, m)
      BY <1>2, <2>1, <2>4, <3>3 DEF Admits, LayerAdmits
    <3>5. Followed => ("random" \in params' <=> lprf' # "SessionKeys")
      BY <2>2, <2>4, <3>1 DEF Followed
    <3> QED BY <1>0, <1>1, <2>1, <2>2, <3>1, <3>2, <3>3, <3>4, <3>5, Sends
  <2> QED BY <2>3, <2>4
<1> QED BY <1>3, <1>4, <1>5, <1>6

\* The calls that send a record, or what is to be done with the records
LEMMA RecordSends ==
  ASSUME IInv, IInv', ReplicaInv,
         \/ \E r \in Incoming : push_incoming(r)
         \/ \E r \in Outgoing : push_outgoing(r)
         \/ start_traffic \/ flush \/ close_connection
  PROVE  ReplicaInv'
<1>0. /\ rl \in [Role -> Layer] /\ "leader" \in Role /\ "follower" \in Role
      /\ call = "none" /\ UNCHANGED <<fstate, fset, fprf, ferr, params, lprf, is_decrypting>>
      /\ lstate \in {"Handshake", "Active"} /\ fstate # "Done" /\ is_decrypting \in BOOLEAN
  <2>1. lstate = "Closed" => ~wants_flush(Lead)
    BY DEF ReplicaInv, After
  <2>2. /\ call = "none" /\ UNCHANGED <<fstate, fset, fprf, ferr, params, lprf, is_decrypting>>
        /\ lstate \in {"Handshake", "Active"}
    BY <2>1 DEF push_incoming, push_outgoing, start_traffic, flush, close_connection, Idle,
       fVars, hsVars, flagVars
  <2> QED BY <2>2, AfterAcceptance DEF IInv, TypeOK, Role
<1>1. /\ Waits = {} /\ LeaderSet' = LeaderSet
      /\ LeaderView.layer = Lead /\ LeaderView.set = LeaderSet /\ LeaderView.prf = lprf
      /\ Followed => ("random" \in params' <=> lprf' # "SessionKeys")
  BY <1>0 DEF Waits, LeaderSet, LeaderView, Followed
<1>2. ASSUME NEW m \in Message, m.type \in {"Encrypt", "Decrypt", "StartTraffic", "Flush", "CloseConnection"},
             chan' = Append(chan, m), lstate' = lstate, Follow' = Follow,
             Lead' = LayerAfter(Lead, m), LayerAdmits(Lead, m), Computes(Lead, m) => m \in Waits'
      PROVE  ReplicaInv'
  <2>1. Given(m.type) = {} /\ PrfAfter(lprf, m.type) = lprf
    BY <1>2 DEF Given, PrfAfter
  <2>2. LeaderSet' = LeaderSet \union Given(m.type)
    BY <1>1, <2>1
  <2>3. Admits(LeaderView, m)
    BY <1>1, <1>2 DEF Admits
  <2> QED BY <1>0, <1>1, <1>2, <2>1, <2>2, <2>3, Sends
<1>3. ASSUME NEW r \in Incoming, push_incoming(r)
      PROVE  ReplicaInv'
  <2> DEFINE m == [type |-> "Decrypt", rec |-> r]
  <2>1. CASE CanDecrypt(Lead, r)
    <3>1. m \in Message /\ m.type = "Decrypt" /\ m.rec = r
      BY MessagesAre
    <3>2. /\ rl' = [rl EXCEPT !["leader"] = push_decrypt(@, r)]
          /\ chan' = Append(chan, m) /\ lstate' = lstate
      BY <1>3, <2>1 DEF push_incoming, LeaderContinues, Send
    <3> HIDE DEF m
    <3>3. Lead' = push_decrypt(Lead, r) /\ Follow' = Follow
      BY <1>0, <3>2 DEF Lead, Follow
    <3>4. LayerAfter(Lead, m) = push_decrypt(Lead, r) /\ LayerAdmits(Lead, m) /\ ~Computes(Lead, m)
      BY <2>1, <3>1 DEF LayerAfter, Applied, LayerAdmits, Computes
    <3> QED BY <1>2, <3>1, <3>2, <3>3, <3>4
  <2>2. CASE ~CanDecrypt(Lead, r)
    <3>1. lstate' = "Error" /\ call' = "none" /\ rl' = rl
      BY <1>3, <2>2 DEF push_incoming, LeaderFails
    <3> QED BY <1>0, <3>1, LeaderDown
  <2> QED BY <2>1, <2>2
<1>4. ASSUME NEW r \in Outgoing, push_outgoing(r)
      PROVE  ReplicaInv'
  <2> DEFINE m == [type |-> "Encrypt", rec |-> r]
  <2>1. CASE CanEncrypt(Lead, r)
    <3>1. m \in Message /\ m.type = "Encrypt" /\ m.rec = r
      BY MessagesAre
    <3>2. /\ rl' = [rl EXCEPT !["leader"] = push_encrypt(@, r)]
          /\ chan' = Append(chan, m) /\ lstate' = lstate
      BY <1>4, <2>1 DEF push_outgoing, LeaderContinues, Send
    <3> HIDE DEF m
    <3>3. Lead' = push_encrypt(Lead, r) /\ Follow' = Follow
      BY <1>0, <3>2 DEF Lead, Follow
    <3>4. LayerAfter(Lead, m) = push_encrypt(Lead, r) /\ LayerAdmits(Lead, m) /\ ~Computes(Lead, m)
      BY <2>1, <3>1 DEF LayerAfter, Applied, LayerAdmits, Computes
    <3> QED BY <1>2, <3>1, <3>2, <3>3, <3>4
  <2>2. CASE ~CanEncrypt(Lead, r)
    <3>1. lstate' = "Error" /\ call' = "none" /\ rl' = rl
      BY <1>4, <2>2 DEF push_outgoing, LeaderFails
    <3> QED BY <1>0, <3>1, LeaderDown
  <2> QED BY <2>1, <2>2
<1>5. CASE start_traffic
  <2> DEFINE m == [type |-> "StartTraffic"]
  <2>1. m \in Message /\ m.type = "StartTraffic"
    BY MessagesAre
  <2>2. /\ rl' = [rl EXCEPT !["leader"] = start_layer(@)]
        /\ chan' = Append(chan, m) /\ lstate' = lstate
    BY <1>5 DEF start_traffic, Send
  <2> HIDE DEF m
  <2>3. Lead' = start_layer(Lead) /\ Follow' = Follow
    BY <1>0, <2>2 DEF Lead, Follow
  <2>4. LayerAfter(Lead, m) = start_layer(Lead) /\ LayerAdmits(Lead, m) /\ ~Computes(Lead, m)
    BY <2>1 DEF LayerAfter, Applied, LayerAdmits, Computes
  <2> QED BY <1>2, <2>1, <2>2, <2>3, <2>4
<1>6. CASE flush
  <2> DEFINE m == [type |-> "Flush", is_decrypting |-> is_decrypting]
             error == FlushError(Lead, is_decrypting, TRUE)
  <2>1. rl' = rl /\ chan' = Append(chan, m)
    BY <1>6 DEF flush, Send
  <2>2. Lead' = Lead /\ Follow' = Follow
    BY <2>1 DEF Lead, Follow
  <2>3. CASE error # "none"
    <3>1. lstate' = "Error" /\ call' = "none"
      BY <1>6, <2>3 DEF flush, LeaderFails
    <3> QED BY <1>0, <2>1, <3>1, LeaderDown
  <2>4. CASE error = "none"
    <3>1. m \in Message /\ m.type = "Flush" /\ m.is_decrypting = is_decrypting
      BY <1>0, MessagesAre
    <3>2. lstate' = lstate /\ (NothingToFlush(Lead, is_decrypting) \/ call' = "flush")
      BY <1>6, <2>4 DEF flush, LeaderContinues, LeaderWaits
    <3>3. call' = "flush" => m \in Waits'
      BY <1>0 DEF Waits
    <3>4. FlushError(Lead, is_decrypting, FALSE) = "none"
      BY <2>4 DEF FlushError
    <3> HIDE DEF m
    <3>5. LayerAfter(Lead, m) = Lead /\ LayerAdmits(Lead, m)
      BY <3>1, <3>4 DEF LayerAfter, LayerAdmits
    <3>6. Computes(Lead, m) => m \in Waits'
      BY <3>1, <3>2, <3>3 DEF Computes
    <3> QED BY <1>2, <2>1, <2>2, <3>1, <3>2, <3>5, <3>6
  <2> QED BY <2>3, <2>4
<1>7. CASE close_connection
  <2> DEFINE m == [type |-> "CloseConnection"]
  <2>1. rl' = rl
    BY <1>7 DEF close_connection
  <2>2. Lead' = Lead /\ Follow' = Follow
    BY <2>1 DEF Lead, Follow
  <2>3. CASE lstate # "Active" \/ CommitError(Lead) # "none"
    <3>1. lstate' = "Error" /\ call' = "none"
      BY <1>7, <2>3 DEF close_connection, LeaderFails
    <3> QED BY <1>0, <2>1, <3>1, LeaderDown
  <2>4. CASE lstate = "Active" /\ CommitError(Lead) = "none"
    <3>1. m \in Message /\ m.type = "CloseConnection"
      BY MessagesAre
    <3>2. chan' = Append(chan, m) /\ lstate' = lstate /\ call' = "commit"
      BY <1>7, <2>4 DEF close_connection, LeaderWaits, Send
    <3>3. m \in Waits'
      BY <3>2 DEF Waits
    <3> HIDE DEF m
    <3>4. LayerAfter(Lead, m) = Lead /\ LayerAdmits(Lead, m)
      BY <2>4, <3>1 DEF LayerAfter, LayerAdmits
    <3> QED BY <1>2, <2>2, <3>1, <3>2, <3>3, <3>4
  <2> QED BY <2>3, <2>4
<1> QED BY <1>3, <1>4, <1>5, <1>6, <1>7

\* The calls that send nothing
LEMMA LocalCalls ==
  ASSUME IInv, ReplicaInv,
         \/ \E p \in LocalParams : set_param(p)
         \/ prepare_encryption \/ next_incoming \/ next_outgoing \/ defer_decryption \/ stop
  PROVE  ReplicaInv'
<1>1. ASSUME NEW p \in LocalParams, set_param(p)
      PROVE  ReplicaInv'
  <2>1. /\ lstate = "Handshake" /\ params' = params \union {p} /\ p \notin {"random", "key"}
        /\ UNCHANGED <<rl, chan, lstate, call, lprf, is_decrypting, fstate, fset, fprf, ferr>>
    BY <1>1, RecordAssumption DEF set_param, flagVars, fVars
  <2>2. Lead' = Lead /\ Follow' = Follow /\ Waits' = Waits
    BY <2>1 DEF Lead, Follow, Waits
  <2>3. LeaderSet' = LeaderSet
    BY <2>1 DEF LeaderSet
  <2>4. LeaderView' = LeaderView /\ FollowerView' = FollowerView
    BY <2>1, <2>2, <2>3 DEF LeaderView, FollowerView
  <2>5. Linked' => Followed'
    BY <2>1, <2>2, <2>4 DEF ReplicaInv, Linked, Followed
  <2> QED BY <2>1, <2>5, Connects
<1>2. CASE prepare_encryption
  <2>1. /\ lstate = "Handshake" /\ call = "none"
        /\ UNCHANGED <<rl, chan, params, lprf, is_decrypting, fstate, fset, fprf, ferr>>
    BY <1>2 DEF prepare_encryption, Idle, hsVars, flagVars, fVars
  <2>2. CASE params # Params
    <3>1. lstate' = "Error" /\ call' = "none" /\ fstate # "Done"
      BY <1>2, <2>1, <2>2, AfterAcceptance DEF prepare_encryption, LeaderFails
    <3> QED BY <2>1, <3>1, LeaderDown
  <2>3. CASE params = Params
    <3>1. lstate' = lstate /\ call' = "prepare_encryption"
      BY <1>2, <2>3 DEF prepare_encryption, LeaderWaits
    <3>2. Lead' = Lead /\ Follow' = Follow /\ Waits' = Waits
      BY <2>1, <3>1 DEF Lead, Follow, Waits
    <3>3. LeaderView' = LeaderView /\ FollowerView' = FollowerView
      BY <2>1, <3>2 DEF LeaderView, LeaderSet, FollowerView
    <3>4. Linked' => Followed'
      BY <2>1, <3>1, <3>2, <3>3 DEF ReplicaInv, Linked, Followed
    <3> QED BY <2>1, <3>1, <3>4, Connects
  <2> QED BY <2>2, <2>3
<1>3. CASE next_incoming
  BY <1>3, NothingMoves DEF next_incoming, hsVars, flagVars, fVars
<1>4. CASE next_outgoing
  BY <1>4, NothingMoves DEF next_outgoing, hsVars, flagVars, fVars
<1>5. CASE defer_decryption
  BY <1>5, NothingMoves DEF defer_decryption, Idle, hsVars, fVars
<1>6. CASE stop
  BY <1>6, NothingMoves DEF stop, Idle, hsVars, flagVars, fVars
<1> QED BY <1>1, <1>2, <1>3, <1>4, <1>5, <1>6

-----------------------------------------------------------------------------
(***************************************************************************)
(* The follower's handler, and the loss of a party.                        *)
(***************************************************************************)
\* A view that admits a message rejects nothing.
LEMMA AdmittedNotRejected ==
  ASSUME NEW m \in Message, Admits(FollowerView, m)
  PROVE  Rejected(m) = "none"
<1>1. m.type \in {"SetServerRandom", "SetServerKey", "ClientFinishedVd", "ServerFinishedVd",
                  "StartTraffic", "CloseConnection", "Encrypt", "Decrypt", "Flush"}
  BY MessageFields
<1>2. FollowerView.layer = Follow /\ FollowerView.set = fset /\ FollowerView.prf = fprf
  BY DEF FollowerView
<1>3. CASE m.type \in {"SetServerRandom", "SetServerKey", "ClientFinishedVd", "ServerFinishedVd"}
  BY <1>2, <1>3 DEF Admits, Rejected
<1>4. CASE m.type \in {"Encrypt", "Decrypt", "StartTraffic"}
  BY <1>2, <1>4 DEF Admits, LayerAdmits, Rejected
<1>5. CASE m.type = "Flush"
  BY <1>2, <1>5 DEF Admits, LayerAdmits, Rejected
<1>6. CASE m.type = "CloseConnection"
  BY <1>2, <1>6 DEF Admits, LayerAdmits, Rejected
<1> QED BY <1>1, <1>3, <1>4, <1>5, <1>6

\* While the leader is up, a running follower admits the oldest message.
LEMMA HeadAdmitted ==
  ASSUME IInv, ReplicaInv, fstate = "Running", chan # <<>>
  PROVE  /\ lstate \in {"Handshake", "Active", "Error"}
         /\ lstate = "Error" => call = "none"
         /\ Head(chan) \in Message /\ Tail(chan) \in Seq(Message)
         /\ lstate # "Error" =>
              /\ Followed
              /\ Rejected(Head(chan)) = "none"
              /\ Leads(Effect(FollowerView, Head(chan)), Tail(chan), LeaderView, Waits)
              /\ Computes(Follow, Head(chan)) =>
                   /\ Head(chan) \in Waits /\ Tail(chan) = <<>>
                   /\ Effect(FollowerView, Head(chan)) = LeaderView
<1>1. lstate \in {"Handshake", "Active", "Error"} /\ (lstate = "Error" => call = "none")
  BY DEF ReplicaInv, After
<1>2. chan \in Seq(Message) /\ Head(chan) \in Message /\ Tail(chan) \in Seq(Message)
  BY ReceiveType DEF IInv, TypeOK
<1>3. ASSUME lstate # "Error"
      PROVE  /\ Followed
             /\ Rejected(Head(chan)) = "none"
             /\ Leads(Effect(FollowerView, Head(chan)), Tail(chan), LeaderView, Waits)
             /\ Computes(Follow, Head(chan)) =>
                  /\ Head(chan) \in Waits /\ Tail(chan) = <<>>
                  /\ Effect(FollowerView, Head(chan)) = LeaderView
  <2>1. Followed
    BY <1>1, <1>3 DEF ReplicaInv, Linked
  <2>2. Leads(FollowerView, chan, LeaderView, Waits) /\ FollowerView.layer = Follow
    BY <2>1 DEF Followed, FollowerView
  <2>3. /\ Admits(FollowerView, Head(chan))
        /\ Leads(Effect(FollowerView, Head(chan)), Tail(chan), LeaderView, Waits)
        /\ Computes(Follow, Head(chan)) => Tail(chan) = <<>> /\ Head(chan) \in Waits
        /\ Tail(chan) = <<>> => Effect(FollowerView, Head(chan)) = LeaderView
    BY <1>2, <2>2, LeadsTail
  <2>4. Rejected(Head(chan)) = "none"
    BY <1>2, <2>3, AdmittedNotRejected
  <2> QED BY <2>1, <2>3, <2>4
<1> QED BY <1>1, <1>2, <1>3

\* The follower takes the effect of the oldest message.
LEMMA Takes ==
  ASSUME IInv, ReplicaInv, fstate = "Running", chan # <<>>, chan' = Tail(chan),
         UNCHANGED <<lstate, call, params, lprf, is_decrypting, fstate, ferr>>, Lead' = Lead,
         Follow' = LayerAfter(Follow, Head(chan)),
         fset' = fset \union Given(Head(chan).type), fprf' = PrfAfter(fprf, Head(chan).type)
  PROVE  ReplicaInv'
<1>1. CASE lstate = "Error"
  <2>1. lstate' = "Error" /\ call' = "none" /\ fstate' = "Running"
    BY <1>1, HeadAdmitted
  <2> QED BY <2>1, LeaderDown
<1>2. CASE lstate # "Error"
  <2>1. lstate \in {"Handshake", "Active"}
    BY <1>2, HeadAdmitted
  <2>2. FollowerView' = Effect(FollowerView, Head(chan))
    <3>1. FollowerView.layer = Follow /\ FollowerView.set = fset /\ FollowerView.prf = fprf
      BY DEF FollowerView
    <3> QED BY <3>1 DEF FollowerView, Effect
  <2>3. LeaderView' = LeaderView /\ Waits' = Waits
    BY DEF LeaderView, LeaderSet, Waits
  <2>4. Followed /\ Leads(Effect(FollowerView, Head(chan)), Tail(chan), LeaderView, Waits)
    BY <1>2, HeadAdmitted
  <2>5. Followed'
    BY <2>2, <2>3, <2>4 DEF Followed
  <2> QED BY <2>1, <2>5, Connects
<1> QED BY <1>1, <1>2

LEMMA FollowerReplicas ==
  ASSUME IInv, ReplicaInv, Handle \/ Lose \/ break_link \/ Ended \/ UNCHANGED vars
  PROVE  ReplicaInv'
<1>0. rl \in [Role -> Layer] /\ "leader" \in Role /\ "follower" \in Role
  BY DEF IInv, TypeOK, Role
<1>1. CASE follower_rejects
  <2>1. /\ fstate = "Running" /\ chan # <<>> /\ Rejected(Head(chan)) # "none"
        /\ fstate' = "Error" /\ UNCHANGED <<lstate, call>>
    BY <1>1 DEF follower_rejects, FollowerFails, leaderSide
  <2>2. lstate = "Error" /\ call = "none"
    BY <2>1, HeadAdmitted
  <2> QED BY <2>1, <2>2, LeaderDown
<1>2. CASE follower_random
  <2>1. /\ fstate = "Running" /\ chan # <<>> /\ Head(chan).type = "SetServerRandom" /\ chan' = Tail(chan)
        /\ fset' = fset \union {"random"} /\ fprf' = "ClientFinished"
        /\ UNCHANGED <<rl, lstate, call, params, lprf, is_decrypting, fstate, ferr>>
    BY <1>2 DEF follower_random, Handles, leaderSide, hsVars, flagVars
  <2>2. Lead' = Lead /\ Follow' = Follow
    BY <2>1 DEF Lead, Follow
  <2>3. /\ Follow = LayerAfter(Follow, Head(chan)) /\ Given(Head(chan).type) = {"random"}
        /\ PrfAfter(fprf, Head(chan).type) = "ClientFinished"
    BY <2>1 DEF LayerAfter, Given, PrfAfter
  <2> QED BY <2>1, <2>2, <2>3, Takes
<1>3. CASE follower_record
  <2>1. /\ fstate = "Running" /\ chan # <<>> /\ chan' = Tail(chan)
        /\ Head(chan).type \in {"Encrypt", "Decrypt", "StartTraffic", "Flush"}
        /\ rl' = [rl EXCEPT !["follower"] = Applied(@, Head(chan))]
        /\ UNCHANGED <<lstate, call, params, lprf, is_decrypting, fstate, fset, fprf, ferr>>
    BY <1>3 DEF follower_record, Handles, leaderSide, hsVars, flagVars, fVars
  <2>2. Lead' = Lead /\ Follow' = Applied(Follow, Head(chan))
    BY <1>0, <2>1 DEF Lead, Follow
  <2>3. Applied(Follow, Head(chan)) = LayerAfter(Follow, Head(chan))
    BY <2>1 DEF LayerAfter, Applied
  <2>4. Given(Head(chan).type) = {} /\ PrfAfter(fprf, Head(chan).type) = fprf
    BY <2>1 DEF Given, PrfAfter
  <2>5. fset' = fset \union Given(Head(chan).type)
    BY <2>1, <2>4
  <2> QED BY <2>1, <2>2, <2>3, <2>4, <2>5, Takes
<1>4. CASE leader_loses_peer
  <2>1. /\ lstate' = "Error" /\ call' = "none" /\ fstate # "Done"
        /\ UNCHANGED <<rl, fstate, fset, fprf>>
    BY <1>4, AfterAcceptance DEF leader_loses_peer, LeaderFails, fVars
  <2> QED BY <2>1, LeaderDown
<1>5. CASE follower_loses_peer
  <2>1. /\ fstate' = "Error" /\ ferr' = "peer" /\ UNCHANGED <<rl, chan, lstate, call, params, lprf>>
    BY <1>5 DEF follower_loses_peer, FollowerFails, leaderSide, hsVars
  <2>2. Lead' = Lead
    BY <2>1 DEF Lead
  <2>3. Before' /\ After' /\ ~Linked' /\ FailsWithLeader'
    BY <2>1, <2>2 DEF ReplicaInv, Before, After, Linked, FailsWithLeader
  <2> QED BY <2>3 DEF ReplicaInv
<1>6. CASE break_link
  BY <1>6, NothingMoves DEF break_link, hsVars, flagVars, fVars
<1>7. CASE UNCHANGED vars
  BY <1>7, NothingMoves DEF vars
<1> QED BY <1>1, <1>2, <1>3, <1>4, <1>5, <1>6, <1>7 DEF Handle, Lose, Ended

-----------------------------------------------------------------------------
(***************************************************************************)
(* The computations of both parties.                                       *)
(***************************************************************************)
LEMMA HandshakeReplicas ==
  ASSUME IInv, ReplicaInv, compute_keys \/ compute_client_finished \/ compute_server_finished
  PROVE  ReplicaInv'
<1>0. /\ fstate = "Running" /\ chan # <<>> /\ chan' = Tail(chan) /\ call' = "none"
      /\ call \in {"prepare_encryption", "client_finished", "server_finished"}
      /\ UNCHANGED <<params, lprf, fstate, ferr>>
      /\ rl \in [Role -> Layer] /\ "leader" \in Role /\ "follower" \in Role
  BY DEF compute_keys, compute_client_finished, compute_server_finished, Together, Handles, hsVars,
     IInv, TypeOK, Role
<1>1. /\ lstate \in {"Handshake", "Active"} /\ Followed /\ Tail(chan) \in Seq(Message)
      /\ Leads(Effect(FollowerView, Head(chan)), Tail(chan), LeaderView, Waits)
  BY <1>0, HeadAdmitted
<1>2. Waits = {} /\ Waits' = {} /\ LeaderSet' = LeaderSet
  BY <1>0 DEF Waits, LeaderSet
<1>3. FollowerView.layer = Follow /\ FollowerView.set = fset /\ FollowerView.prf = fprf
  BY DEF FollowerView
<1>4. CASE compute_keys
  <2>1. /\ Head(chan).type = "SetServerKey" /\ lstate' = "Active" /\ fprf' = fprf
        /\ fset' = fset \union {"key"} /\ rl' = [p \in Role |-> setup_layer(rl[p])]
    BY <1>4 DEF compute_keys, Together, Handles
  <2>2. Lead' = setup_layer(Lead) /\ Follow' = setup_layer(Follow)
    BY <1>0, <2>1 DEF Lead, Follow
  <2>3. LeaderView' = WithKeys(LeaderView)
    BY <1>0, <1>2, <2>2 DEF LeaderView, WithKeys
  <2>4. FollowerView' = WithKeys(Effect(FollowerView, Head(chan)))
    <3>1. /\ LayerAfter(Follow, Head(chan)) = Follow /\ Given(Head(chan).type) = {"key"}
          /\ PrfAfter(fprf, Head(chan).type) = fprf
      BY <2>1 DEF LayerAfter, Given, PrfAfter
    <3>2. Effect(FollowerView, Head(chan)) = [layer |-> Follow, set |-> fset \union {"key"}, prf |-> fprf]
      BY <1>3, <3>1 DEF Effect
    <3> QED BY <2>1, <2>2, <3>2 DEF FollowerView, WithKeys
  <2>5. Leads(WithKeys(Effect(FollowerView, Head(chan))), Tail(chan), WithKeys(LeaderView), {})
    BY <1>1, <1>2, LeadsWithKeys
  <2>6. Followed'
    BY <1>0, <1>1, <1>2, <2>3, <2>4, <2>5 DEF Followed
  <2> QED BY <1>0, <1>1, <2>1, <2>6, Connects
<1>5. CASE compute_client_finished \/ compute_server_finished
  <2>1. /\ lstate' = lstate /\ rl' = rl /\ fset' = fset \union Given(Head(chan).type)
        /\ fprf' = PrfAfter(fprf, Head(chan).type) /\ LayerAfter(Follow, Head(chan)) = Follow
    BY <1>5 DEF compute_client_finished, compute_server_finished, Together, Handles, Given, PrfAfter, LayerAfter
  <2>2. Lead' = Lead /\ Follow' = Follow
    BY <2>1 DEF Lead, Follow
  <2>3. LeaderView' = LeaderView
    BY <1>0, <1>2, <2>2 DEF LeaderView
  <2>4. FollowerView' = Effect(FollowerView, Head(chan))
    BY <1>3, <2>1, <2>2 DEF FollowerView, Effect
  <2>5. Followed'
    BY <1>0, <1>1, <1>2, <2>3, <2>4 DEF Followed
  <2> QED BY <1>0, <1>1, <2>1, <2>5, Connects
<1> QED BY <1>4, <1>5

\* A computation on the records finds the follower's layer the leader's own.
LEMMA LayersMeet ==
  ASSUME IInv, ReplicaInv, fstate = "Running", chan # <<>>, call \in {"flush", "commit"},
         Computes(Follow, Head(chan))
  PROVE  /\ lstate \in {"Handshake", "Active"} /\ Followed /\ Tail(chan) = <<>> /\ Head(chan) \in Waits
         /\ Follow = Lead /\ fset = LeaderSet /\ fprf = lprf
<1>1. /\ lstate \in {"Handshake", "Active"} /\ Followed
      /\ Tail(chan) = <<>> /\ Head(chan) \in Waits
      /\ Effect(FollowerView, Head(chan)) = LeaderView
  BY HeadAdmitted
<1>2. Head(chan).type \in {"Flush", "CloseConnection"}
  BY DEF Computes
<1>3. /\ LayerAfter(Follow, Head(chan)) = Follow /\ Given(Head(chan).type) = {}
      /\ PrfAfter(fprf, Head(chan).type) = fprf
  BY <1>2 DEF LayerAfter, Given, PrfAfter
<1>4. /\ Effect(FollowerView, Head(chan)).layer = Follow
      /\ Effect(FollowerView, Head(chan)).set = fset
      /\ Effect(FollowerView, Head(chan)).prf = fprf
  BY <1>3 DEF Effect, FollowerView
<1>5. LeaderView.layer = Lead /\ LeaderView.set = LeaderSet /\ LeaderView.prf = lprf
  BY DEF LeaderView
<1> QED BY <1>1, <1>4, <1>5

LEMMA RecordReplicas ==
  ASSUME IInv, IInv', ReplicaInv, compute_flush \/ compute_commit
  PROVE  ReplicaInv'
<1>0. /\ fstate = "Running" /\ chan # <<>> /\ chan' = Tail(chan) /\ call' = "none"
      /\ call \in {"flush", "commit"} /\ UNCHANGED <<params, lprf>>
      /\ rl \in [Role -> Layer] /\ Role = {"leader", "follower"}
      /\ Computes(Follow, Head(chan))
  BY DEF compute_flush, compute_commit, Together, Handles, hsVars, IInv, TypeOK, Role, Computes
<1>1. /\ lstate \in {"Handshake", "Active"} /\ Followed /\ Tail(chan) = <<>> /\ Head(chan) \in Waits
      /\ Follow = Lead /\ fset = LeaderSet /\ fprf = lprf
  BY <1>0, LayersMeet
<1>2. ASSUME NEW why, BothFail(why) PROVE ReplicaInv'
  BY <1>0, <1>2, LeaderDown DEF BothFail
<1>3. CASE compute_flush
  <2> DEFINE theirs == Head(chan).is_decrypting
             ops == FlushOps(Lead, is_decrypting)
  <2>1. CASE ~(Lead.encrypt_buffer = Follow.encrypt_buffer /\ TagsVerify(ops, FlushOps(Follow, theirs)))
    <3>1. BothFail("tag")
      BY <1>3, <2>1 DEF compute_flush
    <3> QED BY <1>2, <3>1
  <2>2. CASE Lead.encrypt_buffer = Follow.encrypt_buffer /\ TagsVerify(ops, FlushOps(Follow, theirs))
    <3>1. /\ rl' = [rl EXCEPT !["leader"] = flush_layer(Lead, is_decrypting),
                              !["follower"] = flush_layer(Follow, theirs)]
          /\ UNCHANGED <<lstate, fstate, fset, fprf, ferr>>
      BY <1>3, <2>2 DEF compute_flush, fVars, Lead, Follow
    <3>2. theirs = is_decrypting
      <4>1. call = "flush"
        BY <1>3 DEF compute_flush, Together
      <4> QED BY <1>1, <4>1 DEF Waits
    <3>3. Lead' = flush_layer(Lead, is_decrypting) /\ Follow' = flush_layer(Follow, theirs)
      BY <1>0, <3>1 DEF Lead, Follow
    <3>4. Lead' = Follow'
      BY <1>1, <3>2, <3>3
    <3>5. LeaderSet' = LeaderSet
      BY <1>0 DEF LeaderSet
    <3>6. FollowerView' = LeaderView'
      BY <1>0, <1>1, <3>1, <3>4, <3>5 DEF FollowerView, LeaderView
    <3>7. FollowerView' \in View
      <4>1. /\ Follow' \in Layer /\ fset' \in SUBSET {"random", "key", "cf", "sf"} /\ fprf' \in PrfStates
        BY DEF IInv, TypeOK, Follow, Role
      <4> QED BY <4>1 DEF FollowerView, View
    <3>8. Leads(FollowerView', <<>>, FollowerView', Waits')
      BY <3>7, LeadsEmpty
    <3>9. Followed'
      BY <1>0, <1>1, <3>6, <3>8 DEF Followed
    <3> QED BY <1>1, <3>1, <3>9, Connects
  <2> QED BY <2>1, <2>2
<1>4. CASE compute_commit
  <2> DEFINE ops == Lead.decrypt_buffer
             committed == [p \in Role |-> commit_layer(rl[p])]
  <2>1. CASE ~TagsVerify(ops, Follow.decrypt_buffer)
    <3>1. BothFail("tag")
      BY <1>4, <2>1 DEF compute_commit
    <3> QED BY <1>2, <3>1
  <2>2. CASE TagsVerify(ops, Follow.decrypt_buffer) /\ ~CommitKeystream(Lead)
    <3>1. BothFail("keystream")
      BY <1>4, <2>2 DEF compute_commit
    <3> QED BY <1>2, <3>1
  <2>3. CASE TagsVerify(ops, Follow.decrypt_buffer) /\ CommitKeystream(Lead)
    <3>1. /\ rl' = committed /\ lstate' = "Closed"
          /\ fstate' \in {"Done", "Error"} /\ ferr' = RunError(committed["follower"])
      BY <1>4, <2>3 DEF compute_commit
    <3>2. Lead' = commit_layer(Lead) /\ Follow' = commit_layer(Follow)
      BY <1>0, <3>1 DEF Lead, Follow
    <3>3. Lead' = Follow'
      BY <1>1, <3>2
    <3>4. ~wants_flush(Lead')
      <4>1. Lead.encrypt_buffer = <<>>
        BY <1>4 DEF compute_commit, Together, IInv, Committing
      <4>2. Good(Lead)
        BY <1>0 DEF IInv, SequenceIntact, Good, Lead
      <4>3. commit_layer(Lead).decrypt_buffer = <<>> /\ commit_layer(Lead).encrypt_buffer = <<>>
        BY <4>1, <4>2, CommitGood
      <4> QED BY <3>2, <4>3 DEF wants_flush
    <3>5. ferr' \in {"none", "handshake incomplete", "transcript"}
      BY <3>1 DEF RunError
    <3>6. Before' /\ ~Linked' /\ FailsWithLeader'
      BY <3>1, <3>5 DEF Before, Linked, FailsWithLeader
    <3>7. After'
      BY <1>0, <3>1, <3>3, <3>4 DEF After
    <3> QED BY <3>6, <3>7 DEF ReplicaInv
  <2> QED BY <2>1, <2>2, <2>3
<1> QED BY <1>3, <1>4

-----------------------------------------------------------------------------
LEMMA ReplicaStep == IInv /\ ReplicaInv /\ [Next]_vars => ReplicaInv'
<1> SUFFICES ASSUME IInv, ReplicaInv, [Next]_vars PROVE ReplicaInv'
  OBVIOUS
<1>0. IInv'
  BY Step
<1>1. CASE Setup
  BY <1>1, SetupReplicas
<1>2. CASE Call
  BY <1>0, <1>2, HandshakeSends, RecordSends, LocalCalls DEF Call
<1>3. CASE Compute
  BY <1>0, <1>3, HandshakeReplicas, RecordReplicas DEF Compute
<1>4. CASE Handle \/ Lose \/ break_link \/ Ended \/ UNCHANGED vars
  BY <1>4, FollowerReplicas
<1> QED BY <1>1, <1>2, <1>3, <1>4 DEF Next

LEMMA ReplicaInvariance == Spec => [](IInv /\ ReplicaInv)
<1>1. Init => IInv /\ ReplicaInv
  BY Initially, ReplicaInitially
<1>2. (IInv /\ ReplicaInv) /\ [Next]_vars => (IInv /\ ReplicaInv)'
  BY Step, ReplicaStep
<1> QED BY <1>1, <1>2, PTL DEF Spec

(***************************************************************************)
(* The follower, who sees nothing but the leader's messages, holds the     *)
(* leader's record layer whenever it has caught up with a leader that      *)
(* waits for nothing, through deferred decryption, flushes that neither    *)
(* party has anything to do in, and records pushed before the keys.        *)
(***************************************************************************)
THEOREM ReplicaFaithful == Spec => []ReplicasAgree
<1>1. IInv /\ ReplicaInv => ReplicasAgree
  <2> SUFFICES ASSUME IInv, ReplicaInv, chan = <<>>, call = "none",
                      lstate \in {"Handshake", "Active", "Closed", "Stopped"},
                      fstate \in {"Ready", "Running", "Done"}
               PROVE  Lead = Follow
    BY DEF ReplicasAgree, Lead, Follow
  <2>1. CASE fstate = "Done"
    BY <2>1 DEF ReplicaInv, After
  <2>2. CASE fstate # "Done"
    <3>1. Followed
      BY <2>2 DEF ReplicaInv, After, Linked
    <3>2. Leads(FollowerView, <<>>, LeaderView, Waits)
      BY <3>1 DEF Followed
    <3>3. FollowerView = LeaderView
      BY <3>2, LeadsEmpty
    <3>4. FollowerView.layer = Follow /\ LeaderView.layer = Lead
      BY DEF FollowerView, LeaderView
    <3> QED BY <3>3, <3>4
  <2> QED BY <2>1, <2>2
<1> QED BY <1>1, ReplicaInvariance, PTL

(***************************************************************************)
(* The follower refuses nothing that a leader in good order has sent: the  *)
(* volume checks, the state of the PRF, the parameters set once and the    *)
(* limits of a flush never fail in the follower alone.                     *)
(***************************************************************************)
THEOREM FollowerFailsWithLeader == Spec => []FailsWithLeader
<1>1. IInv /\ ReplicaInv => FailsWithLeader
  BY DEF ReplicaInv
<1> QED BY <1>1, ReplicaInvariance, PTL

-----------------------------------------------------------------------------
(***************************************************************************)
(* The refinement of Witness.                                              *)
(***************************************************************************)
LEMMA PrefixOfConcat ==
  ASSUME NEW S, NEW a \in Seq(S), NEW b \in Seq(S)
  PROVE  Witnessed!IsPrefixOf(a, a \o b) /\ Witnessed!IsPrefixOf(a, a)
<1>1. Len(a) \in Nat /\ Len(b) \in Nat
  BY LenProperties
<1>2. /\ Len(a \o b) = Len(a) + Len(b)
      /\ \A i \in 1 .. Len(a) + Len(b) : (a \o b)[i] = IF i <= Len(a) THEN a[i] ELSE b[i - Len(a)]
  BY ConcatProperties
<1> QED BY <1>1, <1>2 DEF Witnessed!IsPrefixOf

\* What is pushed into a buffer is the next record handed over.
LEMMA PushedIsNext ==
  ASSUME NEW S, NEW done \in Seq(S), NEW buffered \in Seq(S), NEW next \in Nat,
         NEW op \in S, op.seq = next, Numbered(done, buffered, next)
  PROVE  Witnessed!IsNext(done \o buffered, done \o Append(buffered, op))
<1> DEFINE old == done \o buffered
<1>1. old \in Seq(S) /\ Len(old) = next /\ Len(old) \in Nat
  BY ConcatProperties, LenProperties DEF Numbered
<1>2. <<op>> \in Seq(S) /\ Append(buffered, op) = buffered \o <<op>>
  BY AppendIsConcat
<1>3. done \o Append(buffered, op) = old \o <<op>>
  BY <1>2, ConcatAssociative
<1> HIDE DEF old
<1>4. old \o <<op>> = Append(old, op)
  BY <1>1, AppendIsConcat
<1>5. Len(Append(old, op)) = Len(old) + 1 /\ Append(old, op)[Len(old) + 1] = op
  BY <1>1, AppendProperties
<1>6. Witnessed!IsPrefixOf(old, old \o <<op>>)
  BY <1>1, <1>2, PrefixOfConcat
<1>7. Witnessed!IsNext(old, Append(old, op))
  BY <1>1, <1>4, <1>5, <1>6 DEF Witnessed!IsNext
<1> QED BY <1>3, <1>4, <1>7 DEF old

LEMMA SplitAt ==
  ASSUME NEW S, NEW b \in Seq(S), NEW n \in 0 .. Len(b)
  PROVE  /\ SubSeq(b, 1, n) \in Seq(S) /\ SubSeq(b, n + 1, Len(b)) \in Seq(S)
         /\ b = SubSeq(b, 1, n) \o SubSeq(b, n + 1, Len(b))
<1> DEFINE front == SubSeq(b, 1, n)
           rest == SubSeq(b, n + 1, Len(b))
<1>1. Len(b) \in Nat /\ DOMAIN b = 1 .. Len(b) /\ \A i \in 1 .. Len(b) : b[i] \in S
  BY LenProperties, ElementOfSeq
<1>0. Len(b) \in Nat /\ n \in Nat /\ n <= Len(b)
  <2>1. Len(b) \in Nat
    BY LenProperties
  <2> QED BY <2>1
<1>2. /\ front \in Seq(S) /\ Len(front) = n
      /\ \A i \in 1 .. n : front[i] = b[i]
  <2>1. 1 \in Int /\ n \in Int /\ \A i \in 1 .. n : b[i] \in S
    BY <1>1
  <2> QED BY <1>1, <2>1, SubSeqProperties
<1>3. /\ rest \in Seq(S) /\ Len(rest) = Len(b) - n
      /\ \A i \in 1 .. Len(b) - n : rest[i] = b[n + i]
  <2>1. n + 1 \in Int /\ Len(b) \in Int /\ \A i \in n + 1 .. Len(b) : b[i] \in S
    BY <1>1
  <2>2. /\ rest \in Seq(S)
        /\ Len(rest) = IF n + 1 <= Len(b) THEN Len(b) - (n + 1) + 1 ELSE 0
        /\ \A i \in 1 .. Len(b) - (n + 1) + 1 : rest[i] = b[n + 1 + i - 1]
    BY <2>1, SubSeqProperties
  <2> HIDE DEF rest
  <2>3. Len(rest) = Len(b) - n
    BY <1>0, <2>2
  <2>4. ASSUME NEW i \in 1 .. Len(b) - n PROVE rest[i] = b[n + i]
    <3>1. n + 1 + i - 1 = n + i /\ i \in 1 .. Len(b) - (n + 1) + 1
      BY <1>1
    <3> QED BY <2>2, <3>1
  <2> QED BY <2>2, <2>3, <2>4
<1> HIDE DEF front, rest
<1>4. /\ front \o rest \in Seq(S) /\ Len(front \o rest) = Len(b)
      /\ \A i \in 1 .. Len(b) : (front \o rest)[i] = IF i <= n THEN front[i] ELSE rest[i - n]
  <2>1. n + (Len(b) - n) = Len(b)
    BY <1>1
  <2> QED BY <1>2, <1>3, <2>1, ConcatProperties
<1>5. ASSUME NEW i \in 1 .. Len(b) PROVE (front \o rest)[i] = b[i]
  <2>1. CASE i <= n
    BY <2>1, <1>1, <1>2, <1>4
  <2>2. CASE ~(i <= n)
    <3>1. i - n \in 1 .. Len(b) - n /\ n + (i - n) = i
      BY <2>2, <1>1
    <3> QED BY <2>2, <3>1, <1>3, <1>4
  <2> QED BY <2>1, <2>2
<1>6. b = front \o rest
  BY <1>1, <1>4, <1>5, SeqEqual
<1> QED BY <1>2, <1>3, <1>6 DEF front, rest


\* A Finished message, then data, up to a close_notify: validate_transcript
LEMMA FinishesIsWhole ==
  ASSUME NEW S \in {EncryptOp, DecryptOp}, NEW records \in Seq(S), Finishes(records)
  PROVE  Witnessed!Whole(records)
<1>1. Len(records) \in Nat
  BY LenProperties
<1>2. ASSUME NEW i \in 2 .. Len(records), records[i].kind # "data"
      PROVE  i = Len(records) /\ records[i].kind = "close_notify"
  <2>1. i = Len(records)
    BY <1>1, <1>2 DEF Finishes, IsData
  <2>2. records[i].kind \in {"data", "close_notify"}
    BY <1>1, <2>1 DEF Finishes
  <2> QED BY <1>2, <2>1, <2>2
<1>3. records # <<>> /\ records[1].kind = "finished"
  BY DEF Finishes
<1> QED BY <1>2, <1>3 DEF Witnessed!Whole

LEMMA VerifiedIsAuthentic ==
  ASSUME NEW records \in Seq(DecryptOp), VerifyTags(records)
  PROVE  Witnessed!Authentic(records)
<1>1. DOMAIN records = 1 .. Len(records)
  BY LenProperties
<1> QED BY <1>1 DEF VerifyTags, Witnessed!Authentic

(***************************************************************************)
(* Steps that no witness sees, except that the follower may give up.       *)
(***************************************************************************)
LEMMA Unseen ==
  ASSUME \A p \in Role : rl'[p].sent_records = rl[p].sent_records /\ rl'[p].recv_records = rl[p].recv_records,
         rl'["leader"].encrypt_buffer = rl["leader"].encrypt_buffer,
         rl'["leader"].decrypt_buffer = rl["leader"].decrypt_buffer,
         rl'["leader"].key = rl["leader"].key,
         wire' = wire, delivered' = delivered,
         fstate' = fstate \/ (fstate \notin Gone /\ fstate' # "Done")
  PROVE  [Witnessed!Next]_(Witnessed!vars)
<1>1. "leader" \in Role /\ "follower" \in Role
  BY DEF Role
<1>2. UNCHANGED <<Witnessed!handed, Witnessed!transcript, Witnessed!taken, rl["leader"].key>>
  BY <1>1 DEF Witnessed!handed, Witnessed!transcript, Witnessed!taken
<1>3. CASE Verdict' = Verdict
  BY <1>2, <1>3 DEF Witnessed!vars, Witnessed!handed, Witnessed!transcript, Witnessed!taken
<1>4. CASE Verdict' # Verdict
  <2>1. Verdict = "open" /\ Verdict' = "rejected"
    BY <1>4 DEF Verdict, Gone
  <2>2. Witnessed!Reject
    BY <1>2, <2>1 DEF Witnessed!Reject, Witnessed!handed, Witnessed!transcript, Witnessed!taken
  <2> QED BY <2>2 DEF Witnessed!Next
<1> QED BY <1>3, <1>4

LEMMA UnseenQuiet ==
  ASSUME rl' = rl, outVars' = outVars,
         fstate' = fstate \/ (fstate \notin Gone /\ fstate' # "Done")
  PROVE  [Witnessed!Next]_(Witnessed!vars)
<1>1. wire' = wire /\ delivered' = delivered
  BY DEF outVars
<1> QED BY <1>1, Unseen

\* The flags of a layer are set without touching its records.
LEMMA FlagsUnseen ==
  ASSUME NEW l \in Layer
  PROVE  \A m \in {alloc_layer(l), setup_layer(l), start_layer(l)} :
           /\ m.sent_records = l.sent_records /\ m.recv_records = l.recv_records
           /\ m.encrypt_buffer = l.encrypt_buffer /\ m.decrypt_buffer = l.decrypt_buffer
           /\ m.key = l.key
BY DEF alloc_layer, setup_layer, start_layer, Layer

LEMMA SetupUnseen ==
  ASSUME IInv, Setup
  PROVE  [Witnessed!Next]_(Witnessed!vars)
<1>0. rl \in [Role -> Layer] /\ Role = {"leader", "follower"}
  BY DEF IInv, TypeOK, Role
<1>1. CASE leader_alloc
  <2>1. /\ rl' = [rl EXCEPT !["leader"] = alloc_layer(rl["leader"])]
        /\ wire' = wire /\ delivered' = delivered /\ fstate' = fstate
    BY <1>1 DEF leader_alloc, outVars, fVars
  <2>2. rl'["leader"] = alloc_layer(rl["leader"]) /\ rl'["follower"] = rl["follower"]
    BY <1>0, <2>1
  <2> QED BY <1>0, <2>1, <2>2, FlagsUnseen, Unseen
<1>2. CASE follower_alloc
  <2>1. /\ rl' = [rl EXCEPT !["follower"] = alloc_layer(rl["follower"])]
        /\ wire' = wire /\ delivered' = delivered /\ fstate \notin Gone /\ fstate' # "Done"
    BY <1>2 DEF follower_alloc, outVars, Gone
  <2>2. rl'["follower"] = alloc_layer(rl["follower"]) /\ rl'["leader"] = rl["leader"]
    BY <1>0, <2>1
  <2> QED BY <1>0, <2>1, <2>2, FlagsUnseen, Unseen
<1>3. CASE preprocess \/ follower_run
  BY <1>3, UnseenQuiet DEF preprocess, follower_run, Gone
<1> QED BY <1>1, <1>2, <1>3 DEF Setup

LEMMA CallUnseen ==
  ASSUME \/ \E p \in LocalParams : set_param(p)
         \/ set_server_random \/ set_server_key_share \/ prepare_encryption
         \/ get_client_finished_vd \/ get_server_finished_vd
         \/ defer_decryption \/ stop \/ flush \/ close_connection
  PROVE  [Witnessed!Next]_(Witnessed!vars)
<1>1. CASE \E p \in LocalParams : set_param(p)
  BY <1>1, UnseenQuiet DEF set_param, fVars
<1>2. CASE set_server_random \/ set_server_key_share \/ prepare_encryption
  BY <1>2, UnseenQuiet DEF set_server_random, set_server_key_share, prepare_encryption, fVars
<1>3. CASE get_client_finished_vd \/ get_server_finished_vd
  BY <1>3, UnseenQuiet DEF get_client_finished_vd, get_server_finished_vd, fVars
<1>4. CASE defer_decryption \/ stop \/ flush \/ close_connection
  BY <1>4, UnseenQuiet DEF defer_decryption, stop, flush, close_connection, fVars
<1> QED BY <1>1, <1>2, <1>3, <1>4

LEMMA FollowerUnseen ==
  ASSUME IInv, Handle \/ Lose \/ break_link \/ Ended \/ UNCHANGED vars
  PROVE  [Witnessed!Next]_(Witnessed!vars)
<1>0. rl \in [Role -> Layer] /\ Role = {"leader", "follower"}
  BY DEF IInv, TypeOK, Role
<1>1. CASE follower_rejects
  BY <1>1, UnseenQuiet DEF follower_rejects, FollowerFails, leaderSide, Gone
<1>2. CASE follower_random
  BY <1>2, UnseenQuiet DEF follower_random, leaderSide
<1>3. CASE follower_record
  <2> DEFINE h == Head(chan)
             m == Applied(rl["follower"], h)
  <2>1. /\ rl' = [rl EXCEPT !["follower"] = m] /\ h.type \in {"Encrypt", "Decrypt", "StartTraffic", "Flush"}
        /\ wire' = wire /\ delivered' = delivered /\ fstate' = fstate
    BY <1>3 DEF follower_record, Handles, fVars, leaderSide, outVars
  <2> HIDE DEF h
  <2>2. /\ m.sent_records = rl["follower"].sent_records
        /\ m.recv_records = rl["follower"].recv_records
    <3>1. m \in {push_encrypt(rl["follower"], h.rec), push_decrypt(rl["follower"], h.rec),
                 start_layer(rl["follower"]), rl["follower"]}
      BY <2>1 DEF Applied
    <3> HIDE DEF m
    <3> QED BY <1>0, <3>1, OthersKept
  <2> HIDE DEF m
  <2>3. rl'["follower"] = m /\ rl'["leader"] = rl["leader"]
    BY <1>0, <2>1
  <2> QED BY <1>0, <2>1, <2>2, <2>3, Unseen
<1>4. CASE leader_loses_peer
  BY <1>4, UnseenQuiet DEF leader_loses_peer, fVars
<1>5. CASE follower_loses_peer
  BY <1>5, UnseenQuiet DEF follower_loses_peer, FollowerFails, leaderSide, Gone
<1>6. CASE break_link
  BY <1>6, UnseenQuiet DEF break_link, fVars
<1>7. CASE UNCHANGED vars
  BY <1>7, UnseenQuiet DEF vars, outVars
<1> QED BY <1>1, <1>2, <1>3, <1>4, <1>5, <1>6, <1>7 DEF Handle, Lose, Ended

LEMMA HandshakeUnseen ==
  ASSUME IInv, compute_keys \/ compute_client_finished \/ compute_server_finished
  PROVE  [Witnessed!Next]_(Witnessed!vars)
<1>0. rl \in [Role -> Layer] /\ Role = {"leader", "follower"}
  BY DEF IInv, TypeOK, Role
<1>1. CASE compute_keys
  <2>1. /\ rl' = [p \in Role |-> setup_layer(rl[p])]
        /\ wire' = wire /\ delivered' = delivered /\ fstate' = fstate
    BY <1>1 DEF compute_keys, outVars
  <2>2. \A p \in Role : rl'[p] = setup_layer(rl[p])
    BY <2>1
  <2> QED BY <1>0, <2>1, <2>2, FlagsUnseen, Unseen
<1>2. CASE compute_client_finished \/ compute_server_finished
  BY <1>2, UnseenQuiet DEF compute_client_finished, compute_server_finished
<1> QED BY <1>1, <1>2


(***************************************************************************)
(* Steps that a witness sees.                                              *)
(***************************************************************************)
LEMMA PushSeen ==
  ASSUME IInv, (\E r \in Incoming : push_incoming(r)) \/ (\E r \in Outgoing : push_outgoing(r))
  PROVE  [Witnessed!Next]_(Witnessed!vars)
<1> DEFINE l == rl["leader"]
<1>0. /\ rl \in [Role -> Layer] /\ Role = {"leader", "follower"}
      /\ l \in Layer /\ LayerNumbered(l) /\ Lead = l
  BY DEF IInv, TypeOK, SequenceIntact, Role, Lead
<1>1. /\ l.sent_records \in Seq(EncryptOp) /\ l.encrypt_buffer \in Seq(EncryptOp) /\ l.write_seq \in Nat
      /\ l.recv_records \in Seq(DecryptOp) /\ l.decrypt_buffer \in Seq(DecryptOp) /\ l.read_seq \in Nat
      /\ Numbered(l.sent_records, l.encrypt_buffer, l.write_seq)
      /\ Numbered(l.recv_records, l.decrypt_buffer, l.read_seq)
  BY <1>0 DEF Layer, LayerNumbered
<1>2. ASSUME lstate \in {"Handshake", "Active"}
      PROVE  ~l.key /\ Verdict # "accepted"
  BY <1>0, <1>2 DEF IInv, KeyLast, Accepted, Over, Verdict
<1>3. ASSUME NEW r \in Incoming, push_incoming(r)
      PROVE  [Witnessed!Next]_(Witnessed!vars)
  <2>1. CASE CanDecrypt(Lead, r)
    <3> DEFINE op == [seq |-> l.read_seq, kind |-> r.kind, len |-> r.len, tag |-> r.tag]
    <3>1. /\ rl' = [rl EXCEPT !["leader"] = push_decrypt(l, r)] /\ lstate \in {"Handshake", "Active"}
          /\ wire' = wire /\ delivered' = delivered /\ fstate' = fstate
      BY <1>3, <2>1 DEF push_incoming, outVars, fVars
    <3>2. l' = push_decrypt(l, r) /\ rl'["follower"] = rl["follower"]
      BY <1>0, <3>1
    <3>3. /\ l'.decrypt_buffer = Append(l.decrypt_buffer, op) /\ l'.recv_records = l.recv_records
          /\ l'.encrypt_buffer = l.encrypt_buffer /\ l'.sent_records = l.sent_records /\ l'.key = l.key
      BY <1>0, <3>2 DEF push_decrypt, Layer
    <3>4. op \in DecryptOp /\ op.seq = l.read_seq
      BY <1>1, RecordAssumption DEF DecryptOp
    <3> HIDE DEF op, l
    <3>5. Witnessed!IsNext(l.recv_records \o l.decrypt_buffer, l'.recv_records \o l'.decrypt_buffer)
      BY <1>1, <3>3, <3>4, PushedIsNext
    <3>6. ~l.key /\ Verdict # "accepted" /\ Verdict' = Verdict
      BY <1>2, <3>1 DEF Verdict
    <3>7. Witnessed!HandOver
      BY <3>1, <3>2, <3>3, <3>5, <3>6
         DEF Witnessed!HandOver, Witnessed!transcript, Witnessed!taken, l
    <3> QED BY <3>7 DEF Witnessed!Next
  <2>2. CASE ~CanDecrypt(Lead, r)
    BY <1>3, <2>2, UnseenQuiet DEF push_incoming, fVars
  <2> QED BY <2>1, <2>2
<1>4. ASSUME NEW r \in Outgoing, push_outgoing(r)
      PROVE  [Witnessed!Next]_(Witnessed!vars)
  <2>1. CASE CanEncrypt(Lead, r)
    <3> DEFINE op == [seq |-> l.write_seq, kind |-> r.kind, len |-> r.len]
    <3>1. /\ rl' = [rl EXCEPT !["leader"] = push_encrypt(l, r)] /\ lstate \in {"Handshake", "Active"}
          /\ wire' = wire /\ delivered' = delivered /\ fstate' = fstate
      BY <1>4, <2>1 DEF push_outgoing, outVars, fVars
    <3>2. l' = push_encrypt(l, r) /\ rl'["follower"] = rl["follower"]
      BY <1>0, <3>1
    <3>3. /\ l'.encrypt_buffer = Append(l.encrypt_buffer, op) /\ l'.sent_records = l.sent_records
          /\ l'.decrypt_buffer = l.decrypt_buffer /\ l'.recv_records = l.recv_records /\ l'.key = l.key
      BY <1>0, <3>2 DEF push_encrypt, Layer
    <3>4. op \in EncryptOp /\ op.seq = l.write_seq
      BY <1>1, RecordAssumption DEF EncryptOp
    <3> HIDE DEF op, l
    <3>5. Witnessed!IsNext(l.sent_records \o l.encrypt_buffer, l'.sent_records \o l'.encrypt_buffer)
      BY <1>1, <3>3, <3>4, PushedIsNext
    <3>6. ~l.key /\ Verdict # "accepted" /\ Verdict' = Verdict
      BY <1>2, <3>1 DEF Verdict
    <3>7. Witnessed!HandOver
      BY <3>1, <3>2, <3>3, <3>5, <3>6
         DEF Witnessed!HandOver, Witnessed!transcript, Witnessed!taken, l
    <3> QED BY <3>7 DEF Witnessed!Next
  <2>2. CASE ~CanEncrypt(Lead, r)
    BY <1>4, <2>2, UnseenQuiet DEF push_outgoing, fVars
  <2> QED BY <2>1, <2>2
<1> QED BY <1>3, <1>4

\* The head of what is left is the element after what was taken.
LEMMA TakenIsNext ==
  ASSUME NEW S, NEW taken \in Seq(S), NEW queue \in Seq(S), queue # <<>>
  PROVE  /\ Len(taken) < Len(taken \o queue)
         /\ (taken \o queue)[Len(taken) + 1] = Head(queue)
<1>1. Len(taken) \in Nat /\ Len(queue) \in Nat \ {0} /\ Head(queue) = queue[1]
  BY LenProperties, HeadTailProperties, EmptySeq
<1>2. /\ Len(taken \o queue) = Len(taken) + Len(queue)
      /\ \A i \in 1 .. Len(taken) + Len(queue) :
           (taken \o queue)[i] = IF i <= Len(taken) THEN taken[i] ELSE queue[i - Len(taken)]
  BY ConcatProperties
<1>3. (taken \o queue)[Len(taken) + 1] = queue[Len(taken) + 1 - Len(taken)]
  <2>1. Len(taken) + 1 \in 1 .. Len(taken) + Len(queue) /\ ~(Len(taken) + 1 <= Len(taken))
    BY <1>1
  <2> QED BY <1>2, <2>1
<1>4. Len(taken) + 1 - Len(taken) = 1
  BY <1>1
<1> QED BY <1>1, <1>2, <1>3, <1>4

LEMMA TakeSeen ==
  ASSUME IInv, next_incoming \/ next_outgoing \/ start_traffic
  PROVE  [Witnessed!Next]_(Witnessed!vars)
<1>0. /\ wire \in Seq(EncryptOp) /\ encrypted_buffer \in Seq(EncryptOp)
      /\ delivered \in Seq(DecryptOp) /\ decrypted_buffer \in Seq(DecryptOp)
      /\ wire \o encrypted_buffer = rl["follower"].sent_records
      /\ delivered \o decrypted_buffer = rl["follower"].recv_records
      /\ rl \in [Role -> Layer] /\ Role = {"leader", "follower"}
  BY DEF IInv, TypeOK, TranscriptIsTheConnection, Follow, Role
<1>1. CASE next_incoming
  <2>1. /\ decrypted_buffer # <<>> /\ delivered' = Append(delivered, Head(decrypted_buffer))
        /\ rl' = rl /\ wire' = wire /\ Verdict' = Verdict
    BY <1>1 DEF next_incoming, Available, fVars, Verdict
  <2>2. /\ Len(delivered) < Len(rl["follower"].recv_records)
        /\ delivered' = Append(delivered, rl["follower"].recv_records[Len(delivered) + 1])
    BY <1>0, <2>1, TakenIsNext
  <2>3. Witnessed!Deliver
    BY <2>1, <2>2 DEF Witnessed!Deliver, Witnessed!handed, Witnessed!transcript
  <2> QED BY <2>3 DEF Witnessed!Next
<1>2. CASE next_outgoing
  <2>1. /\ encrypted_buffer # <<>> /\ wire' = Append(wire, Head(encrypted_buffer))
        /\ rl' = rl /\ delivered' = delivered /\ Verdict' = Verdict
    BY <1>2 DEF next_outgoing, Available, fVars, Verdict
  <2>2. /\ Len(wire) < Len(rl["follower"].sent_records)
        /\ wire' = Append(wire, rl["follower"].sent_records[Len(wire) + 1])
    BY <1>0, <2>1, TakenIsNext
  <2>3. Witnessed!Transmit
    BY <2>1, <2>2 DEF Witnessed!Transmit, Witnessed!handed, Witnessed!transcript
  <2> QED BY <2>3 DEF Witnessed!Next
<1>3. CASE start_traffic
  <2>1. /\ rl' = [rl EXCEPT !["leader"] = start_layer(rl["leader"])]
        /\ wire' = wire /\ delivered' = delivered /\ fstate' = fstate
    BY <1>3 DEF start_traffic, outVars, fVars
  <2>2. rl'["leader"] = start_layer(rl["leader"]) /\ rl'["follower"] = rl["follower"]
    BY <1>0, <2>1
  <2> QED BY <1>0, <2>1, <2>2, FlagsUnseen, Unseen
<1> QED BY <1>1, <1>2, <1>3


\* What a running follower knows before a computation
LEMMA BeforeCompute ==
  ASSUME IInv, fstate = "Running"
  PROVE  /\ ~Lead.key /\ Verdict = "open"
         /\ Lead = rl["leader"] /\ Follow = rl["follower"] /\ Good(Lead) /\ Good(Follow)
         /\ Lead.sent_records \in Seq(EncryptOp) /\ Lead.encrypt_buffer \in Seq(EncryptOp)
         /\ Lead.recv_records \in Seq(DecryptOp) /\ Lead.decrypt_buffer \in Seq(DecryptOp)
         /\ Follow.sent_records = Lead.sent_records /\ Follow.recv_records = Lead.recv_records
         /\ VerifyTags(Lead.recv_records)
         /\ rl \in [Role -> Layer] /\ Role = {"leader", "follower"}
<1>1. rl \in [Role -> Layer] /\ Role = {"leader", "follower"} /\ \A p \in Role : LayerNumbered(rl[p])
  BY DEF IInv, TypeOK, SequenceIntact, Role
<1>2. Good(Lead) /\ Good(Follow) /\ Lead \in Layer
  BY <1>1 DEF Good, Lead, Follow
<1>3. ~Lead.key /\ Verdict = "open"
  BY DEF IInv, KeyLast, Gone, Verdict
<1>4. /\ Follow.sent_records = Lead.sent_records /\ Follow.recv_records = Lead.recv_records
      /\ VerifyTags(Lead.recv_records)
  BY <1>1 DEF IInv, Synced, Verified, Lead
<1> QED BY <1>1, <1>2, <1>3, <1>4 DEF Layer, Lead, Follow

\* A computation that fails before the layers are changed is the follower's rejection.
LEMMA FailureUnseen ==
  ASSUME fstate = "Running", rl' = rl, NEW why, BothFail(why)
  PROVE  [Witnessed!Next]_(Witnessed!vars)
BY UnseenQuiet DEF BothFail, Gone

LEMMA FlushSeen ==
  ASSUME IInv, IInv', compute_flush
  PROVE  [Witnessed!Next]_(Witnessed!vars)
<1> DEFINE theirs == Head(chan).is_decrypting
           ops == FlushOps(Lead, is_decrypting)
           rest == SubSeq(Lead.decrypt_buffer, DrainCount(Lead, is_decrypting) + 1,
                          Len(Lead.decrypt_buffer))
<1>1. fstate = "Running"
  BY DEF compute_flush, Together, Handles
<1>2. theirs \in BOOLEAN /\ is_decrypting \in BOOLEAN
  BY ReceiveType, MessageFields DEF compute_flush, Together, Handles, IInv, TypeOK
<1>3. /\ ~Lead.key /\ Verdict = "open"
      /\ Lead = rl["leader"] /\ Follow = rl["follower"] /\ Good(Lead) /\ Good(Follow)
      /\ Lead.sent_records \in Seq(EncryptOp) /\ Lead.encrypt_buffer \in Seq(EncryptOp)
      /\ Lead.recv_records \in Seq(DecryptOp) /\ Lead.decrypt_buffer \in Seq(DecryptOp)
      /\ Follow.sent_records = Lead.sent_records /\ Follow.recv_records = Lead.recv_records
      /\ rl \in [Role -> Layer] /\ Role = {"leader", "follower"}
  BY <1>1, BeforeCompute
<1>4. CASE ~(Lead.encrypt_buffer = Follow.encrypt_buffer /\ TagsVerify(ops, FlushOps(Follow, theirs)))
  <2>1. rl' = rl /\ BothFail("tag")
    BY <1>4 DEF compute_flush
  <2> QED BY <1>1, <2>1, FailureUnseen
<1>5. CASE Lead.encrypt_buffer = Follow.encrypt_buffer /\ TagsVerify(ops, FlushOps(Follow, theirs))
  <2>1. FlushOps(Follow, theirs) = ops /\ Follow.encrypt_buffer = Lead.encrypt_buffer
    BY <1>5 DEF TagsVerify
  <2>2. /\ rl' = [rl EXCEPT !["leader"] = flush_layer(Lead, is_decrypting),
                            !["follower"] = flush_layer(Follow, theirs)]
        /\ wire' = wire /\ delivered' = delivered /\ fstate' = fstate
    BY <1>3, <1>5 DEF compute_flush, fVars
  <2>3. rl'["leader"] = flush_layer(Lead, is_decrypting) /\ rl'["follower"] = flush_layer(Follow, theirs)
    BY <1>3, <2>2
  <2>4. /\ rl'["leader"].sent_records = Lead.sent_records \o Lead.encrypt_buffer
        /\ rl'["leader"].encrypt_buffer = <<>>
        /\ rl'["leader"].recv_records = Lead.recv_records \o ops
        /\ rl'["leader"].decrypt_buffer = rest
        /\ rl'["leader"].key = Lead.key
    <3>1. Good(Lead) /\ is_decrypting \in BOOLEAN
      BY <1>2, <1>3
    <3>2. /\ flush_layer(Lead, is_decrypting).sent_records = Lead.sent_records \o Lead.encrypt_buffer
          /\ flush_layer(Lead, is_decrypting).encrypt_buffer = <<>>
          /\ flush_layer(Lead, is_decrypting).recv_records = Lead.recv_records \o ops
          /\ flush_layer(Lead, is_decrypting).decrypt_buffer = rest
          /\ flush_layer(Lead, is_decrypting).key = Lead.key
      BY <3>1, FlushGood
    <3> HIDE DEF ops, rest
    <3> QED BY <2>3, <3>2
  <2>5. /\ rl'["follower"].sent_records = Lead.sent_records \o Lead.encrypt_buffer
        /\ rl'["follower"].recv_records = Lead.recv_records \o ops
    <3> HIDE DEF theirs, ops
    <3>1. Good(Follow) /\ theirs \in BOOLEAN
      BY <1>2, <1>3
    <3>2. /\ flush_layer(Follow, theirs).sent_records = Follow.sent_records \o Follow.encrypt_buffer
          /\ flush_layer(Follow, theirs).recv_records = Follow.recv_records \o FlushOps(Follow, theirs)
      BY <3>1, FlushGood
    <3> QED BY <1>3, <2>1, <2>3, <3>2
  <2>6. /\ ops \in Seq(DecryptOp) /\ rest \in Seq(DecryptOp)
        /\ Lead.decrypt_buffer = ops \o rest
    <3>1. Lead \in Layer
      BY <1>3 DEF Good
    <3>2. DrainCount(Lead, is_decrypting) \in 0 .. Len(Lead.decrypt_buffer)
      BY <1>2, <3>1, DrainCountIs
    <3> QED BY <1>3, <3>2, SplitAt DEF FlushOps
  <2> HIDE DEF ops, rest, theirs
  <2>7. /\ (Lead.sent_records \o Lead.encrypt_buffer) \o <<>> = Lead.sent_records \o Lead.encrypt_buffer
        /\ Lead.sent_records \o Lead.encrypt_buffer \in Seq(EncryptOp)
    BY <1>3, ConcatProperties, ConcatEmptySeq
  <2>8. /\ (Lead.recv_records \o ops) \o rest = Lead.recv_records \o (ops \o rest)
        /\ Lead.recv_records \o ops \in Seq(DecryptOp)
    <3>0. Lead.recv_records \in Seq(DecryptOp) /\ ops \in Seq(DecryptOp) /\ rest \in Seq(DecryptOp)
      BY <1>3, <2>6
    <3>1. Lead.recv_records \o (ops \o rest) = (Lead.recv_records \o ops) \o rest
      BY <3>0, Regroup, Zenon
    <3>2. Lead.recv_records \o ops \in Seq(DecryptOp)
      BY <1>3, <2>6, ConcatProperties
    <3> QED BY <3>1, <3>2
  <2>9. UNCHANGED Witnessed!handed
    BY <1>3, <2>4, <2>6, <2>7, <2>8 DEF Witnessed!handed
  <2>10. /\ Witnessed!IsPrefixOf(rl["follower"].sent_records, rl'["follower"].sent_records)
         /\ Witnessed!IsPrefixOf(rl'["follower"].sent_records, rl["leader"].sent_records \o rl["leader"].encrypt_buffer)
    BY <1>3, <2>5, <2>7, PrefixOfConcat
  <2>11. /\ Witnessed!IsPrefixOf(rl["follower"].recv_records, rl'["follower"].recv_records)
         /\ Witnessed!IsPrefixOf(rl'["follower"].recv_records, rl["leader"].recv_records \o rl["leader"].decrypt_buffer)
    <3>1. Witnessed!IsPrefixOf(Lead.recv_records, Lead.recv_records \o ops)
      BY <1>3, <2>6, PrefixOfConcat
    <3>2. Witnessed!IsPrefixOf(Lead.recv_records \o ops, (Lead.recv_records \o ops) \o rest)
      BY <2>6, <2>8, PrefixOfConcat
    <3> QED BY <1>3, <2>5, <2>6, <2>8, <3>1, <3>2
  <2>12. Witnessed!Authentic(rl'["follower"].recv_records)
    <3>1. VerifyTags(rl'["follower"].recv_records)
      BY <1>3 DEF IInv, Verified
    <3> QED BY <2>5, <2>8, <3>1, VerifiedIsAuthentic
  <2>13. Verdict' = Verdict /\ rl'["leader"].key = rl["leader"].key /\ ~rl["leader"].key
    BY <1>3, <2>2, <2>4 DEF Verdict
  <2>14. Witnessed!Process
    BY <1>3, <2>2, <2>9, <2>10, <2>11, <2>12, <2>13 DEF Witnessed!Process, Witnessed!taken
  <2> QED BY <2>14 DEF Witnessed!Next
<1> QED BY <1>4, <1>5

LEMMA CommitSeen ==
  ASSUME IInv, IInv', compute_commit
  PROVE  [Witnessed!Next]_(Witnessed!vars)
<1> DEFINE ops == Lead.decrypt_buffer
<1>1. fstate = "Running" /\ Lead.encrypt_buffer = <<>>
  BY DEF compute_commit, Together, Handles, IInv, Committing
<1>2. /\ ~Lead.key /\ Verdict = "open"
      /\ Lead = rl["leader"] /\ Follow = rl["follower"] /\ Good(Lead) /\ Good(Follow)
      /\ Lead.sent_records \in Seq(EncryptOp)
      /\ Lead.recv_records \in Seq(DecryptOp) /\ ops \in Seq(DecryptOp)
      /\ Follow.sent_records = Lead.sent_records /\ Follow.recv_records = Lead.recv_records
      /\ VerifyTags(Lead.recv_records)
      /\ rl \in [Role -> Layer] /\ Role = {"leader", "follower"}
  BY <1>1, BeforeCompute
<1>3. CASE ~TagsVerify(ops, Follow.decrypt_buffer)
  <2>1. rl' = rl /\ BothFail("tag")
    BY <1>3 DEF compute_commit
  <2> QED BY <1>1, <2>1, FailureUnseen
<1>4. ASSUME TagsVerify(ops, Follow.decrypt_buffer)
      PROVE  /\ Follow.decrypt_buffer = ops
             /\ Lead.recv_records \o ops \in Seq(DecryptOp)
             /\ Witnessed!Authentic(Lead.recv_records \o ops)
             /\ Witnessed!IsPrefixOf(Lead.recv_records, Lead.recv_records \o ops)
             /\ Witnessed!IsPrefixOf(Lead.recv_records, Lead.recv_records)
             /\ Witnessed!IsPrefixOf(Lead.recv_records \o ops, Lead.recv_records \o ops)
  <2>1. Follow.decrypt_buffer = ops /\ VerifyTags(ops)
    BY <1>4 DEF TagsVerify
  <2> HIDE DEF ops
  <2>2. Lead.recv_records \o ops \in Seq(DecryptOp) /\ VerifyTags(Lead.recv_records \o ops)
    BY <1>2, <2>1, ConcatProperties, VerifyTagsConcat
  <2> QED BY <1>2, <2>1, <2>2, PrefixOfConcat, VerifiedIsAuthentic
<1>5. CASE TagsVerify(ops, Follow.decrypt_buffer) /\ ~CommitKeystream(Lead)
  <2>1. /\ rl' = [p \in Role |-> decode_key(rl[p])] /\ wire' = wire /\ delivered' = delivered
        /\ fstate' = "Error"
    BY <1>5 DEF compute_commit, BothFail, outVars
  <2>2. rl'["leader"] = decode_key(Lead) /\ rl'["follower"] = decode_key(Follow)
    BY <1>2, <2>1
  <2>3. /\ rl'["leader"].sent_records = Lead.sent_records /\ rl'["leader"].encrypt_buffer = Lead.encrypt_buffer
        /\ rl'["leader"].recv_records = Lead.recv_records /\ rl'["leader"].decrypt_buffer = ops
        /\ rl'["leader"].key
        /\ rl'["follower"].sent_records = Follow.sent_records
        /\ rl'["follower"].recv_records = Follow.recv_records
    BY <1>2, <2>2 DEF decode_key, Good, Layer
  <2>4. Verdict' = "rejected"
    BY <2>1 DEF Verdict
  <2>5. UNCHANGED <<Witnessed!handed, Witnessed!transcript, Witnessed!taken>>
    BY <1>2, <2>1, <2>3 DEF Witnessed!handed, Witnessed!transcript, Witnessed!taken
  <2>6. Witnessed!Close
    BY <1>2, <1>4, <1>5, <2>3, <2>4, <2>5
       DEF Witnessed!Close, Witnessed!handed, Witnessed!transcript, Witnessed!taken
  <2> QED BY <2>6 DEF Witnessed!Next
<1>6. CASE TagsVerify(ops, Follow.decrypt_buffer) /\ CommitKeystream(Lead)
  <2> DEFINE committed == [p \in Role |-> commit_layer(rl[p])]
  <2>1. /\ rl' = committed /\ wire' = wire /\ delivered' = delivered
        /\ fstate' = IF RunError(committed["follower"]) = "none" THEN "Done" ELSE "Error"
    BY <1>6 DEF compute_commit
  <2>2. /\ rl'["leader"] = commit_layer(Lead) /\ rl'["follower"] = commit_layer(Follow)
        /\ committed["follower"] = rl'["follower"]
    BY <1>2, <2>1
  <2>3. /\ rl'["leader"].sent_records = Lead.sent_records /\ rl'["leader"].encrypt_buffer = <<>>
        /\ rl'["leader"].recv_records = Lead.recv_records \o ops /\ rl'["leader"].decrypt_buffer = <<>>
        /\ rl'["follower"].sent_records = Lead.sent_records
        /\ rl'["follower"].recv_records = Lead.recv_records \o ops
    <3>1. Follow.decrypt_buffer = ops
      BY <1>4, <1>6
    <3>2. \A l \in {Lead, Follow} :
            /\ commit_layer(l).decrypt_buffer = <<>>
            /\ commit_layer(l).recv_records = l.recv_records \o l.decrypt_buffer
            /\ commit_layer(l).sent_records = l.sent_records
            /\ commit_layer(l).encrypt_buffer = l.encrypt_buffer
      BY <1>2, CommitGood
    <3>3. Follow.sent_records = Lead.sent_records /\ Follow.recv_records = Lead.recv_records
      BY <1>2
    <3> QED BY <1>1, <2>2, <3>1, <3>2, <3>3
  <2>4. rl'["leader"].key
    BY <1>2, <2>2 DEF commit_layer, Good, Layer
  <2>5. /\ Lead.sent_records \o <<>> = Lead.sent_records
        /\ (Lead.recv_records \o ops) \o <<>> = Lead.recv_records \o ops
    <3> HIDE DEF ops
    <3> QED BY <1>2, <1>4, <1>6, ConcatEmptySeq
  <2>6. UNCHANGED <<Witnessed!handed, Witnessed!taken>>
    BY <1>1, <1>2, <2>1, <2>3, <2>5 DEF Witnessed!handed, Witnessed!taken
  <2>7. \/ Verdict' = "rejected"
        \/ /\ Verdict' = "accepted"
           /\ Witnessed!Whole(Lead.sent_records) /\ Witnessed!Whole(Lead.recv_records \o ops)
    <3>1. CASE RunError(rl'["follower"]) # "none"
      BY <2>1, <2>2, <3>1 DEF Verdict
    <3>2. CASE RunError(rl'["follower"]) = "none"
      <4>1. Verdict' = "accepted"
        BY <2>1, <2>2, <3>2 DEF Verdict
      <4>2. Finishes(Lead.sent_records) /\ Finishes(Lead.recv_records \o ops)
        BY <2>3, <3>2 DEF RunError
      <4> HIDE DEF ops
      <4>3. Witnessed!Whole(Lead.sent_records) /\ Witnessed!Whole(Lead.recv_records \o ops)
        BY <1>2, <1>4, <1>6, <4>2, FinishesIsWhole DEF ops
      <4> QED BY <4>1, <4>3
    <3> QED BY <3>1, <3>2
  <2> DEFINE all == Lead.recv_records \o ops
  <2>8. /\ rl["leader"].recv_records \o rl["leader"].decrypt_buffer = all
        /\ rl["leader"].sent_records \o rl["leader"].encrypt_buffer = Lead.sent_records
        /\ rl["follower"].sent_records = Lead.sent_records /\ rl'["follower"].sent_records = Lead.sent_records
        /\ rl["follower"].recv_records = Lead.recv_records /\ rl'["follower"].recv_records = all
    BY <1>1, <1>2, <2>3, <2>5
  <2>9. /\ Witnessed!Authentic(all) /\ Witnessed!IsPrefixOf(Lead.recv_records, all)
        /\ Witnessed!IsPrefixOf(all, all)
    BY <1>4, <1>6
  <2> HIDE DEF all
  <2>10. Witnessed!Close
    BY <1>2, <2>4, <2>6, <2>7, <2>8, <2>9 DEF Witnessed!Close, Witnessed!taken, Witnessed!handed, all
  <2> QED BY <2>10 DEF Witnessed!Next
<1> QED BY <1>3, <1>5, <1>6

LEMMA StepWitnessed ==
  ASSUME IInv, [Next]_vars
  PROVE  [Witnessed!Next]_(Witnessed!vars)
<1>0. IInv'
  BY Step
<1>1. CASE Setup
  BY <1>1, SetupUnseen
<1>2. CASE Call
  BY <1>2, CallUnseen, PushSeen, TakeSeen DEF Call
<1>3. CASE Compute
  BY <1>0, <1>3, HandshakeUnseen, FlushSeen, CommitSeen DEF Compute
<1>4. CASE Handle \/ Lose \/ break_link \/ Ended \/ UNCHANGED vars
  BY <1>4, FollowerUnseen
<1> QED BY <1>1, <1>2, <1>3, <1>4 DEF Next

(***************************************************************************)
(* The two parties, with a record layer each and a channel between them,   *)
(* implement the witnessed connection of Witness: every step is one of its *)
(* steps or is seen by nobody.  In particular nothing is handed over or    *)
(* processed after the prover can know the server's write key, and the     *)
(* verifier accepts, in the step that reveals it, all or nothing.          *)
(***************************************************************************)
THEOREM ConnectionWitnessed == Spec => ImplementsWitness
<1>1. Init => Witnessed!Init
  <2> SUFFICES ASSUME Init PROVE Witnessed!Init
    OBVIOUS
  <2>1. rl["leader"] = NewLayer /\ rl["follower"] = NewLayer
    BY DEF Init, Role
  <2>2. <<>> \o <<>> = <<>>
    BY ConcatEmptySeq, EmptySeq
  <2> QED BY <2>1, <2>2 DEF Init, Witnessed!Init, NewLayer, Verdict
<1>2. IInv /\ [Next]_vars => [Witnessed!Next]_(Witnessed!vars)
  BY StepWitnessed
<1> QED BY <1>1, <1>2, Invariance, PTL DEF Spec, ImplementsWitness, Witnessed!Spec
=============================================================================
