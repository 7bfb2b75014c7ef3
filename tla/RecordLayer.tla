---------------------------- MODULE RecordLayer ----------------------------
(***************************************************************************)
(* The record layer of MPC-TLS (tlsn/crates/mpc-tls/src/record_layer.rs)   *)
(* as a value and the operations on it.  The prover (leader) and the       *)
(* verifier (follower) hold one each; MpcTls says when each of them calls  *)
(* an operation.                                                           *)
(*                                                                         *)
(* A record is its content and its length.  Contents: "finished" is a      *)
(* Finished message with the verify data the PRF computes, "handshake" any *)
(* other handshake record, "close_notify" and "alert" are alerts, "data"   *)
(* is application data, the only content whose mode is Private.  A         *)
(* received record also has the outcome of its tag check, tag.             *)
(*                                                                         *)
(* The AES-GCM instances hand out keystream in whole blocks and one J0 per *)
(* record, until what alloc allocated is used up.  What is used up is what *)
(* the processed records took, so it is derived from them and not a field. *)
(***************************************************************************)
EXTENDS Integers, Sequences, FiniteSets

CONSTANTS
  MaxSent,         \* max_sent: bytes that may be sent
  MaxRecv,         \* max_recv: bytes that may be received
  MaxRecvOnline,   \* max_recv_online: bytes that may be decrypted with MPC
  MaxSentRecords,  \* max_sent_records: J0s of the encrypter
  MaxRecvRecords,  \* max_recv_records: J0s of the decrypter
  MaxBuffer,       \* MAX_BUFFER_SIZE: operations a buffer holds
  BlockSize        \* bytes of an AES block

ASSUME ConfigAssumption ==
  /\ MaxSent \in Nat /\ MaxRecv \in Nat /\ MaxRecvOnline \in 0 .. MaxRecv
  /\ MaxSentRecords \in Nat /\ MaxRecvRecords \in Nat
  /\ MaxBuffer \in Nat /\ BlockSize \in Nat \ {0}

Kinds == {"finished", "handshake", "close_notify", "alert", "data"}
EncryptOp == [seq : Nat, kind : Kinds, len : Nat]
DecryptOp == [seq : Nat, kind : Kinds, len : Nat, tag : BOOLEAN]

\* typ == ContentType::ApplicationData, equivalently mode Private
IsData(op) == op.kind = "data"

\* The record layer of one party.  key: the server write key is decoded.
Layer ==
  [state : {"Init", "Online", "Complete", "Error"}, ready : BOOLEAN,
   started : BOOLEAN, key : BOOLEAN,
   write_seq : Nat, read_seq : Nat,
   sent : Nat, recv : Nat, recv_online : Nat,
   encrypt_buffer : Seq(EncryptOp), decrypt_buffer : Seq(DecryptOp),
   sent_records : Seq(EncryptOp), recv_records : Seq(DecryptOp)]

NewLayer ==
  [state |-> "Init", ready |-> FALSE, started |-> FALSE, key |-> FALSE,
   write_seq |-> 0, read_seq |-> 0, sent |-> 0, recv |-> 0, recv_online |-> 0,
   encrypt_buffer |-> <<>>, decrypt_buffer |-> <<>>,
   sent_records |-> <<>>, recv_records |-> <<>>]

-----------------------------------------------------------------------------
(***************************************************************************)
(* What a sequence of operations takes.  The sum of a function is the size *)
(* of the set of the units it counts, which needs no recursion and so can  *)
(* be reasoned about.                                                      *)
(***************************************************************************)
Total(f) == Cardinality(UNION {{i} \X (1 .. f[i]) : i \in DOMAIN f})

Blocks(len) == (len + BlockSize - 1) \div BlockSize

\* Bytes of the operations, and of those in Private mode (one OTP byte each)
Bytes(ops) == Total([i \in DOMAIN ops |-> ops[i].len])
PrivateBytes(ops) == Total([i \in DOMAIN ops |-> IF IsData(ops[i]) THEN ops[i].len ELSE 0])

\* apply_keystream and take_keystream: blocks the operations take, and blocks
\* those in Public mode take
Keystream(ops) == Total([i \in DOMAIN ops |-> Blocks(ops[i].len)])
PublicKeystream(ops) ==
  Total([i \in DOMAIN ops |-> IF IsData(ops[i]) THEN 0 ELSE Blocks(ops[i].len)])

\* What alloc allocates for a number of bytes
Allocated(bytes) == Blocks(bytes)

-----------------------------------------------------------------------------
alloc_layer(l) == [l EXCEPT !.state = "Online"]
setup_layer(l) == [l EXCEPT !.ready = TRUE]
start_layer(l) == [l EXCEPT !.started = TRUE]

wants_flush(l) == l.encrypt_buffer # <<>> \/ l.decrypt_buffer # <<>>

CanEncrypt(l, r) ==
  Len(l.encrypt_buffer) < MaxBuffer /\ l.sent + r.len <= MaxSent

\* Mutant: the sequence number is not advanced past an alert.
push_encrypt_AlertSeq(l, r) ==
  [l EXCEPT !.write_seq = IF r.kind = "alert" THEN @ ELSE @ + 1, !.sent = @ + r.len,
            !.encrypt_buffer = Append(@, [seq |-> l.write_seq, kind |-> r.kind, len |-> r.len])]
push_encrypt(l, r) ==
  [l EXCEPT !.write_seq = @ + 1,
            !.sent = @ + r.len,
            !.encrypt_buffer = Append(@, [seq |-> l.write_seq, kind |-> r.kind, len |-> r.len])]

CanDecrypt(l, r) ==
  Len(l.decrypt_buffer) < MaxBuffer /\ l.recv + r.len <= MaxRecv

push_decrypt(l, r) ==
  [l EXCEPT !.read_seq = @ + 1,
            !.recv = @ + r.len,
            !.decrypt_buffer = Append(@, [seq |-> l.read_seq, kind |-> r.kind,
                                          len |-> r.len, tag |-> r.tag])]

-----------------------------------------------------------------------------
(***************************************************************************)
(* flush.  FlushOps are the decrypt operations it drains: all of them, or  *)
(* with decryption deferred those before the first application data.       *)
(* FlushError is the first check that fails before the computation the     *)
(* parties make together, "none" if none does.  Only the leader holds a    *)
(* one-time pad, so only it makes the last check.                          *)
(***************************************************************************)
DrainCount(l, is_decrypting) ==
  IF is_decrypting THEN Len(l.decrypt_buffer)
  ELSE CHOOSE n \in 0 .. Len(l.decrypt_buffer) :
         /\ \A i \in 1 .. n : ~IsData(l.decrypt_buffer[i])
         /\ n < Len(l.decrypt_buffer) => IsData(l.decrypt_buffer[n + 1])
FlushOps(l, is_decrypting) ==
  SubSeq(l.decrypt_buffer, 1, DrainCount(l, is_decrypting))

NothingToFlush(l, is_decrypting) ==
  l.encrypt_buffer = <<>> /\ FlushOps(l, is_decrypting) = <<>>

FlushOnline(l, is_decrypting) ==
  is_decrypting => l.recv_online + Bytes(FlushOps(l, is_decrypting)) <= MaxRecvOnline
FlushKeystream(l, is_decrypting) ==
  /\ Keystream(l.sent_records \o l.encrypt_buffer) <= Allocated(MaxSent)
  /\ Keystream(l.recv_records \o FlushOps(l, is_decrypting)) <= Allocated(MaxRecvOnline)
FlushRecords(l, is_decrypting) ==
  /\ Len(l.sent_records) + Len(l.encrypt_buffer) <= MaxSentRecords
  /\ Len(l.recv_records) + Len(FlushOps(l, is_decrypting)) <= MaxRecvRecords
FlushOtp(l, is_decrypting) ==
  PrivateBytes(l.recv_records \o FlushOps(l, is_decrypting)) <= MaxRecvOnline

FlushError(l, is_decrypting, holds_otp) ==
  IF l.state # "Online" THEN "state"
  ELSE IF NothingToFlush(l, is_decrypting) THEN "none"
  ELSE IF ~FlushOnline(l, is_decrypting) THEN "online volume"
  ELSE IF ~l.ready THEN "not ready"
  ELSE IF ~FlushKeystream(l, is_decrypting) THEN "keystream"
  ELSE IF holds_otp /\ ~FlushOtp(l, is_decrypting) THEN "otp"
  ELSE IF ~FlushRecords(l, is_decrypting) THEN "records"
  ELSE "none"

\* The outcome of the tag verification the parties compute together
VerifyTags(ops) == \A i \in DOMAIN ops : ops[i].tag

flush_layer(l, is_decrypting) ==
  [l EXCEPT !.encrypt_buffer = <<>>,
            !.decrypt_buffer = SubSeq(@, DrainCount(l, is_decrypting) + 1, Len(@)),
            !.recv_online = IF is_decrypting THEN @ + Bytes(FlushOps(l, is_decrypting)) ELSE @,
            !.sent_records = @ \o l.encrypt_buffer,
            !.recv_records = @ \o FlushOps(l, is_decrypting)]

-----------------------------------------------------------------------------
(***************************************************************************)
(* commit.  The tags of what is still buffered are verified, then the key  *)
(* of the server is decoded to the leader, who decrypts application data   *)
(* by itself; other records are decrypted with keystream of the decrypter. *)
(***************************************************************************)
CommitError(l) ==
  IF l.state # "Online" THEN "state"
  ELSE IF l.encrypt_buffer # <<>> THEN "pending encrypt"
  ELSE IF ~l.ready THEN "not ready"
  ELSE IF Len(l.recv_records) + Len(l.decrypt_buffer) > MaxRecvRecords THEN "records"
  ELSE "none"

CommitKeystream(l) ==
  Keystream(l.recv_records) + PublicKeystream(l.decrypt_buffer) <= Allocated(MaxRecvOnline)

decode_key(l) == [l EXCEPT !.key = TRUE, !.state = "Error"]

commit_layer(l) ==
  [l EXCEPT !.state = "Complete", !.key = TRUE,
            !.decrypt_buffer = <<>>,
            !.recv_records = @ \o l.decrypt_buffer]

-----------------------------------------------------------------------------
\* What was processed followed by what is buffered is numbered from 0, in both
\* directions, and next is the number of the record after them.
Numbered(done, buffered, next) ==
  /\ Len(done) + Len(buffered) = next
  /\ \A i \in 1 .. Len(done) : done[i].seq = i - 1
  /\ \A i \in 1 .. Len(buffered) : buffered[i].seq = Len(done) + i - 1
LayerNumbered(l) ==
  /\ Numbered(l.sent_records, l.encrypt_buffer, l.write_seq)
  /\ Numbered(l.recv_records, l.decrypt_buffer, l.read_seq)
=============================================================================
