----------------------------- MODULE SharedKeys -----------------------------
(***************************************************************************)
(* The values behind an MPC-TLS connection: leader and follower derive the *)
(* premaster secret of a key exchange neither knows the private key of     *)
(* (components/key-exchange), the session keys (components/hmac-sha256)    *)
(* and the records (SharedGcm), in the dual execution of components/deap.  *)
(* Whether they do it in the same order is MpcTls' question; here it is    *)
(* whether what comes out is what the TLS server computes on its side.     *)
(*                                                                         *)
(* External: the server, the share conversions and the two virtual         *)
(* machines, which are ideal but for one fault of a behaviour: converter 0 *)
(* or the multi-party machine yields a wrong value, or the network changes *)
(* a record.  All randomness of a behaviour comes from its coin.           *)
(***************************************************************************)
EXTENDS SharedGcm, TlsPrf

CONSTANTS LeaderKeys, FollowerKeys, ServerKeys,  \* private scalars to choose
          Coins,                                 \* random tapes
          Faults,       \* subset of {"none","a2m","m2a","vm","record"}
          Texts,        \* plaintexts
          MaxRecords,   \* bound on the records of a behaviour
          None          \* no value yet

VARIABLES
    coin, fault,    \* drawn in the beginning
    priv,           \* private_key of each party, and the server's
    party,          \* per party: key exchange, PRF and DEAP state
    fkey,           \* the follower's public key on its way to the leader
    conv,           \* the two share converters of the key exchange
    vm,             \* what the virtual machines have computed
    server,         \* the server's secrets, once it has the client's key
    aead,           \* MpcAesGcm of both directions, see SharedGcm
    local,          \* AesCtr of the leader
    outputs,        \* values decoded: by the multi-party, by the proving vm
    log             \* records that were written or accepted

vars == <<coin, fault, priv, party, fkey, conv, vm, server, aead, local,
          outputs, log>>

Peer(p) == CHOOSE q \in Party : q # p

rand(i) == (coin * 37 + i * (11 + coin)) % 61

(* Public inputs of the PRF: both parties assign the leader's messages.    *)
client_random == <<3>>
server_random == <<5>>
cf_hash == <<9>>
sf_hash == <<12>>

ServerKey == Times(priv.server, Generator)

PublicKey(p) == Times(priv[p], Generator)

Failed == {"Error", "Panic"}

(***************************************************************************)
(* DEAP.  Inputs of the circuits, by name; a party's inputs are private to *)
(* it and blind to the other, and those of the follower are public in the  *)
(* proof, where they are committed last.                                   *)
(***************************************************************************)
LeaderInputs == {"share_a0", "share_a1", "client_random", "leader_otp"}
FollowerInputs == {"share_b0", "share_b1", "follower_otp"}
Inputs == LeaderInputs \cup FollowerInputs
              \cup {"server_random", "cf_hash", "sf_hash"}

(* What commit_raw leaves to finalize.                                     *)
follower_inputs == FollowerInputs

commit(d, slices) ==
    [d EXCEPT !.mpc = @ \cup slices, !.zk = @ \cup (slices \ follower_inputs)]

(* decode_raw: the decoded value, and the one the proof will have.         *)
decode(mpc, zk) == Append(outputs, <<mpc, zk>>)

-----------------------------------------------------------------------------
Idle == [st |-> "idle", v |-> <<>>]

Init ==
    /\ coin \in Coins
    /\ fault \in Faults
    /\ priv \in [leader : LeaderKeys, follower : FollowerKeys, server : ServerKeys]
    /\ party = [p \in Party |->
                   [st |-> "Initialized", prf |-> "Initialized",
                    share |-> <<>>, deap |-> [mpc |-> {}, zk |-> {}]]]
    /\ fkey = None
    /\ conv = [c \in 0 .. 1 |-> [p \in Party |-> Idle]]
    /\ vm = [pms |-> None, eq |-> None, keys |-> None]
    /\ server = None
    /\ aead = [d \in {"enc", "dec"} |-> aead_alloc]
    /\ local = None
    /\ outputs = <<>>
    /\ log = <<>>

(* MpcKeyExchange::alloc, MpcPrf::alloc and set_client_random.             *)
alloc(p) ==
    /\ party[p].st = "Initialized"
    /\ party' = [party EXCEPT ![p].st = "Setup", ![p].prf = "SessionKeys",
                     ![p].deap = commit(@, {"client_random", "leader_otp",
                                            "follower_otp"})]
    /\ UNCHANGED <<coin, fault, priv, fkey, conv, vm, server, aead, local,
                   outputs, log>>

(* The follower sends its public key, the leader waits for it.             *)
setup(p) ==
    /\ party[p].st = "Setup"
    /\ IF p = "follower" THEN fkey' = PublicKey(p)
                         ELSE fkey # None /\ UNCHANGED fkey
    /\ party' = [party EXCEPT ![p].st = "FollowerKey"]
    /\ UNCHANGED <<coin, fault, priv, conv, vm, server, aead, local, outputs, log>>

set_server_random(p) ==
    /\ party[p].st = "FollowerKey" /\ party[p].prf = "SessionKeys"
    /\ party' = [party EXCEPT ![p].prf = "ClientFinished",
                     ![p].deap = commit(@, {"server_random"})]
    /\ UNCHANGED <<coin, fault, priv, fkey, conv, vm, server, aead, local,
                   outputs, log>>

(* The client's key is the sum of the parties' keys; the identity is not a *)
(* public key.  The server that receives it has all its secrets.           *)
client_key ==
    LET sum == Add(PublicKey("leader"), fkey)
    IN  /\ party["leader"].st = "FollowerKey"
        /\ party["leader"].prf = "ClientFinished"
        /\ server = None
        /\ IF sum = Identity
           THEN /\ party' = [party EXCEPT !["leader"].st = "Error"]
                /\ UNCHANGED server
           ELSE LET pms == Times(priv.server, sum)[1]
                IN  /\ server' = [pms |-> pms,
                                  keys |-> ServerSecrets(<<pms>>, client_random,
                                               server_random, cf_hash, sf_hash)]
                    /\ UNCHANGED party
        /\ UNCHANGED <<coin, fault, priv, fkey, conv, vm, aead, local, outputs, log>>

(***************************************************************************)
(* compute_shares: each party multiplies the server's key, and the two     *)
(* converters run side by side on the coordinates of the points.           *)
(***************************************************************************)
PointShare(p) == Times(priv[p], ServerKey)

(* The leader's y and x, and the follower's with the other sign: their     *)
(* sums are the differences the slope of the line is made of.              *)
AdditiveInputs(p) ==
    LET point == PointShare(p)
    IN  IF p = "leader" THEN <<point[2], point[1]>>
                        ELSE <<Minus(point[2]), Minus(point[1])>>

compute_shares_start(p) ==
    /\ party[p].st = "FollowerKey" /\ party[p].prf = "ClientFinished"
    /\ server # None
    /\ party' = [party EXCEPT ![p].st = "Computing"]
    /\ conv' = [c \in 0 .. 1 |->
                   [conv[c] EXCEPT ![p] = [st |-> "a2m", v |-> AdditiveInputs(p)]]]
    /\ UNCHANGED <<coin, fault, priv, fkey, vm, server, aead, local, outputs, log>>

(* A fault of converter 0 adds one to a share of the follower.             *)
Deviation(c, kind) == IF c = 0 /\ fault = kind THEN 1 ELSE 0

convert_a2m(c) ==
    LET sum(i) == (conv[c]["leader"].v[i] + conv[c]["follower"].v[i]) % P
        r(i)   == 1 + (rand(10 + 2 * c + i) % (P - 1))
    IN  /\ \A p \in Party : conv[c][p].st = "a2m"
        /\ conv' = [conv EXCEPT ![c] =
               [leader   |-> [st |-> "mul", v |-> <<r(1), r(2)>>],
                follower |-> [st |-> "mul",
                              v |-> <<(sum(1) * FpInverse(r(1))
                                          + Deviation(c, "a2m")) % P,
                                      (sum(2) * FpInverse(r(2))) % P>>]]]
        /\ UNCHANGED <<coin, fault, priv, party, fkey, vm, server, aead, local,
                       outputs, log>>

(* c = (a / b)^2; a zero b has no inverse and the party panics.            *)
divide(p, c) ==
    LET a == conv[c][p].v[1]
        b == conv[c][p].v[2]
        q == (a * FpInverse(b)) % P
    IN  /\ party[p].st = "Computing" /\ conv[c][p].st = "mul"
        /\ IF b = 0
           THEN /\ party' = [party EXCEPT ![p].st = "Panic"]
                /\ UNCHANGED conv
           ELSE /\ conv' = [conv EXCEPT ![c][p] =
                               [st |-> "m2a", v |-> <<(q * q) % P>>]]
                /\ UNCHANGED party
        /\ UNCHANGED <<coin, fault, priv, fkey, vm, server, aead, local, outputs, log>>

convert_m2a(c) ==
    LET product == conv[c]["leader"].v[1] * conv[c]["follower"].v[1]
        r       == rand(20 + c) % P
    IN  /\ \A p \in Party : conv[c][p].st = "m2a"
        /\ conv' = [conv EXCEPT ![c] =
               [leader   |-> [st |-> "add", v |-> <<r>>],
                follower |-> [st |-> "add",
                              v |-> <<(product - r + Deviation(c, "m2a")) % P>>]]]
        /\ UNCHANGED <<coin, fault, priv, party, fkey, vm, server, aead, local,
                       outputs, log>>

(* Both converters are done: each party takes its x off its shares and     *)
(* assigns them to the circuit.                                            *)
assign(p) ==
    /\ party[p].st = "Computing"
    /\ \A c \in 0 .. 1 : conv[c][p].st = "add"
    /\ party' = [party EXCEPT ![p].st = "EqualityCheck",
           ![p].share = [i \in 1 .. 2 |->
                            (conv[i - 1][p].v[1] + Minus(PointShare(p)[1])) % P],
           ![p].deap = commit(@, {"share_a0", "share_b0", "share_a1", "share_b1"})]
    /\ UNCHANGED <<coin, fault, priv, fkey, conv, vm, server, aead, local,
                   outputs, log>>

(* build_pms_circuit and the session keys circuit on its output.           *)
pms_circuit(a0, b0, a1, b1) ==
    [pms |-> (a0 + b0) % P, eq |-> Xor((a0 + b0) % P, (a1 + b1) % P)]

execute ==
    LET a == party["leader"].share
        b == party["follower"].share
        out == pms_circuit(a[1], b[1], a[2], b[2])
    IN  /\ \A p \in Party : party[p].st = "EqualityCheck"
        /\ vm.eq = None
        /\ vm' = [pms |-> out.pms, eq |-> out.eq,
                  keys |-> session_keys(<<out.pms>>, client_random, server_random)]
        /\ outputs' = decode(out.eq, out.eq)
        /\ UNCHANGED <<coin, fault, priv, party, fkey, conv, server, aead, local, log>>

(* An equality check that is not looked at.                                *)
EqOk_Ignored == TRUE

EqOk == vm.eq = 0

finalize(p) ==
    /\ party[p].st = "EqualityCheck" /\ vm.eq # None
    /\ party' = [party EXCEPT ![p].st = IF EqOk THEN "Complete" ELSE "Error"]
    /\ UNCHANGED <<coin, fault, priv, fkey, conv, vm, server, aead, local,
                   outputs, log>>

(* A party whose peer is gone finds its channel closed.                    *)
PeerLost(p) ==
    /\ party[Peer(p)].st \in Failed
    /\ party[p].st \notin Failed \cup {"Complete"}
    /\ party' = [party EXCEPT ![p].st = "Error"]
    /\ UNCHANGED <<coin, fault, priv, fkey, conv, vm, server, aead, local,
                   outputs, log>>

-----------------------------------------------------------------------------
(***************************************************************************)
(* From here both parties run the same operation together.                 *)
(***************************************************************************)
Established == \A p \in Party : party[p].st = "Complete"

Key(d) == IF d = "enc" THEN vm.keys.cwk ELSE vm.keys.swk
Iv(d)  == IF d = "enc" THEN vm.keys.civ ELSE vm.keys.siv

(* RecordLayer::setup for one of its two MpcAesGcm.                        *)
record_setup(d) ==
    LET draw == [i \in 1 .. MAX_POWER + 3 |-> rand(30 + i)]
    IN  /\ Established /\ aead[d].st = "Setup"
        /\ aead' = [aead EXCEPT ![d] = aead_setup(@, Key(d), draw)]
        /\ UNCHANGED <<coin, fault, priv, party, fkey, conv, vm, server, local,
                       outputs, log>>

Ready == Established /\ \A d \in {"enc", "dec"} : aead[d].st = "Ready"

(* set_cf_hash and set_sf_hash with the execution that follows; the        *)
(* verify data is logged as what the parties use.                          *)
finished_vd(from, to, input, label, hash, dir) ==
    LET vd == verify_data(vm.keys.ms, label, hash)
    IN  /\ Ready /\ \A p \in Party : party[p].prf = from
        /\ party' = [p \in Party |->
               [party[p] EXCEPT !.prf = to, !.deap = commit(@, {input})]]
        /\ outputs' = decode(vd, vd)
        /\ log' = Append(log, [dir |-> dir, seq |-> 0, text |-> <<>>,
                               ct |-> vd, tag |-> <<>>])
        /\ UNCHANGED <<coin, fault, priv, fkey, conv, vm, server, aead, local>>

get_client_finished_vd ==
    finished_vd("ClientFinished", "ServerFinished", "cf_hash", LABEL_CF, cf_hash, "cf")

get_server_finished_vd ==
    finished_vd("ServerFinished", "Complete", "sf_hash", LABEL_SF, sf_hash, "sf")

Online == Ready /\ local = None /\ party["leader"].prf \in {"ServerFinished", "Complete"}

Records(d) == SelectSeq(log, LAMBDA e : e.dir = d)

(* The additional data: sequence number and length.                        *)
Aad(seq, text) == Bits(seq, 2) \o Bits(Len(text), BLOCK \div 2)

CanTake(d, text) ==
    /\ Len(Records("enc")) + Len(Records("dec")) < MaxRecords
    /\ BlockCount(Len(text)) <= aead[d].in
    /\ aead[d].j0 > 0

(* encrypt: a private plaintext is the leader's input to the machine, a    *)
(* public one is added to decoded keystream.  Tags are summed by the       *)
(* leader.                                                                 *)
encrypt(text, mode) ==
    LET seq  == Len(Records("enc"))
        used == IF mode = "Private" THEN apply_keystream(aead["enc"], seq, text)
                                    ELSE take_keystream(aead["enc"], seq, Len(text))
        good == used.st = "Ready" /\ (mode = "Private" => OutputReady(used, Len(text)))
        real == IF mode = "Private"
                THEN Output(used, Key("enc"), Iv("enc"), Len(text))
                ELSE XorBits(to_vector(used, Key("enc"), Iv("enc"), Len(text)), text)
        dev  == fault = "vm" /\ mode = "Private" /\ text # <<>>
        ct   == IF dev THEN [real EXCEPT ![1] = 1 - @] ELSE real
        tags == TagShares(used, Key("enc"), Iv("enc"), seq, Aad(seq, text), ct,
                          rand(40 + seq) % 64)
    IN  /\ Online /\ CanTake("enc", text)
        /\ mode = "Public" => text # <<>>
        /\ IF good /\ FitsGhash(Aad(seq, text), ct)
           THEN /\ aead' = [aead EXCEPT !["enc"] = [used EXCEPT !.j0 = @ - 1]]
                /\ outputs' = decode(ct, real)
                /\ log' = Append(log, [dir |-> "enc", seq |-> seq, text |-> text,
                                       ct |-> ct, tag |-> SumTag(tags)])
           ELSE /\ aead' = [aead EXCEPT !["enc"].st = "Error"]
                /\ UNCHANGED <<outputs, log>>
        /\ UNCHANGED <<coin, fault, priv, party, fkey, conv, vm, server, local>>

(* A record of the server, and what becomes of it: its tag is verified,    *)
(* and the plaintext comes out for both (Public), for the leader with the  *)
(* machine (Private: the keystream masked with the leader's pad) or        *)
(* without it (Local).                                                     *)
Received(text, mode, ctr) ==
    LET seq  == Len(Records("dec"))
        k    == server.keys
        ct   == GcmText(k.swk, k.siv, seq, text)
        sent == GcmTag(k.swk, k.siv, seq, Aad(seq, text), ct)
        tag  == IF fault = "record" THEN [sent EXCEPT ![1] = 1 - @] ELSE sent
        otp  == [i \in 1 .. Len(ct) |-> rand(50 + i) % 2]
        used == CASE mode = "Private" -> apply_keystream(aead["dec"], seq, otp)
                  [] mode = "Public"  -> take_keystream(aead["dec"], seq, Len(ct))
                  [] mode = "Local"   -> aead["dec"]
        sum  == SumTag(TagShares(used, Key("dec"), Iv("dec"), seq,
                                 Aad(seq, text), ct, rand(60 + seq) % 64))
        got  == CASE mode = "Private" ->
                        XorBits(XorBits(ct, otp),
                                Output(used, Key("dec"), Iv("dec"), Len(ct)))
                  [] mode = "Public"  ->
                        XorBits(ct, to_vector(used, Key("dec"), Iv("dec"), Len(ct)))
                  [] mode = "Local"   -> decrypt_local(ctr, seq, ct)
        good == /\ used.st = "Ready" /\ FitsGhash(Aad(seq, text), ct)
                /\ sum = tag
                /\ mode = "Private" => OutputReady(used, Len(ct))
    IN  IF good
        THEN [ok |-> TRUE, dec |-> [used EXCEPT !.j0 = @ - 1],
              log |-> Append(log, [dir |-> "dec", seq |-> seq, text |-> got,
                                   ct |-> ct, tag |-> tag])]
        ELSE [ok |-> FALSE, dec |-> [aead["dec"] EXCEPT !.st = "Error"], log |-> log]

CanReceive(text, mode) ==
    /\ Ready /\ local = None
    /\ CanTake("dec", text)
    /\ mode = "Public" => text # <<>>

decrypt(text, mode) ==
    LET r == Received(text, mode, None)
    IN  /\ CanReceive(text, mode)
        /\ aead' = [aead EXCEPT !["dec"] = r.dec]
        /\ log' = r.log
        /\ UNCHANGED <<coin, fault, priv, party, fkey, conv, vm, server, local,
                       outputs>>

(* RecordLayer::commit with a buffered record or none: its tag is verified *)
(* before the leader learns the server's write key and decrypts.           *)
record_commit(buffered) ==
    LET ctr == finish_decode(Key("dec"), Iv("dec"), 8)
    IN  /\ Ready /\ local = None /\ party["leader"].prf = "Complete"
        /\ IF buffered = {}
           THEN local' = ctr /\ UNCHANGED <<aead, log>>
           ELSE \E r \in {Received(b.text, b.mode, ctr) : b \in buffered} :
                    /\ \A b \in buffered : CanReceive(b.text, b.mode)
                    /\ local' = IF r.ok THEN ctr ELSE None
                    /\ aead' = [aead EXCEPT !["dec"] = r.dec]
                    /\ log' = r.log
        /\ UNCHANGED <<coin, fault, priv, party, fkey, conv, vm, server, outputs>>

(* Deap::finalize: the follower's inputs are committed in the proof, which *)
(* must have all its inputs, and the follower compares what was decoded.   *)
OutputsAgree == \A i \in 1 .. Len(outputs) : outputs[i][1] = outputs[i][2]

deap_finalize ==
    LET zk(p) == party[p].deap.zk \cup follower_inputs
        end(p) == CASE zk(p) # Inputs -> "Panic"
                    [] p = "follower" /\ ~OutputsAgree -> "Error"
                    [] OTHER -> "Finalized"
    IN  /\ Ready /\ local # None
        /\ party' = [p \in Party |-> [party[p] EXCEPT !.st = end(p),
                                                      !.deap.zk = zk(p)]]
        /\ UNCHANGED <<coin, fault, priv, fkey, conv, vm, server, aead, local,
                       outputs, log>>

Next ==
    \/ \E p \in Party :
          \/ alloc(p) \/ setup(p) \/ set_server_random(p)
          \/ compute_shares_start(p) \/ assign(p) \/ finalize(p) \/ PeerLost(p)
          \/ \E c \in 0 .. 1 : divide(p, c)
    \/ \E c \in 0 .. 1 : convert_a2m(c) \/ convert_m2a(c)
    \/ client_key
    \/ execute
    \/ \E d \in {"enc", "dec"} : record_setup(d)
    \/ get_client_finished_vd
    \/ get_server_finished_vd
    \/ \E text \in Texts :
          \/ \E mode \in {"Private", "Public"} : encrypt(text, mode)
          \/ \E mode \in {"Private", "Public"} : decrypt(text, mode)
          \/ \E mode \in {"Local", "Public"} :
                record_commit({[text |-> text, mode |-> mode]})
    \/ record_commit({})
    \/ deap_finalize

Spec == Init /\ [][Next]_vars

-----------------------------------------------------------------------------
(* A party that has finished the key exchange computes with the premaster  *)
(* secret the server has, even if one of the two converters deviated: that *)
(* is what the second conversion and the equality check are for.           *)
PremasterAgrees ==
    \A p \in Party :
        party[p].st \in {"Complete", "Finalized"} => vm.pms = server.pms

(* What a TLS server makes of a log entry.                                 *)
ServerAccepts(e) ==
    LET k == server.keys
    IN  CASE e.dir = "cf" -> e.ct = k.cf
          [] e.dir = "sf" -> e.ct = k.sf
          [] e.dir = "enc" ->
                /\ e.ct = GcmText(k.cwk, k.civ, e.seq, e.text)
                /\ e.tag = GcmTag(k.cwk, k.civ, e.seq, Aad(e.seq, e.text), e.ct)
          [] e.dir = "dec" ->
                /\ e.ct = GcmText(k.swk, k.siv, e.seq, e.text)
                /\ e.tag = GcmTag(k.swk, k.siv, e.seq, Aad(e.seq, e.text), e.ct)

(* The verify data and the records computed from shares are the ones of    *)
(* TLS 1.2 with AES-GCM under the server's own keys, and a plaintext that  *)
(* was accepted is the one the server sent, whichever modes and lengths    *)
(* came before.  A multi-party machine that deviates may break this, but   *)
(* then the follower does not finalize.                                    *)
RecordsAreTls ==
    (fault = "vm" => party["follower"].st = "Finalized")
        => \A i \in 1 .. Len(log) : ServerAccepts(log[i])

(* Two parties that do what the code does never fail: the conversions and  *)
(* powers that were reserved suffice for every record, decoded values are  *)
(* there when they are read, and the proof has all its inputs.  The        *)
(* exception is two points with the same x-coordinate, whose addition has  *)
(* no slope (probability 2^-255 in the code).                              *)
HonestComputes ==
    (fault = "none" /\ PointShare("leader")[1] # PointShare("follower")[1])
        => /\ \A p \in Party : party[p].st \notin Failed
           /\ \A d \in {"enc", "dec"} : aead[d].st # "Error"
=============================================================================
