------------------------------ MODULE Witness ------------------------------
(***************************************************************************)
(* What MPC-TLS promises, to the verifier above all: a witnessed           *)
(* connection.  There are no messages between the parties here, no record  *)
(* layers, no limits and no failing calls.                                 *)
(*                                                                         *)
(* The TLS client hands over the records it wants to send and those it     *)
(* received.  The two parties process them together, in the order in which *)
(* they were handed over: what they have processed is the transcript the   *)
(* verifier holds.  Only records of the transcript reach the server or the *)
(* application.  At the end the prover learns the server's write key, with *)
(* which it could make up records of the server, and the transcript grows  *)
(* no more; the verifier accepts the transcript in that step or never.     *)
(***************************************************************************)
EXTENDS Integers, Sequences

VARIABLES
  outgoing,   \* records the client handed over to be sent
  incoming,   \* records the client handed over as received
  sent,       \* those of outgoing in the transcript
  received,   \* those of incoming in the transcript
  wire,       \* records the client got back to send to the server
  delivered,  \* records the client got back as plaintext
  key,        \* the prover knows the write key of the server
  verdict     \* of the verifier, on the transcript

vars == <<outgoing, incoming, sent, received, wire, delivered, key, verdict>>
handed == <<outgoing, incoming>>
transcript == <<sent, received>>
taken == <<wire, delivered>>

IsPrefixOf(s, t) == Len(s) <= Len(t) /\ \A i \in 1 .. Len(s) : s[i] = t[i]

\* A record handed over gets the number of those before it in its direction.
IsNext(old, new) ==
  /\ Len(new) = Len(old) + 1 /\ IsPrefixOf(old, new)
  /\ new[Len(new)].seq = Len(old)

Authentic(records) == \A i \in 1 .. Len(records) : records[i].tag

\* A Finished message, then application data only, up to a close_notify at the end
Whole(records) ==
  /\ records # << >> /\ records[1].kind = "finished"
  /\ \A i \in 2 .. Len(records) :
       records[i].kind # "data" => i = Len(records) /\ records[i].kind = "close_notify"

Init ==
  /\ outgoing = << >> /\ incoming = << >> /\ sent = << >> /\ received = << >>
  /\ wire = << >> /\ delivered = << >>
  /\ key = FALSE /\ verdict = "open"

\* Nothing is handed over once the prover has the key.
HandOver ==
  /\ ~key /\ verdict # "accepted"
  /\ \/ IsNext(outgoing, outgoing') /\ UNCHANGED incoming
     \/ IsNext(incoming, incoming') /\ UNCHANGED outgoing
  /\ UNCHANGED <<transcript, taken, key, verdict>>

Process ==
  /\ ~key /\ verdict = "open"
  /\ IsPrefixOf(sent, sent') /\ IsPrefixOf(sent', outgoing)
  /\ IsPrefixOf(received, received') /\ IsPrefixOf(received', incoming)
  /\ Authentic(received')
  /\ UNCHANGED <<handed, taken, key, verdict>>

Transmit ==
  /\ Len(wire) < Len(sent)
  /\ wire' = Append(wire, sent[Len(wire) + 1])
  /\ UNCHANGED <<handed, transcript, delivered, key, verdict>>

Deliver ==
  /\ Len(delivered) < Len(received)
  /\ delivered' = Append(delivered, received[Len(delivered) + 1])
  /\ UNCHANGED <<handed, transcript, wire, key, verdict>>

Close ==
  /\ ~key /\ verdict = "open"
  /\ key' = TRUE
  /\ IsPrefixOf(received, received') /\ IsPrefixOf(received', incoming)
  /\ Authentic(incoming)
  /\ \/ verdict' = "rejected"
     \/ /\ verdict' = "accepted"
        /\ sent = outgoing /\ Whole(sent)
        /\ received' = incoming /\ Whole(received')
  /\ UNCHANGED <<handed, sent, taken>>

\* The verifier may give up at any time.
Reject ==
  /\ verdict = "open" /\ verdict' = "rejected"
  /\ UNCHANGED <<handed, transcript, taken, key>>

Next == HandOver \/ Process \/ Transmit \/ Deliver \/ Close \/ Reject

Spec == Init /\ [][Next]_vars
=============================================================================
