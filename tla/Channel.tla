------------------------------- MODULE Channel -------------------------------
(***************************************************************************)
(* What the layers under the handshake promise to it: the messages that    *)
(* the peer has sent arrive unchanged, in their order and once, or the     *)
(* connection ends.  Several may be sent, or arrive, in one step.          *)
(***************************************************************************)
EXTENDS Sequences, SequencesExt

VARIABLES sent, received, failed

Init ==
  /\ sent = <<>>
  /\ received = <<>>
  /\ failed = FALSE

Send ==
  /\ IsStrictPrefix(sent, sent')
  /\ UNCHANGED <<received, failed>>

Receive ==
  /\ ~failed
  /\ IsStrictPrefix(received, received')
  /\ IsPrefix(received', sent)
  /\ UNCHANGED <<sent, failed>>

Close ==
  /\ failed' = TRUE
  /\ IsPrefix(received, received')
  /\ IsPrefix(received', sent)
  /\ UNCHANGED sent

Next == Send \/ Receive \/ Close

Spec == Init /\ [][Next]_<<sent, received, failed>>
=============================================================================
