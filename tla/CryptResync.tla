----------------------------- MODULE CryptResync -----------------------------
(***************************************************************************)
(* The recovery the nonce resynchronisation promises: CryptState under the *)
(* fairness of a network that loses packets but not all of them.  Here the *)
(* counter wraps (MaxRest = HighValues - 1), so the sender never stops.    *)
(* Nothing is assumed of a packet that decrypts because the counter has    *)
(* come round: only of those encrypted soon after a nonce was installed.   *)
(***************************************************************************)
EXTENDS CryptState

VARIABLE since  \* packets encrypted since the last InstallNonce, at most Half + 1

resyncVars == <<cryptVars, since>>

Init == CryptInit /\ since = Half + 1

EncryptNext == Encrypt /\ since' = IF since > Half THEN since ELSE since + 1

Install == InstallNonce /\ since' = 0

\* The answer arrives before another packet is encrypted.
PromptInstall == Install /\ Head(nonces) = encrypt_iv

Answer == AnswerRequest /\ UNCHANGED since
LoseOne == (\E p \in net : Lose(p)) /\ UNCHANGED since
RejectOne == (\E p \in net : Reject(p)) /\ UNCHANGED since
AcceptOne == (\E p \in net : AcceptAhead(p)) /\ UNCHANGED since
AcceptSoon == since <= Half /\ AcceptOne
AskAgain == RequestTimeout /\ UNCHANGED since

Next ==
    \/ EncryptNext \/ Answer \/ Install
    \/ AcceptOne \/ RejectOne \/ LoseOne \/ AskAgain
    \/ /\ \/ \E p \in net : AcceptLate(p)
          \/ RejectDamaged
          \/ GoodTimeout
       /\ UNCHANGED since

(* The assumptions.                                                        *)
(*   Sender: it keeps sending (both sides ping over UDP every few seconds),*)
(*     and its main loop answers every request.                            *)
(*   TCP: every message arrives; and again and again an answer arrives     *)
(*     before the next voice packet is encrypted, as in a pause of speech. *)
(*   UDP: no datagram stays in flight for ever; a receiver that keeps      *)
(*     being sent packets it cannot decrypt reads some of them, and of the *)
(*     packets that follow one resync after the other it reads some.       *)
(*   Clock: five seconds pass.                                             *)
Fairness ==
    /\ WF_resyncVars(EncryptNext)
    /\ WF_resyncVars(Answer)
    /\ WF_resyncVars(Install)
    /\ SF_resyncVars(PromptInstall)
    /\ WF_resyncVars(LoseOne)
    /\ SF_resyncVars(RejectOne)
    /\ SF_resyncVars(AcceptSoon)
    /\ WF_resyncVars(AskAgain)

FairSpec == Init /\ [][Next]_resyncVars /\ Fairness

\* However far the two counters have drifted apart (257 lost packets are
\* enough, "Wrap too far" in TestCrypt), a receiver that has heard nothing
\* good for five seconds decrypts again some day.
Recovers == ~goodRecent ~> goodRecent
=============================================================================
