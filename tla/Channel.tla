------------------------------- MODULE Channel -------------------------------
(***************************************************************************)
(* What one direction of a connection promises: messages are numbered in   *)
(* the order in which their first byte is written.  A message that was     *)
(* written whole, and right after the end of another, is delivered; once,  *)
(* in its turn, and with none of its like left out.  One that was not may  *)
(* get lost.  Wire implements this.                                        *)
(***************************************************************************)
EXTENDS Naturals, Sequences

VARIABLES
  fate,  \* what is known of each message
  got    \* the last message that was delivered, 0 if there is none

vars == <<fate, got>>

Fates == {"pending", "intact", "damaged"}

Init == fate = << >> /\ got = 0

Offer == \E f \in Fates : fate' = Append(fate, f) /\ UNCHANGED got

\* What is damaged stays so, and what is intact too.
Resolve ==
  /\ Len(fate') = Len(fate)
  /\ \A i \in DOMAIN fate : fate'[i] = fate[i] \/ fate[i] = "pending"
  /\ UNCHANGED got

\* A message is begun, which spoils one that is still being written.
Spoil ==
  /\ \E f \in Fates : \E i \in DOMAIN fate :
       /\ fate[i] = "pending"
       /\ fate' = Append([fate EXCEPT ![i] = "damaged"], f)
  /\ UNCHANGED got

Deliver ==
  /\ \E i \in DOMAIN fate :
       /\ got < i
       /\ fate[i] = "intact"
       /\ \A j \in DOMAIN fate : got < j /\ j < i => fate[j] = "damaged"
       /\ got' = i
  /\ UNCHANGED fate

Next == Offer \/ Resolve \/ Spoil \/ Deliver

Spec == Init /\ [][Next]_vars
==============================================================================
