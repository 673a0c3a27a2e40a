---------------------------- MODULE LossyChannel ----------------------------
(***************************************************************************)
(* What a gateway promises between two brokers.  Messages are numbered as  *)
(* they are sent; each is put into the receiver's hands in that order and  *)
(* once, or never.  What the receiver then writes to its topic comes from  *)
(* a producer that is not idempotent: it may write a message again, or     *)
(* after a later one, or not at all.                                       *)
(***************************************************************************)
EXTENDS Naturals, Sequences
VARIABLES
  sent,      \* messages sent
  posted,    \* messages the receiver was given
  received   \* messages in the receiver's topic

Init == sent = 0 /\ posted = <<>> /\ received = <<>>

Send ==
  /\ sent' = sent + 1
  /\ UNCHANGED <<posted, received>>

After(i) == \A j \in DOMAIN posted : posted[j] < i
Post == \E i \in 1 .. sent :
  /\ After(i)
  /\ posted' = Append(posted, i)
  /\ UNCHANGED <<sent, received>>

Land == \E j \in DOMAIN posted :
  /\ received' = Append(received, posted[j])
  /\ UNCHANGED <<sent, posted>>

Next == Send \/ Post \/ Land
Spec == Init /\ [][Next]_<<sent, posted, received>>
=============================================================================
