------------------------------- MODULE Gateway -------------------------------
(***************************************************************************)
(* BaseGateway: a thread consumes one topic of the local broker and posts  *)
(* each message to every receiver; the receiver's HTTP handler produces it *)
(* to its own broker.  A failing post is logged, no offset is committed,   *)
(* and a consumer without committed offsets starts at the end.  The        *)
(* producer is not idempotent: it sends again what it has no               *)
(* acknowledgement of, whether the broker has it or not.                   *)
(***************************************************************************)
EXTENDS Naturals, Sequences

CONSTANTS
  Receivers,
  MaxMessages,  \* bound on messages
  MaxLanded     \* bound on the length of a receiver's topic

GatewayAssumption == MaxMessages \in Nat /\ MaxLanded \in Nat

VARIABLES
  sent,     \* length of the local topic
  pos,      \* messages consumed
  todo,     \* receivers the message in hand has not been posted to
  alive,    \* the consumer thread runs
  posted,   \* posted[r]: what the handler of r has called produce for
  unacked,  \* unacked[r]: of those, what the producer of r has no acknowledgement of
  got       \* got[r]: what is in the topic of r

vars == <<sent, pos, todo, alive, posted, unacked, got>>

TypeOK ==
  /\ sent \in Nat /\ pos \in 0 .. sent
  /\ todo \subseteq Receivers
  /\ alive \in BOOLEAN
  /\ posted \in [Receivers -> Seq(1 .. sent)]
  /\ unacked \in [Receivers -> SUBSET (1 .. sent)]
  /\ got \in [Receivers -> Seq(1 .. sent)]

Init ==
  /\ sent = 0 /\ pos = 0 /\ todo = {} /\ alive = TRUE
  /\ posted = [r \in Receivers |-> <<>>]
  /\ unacked = [r \in Receivers |-> {}]
  /\ got = [r \in Receivers |-> <<>>]

-----------------------------------------------------------------------------
(* The gateway that forwards *)

ReceiverVars == <<posted, unacked, got>>

\* The application produces to the local broker.
Produced ==
  /\ sent < MaxMessages
  /\ sent' = sent + 1
  /\ UNCHANGED <<pos, todo, alive, ReceiverVars>>

\* parse_message, deserialize_message and process_message let it pass, or it is skipped.
Consume ==
  /\ alive /\ todo = {} /\ pos < sent
  /\ pos' = pos + 1
  /\ todo' \in {{}, Receivers}
  /\ UNCHANGED <<sent, alive, ReceiverVars>>

\* The handler of r accepts the message and produces it, whether or not its answer arrives.
Accepted(r) ==
  /\ posted' = [posted EXCEPT ![r] = Append(@, pos)]
  /\ unacked' = [unacked EXCEPT ![r] = @ \cup {pos}]

\* Mutant: a receiver that did not answer stays to be tried.
TriedUntilAnswered(r) == todo' \in {todo, todo \ {r}}
\* A post that fails is logged, and not tried again.
Tried(r) == todo' = todo \ {r}

Forward(r) ==
  /\ alive /\ r \in todo
  /\ Accepted(r) \/ UNCHANGED <<posted, unacked>>
  /\ Tried(r)
  /\ UNCHANGED <<sent, pos, alive, got>>

\* A message that is no object, or Kafka throws: the thread ends, the HTTP half goes on.
ConsumerDies ==
  /\ alive /\ todo = {} /\ pos < sent
  /\ alive' = FALSE
  /\ pos' \in {pos, pos + 1}
  /\ UNCHANGED <<sent, todo, ReceiverVars>>

Restart ==
  /\ pos' = sent
  /\ todo' = {} /\ alive' = TRUE
  /\ UNCHANGED <<sent, ReceiverVars>>

-----------------------------------------------------------------------------
(* The producer of a receiver *)

\* The broker appends what it was sent; without its acknowledgement that is sent again.
Land(r) == \E m \in unacked[r] :
  /\ Len(got[r]) < MaxLanded
  /\ got' = [got EXCEPT ![r] = Append(@, m)]
  /\ unacked' \in {unacked, [unacked EXCEPT ![r] = @ \ {m}]}
  /\ UNCHANGED <<sent, pos, todo, alive, posted>>

\* Messages time out in the producer's queue, or the receiver stops with them in it.
GiveUp(r) == \E lost \in SUBSET unacked[r] :
  /\ lost # {}
  /\ unacked' = [unacked EXCEPT ![r] = @ \ lost]
  /\ UNCHANGED <<sent, pos, todo, alive, posted, got>>

Next ==
  \/ Produced \/ Consume \/ ConsumerDies \/ Restart
  \/ \E r \in Receivers : Forward(r) \/ Land(r) \/ GiveUp(r)

Spec == Init /\ [][Next]_vars

-----------------------------------------------------------------------------
(* Properties *)

\* Each receiver is given the messages in order and none of them twice, although posts time
\* out after they were accepted and the gateway starts again anywhere; and its topic holds
\* only what it was given, if perhaps out of order and more than once.
Channel(r) == INSTANCE LossyChannel WITH posted <- posted[r], received <- got[r]
ImplementsChannel ==
  /\ \A r \in Receivers : Channel(r)!Init
  /\ [][\A r \in Receivers : Channel(r)!Next \/ UNCHANGED <<sent, posted[r], got[r]>>]_vars

=============================================================================
