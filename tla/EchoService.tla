---------------------------- MODULE EchoService -----------------------------
(***************************************************************************)
(* What the program of samples/simple_udp promises to the network, without *)
(* rings, registers or descriptors: the frames received are served in the  *)
(* order they came, each once; a request for the service is answered to    *)
(* whoever sent it, and left unanswered only when Capacity replies wait to *)
(* be sent at that moment.                                                 *)
(***************************************************************************)
EXTENDS Integers, Sequences

CONSTANTS
  Frame,      \* what may be received
  Backlog,    \* how many received frames may wait to be served
  Capacity,   \* how many replies may wait to be sent
  Asks(_),    \* whether a frame is a request for the service
  Answer(_)   \* the reply to a request

VARIABLES
  received,   \* every frame received, in order
  served,     \* how many of them are served
  replies,    \* every reply queued, in order
  sent        \* how many of them are sent

serviceVars == <<received, served, replies, sent>>

Init ==
  /\ received = << >>
  /\ served = 0
  /\ replies = << >>
  /\ sent = 0

Receive ==
  /\ Len(received) - served < Backlog
  /\ \E f \in Frame : received' = Append(received, f)
  /\ UNCHANGED <<served, replies, sent>>

Serve ==
  /\ served < Len(received)
  /\ LET f == received[served + 1]
     IN replies' = IF Asks(f) /\ Len(replies) - sent < Capacity
                     THEN Append(replies, Answer(f)) ELSE replies
  /\ served' = served + 1
  /\ UNCHANGED <<received, sent>>

Send ==
  /\ sent < Len(replies)
  /\ sent' = sent + 1
  /\ UNCHANGED <<received, served, replies>>

Next == Receive \/ Serve \/ Send

Spec == Init /\ [][Next]_serviceVars
=============================================================================
