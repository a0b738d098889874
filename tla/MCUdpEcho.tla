----------------------------- MODULE MCUdpEcho ------------------------------
(* A small instance of UdpEcho for TLC. *)
EXTENDS UdpEcho

Request(c) == [type |-> "IP", dst |-> "me", protocol |-> "UDP", port |-> "echo", src |-> c]

\* A request of each client, and a datagram for another port.
MCFrames ==
  {Request(c) : c \in Clients} \union
  {[Request(CHOOSE c \in Clients : TRUE) EXCEPT !.port = "other"]}
=============================================================================
