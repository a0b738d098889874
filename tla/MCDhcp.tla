------------------------------- MODULE MCDhcp -------------------------------
(* A small instance of Dhcp for TLC. *)
EXTENDS Dhcp

\* What another client exchanges with a server, and a frame that is not DHCP.
MCForeign ==
  {Packet("offer", CHOOSE s \in Servers : TRUE, "other"),
   Packet("ack", CHOOSE s \in Servers : TRUE, "other"),
   Packet("arp", "any", "other")}

MCFrames ==
  MCForeign \union {Packet(kind, s, "me") : kind \in {"offer", "ack"}, s \in Servers}
=============================================================================
