-------------------------- MODULE ConsumerPacketGate --------------------------
(* src/consumer_packet_gate.rs: what the two fixtures of the file share.     *)
(* Each keeps a Vec of the destinations of a source; PacketGateRoute removes *)
(* and adds them, PacketGateBatch updates their gates.  They are not one     *)
(* state machine: a behaviour has one fixture.                               *)
EXTENDS Integers

VARIABLE destinations   \* position -> what the fixture keeps of a destination
=============================================================================
