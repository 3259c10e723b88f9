---------------------------- MODULE MCMqttStream ----------------------------
(* Lengths of two bits' digits: a body of two bytes has a length of two     *)
(* bytes, and every byte of a body could begin a packet or be a length.     *)
EXTENDS MqttStream

MCBodies == {<< >>, <<3, 0>>}
=============================================================================
