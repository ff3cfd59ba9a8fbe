--------------------------- MODULE MCMqttNetwork ---------------------------
(* Instances of MqttNetwork for TLC: a process with five descriptors, the   *)
(* first of them its standard input, and room for three TLS objects.        *)
EXTENDS MqttNetwork

CONSTANTS p1, p2, p3

ThreeParams == {p1, p2, p3}
=============================================================================
