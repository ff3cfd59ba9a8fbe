---------------------------- MODULE MCMqttReader ----------------------------
(* Instances of MqttReader for TLC: length bytes with two values each.      *)
EXTENDS MqttReader

\* No body, a one-byte length, an exact fit, too large by one; drained in one
\* full read, and in a full read and a rest.
Lengths == {0, 1, 2, 3, 5, 7}
=============================================================================
