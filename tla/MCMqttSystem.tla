---------------------------- MODULE MCMqttSystem ----------------------------
(* Small instances of MqttSystem for TLC.                                  *)
EXTENDS MqttSystem

CONSTANTS u1, a, h1, h2, m1, m2

OneUser == {u1}
Qos12 == {1, 2}
SubAnswers == {0, 128}
=============================================================================
