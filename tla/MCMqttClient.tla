---------------------------- MODULE MCMqttClient ----------------------------
(* Small instances of MqttClient for TLC.                                  *)
EXTENDS MqttClient, TLC

CONSTANTS u1, u2, a, b, h1, h2, h3, m1, m2

OneUser == {u1}
TwoUsers == {u1, u2}
NoQos == {}
Qos12 == {1, 2}
Qos2 == {2}
AllQos == {0, 1, 2}
SubAnswers == {0, 128}
SubGranted == {0}

HandlerSymmetry == Permutations(Handlers)
ThreadSymmetry == Permutations(Users) \cup Permutations(Msgs)
=============================================================================
