--------------------------- MODULE MCMqttLifecycle ---------------------------
(* Instances of MqttLifecycle for TLC: one client, two thread objects.      *)
EXTENDS MqttLifecycle

CONSTANTS app, t1, t2

TwoThreads == {t1, t2}
=============================================================================
