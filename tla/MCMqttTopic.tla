---------------------------- MODULE MCMqttTopic ----------------------------
(* Instances of MqttTopic for TLC: two letters, all strings up to a bound.  *)
EXTENDS MqttTopic
TwoLetters == {"a", "b"}
=============================================================================
