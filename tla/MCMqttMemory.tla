---------------------------- MODULE MCMqttMemory ----------------------------
(* MqttMemory for TLC: threads and addresses are model values.             *)
EXTENDS MqttMemory, TLC

\* Nothing distinguishes application threads, nor the addresses of records.
ThreadsAndNodes == Permutations(Users) \cup Permutations(Nodes)
=============================================================================
