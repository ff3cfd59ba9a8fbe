------------------------------ MODULE LogQueue ------------------------------
(***************************************************************************)
(* What the log promises: the bytes that were accepted come out once, in   *)
(* the order in which they were accepted, and never more than Capacity of  *)
(* them wait.                                                              *)
(***************************************************************************)
EXTENDS Naturals, Sequences, SequencesExt

CONSTANT Capacity
VARIABLES queue,    \* bytes accepted and not yet put out
          output    \* the block of bytes that is put out

vars == <<queue, output>>

Init == queue = <<>> /\ output = <<>>

Accept ==
    /\ IsPrefix(queue, queue')
    /\ Len(queue') <= Capacity
    /\ UNCHANGED output

PutOut ==
    /\ output' # <<>>
    /\ queue = output' \o queue'

Done ==
    /\ output' = <<>>
    /\ UNCHANGED queue

Next == Accept \/ PutOut \/ Done

Spec == Init /\ [][Next]_vars
=============================================================================
