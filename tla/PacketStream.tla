---------------------------- MODULE PacketStream ----------------------------
(***************************************************************************)
(* What mqtt_read_packet promises its caller: the packets the broker sends *)
(* come out whole and in order, except that one too large for the buffer   *)
(* is skipped.  The promise ends when a read fails inside a packet.        *)
(***************************************************************************)
EXTENDS Naturals, Sequences

CONSTANT Fits(_)   \* whether a packet of this remaining length fits the buffer

VARIABLES pending,    \* remaining lengths of the packets not handled yet
          delivered,  \* remaining lengths of the packets handed to the caller
          sync        \* whether the promise still holds

streamVars == <<pending, delivered, sync>>

Init == delivered = <<>> /\ sync = TRUE

Deliver ==
    /\ sync /\ pending # <<>>
    /\ Fits(Head(pending))
    /\ delivered' = Append(delivered, Head(pending))
    /\ pending' = Tail(pending)
    /\ UNCHANGED sync

Skip ==
    /\ sync /\ pending # <<>>
    /\ ~Fits(Head(pending))
    /\ pending' = Tail(pending)
    /\ UNCHANGED <<delivered, sync>>

Lose == sync /\ sync' = FALSE

Lost == ~sync /\ ~sync'

Next == Deliver \/ Skip \/ Lose \/ Lost

SafeSpec == Init /\ [][Next]_streamVars

Spec == SafeSpec /\ WF_streamVars(Deliver \/ Skip)
=============================================================================
