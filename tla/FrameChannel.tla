---------------------------- MODULE FrameChannel ----------------------------
(***************************************************************************)
(* What sim_server and the client promise of the telemetry frames.  Frames   *)
(* are numbered as they are sent and delivered one by one in that order; a    *)
(* connection that is lost loses all that are under way.  Once `broken',     *)
(* nothing is promised any more.                                            *)
(***************************************************************************)
EXTENDS Naturals, Sequences

VARIABLES sent, next, delivered, broken

vars == <<sent, next, delivered, broken>>

Init == sent = 0 /\ next = 1 /\ delivered = <<>> /\ broken = FALSE

Send ==
    /\ sent' = sent + 1
    /\ UNCHANGED <<next, delivered, broken>>

Deliver ==
    /\ next <= sent
    /\ delivered' = Append(delivered, next)
    /\ next' = next + 1
    /\ UNCHANGED <<sent, broken>>

Lose ==
    /\ next' = sent + 1
    /\ UNCHANGED <<sent, delivered, broken>>

Break == broken' = TRUE

Next == (~broken /\ (Send \/ Deliver \/ Lose)) \/ Break

Spec == Init /\ [][Next]_vars
=============================================================================
