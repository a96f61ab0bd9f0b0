--------------------------- MODULE PusherContract ---------------------------
(***************************************************************************)
(* What sim_server promises about its ffmpeg pushers, whatever its threads *)
(* and signal handlers do: pushers follow one another, a process is never  *)
(* the pusher twice, and once the RTSP side has closed none is left and    *)
(* none comes.                                                             *)
(***************************************************************************)
CONSTANT Pushers

VARIABLES
    live,  \* the pusher processes the server has to reap: none or one
    used,  \* the processes that have been a pusher
    open   \* the RTSP side still runs

vars == <<live, used, open>>

Init == live = {} /\ used = {} /\ open = TRUE

Spawn(p) ==
    /\ open /\ live = {} /\ p \notin used
    /\ live' = {p}
    /\ used' = used \cup {p}
    /\ UNCHANGED open

Reap ==
    /\ live # {}
    /\ live' = {}
    /\ UNCHANGED <<used, open>>

Close ==
    /\ live = {}
    /\ open' = FALSE
    /\ UNCHANGED <<live, used>>

Next == (\E p \in Pushers : Spawn(p)) \/ Reap \/ Close

Spec == Init /\ [][Next]_vars
=============================================================================
