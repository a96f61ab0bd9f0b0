--------------------------- MODULE WorkerThreads ---------------------------
(***************************************************************************)
(* The QThreads the main window moves its workers to, as far as src/ uses    *)
(* them: a slot call posted to a worker is queued for its thread, and the     *)
(* thread's event loop runs what is queued until nothing is left, then looks  *)
(* whether quit() was called, and waits for a call or ends.  So it never ends  *)
(* between two calls, but calls posted after its last look at the queue and    *)
(* before its look at quit() are never run.                                  *)
(*                                                                         *)
(* Bound: the calls meet at most plan.faults failures of the file system.     *)
(***************************************************************************)
EXTENDS Integers, Sequences

Threads == {"db", "rec"}

VARIABLES
    queue,       \* queue[t]: calls posted to thread t; the head is being run
    loop,        \* loop[t]: it has begun to run what is queued ("drain") or not
    quit,        \* quit() was called for the threads
    inputs,      \* what the user did and what arrived so far: the clock
    faults,      \* failures the calls have met so far
    plan         \* the bounds of this behaviour, chosen at the beginning

threadVars == <<queue, loop, quit>>

Fault == faults < plan.faults /\ faults' = faults + 1

ThreadsTypeOK ==
    /\ faults \in 0..plan.faults
    /\ loop \in [Threads -> {"idle", "drain", "off"}]
    /\ DOMAIN queue = Threads
    /\ quit \in BOOLEAN

Idle == [t \in Threads |-> <<>>]
AllAt(place) == [t \in Threads |-> place]

\* Mutated form: a call overtakes those that wait.
PostedFirst(q, t, calls) ==
    [q EXCEPT ![t] = IF @ = <<>> THEN calls ELSE <<Head(@)>> \o calls \o Tail(@)]

Posted(q, t, calls) == [q EXCEPT ![t] = @ \o calls]
Running(t) == loop[t] \in {"idle", "drain"} /\ queue[t] # <<>>
Begun(t) == loop' = [loop EXCEPT ![t] = "drain"]
Finished(t) ==
    /\ queue' = [queue EXCEPT ![t] = Tail(@)]
    /\ loop' = [loop EXCEPT ![t] = IF Len(queue[t]) = 1 THEN "idle" ELSE "drain"]

\* Mutated form: quit() of the database's thread was forgotten.
RecorderEnds(t) ==
    /\ loop[t] = "idle" /\ quit /\ t = "rec"
    /\ loop' = [loop EXCEPT ![t] = "off"]
    /\ UNCHANGED <<queue, quit>>

ThreadEnds(t) ==
    /\ loop[t] = "idle" /\ quit
    /\ loop' = [loop EXCEPT ![t] = "off"]
    /\ UNCHANGED <<queue, quit>>
=============================================================================
