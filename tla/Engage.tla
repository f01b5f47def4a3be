------------------------------ MODULE Engage ------------------------------
(***************************************************************************)
(* capture.rs, engage_capturing against lib.rs, request_stop: the stop     *)
(* flag and CAPTURING as an x86-64 machine executes the code's Release     *)
(* stores and Acquire loads.  Such a store is a plain store: it waits in   *)
(* the storing processor's buffer, in order, and a later load of another   *)
(* location does not wait for it.  Session.tla takes the two variables as  *)
(* sequentially consistent; this module shows what that leaves out.        *)
(***************************************************************************)
EXTENDS Naturals, Sequences

CONSTANT MaxSessions   \* bound: captures started in a behaviour

VARIABLES
    mem,         \* memory: the flag "stop" of the capture and "capturing"
    buffer,      \* "bus" and "worker": their stores not yet in memory
    phase,       \* the session's phase on the bus thread
    wpc,         \* where the worker is
    announced,   \* it has stored PHASE_RUNNING
    n            \* captures started

vars == <<mem, buffer, phase, wpc, announced, n>>

Init ==
    /\ mem = [stop |-> FALSE, capturing |-> FALSE]
    /\ buffer = [t \in {"bus", "worker"} |-> << >>]
    /\ phase = "idle" /\ wpc = "gone" /\ announced = FALSE /\ n = 0

Issue(t, stores) == buffer' = [buffer EXCEPT ![t] = @ \o stores]

\* What a thread reads of a location: its own newest store, or memory.
Pending(t, var) == {i \in 1..Len(buffer[t]) : buffer[t][i][1] = var}
Read(t, var) ==
    IF Pending(t, var) = {} THEN mem[var]
    ELSE buffer[t][CHOOSE i \in Pending(t, var) : \A j \in Pending(t, var) : j <= i][2]

Flush(t) ==
    /\ buffer[t] # << >>
    /\ mem' = [mem EXCEPT ![Head(buffer[t])[1]] = Head(buffer[t])[2]]
    /\ buffer' = [buffer EXCEPT ![t] = Tail(@)]
    /\ UNCHANGED <<phase, wpc, announced, n>>

-----------------------------------------------------------------------------
\* start_capture: a flag of its own for the capture; spawning a thread orders
\* everything before it.
Start ==
    /\ phase = "idle" /\ n < MaxSessions /\ buffer["bus"] = << >>
    /\ n' = n + 1
    /\ phase' = "starting" /\ wpc' = "check" /\ announced' = FALSE
    /\ mem' = [mem EXCEPT !.stop = FALSE]
    /\ UNCHANGED buffer

\* watchdog adopts a worker that has announced itself.
Adopt ==
    /\ phase = "starting" /\ announced
    /\ phase' = "running"
    /\ Issue("bus", <<<<"capturing", TRUE>>>>)
    /\ UNCHANGED <<mem, wpc, announced, n>>

\* request_stop: the flag, then CAPTURING.
Stop ==
    /\ phase \in {"starting", "running"}
    /\ phase' = "stopping"
    /\ Issue("bus", <<<<"stop", TRUE>>, <<"capturing", FALSE>>>>)
    /\ UNCHANGED <<mem, wpc, announced, n>>

\* mutant: CAPTURING was already cleared by request_stop
ReapOnly ==
    /\ phase = "stopping" /\ wpc = "gone" /\ buffer["worker"] = << >>
    /\ phase' = "idle"
    /\ UNCHANGED <<mem, buffer, wpc, announced, n>>

\* reap_worker: a join orders all the worker did before it.
Reap ==
    /\ phase = "stopping" /\ wpc = "gone" /\ buffer["worker"] = << >>
    /\ phase' = "idle"
    /\ Issue("bus", <<<<"capturing", FALSE>>>>)
    /\ UNCHANGED <<mem, wpc, announced, n>>

-----------------------------------------------------------------------------
\* engage_capturing, after the worker announced itself.
Check ==
    /\ wpc = "check"
    /\ announced' = TRUE
    /\ wpc' = IF Read("worker", "stop") THEN "loop" ELSE "set"
    /\ UNCHANGED <<mem, buffer, phase, n>>

SetCapturing ==
    /\ wpc = "set" /\ wpc' = "recheck"
    /\ Issue("worker", <<<<"capturing", TRUE>>>>)
    /\ UNCHANGED <<mem, phase, announced, n>>

Recheck ==
    /\ wpc = "recheck"
    /\ wpc' = IF Read("worker", "stop") THEN "undo" ELSE "loop"
    /\ UNCHANGED <<mem, buffer, phase, announced, n>>

Undo ==
    /\ wpc = "undo" /\ wpc' = "loop"
    /\ Issue("worker", <<<<"capturing", FALSE>>>>)
    /\ UNCHANGED <<mem, phase, announced, n>>

\* The capture loop runs until it sees the flag.
LoopEnds ==
    /\ wpc = "loop" /\ Read("worker", "stop")
    /\ wpc' = "gone"
    /\ UNCHANGED <<mem, buffer, phase, announced, n>>

Next == \/ Start \/ Adopt \/ Stop \/ Reap
        \/ Check \/ SetCapturing \/ Recheck \/ Undo \/ LoopEnds
        \/ \E t \in {"bus", "worker"} : Flush(t)

Spec == Init /\ [][Next]_vars

-----------------------------------------------------------------------------
Settled == \A t \in {"bus", "worker"} : buffer[t] = << >>

\* Whatever the race left behind, the join puts it right: an idle session is
\* muted once its own stores have arrived.
MutedAfterReap == phase = "idle" /\ Settled => ~mem.capturing

\* capture.rs:166-168, "a racing start always converges to stopped": once the
\* worker is past engage_capturing and all stores have arrived, a capture that
\* was stopped is muted.  The worker's store of CAPTURING may arrive after both
\* of request_stop's although its second look at the flag came before them.
RacingStartConverges ==
    phase = "stopping" /\ wpc \in {"loop", "gone"} /\ Settled => ~mem.capturing
=============================================================================
