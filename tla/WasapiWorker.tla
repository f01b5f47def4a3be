---------------------------- MODULE WasapiWorker ----------------------------
(***************************************************************************)
(* backend_windows.rs: one capture's worker thread and what it holds of    *)
(* COM, the audio engine and the kernel.  Each call may fail and leaves    *)
(* run_capture at once; what is held by then is released by Rust's drop    *)
(* order and Cleanup.  The engine completes the activation on a thread of  *)
(* its own, after the worker's five seconds if it likes.                   *)
(***************************************************************************)
EXTENDS Naturals, Sequences

CONSTANT MaxPackets   \* bound: packets the engine delivers to a capture

VARIABLES
    pc,         \* the call the worker makes next
    held,       \* what it holds
    failed,     \* run_capture's result is an error
    phase, error, exited, fmt, stop, pushing,   \* see WorkerContract
    engine,     \* the engine's reference to the completion handler: "none",
                \* "pending", "completed" (ActivateCompleted was called), "released"
    event,      \* the handle ActivateCompleted signals: "none", "open", "closed"
    packets     \* packets delivered

vars == <<pc, held, failed, phase, error, exited, fmt, stop, pushing, engine, event, packets>>

shared == <<phase, error, exited, fmt, stop, pushing>>

Init ==
    /\ pc = "CoInitializeEx" /\ held = {} /\ failed = FALSE
    /\ phase = "starting" /\ error = FALSE /\ exited = FALSE /\ fmt = FALSE
    /\ stop = FALSE /\ pushing = FALSE
    /\ engine = "none" /\ event = "none" /\ packets = 0

\* The calls of run_capture up to the packet loop, and what each one acquires.
\* "blob" is the stack struct the activation's PROPVARIANT points at; "signals"
\* that the engine signals the buffer event.
Calls == <<
    [name |-> "CoInitializeEx",    takes |-> {"com"}],
    [name |-> "OpenProcess",       takes |-> {"proc"}],
    [name |-> "CreateEventW",      takes |-> {"handler", "blob", "propvariant"}],
    [name |-> "Activate",          takes |-> {"operation"}],
    [name |-> "Wait",              takes |-> {}],
    [name |-> "GetActivateResult", takes |-> {"client"}],
    [name |-> "Initialize",        takes |-> {}],
    [name |-> "CreateBufferEvent", takes |-> {"buffer_event"}],
    [name |-> "SetEventHandle",    takes |-> {"signals"}],
    [name |-> "GetService",        takes |-> {"capture"}],
    [name |-> "StoreFormat",       takes |-> {}],
    [name |-> "Start",             takes |-> {"started"}],
    [name |-> "Announce",          takes |-> {}] >>

\* The reverse of the order in which the locals are declared, then Cleanup's body.
\* mutant: COM is given back before the client
ComFirst == << {"capture"}, {"operation"}, {"propvariant"}, {"blob"}, {"handler"},
    {"started"}, {"com"}, {"client", "signals"}, {"buffer_event"}, {"proc"} >>
Unwinding == << {"capture"}, {"operation"}, {"propvariant"}, {"blob"}, {"handler"},
    {"started"}, {"client", "signals"}, {"buffer_event"}, {"proc"}, {"com"} >>

\* The worker's call at pc succeeds.
Succeeds(i) ==
    /\ pc = Calls[i].name
    /\ held' = held \cup Calls[i].takes
    /\ pc' = Calls[i + 1].name

Fails == failed' = TRUE /\ pc' = "unwind"

\* The calls that only acquire; those below do more.
Call ==
    /\ pc \notin {"CreateEventW", "Activate", "Wait", "StoreFormat"}
    /\ \E i \in 1..Len(Calls) - 1 : Succeeds(i)
    /\ UNCHANGED <<failed, shared, engine, event, packets>>

CallFails ==
    /\ \E i \in DOMAIN Calls : pc = Calls[i].name
    /\ pc \notin {"Wait", "StoreFormat", "Announce"}
    /\ Fails
    /\ UNCHANGED <<held, shared, engine, event, packets>>

CreateEventW ==
    /\ Succeeds(3) /\ event' = "open"
    /\ UNCHANGED <<failed, shared, engine, packets>>

\* ActivateAudioInterfaceAsync takes a reference to the handler with it.
Activate ==
    /\ Succeeds(4) /\ engine' = "pending"
    /\ UNCHANGED <<failed, shared, event, packets>>

\* The wait for the activation: its event, or the end of the five seconds.  The
\* stop flag is not looked at.
Activated ==
    /\ Succeeds(5) /\ engine # "pending"
    /\ UNCHANGED <<failed, shared, engine, event, packets>>

ActivationTimesOut ==
    /\ pc = "Wait"
    /\ Fails
    /\ UNCHANGED <<held, shared, engine, event, packets>>

StoreFormat ==
    /\ Succeeds(11) /\ fmt' = TRUE
    /\ UNCHANGED <<failed, phase, error, exited, stop, pushing, engine, event, packets>>

Announce ==
    /\ pc = "Announce" /\ pc' = "loop"
    /\ phase' = "running"
    /\ UNCHANGED <<held, failed, error, exited, fmt, stop, pushing, engine, event, packets>>

-----------------------------------------------------------------------------
\* The packet loop: the stop flag, the buffer event, the target.
LoopEnds ==
    /\ pc = "loop" /\ stop
    /\ pc' = "unwind"
    /\ UNCHANGED <<held, failed, shared, engine, event, packets>>

LoopWaits ==
    /\ pc = "loop" /\ ~stop
    /\ pc' \in {"drain", "target"}
    /\ UNCHANGED <<held, failed, shared, engine, event, packets>>

LoopFails ==
    /\ pc \in {"loop", "drain"} /\ ~(pc = "loop" /\ stop)
    /\ Fails
    /\ UNCHANGED <<held, shared, engine, event, packets>>

\* drain_packets: one packet after the other, without a look at the stop flag.
\* A packet of no frames is only released.
GetBuffer ==
    /\ pc = "drain" /\ packets < MaxPackets
    /\ packets' = packets + 1
    /\ held' = held \cup {"packet"}
    /\ pushing' \in BOOLEAN
    /\ pc' = "ReleaseBuffer"
    /\ UNCHANGED <<failed, phase, error, exited, fmt, stop, engine, event>>

ReleaseBuffer ==
    /\ pc = "ReleaseBuffer"
    /\ held' = held \ {"packet"} /\ pushing' = FALSE
    /\ \/ pc' = "drain" /\ UNCHANGED failed
       \/ Fails
    /\ UNCHANGED <<phase, error, exited, fmt, stop, engine, event, packets>>

Drained ==
    /\ pc = "drain"
    /\ pc' = "target"
    /\ UNCHANGED <<held, failed, shared, engine, event, packets>>

TargetExited ==
    /\ pc = "target"
    /\ exited' = TRUE /\ pc' = "unwind"
    /\ UNCHANGED <<held, failed, phase, error, fmt, stop, pushing, engine, event, packets>>

TargetRuns ==
    /\ pc = "target"
    /\ pc' = "loop"
    /\ UNCHANGED <<held, failed, shared, engine, event, packets>>

-----------------------------------------------------------------------------
\* What goes next: the first of Unwinding the worker holds any of.
Leaving == {k \in DOMAIN Unwinding : Unwinding[k] \cap held # {}}
NextOut == Unwinding[CHOOSE k \in Leaving : \A j \in Leaving : k <= j]

\* mutant: the worker's own drop closes the event
CloseEagerly(dropped) == IF "handler" \in dropped THEN "closed" ELSE event

\* ActivationHandler::drop runs with the last reference, the worker's or the engine's.
AfterDrop(dropped) ==
    IF "handler" \in dropped /\ engine \in {"none", "released"} THEN "closed" ELSE event

Release ==
    /\ pc = "unwind" /\ Leaving # {}
    /\ held' = held \ NextOut /\ event' = AfterDrop(NextOut)
    /\ UNCHANGED <<pc, failed, shared, engine, packets>>

\* run_capture has returned: its error, and after it the phase.
Return ==
    /\ pc = "unwind" /\ Leaving = {}
    /\ error' = failed
    /\ pc' = "finish"
    /\ UNCHANGED <<held, failed, phase, exited, fmt, stop, pushing, engine, event, packets>>

Finish ==
    /\ pc = "finish"
    /\ pc' = "gone"
    /\ phase' = "finished"
    /\ UNCHANGED <<held, failed, error, exited, fmt, stop, pushing, engine, event, packets>>

-----------------------------------------------------------------------------
\* The engine's thread calls ActivateCompleted, and later drops the handler.
ActivateCompleted ==
    /\ engine = "pending"
    /\ engine' = "completed"
    /\ UNCHANGED <<pc, held, failed, shared, event, packets>>

EngineReleases ==
    /\ engine = "completed"
    /\ engine' = "released"
    /\ event' = IF "handler" \in held THEN event ELSE "closed"
    /\ UNCHANGED <<pc, held, failed, shared, packets>>

RequestStop ==
    /\ stop' = TRUE
    /\ UNCHANGED <<pc, held, failed, phase, error, exited, fmt, pushing, engine, event, packets>>

Worker ==
    \/ Call \/ CallFails \/ CreateEventW \/ Activate \/ Activated \/ ActivationTimesOut
    \/ StoreFormat \/ Announce
    \/ LoopEnds \/ LoopWaits \/ LoopFails \/ GetBuffer \/ ReleaseBuffer \/ Drained
    \/ TargetExited \/ TargetRuns
    \/ Release \/ Return \/ Finish

Next == Worker \/ ActivateCompleted \/ EngineReleases \/ RequestStop

\* Every call of the worker returns.
Spec == Init /\ [][Next]_vars /\ WF_vars(Worker)

-----------------------------------------------------------------------------
\* What has to be there for as long as something else is held.
Needs(r) ==
    CASE r \in {"operation", "client"} -> {"com"}
      [] r = "propvariant" -> {"blob"}
      [] r \in {"capture", "started"} -> {"client", "com"}
      [] r = "signals" -> {"buffer_event"}
      [] r = "packet" -> {"capture"}
      [] OTHER -> {}

\* Nothing is released before what depends on it: the client while COM is up, the
\* buffer event after the client that signals it, the PROPVARIANT before the
\* struct it points at (backend_windows.rs:65-68, 196-204, 208-210).
HeldInOrder == \A r \in held : Needs(r) \subseteq held

\* ActivateCompleted finds its event open, also when the worker has given up
\* waiting and is gone (backend_windows.rs:148-150).
CallbackFindsItsState == engine \in {"pending", "completed"} => event = "open"

\* Whoever sees PHASE_FINISHED finds everything released, whichever call failed;
\* the event goes with the engine's reference if that is the last.
ReleasedWhenFinished ==
    phase = "finished" => held = {} /\ (engine \in {"none", "released"} => event # "open")
=============================================================================
