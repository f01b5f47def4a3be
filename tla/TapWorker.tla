------------------------------ MODULE TapWorker ------------------------------
(***************************************************************************)
(* backend_macos.rs: one capture's worker thread, the process tap it sets  *)
(* up and takes down by hand (nothing here has a Drop), and the CoreAudio  *)
(* thread that calls io_proc with a raw pointer to the capture's MacState. *)
(***************************************************************************)
EXTENDS Naturals, Sequences

VARIABLES
    pc,        \* the call the worker makes next
    held,      \* what it has created and not yet released
    failed,    \* run's result is an error
    phase, error, exited, fmt, stop, pushing,   \* see WorkerContract
    hal        \* CoreAudio's thread: "out" of io_proc, "in" it, or in its "push"

vars == <<pc, held, failed, phase, error, exited, fmt, stop, pushing, hal>>

shared == <<phase, error, exited, fmt, stop, pushing>>

Init ==
    /\ pc = "resolve" /\ held = {} /\ failed = FALSE
    /\ phase = "starting" /\ error = FALSE /\ exited = FALSE /\ fmt = FALSE
    /\ stop = FALSE /\ pushing = FALSE
    /\ hal = "out"

\* The calls of run up to its loop: what each one creates, and what is released
\* right after it, whether it succeeded or not.  "array" also stands for
\* SetProcessIDs and the array's release; "state" is MacState, made before "proc".
Calls == <<
    [name |-> "resolve", takes |-> {},                gives |-> {}],
    [name |-> "desc",    takes |-> {"desc"},          gives |-> {}],
    [name |-> "number",  takes |-> {"number"},        gives |-> {}],
    [name |-> "array",   takes |-> {},                gives |-> {"number"}],
    [name |-> "tap",     takes |-> {"tap"},           gives |-> {"desc"}],
    [name |-> "format",  takes |-> {},                gives |-> {}],
    [name |-> "proc",    takes |-> {"state", "proc"}, gives |-> {}],
    [name |-> "start",   takes |-> {"running"},       gives |-> {}],
    [name |-> "describe", takes |-> {},               gives |-> {}] >>

Call ==
    /\ \E i \in 1..Len(Calls) - 1 :
           /\ pc = Calls[i].name
           /\ held' = (held \cup Calls[i].takes) \ Calls[i].gives
           /\ pc' = Calls[i + 1].name
    /\ UNCHANGED <<failed, shared, hal>>

\* A tap whose format cannot be read, or is not Float32, fails at "format"; a
\* description whose number or array cannot be made is never released.
CallFails ==
    /\ \E i \in 1..Len(Calls) - 1 :
           /\ pc = Calls[i].name
           /\ held' = (held \cup (Calls[i].takes \cap {"state"})) \ Calls[i].gives
    /\ failed' = TRUE /\ pc' = "unwind"
    /\ UNCHANGED <<shared, hal>>

Describe ==
    /\ pc = "describe" /\ pc' = "announce"
    /\ fmt' = TRUE
    /\ UNCHANGED <<held, failed, phase, error, exited, stop, pushing, hal>>

Announce ==
    /\ pc = "announce" /\ pc' = "loop"
    /\ phase' = "running"
    /\ UNCHANGED <<held, failed, error, exited, fmt, stop, pushing, hal>>

LoopEnds ==
    /\ pc = "loop" /\ stop
    /\ pc' = "unwind"
    /\ UNCHANGED <<held, failed, shared, hal>>

-----------------------------------------------------------------------------
\* The order in which run takes down what it set up, on every path that gets
\* this far.
Unwinding == <<"running", "proc", "state", "tap">>

Leaving == {k \in DOMAIN Unwinding : Unwinding[k] \in held}
NextOut == Unwinding[CHOOSE k \in Leaving : \A j \in Leaving : k <= j]

\* AudioDeviceStop does not wait for io_proc; destroying the IOProc does.
Release ==
    /\ pc = "unwind" /\ Leaving # {}
    /\ NextOut = "proc" => hal = "out"
    /\ held' = held \ {NextOut}
    /\ UNCHANGED <<pc, failed, shared, hal>>

\* mutant: an error path that releases nothing
ReturnAtOnce ==
    /\ pc = "unwind" /\ (Leaving = {} \/ failed)
    /\ error' = failed
    /\ pc' = "finish"
    /\ UNCHANGED <<held, failed, phase, exited, fmt, stop, pushing, hal>>

Return ==
    /\ pc = "unwind" /\ Leaving = {}
    /\ error' = failed
    /\ pc' = "finish"
    /\ UNCHANGED <<held, failed, phase, exited, fmt, stop, pushing, hal>>

Finish ==
    /\ pc = "finish"
    /\ pc' = "gone"
    /\ phase' = "finished"
    /\ UNCHANGED <<held, failed, error, exited, fmt, stop, pushing, hal>>

-----------------------------------------------------------------------------
\* CoreAudio calls io_proc while the device runs.
IoProcEnters ==
    /\ "running" \in held /\ hal = "out"
    /\ hal' = "in"
    /\ UNCHANGED <<pc, held, failed, shared>>

IoProcPushes ==
    /\ hal = "in" /\ ~stop
    /\ hal' = "push" /\ pushing' = TRUE
    /\ UNCHANGED <<pc, held, failed, phase, error, exited, fmt, stop>>

\* After its push, or at once: the capture was stopped, or there is no data.
IoProcReturns ==
    /\ hal \in {"in", "push"}
    /\ hal' = "out" /\ pushing' = FALSE
    /\ UNCHANGED <<pc, held, failed, phase, error, exited, fmt, stop>>

RequestStop ==
    /\ stop' = TRUE
    /\ UNCHANGED <<pc, held, failed, phase, error, exited, fmt, pushing, hal>>

Worker == Call \/ CallFails \/ Describe \/ Announce \/ LoopEnds \/ Release \/ Return \/ Finish

Next == Worker \/ IoProcEnters \/ IoProcPushes \/ IoProcReturns \/ RequestStop

\* Every call of the worker returns, and so does io_proc.
Spec == Init /\ [][Next]_vars /\ WF_vars(Worker) /\ WF_vars(IoProcReturns)

-----------------------------------------------------------------------------
Needs(r) ==
    CASE r = "running" -> {"proc"}
      [] r = "proc" -> {"tap"}
      [] OTHER -> {}

\* Nothing is released before what depends on it: the IOProc while the device runs,
\* the tap while the IOProc is installed (backend_macos.rs:488-493).
HeldInOrder == \A r \in held : Needs(r) \subseteq held

\* io_proc, which may still be under way when the device has been stopped, finds
\* its MacState alive (backend_macos.rs:214-216).
CallbackFindsItsState == hal # "out" => "state" \in held

\* Whoever sees PHASE_FINISHED finds everything released and io_proc left for good,
\* whichever call failed, with one exception: run forgets the description of a tap
\* whose number or array could not be made (backend_macos.rs:359-368).
ForgetsDescription == failed /\ held = {"desc"}
ReleasedWhenFinished == phase = "finished" => hal = "out" /\ (held = {} \/ ForgetsDescription)
=============================================================================
