--------------------------- MODULE WorkerContract ---------------------------
(***************************************************************************)
(* capture.rs, the "threading contract": what lib.rs may rely on of a      *)
(* capture worker, on whichever platform.  It shows in WorkerShared, takes *)
(* the stop flag, and pushes into the ring; nothing is said here of how.   *)
(***************************************************************************)

VARIABLES
    phase,     \* WorkerShared::phase
    error,     \* WorkerShared::error is not empty
    exited,    \* WorkerShared::target_exited
    fmt,       \* WorkerShared::rate and channels are stored
    stop,      \* the capture's stop flag
    pushing    \* samples of this capture are being put into the ring

shared == <<phase, error, exited, fmt, stop, pushing>>

Init ==
    /\ phase = "starting"
    /\ error = FALSE /\ exited = FALSE /\ fmt = FALSE
    /\ stop = FALSE /\ pushing = FALSE

\* request_stop, at any time.
Stop ==
    /\ stop' = TRUE
    /\ UNCHANGED <<phase, error, exited, fmt, pushing>>

StoreFormat ==
    /\ phase = "starting"
    /\ fmt' = TRUE
    /\ UNCHANGED <<phase, error, exited, stop, pushing>>

\* Only with a format to show, and nothing has gone wrong so far.
Announce ==
    /\ phase = "starting" /\ fmt /\ ~error
    /\ phase' = "running"
    /\ UNCHANGED <<error, exited, fmt, stop, pushing>>

NoteExit ==
    /\ phase = "running" /\ ~error
    /\ exited' = TRUE
    /\ UNCHANGED <<phase, error, fmt, stop, pushing>>

\* Samples enter the ring before the worker has finished, and not once it has
\* given its reason for failing.
Push ==
    /\ phase # "finished" /\ ~error
    /\ pushing' = ~pushing
    /\ UNCHANGED <<phase, error, exited, fmt, stop>>

Fail ==
    /\ phase # "finished" /\ ~pushing /\ ~exited
    /\ error' = TRUE
    /\ UNCHANGED <<phase, exited, fmt, stop, pushing>>

\* The last thing a worker does, and never without a cause.
Finish ==
    /\ phase # "finished" /\ ~pushing
    /\ stop \/ exited \/ error
    /\ phase' = "finished"
    /\ UNCHANGED <<error, exited, fmt, stop, pushing>>

Next == Stop \/ StoreFormat \/ Announce \/ NoteExit \/ Push \/ Fail \/ Finish

Spec == Init /\ [][Next]_shared

-----------------------------------------------------------------------------
\* What follows for lib.rs: a finished worker pushes nothing and had a cause, which
\* is the target's exit or an error but not both; a running one has its format.
Promise ==
    /\ phase = "finished" => ~pushing /\ (stop \/ exited \/ error)
    /\ ~(exited /\ error)
    /\ phase = "running" => fmt
=============================================================================
