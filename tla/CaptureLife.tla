---------------------------- MODULE CaptureLife ----------------------------
(***************************************************************************)
(* What the session promises of captures, for as long as the plugin is in  *)
(* use: they follow on each other, each has a thread that is asked to stop *)
(* or ends by itself before it is let go of, and the user is told that it  *)
(* runs, at most once, and then of one ending.  Handlers, timers, phases   *)
(* and what a worker shows are not part of it.                             *)
(***************************************************************************)
EXTENDS Naturals

CONSTANTS
    Captures,   \* what captures are called, all different from 0
    MayHang     \* those whose thread may not come back in time for an unload

VARIABLES
    held,       \* the capture there is, 0 for none
    life,       \* each capture's thread: "none", "up", "stopping" or "over"
    told,       \* what the user has been told of each capture
    insisting   \* the user wants the next capture, or the host to unload, at once

life_vars == <<held, life, told, insisting>>

Failed  == {"failed", "interrupted", "timeout", "exited"}
Endings == Failed \cup {"stopped"}

Init ==
    /\ held = 0 /\ insisting = FALSE
    /\ life = [w \in Captures |-> "none"]
    /\ told = [w \in Captures |-> {}]

Becomes(w, to) == life' = [life EXCEPT ![w] = to]
Tell(what) == told' = [told EXCEPT ![held] = @ \cup {what}]

\* No capture begins beside another's thread, except beside one that did not come
\* back in time and will end because it was asked to.
Begin(w) ==
    /\ held = 0 /\ life[w] = "none"
    /\ \A v \in Captures :
           life[v] \in {"none", "over"} \/ (v \in MayHang /\ life[v] = "stopping")
    /\ held' = w /\ Becomes(w, "up")
    /\ UNCHANGED <<told, insisting>>

\* The capture there is runs, and nobody has asked it to stop.
TellRunning ==
    /\ held # 0 /\ life[held] # "stopping" /\ told[held] = {}
    /\ Tell("running")
    /\ UNCHANGED <<held, life, insisting>>

AskToStop ==
    /\ held # 0 /\ life[held] = "up"
    /\ Becomes(held, "stopping")
    /\ UNCHANGED <<held, told, insisting>>

TellStopped ==
    /\ held # 0 /\ life[held] # "up" /\ told[held] \subseteq {"running"}
    /\ Tell("stopped")
    /\ UNCHANGED <<held, life, insisting>>

\* A thread ends: asked to, or by itself, and then it is the capture's there is.
End(w) ==
    /\ life[w] = "stopping" \/ (life[w] = "up" /\ w = held)
    /\ Becomes(w, "over")
    /\ UNCHANGED <<held, told, insisting>>

\* A capture is concluded once its thread is over, and not without an ending told:
\* the user's stop, told before, or the failure, told now.
Conclude ==
    /\ held # 0 /\ life[held] = "over"
    /\ \/ told[held] \cap Endings # {} /\ UNCHANGED told
       \/ told[held] \subseteq {"running"} /\ \E what \in Failed : Tell(what)
    /\ held' = 0
    /\ UNCHANGED <<life, insisting>>

Insist == insisting' = ~insisting /\ UNCHANGED <<held, life, told>>

\* Only who insists cuts a report short, and only an unload leaves a thread behind.
Discard ==
    /\ insisting /\ insisting' = FALSE
    /\ held # 0
    /\ life[held] = "over" \/ (held \in MayHang /\ life[held] = "stopping")
    /\ held' = 0
    /\ UNCHANGED <<life, told>>

Next ==
    \/ TellRunning \/ AskToStop \/ TellStopped \/ Conclude \/ Insist \/ Discard
    \/ \E w \in Captures : Begin(w) \/ End(w)

Spec == Init /\ [][Next]_life_vars
=============================================================================
