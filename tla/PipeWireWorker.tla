--------------------------- MODULE PipeWireWorker ---------------------------
(***************************************************************************)
(* backend_linux.rs: one capture's worker thread.  It lists the daemon's   *)
(* globals until one is the target's output stream, links a stream to it,  *)
(* and then turns the main loop, whose callbacks tell it the format and    *)
(* hand it audio, all on this one thread.                                  *)
(***************************************************************************)
EXTENDS Naturals, Sequences

CONSTANTS
    Clients,    \* ids of the daemon's client globals
    MaxNodes    \* bound: output streams the daemon announces

VARIABLES
    pc,          \* the call the worker makes next
    held,        \* the PipeWire objects it holds
    failed,      \* run's result is an error
    phase, error, exited, fmt, stop, pushing,   \* see WorkerContract
    clients,     \* the clients seen: TRUE for those whose sec.pid is the target's
    nodes,       \* the output streams seen, in the order they were announced
    target,      \* the position of the one picked, 0 for none
    late,        \* the listing's two seconds are over
    negotiated,  \* a format pod was parsed (rate_arc is not 0)
    quit         \* the process callback has seen the stop flag

listed == <<clients, nodes, target, late>>
vars == <<pc, held, failed, phase, error, exited, fmt, stop, pushing, listed, negotiated, quit>>

shared == <<phase, error, exited, fmt, stop, pushing>>

\* What a node says of its owner: its client, whether application.process.id is
\* the target's, whether its binary or name is.
NoClient == "no client"
NodeRecs == [client : Clients \cup {NoClient}, pid : BOOLEAN, name : BOOLEAN]

Init ==
    /\ pc = "main_loop" /\ held = {} /\ failed = FALSE
    /\ phase = "starting" /\ error = FALSE /\ exited = FALSE /\ fmt = FALSE
    /\ stop = FALSE /\ pushing = FALSE
    /\ clients = << >> /\ nodes = << >> /\ target = 0 /\ late = FALSE
    /\ negotiated = FALSE /\ quit = FALSE

\* The calls of run outside its two loops, and what each one acquires: the
\* daemon's objects before the listing, the stream's after it.
DaemonCalls ==
    {[name |-> "main_loop", takes |-> {"main_loop"},                     next |-> "context"],
     [name |-> "context",   takes |-> {"context"},                       next |-> "core"],
     [name |-> "core",      takes |-> {"core"},                          next |-> "registry"],
     [name |-> "registry",  takes |-> {"registry", "registry_listener"}, next |-> "check"]}

StreamCalls ==
    {[name |-> "stream",    takes |-> {"stream"},                        next |-> "listener"],
     [name |-> "listener",  takes |-> {"listener"},                      next |-> "formats"]}

LinkCall == [name |-> "connect", takes |-> {"link"}, next |-> "loop"]

Calls == DaemonCalls \cup StreamCalls \cup {LinkCall}

Call ==
    /\ \E c \in Calls : pc = c.name /\ held' = held \cup c.takes /\ pc' = c.next
    /\ UNCHANGED <<failed, shared, listed, negotiated, quit>>

Fails == failed' = TRUE /\ pc' = "unwind"

CallFails ==
    /\ \E c \in Calls : pc = c.name
    /\ Fails
    /\ UNCHANGED <<held, shared, listed, negotiated, quit>>

-----------------------------------------------------------------------------
\* The listing: two seconds of turns of the loop, after each of which all that was
\* announced so far is looked through.  The clock is read before a turn only.
ListOn ==
    /\ pc = "check" /\ ~late
    /\ pc' = "iterate"
    /\ UNCHANGED <<held, failed, shared, listed, negotiated, quit>>

\* The registry's callback, for a client and for an output stream, in any order
\* and any number per turn of the loop.
ClientAppears ==
    /\ pc = "iterate"
    /\ \E c \in Clients, targets \in BOOLEAN :
           clients' = [d \in DOMAIN clients \cup {c} |-> IF d = c THEN targets ELSE clients[d]]
    /\ UNCHANGED <<pc, held, failed, shared, nodes, target, late, negotiated, quit>>

NodeAppears ==
    /\ pc = "iterate" /\ Len(nodes) < MaxNodes
    /\ \E n \in NodeRecs : nodes' = Append(nodes, n)
    /\ UNCHANGED <<pc, held, failed, shared, clients, target, late, negotiated, quit>>

Iterated ==
    /\ pc = "iterate" /\ pc' = "pick"
    /\ UNCHANGED <<held, failed, shared, listed, negotiated, quit>>

\* How a node can be the target's, the most trustworthy first.
BySec(n) == n.client \in DOMAIN clients /\ clients[n.client]
ByPid(n) == n.pid
ByName(n) == n.name

Matching == {i \in DOMAIN nodes : BySec(nodes[i]) \/ ByPid(nodes[i]) \/ ByName(nodes[i])}

Pick ==
    /\ pc = "pick" /\ Matching # {}
    /\ target' = CHOOSE i \in Matching : \A j \in Matching : i <= j
    /\ pc' = "stream"
    /\ UNCHANGED <<held, failed, shared, clients, nodes, late, negotiated, quit>>

LookInVain ==
    /\ pc = "pick" /\ Matching = {}
    /\ pc' = "check"
    /\ UNCHANGED <<held, failed, shared, listed, negotiated, quit>>

DeadlinePasses ==
    /\ pc \in {"check", "iterate", "pick"} /\ ~late
    /\ late' = TRUE
    /\ UNCHANGED <<pc, held, failed, shared, clients, nodes, target, negotiated, quit>>

\* mutant: the clock is read after a turn, before a look at what it has brought
GiveUpEarly ==
    /\ pc = "pick" /\ late
    /\ Fails
    /\ UNCHANGED <<held, shared, listed, negotiated, quit>>

GiveUp ==
    /\ pc = "check" /\ late
    /\ Fails
    /\ UNCHANGED <<held, shared, listed, negotiated, quit>>

\* The node's own formats, or the candidates when it does not name any in time:
\* either way the stream is offered some.
ListFormats ==
    /\ pc = "formats" /\ pc' = "connect"
    /\ UNCHANGED <<held, failed, shared, listed, negotiated, quit>>

-----------------------------------------------------------------------------
\* The loop, between two turns.
\* mutant: the flag is left to the process callback
LeavesOnQuit == quit
Leaves == stop \/ quit

LoopEnds ==
    /\ pc = "loop" /\ Leaves
    /\ pc' = "unwind"
    /\ UNCHANGED <<held, failed, shared, listed, negotiated, quit>>

LoopTurns ==
    /\ pc = "loop" /\ ~Leaves
    /\ pc' = "callbacks"
    /\ UNCHANGED <<held, failed, shared, listed, negotiated, quit>>

\* param_changed with a pod parse_format_pod accepts; any other changes nothing.
ParamChanged ==
    /\ pc = "callbacks"
    /\ negotiated' = TRUE
    /\ UNCHANGED <<pc, held, failed, shared, listed, quit>>

\* The process callback, at most once a turn: stopped, or nothing it could use,
\* or audio for the ring.
ProcessStopped ==
    /\ pc = "callbacks" /\ stop
    /\ quit' = TRUE /\ pc' = "turned"
    /\ UNCHANGED <<held, failed, shared, listed, negotiated>>

ProcessPushes ==
    /\ pc = "callbacks" /\ ~stop /\ negotiated
    /\ pushing' = TRUE /\ pc' = "push"
    /\ UNCHANGED <<held, failed, phase, error, exited, fmt, stop, listed, negotiated, quit>>

PushEnds ==
    /\ pc = "push"
    /\ pushing' = FALSE /\ pc' = "turned"
    /\ UNCHANGED <<held, failed, phase, error, exited, fmt, stop, listed, negotiated, quit>>

ProcessIdle ==
    /\ pc = "callbacks"
    /\ pc' = "turned"
    /\ UNCHANGED <<held, failed, shared, listed, negotiated, quit>>

\* mutant: announced before there is a format
AnnounceAtOnce ==
    /\ pc = "turned" /\ phase = "starting"
    /\ phase' = "running" /\ pc' = "loop"
    /\ UNCHANGED <<held, failed, error, exited, fmt, stop, pushing, listed, negotiated, quit>>

\* Once, after the turn that brought the first format: its rate, then the phase.
StoreFormat ==
    /\ pc = "turned" /\ phase = "starting" /\ negotiated
    /\ fmt' = TRUE /\ pc' = "announce"
    /\ UNCHANGED <<held, failed, phase, error, exited, stop, pushing, listed, negotiated, quit>>

Announce ==
    /\ pc = "announce"
    /\ phase' = "running" /\ pc' = "loop"
    /\ UNCHANGED <<held, failed, error, exited, fmt, stop, pushing, listed, negotiated, quit>>

NothingToAnnounce ==
    /\ pc = "turned" /\ (phase = "running" \/ ~negotiated)
    /\ pc' = "loop"
    /\ UNCHANGED <<held, failed, shared, listed, negotiated, quit>>

-----------------------------------------------------------------------------
\* run's own drops and then its locals; after an error the locals alone.
Unwinding ==
    IF failed
    THEN <<"link", "listener", "stream", "registry_listener", "registry", "core", "context", "main_loop">>
    ELSE <<"link", "listener", "stream", "core", "registry_listener", "registry", "context", "main_loop">>

Leaving == {k \in DOMAIN Unwinding : Unwinding[k] \in held}
NextOut == Unwinding[CHOOSE k \in Leaving : \A j \in Leaving : k <= j]

Release ==
    /\ pc = "unwind" /\ Leaving # {}
    /\ held' = held \ {NextOut}
    /\ UNCHANGED <<pc, failed, shared, listed, negotiated, quit>>

Return ==
    /\ pc = "unwind" /\ Leaving = {}
    /\ error' = failed
    /\ pc' = "finish"
    /\ UNCHANGED <<held, failed, phase, exited, fmt, stop, pushing, listed, negotiated, quit>>

Finish ==
    /\ pc = "finish"
    /\ pc' = "gone"
    /\ phase' = "finished"
    /\ UNCHANGED <<held, failed, error, exited, fmt, stop, pushing, listed, negotiated, quit>>

RequestStop ==
    /\ stop' = TRUE
    /\ UNCHANGED <<pc, held, failed, phase, error, exited, fmt, pushing, listed, negotiated, quit>>

\* What the worker's own code goes on with; what it is told is not among it.
Runs == \/ Call \/ CallFails \/ ListOn \/ Iterated \/ Pick \/ LookInVain \/ GiveUp \/ ListFormats
        \/ LoopEnds \/ LoopTurns \/ ProcessStopped \/ ProcessPushes \/ PushEnds \/ ProcessIdle
        \/ StoreFormat \/ Announce \/ NothingToAnnounce
        \/ Release \/ Return \/ Finish

Next == Runs \/ DeadlinePasses \/ ClientAppears \/ NodeAppears \/ ParamChanged \/ RequestStop

\* Every call returns, and the two seconds pass.
Spec == Init /\ [][Next]_vars /\ WF_vars(Runs) /\ WF_vars(DeadlinePasses)

-----------------------------------------------------------------------------
\* What each object depends on.  The registry is not said to need the core: run
\* drops the core itself and the registry with its locals, after it.
Needs(r) ==
    CASE r = "context" -> {"main_loop"}
      [] r \in {"core", "registry"} -> {"context"}
      [] r = "registry_listener" -> {"registry"}
      [] r = "stream" -> {"core"}
      [] r = "listener" -> {"stream"}
      [] r = "link" -> {"stream", "listener"}
      [] OTHER -> {}

\* Nothing is released before what depends on it: the stream is disconnected, and
\* its listener goes, before it (backend_linux.rs:516-519).
HeldInOrder == \A r \in held : Needs(r) \subseteq held

\* Whoever sees PHASE_FINISHED finds every object released.
ReleasedWhenFinished == phase = "finished" => held = {}

\* Why a stream can be the target's, the most trustworthy reason first
\* (backend_linux.rs:236-242).
Grounds(n) == IF BySec(n) THEN 3 ELSE IF ByPid(n) THEN 2 ELSE IF ByName(n) THEN 1 ELSE 0

\* A listing that ran out of time leaves no stream behind that is the target's on
\* any ground, whenever its two seconds end: before a turn, during it, or between
\* it and the look at what it brought (backend_linux.rs:304-321).
GivesUpInVainOnly ==
    failed /\ target = 0 /\ "registry" \in held => \A i \in DOMAIN nodes : Grounds(nodes[i]) = 0

\* backend_linux.rs:236, "most trustworthy first": no other stream seen by then is
\* the target's on better grounds than the one picked.
MostTrustworthyFirst ==
    target # 0 => \A i \in DOMAIN nodes : Grounds(nodes[i]) <= Grounds(nodes[target])
=============================================================================
