---------------------------- MODULE WasapiProofs ----------------------------
(***************************************************************************)
(* What is proved about WasapiWorker, for every number of packets: it      *)
(* releases in order and completely, a completion that comes late finds    *)
(* its event open, and it implements WorkerContract.                       *)
(***************************************************************************)
EXTENDS WasapiWorker, TLAPS

Contract == INSTANCE WorkerContract

-----------------------------------------------------------------------------
\* What is held once a call has succeeded.
Opened    == {"com", "proc"}
Prepared  == Opened \cup {"handler", "blob", "propvariant"}
Activating == Prepared \cup {"operation"}
Connected == Activating \cup {"client"}
Signalled == Connected \cup {"buffer_event", "signals"}
Serving   == Signalled \cup {"capture"}
Streaming == Serving \cup {"started"}

\* What is held at each point.
Holding ==
    /\ pc \in {"CoInitializeEx", "finish", "gone"} => held = {}
    /\ pc = "OpenProcess" => held = {"com"}
    /\ pc = "CreateEventW" => held = Opened
    /\ pc = "Activate" => held = Prepared
    /\ pc \in {"Wait", "GetActivateResult"} => held = Activating
    /\ pc \in {"Initialize", "CreateBufferEvent"} => held = Connected
    /\ pc = "SetEventHandle" => held = Connected \cup {"buffer_event"}
    /\ pc = "GetService" => held = Signalled
    /\ pc \in {"StoreFormat", "Start"} => held = Serving
    /\ pc \in {"Announce", "loop", "drain", "target"} => held = Streaming
    /\ pc = "ReleaseBuffer" => held = Streaming \cup {"packet"}
    /\ pc = "unwind" => held \subseteq Streaming

\* HeldInOrder, rule by rule.
Ordered ==
    /\ "operation" \in held => "com" \in held
    /\ "client" \in held => "com" \in held
    /\ "propvariant" \in held => "blob" \in held
    /\ "capture" \in held => "client" \in held
    /\ "started" \in held => "client" \in held
    /\ "signals" \in held => "buffer_event" \in held
    /\ "packet" \in held => "capture" \in held

Points == {"CoInitializeEx", "OpenProcess", "CreateEventW", "Activate", "Wait",
           "GetActivateResult", "Initialize", "CreateBufferEvent", "SetEventHandle",
           "GetService", "StoreFormat", "Start", "Announce", "loop", "drain", "target",
           "ReleaseBuffer", "unwind", "finish", "gone"}
Last == {"unwind", "finish", "gone"}
Types ==
    /\ pc \in Points
    /\ engine \in {"none", "pending", "completed", "released"}
    /\ failed \in BOOLEAN /\ stop \in BOOLEAN /\ error \in BOOLEAN /\ exited \in BOOLEAN
    /\ fmt \in BOOLEAN /\ pushing \in BOOLEAN
    /\ phase \in {"starting", "running", "finished"}

\* The event is open exactly while somebody has a reference to the handler.
EventOpen ==
    /\ event = "open" <=> ("handler" \in held \/ engine \in {"pending", "completed"})
    /\ pc \in {"CoInitializeEx", "OpenProcess", "CreateEventW", "Activate"} => engine = "none"

Published ==
    /\ pc \notin Last => ~failed /\ ~exited
    /\ failed => ~exited
    /\ error = (failed /\ pc \in {"finish", "gone"})
    /\ pc \notin Last \cup {"loop", "drain", "target", "ReleaseBuffer"} => phase = "starting"
    /\ pc \in {"loop", "drain", "target", "ReleaseBuffer"} => phase = "running"
    /\ pc \in {"unwind", "finish"} => phase \in {"starting", "running"} /\ (failed \/ stop \/ exited)
    /\ pc \in {"unwind", "finish"} /\ phase = "starting" => ~exited
    /\ pc = "gone" => phase = "finished"
    /\ pc \in {"Start", "Announce"} => fmt
    /\ phase = "running" => fmt
    /\ pushing => pc = "ReleaseBuffer"

WasapiInv == Types /\ Holding /\ Ordered /\ EventOpen /\ Published

-----------------------------------------------------------------------------
\* The table of calls, row by row.
LEMMA Table ==
    /\ DOMAIN Calls = 1..13 /\ Len(Calls) = 13
    /\ Calls[1] = [name |-> "CoInitializeEx", takes |-> {"com"}]
    /\ Calls[2] = [name |-> "OpenProcess", takes |-> {"proc"}]
    /\ Calls[3] = [name |-> "CreateEventW", takes |-> {"handler", "blob", "propvariant"}]
    /\ Calls[4] = [name |-> "Activate", takes |-> {"operation"}]
    /\ Calls[5] = [name |-> "Wait", takes |-> {}]
    /\ Calls[6] = [name |-> "GetActivateResult", takes |-> {"client"}]
    /\ Calls[7] = [name |-> "Initialize", takes |-> {}]
    /\ Calls[8] = [name |-> "CreateBufferEvent", takes |-> {"buffer_event"}]
    /\ Calls[9] = [name |-> "SetEventHandle", takes |-> {"signals"}]
    /\ Calls[10] = [name |-> "GetService", takes |-> {"capture"}]
    /\ Calls[11] = [name |-> "StoreFormat", takes |-> {}]
    /\ Calls[12] = [name |-> "Start", takes |-> {"started"}]
    /\ Calls[13] = [name |-> "Announce", takes |-> {}]
BY DEF Calls

\* What a call that only acquires does.
Acquires(at, takes, then) == pc = at /\ held' = held \cup takes /\ pc' = then

LEMMA CallCases ==
    ASSUME Call
    PROVE  \/ Acquires("CoInitializeEx", {"com"}, "OpenProcess")
           \/ Acquires("OpenProcess", {"proc"}, "CreateEventW")
           \/ Acquires("GetActivateResult", {"client"}, "Initialize")
           \/ Acquires("Initialize", {}, "CreateBufferEvent")
           \/ Acquires("CreateBufferEvent", {"buffer_event"}, "SetEventHandle")
           \/ Acquires("SetEventHandle", {"signals"}, "GetService")
           \/ Acquires("GetService", {"capture"}, "StoreFormat")
           \/ Acquires("Start", {"started"}, "Announce")
<1>1. PICK i \in 1..12 : Succeeds(i) BY Table DEF Call
<1>2. i \in {1, 2, 3, 4, 5, 6, 7, 8, 9, 10, 11, 12} OBVIOUS
<1>3. pc \notin {"CreateEventW", "Activate", "Wait", "StoreFormat"} BY DEF Call
<1>4. QED BY <1>1, <1>2, <1>3, Table DEF Succeeds, Acquires

LEMMA OtherCalls ==
    /\ CreateEventW => Acquires("CreateEventW", {"handler", "blob", "propvariant"}, "Activate")
    /\ Activate => Acquires("Activate", {"operation"}, "Wait")
    /\ Activated => Acquires("Wait", {}, "GetActivateResult")
    /\ StoreFormat => Acquires("StoreFormat", {}, "Start")
<1>1. CreateEventW => Acquires("CreateEventW", {"handler", "blob", "propvariant"}, "Activate")
  BY Table DEF CreateEventW, Succeeds, Acquires
<1>2. Activate => Acquires("Activate", {"operation"}, "Wait")
  BY Table DEF Activate, Succeeds, Acquires
<1>3. Activated => Acquires("Wait", {}, "GetActivateResult")
  BY Table DEF Activated, Succeeds, Acquires
<1>4. StoreFormat => Acquires("StoreFormat", {}, "Start")
  BY Table DEF StoreFormat, Succeeds, Acquires
<1>5. QED BY <1>1, <1>2, <1>3, <1>4

LEMMA CallFailsCases ==
    ASSUME CallFails
    PROVE  pc \in Points \ (Last \cup {"Wait", "StoreFormat", "Announce", "loop", "drain",
                                       "target", "ReleaseBuffer"})
<1>1. PICK i \in 1..13 : pc = Calls[i].name BY Table DEF CallFails
<1>2. i \in {1, 2, 3, 4, 5, 6, 7, 8, 9, 10, 11, 12, 13} OBVIOUS
<1>3. pc \notin {"Wait", "StoreFormat", "Announce"} BY DEF CallFails
<1>4. QED BY <1>1, <1>2, <1>3, Table DEF Points, Last

-----------------------------------------------------------------------------
LEMMA OrderTable ==
    /\ DOMAIN Unwinding = 1..10
    /\ Unwinding[1] = {"capture"} /\ Unwinding[2] = {"operation"}
    /\ Unwinding[3] = {"propvariant"} /\ Unwinding[4] = {"blob"}
    /\ Unwinding[5] = {"handler"} /\ Unwinding[6] = {"started"}
    /\ Unwinding[7] = {"client", "signals"} /\ Unwinding[8] = {"buffer_event"}
    /\ Unwinding[9] = {"proc"} /\ Unwinding[10] = {"com"}
BY DEF Unwinding

\* Whatever comes earlier in Unwinding is gone when something is released.
LEMMA ReleasesNext ==
    ASSUME Release
    PROVE  \E k \in 1..10 : /\ NextOut = Unwinding[k] /\ held' = held \ Unwinding[k]
                           /\ \A j \in 1..10 : j < k => Unwinding[j] \cap held = {}
<1>1. Leaving \subseteq 1..10 /\ Leaving # {} BY OrderTable DEF Release, Leaving
<1>2. \E k \in Leaving : \A j \in Leaving : k <= j
  <2>1. PICK k0 \in 1..10 : k0 \in Leaving BY <1>1
  <2>2. \A j \in Leaving : j \in {1, 2, 3, 4, 5, 6, 7, 8, 9, 10} BY <1>1
  <2>3. QED BY <2>1, <2>2
<1>3. PICK k \in Leaving : NextOut = Unwinding[k] /\ \A j \in Leaving : k <= j
  BY <1>2 DEF NextOut
<1>4. \A j \in 1..10 : j < k => Unwinding[j] \cap held = {}
  BY <1>1, <1>3, OrderTable DEF Leaving
<1>5. QED BY <1>1, <1>3, <1>4 DEF Release

LEMMA ReleaseCases ==
    ASSUME Release
    PROVE  \/ NextOut = {"capture"} /\ held' = held \ {"capture"}
           \/ NextOut = {"operation"} /\ held' = held \ {"operation"}
           \/ NextOut = {"propvariant"} /\ held' = held \ {"propvariant"}
           \/ NextOut = {"blob"} /\ held' = held \ {"blob"} /\ "propvariant" \notin held
           \/ NextOut = {"handler"} /\ held' = held \ {"handler"}
           \/ NextOut = {"started"} /\ held' = held \ {"started"}
           \/ /\ NextOut = {"client", "signals"} /\ held' = held \ {"client", "signals"}
              /\ "capture" \notin held /\ "started" \notin held
           \/ /\ NextOut = {"buffer_event"} /\ held' = held \ {"buffer_event"}
              /\ "signals" \notin held
           \/ NextOut = {"proc"} /\ held' = held \ {"proc"}
           \/ /\ NextOut = {"com"} /\ held' = held \ {"com"}
              /\ "operation" \notin held /\ "client" \notin held
<1>1. PICK k \in 1..10 : /\ NextOut = Unwinding[k] /\ held' = held \ Unwinding[k]
                         /\ \A j \in 1..10 : j < k => Unwinding[j] \cap held = {}
  BY ReleasesNext
<1>2. k \in {1, 2, 3, 4, 5, 6, 7, 8, 9, 10} OBVIOUS
<1>3. k = 4 => "propvariant" \notin held BY <1>1, OrderTable
<1>4. k = 7 => "capture" \notin held /\ "started" \notin held BY <1>1, OrderTable
<1>5. k = 8 => "signals" \notin held BY <1>1, OrderTable
<1>6. k = 10 => "operation" \notin held /\ "client" \notin held BY <1>1, OrderTable
<1>7. QED BY <1>1, <1>2, <1>3, <1>4, <1>5, <1>6, OrderTable

\* run_capture returns with nothing left.
LEMMA ReturnLeaves ==
    ASSUME Holding, Return
    PROVE  held = {}
<1>1. held \subseteq Streaming BY DEF Holding, Return
<1>2. \A k \in 1..10 : Unwinding[k] \cap held = {} BY OrderTable DEF Return, Leaving
<1>3. /\ "capture" \notin held /\ "operation" \notin held /\ "propvariant" \notin held
      /\ "blob" \notin held /\ "handler" \notin held /\ "started" \notin held
      /\ "client" \notin held /\ "signals" \notin held /\ "buffer_event" \notin held
      /\ "proc" \notin held /\ "com" \notin held
  BY <1>2, OrderTable
<1>4. QED
  BY <1>1, <1>3 DEF Streaming, Serving, Signalled, Connected, Activating, Prepared, Opened

-----------------------------------------------------------------------------
LEMMA WasapiInit == Init => WasapiInv
BY DEF Init, WasapiInv, Types, Points, Last, Holding, Ordered, EventOpen, Published

\* What a call acquires keeps the order.
LEMMA AcquiringKeepsOrder ==
    ASSUME Holding,
           \/ Call
           \/ CreateEventW \/ Activate \/ Activated \/ StoreFormat
    PROVE  Holding' /\ Ordered'
<1> USE DEF Acquires, Streaming, Serving, Signalled, Connected, Activating, Prepared, Opened
<1>1. CASE Call
  <2>1. Holding' BY <1>1, CallCases DEF Holding
  <2>2. Ordered' BY <1>1, CallCases DEF Holding, Ordered
  <2>3. QED BY <2>1, <2>2
<1>2. CASE CreateEventW \/ Activate \/ Activated \/ StoreFormat
  <2>1. Holding' BY <1>2, OtherCalls DEF Holding
  <2>2. Ordered' BY <1>2, OtherCalls DEF Holding, Ordered
  <2>3. QED BY <2>1, <2>2
<1>3. QED BY <1>1, <1>2

\* Every step preserves the invariant.
LEMMA WasapiStep == WasapiInv /\ [Next]_vars => WasapiInv'
<1> SUFFICES ASSUME WasapiInv, [Next]_vars PROVE WasapiInv'
  OBVIOUS
<1> USE DEF shared
<1>1. CASE Call
  <2>1. UNCHANGED <<failed, shared, engine, event>> BY <1>1 DEF Call
  <2>2. Holding' /\ Ordered' BY <1>1, AcquiringKeepsOrder DEF WasapiInv
  <2>3. Types' BY <1>1, <2>1, CallCases DEF WasapiInv, Types, Points, Acquires
  <2>4. EventOpen' BY <1>1, <2>1, CallCases DEF WasapiInv, EventOpen, Acquires
  <2>5. Published' BY <1>1, <2>1, CallCases DEF WasapiInv, Types, Published, Last, Acquires
  <2>6. QED BY <2>2, <2>3, <2>4, <2>5 DEF WasapiInv
<1>2. CASE CallFails
  <2>1. failed' = TRUE /\ pc' = "unwind" /\ UNCHANGED <<held, shared, engine, event>>
    BY <1>2 DEF CallFails, Fails
  <2>2. pc \in Points \ (Last \cup {"Wait", "StoreFormat", "Announce", "loop", "drain",
                                   "target", "ReleaseBuffer"})
    BY <1>2, CallFailsCases
  <2>3. held \subseteq Streaming
    BY <2>2 DEF WasapiInv, Holding, Points, Last, Streaming, Serving, Signalled, Connected,
                Activating, Prepared, Opened
  <2>4. Types' BY <2>1 DEF WasapiInv, Types, Points
  <2>5. Holding' BY <2>1, <2>3 DEF Holding, Streaming, Serving, Signalled, Connected,
                                   Activating, Prepared, Opened
  <2>6. Ordered' BY <2>1 DEF WasapiInv, Ordered
  <2>7. EventOpen' BY <2>1 DEF WasapiInv, EventOpen
  <2>8. Published' BY <2>1, <2>2 DEF WasapiInv, Types, Published, Points, Last
  <2>9. QED BY <2>4, <2>5, <2>6, <2>7, <2>8 DEF WasapiInv
<1>3. CASE CreateEventW
  <2>1. UNCHANGED <<failed, shared, engine>> /\ event' = "open" BY <1>3 DEF CreateEventW
  <2>2. Acquires("CreateEventW", {"handler", "blob", "propvariant"}, "Activate")
    BY <1>3, OtherCalls
  <2>3. Holding' /\ Ordered' BY <1>3, AcquiringKeepsOrder DEF WasapiInv
  <2>4. Types' BY <2>1, <2>2 DEF WasapiInv, Types, Points, Acquires
  <2>5. EventOpen' BY <2>1, <2>2 DEF WasapiInv, EventOpen, Acquires
  <2>6. Published' BY <2>1, <2>2 DEF WasapiInv, Types, Published, Last, Acquires
  <2>7. QED BY <2>3, <2>4, <2>5, <2>6 DEF WasapiInv
<1>4. CASE Activate
  <2>1. UNCHANGED <<failed, shared, event>> /\ engine' = "pending" BY <1>4 DEF Activate
  <2>2. Acquires("Activate", {"operation"}, "Wait") BY <1>4, OtherCalls
  <2>3. Holding' /\ Ordered' BY <1>4, AcquiringKeepsOrder DEF WasapiInv
  <2>4. Types' BY <2>1, <2>2 DEF WasapiInv, Types, Points, Acquires
  <2>5. "handler" \in held BY <2>2 DEF WasapiInv, Holding, Acquires, Prepared
  <2>6. EventOpen' BY <2>1, <2>2, <2>5 DEF WasapiInv, EventOpen, Acquires
  <2>7. Published' BY <2>1, <2>2 DEF WasapiInv, Types, Published, Last, Acquires
  <2>8. QED BY <2>3, <2>4, <2>6, <2>7 DEF WasapiInv
<1>5. CASE Activated
  <2>1. UNCHANGED <<failed, shared, engine, event>> BY <1>5 DEF Activated
  <2>2. Acquires("Wait", {}, "GetActivateResult") BY <1>5, OtherCalls
  <2>3. Holding' /\ Ordered' BY <1>5, AcquiringKeepsOrder DEF WasapiInv
  <2>4. Types' BY <2>1, <2>2 DEF WasapiInv, Types, Points, Acquires
  <2>5. EventOpen' BY <2>1, <2>2 DEF WasapiInv, EventOpen, Acquires
  <2>6. Published' BY <2>1, <2>2 DEF WasapiInv, Types, Published, Last, Acquires
  <2>7. QED BY <2>3, <2>4, <2>5, <2>6 DEF WasapiInv
<1>6. CASE StoreFormat
  <2>1. UNCHANGED <<failed, phase, error, exited, stop, pushing, engine, event>> /\ fmt' = TRUE
    BY <1>6 DEF StoreFormat
  <2>2. Acquires("StoreFormat", {}, "Start") BY <1>6, OtherCalls
  <2>3. Holding' /\ Ordered' BY <1>6, AcquiringKeepsOrder DEF WasapiInv
  <2>4. Types' BY <2>1, <2>2 DEF WasapiInv, Types, Points, Acquires
  <2>5. EventOpen' BY <2>1, <2>2 DEF WasapiInv, EventOpen, Acquires
  <2>6. Published' BY <2>1, <2>2 DEF WasapiInv, Types, Published, Last, Acquires
  <2>7. QED BY <2>3, <2>4, <2>5, <2>6 DEF WasapiInv
<1>7. CASE ActivationTimesOut \/ LoopFails
  <2>1. failed' = TRUE /\ pc' = "unwind" /\ UNCHANGED <<held, shared, engine, event>>
    BY <1>7 DEF ActivationTimesOut, LoopFails, Fails
  <2>2. pc \in {"Wait", "loop", "drain"} BY <1>7 DEF ActivationTimesOut, LoopFails
  <2>3. Types' BY <2>1 DEF WasapiInv, Types, Points
  <2>4. Holding' BY <2>1, <2>2 DEF WasapiInv, Holding, Streaming, Serving, Signalled, Connected,
                                   Activating, Prepared, Opened
  <2>5. Ordered' BY <2>1 DEF WasapiInv, Ordered
  <2>6. EventOpen' BY <2>1 DEF WasapiInv, EventOpen
  <2>7. Published' BY <2>1, <2>2 DEF WasapiInv, Types, Published, Last
  <2>8. QED BY <2>3, <2>4, <2>5, <2>6, <2>7 DEF WasapiInv
<1>8. CASE Announce \/ LoopEnds \/ LoopWaits \/ Drained \/ TargetExited \/ TargetRuns
  <2> USE DEF Announce, LoopEnds, LoopWaits, Drained, TargetExited, TargetRuns
  <2>1. UNCHANGED <<held, failed, engine, event>> BY <1>8
  <2>0. /\ pc' \in {"loop", "unwind", "drain", "target"}
        /\ phase' = phase \/ phase' = "running"
        /\ exited' = exited \/ exited' = TRUE
        /\ UNCHANGED <<error, fmt, stop, pushing>>
    BY <1>8
  <2>2. Types'
    <3>1. Types BY DEF WasapiInv
    <3>2. pc' \in Points /\ phase' \in {"starting", "running", "finished"}
      BY <3>1, <2>0 DEF Types, Points
    <3>3. exited' \in BOOLEAN BY <3>1, <2>0 DEF Types
    <3>4. QED BY <3>1, <3>2, <3>3, <2>0, <2>1 DEF Types
  <2>3. Holding' BY <1>8 DEF WasapiInv, Holding, Streaming, Serving, Signalled, Connected,
                            Activating, Prepared, Opened
  <2>4. Ordered' BY <2>1 DEF WasapiInv, Ordered
  <2>5. EventOpen' BY <1>8 DEF WasapiInv, EventOpen
  <2>6. Published' BY <1>8 DEF WasapiInv, Types, Published, Last
  <2>7. QED BY <2>2, <2>3, <2>4, <2>5, <2>6 DEF WasapiInv
<1>9. CASE GetBuffer
  <2>1. Types' BY <1>9 DEF WasapiInv, Types, Points, GetBuffer
  <2>2. held = Streaming BY <1>9 DEF WasapiInv, Holding, GetBuffer
  <2>3. Holding' BY <1>9, <2>2 DEF Holding, GetBuffer
  <2>4. Ordered' BY <1>9, <2>2 DEF WasapiInv, Ordered, GetBuffer, Streaming, Serving
  <2>5. EventOpen' BY <1>9 DEF WasapiInv, EventOpen, GetBuffer
  <2>6. Published' BY <1>9 DEF WasapiInv, Published, Last, GetBuffer
  <2>7. QED BY <2>1, <2>3, <2>4, <2>5, <2>6 DEF WasapiInv
<1>10. CASE ReleaseBuffer
  <2>1. pc' \in {"drain", "unwind"} /\ held' = held \ {"packet"} /\ pushing' = FALSE
        /\ UNCHANGED <<phase, error, exited, fmt, stop, engine, event>>
        /\ (pc' = "drain" => UNCHANGED failed) /\ (pc' = "unwind" => failed' = TRUE)
    BY <1>10 DEF ReleaseBuffer, Fails
  <2>2. held' = Streaming
    BY <1>10, <2>1 DEF WasapiInv, Holding, ReleaseBuffer, Streaming, Serving, Signalled,
                       Connected, Activating, Prepared, Opened
  <2>3. pc = "ReleaseBuffer" BY <1>10 DEF ReleaseBuffer
  <2>4. Types'
    <3>1. Types BY DEF WasapiInv
    <3>2. pc' \in Points BY <2>1 DEF Points
    <3>3. failed' \in BOOLEAN BY <3>1, <2>1 DEF Types
    <3>4. QED BY <3>1, <3>2, <3>3, <2>1 DEF Types
  <2>5. Holding' BY <2>1, <2>2 DEF Holding
  <2>6. Ordered' BY <2>2 DEF Ordered, Streaming, Serving, Signalled, Connected, Activating,
                             Prepared, Opened
  <2>7. EventOpen' BY <2>1 DEF WasapiInv, EventOpen
  <2>8. Published' BY <2>1, <2>3 DEF WasapiInv, Types, Published, Last
  <2>9. QED BY <2>4, <2>5, <2>6, <2>7, <2>8 DEF WasapiInv
<1>11. CASE Release
  <2>1. pc = "unwind" /\ UNCHANGED <<pc, failed, shared, engine>> /\ event' = AfterDrop(NextOut)
    BY <1>11 DEF Release
  <2>2. Types' BY <2>1 DEF WasapiInv, Types
  <2>3. held' \subseteq held BY <1>11, ReleaseCases
  <2>4. Holding' BY <2>1, <2>3 DEF WasapiInv, Holding
  <2>5. "packet" \notin held
    BY <2>1 DEF WasapiInv, Holding, Streaming, Serving, Signalled, Connected, Activating,
                Prepared, Opened
  <2>6. Ordered' BY <1>11, <2>5, ReleaseCases DEF WasapiInv, Ordered
  <2>7. EventOpen'
    <3>1. CASE NextOut = {"handler"}
      <4>1. held' = held \ {"handler"} /\ "handler" \in held
        BY <1>11, <3>1 DEF Release, NextOut, Leaving
      <4>2. QED BY <2>1, <3>1, <4>1 DEF WasapiInv, Types, EventOpen, AfterDrop
    <3>2. CASE "handler" \notin NextOut
      <4>1. "handler" \in held' <=> "handler" \in held BY <1>11, <3>2 DEF Release
      <4>2. event' = event BY <2>1, <3>2 DEF AfterDrop
      <4>3. QED BY <2>1, <4>1, <4>2 DEF WasapiInv, EventOpen
    <3>3. NextOut = {"handler"} \/ "handler" \notin NextOut BY <1>11, ReleaseCases
    <3>4. QED BY <3>1, <3>2, <3>3
  <2>8. Published' BY <2>1 DEF WasapiInv, Published
  <2>9. QED BY <2>2, <2>4, <2>6, <2>7, <2>8 DEF WasapiInv
<1>12. CASE Return
  <2>1. held = {} /\ held' = {} BY <1>12, ReturnLeaves DEF WasapiInv, Return
  <2>2. Types' BY <1>12 DEF WasapiInv, Types, Points, Return
  <2>3. Holding' BY <1>12, <2>1 DEF Holding, Return
  <2>4. Ordered' BY <2>1 DEF Ordered
  <2>5. EventOpen' BY <1>12 DEF WasapiInv, EventOpen, Return
  <2>6. Published' BY <1>12 DEF WasapiInv, Types, Published, Last, Return
  <2>7. QED BY <2>2, <2>3, <2>4, <2>5, <2>6 DEF WasapiInv
<1>13. CASE Finish
  <2>1. Types' BY <1>13 DEF WasapiInv, Types, Points, Finish
  <2>2. Holding' BY <1>13 DEF WasapiInv, Holding, Finish
  <2>3. Ordered' BY <1>13 DEF WasapiInv, Ordered, Finish
  <2>4. EventOpen' BY <1>13 DEF WasapiInv, EventOpen, Finish
  <2>5. Published' BY <1>13 DEF WasapiInv, Published, Last, Finish
  <2>6. QED BY <2>1, <2>2, <2>3, <2>4, <2>5 DEF WasapiInv
<1>14. CASE ActivateCompleted \/ EngineReleases
  <2> USE DEF ActivateCompleted, EngineReleases
  <2>1. UNCHANGED <<pc, held, failed, shared>> BY <1>14
  <2>2. Types' BY <1>14 DEF WasapiInv, Types
  <2>3. Holding' BY <2>1 DEF WasapiInv, Holding
  <2>4. Ordered' BY <2>1 DEF WasapiInv, Ordered
  <2>5. EventOpen' BY <1>14 DEF WasapiInv, EventOpen
  <2>6. Published' BY <2>1 DEF WasapiInv, Published
  <2>7. QED BY <2>2, <2>3, <2>4, <2>5, <2>6 DEF WasapiInv
<1>15. CASE RequestStop
  <2>1. Types' BY <1>15 DEF WasapiInv, Types, RequestStop
  <2>2. Holding' BY <1>15 DEF WasapiInv, Holding, RequestStop
  <2>3. Ordered' BY <1>15 DEF WasapiInv, Ordered, RequestStop
  <2>4. EventOpen' BY <1>15 DEF WasapiInv, EventOpen, RequestStop
  <2>5. Published' BY <1>15 DEF WasapiInv, Published, RequestStop
  <2>6. QED BY <2>1, <2>2, <2>3, <2>4, <2>5 DEF WasapiInv
<1>16. CASE UNCHANGED vars
  BY <1>16 DEF vars, WasapiInv, Types, Holding, Ordered, EventOpen, Published
<1>17. QED
  BY <1>1, <1>2, <1>3, <1>4, <1>5, <1>6, <1>7, <1>8, <1>9, <1>10, <1>11, <1>12, <1>13, <1>14,
     <1>15, <1>16 DEF Next, Worker

LEMMA WasapiInvariant == Spec => []WasapiInv
BY WasapiInit, WasapiStep, PTL DEF Spec

-----------------------------------------------------------------------------
LEMMA EventFollows == WasapiInv => CallbackFindsItsState
BY DEF WasapiInv, EventOpen, CallbackFindsItsState

\* A completion finds its event open, however long after the worker's five seconds
\* the engine calls, and although the worker may be gone by then.
THEOREM CompletionFindsItsEvent == Spec => []CallbackFindsItsState
BY EventFollows, WasapiInvariant, PTL

LEMMA OrderFollows == WasapiInv => HeldInOrder
<1> SUFFICES ASSUME WasapiInv, NEW r \in held PROVE Needs(r) \subseteq held
  BY DEF HeldInOrder
<1>1. Ordered BY DEF WasapiInv
<1>2. CASE r \in {"operation", "client"} BY <1>1, <1>2 DEF Needs, Ordered
<1>3. CASE r = "propvariant" BY <1>1, <1>3 DEF Needs, Ordered
<1>4. CASE r \in {"capture", "started"} BY <1>1, <1>4 DEF Needs, Ordered
<1>5. CASE r = "signals" BY <1>1, <1>5 DEF Needs, Ordered
<1>6. CASE r = "packet" BY <1>1, <1>6 DEF Needs, Ordered
<1>7. CASE r \notin {"operation", "client", "propvariant", "capture", "started", "signals", "packet"}
  BY <1>7 DEF Needs
<1>8. QED BY <1>2, <1>3, <1>4, <1>5, <1>6, <1>7

\* Whatever call fails, what depends on something is released before it: the
\* clients while COM is up, the PROPVARIANT before its blob, the event last.
THEOREM ReleasesInOrder == Spec => []HeldInOrder
BY OrderFollows, WasapiInvariant, PTL

LEMMA ReleaseFollows == WasapiInv => ReleasedWhenFinished
<1> SUFFICES ASSUME WasapiInv, phase = "finished" PROVE ReleasedWhenFinished
  BY DEF ReleasedWhenFinished
<1>1. pc = "gone" BY DEF WasapiInv, Types, Points, Published, Last
<1>2. held = {} BY <1>1 DEF WasapiInv, Holding
<1>3. QED BY <1>2 DEF WasapiInv, EventOpen, ReleasedWhenFinished

\* Whoever sees PHASE_FINISHED finds every handle, interface and COM itself
\* released, and the event too unless the engine still has its reference.
THEOREM ReleasesAll == Spec => []ReleasedWhenFinished
BY ReleaseFollows, WasapiInvariant, PTL

-----------------------------------------------------------------------------
\* Every step of the worker and of the engine is one of the contract's.
LEMMA StepKeepsContract == WasapiInv /\ [Next]_vars => [Contract!Next]_(Contract!shared)
<1> SUFFICES ASSUME WasapiInv, [Next]_vars PROVE Contract!Next \/ UNCHANGED shared
  BY DEF shared, Contract!shared
<1>1. CASE \/ Call \/ CallFails \/ CreateEventW \/ Activate \/ Activated \/ ActivationTimesOut
           \/ LoopEnds \/ LoopWaits \/ LoopFails \/ Drained \/ TargetRuns \/ Release
           \/ ActivateCompleted \/ EngineReleases
  BY <1>1 DEF Call, CallFails, CreateEventW, Activate, Activated, ActivationTimesOut, LoopEnds,
              LoopWaits, LoopFails, Drained, TargetRuns, Release, ActivateCompleted, EngineReleases
<1>2. CASE StoreFormat
  <2>1. pc = "StoreFormat" BY <1>2, OtherCalls DEF Acquires
  <2>2. phase = "starting" BY <2>1 DEF WasapiInv, Published, Last
  <2>3. Contract!StoreFormat BY <1>2, <2>2 DEF StoreFormat, Contract!StoreFormat
  <2>4. QED BY <2>3 DEF Contract!Next
<1>3. CASE Announce
  <2>1. phase = "starting" /\ fmt /\ ~error BY <1>3 DEF WasapiInv, Published, Last, Announce
  <2>2. Contract!Announce BY <1>3, <2>1 DEF Announce, Contract!Announce
  <2>3. QED BY <2>2 DEF Contract!Next
<1>4. CASE TargetExited
  <2>1. phase = "running" /\ ~error BY <1>4 DEF WasapiInv, Published, Last, TargetExited
  <2>2. Contract!NoteExit BY <1>4, <2>1 DEF TargetExited, Contract!NoteExit
  <2>3. QED BY <2>2 DEF Contract!Next
<1>5. CASE GetBuffer \/ ReleaseBuffer
  <2>1. phase = "running" /\ ~error BY <1>5 DEF WasapiInv, Published, Last, GetBuffer, ReleaseBuffer
  <2>2. UNCHANGED <<phase, error, exited, fmt, stop>> /\ pushing' \in BOOLEAN
    BY <1>5 DEF GetBuffer, ReleaseBuffer
  <2>3. CASE pushing' = ~pushing BY <2>1, <2>2, <2>3 DEF Contract!Push, Contract!Next
  <2>4. CASE UNCHANGED pushing BY <2>2, <2>4 DEF shared
  <2>5. pushing \in BOOLEAN BY DEF WasapiInv, Types
  <2>6. QED BY <2>2, <2>3, <2>4, <2>5
<1>6. CASE Return
  <2>1. ~pushing /\ phase # "finished"
    BY <1>6 DEF WasapiInv, Published, Return
  <2>2. CASE failed
    <3>1. ~exited BY <2>2 DEF WasapiInv, Published
    <3>2. Contract!Fail BY <1>6, <2>1, <2>2, <3>1 DEF Return, Contract!Fail
    <3>3. QED BY <3>2 DEF Contract!Next
  <2>3. CASE ~failed BY <1>6, <2>3 DEF WasapiInv, Types, Published, Return, shared
  <2>4. QED BY <2>2, <2>3
<1>7. CASE Finish
  <2>1. ~pushing /\ phase # "finished" BY <1>7 DEF WasapiInv, Published, Finish
  <2>2. stop \/ exited \/ error BY <1>7 DEF WasapiInv, Published, Finish
  <2>3. Contract!Finish BY <1>7, <2>1, <2>2 DEF Finish, Contract!Finish
  <2>4. QED BY <2>3 DEF Contract!Next
<1>8. CASE RequestStop
  <2>1. Contract!Stop BY <1>8 DEF RequestStop, Contract!Stop
  <2>2. QED BY <2>1 DEF Contract!Next
<1>9. CASE UNCHANGED vars BY <1>9 DEF vars, shared
<1>10. QED
  BY <1>1, <1>2, <1>3, <1>4, <1>5, <1>6, <1>7, <1>8, <1>9 DEF Next, Worker

\* The WASAPI worker does what lib.rs relies on, whichever of its calls fails and
\* whenever the engine answers.
THEOREM WasapiImplementsContract == Spec => Contract!Spec
<1>1. Init => Contract!Init BY DEF Init, Contract!Init
<1>2. QED BY <1>1, StepKeepsContract, WasapiInvariant, PTL DEF Spec, Contract!Spec
=============================================================================
