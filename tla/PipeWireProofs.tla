--------------------------- MODULE PipeWireProofs ---------------------------
(***************************************************************************)
(* What is proved about PipeWireWorker, for all clients and any number of  *)
(* streams: it releases in order and completely, its listing leaves no     *)
(* stream of the target's behind when its time runs out, and it implements *)
(* WorkerContract.                                                         *)
(***************************************************************************)
EXTENDS PipeWireWorker, WellFoundedInduction, TLAPS

Contract == INSTANCE WorkerContract

-----------------------------------------------------------------------------
\* What is held at each point.
Daemon    == {"main_loop", "context", "core", "registry", "registry_listener"}
Listening == Daemon \cup {"stream", "listener"}
Linked    == Listening \cup {"link"}

Turning == {"loop", "callbacks", "push", "turned", "announce"}
Last    == {"unwind", "finish", "gone"}
Points  == {"main_loop", "context", "core", "registry", "check", "iterate", "pick", "stream",
            "listener", "formats", "connect"} \cup Turning \cup Last

Holding ==
    /\ pc \in {"main_loop", "finish", "gone"} => held = {}
    /\ pc = "context" => held = {"main_loop"}
    /\ pc = "core" => held = {"main_loop", "context"}
    /\ pc = "registry" => held = {"main_loop", "context", "core"}
    /\ pc \in {"check", "iterate", "pick", "stream"} => held = Daemon
    /\ pc = "listener" => held = Daemon \cup {"stream"}
    /\ pc \in {"formats", "connect"} => held = Listening
    /\ pc \in Turning => held = Linked
    /\ held \subseteq Linked

\* HeldInOrder, rule by rule.
Ordered ==
    /\ "context" \in held => "main_loop" \in held
    /\ "core" \in held => "context" \in held
    /\ "registry" \in held => "context" \in held
    /\ "registry_listener" \in held => "registry" \in held
    /\ "stream" \in held => "core" \in held
    /\ "listener" \in held => "stream" \in held
    /\ "link" \in held => "stream" \in held /\ "listener" \in held

Types ==
    /\ pc \in Points
    /\ failed \in BOOLEAN /\ stop \in BOOLEAN /\ error \in BOOLEAN /\ fmt \in BOOLEAN
    /\ phase \in {"starting", "running", "finished"}
    /\ nodes \in Seq(NodeRecs)

\* What is published, and why the worker is on its way out.
Published ==
    /\ exited = FALSE
    /\ pc \notin Last => ~failed
    /\ quit => stop
    /\ error = (failed /\ pc \in {"finish", "gone"})
    /\ pc \in Points \ (Turning \cup Last) => phase = "starting"
    /\ pc \in Turning => phase \in {"starting", "running"}
    /\ pc = "announce" => fmt /\ phase = "starting"
    /\ pc \in {"unwind", "finish"} => phase \in {"starting", "running"} /\ (failed \/ stop)
    /\ pc = "gone" => phase = "finished"
    /\ phase = "running" => fmt
    /\ pushing = (pc = "push")

\* Between two turns of the listing nothing seen is the target's, and so it stays
\* after a listing that failed.
Listed ==
    /\ pc \in {"main_loop", "context", "core", "registry"} => nodes = << >>
    /\ pc = "check" => Matching = {}
    /\ pc \in {"stream", "listener", "formats", "connect"} => target # 0
    /\ failed /\ target = 0 /\ "registry" \in held => Matching = {}

Inv == Types /\ Holding /\ Ordered /\ Published /\ Listed

-----------------------------------------------------------------------------
\* The calls one by one.
LEMMA CallCases ==
    ASSUME Call
    PROVE  \/ pc = "main_loop" /\ pc' = "context" /\ held' = held \cup {"main_loop"}
           \/ pc = "context" /\ pc' = "core" /\ held' = held \cup {"context"}
           \/ pc = "core" /\ pc' = "registry" /\ held' = held \cup {"core"}
           \/ pc = "registry" /\ pc' = "check" /\ held' = held \cup {"registry", "registry_listener"}
           \/ pc = "stream" /\ pc' = "listener" /\ held' = held \cup {"stream"}
           \/ pc = "listener" /\ pc' = "formats" /\ held' = held \cup {"listener"}
           \/ pc = "connect" /\ pc' = "loop" /\ held' = held \cup {"link"}
<1>1. PICK c \in Calls : pc = c.name /\ held' = held \cup c.takes /\ pc' = c.next
  BY DEF Call
<1>2. QED BY <1>1 DEF Calls, DaemonCalls, StreamCalls, LinkCall

LEMMA CallFailsCases ==
    ASSUME CallFails
    PROVE  pc \in {"main_loop", "context", "core", "registry", "stream", "listener", "connect"}
<1>1. PICK c \in Calls : pc = c.name BY DEF CallFails
<1>2. QED BY <1>1 DEF Calls, DaemonCalls, StreamCalls, LinkCall

\* Nothing that is about to go has a dependent left, on either way out.
NothingNeeds(r) ==
    /\ r = "main_loop" => "context" \notin held
    /\ r = "context" => "core" \notin held /\ "registry" \notin held
    /\ r = "registry" => "registry_listener" \notin held
    /\ r = "core" => "stream" \notin held
    /\ r = "stream" => "listener" \notin held /\ "link" \notin held
    /\ r = "listener" => "link" \notin held

LEMMA OrderTable ==
    /\ DOMAIN Unwinding = 1..8
    /\ Unwinding[1] = "link" /\ Unwinding[2] = "listener" /\ Unwinding[3] = "stream"
    /\ failed => /\ Unwinding[4] = "registry_listener" /\ Unwinding[5] = "registry"
                 /\ Unwinding[6] = "core"
    /\ ~failed => /\ Unwinding[4] = "core" /\ Unwinding[5] = "registry_listener"
                  /\ Unwinding[6] = "registry"
    /\ Unwinding[7] = "context" /\ Unwinding[8] = "main_loop"
<1>1. CASE failed BY <1>1 DEF Unwinding
<1>2. CASE ~failed BY <1>2 DEF Unwinding
<1>3. QED BY <1>1, <1>2

LEMMA ReleasesNext ==
    ASSUME Release
    PROVE  NothingNeeds(NextOut) /\ NextOut \in held /\ held' = held \ {NextOut}
<1>1. Leaving \subseteq 1..8 /\ Leaving # {} BY OrderTable DEF Release, Leaving
<1>2. \E k \in Leaving : \A j \in Leaving : k <= j
  <2>1. PICK k0 \in 1..8 : k0 \in Leaving BY <1>1
  <2>2. \A j \in Leaving : j \in {1, 2, 3, 4, 5, 6, 7, 8} BY <1>1
  <2>3. QED BY <2>1, <2>2
<1>3. PICK k \in Leaving : NextOut = Unwinding[k] /\ \A j \in Leaving : k <= j
  BY <1>2 DEF NextOut
<1>4. \A j \in 1..8 : j < k => Unwinding[j] \notin held
  BY <1>1, <1>3, OrderTable DEF Leaving
<1>5. k \in {1, 2, 3, 4, 5, 6, 7, 8} BY <1>1
<1>6. NothingNeeds(Unwinding[k])
  <2>1. CASE failed BY <2>1, <1>4, <1>5, OrderTable DEF NothingNeeds
  <2>2. CASE ~failed BY <2>2, <1>4, <1>5, OrderTable DEF NothingNeeds
  <2>3. QED BY <2>1, <2>2
<1>7. NextOut \in held BY <1>3 DEF Leaving
<1>8. QED BY <1>3, <1>6, <1>7 DEF Release

LEMMA ReturnLeaves ==
    ASSUME Holding, Return
    PROVE  held = {}
<1>1. \A k \in 1..8 : Unwinding[k] \notin held BY OrderTable DEF Return, Leaving
<1>2. /\ "link" \notin held /\ "listener" \notin held /\ "stream" \notin held
      /\ "context" \notin held /\ "main_loop" \notin held
  BY <1>1, OrderTable
<1>3. "core" \notin held /\ "registry_listener" \notin held /\ "registry" \notin held
  <2>1. CASE failed BY <2>1, <1>1, OrderTable
  <2>2. CASE ~failed BY <2>2, <1>1, OrderTable
  <2>3. QED BY <2>1, <2>2
<1>4. held \subseteq Linked BY DEF Holding
<1>5. QED BY <1>2, <1>3, <1>4 DEF Linked, Listening, Daemon

-----------------------------------------------------------------------------
LEMMA InvInit == Init => Inv
<1> SUFFICES ASSUME Init PROVE Inv
  OBVIOUS
<1>1. Types
  <2>1. nodes \in Seq(NodeRecs) BY DEF Init
  <2>2. pc \in Points BY DEF Init, Points
  <2>3. QED BY <2>1, <2>2 DEF Init, Types
<1>2. Holding /\ Ordered BY DEF Init, Holding, Ordered, Turning
<1>3. Published BY DEF Init, Published, Points, Turning, Last
<1>4. Listed BY DEF Init, Listed
<1>5. QED BY <1>1, <1>2, <1>3, <1>4 DEF Inv

LEMMA NatHasLeast ==
    ASSUME NEW S, S \subseteq Nat, S # {}
    PROVE  \E i \in S : \A j \in S : i <= j
<1> DEFINE Less == OpToRel(<, Nat)
<1>1. \A i, j \in Nat : i < j => <<i, j>> \in Less BY DEF OpToRel
<1>2. IsWellFoundedOn(Less, Nat) BY NatLessThanWellFounded
<1> HIDE DEF Less
<1>3. PICK i \in S : \A j \in S : ~ (<<j, i>> \in Less) BY <1>2, WFMin
<1>4. ASSUME NEW j \in S PROVE i <= j
  <2>1. i \in Nat /\ j \in Nat OBVIOUS
  <2>2. ~ (j < i) BY <1>1, <1>3, <2>1
  <2>3. QED BY <2>1, <2>2
<1>5. QED BY <1>4

\* The first of the matching streams is one of them.
LEMMA PickTakesOne ==
    ASSUME nodes \in Seq(NodeRecs), Pick
    PROVE  target' # 0
<1>1. Matching \subseteq Nat \ {0} BY DEF Matching
<1>2. Matching # {} BY DEF Pick
<1>3. \E i \in Matching : \A j \in Matching : i <= j BY <1>1, <1>2, NatHasLeast
<1>4. QED BY <1>1, <1>3 DEF Pick

\* The steps that release and acquire nothing and tell lib.rs nothing new.
Quiet == \/ ListOn \/ Iterated \/ Pick \/ LookInVain \/ DeadlinePasses \/ ListFormats
         \/ ClientAppears \/ NodeAppears
         \/ LoopEnds \/ LoopTurns \/ ParamChanged \/ ProcessStopped \/ ProcessIdle
         \/ NothingToAnnounce

\* Every step preserves the invariant.
LEMMA InvStep == Inv /\ [Next]_vars => Inv'
<1> SUFFICES ASSUME Inv, [Next]_vars PROVE Inv'
  OBVIOUS
<1> USE DEF shared, listed
<1>1. CASE Call
  <2>1. UNCHANGED <<failed, shared, listed, quit>> BY <1>1 DEF Call
  <2>2. Types'
    <3>1. pc' \in Points BY <1>1, CallCases DEF Points, Turning
    <3>2. QED BY <2>1, <3>1 DEF Inv, Types
  <2>3. Holding' BY <1>1, CallCases DEF Inv, Holding, Turning, Linked, Listening, Daemon
  <2>4. Ordered' BY <1>1, CallCases DEF Inv, Holding, Ordered, Listening, Daemon
  <2>5. Published' BY <1>1, <2>1, CallCases DEF Inv, Types, Published, Points, Turning, Last
  <2>6. Listed'
    <3>1. pc' \in {"stream", "listener", "formats", "connect"} => target' # 0
      BY <1>1, <2>1, CallCases DEF Inv, Listed
    <3>2. pc' \in {"main_loop", "context", "core", "registry", "check"} => nodes' = << >>
      BY <1>1, <2>1, CallCases DEF Inv, Listed
    <3>3. nodes' = << >> => Matching' = {} BY DEF Matching
    <3>4. ~failed' BY <1>1, <2>1, CallCases DEF Inv, Published, Last
    <3>5. QED BY <3>1, <3>2, <3>3, <3>4 DEF Listed
  <2>7. QED BY <2>2, <2>3, <2>4, <2>5, <2>6 DEF Inv
<1>2. CASE CallFails \/ GiveUp
  <2>1. failed' = TRUE /\ pc' = "unwind" /\ UNCHANGED <<held, shared, listed, quit>>
    BY <1>2 DEF CallFails, GiveUp, Fails
  <2>2. /\ pc \in Points \ (Turning \cup Last)
        /\ pc \in {"main_loop", "context", "core", "registry"} \/ target # 0 \/ Matching = {}
    BY <1>2, CallFailsCases DEF Inv, Listed, GiveUp, Points, Turning, Last
  <2>3. Matching' = Matching BY <2>1 DEF Matching, BySec, ByPid, ByName
  <2>4. Types' BY <2>1 DEF Inv, Types, Points, Last
  <2>5. Holding' BY <2>1 DEF Inv, Holding, Turning
  <2>6. Ordered' BY <2>1 DEF Inv, Ordered
  <2>7. Published' BY <2>1, <2>2 DEF Inv, Types, Published, Points, Turning, Last
  <2>8. Listed' BY <2>1, <2>2, <2>3 DEF Inv, Holding, Listed
  <2>9. QED BY <2>4, <2>5, <2>6, <2>7, <2>8 DEF Inv
<1>3. CASE Quiet
  <2> USE DEF Quiet, ListOn, Iterated, Pick, LookInVain, DeadlinePasses,
              ListFormats, ClientAppears, NodeAppears,
              LoopEnds, LoopTurns, ParamChanged, ProcessStopped, ProcessIdle, NothingToAnnounce, Leaves
  <2>1. UNCHANGED <<held, failed, shared>> BY <1>3
  <2>2. pc \notin Last /\ ~failed BY <1>3 DEF Inv, Published, Last
  <2>3. Types'
    <3>1. Types BY DEF Inv
    <3>2. pc' \in Points BY <1>3, <3>1 DEF Types, Points, Turning, Last
    <3>3. nodes' \in Seq(NodeRecs) BY <1>3, <3>1 DEF Types
    <3>4. QED BY <2>1, <3>1, <3>2, <3>3 DEF Types
  <2>4. Holding' BY <1>3, <2>1 DEF Inv, Holding, Turning
  <2>5. Ordered' BY <2>1 DEF Inv, Ordered
  <2>6. Published' BY <1>3, <2>1 DEF Inv, Types, Published, Points, Turning, Last
  <2>7. Listed'
    <3>1. pc' \in {"stream", "listener", "formats", "connect"} => target' # 0
      <4>1. CASE Pick BY <4>1, PickTakesOne DEF Inv, Types
      <4>2. CASE ~Pick BY <1>3, <4>2 DEF Inv, Listed
      <4>3. QED BY <4>1, <4>2
    <3>2. pc' = "check" => Matching' = {}
      <4>1. CASE LookInVain
        <5>1. Matching' = Matching BY <4>1 DEF Matching, BySec, ByPid, ByName
        <5>2. QED BY <4>1, <5>1
      <4>2. CASE DeadlinePasses
        <5>1. Matching' = Matching BY <4>2 DEF Matching, BySec, ByPid, ByName
        <5>2. QED BY <4>2, <5>1 DEF Inv, Listed
      <4>3. CASE ~LookInVain /\ ~DeadlinePasses BY <1>3, <4>3
      <4>4. QED BY <4>1, <4>2, <4>3
    <3>3. pc' \notin {"main_loop", "context", "core", "registry"} BY <1>3
    <3>4. QED BY <2>1, <2>2, <3>1, <3>2, <3>3 DEF Listed
  <2>8. QED BY <2>3, <2>4, <2>5, <2>6, <2>7 DEF Inv
<1>4. CASE ProcessPushes \/ PushEnds \/ StoreFormat \/ Announce
  <2> USE DEF ProcessPushes, PushEnds, StoreFormat, Announce
  <2>1. UNCHANGED <<held, failed, error, exited, stop, nodes, quit>> BY <1>4
  <2>2. pc \in Turning /\ pc' \in Turning BY <1>4 DEF Turning
  <2>3. fmt' = fmt \/ fmt' = TRUE BY <1>4
  <2>4. phase' = phase \/ phase' = "running" BY <1>4
  <2>5. ~failed BY <2>2 DEF Inv, Published, Turning, Last
  <2>6. Types'
    <3>1. Types BY DEF Inv
    <3>2. pc' \in Points BY <2>2 DEF Points
    <3>3. fmt' \in BOOLEAN BY <2>3, <3>1 DEF Types
    <3>4. phase' \in {"starting", "running", "finished"} BY <2>4, <3>1 DEF Types
    <3>5. QED BY <2>1, <3>1, <3>2, <3>3, <3>4 DEF Types
  <2>7. Holding' BY <2>1, <2>2 DEF Inv, Holding, Turning
  <2>8. Ordered' BY <2>1 DEF Inv, Ordered
  <2>9. Published' BY <1>4, <2>1 DEF Inv, Types, Published, Points, Turning, Last
  <2>10. Listed' BY <2>1, <2>2, <2>5 DEF Listed, Turning
  <2>11. QED BY <2>6, <2>7, <2>8, <2>9, <2>10 DEF Inv
<1>5. CASE Release
  <2>1. pc = "unwind" /\ UNCHANGED <<pc, failed, shared, listed, quit>> BY <1>5 DEF Release
  <2>2. held' \subseteq held BY <1>5, ReleasesNext
  <2>3. Matching' = Matching BY <2>1 DEF Matching, BySec, ByPid, ByName
  <2>4. Types' BY <2>1 DEF Inv, Types
  <2>5. Holding' BY <2>1, <2>2 DEF Inv, Holding, Turning
  <2>6. Ordered' BY <1>5, ReleasesNext DEF Inv, Ordered, NothingNeeds
  <2>7. Published' BY <2>1 DEF Inv, Published
  <2>8. Listed' BY <2>1, <2>2, <2>3 DEF Inv, Listed
  <2>9. QED BY <2>4, <2>5, <2>6, <2>7, <2>8 DEF Inv
<1>6. CASE Return
  <2>1. held = {} /\ held' = {} BY <1>6, ReturnLeaves DEF Inv, Return
  <2>2. Types' BY <1>6 DEF Inv, Types, Points, Last, Return
  <2>3. Holding' BY <1>6, <2>1 DEF Holding, Turning, Return
  <2>4. Ordered' BY <2>1 DEF Ordered
  <2>5. Published' BY <1>6 DEF Inv, Types, Published, Points, Turning, Last, Return
  <2>6. Listed' BY <1>6, <2>1 DEF Listed, Return
  <2>7. QED BY <2>2, <2>3, <2>4, <2>5, <2>6 DEF Inv
<1>7. CASE Finish
  <2>1. held = {} /\ held' = {} BY <1>7 DEF Inv, Holding, Finish
  <2>2. Types' BY <1>7 DEF Inv, Types, Points, Last, Finish
  <2>3. Holding' BY <1>7, <2>1 DEF Holding, Turning, Finish
  <2>4. Ordered' BY <2>1 DEF Ordered
  <2>5. Published' BY <1>7 DEF Inv, Types, Published, Points, Turning, Last, Finish
  <2>6. Listed' BY <1>7, <2>1 DEF Listed, Finish
  <2>7. QED BY <2>2, <2>3, <2>4, <2>5, <2>6 DEF Inv
<1>8. CASE RequestStop
  <2>1. stop' = TRUE /\ UNCHANGED <<pc, held, failed, phase, error, exited, fmt, pushing, listed, quit>>
    BY <1>8 DEF RequestStop
  <2>2. Matching' = Matching BY <2>1 DEF Matching, BySec, ByPid, ByName
  <2>3. Types' BY <2>1 DEF Inv, Types
  <2>4. Holding' /\ Ordered' BY <2>1 DEF Inv, Holding, Ordered
  <2>5. Published' BY <2>1 DEF Inv, Published
  <2>6. Listed' BY <2>1, <2>2 DEF Inv, Listed
  <2>7. QED BY <2>3, <2>4, <2>5, <2>6 DEF Inv
<1>9. CASE UNCHANGED vars
  <2>1. UNCHANGED <<pc, held, failed, shared, listed, quit>> BY <1>9 DEF vars
  <2>2. Matching' = Matching BY <2>1 DEF Matching, BySec, ByPid, ByName
  <2>3. Types' BY <2>1 DEF Inv, Types
  <2>4. Holding' /\ Ordered' BY <2>1 DEF Inv, Holding, Ordered
  <2>5. Published' BY <2>1 DEF Inv, Published
  <2>6. Listed' BY <2>1, <2>2 DEF Inv, Listed
  <2>7. QED BY <2>3, <2>4, <2>5, <2>6 DEF Inv
<1>10. QED
  BY <1>1, <1>2, <1>3, <1>4, <1>5, <1>6, <1>7, <1>8, <1>9 DEF Next, Runs, Quiet

LEMMA Invariant == Spec => []Inv
BY InvInit, InvStep, PTL DEF Spec

-----------------------------------------------------------------------------
LEMMA OrderFollows == Inv => HeldInOrder
<1> SUFFICES ASSUME Inv, NEW r \in held PROVE Needs(r) \subseteq held
  BY DEF HeldInOrder
<1>1. r \in Linked BY DEF Inv, Holding
<1>2. CASE r \in {"main_loop", "context"} BY <1>2 DEF Needs, Inv, Ordered
<1>3. CASE r \in {"core", "registry"} BY <1>3 DEF Needs, Inv, Ordered
<1>4. CASE r \in {"registry_listener", "stream"} BY <1>4 DEF Needs, Inv, Ordered
<1>5. CASE r \in {"listener", "link"} BY <1>5 DEF Needs, Inv, Ordered
<1>6. QED BY <1>1, <1>2, <1>3, <1>4, <1>5 DEF Linked, Listening, Daemon

\* Whatever call fails and whenever the stop comes, a stream is disconnected before
\* its listener and itself, and everything before the context and the loop.
THEOREM ReleasesInOrder == Spec => []HeldInOrder
BY OrderFollows, Invariant, PTL

LEMMA ReleaseFollows == Inv => ReleasedWhenFinished
BY DEF Inv, Types, Points, Turning, Last, Holding, Published, ReleasedWhenFinished

\* A worker that shows it has finished holds no PipeWire object.
THEOREM ReleasesAll == Spec => []ReleasedWhenFinished
BY ReleaseFollows, Invariant, PTL

LEMMA ListFollows == Inv => GivesUpInVainOnly
<1> SUFFICES ASSUME Inv, failed, target = 0, "registry" \in held, NEW i \in DOMAIN nodes
             PROVE  Grounds(nodes[i]) = 0
  BY DEF GivesUpInVainOnly
<1>1. i \notin Matching BY DEF Inv, Listed
<1>2. ~BySec(nodes[i]) /\ ~ByPid(nodes[i]) /\ ~ByName(nodes[i]) BY <1>1 DEF Matching
<1>3. QED BY <1>2 DEF Grounds

\* However streams and clients interleave with the turns of the listing, and wherever
\* in a turn its time runs out, a listing that failed leaves no stream behind that
\* is the target's: what a turn brought is looked at before the clock is.
THEOREM GivesUpInVain == Spec => []GivesUpInVainOnly
BY ListFollows, Invariant, PTL

-----------------------------------------------------------------------------
\* Every step of the worker is one of the contract's, or shows nothing.
LEMMA StepKeepsContract == Inv /\ [Next]_vars => [Contract!Next]_(Contract!shared)
<1> SUFFICES ASSUME Inv, [Next]_vars PROVE Contract!Next \/ UNCHANGED shared
  BY DEF shared, Contract!shared
<1>1. CASE Call \/ CallFails \/ GiveUp \/ Release \/ UNCHANGED vars
  BY <1>1 DEF Call, CallFails, GiveUp, Fails, Release, vars, shared
<1>2. CASE Quiet
  BY <1>2 DEF Quiet, ListOn, Iterated, Pick, LookInVain, DeadlinePasses,
              ListFormats, ClientAppears, NodeAppears,
              LoopEnds, LoopTurns, ParamChanged, ProcessStopped, ProcessIdle, NothingToAnnounce, shared
<1>3. CASE ProcessPushes \/ PushEnds
  <2>1. phase # "finished" /\ ~error
    BY <1>3 DEF ProcessPushes, PushEnds, Inv, Types, Published, Turning
  <2>2. pushing' = ~pushing BY <1>3 DEF ProcessPushes, PushEnds, Inv, Published
  <2>3. UNCHANGED <<phase, error, exited, fmt, stop>> BY <1>3 DEF ProcessPushes, PushEnds
  <2>4. Contract!Push BY <2>1, <2>2, <2>3 DEF Contract!Push
  <2>5. QED BY <2>4 DEF Contract!Next
<1>4. CASE StoreFormat
  <2>1. Contract!StoreFormat BY <1>4 DEF StoreFormat, Contract!StoreFormat
  <2>2. QED BY <2>1 DEF Contract!Next
<1>5. CASE Announce
  <2>1. Contract!Announce BY <1>5 DEF Inv, Published, Announce, Contract!Announce
  <2>2. QED BY <2>1 DEF Contract!Next
<1>6. CASE Return
  <2>1. CASE failed
    <3>1. Contract!Fail BY <1>6, <2>1 DEF Inv, Published, Return, Contract!Fail
    <3>2. QED BY <3>1 DEF Contract!Next
  <2>2. CASE ~failed BY <1>6, <2>2 DEF Inv, Types, Published, Return, shared
  <2>3. QED BY <2>1, <2>2
<1>7. CASE Finish
  <2>1. stop \/ error BY <1>7 DEF Inv, Published, Finish
  <2>2. phase # "finished" /\ ~pushing BY <1>7 DEF Inv, Published, Finish
  <2>3. Contract!Finish BY <1>7, <2>1, <2>2 DEF Finish, Contract!Finish
  <2>4. QED BY <2>3 DEF Contract!Next
<1>8. CASE RequestStop
  <2>1. Contract!Stop BY <1>8 DEF RequestStop, Contract!Stop
  <2>2. QED BY <2>1 DEF Contract!Next
<1>9. QED
  BY <1>1, <1>2, <1>3, <1>4, <1>5, <1>6, <1>7, <1>8 DEF Next, Runs, Quiet

\* The PipeWire worker, whose callbacks run on its own thread, does what lib.rs
\* relies on: a format before the announcement, no audio in the ring after the end,
\* an end only when it was asked for or has an error to show.
THEOREM PipeWireImplementsContract == Spec => Contract!Spec
<1>1. Init => Contract!Init BY DEF Init, Contract!Init
<1>2. QED BY <1>1, StepKeepsContract, Invariant, PTL DEF Spec, Contract!Spec
=============================================================================
