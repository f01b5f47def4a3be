----------------------------- MODULE TapProofs -----------------------------
(***************************************************************************)
(* What is proved about TapWorker: it releases in order and, but for one   *)
(* description, completely, io_proc finds its state, and it implements     *)
(* WorkerContract.                                                         *)
(***************************************************************************)
EXTENDS TapWorker, TLAPS

Contract == INSTANCE WorkerContract

-----------------------------------------------------------------------------
\* What is held at each point.
Up == {"tap", "state", "proc"}
Holding ==
    /\ pc \in {"resolve", "desc"} => held = {}
    /\ pc \in {"number", "tap"} => held = {"desc"}
    /\ pc = "array" => held = {"desc", "number"}
    /\ pc \in {"format", "proc"} => held = {"tap"}
    /\ pc = "start" => held = Up
    /\ pc \in {"describe", "announce", "loop"} => held = Up \cup {"running"}
    /\ pc = "unwind" =>
           \/ held = {} \/ ForgetsDescription
           \/ held \in {{"tap"}, {"tap", "state"}, Up, Up \cup {"running"}}
    /\ pc \in {"finish", "gone"} => held = {} \/ ForgetsDescription

\* The points, and how far the CoreAudio thread can be.
Points == {"resolve", "desc", "number", "array", "tap", "format", "proc", "start",
           "describe", "announce", "loop", "unwind", "finish", "gone"}
Types ==
    /\ pc \in Points /\ hal \in {"out", "in", "push"}
    /\ failed \in BOOLEAN /\ stop \in BOOLEAN /\ error \in BOOLEAN /\ fmt \in BOOLEAN
    /\ phase \in {"starting", "running", "finished"}
Calling ==
    /\ hal # "out" => {"state", "proc"} \subseteq held
    /\ pushing = (hal = "push")

\* What is published, and why the worker is on its way out.
Published ==
    /\ exited = FALSE
    /\ pc \notin {"unwind", "finish", "gone"} => ~failed
    /\ error = (failed /\ pc \in {"finish", "gone"})
    /\ pc \in Points \ {"loop", "unwind", "finish", "gone"} => phase = "starting"
    /\ pc = "announce" => fmt
    /\ pc = "loop" => phase = "running"
    /\ pc \in {"unwind", "finish"} => phase \in {"starting", "running"} /\ (failed \/ stop)
    /\ pc = "gone" => phase = "finished"
    /\ phase = "running" => fmt

TapInv == Types /\ Holding /\ Calling /\ Published

-----------------------------------------------------------------------------
\* The table of calls, row by row.
LEMMA Table ==
    /\ Len(Calls) - 1 = 8
    /\ Calls[1] = [name |-> "resolve", takes |-> {}, gives |-> {}]
    /\ Calls[2] = [name |-> "desc", takes |-> {"desc"}, gives |-> {}]
    /\ Calls[3] = [name |-> "number", takes |-> {"number"}, gives |-> {}]
    /\ Calls[4] = [name |-> "array", takes |-> {}, gives |-> {"number"}]
    /\ Calls[5] = [name |-> "tap", takes |-> {"tap"}, gives |-> {"desc"}]
    /\ Calls[6] = [name |-> "format", takes |-> {}, gives |-> {}]
    /\ Calls[7] = [name |-> "proc", takes |-> {"state", "proc"}, gives |-> {}]
    /\ Calls[8] = [name |-> "start", takes |-> {"running"}, gives |-> {}]
    /\ Calls[9].name = "describe"
BY DEF Calls

LEMMA CallCases ==
    ASSUME Call
    PROVE  \/ pc = "resolve" /\ pc' = "desc" /\ held' = held
           \/ pc = "desc" /\ pc' = "number" /\ held' = held \cup {"desc"}
           \/ pc = "number" /\ pc' = "array" /\ held' = held \cup {"number"}
           \/ pc = "array" /\ pc' = "tap" /\ held' = held \ {"number"}
           \/ pc = "tap" /\ pc' = "format" /\ held' = (held \cup {"tap"}) \ {"desc"}
           \/ pc = "format" /\ pc' = "proc" /\ held' = held
           \/ pc = "proc" /\ pc' = "start" /\ held' = held \cup {"state", "proc"}
           \/ pc = "start" /\ pc' = "describe" /\ held' = held \cup {"running"}
<1>1. PICK i \in 1..8 : /\ pc = Calls[i].name
                        /\ held' = (held \cup Calls[i].takes) \ Calls[i].gives
                        /\ pc' = Calls[i + 1].name
  BY Table DEF Call
<1>2. i \in {1, 2, 3, 4, 5, 6, 7, 8} OBVIOUS
<1>3. QED BY <1>1, <1>2, Table

LEMMA CallFailsCases ==
    ASSUME CallFails
    PROVE  \/ pc \in {"resolve", "desc", "number", "format", "start"} /\ held' = held
           \/ pc = "array" /\ held' = held \ {"number"}
           \/ pc = "tap" /\ held' = held \ {"desc"}
           \/ pc = "proc" /\ held' = held \cup {"state"}
<1>1. PICK i \in 1..8 : /\ pc = Calls[i].name
                        /\ held' = (held \cup (Calls[i].takes \cap {"state"})) \ Calls[i].gives
  BY Table DEF CallFails
<1>2. i \in {1, 2, 3, 4, 5, 6, 7, 8} OBVIOUS
<1>3. QED BY <1>1, <1>2, Table

\* What goes next when taking down, for each of the sets that can be left.
LEMMA Order ==
    /\ Unwinding[1] = "running" /\ Unwinding[2] = "proc"
    /\ Unwinding[3] = "state" /\ Unwinding[4] = "tap"
    /\ Leaving = {k \in {1, 2, 3, 4} : Unwinding[k] \in held}
<1>1. DOMAIN Unwinding = {1, 2, 3, 4} BY DEF Unwinding
<1>2. QED BY <1>1 DEF Unwinding, Leaving

LEMMA NextIs ==
    /\ held = Up \cup {"running"} => NextOut = "running"
    /\ held = Up => NextOut = "proc"
    /\ held = {"tap", "state"} => NextOut = "state"
    /\ held = {"tap"} => NextOut = "tap"
    /\ held \subseteq {"desc"} => Leaving = {}
    /\ "tap" \in held => Leaving # {}
<1>1. ASSUME held = Up \cup {"running"} PROVE NextOut = "running"
  <2>1. Leaving = {1, 2, 3, 4} BY <1>1, Order DEF Up
  <2>2. QED BY <2>1, Order DEF NextOut
<1>2. ASSUME held = Up PROVE NextOut = "proc"
  <2>1. Leaving = {2, 3, 4} BY <1>2, Order DEF Up
  <2>2. QED BY <2>1, Order DEF NextOut
<1>3. ASSUME held = {"tap", "state"} PROVE NextOut = "state"
  <2>1. Leaving = {3, 4} BY <1>3, Order
  <2>2. QED BY <2>1, Order DEF NextOut
<1>4. ASSUME held = {"tap"} PROVE NextOut = "tap"
  <2>1. Leaving = {4} BY <1>4, Order
  <2>2. QED BY <2>1, Order DEF NextOut
<1>5. held \subseteq {"desc"} => Leaving = {} BY Order
<1>6. "tap" \in held => Leaving # {} BY Order
<1>7. QED BY <1>1, <1>2, <1>3, <1>4, <1>5, <1>6

LEMMA ReleaseCases ==
    ASSUME Holding, Release
    PROVE  \/ held = Up \cup {"running"} /\ held' = Up
           \/ held = Up /\ held' = {"tap", "state"} /\ hal = "out"
           \/ held = {"tap", "state"} /\ held' = {"tap"}
           \/ held = {"tap"} /\ held' = {}
<1>1. pc = "unwind" /\ Leaving # {} /\ held' = held \ {NextOut}
      /\ (NextOut = "proc" => hal = "out")
  BY DEF Release
<1>2. held \in {{"tap"}, {"tap", "state"}, Up, Up \cup {"running"}}
  BY <1>1, NextIs DEF Holding, ForgetsDescription
<1>3. CASE held = Up \cup {"running"} BY <1>1, <1>3, NextIs DEF Up
<1>4. CASE held = Up BY <1>1, <1>4, NextIs DEF Up
<1>5. CASE held = {"tap", "state"} BY <1>1, <1>5, NextIs
<1>6. CASE held = {"tap"} BY <1>1, <1>6, NextIs
<1>7. QED BY <1>2, <1>3, <1>4, <1>5, <1>6

\* run returns with nothing left, or with a description after an error.
LEMMA ReturnLeaves ==
    ASSUME Holding, Return
    PROVE  held = {} \/ ForgetsDescription
BY NextIs DEF Holding, Return, Up, ForgetsDescription

-----------------------------------------------------------------------------
LEMMA TapInit == Init => TapInv
BY DEF Init, TapInv, Types, Points, Holding, Calling, Published, Up

\* Every step preserves the invariant.
LEMMA TapStep == TapInv /\ [Next]_vars => TapInv'
<1> SUFFICES ASSUME TapInv, [Next]_vars PROVE TapInv'
  OBVIOUS
<1> USE DEF shared, ForgetsDescription
<1>1. CASE Call
  <2>1. UNCHANGED <<failed, shared, hal>> BY <1>1 DEF Call
  <2>2. Types' BY <1>1, <2>1, CallCases DEF TapInv, Types, Points
  <2>3. Holding' BY <1>1, CallCases DEF TapInv, Holding, Up
  <2>4. Calling' BY <1>1, <2>1, CallCases DEF TapInv, Calling, Holding, Up
  <2>5. Published' BY <1>1, <2>1, CallCases DEF TapInv, Published, Points
  <2>6. QED BY <2>2, <2>3, <2>4, <2>5 DEF TapInv
<1>2. CASE CallFails
  <2>1. failed' = TRUE /\ pc' = "unwind" /\ UNCHANGED <<shared, hal>> BY <1>2 DEF CallFails
  <2>2. Types' BY <2>1 DEF TapInv, Types, Points
  <2>3. Holding' BY <1>2, <2>1, CallFailsCases DEF TapInv, Holding, Up
  <2>4. Calling' BY <1>2, <2>1, CallFailsCases DEF TapInv, Calling, Holding, Up
  <2>5. Published' BY <1>2, <2>1, CallFailsCases DEF TapInv, Published, Points
  <2>6. QED BY <2>2, <2>3, <2>4, <2>5 DEF TapInv
<1>3. CASE Describe \/ Announce \/ LoopEnds
  <2>1. Types' BY <1>3 DEF TapInv, Types, Points, Describe, Announce, LoopEnds
  <2>2. Holding' BY <1>3 DEF TapInv, Holding, Describe, Announce, LoopEnds
  <2>3. Calling' BY <1>3 DEF TapInv, Calling, Describe, Announce, LoopEnds
  <2>4. Published' BY <1>3 DEF TapInv, Types, Published, Points, Describe, Announce, LoopEnds
  <2>5. QED BY <2>1, <2>2, <2>3, <2>4 DEF TapInv
<1>4. CASE Release
  <2>1. pc = "unwind" /\ UNCHANGED <<pc, failed, shared, hal>> BY <1>4 DEF Release
  <2>2. Types' BY <2>1 DEF TapInv, Types, Points
  <2>3. Holding' BY <1>4, <2>1, ReleaseCases DEF TapInv, Holding, Up
  <2>4. Calling' BY <1>4, <2>1, ReleaseCases DEF TapInv, Calling, Holding, Up
  <2>5. Published' BY <2>1 DEF TapInv, Published, Points
  <2>6. QED BY <2>2, <2>3, <2>4, <2>5 DEF TapInv
<1>5. CASE Return
  <2>1. held = {} \/ ForgetsDescription BY <1>5, ReturnLeaves DEF TapInv
  <2>2. Types' BY <1>5 DEF TapInv, Types, Points, Return
  <2>3. Holding' BY <1>5, <2>1 DEF Holding, Return
  <2>4. Calling' BY <1>5 DEF TapInv, Calling, Return
  <2>5. Published' BY <1>5 DEF TapInv, Types, Published, Points, Return
  <2>6. QED BY <2>2, <2>3, <2>4, <2>5 DEF TapInv
<1>6. CASE Finish
  <2>1. Types' BY <1>6 DEF TapInv, Types, Points, Finish
  <2>2. Holding' BY <1>6 DEF TapInv, Holding, Finish
  <2>3. Calling' BY <1>6 DEF TapInv, Calling, Finish
  <2>4. Published' BY <1>6 DEF TapInv, Published, Points, Finish
  <2>5. QED BY <2>1, <2>2, <2>3, <2>4 DEF TapInv
<1>7. CASE IoProcEnters
  <2>1. {"state", "proc"} \subseteq held
    <3>1. "running" \in held BY <1>7 DEF IoProcEnters
    <3>2. QED BY <3>1 DEF TapInv, Types, Points, Holding, Up
  <2>2. Types' BY <1>7 DEF TapInv, Types, IoProcEnters
  <2>3. Holding' BY <1>7 DEF TapInv, Holding, IoProcEnters
  <2>4. Calling' BY <1>7, <2>1 DEF TapInv, Calling, IoProcEnters
  <2>5. Published' BY <1>7 DEF TapInv, Published, IoProcEnters
  <2>6. QED BY <2>2, <2>3, <2>4, <2>5 DEF TapInv
<1>8. CASE IoProcPushes \/ IoProcReturns
  <2>1. Types' BY <1>8 DEF TapInv, Types, IoProcPushes, IoProcReturns
  <2>2. Holding' BY <1>8 DEF TapInv, Holding, IoProcPushes, IoProcReturns
  <2>3. Calling' BY <1>8 DEF TapInv, Calling, IoProcPushes, IoProcReturns
  <2>4. Published' BY <1>8 DEF TapInv, Published, IoProcPushes, IoProcReturns
  <2>5. QED BY <2>1, <2>2, <2>3, <2>4 DEF TapInv
<1>9. CASE RequestStop
  <2>1. Types' BY <1>9 DEF TapInv, Types, RequestStop
  <2>2. Holding' BY <1>9 DEF TapInv, Holding, RequestStop
  <2>3. Calling' BY <1>9 DEF TapInv, Calling, RequestStop
  <2>4. Published' BY <1>9 DEF TapInv, Published, RequestStop
  <2>5. QED BY <2>1, <2>2, <2>3, <2>4 DEF TapInv
<1>10. CASE UNCHANGED vars
  BY <1>10 DEF vars, TapInv, Types, Holding, Calling, Published
<1>11. QED
  BY <1>1, <1>2, <1>3, <1>4, <1>5, <1>6, <1>7, <1>8, <1>9, <1>10 DEF Next, Worker

LEMMA TapInvariant == Spec => []TapInv
BY TapInit, TapStep, PTL DEF Spec

-----------------------------------------------------------------------------
LEMMA StateFollows == TapInv => CallbackFindsItsState
BY DEF TapInv, Calling, CallbackFindsItsState

\* io_proc, which AudioDeviceStop does not wait for, finds the MacState it has a
\* raw pointer to, at whatever moment the capture is stopped or fails.
THEOREM IoProcFindsItsState == Spec => []CallbackFindsItsState
BY StateFollows, TapInvariant, PTL

LEMMA OrderFollows == TapInv => HeldInOrder
<1> SUFFICES ASSUME TapInv PROVE \A r \in held : Needs(r) \subseteq held
  BY DEF HeldInOrder
<1>1. "running" \in held => "proc" \in held BY DEF TapInv, Types, Points, Holding, Up, ForgetsDescription
<1>2. "proc" \in held => "tap" \in held BY DEF TapInv, Types, Points, Holding, Up, ForgetsDescription
<1>3. QED BY <1>1, <1>2 DEF Needs

\* run takes down what it set up in order, on every path.
THEOREM ReleasesInOrder == Spec => []HeldInOrder
BY OrderFollows, TapInvariant, PTL

LEMMA ReleaseFollows == TapInv => ReleasedWhenFinished
BY DEF TapInv, ForgetsDescription, Types, Points, Holding, Calling, Published, ReleasedWhenFinished

\* Whoever sees PHASE_FINISHED finds tap, IOProc and state gone and io_proc left;
\* all that can be left is the description of a tap that was never made, after an
\* error in making its number or its array.
THEOREM ReleasesAll == Spec => []ReleasedWhenFinished
BY ReleaseFollows, TapInvariant, PTL

-----------------------------------------------------------------------------
\* Every step of the worker and of the CoreAudio thread is one of the contract's.
LEMMA StepKeepsContract == TapInv /\ [Next]_vars => [Contract!Next]_(Contract!shared)
<1> SUFFICES ASSUME TapInv, [Next]_vars PROVE Contract!Next \/ UNCHANGED shared
  BY DEF shared, Contract!shared
<1>1. CASE Call \/ CallFails \/ LoopEnds \/ Release \/ IoProcEnters
  BY <1>1 DEF Call, CallFails, LoopEnds, Release, IoProcEnters
<1>2. CASE Describe
  <2>1. Contract!StoreFormat BY <1>2 DEF TapInv, Published, Points, Describe, Contract!StoreFormat
  <2>2. QED BY <2>1 DEF Contract!Next
<1>3. CASE Announce
  <2>1. Contract!Announce BY <1>3 DEF TapInv, Published, Points, Announce, Contract!Announce
  <2>2. QED BY <2>1 DEF Contract!Next
<1>4. CASE Return
  <2>1. ~pushing
    <3>1. held \subseteq {"desc"} BY <1>4, ReturnLeaves DEF TapInv, ForgetsDescription
    <3>2. QED BY <3>1 DEF TapInv, Calling, Types
  <2>2. CASE failed
    <3>1. Contract!Fail BY <1>4, <2>1, <2>2 DEF TapInv, Published, Return, Contract!Fail
    <3>2. QED BY <3>1 DEF Contract!Next
  <2>3. CASE ~failed
    BY <1>4, <2>3 DEF TapInv, Types, Published, Return, shared
  <2>4. QED BY <2>2, <2>3
<1>5. CASE Finish
  <2>1. ~pushing BY <1>5 DEF TapInv, Holding, Calling, Types, Finish, ForgetsDescription
  <2>2. stop \/ error BY <1>5 DEF TapInv, Published, Finish
  <2>3. phase # "finished" BY <1>5 DEF TapInv, Published, Finish
  <2>4. Contract!Finish BY <1>5, <2>1, <2>2, <2>3 DEF Finish, Contract!Finish
  <2>5. QED BY <2>4 DEF Contract!Next
<1>6. CASE IoProcPushes \/ IoProcReturns
  <2>1. hal # "out" => pc \notin {"finish", "gone"} BY DEF TapInv, Holding, Calling, ForgetsDescription
  <2>2. hal # "out" BY <1>6 DEF IoProcPushes, IoProcReturns
  <2>3. phase # "finished" /\ ~error
    BY <2>1, <2>2 DEF TapInv, Types, Published, Points
  <2>4. UNCHANGED <<phase, error, exited, fmt, stop>> BY <1>6 DEF IoProcPushes, IoProcReturns
  <2>5. pushing' = ~pushing \/ UNCHANGED pushing
    BY <1>6 DEF TapInv, Types, Calling, IoProcPushes, IoProcReturns
  <2>6. CASE pushing' = ~pushing
    BY <2>3, <2>4, <2>6 DEF Contract!Push, Contract!Next
  <2>7. CASE UNCHANGED pushing BY <2>4, <2>7 DEF shared
  <2>8. QED BY <2>5, <2>6, <2>7
<1>7. CASE RequestStop
  <2>1. Contract!Stop BY <1>7 DEF RequestStop, Contract!Stop
  <2>2. QED BY <2>1 DEF Contract!Next
<1>8. CASE UNCHANGED vars BY <1>8 DEF vars, shared
<1>9. QED
  BY <1>1, <1>2, <1>3, <1>4, <1>5, <1>6, <1>7, <1>8 DEF Next, Worker

\* The CoreAudio worker, with the audio thread that pushes for it, does what lib.rs
\* relies on: no audio once it has finished or told its error, a format before the
\* announcement, an end only with a cause.
THEOREM TapImplementsContract == Spec => Contract!Spec
<1>1. Init => Contract!Init BY DEF Init, Contract!Init
<1>2. QED BY <1>1, StepKeepsContract, TapInvariant, PTL DEF Spec, Contract!Spec
=============================================================================
