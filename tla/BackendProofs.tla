--------------------------- MODULE BackendProofs ---------------------------
(***************************************************************************)
(* Theorems about what differs between the platforms, as MCBackends puts   *)
(* it together: each worker inside the composition keeps what the proof    *)
(* modules of the three backends establish of it alone, and each keeps the *)
(* contract that lib.rs relies on; the two threads of engage_capturing;    *)
(* the bytes the callbacks read; and the resampler all of them feed.       *)
(***************************************************************************)
EXTENDS MCBackends, TLAPS

-----------------------------------------------------------------------------
-----------------------------------------------------------------------------
\* What follows from WorkerContract alone, and so of every backend's worker.
\* Promise, and that an error is noted only once nothing is pushed any more.
ContractInv ==
    /\ phase \in {"starting", "running", "finished"}
    /\ Contract!Promise
    /\ error => ~pushing

LEMMA ContractStep == ContractInv /\ [Contract!Next]_(Contract!shared) => ContractInv'
<1> SUFFICES ASSUME ContractInv, [Contract!Next]_(Contract!shared) PROVE ContractInv'
  OBVIOUS
<1> USE DEF ContractInv, Contract!Promise
<1>1. CASE Contract!Stop BY <1>1 DEF Contract!Stop
<1>2. CASE Contract!StoreFormat BY <1>2 DEF Contract!StoreFormat
<1>3. CASE Contract!Announce BY <1>3 DEF Contract!Announce
<1>4. CASE Contract!NoteExit BY <1>4 DEF Contract!NoteExit
<1>5. CASE Contract!Push BY <1>5 DEF Contract!Push
<1>6. CASE Contract!Fail BY <1>6 DEF Contract!Fail
<1>7. CASE Contract!Finish BY <1>7 DEF Contract!Finish
<1>8. CASE UNCHANGED Contract!shared BY <1>8 DEF Contract!shared
<1>9. QED
  BY <1>1, <1>2, <1>3, <1>4, <1>5, <1>6, <1>7, <1>8 DEF Contract!Next

\* A worker that has finished puts nothing into the ring any more and was stopped,
\* lost its target or failed; a failure and the target's exit exclude each other;
\* a running capture has a format to show.  lib.rs's watchdog and reap_worker rely
\* on all of it.
THEOREM PromiseKept == Contract!Spec => []Contract!Promise
<1>1. Contract!Init => ContractInv BY DEF Contract!Init, ContractInv, Contract!Promise
<1>2. ContractInv => Contract!Promise BY DEF ContractInv
<1>3. QED BY <1>1, <1>2, ContractStep, PTL DEF Contract!Spec

-----------------------------------------------------------------------------
\* engage_capturing against request_stop, with a store buffer on either side.
Stores == {"stop", "capturing"} \X BOOLEAN
RaceTypes ==
    /\ DOMAIN mem = {"stop", "capturing"} /\ mem.capturing \in BOOLEAN
    /\ buffer \in [{"bus", "worker"} -> Seq(Stores)]
    /\ wpc \in {"check", "set", "recheck", "undo", "loop", "gone"}

\* The last word on CAPTURING that memory has or will get of an idle session.
LastIsMuted ==
    IF buffer["bus"] = << >> THEN ~mem.capturing
    ELSE buffer["bus"][Len(buffer["bus"])] = <<"capturing", FALSE>>
IdleIsMuted ==
    session = "idle" => wpc = "gone" /\ buffer["worker"] = << >> /\ LastIsMuted
RaceInv == RaceTypes /\ IdleIsMuted

\* A sequence of stores, extended by some.
LEMMA OneMore ==
    ASSUME NEW S, NEW s \in Seq(S), NEW x \in S
    PROVE  /\ <<x>> \in Seq(S)
           /\ s \o <<x>> # << >> /\ (s \o <<x>>)[Len(s \o <<x>>)] = x
<1>1. <<x>> \in Seq(S) /\ Len(<<x>>) = 1 /\ <<x>>[1] = x OBVIOUS
<1>2. Len(s) \in Nat /\ Len(s \o <<x>>) = Len(s) + 1 BY <1>1
<1>3. (s \o <<x>>)[Len(s) + 1] = x BY <1>1, <1>2
<1>4. s \o <<x>> # << >> BY <1>2
<1>5. QED BY <1>1, <1>2, <1>3, <1>4

LEMMA OneLeft == ASSUME NEW S, NEW s \in Seq(S), s # << >>, Tail(s) = << >> PROVE Len(s) = 1
<1>1. Len(s) \in Nat /\ Len(s) # 0 OBVIOUS
<1>2. Len(Tail(s)) = Len(s) - 1 BY <1>1
<1>3. Len(<< >>) = 0 OBVIOUS
<1>4. Len(Tail(s)) = 0 BY <1>3
<1>5. QED BY <1>1, <1>2, <1>4

LEMMA SomeStores ==
    ASSUME NEW b \in BOOLEAN, NEW c \in BOOLEAN
    PROVE  /\ <<<<"capturing", b>>>> \in Seq(Stores)
           /\ <<<<"stop", b>>, <<"capturing", c>>>> \in Seq(Stores)
<1>1. <<"capturing", b>> \in Stores /\ <<"capturing", c>> \in Stores /\ <<"stop", b>> \in Stores
  BY DEF Stores
<1>2. ASSUME NEW x \in Stores, NEW y \in Stores
      PROVE  <<x>> \in Seq(Stores) /\ <<x, y>> \in Seq(Stores)
  OBVIOUS
<1>3. QED BY <1>1, <1>2

\* What a handler or a worker appends are stores.
LEMMA Appended ==
    ASSUME RaceTypes, NEW t \in {"bus", "worker"}, NEW stores \in Seq(Stores),
           Race!Issue(t, stores)
    PROVE  /\ buffer' \in [{"bus", "worker"} -> Seq(Stores)]
           /\ buffer'[t] = buffer[t] \o stores
           /\ \A u \in {"bus", "worker"} : u # t => buffer'[u] = buffer[u]
BY DEF RaceTypes, Race!Issue

LEMMA RaceStep == RaceInv /\ [Race!Next]_(Race!vars) => RaceInv'
<1> SUFFICES ASSUME RaceInv, [Race!Next]_(Race!vars) PROVE RaceInv'
  OBVIOUS
<1> USE DEF RaceInv
<1>1. CASE Race!Start
  <2>1. RaceTypes' BY <1>1 DEF Race!Start, RaceTypes
  <2>2. QED BY <1>1, <2>1 DEF Race!Start, IdleIsMuted
<1>2. CASE Race!Adopt
  <2>1. <<<<"capturing", TRUE>>>> \in Seq(Stores) BY SomeStores
  <2>2. Race!Issue("bus", <<<<"capturing", TRUE>>>>) BY <1>2 DEF Race!Adopt
  <2>3. buffer' \in [{"bus", "worker"} -> Seq(Stores)] BY <2>1, <2>2, Appended
  <2>4. QED BY <1>2, <2>3 DEF Race!Adopt, RaceTypes, IdleIsMuted
<1>3. CASE Race!Stop
  <2> DEFINE new == <<<<"stop", TRUE>>, <<"capturing", FALSE>>>>
  <2>1. new \in Seq(Stores) BY SomeStores
  <2>2. Race!Issue("bus", new) BY <1>3 DEF Race!Stop
  <2> HIDE DEF new
  <2>3. buffer' \in [{"bus", "worker"} -> Seq(Stores)] BY <2>1, <2>2, Appended
  <2>4. QED BY <1>3, <2>3 DEF Race!Stop, RaceTypes, IdleIsMuted
<1>4. CASE Race!Reap
  <2> DEFINE x == <<"capturing", FALSE>>
  <2>1. x \in Stores BY DEF Stores
  <2>2. Race!Issue("bus", <<x>>) /\ buffer["bus"] \in Seq(Stores) BY <1>4 DEF Race!Reap, RaceTypes
  <2> HIDE DEF x
  <2>3. <<x>> \in Seq(Stores) BY SomeStores DEF x
  <2>4. /\ buffer' \in [{"bus", "worker"} -> Seq(Stores)]
        /\ buffer'["bus"] = buffer["bus"] \o <<x>> /\ buffer'["worker"] = buffer["worker"]
    BY <2>2, <2>3, Appended
  <2>5. buffer'["bus"] # << >> /\ buffer'["bus"][Len(buffer'["bus"])] = x
    BY <2>1, <2>2, <2>4, OneMore
  <2>6. mem' = mem /\ wpc' = "gone" /\ buffer["worker"] = << >> BY <1>4 DEF Race!Reap
  <2>7. RaceTypes' BY <2>4, <2>6 DEF RaceTypes
  <2>8. LastIsMuted' BY <2>5 DEF LastIsMuted, x
  <2>9. QED BY <2>4, <2>6, <2>7, <2>8 DEF IdleIsMuted
<1>5. CASE Race!Check \/ Race!Recheck \/ Race!LoopEnds
  BY <1>5 DEF Race!Check, Race!Recheck, Race!LoopEnds, RaceTypes, IdleIsMuted, LastIsMuted
<1>6. CASE Race!SetCapturing
  <2>1. <<<<"capturing", TRUE>>>> \in Seq(Stores) BY SomeStores
  <2>2. Race!Issue("worker", <<<<"capturing", TRUE>>>>) BY <1>6 DEF Race!SetCapturing
  <2>3. buffer' \in [{"bus", "worker"} -> Seq(Stores)] BY <2>1, <2>2, Appended
  <2>4. QED BY <1>6, <2>3 DEF Race!SetCapturing, RaceTypes, IdleIsMuted
<1>7. CASE Race!Undo
  <2>1. <<<<"capturing", FALSE>>>> \in Seq(Stores) BY SomeStores
  <2>2. Race!Issue("worker", <<<<"capturing", FALSE>>>>) BY <1>7 DEF Race!Undo
  <2>3. buffer' \in [{"bus", "worker"} -> Seq(Stores)] BY <2>1, <2>2, Appended
  <2>4. QED BY <1>7, <2>3 DEF Race!Undo, RaceTypes, IdleIsMuted
<1>8. ASSUME NEW t \in {"bus", "worker"}, Race!Flush(t)
      PROVE  RaceInv'
  <2> DEFINE b == buffer[t]
  <2>1. b \in Seq(Stores) /\ b # << >> BY <1>8 DEF Race!Flush, RaceTypes
  <2>2. Head(b) \in Stores /\ Tail(b) \in Seq(Stores) BY <2>1
  <2>3. /\ mem' = [mem EXCEPT ![Head(b)[1]] = Head(b)[2]]
        /\ buffer' = [buffer EXCEPT ![t] = Tail(b)]
        /\ session' = session /\ wpc' = wpc
    BY <1>8 DEF Race!Flush
  <2>4. RaceTypes' BY <2>2, <2>3 DEF RaceTypes, Stores
  <2>5. ASSUME session = "idle" PROVE IdleIsMuted'
    <3>1. t = "bus" /\ b[Len(b)] = <<"capturing", FALSE>>
      BY <2>1, <2>5 DEF IdleIsMuted, LastIsMuted
    <3>2. buffer'["worker"] = << >> /\ wpc' = "gone" /\ buffer'["bus"] = Tail(b)
      BY <2>3, <2>5, <3>1 DEF IdleIsMuted, RaceTypes
    <3>3. CASE Tail(b) = << >>
      <4>1. Len(b) = 1 BY <2>1, <3>3, OneLeft
      <4>2. Head(b) = b[1] BY <2>1
      <4>3. Head(b) = <<"capturing", FALSE>> BY <3>1, <4>1, <4>2
      <4>4. <<"capturing", FALSE>>[1] = "capturing" /\ <<"capturing", FALSE>>[2] = FALSE OBVIOUS
      <4>5. Head(b)[1] = "capturing" /\ Head(b)[2] = FALSE BY <4>3, <4>4, Zenon
      <4>6. mem' = [mem EXCEPT !["capturing"] = FALSE] BY <2>3, <4>5
      <4>7. ~mem'.capturing BY <4>6 DEF RaceTypes
      <4>8. QED BY <3>2, <3>3, <4>7 DEF IdleIsMuted, LastIsMuted
    <3>4. CASE Tail(b) # << >>
      <4>1. Tail(b)[Len(Tail(b))] = b[Len(b)] BY <2>1, <3>4
      <4>2. QED BY <3>1, <3>2, <3>4, <4>1 DEF IdleIsMuted, LastIsMuted
    <3>5. QED BY <3>3, <3>4
  <2>6. QED BY <2>3, <2>4, <2>5 DEF IdleIsMuted
<1>9. CASE UNCHANGED Race!vars
  BY <1>9 DEF Race!vars, RaceTypes, IdleIsMuted, LastIsMuted
<1>10. QED
  BY <1>1, <1>2, <1>3, <1>4, <1>5, <1>6, <1>7, <1>8, <1>9 DEF Race!Next

LEMMA RaceInit == Race!Init => RaceInv
BY DEF Race!Init, RaceInv, RaceTypes, IdleIsMuted, LastIsMuted

-----------------------------------------------------------------------------
\* The proofs of the three workers, about the variables they share here.
Wasapi   == INSTANCE WasapiProofs
PipeWire == INSTANCE PipeWireProofs
Tap      == INSTANCE TapProofs
Parser   == INSTANCE ParseProofs

\* MCBackends and the proof modules instantiate the same worker modules.
LEMMA SameWindows ==
    /\ Windows!Init <=> Wasapi!Init
    /\ Windows!Next <=> Wasapi!Next
    /\ Windows!HeldInOrder <=> Wasapi!HeldInOrder
    /\ Windows!CallbackFindsItsState <=> Wasapi!CallbackFindsItsState
    /\ Windows!ReleasedWhenFinished <=> Wasapi!ReleasedWhenFinished
BY Zenon DEF
    Windows!shared, Wasapi!shared, Windows!Init, Wasapi!Init, Windows!Calls, Wasapi!Calls,
    Windows!Unwinding, Wasapi!Unwinding, Windows!Succeeds, Wasapi!Succeeds, Windows!Fails,
    Wasapi!Fails, Windows!Call, Wasapi!Call, Windows!CallFails, Wasapi!CallFails,
    Windows!CreateEventW, Wasapi!CreateEventW, Windows!Activate, Wasapi!Activate,
    Windows!Activated, Wasapi!Activated, Windows!ActivationTimesOut, Wasapi!ActivationTimesOut,
    Windows!StoreFormat, Wasapi!StoreFormat, Windows!Announce, Wasapi!Announce,
    Windows!LoopEnds, Wasapi!LoopEnds, Windows!LoopWaits, Wasapi!LoopWaits, Windows!LoopFails,
    Wasapi!LoopFails, Windows!GetBuffer, Wasapi!GetBuffer, Windows!ReleaseBuffer,
    Wasapi!ReleaseBuffer, Windows!Drained, Wasapi!Drained, Windows!TargetExited,
    Wasapi!TargetExited, Windows!TargetRuns, Wasapi!TargetRuns, Windows!Leaving, Wasapi!Leaving,
    Windows!NextOut, Wasapi!NextOut, Windows!AfterDrop, Wasapi!AfterDrop, Windows!Release,
    Wasapi!Release, Windows!Return, Wasapi!Return, Windows!Finish, Wasapi!Finish,
    Windows!ActivateCompleted, Wasapi!ActivateCompleted, Windows!EngineReleases,
    Wasapi!EngineReleases, Windows!RequestStop, Wasapi!RequestStop, Windows!Worker,
    Wasapi!Worker, Windows!Next, Wasapi!Next, Windows!Needs, Wasapi!Needs, Windows!HeldInOrder,
    Wasapi!HeldInOrder, Windows!CallbackFindsItsState, Wasapi!CallbackFindsItsState,
    Windows!ReleasedWhenFinished, Wasapi!ReleasedWhenFinished

LEMMA SameLinux ==
    /\ Linux!Init <=> PipeWire!Init
    /\ Linux!Next <=> PipeWire!Next
    /\ Linux!HeldInOrder <=> PipeWire!HeldInOrder
    /\ Linux!ReleasedWhenFinished <=> PipeWire!ReleasedWhenFinished
    /\ Linux!GivesUpInVainOnly <=> PipeWire!GivesUpInVainOnly
BY Zenon DEF
    Linux!listed, PipeWire!listed, Linux!shared, PipeWire!shared, Linux!NoClient,
    PipeWire!NoClient, Linux!NodeRecs, PipeWire!NodeRecs, Linux!Init, PipeWire!Init,
    Linux!DaemonCalls, PipeWire!DaemonCalls, Linux!StreamCalls, PipeWire!StreamCalls,
    Linux!LinkCall, PipeWire!LinkCall, Linux!LookInVain, PipeWire!LookInVain,
    Linux!DeadlinePasses, PipeWire!DeadlinePasses, Linux!Grounds, PipeWire!Grounds,
    Linux!Calls, PipeWire!Calls, Linux!Call, PipeWire!Call, Linux!Fails, PipeWire!Fails,
    Linux!CallFails, PipeWire!CallFails, Linux!ClientAppears, PipeWire!ClientAppears,
    Linux!NodeAppears, PipeWire!NodeAppears, Linux!Iterated, PipeWire!Iterated, Linux!BySec,
    PipeWire!BySec, Linux!ByPid, PipeWire!ByPid, Linux!ByName, PipeWire!ByName, Linux!Matching,
    PipeWire!Matching, Linux!Pick, PipeWire!Pick, Linux!ListOn, PipeWire!ListOn, Linux!GiveUp,
    PipeWire!GiveUp, Linux!ListFormats, PipeWire!ListFormats, Linux!Leaves, PipeWire!Leaves,
    Linux!LoopEnds, PipeWire!LoopEnds, Linux!LoopTurns, PipeWire!LoopTurns, Linux!ParamChanged,
    PipeWire!ParamChanged, Linux!ProcessStopped, PipeWire!ProcessStopped, Linux!ProcessPushes,
    PipeWire!ProcessPushes, Linux!PushEnds, PipeWire!PushEnds, Linux!ProcessIdle,
    PipeWire!ProcessIdle, Linux!StoreFormat, PipeWire!StoreFormat, Linux!Announce,
    PipeWire!Announce, Linux!NothingToAnnounce, PipeWire!NothingToAnnounce, Linux!Unwinding,
    PipeWire!Unwinding, Linux!Leaving, PipeWire!Leaving, Linux!NextOut, PipeWire!NextOut,
    Linux!Release, PipeWire!Release, Linux!Return, PipeWire!Return, Linux!Finish,
    PipeWire!Finish, Linux!RequestStop, PipeWire!RequestStop, Linux!Runs, PipeWire!Runs,
    Linux!Next, PipeWire!Next, Linux!Needs, PipeWire!Needs, Linux!HeldInOrder,
    PipeWire!HeldInOrder, Linux!ReleasedWhenFinished, PipeWire!ReleasedWhenFinished,
    Linux!GivesUpInVainOnly, PipeWire!GivesUpInVainOnly

LEMMA SameMacOS ==
    /\ MacOS!Init <=> Tap!Init
    /\ MacOS!Next <=> Tap!Next
    /\ MacOS!HeldInOrder <=> Tap!HeldInOrder
    /\ MacOS!CallbackFindsItsState <=> Tap!CallbackFindsItsState
    /\ MacOS!ReleasedWhenFinished <=> Tap!ReleasedWhenFinished
BY Zenon DEF
    MacOS!shared, Tap!shared, MacOS!Init, Tap!Init, MacOS!Calls, Tap!Calls, MacOS!Call,
    Tap!Call, MacOS!CallFails, Tap!CallFails, MacOS!Describe, Tap!Describe, MacOS!Announce,
    Tap!Announce, MacOS!LoopEnds, Tap!LoopEnds, MacOS!Unwinding, Tap!Unwinding, MacOS!Leaving,
    Tap!Leaving, MacOS!NextOut, Tap!NextOut, MacOS!Release, Tap!Release, MacOS!Return,
    Tap!Return, MacOS!Finish, Tap!Finish, MacOS!IoProcEnters, Tap!IoProcEnters,
    MacOS!IoProcPushes, Tap!IoProcPushes, MacOS!IoProcReturns, Tap!IoProcReturns,
    MacOS!RequestStop, Tap!RequestStop, MacOS!Worker, Tap!Worker, MacOS!Next, Tap!Next,
    MacOS!Needs, Tap!Needs, MacOS!HeldInOrder, Tap!HeldInOrder, MacOS!CallbackFindsItsState,
    Tap!CallbackFindsItsState, MacOS!ReleasedWhenFinished, Tap!ReleasedWhenFinished,
    MacOS!ForgetsDescription, Tap!ForgetsDescription

LEMMA SameContract ==
    /\ Wasapi!Contract!Next <=> Contract!Next
    /\ Wasapi!Contract!shared = Contract!shared
    /\ PipeWire!Contract!Next <=> Contract!Next
    /\ PipeWire!Contract!shared = Contract!shared
    /\ Tap!Contract!Next <=> Contract!Next
    /\ Tap!Contract!shared = Contract!shared
BY Zenon DEF
    Contract!Stop, Wasapi!Contract!Stop, PipeWire!Contract!Stop, Tap!Contract!Stop,
    Contract!StoreFormat, Wasapi!Contract!StoreFormat, PipeWire!Contract!StoreFormat,
    Tap!Contract!StoreFormat, Contract!Announce, Wasapi!Contract!Announce,
    PipeWire!Contract!Announce, Tap!Contract!Announce, Contract!NoteExit,
    Wasapi!Contract!NoteExit, PipeWire!Contract!NoteExit, Tap!Contract!NoteExit, Contract!Push,
    Wasapi!Contract!Push, PipeWire!Contract!Push, Tap!Contract!Push, Contract!Fail,
    Wasapi!Contract!Fail, PipeWire!Contract!Fail, Tap!Contract!Fail, Contract!Finish,
    Wasapi!Contract!Finish, PipeWire!Contract!Finish, Tap!Contract!Finish, Contract!Next,
    Wasapi!Contract!Next, PipeWire!Contract!Next, Tap!Contract!Next, Contract!shared,
    Wasapi!Contract!shared, PipeWire!Contract!shared, Tap!Contract!shared

\* A part's variables, while it is that part's turn, satisfy what its own proofs
\* keep; the contract's end of it holds in every part, used or not.
PartInv ==
    /\ part = "windows" => Wasapi!WasapiInv
    /\ part = "linux" => PipeWire!Inv
    /\ part = "macos" => Tap!TapInv
    /\ part = "engage" => RaceInv

LEMMA PartInit == MCInit => PartInv
<1> SUFFICES ASSUME MCInit PROVE PartInv
  OBVIOUS
<1>1. part = "windows" => Wasapi!WasapiInv
  <2>1. part = "windows" => Windows!Init BY DEF MCInit
  <2>2. QED BY <2>1, SameWindows, Wasapi!WasapiInit
<1>2. part = "linux" => PipeWire!Inv
  <2>1. part = "linux" => Linux!Init BY DEF MCInit
  <2>2. QED BY <2>1, SameLinux, PipeWire!InvInit
<1>3. part = "macos" => Tap!TapInv
  <2>1. part = "macos" => MacOS!Init BY DEF MCInit
  <2>2. QED BY <2>1, SameMacOS, Tap!TapInit
<1>4. part = "engage" => RaceInv
  BY RaceInit DEF MCInit
<1>5. QED BY <1>1, <1>2, <1>3, <1>4 DEF PartInv

LEMMA PartStep == PartInv /\ [MCNext]_all => PartInv'
<1> SUFFICES ASSUME PartInv, [MCNext]_all PROVE PartInv'
  OBVIOUS
<1>1. part' = part
  BY DEF MCNext, WindowsNext, LinuxNext, MacOSNext, RaceNext, ResamplerNext, all
<1>2. ASSUME part = "windows" PROVE Wasapi!WasapiInv'
  <2>1. Windows!Next \/ UNCHANGED Wasapi!vars
    BY <1>2 DEF MCNext, WindowsNext, LinuxNext, MacOSNext, RaceNext, ResamplerNext, all,
                worker, windows, Wasapi!vars
  <2>2. QED BY <1>2, <2>1, SameWindows, Wasapi!WasapiStep DEF PartInv
<1>3. ASSUME part = "linux" PROVE PipeWire!Inv'
  <2>1. Linux!Next \/ UNCHANGED PipeWire!vars
    BY <1>3 DEF MCNext, WindowsNext, LinuxNext, MacOSNext, RaceNext, ResamplerNext, all,
                worker, linux, PipeWire!vars, PipeWire!shared, PipeWire!listed
  <2>2. QED BY <1>3, <2>1, SameLinux, PipeWire!InvStep DEF PartInv
<1>4. ASSUME part = "macos" PROVE Tap!TapInv'
  <2>1. MacOS!Next \/ UNCHANGED Tap!vars
    BY <1>4 DEF MCNext, WindowsNext, LinuxNext, MacOSNext, RaceNext, ResamplerNext, all,
                worker, Tap!vars
  <2>2. QED BY <1>4, <2>1, SameMacOS, Tap!TapStep DEF PartInv
<1>5. ASSUME part = "engage" PROVE RaceInv'
  <2>1. Race!Next \/ UNCHANGED Race!vars
    BY <1>5 DEF MCNext, WindowsNext, LinuxNext, MacOSNext, RaceNext, ResamplerNext, all,
                race, Race!vars
  <2>2. QED BY <1>5, <2>1, RaceStep DEF PartInv
<1>6. QED BY <1>1, <1>2, <1>3, <1>4, <1>5 DEF PartInv

LEMMA PartHolds == MCSpec => []PartInv
BY PartInit, PartStep, PTL DEF MCSpec

\* On every platform a worker releases what depends on a platform object before
\* that object, whichever call failed.
THEOREM ReleasesInOrder == MCSpec => []HeldInOrder
<1>1. PartInv => HeldInOrder
  BY SameWindows, SameLinux, SameMacOS, Wasapi!OrderFollows, PipeWire!OrderFollows,
     Tap!OrderFollows DEF PartInv, HeldInOrder
<1>2. QED BY <1>1, PartHolds, PTL

\* Neither the engine's completion handler nor io_proc finds its state gone.
THEOREM CallbacksFindTheirState == MCSpec => []CallbackFindsItsState
<1>1. PartInv => CallbackFindsItsState
  BY SameWindows, SameMacOS, Wasapi!EventFollows, Tap!StateFollows
  DEF PartInv, CallbackFindsItsState
<1>2. QED BY <1>1, PartHolds, PTL

\* A finished worker holds nothing any more, on every platform and every path but
\* one: after an error in making the number or the array of a tap's description the
\* macOS worker keeps the description, and only that (backend_macos.rs:359-368).
THEOREM ReleasesAll == MCSpec => []ReleasedWhenFinished
<1>1. PartInv => ReleasedWhenFinished
  BY SameWindows, SameLinux, SameMacOS, Wasapi!ReleaseFollows, PipeWire!ReleaseFollows,
     Tap!ReleaseFollows DEF PartInv, ReleasedWhenFinished
<1>2. QED BY <1>1, PartHolds, PTL

\* The PipeWire worker's listing, when its time runs out, leaves no stream behind that
\* is the target's on any ground.
THEOREM GivesUpInVain == MCSpec => []GivesUpInVainOnly
<1>1. PartInv => GivesUpInVainOnly
  BY SameLinux, PipeWire!ListFollows DEF PartInv, GivesUpInVainOnly
<1>2. QED BY <1>1, PartHolds, PTL

\* Even with the stores of the two threads delayed, a session that is idle again and
\* whose own stores have arrived is muted.
THEOREM RaceIsPutRight == MCSpec => []MutedAfterReap
<1>1. PartInv => MutedAfterReap
  BY DEF PartInv, RaceInv, IdleIsMuted, LastIsMuted, MutedAfterReap, Race!MutedAfterReap,
         Race!Settled
<1>2. QED BY <1>1, PartHolds, PTL

-----------------------------------------------------------------------------
\* Every step of whichever worker runs is one of the contract's.
LEMMA StepKeepsContract == PartInv /\ [MCNext]_all => [Contract!Next]_(Contract!shared)
<1> SUFFICES ASSUME PartInv, [MCNext]_all PROVE Contract!Next \/ UNCHANGED Contract!shared
  OBVIOUS
<1>1. CASE WindowsNext
  <2>1. Wasapi!WasapiInv /\ Wasapi!Next BY <1>1, SameWindows DEF PartInv, WindowsNext
  <2>2. Wasapi!Contract!Next \/ UNCHANGED Wasapi!Contract!shared
    BY <2>1, Wasapi!StepKeepsContract
  <2>3. QED BY <2>2, SameContract DEF Wasapi!Contract!shared, Contract!shared
<1>2. CASE LinuxNext
  <2>1. PipeWire!Inv /\ PipeWire!Next BY <1>2, SameLinux DEF PartInv, LinuxNext
  <2>2. PipeWire!Contract!Next \/ UNCHANGED PipeWire!Contract!shared
    BY <2>1, PipeWire!StepKeepsContract
  <2>3. QED BY <2>2, SameContract DEF PipeWire!Contract!shared, Contract!shared
<1>3. CASE MacOSNext
  <2>1. Tap!TapInv /\ Tap!Next BY <1>3, SameMacOS DEF PartInv, MacOSNext
  <2>2. Tap!Contract!Next \/ UNCHANGED Tap!Contract!shared
    BY <2>1, Tap!StepKeepsContract
  <2>3. QED BY <2>2, SameContract DEF Tap!Contract!shared, Contract!shared
<1>4. CASE RaceNext \/ ResamplerNext \/ UNCHANGED all
  BY <1>4 DEF RaceNext, ResamplerNext, all, worker, Contract!shared
<1>5. QED BY <1>1, <1>2, <1>3, <1>4 DEF MCNext

\* Whichever platform the plugin is built for, its worker does what lib.rs relies on.
THEOREM EveryBackendKeepsContract == MCSpec => KeepsContract
<1>1. MCInit => Contract!Init
  BY DEF MCInit, WorkerUnused, Contract!Init, Windows!Init, Linux!Init, MacOS!Init
<1>2. QED BY <1>1, PartHolds, StepKeepsContract, PTL DEF MCSpec, KeepsContract, Contract!Spec

-----------------------------------------------------------------------------
\* Division with a remainder, and products, as the steps below need them.
LEMMA DivMod ==
  ASSUME NEW a \in Nat, NEW d \in Nat \ {0}
  PROVE  /\ a \div d \in Nat /\ a % d \in Nat /\ a % d < d
         /\ a = d * (a \div d) + (a % d)
OBVIOUS

LEMMA Scale ==
  ASSUME NEW a \in Nat, NEW b \in Nat, NEW d \in Nat \ {0}
  PROVE  (a <= b <=> a * d <= b * d) /\ (a < b <=> a * d < b * d)
OBVIOUS

LEMMA DivLess ==
  ASSUME NEW a \in Nat, NEW q \in Nat, NEW d \in Nat \ {0}
  PROVE  a \div d < q <=> a < q * d
<1> DEFINE p == a \div d
<1>1. p \in Nat /\ p * d <= a /\ a < p * d + d
  BY DivMod
<1>2. p * d + d = (p + 1) * d
  BY <1>1
<1>3. CASE p < q
  BY <1>1, <1>2, <1>3, Scale, p + 1 <= q
<1>4. CASE ~(p < q)
  BY <1>1, <1>4, Scale, q <= p
<1> QED
  BY <1>3, <1>4

LEMMA DivIs ==
  ASSUME NEW a \in Nat, NEW q \in Nat, NEW r \in Nat, NEW d \in Nat \ {0},
         a = d * q + r, r < d
  PROVE  a \div d = q
<1> DEFINE p == a \div d
<1>1. p \in Nat /\ d * p <= a /\ a < d * p + d
  BY DivMod
<1>2. d * p < d * (q + 1) /\ d * q < d * (p + 1)
  BY <1>1
<1> QED
  BY <1>1, <1>2, Scale

-----------------------------------------------------------------------------
\* The bytes the callbacks read.
LEMMA Quotient ==
    ASSUME NEW a \in Nat, NEW d \in Nat \ {0}
    PROVE  a \div d \in Nat /\ d * (a \div d) <= a /\ a < d * (a \div d) + d
<1>1. a \div d \in Nat /\ a % d \in Nat /\ a % d < d /\ a = d * (a \div d) + (a % d)
  BY DivMod
<1>2. d * (a \div d) \in Nat BY <1>1
<1>3. QED BY <1>1, <1>2

LEMMA WholeFrames ==
    ASSUME NEW bytes \in Nat, NEW channels \in Nat \ {0}, NEW width \in Nat \ {0}
    PROVE  /\ bytes \div (channels * width) \in Nat
           /\ (bytes \div (channels * width)) * channels * width <= bytes
           /\ bytes < (bytes \div (channels * width)) * channels * width + channels * width
<1>1. channels * width \in Nat \ {0} OBVIOUS
<1> DEFINE f == channels * width
           q == bytes \div f
<1>2. f \in Nat \ {0} BY <1>1
<1>3. q \in Nat /\ f * q <= bytes /\ bytes < f * q + f
  <2> HIDE DEF f
  <2>1. QED BY <1>2, Quotient
<1>4. q * channels * width = f * q
  <2> HIDE DEF q
  <2>1. q * channels * width = q * (channels * width) BY <1>3
  <2>2. QED BY <1>3, <2>1
<1>5. QED BY <1>3, <1>4

\* For every offset and size the daemon may give of a mapping of any length: process
\* reads inside the chunk and the mapping, and leaves out less than one frame.
THEOREM ChunkReadWhole ==
    ASSUME NEW mapped \in Nat, NEW offset \in Nat, NEW size \in Nat,
           NEW kind \in Format!Kinds, NEW channels \in Nat \ {0}
    PROVE  Format!ReadsWholeChunk(mapped, offset, size, kind, channels)
<1> DEFINE W == Format!Width(kind)
           F == Format!FrameBytes(kind, channels)
           start == Format!Least(offset, mapped)
           bytes == Format!Least(size, mapped - start)
           frames == bytes \div F
           end == start + frames * channels * W
<1>1. W \in Nat \ {0} /\ F = channels * W
  BY DEF Format!Kinds, Format!Width, Format!FrameBytes
<1>2. start \in Nat /\ bytes \in Nat /\ F \in Nat
  BY <1>1 DEF Format!Least
<1>3. /\ frames \in Nat /\ frames * channels * W <= bytes
      /\ bytes < frames * channels * W + F
  <2> HIDE DEF W, F, bytes
  <2>1. QED BY <1>1, <1>2, WholeFrames
<1>4. frames * channels * W \in Nat
  <2> HIDE DEF W, frames
  <2>1. frames * channels \in Nat BY <1>3
  <2>2. QED BY <1>1, <2>1
<1>5. Format!Read(mapped, offset, size, kind, channels) = [start |-> start, frames |-> frames]
  BY DEF Format!Read
<1>6. Format!Converted(frames, channels, kind = 0, 8 * W) = frames * channels * W
  <2> HIDE DEF frames
  <2>1. QED BY <1>3 DEF Format!Converted, Format!Width, Format!Kinds
<1>7. frames > 0 => bytes > 0
  <2> HIDE DEF bytes, W
  <2>1. ASSUME bytes = 0 PROVE frames = 0
    <3>1. frames * channels * W = 0 BY <1>2, <1>3, <1>4, <2>1
    <3>2. frames * channels \in Nat BY <1>3
    <3>3. frames * channels = 0 BY <1>1, <3>1, <3>2
    <3>4. QED BY <1>3, <3>3
  <2>2. QED BY <1>2, <1>3, <2>1
<1>8. end <= mapped /\ (frames > 0 => start = offset /\ end <= offset + size)
  <2>1. bytes <= mapped - start /\ bytes <= size /\ start <= mapped
        /\ (bytes > 0 => start = offset)
    BY DEF Format!Least
  <2> HIDE DEF W, F, start, bytes, frames
  <2>2. QED BY <1>2, <1>3, <1>4, <1>7, <2>1
<1>9. offset <= mapped => Format!Least(offset + size, mapped) - end \in 0..F - 1
  <2>1. offset <= mapped => Format!Least(offset + size, mapped) = start + bytes
    BY DEF Format!Least
  <2> HIDE DEF W, F, start, bytes, frames
  <2>2. QED BY <1>2, <1>3, <1>4, <2>1
<1> HIDE DEF W, F, start, frames, end
<1>10. QED BY <1>5, <1>6, <1>8, <1>9 DEF Format!ReadsWholeChunk, W, F, end

\* For every number of channels and any buffers: io_proc reads inside each of them.
THEOREM IoProcReadsInside ==
    ASSUME NEW interleaved \in BOOLEAN, NEW channels \in Nat \ {0},
           NEW sizes \in Seq(Nat), sizes # << >>
    PROVE  Format!IoProcStaysInside(interleaved, channels, sizes)
<1> DEFINE q(b) == sizes[b] \div 4
<1>1. 1 \in DOMAIN sizes OBVIOUS
<1>2. ASSUME NEW b \in DOMAIN sizes PROVE sizes[b] \in Nat /\ q(b) \in Nat /\ 4 * q(b) <= sizes[b]
  <2>1. sizes[b] \in Nat OBVIOUS
  <2>2. QED BY <2>1
<1>3. ASSUME NEW b \in DOMAIN sizes, interleaved
      PROVE  Format!IoBytes(interleaved, channels, sizes, b) <= sizes[b]
  <2> DEFINE f == q(1) \div channels
  <2>1. f \in Nat /\ f * channels <= q(1)
    <3>1. q(1) \in Nat BY <1>1, <1>2
    <3> HIDE DEF q
    <3>2. f \in Nat /\ channels * f <= q(1) BY <3>1, Quotient
    <3> HIDE DEF f
    <3>3. channels * f = f * channels BY <3>2
    <3>4. QED BY <3>2, <3>3
  <2>2. 4 * f * channels <= sizes[1]
    <3>1. q(1) \in Nat /\ 4 * q(1) <= sizes[1] /\ sizes[1] \in Nat BY <1>1, <1>2
    <3> HIDE DEF f, q
    <3>2. 4 * f * channels = 4 * (f * channels) /\ f * channels \in Nat BY <2>1
    <3>3. QED BY <2>1, <3>1, <3>2
  <2>3. QED
    BY <1>2, <1>3, <2>2 DEF Format!IoBytes, Format!IoFrames
<1>4. ASSUME NEW b \in DOMAIN sizes, ~interleaved
      PROVE  Format!IoBytes(interleaved, channels, sizes, b) <= sizes[b]
  <2>1. q(1) \in Nat /\ q(b) \in Nat /\ 4 * q(b) <= sizes[b] /\ sizes[b] \in Nat
    BY <1>1, <1>2
  <2>2. Format!IoBytes(interleaved, channels, sizes, b) = 4 * Format!Least(q(b), q(1))
    BY <1>4 DEF Format!IoBytes, Format!IoFrames
  <2> HIDE DEF q
  <2>3. QED BY <2>1, <2>2 DEF Format!Least
<1>5. QED BY <1>3, <1>4 DEF Format!IoProcStaysInside

\* The inputs of a run are among those.
THEOREM ReadsInside == MCSpec => []ReadsWholeBuffers
<1> DEFINE Given == (part = "chunk" => input \in ChunkInputs) /\ (part = "io_proc" => input \in IoInputs)
<1>1. MCInit => Given
  BY DEF MCInit
<1>2. Given /\ [MCNext]_all => Given'
  BY DEF MCNext, WindowsNext, LinuxNext, MacOSNext, RaceNext, ResamplerNext, all
<1>3. Given => ReadsWholeBuffers
  <2> SUFFICES ASSUME Given PROVE ReadsWholeBuffers
    OBVIOUS
  <2>1. ASSUME part = "chunk"
        PROVE  Format!ReadsWholeChunk(input[1], input[2], input[3], input[4], input[5])
    <3>1. input \in ChunkInputs BY <2>1
    <3>2. /\ input[1] \in Nat /\ input[2] \in Nat /\ input[3] \in Nat
          /\ input[4] \in Format!Kinds /\ input[5] \in Nat \ {0}
      BY <3>1 DEF ChunkInputs
    <3>3. QED BY <3>2, ChunkReadWhole
  <2>2. ASSUME part = "io_proc" PROVE Format!IoProcStaysInside(input[1], input[2], input[3])
    <3>1. input \in IoInputs BY <2>2
    <3>2. input[1] \in BOOLEAN /\ input[2] \in Nat \ {0} BY <3>1 DEF IoInputs
    <3>3. input[3] \in Seq(Nat) /\ input[3] # << >>
      <4>1. PICK a, b \in Nat : input[3] = <<a, b>> BY <3>1 DEF IoInputs
      <4>2. QED BY <4>1
    <3>4. QED BY <3>2, <3>3, IoProcReadsInside
  <2>3. QED BY <2>1, <2>2 DEF ReadsWholeBuffers
<1>4. QED BY <1>1, <1>2, <1>3, PTL DEF MCSpec

-----------------------------------------------------------------------------
\* MCBackends and ParseProofs instantiate the same parsers.
LEMMA SameKeys ==
    Shortcut!KeyToVk = Parser!KeyToVk /\ Shortcut!Modifiers = Parser!Modifiers
BY DEF
    Shortcut!KeyToVk, Parser!KeyToVk, Shortcut!KeyTables, Parser!KeyTables, Shortcut!Codes,
    Parser!Codes, Shortcut!NamedKeys, Parser!NamedKeys, Shortcut!FunctionKeys,
    Parser!FunctionKeys, Shortcut!Digits, Parser!Digits, Shortcut!Letters, Parser!Letters,
    Shortcut!Modifiers, Parser!Modifiers, Shortcut!ToSet, Parser!ToSet,
    Shortcut!AntiFunction, Parser!AntiFunction, Shortcut!Inverse, Parser!Inverse,
    Shortcut!Range, Parser!Range

LEMMA SameRounds ==
    ASSUME NEW text
    PROVE  Shortcut!Rounds(text) = Parser!Rounds(text)
BY DEF
    Shortcut!Rounds, Parser!Rounds, Shortcut!Unread, Parser!Unread, Shortcut!Scan, Parser!Scan,
    Shortcut!KeyToVk, Parser!KeyToVk, Shortcut!KeyTables, Parser!KeyTables, Shortcut!Codes,
    Parser!Codes, Shortcut!NamedKeys, Parser!NamedKeys, Shortcut!FunctionKeys,
    Parser!FunctionKeys, Shortcut!Digits, Parser!Digits, Shortcut!Letters, Parser!Letters,
    Shortcut!Modifiers, Parser!Modifiers, Shortcut!ToSet, Parser!ToSet,
    Shortcut!AntiFunction, Parser!AntiFunction, Shortcut!Inverse, Parser!Inverse,
    Shortcut!Range, Parser!Range

LEMMA SameShortcut ==
    ASSUME NEW text
    PROVE  Shortcut!MeansItsKeys(text) <=> Parser!MeansItsKeys(text)
<1>1. Shortcut!Parse(text) = Parser!Parse(text)
  BY SameRounds, Zenon DEF Shortcut!Parse, Parser!Parse, Shortcut!NoCombo, Parser!NoCombo,
     Shortcut!Typed, Parser!Typed
<1>2. Shortcut!MainKeys(text) = Parser!MainKeys(text) /\ Shortcut!Held(text) = Parser!Held(text)
  BY DEF Shortcut!MainKeys, Parser!MainKeys, Shortcut!Held, Parser!Held,
     Shortcut!Modifiers, Parser!Modifiers
<1>3. QED
  BY <1>1, <1>2, SameKeys DEF Shortcut!MeansItsKeys, Parser!MeansItsKeys,
     Shortcut!NoCombo, Parser!NoCombo, Shortcut!Typed, Parser!Typed

LEMMA SameWalk ==
    ASSUME NEW pod
    PROVE  Format!ParseFormat(pod) = Parser!ParseFormat(pod)
<1>1. Format!Walk(pod) = Parser!Walk(pod)
  BY DEF
    Format!Walk, Parser!Walk, Format!Walking, Parser!Walking, Format!Visit, Parser!Visit,
    Format!InPod, Parser!InPod, Format!WordAt, Parser!WordAt, Format!Padded, Parser!Padded,
    Format!KindOf, Parser!KindOf, Format!F32, Parser!F32, Format!S16, Parser!S16, Format!S32,
    Parser!S32, Format!Id, Parser!Id, Format!Int32, Parser!Int32, Format!AudioFormat,
    Parser!AudioFormat, Format!AudioRate, Parser!AudioRate, Format!AudioChannels,
    Parser!AudioChannels
<1>2. Format!NoFormat = Parser!NoFormat /\ Format!Object = Parser!Object
      /\ Format!WordAt(pod, 4) = Parser!WordAt(pod, 4)
      /\ Format!WordAt(pod, 12) = Parser!WordAt(pod, 12)
      /\ (Format!InPod(pod, 12) <=> Parser!InPod(pod, 12))
  BY DEF Format!NoFormat, Parser!NoFormat, Format!Object, Parser!Object, Format!WordAt,
     Parser!WordAt, Format!InPod, Parser!InPod
<1>3. QED
  BY <1>1, <1>2 DEF Format!ParseFormat, Parser!ParseFormat

LEMMA SameWhole ==
    ASSUME NEW candidate, NEW place, NEW extra
    PROVE  Format!Assemble(Format!InsertAt(
                   Format!FormatProps(candidate[1], candidate[2], candidate[3]), place,
                   Format!Unknown(extra)))
               = Parser!Assemble(Parser!InsertAt(
                   Parser!FormatProps(candidate[1], candidate[2], candidate[3]), place,
                   Parser!Unknown(extra)))
<1>1. Format!FormatProps(candidate[1], candidate[2], candidate[3])
          = Parser!FormatProps(candidate[1], candidate[2], candidate[3])
  BY DEF
    Format!FormatProps, Parser!FormatProps, Format!Prop, Parser!Prop, Format!MediaType,
    Parser!MediaType, Format!MediaSubtype, Parser!MediaSubtype, Format!AudioFormat,
    Parser!AudioFormat, Format!AudioRate, Parser!AudioRate, Format!AudioChannels,
    Parser!AudioChannels, Format!Id, Parser!Id, Format!Int32, Parser!Int32
<1>2. Format!Unknown(extra) = Parser!Unknown(extra)
  BY DEF Format!Unknown, Parser!Unknown, Format!Int32, Parser!Int32
<1>3. \A props, new : Format!InsertAt(props, place, new) = Parser!InsertAt(props, place, new)
  BY DEF Format!InsertAt, Parser!InsertAt
<1>4. ASSUME NEW props PROVE Format!Assemble(props) = Parser!Assemble(props)
  <2>1. Format!FlattenSeq(props) = Parser!FlattenSeq(props)
    BY DEF Format!FlattenSeq, Parser!FlattenSeq
  <2>2. QED
    BY <2>1 DEF Format!Assemble, Parser!Assemble, Format!Object, Parser!Object,
       Format!FormatObject, Parser!FormatObject
<1>5. QED BY <1>1, <1>2, <1>3, <1>4

LEMMA SamePods ==
    ASSUME NEW candidate, NEW place, NEW extra, NEW cut
    PROVE  /\ candidate \in Format!Candidates <=> candidate \in Parser!Candidates
           /\ Format!PodReadBack(candidate, place, extra, cut)
                  <=> Parser!PodReadBack(candidate, place, extra, cut)
<1>1. Format!Candidates = Parser!Candidates
  BY DEF Format!Candidates, Parser!Candidates, Format!F32, Parser!F32, Format!S16,
     Parser!S16, Format!S32, Parser!S32
<1>2. Format!NoFormat = Parser!NoFormat
      /\ Format!KindOf(candidate[1]) = Parser!KindOf(candidate[1])
  BY DEF Format!NoFormat, Parser!NoFormat, Format!KindOf, Parser!KindOf, Format!F32,
     Parser!F32, Format!S16, Parser!S16, Format!S32, Parser!S32
<1>3. QED
  BY <1>1, <1>2, SameWalk, SameWhole DEF Format!PodReadBack,
     Parser!PodReadBack

\* The pods of a run are read back as build_format_pod wrote them; among them are
\* those with an unknown property and those cut short (parse_format_pod).
THEOREM PodsHold == MCSpec => []PodsReadBack
<1> DEFINE Given == part = "pod" => input \in PodInputs
<1>1. MCInit => Given
  BY DEF MCInit
<1>2. Given /\ [MCNext]_all => Given'
  BY DEF MCNext, WindowsNext, LinuxNext, MacOSNext, RaceNext, ResamplerNext, all
<1>3. Given => PodsReadBack
  <2> SUFFICES ASSUME Given, part = "pod"
               PROVE  Format!PodReadBack(input[1], input[2], input[3], input[4])
    BY DEF PodsReadBack
  <2>1. /\ input[1] \in Format!Candidates /\ input[2] \in 1..6
        /\ input[3] \in Nat /\ input[4] \in Nat
    BY DEF PodInputs
  <2>2. input[1] \in Parser!Candidates BY <2>1, SamePods
  <2>3. Parser!PodReadBack(input[1], input[2], input[3], input[4])
    BY <2>1, <2>2, Parser!OwnPodsReadBack
  <2>4. QED BY <2>3, SamePods
<1>4. QED BY <1>1, <1>2, <1>3, PTL DEF MCSpec

\* Every shortcut text of a run means the keys it names (hotkey.rs, parse).
THEOREM ShortcutsHold == MCSpec => []ShortcutsMeanTheirKeys
<1> DEFINE Given == part = "shortcut" => input \in ShortcutInputs
<1>1. MCInit => Given
  BY DEF MCInit
<1>2. Given /\ [MCNext]_all => Given'
  BY DEF MCNext, WindowsNext, LinuxNext, MacOSNext, RaceNext, ResamplerNext, all
<1>3. Given => ShortcutsMeanTheirKeys
  <2> SUFFICES ASSUME Given, part = "shortcut" PROVE Shortcut!MeansItsKeys(input)
    BY DEF ShortcutsMeanTheirKeys
  <2>1. PICK k \in 0..3 : input \in [1..k -> Tokens] BY DEF ShortcutInputs
  <2>2. input \in Seq(Tokens) BY <2>1
  <2>3. Parser!MeansItsKeys(input) BY <2>2, Parser!TextsMeanTheirKeys
  <2>4. QED BY <2>3, SameShortcut
<1>4. QED BY <1>1, <1>2, <1>3, PTL DEF MCSpec

-----------------------------------------------------------------------------
\* The resampler: for every pair of rates, kernel width and way of cutting the
\* samples into packets.  The proof rests on two equations: the read position counts
\* the outputs, and the buffer the inputs.
\* One more group of d in x, and one more step of n in a position.
LEMMA GroupStep ==
  \A d, x, y, r, r1, a, k \in Nat :
      a = d * x + r /\ r + k = d * y + r1 => a + k = d * (x + y) + r1
<1> TAKE d, x, y, r, r1, a, k \in Nat
<1> HAVE a = d * x + r /\ r + k = d * y + r1
<1>1. d * (x + y) = d * x + d * y
  OBVIOUS
<1>2. d * x \in Nat /\ d * y \in Nat
  OBVIOUS
<1> QED
  BY <1>1, <1>2

LEMMA PositionStep ==
  \A b, c, c1, d, f, f1, h, m, k \in Nat :
      (b + c) * d + f = h * d + m * k /\ c1 * d + f1 = c * d + f + k
          => (b + c1) * d + f1 = h * d + (m + 1) * k
<1> TAKE b, c, c1, d, f, f1, h, m, k \in Nat
<1> HAVE (b + c) * d + f = h * d + m * k /\ c1 * d + f1 = c * d + f + k
<1>1. /\ (b + c) * d = b * d + c * d /\ (b + c1) * d = b * d + c1 * d
      /\ (m + 1) * k = m * k + k
  OBVIOUS
<1>2. /\ b * d \in Nat /\ c * d \in Nat /\ c1 * d \in Nat /\ h * d \in Nat
      /\ m * k \in Nat
  OBVIOUS
<1> QED
  BY <1>1, <1>2

-----------------------------------------------------------------------------
\* The rates: the step from/(Pre * To) as Whole and Rest.
LEMMA RateFacts ==
  ASSUME from \in Rates
  PROVE  /\ from \in Nat \ {0} /\ Pre \in Nat \ {0} /\ Den \in Nat \ {0}
         /\ Whole \in Nat /\ Rest \in Nat /\ Rest < Den
         /\ from = Den * Whole + Rest
<1>1. from \in Nat \ {0} /\ To \in Nat \ {0}
  BY RatesAssumption
<1>2. Pre \in Nat \ {0}
  <2>1. CASE from >= To
    <3>1. from \div To \in Nat /\ from < To * (from \div To) + To
      BY <1>1, DivMod
    <3> QED
      BY <1>1, <2>1, <3>1 DEF Pre
  <2> QED
    BY <2>1 DEF Pre
<1>3. Den \in Nat \ {0}
  BY <1>1, <1>2 DEF Den
<1> QED
  BY <1>1, <1>2, <1>3, DivMod DEF Whole, Rest

-----------------------------------------------------------------------------
\* The inductive invariant.
\* What came in: every sample is in a sample of buf, now or before, or waits.
Supply == fed + Pre * Half = Pre * (base + len) + pre_cnt

\* Where the next output is read from.
Position == (base + center) * Den + frac = Half * Den + made * from

\* The last output's window was in buf.
LastFitted == made > 0 => (made - 1) * from + 2 * Half * Den < (base + len) * Den

Converting ==
    /\ Supply /\ Position /\ LastFitted
    /\ at = "process" => center + Half >= len

PassingOn ==
    /\ fed = Pre * made + pre_cnt
    /\ at = "process" /\ len = Half /\ center = Half

ResamplerInv ==
    /\ TypeOK /\ frac < Den /\ pre_cnt < Pre
    /\ base + len >= Half /\ WindowInBuffer
    /\ IF Passthrough THEN PassingOn ELSE Converting

LEMMA InvInit == Init => ResamplerInv
<1> SUFFICES ASSUME Init PROVE ResamplerInv
  OBVIOUS
<1>1. from \in Rates
  BY DEF Init
<1>2. Pre \in Nat \ {0} /\ Den \in Nat \ {0} /\ from \in Nat \ {0}
  BY <1>1, RateFacts
<1>3. TypeOK /\ WindowInBuffer
  BY <1>1, RatesAssumption DEF Init, TypeOK, WindowInBuffer
<1> QED
  BY <1>2, <1>3, RatesAssumption DEF Init, ResamplerInv, PassingOn, Converting, Supply,
     Position, LastFitted

LEMMA InvProcess ==
  ASSUME ResamplerInv, NEW k \in Nat, Process(k)
  PROVE  ResamplerInv'
<1>1. from' = from /\ Pre' = Pre /\ Den' = Den /\ Passthrough' = Passthrough
  BY DEF Process, Pre, Den, Passthrough
<1>2. /\ from \in Nat \ {0} /\ Pre \in Nat \ {0} /\ Den \in Nat \ {0}
      /\ k \in Nat /\ Half \in Nat \ {0} /\ Pre \in Nat
  BY RateFacts, RatesAssumption, BoundsAssumption DEF ResamplerInv, TypeOK
<1> DEFINE g == (pre_cnt + k) \div Pre
           rest == pre_cnt'
<1>3. g \in Nat /\ pre_cnt + k = Pre * g + rest /\ rest \in Nat /\ rest < Pre
  BY <1>2, DivMod DEF Process, ResamplerInv, TypeOK
<1>4. /\ fed' = fed + k /\ at = "process"
      /\ UNCHANGED <<center, frac, base>>
      /\ IF Passthrough THEN made' = made + g /\ len' = len /\ at' = at
         ELSE len' = len + g /\ at' = "run_sinc" /\ made' = made
  BY DEF Process
<1>0. pre_cnt' = rest
  OBVIOUS
<1> HIDE DEF g, rest
<1>5. TypeOK' /\ frac' < Den' /\ pre_cnt' < Pre' /\ base' + len' >= Half /\ WindowInBuffer'
  BY <1>0, <1>1, <1>2, <1>3, <1>4 DEF ResamplerInv, TypeOK, WindowInBuffer
<1>6. CASE Passthrough
  <2>1. fed' = Pre' * made' + pre_cnt'
    <3>1. fed = Pre * made + pre_cnt /\ fed' = fed + k /\ made' = made + g
      BY <1>4, <1>6 DEF ResamplerInv, PassingOn
    <3>2. made \in Nat /\ pre_cnt \in Nat /\ fed \in Nat
      BY DEF ResamplerInv, TypeOK
    <3>3. fed + k = Pre * (made + g) + rest
      BY <3>1, <3>2, <1>2, <1>3, GroupStep
    <3> QED
      BY <3>1, <3>3, <1>0, <1>1, Zenon
  <2> QED
    BY <1>1, <1>4, <1>5, <1>6, <2>1 DEF ResamplerInv, PassingOn
<1>7. CASE ~Passthrough
  <2>1. Supply'
    <3>1. fed + Pre * Half = Pre * (base + len) + pre_cnt
      BY <1>7 DEF ResamplerInv, Converting, Supply
    <3>2. fed' = fed + k /\ base' = base /\ len' = len + g
      BY <1>4, <1>7
    <3> DEFINE x == base + len
               a == fed + Pre * Half
    <3>3. x \in Nat /\ a \in Nat /\ pre_cnt \in Nat /\ a = Pre * x + pre_cnt
      BY <3>1, <1>2 DEF ResamplerInv, TypeOK
    <3>4. base' + len' = x + g /\ fed' + Pre * Half = a + k
      BY <3>2, <1>2, <1>3 DEF ResamplerInv, TypeOK
    <3> HIDE DEF x, a
    <3>5. a + k = Pre * (x + g) + rest
      BY <3>3, <1>2, <1>3, GroupStep
    <3> QED
      BY <3>4, <3>5, <1>0, <1>1, Zenon DEF Supply
  <2>2. Position'
    BY <1>1, <1>4, <1>7 DEF ResamplerInv, Converting, Position
  <2>3. LastFitted'
    <3>1. (base + len) * Den <= (base' + len') * Den'
      BY <1>1, <1>2, <1>3, <1>4, <1>7, Scale DEF ResamplerInv, TypeOK
    <3>2. made' = made
      BY <1>4, <1>7
    <3> QED
      BY <1>1, <1>2, <1>4, <1>5, <1>7, <3>1, <3>2
         DEF ResamplerInv, Converting, LastFitted, TypeOK
  <2> QED
    BY <1>1, <1>4, <1>5, <1>7, <2>1, <2>2, <2>3 DEF ResamplerInv, Converting
<1> QED
  BY <1>6, <1>7

LEMMA InvEmit ==
  ASSUME ResamplerInv, Emit
  PROVE  ResamplerInv'
<1>1. UNCHANGED <<from, Pre, Den, Whole, Rest, Passthrough>>
  BY DEF Emit, Pre, Den, Whole, Rest, Passthrough
<1>2. /\ from \in Nat \ {0} /\ Pre \in Nat \ {0} /\ Den \in Nat \ {0} /\ Half \in Nat \ {0}
      /\ from \in Nat /\ Den \in Nat /\ Half \in Nat
      /\ Whole \in Nat /\ Rest \in Nat /\ Rest < Den /\ from = Den * Whole + Rest
  BY RateFacts, RatesAssumption DEF ResamplerInv, TypeOK
<1>3. /\ at = "run_sinc" /\ center + Half < len /\ made' = made + 1
      /\ UNCHANGED <<len, pre_cnt, at, fed, base>>
  BY DEF Emit
<1>4. ~Passthrough
  BY <1>3 DEF ResamplerInv, PassingOn
<1>5. /\ center' \in Nat /\ frac' \in Nat /\ frac' < Den /\ center' >= center
      /\ center' * Den + frac' = center * Den + frac + from
  <2>1. CASE frac + Rest < Den
    <3>1. center' = center + Whole /\ frac' = frac + Rest
      BY <2>1 DEF Emit, Advance
    <3> QED
      BY <1>2, <2>1, <3>1 DEF ResamplerInv, TypeOK
  <2>2. CASE ~(frac + Rest < Den)
    <3>1. center' = center + Whole + 1 /\ frac' = frac + Rest - Den
      BY <2>2 DEF Emit, Advance
    <3> QED
      BY <1>2, <2>2, <3>1 DEF ResamplerInv, TypeOK
  <2> QED
    BY <2>1, <2>2
<1> DEFINE c == center'
           f == frac'
<1>0. center' = c /\ frac' = f
  OBVIOUS
<1>6. TypeOK' /\ frac' < Den' /\ pre_cnt' < Pre' /\ base' + len' >= Half /\ WindowInBuffer'
  BY <1>1, <1>2, <1>3, <1>5 DEF ResamplerInv, TypeOK, WindowInBuffer
<1>7. Supply'
  BY <1>1, <1>3, <1>4 DEF ResamplerInv, Converting, Supply
<1>8. Position'
  <2>1. (base + center) * Den + frac = Half * Den + made * from
    BY <1>4 DEF ResamplerInv, Converting, Position
  <2>2. base \in Nat /\ center \in Nat /\ frac \in Nat /\ made \in Nat
    BY DEF ResamplerInv, TypeOK
  <2>4. c \in Nat /\ f \in Nat /\ c * Den + f = center * Den + frac + from
    BY <1>5
  <2> HIDE DEF c, f
  <2>3. (base + c) * Den + f = Half * Den + (made + 1) * from
    BY <2>1, <2>2, <2>4, <1>2, PositionStep
  <2> QED
    BY <2>3, <1>0, <1>1, <1>3 DEF Position
<1>9. LastFitted'
  <2>1. (base + center) * Den + frac = Half * Den + made * from /\ frac < Den
    BY <1>4 DEF ResamplerInv, Converting, Position
  <2>2. (base + center + 1 + Half) * Den <= (base + len) * Den
    BY <1>2, <1>3, Scale DEF ResamplerInv, TypeOK
  <2>3. made * from + 2 * Half * Den < (base + center + 1 + Half) * Den
    BY <1>2, <2>1 DEF ResamplerInv, TypeOK
  <2>4. made' - 1 = made
    BY <1>3 DEF ResamplerInv, TypeOK
  <2> QED
    BY <1>1, <1>2, <1>3, <2>2, <2>3, <2>4 DEF ResamplerInv, TypeOK, LastFitted
<1> QED
  BY <1>1, <1>3, <1>4, <1>6, <1>7, <1>8, <1>9 DEF ResamplerInv, Converting

LEMMA InvDrain ==
  ASSUME ResamplerInv, Drain
  PROVE  ResamplerInv'
<1>1. UNCHANGED <<from, Pre, Den, Passthrough>>
  BY DEF Drain, Pre, Den, Passthrough
<1>2. from \in Nat \ {0} /\ Pre \in Nat \ {0} /\ Den \in Nat \ {0} /\ Half \in Nat \ {0}
  BY RateFacts, RatesAssumption DEF ResamplerInv, TypeOK
<1>3. /\ at = "run_sinc" /\ at' = "process" /\ center + Half >= len
      /\ UNCHANGED <<pre_cnt, fed, made, frac>>
      /\ len' = len - KeepFrom /\ center' = center - KeepFrom /\ base' = base + KeepFrom
  BY DEF Drain
<1>4. ~Passthrough
  BY <1>3 DEF ResamplerInv, PassingOn
<1>5. /\ KeepFrom \in Nat /\ KeepFrom <= len /\ KeepFrom <= center - (Half - 1)
      /\ KeepFrom = len \/ KeepFrom = center - (Half - 1)
  BY <1>2 DEF KeepFrom, ResamplerInv, TypeOK, WindowInBuffer
<1>6. /\ len' \in Nat /\ center' \in Nat /\ base' \in Nat
      /\ center' >= Half - 1 /\ len' < 2 * Half /\ center' + Half >= len'
      /\ base' + len' = base + len /\ base' + center' = base + center
  BY <1>2, <1>3, <1>5 DEF ResamplerInv, TypeOK
<1>7. TypeOK' /\ frac' < Den' /\ pre_cnt' < Pre' /\ base' + len' >= Half /\ WindowInBuffer'
  BY <1>1, <1>3, <1>6 DEF ResamplerInv, TypeOK, WindowInBuffer
<1>8. Supply' /\ Position' /\ LastFitted'
  BY <1>1, <1>3, <1>4, <1>6 DEF ResamplerInv, Converting, Supply, Position, LastFitted
<1> QED
  BY <1>1, <1>4, <1>6, <1>7, <1>8 DEF ResamplerInv, Converting

LEMMA InvNext == ResamplerInv /\ [Next]_vars => ResamplerInv'
<1> SUFFICES ASSUME ResamplerInv, [Next]_vars PROVE ResamplerInv'
  OBVIOUS
<1>1. CASE UNCHANGED vars
  BY <1>1 DEF vars, ResamplerInv, TypeOK, WindowInBuffer, Passthrough, PassingOn, Converting,
     Supply, Position, LastFitted, Pre, Den
<1>2. Chunks \subseteq Nat
  BY BoundsAssumption
<1> QED
  BY <1>1, <1>2, InvProcess, InvEmit, InvDrain DEF Next

\* What has come in, per group.
LEMMA GroupsIn ==
  ASSUME ResamplerInv
  PROVE  fed \div Pre = IF Passthrough THEN made ELSE (base + len) - Half
<1>1. Pre \in Nat \ {0} /\ Half \in Nat \ {0}
  BY RateFacts, RatesAssumption DEF ResamplerInv, TypeOK
<1>2. /\ fed \in Nat /\ made \in Nat /\ pre_cnt \in Nat /\ pre_cnt < Pre
      /\ (base + len) - Half \in Nat
  BY <1>1 DEF ResamplerInv, TypeOK
<1>3. CASE Passthrough
  BY <1>1, <1>2, <1>3, DivIs DEF ResamplerInv, PassingOn
<1>4. CASE ~Passthrough
  <2> DEFINE q == (base + len) - Half
  <2>1. fed + Pre * Half = Pre * (base + len) + pre_cnt
    BY <1>4 DEF ResamplerInv, Converting, Supply
  <2>2. Pre * (base + len) = Pre * q + Pre * Half
    BY <1>1, <1>2 DEF ResamplerInv, TypeOK
  <2>3. Pre * q \in Nat /\ Pre * Half \in Nat /\ Pre * (base + len) \in Nat
    BY <1>1, <1>2 DEF ResamplerInv, TypeOK
  <2>4. fed = Pre * q + pre_cnt
    BY <1>2, <2>1, <2>2, <2>3
  <2> QED
    BY <1>1, <1>2, <1>4, <2>4, DivIs
<1> QED
  BY <1>3, <1>4

\* Output i's window, in the units of Position.
LEMMA ReadyMeans ==
  ASSUME ResamplerInv, ~Passthrough, NEW i \in Nat
  PROVE  Ready(i) <=> i * from + 2 * Half * Den < (base + len) * Den
<1>1. /\ from \in Nat /\ Den \in Nat \ {0} /\ Half \in Nat /\ base \in Nat /\ len \in Nat
      /\ base + len >= Half
  BY RateFacts, RatesAssumption DEF ResamplerInv, TypeOK
<1> DEFINE x == i * from
           q == x \div Den
           s == base + len
<1>2. x \in Nat /\ q \in Nat /\ s \in Nat
  BY <1>1, DivMod
<1>3. Ready(i) <=> Half + q < s - Half
  <2>0. fed \div Pre = (base + len) - Half
    BY GroupsIn
  <2>1. fed \div Pre = s - Half
    BY <2>0, Zenon
  <2>2. Ready(i) <=> Half + q < fed \div Pre
    BY DEF Ready
  <2> HIDE DEF q, s
  <2> QED
    BY <2>1, <2>2
<1>4. CASE 2 * Half <= s
  <2> DEFINE t == s - 2 * Half
  <2>1. t \in Nat /\ (Half + q < s - Half <=> q < t) /\ s = t + 2 * Half
    BY <1>1, <1>2, <1>4
  <2>2. q < t <=> x < t * Den
    BY <1>1, <1>2, <2>1, DivLess
  <2> HIDE DEF x, q, s, t
  <2>3. s * Den = t * Den + 2 * Half * Den
    BY <1>1, <2>1
  <2>4. t * Den \in Nat /\ 2 * Half * Den \in Nat
    BY <1>1, <2>1
  <2>5. x < t * Den <=> x + 2 * Half * Den < s * Den
    BY <1>2, <2>3, <2>4
  <2> QED
    BY <1>3, <2>1, <2>2, <2>5 DEF x, s
<1>5. CASE ~(2 * Half <= s)
  <2>1. ~(Half + q < s - Half)
    BY <1>1, <1>2, <1>5
  <2>2. s * Den <= (2 * Half) * Den
    BY <1>1, <1>2, <1>5, Scale
  <2>3. ~(x + 2 * Half * Den < s * Den)
    BY <1>1, <1>2, <2>2
  <2> QED
    BY <1>3, <2>1, <2>3
<1> QED
  BY <1>4, <1>5

LEMMA InvPackets == ResamplerInv => PacketsInvisible
<1> SUFFICES ASSUME ResamplerInv, at = "process" PROVE PacketsInvisible
  BY DEF PacketsInvisible
<1>1. CASE Passthrough
  BY <1>1, GroupsIn DEF PacketsInvisible
<1>2. CASE ~Passthrough
  <2>1. /\ from \in Nat /\ Den \in Nat \ {0} /\ Half \in Nat /\ base \in Nat /\ len \in Nat
        /\ center \in Nat /\ made \in Nat /\ frac \in Nat
    BY RateFacts, RatesAssumption DEF ResamplerInv, TypeOK
  <2>2. ~Ready(made)
    <3>1. (base + len) * Den <= (base + center + Half) * Den
      BY <1>2, <2>1, Scale DEF ResamplerInv, Converting
    <3>2. (base + center) * Den + frac = Half * Den + made * from
      BY <1>2 DEF ResamplerInv, Converting, Position
    <3>3. ~(made * from + 2 * Half * Den < (base + len) * Den)
      BY <2>1, <3>1, <3>2
    <3> QED
      BY <1>2, <2>1, <3>3, ReadyMeans
  <2>3. ASSUME made > 0 PROVE Ready(made - 1)
    <3>1. made - 1 \in Nat
      BY <2>1, <2>3
    <3>2. (made - 1) * from + 2 * Half * Den < (base + len) * Den
      BY <1>2, <2>3 DEF ResamplerInv, Converting, LastFitted
    <3> QED
      BY <1>2, <3>1, <3>2, ReadyMeans
  <2> QED
    BY <1>2, <2>2, <2>3 DEF PacketsInvisible
<1> QED
  BY <1>1, <1>2

-----------------------------------------------------------------------------
LEMMA ResamplerInvHolds == Spec => []ResamplerInv
BY InvInit, InvNext, PTL DEF Spec

\* Every variable keeps its type.
THEOREM ResamplerTypes == Spec => []TypeOK
<1>1. ResamplerInv => TypeOK
  BY DEF ResamplerInv
<1> QED
  BY <1>1, ResamplerInvHolds, PTL

\* run_sinc never reads before its buffer, and never keeps a whole window.
THEOREM WindowsFit == Spec => []WindowInBuffer
<1>1. ResamplerInv => WindowInBuffer
  BY DEF ResamplerInv
<1> QED
  BY <1>1, ResamplerInvHolds, PTL

\* The number of samples made is that of one call with everything fed so far.
THEOREM NoSampleLost == Spec => []PacketsInvisible
BY InvPackets, ResamplerInvHolds, PTL
=============================================================================
