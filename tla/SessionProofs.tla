--------------------------- MODULE SessionProofs ---------------------------
(***************************************************************************)
(* Theorems about Session for every platform, every host and every number  *)
(* of captures, and about Mixer, whose session it is, for every length of  *)
(* fade, ring, backlog and call.                                           *)
(***************************************************************************)
EXTENDS Mixer, TLAPS

-----------------------------------------------------------------------------
\* Types.  fmtKnown[cur] and the like have a type only where cur is a session, so
\* the types come with where a handler can be for each phase of the session, and
\* with the session being idle exactly when it holds no worker.
Control ==
    /\ phase = "idle" <=> cur = 0
    /\ bus \in {"stop_mute", "finish_mute", "finish_flag"} => phase \in {"starting", "running"}
    /\ bus = "adopt" => phase = "starting"
    /\ bus = "tick_phase" => phase = "running"
    /\ bus \in {"reap", "reap_hotkey"} => phase = "stopping"
    /\ bus \in {"start", "unloaded"} => phase = "idle"
    /\ bus \in {"finish_mute", "finish_flag"} => report # NoReport

TypeInv == TypeOK /\ Control

LEMMA TypeInvInit == Init => TypeInv
<1> SUFFICES ASSUME Init PROVE TypeInv
  OBVIOUS
<1>1. FlagsOK
  BY DEF Init, FlagsOK
<1> QED
  BY <1>1, MaxSessionsAssumption DEF Init, TypeInv, TypeOK, Control, BusSteps,
     WorkerPoints, Phases, Failures, Reports, NoReport, Sessions

LEMMA TypeInvNext == TypeInv /\ [Next]_vars => TypeInv'
<1> SUFFICES ASSUME TypeInv, [Next]_vars PROVE TypeInv'
  OBVIOUS
<1> USE MaxSessionsAssumption DEF TypeInv, TypeOK, Control, BusSteps, WorkerPoints,
      Phases, Failures, Reports, NoReport, Sessions
<1>1. ASSUME HotkeyPress
      PROVE  TypeInv'
  BY <1>1 DEF FlagsOK, HotkeyPress, session, worker, shared
<1>2. ASSUME StopFlag
      PROVE  TypeInv'
  BY <1>2 DEF FlagsOK, StopFlag, SetStop, session, worker, shared
<1>3. ASSUME StopMute
      PROVE  TypeInv'
  <2>1. FlagsOK'
    BY <1>3 DEF FlagsOK, StopMute, Tell, worker, shared
  <2> QED
    BY <1>3, <2>1 DEF StopMute, Tell, worker, shared
<1>4. ASSUME StartRefused
      PROVE  TypeInv'
  BY <1>4 DEF FlagsOK, StartRefused, session, worker, shared
<1>5. ASSUME StartSpawnFails
      PROVE  TypeInv'
  BY <1>5 DEF FlagsOK, StartSpawnFails, session, worker, shared
<1>6. ASSUME StartSpawned
      PROVE  TypeInv'
  <2>1. FlagsOK'
    BY <1>6 DEF FlagsOK, StartSpawned, WatchdogInterval
  <2>2. interval' \in 0..n' /\ cur' \in 1..n' /\ n' \in 0..MaxSessions
    BY <1>6, HostAssumption DEF StartSpawned, WatchdogInterval
  <2>3. ticks' \in SUBSET (1..n')
    BY <1>6 DEF StartSpawned, WatchdogInterval
  <2> QED
    BY <1>6, <2>1, <2>2, <2>3 DEF StartSpawned, shared
<1>7. ASSUME UiApply
      PROVE  TypeInv'
  BY <1>7 DEF FlagsOK, UiApply, ApplyConfig, session, worker, shared
<1>8. ASSUME TickLost
      PROVE  TypeInv'
  BY <1>8 DEF FlagsOK, TickLost, session, worker, shared
<1>9. ASSUME TickRunning
      PROVE  TypeInv'
  BY <1>9 DEF FlagsOK, TickRunning, TickTaken, session, worker, shared
<1>10. ASSUME Adopt
      PROVE  TypeInv'
  BY <1>10 DEF FlagsOK, Adopt, Tell, worker, shared
<1>11. ASSUME TickFailed
      PROVE  TypeInv'
  BY <1>11 DEF FlagsOK, TickFailed, TickTaken, Conclude, worker, shared
<1>12. ASSUME TickTimeout
      PROVE  TypeInv'
  BY <1>12 DEF FlagsOK, TickTimeout, SetStop, TickTaken, Conclude, worker, shared
<1>13. ASSUME TickWaiting
      PROVE  TypeInv'
  BY <1>13 DEF FlagsOK, TickWaiting, TickTaken, session, worker, shared
<1>14. ASSUME TickExited
      PROVE  TypeInv'
  BY <1>14 DEF FlagsOK, TickExited, TickTaken, Conclude, worker, shared
<1>15. ASSUME TickInterrupted
      PROVE  TypeInv'
  BY <1>15 DEF FlagsOK, TickInterrupted, Conclude, worker, shared
<1>16. ASSUME TickGoesOn
      PROVE  TypeInv'
  BY <1>16 DEF FlagsOK, TickGoesOn, ApplyConfig, session, worker, shared
<1>17. ASSUME TickStopping
      PROVE  TypeInv'
  BY <1>17 DEF FlagsOK, TickStopping, TickTaken, session, worker, shared
<1>18. ASSUME FinishMute
      PROVE  TypeInv'
  <2>1. FlagsOK'
    BY <1>18 DEF FlagsOK, FinishMute, session, worker, shared
  <2> QED
    BY <1>18, <2>1 DEF FinishMute, session, worker, shared
<1>19. ASSUME FinishFlag
      PROVE  TypeInv'
  BY <1>19 DEF FlagsOK, FinishFlag, SetStop, worker, shared
<1>20. ASSUME FinishReaped
      PROVE  TypeInv'
  <2>1. FlagsOK'
    BY <1>20 DEF FlagsOK, FinishReaped, Tell, Joined, worker, shared
  <2> QED
    BY <1>20, <2>1 DEF FinishReaped, Tell, Joined, worker, shared
<1>21. ASSUME FinishLater
      PROVE  TypeInv'
  BY <1>21 DEF FlagsOK, FinishLater, session, worker, shared
<1>22. ASSUME HotkeyReaped
      PROVE  TypeInv'
  <2>1. FlagsOK'
    BY <1>22 DEF FlagsOK, HotkeyReaped, Joined, worker, shared
  <2> QED
    BY <1>22, <2>1 DEF HotkeyReaped, Joined, worker, shared
<1>23. ASSUME HotkeyGivesUp
      PROVE  TypeInv'
  BY <1>23 DEF FlagsOK, HotkeyGivesUp, session, worker, shared
<1>24. ASSUME DeinitFlag
      PROVE  TypeInv'
  <2>1. CASE cur = 0
    BY <1>24, <2>1 DEF FlagsOK, DeinitFlag, SetStop, session, worker, shared
  <2>2. CASE cur # 0
    <3>1. SetStop
      BY <1>24, <2>2 DEF DeinitFlag
    <3>2. stop' \in [Sessions -> BOOLEAN]
      BY <3>1 DEF SetStop
    <3> QED
      BY <1>24, <3>2 DEF FlagsOK, DeinitFlag, session, worker, shared
  <2> QED
    BY <2>1, <2>2
<1>25. ASSUME DeinitMute
      PROVE  TypeInv'
  <2>1. FlagsOK'
    BY <1>25 DEF FlagsOK, DeinitMute, session, worker, shared
  <2> QED
    BY <1>25, <2>1 DEF DeinitMute, session, worker, shared
<1>26. ASSUME DeinitReset
      PROVE  TypeInv'
  <2>1. FlagsOK'
    BY <1>26 DEF FlagsOK, DeinitReset, worker, shared
  <2> QED
    BY <1>26, <2>1 DEF DeinitReset, worker, shared
<1>27. ASSUME PluginInit
      PROVE  TypeInv'
  BY <1>27 DEF FlagsOK, PluginInit, session, worker, shared
<1>28. ASSUME HostTick
      PROVE  TypeInv'
  BY <1>28 DEF FlagsOK, HostTick, session, worker, shared
<1>29. ASSUME StartTimeoutPasses
      PROVE  TypeInv'
  BY <1>29 DEF FlagsOK, StartTimeoutPasses, session, worker, shared
<1>30. ASSUME NEW w \in Sessions, WorkerSetUp(w)
      PROVE  TypeInv'
  BY <1>30 DEF FlagsOK, WorkerSetUp, At, ByWorker, session, shared
<1>31. ASSUME NEW w \in Sessions, WorkerSetupFails(w)
      PROVE  TypeInv'
  BY <1>31 DEF FlagsOK, WorkerSetupFails, Fails, At, ByWorker, session, shared
<1>32. ASSUME NEW w \in Sessions, WorkerNegotiated(w)
      PROVE  TypeInv'
  BY <1>32 DEF FlagsOK, WorkerNegotiated, At, ByWorker, session, shared
<1>33. ASSUME NEW w \in Sessions, WorkerNegotiationStopped(w)
      PROVE  TypeInv'
  BY <1>33 DEF FlagsOK, WorkerNegotiationStopped, At, ByWorker, session, shared
<1>34. ASSUME NEW w \in Sessions, WorkerFormat(w)
      PROVE  TypeInv'
  BY <1>34 DEF FlagsOK, WorkerFormat, At, ByWorker, session, shared
<1>35. ASSUME NEW w \in Sessions, WorkerStartFails(w)
      PROVE  TypeInv'
  BY <1>35 DEF FlagsOK, WorkerStartFails, Fails, At, ByWorker, session, shared
<1>36. ASSUME NEW w \in Sessions, WorkerAnnounce(w)
      PROVE  TypeInv'
  BY <1>36 DEF FlagsOK, WorkerAnnounce, At, ByWorker, session, shared
<1>37. ASSUME NEW w \in Sessions, EngageCheck(w)
      PROVE  TypeInv'
  BY <1>37 DEF FlagsOK, EngageCheck, At, ByWorker, session, shared
<1>38. ASSUME NEW w \in Sessions, EngageSet(w)
      PROVE  TypeInv'
  BY <1>38 DEF FlagsOK, EngageSet, At, ByWorker, session, shared
<1>39. ASSUME NEW w \in Sessions, EngageRecheck(w)
      PROVE  TypeInv'
  <2>1. wpc' \in [Sessions -> WorkerPoints]
    BY <1>39 DEF EngageRecheck, At
  <2>2. UNCHANGED <<bus, session, late, status, n, stop, alive, ticks, reported, shared, capturing>>
    BY <1>39 DEF EngageRecheck, ByWorker
  <2> QED
    BY <2>1, <2>2 DEF FlagsOK, session, shared
<1>40. ASSUME NEW w \in Sessions, EngageUndo(w)
      PROVE  TypeInv'
  <2>1. wpc' \in [Sessions -> WorkerPoints]
    BY <1>40 DEF EngageUndo, At
  <2>2. UNCHANGED <<bus, session, late, status, n, stop, alive, ticks, reported, shared>>
    BY <1>40 DEF EngageUndo, ByWorker
  <2>3. FlagsOK'
    BY <1>40, <2>2 DEF EngageUndo, FlagsOK, session
  <2> QED
    BY <2>1, <2>2, <2>3 DEF session, shared
<1>41. ASSUME NEW w \in Sessions, LoopTest(w)
      PROVE  TypeInv'
  BY <1>41 DEF FlagsOK, LoopTest, At, ByWorker, session, shared
<1>42. ASSUME NEW w \in Sessions, LoopDrain(w)
      PROVE  TypeInv'
  BY <1>42 DEF FlagsOK, LoopDrain, At, ByWorker, session, shared
<1>43. ASSUME NEW w \in Sessions, LoopFails(w)
      PROVE  TypeInv'
  BY <1>43 DEF FlagsOK, LoopFails, Fails, At, ByWorker, session, shared
<1>44. ASSUME NEW w \in Sessions, LoopTargetExited(w)
      PROVE  TypeInv'
  BY <1>44 DEF FlagsOK, LoopTargetExited, At, ByWorker, session, shared
<1>45. ASSUME NEW w \in Sessions, WorkerClose(w)
      PROVE  TypeInv'
  BY <1>45 DEF FlagsOK, WorkerClose, At, ByWorker, session, shared
<1>46. ASSUME NEW w \in Sessions, WorkerFinish(w)
      PROVE  TypeInv'
  BY <1>46 DEF FlagsOK, WorkerFinish, At, ByWorker, session, shared
<1>47. ASSUME NEW w \in Sessions, WorkerExit(w)
      PROVE  TypeInv'
  BY <1>47 DEF FlagsOK, WorkerExit, At, ByWorker, session, shared
<1>48. ASSUME NEW w \in Sessions, TargetExits(w)
      PROVE  TypeInv'
  BY <1>48 DEF FlagsOK, TargetExits, session, worker, shared
<1>49. CASE UNCHANGED vars
  BY <1>49 DEF FlagsOK, vars, session, worker, shared
<1> QED
  BY <1>1, <1>2, <1>3, <1>4, <1>5, <1>6, <1>7, <1>8, <1>9, <1>10, <1>11, <1>12,
     <1>13, <1>14, <1>15, <1>16, <1>17, <1>18, <1>19, <1>20, <1>21, <1>22, <1>23,
     <1>24, <1>25, <1>26, <1>27, <1>28, <1>29, <1>30, <1>31, <1>32, <1>33, <1>34,
     <1>35, <1>36, <1>37, <1>38, <1>39, <1>40, <1>41, <1>42, <1>43, <1>44, <1>45,
     <1>46, <1>47, <1>48, <1>49 DEF Next, Silent, Starts, Resets, Drains,
     Handler, Watchdog, User, WorkerSteps

\* Every variable keeps its type.
THEOREM TypeCorrect == Spec => []TypeOK
<1>1. TypeInv => TypeOK
  BY DEF TypeInv
<1> QED
  BY <1>1, TypeInvInit, TypeInvNext, PTL DEF Spec

-----------------------------------------------------------------------------
\* Safety.  What follows holds for every MayHang, but for Held: an unload whose
\* budget runs out leaves a worker behind that the session does not hold.
Held == \A w \in Sessions : Live(w) => w = cur
LeftBehind == \A w \in Sessions : Live(w) => w = cur \/ (stop[w] /\ w \in MayHang)

\* Captures not started yet, and only they, are as Init left them; an idle session has no timer.
Fresh ==
    /\ \A w \in Sessions : w > n => wpc[w] = "none" /\ reported[w] = {} /\ ~stop[w]
    /\ \A w \in Sessions : w <= n => wpc[w] # "none"
    /\ phase = "idle" => interval = 0

\* What a worker has published says how far it has got.
Ended == {"close", "finish", "exit", "gone"}
Published ==
    \A w \in Sessions :
        /\ sharedPhase[w] = "finished" => wpc[w] \in {"exit", "gone"}
        /\ exited[w] => wpc[w] \in Ended
        /\ wpc[w] = "announce" \/ sharedPhase[w] = "running" => fmtKnown[w]

\* A worker that is being stopped has been told, or needs no telling.
Told ==
    /\ bus = "stop_mute" \/ phase = "stopping" => stop[cur]
    /\ bus \in {"finish_mute", "finish_flag"} => stop[cur] \/ wpc[cur] \in Ended
    /\ bus \in {"deinit_mute", "deinit_reap"} /\ cur # 0 => stop[cur]

\* CAPTURING survives a stop only where engage_capturing takes it back.
Muting == bus \in {"finish_flag", "deinit_reap"} \/ phase \in {"idle", "stopping"}
Muted == Muting /\ capturing => \E w \in Sessions : Undoing(w)

\* The format a running capture shows was read after it was stored.
FormatRead ==
    /\ bus = "adopt" => fmtKnown[cur]
    /\ phase = "running" => rateKnown

\* A capture that has not ended has no ending reported or pending, and one that is
\* stopping has the one or the other.
Untold == cur # 0 => reported[cur] \cap Endings = {}
Reporting ==
    /\ phase \in {"starting", "running"} => pending = NoReport /\ Untold
    /\ phase = "starting" => reported[cur] = {}
    /\ phase = "stopping" /\ pending # NoReport => Untold
    /\ phase = "stopping" /\ pending = NoReport => "stopped" \in reported[cur]
    /\ OneEnding

\* A worker that ended was stopped, failed or lost its target, and nothing is
\* reported of it otherwise.
Explained(w) == failed[w] \/ exited[w]
Unexplained == {"failed", "interrupted"}
Caused ==
    /\ \A w \in Sessions : wpc[w] \in Ended => Explained(w) \/ stop[w]
    /\ phase \in {"starting", "running"} /\ bus \in {"ready", "adopt", "tick_phase"} => ~stop[cur]
    /\ bus \in {"finish_mute", "finish_flag"} /\ report \in Unexplained => Explained(cur)
    /\ phase = "stopping" /\ pending \in Unexplained => Explained(cur)
    /\ UnknownErrorMeansExit

\* The status lags the phase only inside finish, and after deinit.
StatusFollows ==
    bus \notin {"reap", "unloaded"} =>
        status = phase \/ (phase = "idle" /\ status = "stopping")

Book == /\ TypeInv /\ Fresh /\ Published /\ Told /\ FormatRead /\ Reporting /\ Caused
        /\ StatusFollows
CoreInv == Book /\ LeftBehind /\ Muted
SafeInv == CoreInv /\ Held

LEMMA BookInit == Init => Book
<1> SUFFICES ASSUME Init PROVE Book
  OBVIOUS
<1>1. TypeInv
  BY TypeInvInit
<1> QED
  BY <1>1, MaxSessionsAssumption DEF Init, Book, Fresh, Published, Told,
     FormatRead, Reporting, Untold, OneEnding, Caused, Explained, Unexplained,
     UnknownErrorMeansExit, StatusFollows, Endings, Ended, Live, NoReport, Sessions

\* What a step of worker w does to its own point and to what it shows.
WorkerMoves(w) ==
    /\ wpc[w] \notin {"none", "gone"} /\ wpc'[w] # "none"
    /\ wpc[w] \in Ended => wpc'[w] \in Ended
    /\ wpc'[w] \in Ended => wpc[w] \in Ended \/ Explained(w)' \/ stop[w]
    /\ wpc[w] = "exit" => wpc'[w] = "gone"
    /\ wpc'[w] = "announce" => fmtKnown'[w]
    /\ failed[w] => failed'[w]
    /\ exited[w] => exited'[w]
    /\ exited'[w] => exited[w] \/ wpc'[w] \in Ended
    /\ fmtKnown[w] => fmtKnown'[w]
    /\ sharedPhase'[w] = "finished" => sharedPhase[w] = "finished" \/ wpc'[w] = "exit"
    /\ sharedPhase'[w] = "running" => sharedPhase[w] = "running" \/ wpc[w] = "announce"
    /\ capturing' => capturing \/ wpc'[w] = "engage_recheck"
    /\ wpc[w] = "engage_recheck" /\ stop[w] => wpc'[w] = "engage_undo"
    /\ wpc[w] = "engage_undo" => ~capturing'

\* It touches nothing of another worker, of the session, or of what was told.
OthersStay(w) ==
    \A v \in Sessions : v # w =>
        /\ wpc'[v] = wpc[v] /\ sharedPhase'[v] = sharedPhase[v] /\ failed'[v] = failed[v]
        /\ exited'[v] = exited[v] /\ fmtKnown'[v] = fmtKnown[v]
AWorkerMoves == ByWorker /\ \E w \in Sessions : WorkerMoves(w) /\ OthersStay(w)

LEMMA WorkerStepMoves ==
    ASSUME TypeInv, NEW w \in Sessions,
           WorkerSteps(w) \/ WorkerNegotiated(w) \/ Drains(w)
    PROVE  ByWorker /\ WorkerMoves(w) /\ OthersStay(w)
<1> USE DEF TypeInv, TypeOK, At, ByWorker, shared, OthersStay, WorkerMoves, Ended, Explained
<1>1. CASE WorkerSetUp(w) \/ WorkerNegotiated(w) \/ WorkerNegotiationStopped(w)
  BY <1>1 DEF WorkerSetUp, WorkerNegotiated, WorkerNegotiationStopped
<1>2. CASE WorkerSetupFails(w) \/ WorkerStartFails(w) \/ LoopFails(w)
  BY <1>2 DEF WorkerSetupFails, WorkerStartFails, LoopFails, Fails
<1>3. CASE WorkerFormat(w) \/ WorkerAnnounce(w) \/ WorkerFinish(w) \/ LoopTargetExited(w)
  BY <1>3 DEF WorkerFormat, WorkerAnnounce, WorkerFinish, LoopTargetExited
<1>4. CASE EngageCheck(w) \/ EngageSet(w) \/ EngageRecheck(w) \/ EngageUndo(w)
  BY <1>4 DEF EngageCheck, EngageSet, EngageRecheck, EngageUndo
<1>5. CASE LoopTest(w) \/ LoopDrain(w) \/ WorkerClose(w) \/ WorkerExit(w)
  BY <1>5 DEF LoopTest, LoopDrain, WorkerClose, WorkerExit
<1>6. QED BY <1>1, <1>2, <1>3, <1>4, <1>5 DEF WorkerSteps, Drains

LEMMA BookNext == Book /\ [Next]_vars => Book'
<1> SUFFICES ASSUME Book, [Next]_vars PROVE Book'
  OBVIOUS
<1> TypeInv'
  BY TypeInvNext DEF Book
<1> USE MaxSessionsAssumption DEF Book, TypeInv, TypeOK, FlagsOK, Control, Fresh,
      Published, Told, FormatRead, Reporting, Untold, OneEnding, Caused,
      Explained, Unexplained, UnknownErrorMeansExit, StatusFollows, Endings, Ended,
      Live, Failures, NoReport, Sessions
<1>1. ASSUME HotkeyPress
      PROVE  Book'
  <2>1. CASE phase = "idle" /\ bus' = "start"
    BY <1>1, <2>1 DEF HotkeyPress, session, worker, shared
  <2>2. CASE phase = "stopping" /\ bus' = "reap_hotkey"
    BY <1>1, <2>2 DEF HotkeyPress, session, worker, shared
  <2> QED
    BY <1>1, <2>1, <2>2 DEF HotkeyPress
<1>2. ASSUME StopFlag
      PROVE  Book'
  BY <1>2 DEF StopFlag, SetStop, session, worker, shared
<1>3. ASSUME StopMute
      PROVE  Book'
  BY <1>3 DEF StopMute, Tell, worker, shared
<1>4. ASSUME StartRefused
      PROVE  Book'
  BY <1>4 DEF StartRefused, session, worker, shared
<1>5. ASSUME StartSpawnFails
      PROVE  Book'
  BY <1>5 DEF StartSpawnFails, session, worker, shared
<1>6. ASSUME StartSpawned
      PROVE  Book'
  <2>1. n + 1 \in Sessions /\ wpc[n + 1] = "none" /\ cur = 0
    BY <1>6 DEF StartSpawned
  <2>2. \A w \in Sessions : wpc'[w] = IF w = n + 1 THEN "setup" ELSE wpc[w]
    BY <1>6, <2>1 DEF StartSpawned
  <2>3. n' = n + 1 /\ cur' = n + 1 /\ phase' = "starting" /\ UNCHANGED <<reported, stop, shared>>
    BY <1>6 DEF StartSpawned
  <2>4. Fresh'
    BY <2>1, <2>2, <2>3
  <2>5. Published'
    BY <2>1, <2>2, <2>3 DEF shared
  <2>6. Told'
    BY <1>6 DEF StartSpawned, WatchdogInterval
  <2>8. FormatRead'
    BY <1>6 DEF StartSpawned, WatchdogInterval
  <2>9. Reporting'
    BY <1>6 DEF StartSpawned, WatchdogInterval
  <2>10. Caused'
    <3>1. bus' = "ready" /\ pending' = NoReport /\ ~stop[n + 1]
      BY <1>6, <2>1 DEF StartSpawned
    <3> QED
      BY <2>1, <2>2, <2>3, <3>1 DEF shared
  <2>11. StatusFollows'
    BY <1>6 DEF StartSpawned, WatchdogInterval
  <2> QED
    BY <2>4, <2>5, <2>6, <2>8, <2>9, <2>10, <2>11
<1>7. ASSUME UiApply
      PROVE  Book'
  BY <1>7 DEF UiApply, ApplyConfig, session, worker, shared
<1>8. ASSUME TickLost
      PROVE  Book'
  BY <1>8 DEF TickLost, session, worker, shared
<1>9. ASSUME TickRunning
      PROVE  Book'
  BY <1>9 DEF TickRunning, TickTaken, session, worker, shared
<1>10. ASSUME Adopt
      PROVE  Book'
  BY <1>10 DEF Adopt, Tell, worker, shared
<1>11. ASSUME TickFailed
      PROVE  Book'
  BY <1>11 DEF TickFailed, TickTaken, Conclude, worker, shared
<1>12. ASSUME TickTimeout
      PROVE  Book'
  BY <1>12 DEF TickTimeout, SetStop, TickTaken, Conclude, worker, shared
<1>13. ASSUME TickWaiting
      PROVE  Book'
  BY <1>13 DEF TickWaiting, TickTaken, session, worker, shared
<1>14. ASSUME TickExited
      PROVE  Book'
  BY <1>14 DEF TickExited, TickTaken, Conclude, worker, shared
<1>15. ASSUME TickInterrupted
      PROVE  Book'
  BY <1>15 DEF TickInterrupted, Conclude, worker, shared
<1>16. ASSUME TickGoesOn
      PROVE  Book'
  <2>1. bus' = "ready" /\ bus = "tick_phase"
    BY <1>16 DEF TickGoesOn
  <2>2. UNCHANGED <<session, capturing, n, worker, stop, reported>>
    BY <1>16 DEF TickGoesOn, ApplyConfig
  <2>3. status' = status \/ status' = phase
    BY <1>16 DEF TickGoesOn, ApplyConfig
  <2>4. Fresh'
    BY <2>1, <2>2, <2>3 DEF session, worker, shared
  <2>5. Published'
    BY <2>1, <2>2, <2>3 DEF session, worker, shared
  <2>6. Told'
    BY <2>1, <2>2, <2>3 DEF session, worker, shared
  <2>8. FormatRead'
    BY <2>1, <2>2, <2>3 DEF session, worker, shared
  <2>9. Reporting'
    BY <2>1, <2>2, <2>3 DEF session, worker, shared
  <2>10. Caused'
    BY <2>1, <2>2, <2>3 DEF session, worker, shared
  <2>11. StatusFollows'
    BY <2>1, <2>2, <2>3 DEF session, worker, shared
  <2> QED
    BY <2>4, <2>5, <2>6, <2>8, <2>9, <2>10, <2>11
<1>17. ASSUME TickStopping
      PROVE  Book'
  BY <1>17 DEF TickStopping, TickTaken, session, worker, shared
<1>18. ASSUME FinishMute
      PROVE  Book'
  BY <1>18 DEF FinishMute, session, worker, shared
<1>19. ASSUME FinishFlag
      PROVE  Book'
  BY <1>19 DEF FinishFlag, SetStop, worker, shared
<1>20. ASSUME FinishReaped
      PROVE  Book'
  <2>1. cur \in Sessions /\ phase' = "idle" /\ bus' = "ready" /\ UNCHANGED <<n, worker, stop>>
    BY <1>20 DEF FinishReaped, Joined
  <2>0. Fresh' /\ Published' /\ Told' /\ FormatRead' /\ StatusFollows'
    <3>1. ~capturing' /\ interval' = 0 /\ status' = "idle"
      BY <1>20 DEF FinishReaped, Joined
    <3>2. \A v \in Sessions : v # cur => reported'[v] = reported[v]
      BY <1>20 DEF FinishReaped, Tell
    <3>3. wpc[cur] = "gone"
      BY <1>20 DEF FinishReaped, Joined
    <3>4. cur <= n
      OBVIOUS
    <3> QED
      BY <2>1, <3>1, <3>2, <3>3, <3>4 DEF worker, shared
  <2>2. CASE pending = NoReport
    <3>1. UNCHANGED reported
      BY <1>20, <2>2 DEF FinishReaped
    <3>2. Reporting' /\ Caused'
      BY <2>1, <3>1 DEF worker, shared
    <3> QED
      BY <2>0, <3>2
  <2>3. CASE pending # NoReport
    <3>1. reported' = [reported EXCEPT ![cur] = @ \cup {pending}]
      BY <1>20, <2>3 DEF FinishReaped, Tell
    <3>2. phase = "stopping" /\ reported[cur] \cap Endings = {}
      BY <1>20, <2>1, <2>3 DEF FinishReaped
    <3>3. OneEnding'
      BY <2>1, <3>1, <3>2
    <3>4. UnknownErrorMeansExit'
      BY <2>1, <3>1, <3>2 DEF worker, shared
    <3>5. Reporting' /\ Caused'
      BY <2>1, <3>3, <3>4 DEF worker, shared
    <3> QED
      BY <2>0, <3>5
  <2> QED
    BY <2>2, <2>3
<1>21. ASSUME FinishLater
      PROVE  Book'
  BY <1>21 DEF FinishLater, session, worker, shared
<1>22. ASSUME HotkeyReaped
      PROVE  Book'
  BY <1>22 DEF HotkeyReaped, Joined, worker, shared
<1>23. ASSUME HotkeyGivesUp
      PROVE  Book'
  BY <1>23 DEF HotkeyGivesUp, session, worker, shared
<1>24. ASSUME DeinitFlag
      PROVE  Book'
  BY <1>24 DEF DeinitFlag, SetStop, session, worker, shared
<1>25. ASSUME DeinitMute
      PROVE  Book'
  BY <1>25 DEF DeinitMute, session, worker, shared
<1>26. ASSUME DeinitReset
      PROVE  Book'
  BY <1>26 DEF DeinitReset, worker, shared
<1>27. ASSUME PluginInit
      PROVE  Book'
  BY <1>27 DEF PluginInit, session, worker, shared
<1>28. ASSUME HostTick
      PROVE  Book'
  BY <1>28 DEF HostTick, session, worker, shared
<1>29. ASSUME StartTimeoutPasses
      PROVE  Book'
  BY <1>29 DEF StartTimeoutPasses, session, worker, shared
<1>30. ASSUME NEW w \in Sessions, WorkerSteps(w) \/ WorkerNegotiated(w) \/ Drains(w)
      PROVE  Book'
  <2>1. AWorkerMoves
    BY <1>30, WorkerStepMoves DEF AWorkerMoves
  <2>2. UNCHANGED <<bus, session, status, n, stop, reported>>
    BY <2>1 DEF AWorkerMoves, ByWorker
  <2>3. /\ \A v \in Sessions : v > n => wpc'[v] = wpc[v]
        /\ \A v \in Sessions : wpc[v] # "none" => wpc'[v] # "none"
    BY <2>1 DEF AWorkerMoves, WorkerMoves, OthersStay
  <2>4. /\ \A v \in Sessions : failed[v] => failed'[v]
        /\ \A v \in Sessions : exited[v] => exited'[v]
        /\ \A v \in Sessions : fmtKnown[v] => fmtKnown'[v]
        /\ \A v \in Sessions : wpc[v] \in Ended => wpc'[v] \in Ended
    BY <2>1 DEF AWorkerMoves, WorkerMoves, OthersStay
  <2>5. \A v \in Sessions : wpc'[v] \in Ended => Explained(v)' \/ stop[v]
    BY <2>1 DEF AWorkerMoves, WorkerMoves, OthersStay
  <2>6. Published'
    BY <2>1 DEF AWorkerMoves, WorkerMoves, OthersStay
  <2>7. Fresh' /\ Reporting' /\ StatusFollows'
    BY <2>2, <2>3 DEF session
  <2>8. Told' /\ FormatRead'
    BY <2>2, <2>4 DEF session
  <2>9. Caused'
    BY <2>2, <2>4, <2>5 DEF session
  <2> QED
    BY <2>6, <2>7, <2>8, <2>9
<1>31. ASSUME NEW w \in Sessions, TargetExits(w)
      PROVE  Book'
  BY <1>31 DEF TargetExits, session, worker, shared
<1>32. CASE UNCHANGED vars
  BY <1>32 DEF vars, session, worker, shared
<1> QED
  BY <1>1, <1>2, <1>3, <1>4, <1>5, <1>6, <1>7, <1>8, <1>9, <1>10, <1>11, <1>12,
     <1>13, <1>14, <1>15, <1>16, <1>17, <1>18, <1>19, <1>20, <1>21, <1>22, <1>23,
     <1>24, <1>25, <1>26, <1>27, <1>28, <1>29, <1>30, <1>31, <1>32
  DEF Next, Silent, Starts, Resets, Handler, Watchdog, User

\* A step of the bus thread or the environment leaves the workers where they are: it
\* may tell one to stop, or let go of one that is gone or, in deinit, was told.
BusMoves ==
    /\ UNCHANGED <<worker, n>>
    /\ \A w \in Sessions : stop[w] => stop'[w]
    /\ cur' \in {cur, 0}
    /\ cur' # cur => wpc[cur] = "gone" \/ (stop[cur] /\ cur \in MayHang)
    /\ Muting' /\ capturing' => Muting /\ capturing

LEMMA NextMoves ==
    ASSUME Book, [Next]_vars
    PROVE  AWorkerMoves \/ StartSpawned \/ BusMoves
<1> USE DEF Book, TypeInv, TypeOK, Control, BusMoves, Muting, worker, session
<1>1. CASE Handler
  <2>1. CASE StopMute \/ StartRefused \/ Adopt \/ TickInterrupted \/ TickGoesOn
    BY <2>1 DEF StopMute, StartRefused, Adopt, TickInterrupted, TickGoesOn, ApplyConfig, Conclude
  <2>2. CASE FinishMute \/ FinishReaped \/ FinishLater
    BY <2>2 DEF FinishMute, FinishReaped, FinishLater, Joined
  <2>3. CASE FinishFlag
    <3>1. \A w \in Sessions : stop[w] => stop'[w]
      BY <2>3 DEF FinishFlag, SetStop
    <3>2. QED BY <2>3, <3>1 DEF FinishFlag
  <2>4. CASE HotkeyReaped \/ HotkeyGivesUp \/ DeinitMute
    BY <2>4 DEF HotkeyReaped, HotkeyGivesUp, DeinitMute, Joined
  <2>5. QED BY <1>1, <2>1, <2>2, <2>3, <2>4 DEF Handler
<1>2. CASE Watchdog \/ TickLost
  <2>1. CASE TickRunning \/ TickWaiting \/ TickStopping \/ TickLost
    BY <2>1 DEF TickTaken, TickRunning, TickWaiting, TickStopping, TickLost
  <2>2. CASE TickFailed \/ TickExited
    BY <2>2 DEF TickTaken, TickFailed, TickExited, Conclude
  <2>3. CASE TickTimeout
    <3>1. \A w \in Sessions : stop[w] => stop'[w]
      BY <2>3 DEF TickTimeout, SetStop
    <3>2. QED BY <2>3, <3>1 DEF TickTaken, TickTimeout, Conclude
  <2>4. QED BY <1>2, <2>1, <2>2, <2>3 DEF Watchdog
<1>3. CASE User
  <2>1. CASE HotkeyPress \/ UiApply BY <2>1 DEF HotkeyPress, UiApply, ApplyConfig
  <2>2. CASE StopFlag
    <3>1. \A w \in Sessions : stop[w] => stop'[w]
      BY <2>2 DEF StopFlag, SetStop
    <3>2. QED BY <2>2, <3>1 DEF StopFlag
  <2>3. CASE DeinitFlag
    <3>1. \A w \in Sessions : stop[w] => stop'[w]
      BY <2>3 DEF DeinitFlag, SetStop
    <3>2. QED BY <2>3, <3>1 DEF DeinitFlag
  <2>4. QED BY <1>3, <2>1, <2>2, <2>3 DEF User
<1>4. CASE HostTick \/ StartTimeoutPasses \/ \E w \in Sessions : TargetExits(w)
  BY <1>4 DEF HostTick, StartTimeoutPasses, TargetExits
<1>5. CASE StartSpawnFails \/ PluginInit
  BY <1>5 DEF StartSpawnFails, PluginInit
<1>6. CASE DeinitReset
  BY <1>6 DEF DeinitReset, Told
<1>7. CASE UNCHANGED vars BY <1>7 DEF vars
<1>8. ASSUME NEW w \in Sessions, WorkerSteps(w) \/ WorkerNegotiated(w) \/ Drains(w)
      PROVE  AWorkerMoves
  BY <1>8, WorkerStepMoves DEF AWorkerMoves
<1>9. QED
  BY <1>1, <1>2, <1>3, <1>4, <1>5, <1>6, <1>7, <1>8 DEF Next, Silent, Starts, Resets

LEMMA CoreInvInit == Init => CoreInv
<1>1. Init => Book BY BookInit
<1>2. Init => LeftBehind /\ Muted BY DEF Init, LeftBehind, Live, Muting, Muted
<1>3. QED BY <1>1, <1>2 DEF CoreInv

LEMMA CoreInvNext == CoreInv /\ [Next]_vars => CoreInv'
<1> SUFFICES ASSUME CoreInv, [Next]_vars PROVE LeftBehind' /\ Muted'
  BY BookNext DEF CoreInv
<1> USE DEF CoreInv, Live, Undoing, LeftBehind, Muting, Muted
<1>1. CASE AWorkerMoves
  <2>1. PICK w \in Sessions : WorkerMoves(w) /\ \A v \in Sessions : v # w => wpc'[v] = wpc[v]
    BY <1>1 DEF AWorkerMoves, OthersStay
  <2>2. UNCHANGED <<bus, phase, cur, stop>>
    BY <1>1 DEF AWorkerMoves, ByWorker, session
  <2>3. LeftBehind'
    BY <2>1, <2>2 DEF WorkerMoves
  <2>4. ASSUME Muting', capturing', wpc[w] = "engage_recheck"
        PROVE  stop[w]
    <3>1. CASE w = cur
      BY <2>2, <2>4, <3>1 DEF Book, Told, TypeInv, TypeOK, Control, Sessions, Ended
    <3>2. QED BY <2>4, <3>1
  <2>5. ASSUME Muting', capturing' PROVE \E v \in Sessions : Undoing(v)'
    <3>1. CASE wpc'[w] = "engage_recheck" BY <3>1
    <3>2. CASE wpc'[w] # "engage_recheck"
      <4>1. PICK v \in Sessions : Undoing(v)
        BY <2>1, <2>2, <2>5, <3>2 DEF WorkerMoves
      <4>2. CASE v = w BY <2>1, <2>4, <2>5, <4>1, <4>2 DEF WorkerMoves
      <4>3. CASE v # w BY <2>1, <4>1, <4>3
      <4>4. QED BY <4>2, <4>3
    <3>3. QED BY <3>1, <3>2
  <2>6. QED BY <2>3, <2>5
<1>2. CASE StartSpawned
  <2>1. \A w \in Sessions : wpc'[w] = IF w = n + 1 THEN "setup" ELSE wpc[w]
    BY <1>2 DEF StartSpawned, Book, TypeInv, TypeOK
  <2>2. bus' = "ready" /\ phase' = "starting" /\ cur' = n + 1 /\ stop' = stop /\ phase = "idle"
    BY <1>2 DEF StartSpawned, Book, TypeInv, Control
  <2>3. \A w \in Sessions : w # cur
    BY <2>2 DEF Book, TypeInv, Control, Sessions
  <2>4. QED BY <2>1, <2>2, <2>3
<1>3. CASE BusMoves
  <2>1. UNCHANGED wpc BY <1>3 DEF BusMoves, worker
  <2>2. LeftBehind' BY <1>3, <2>1 DEF BusMoves
  <2>3. Muted' BY <1>3, <2>1 DEF BusMoves
  <2>4. QED BY <2>2, <2>3
<1>4. QED BY <1>1, <1>2, <1>3, NextMoves

\* Told, reports, formats and CAPTURING need no assumption on the host.
LEMMA CoreInvHolds == Spec => []CoreInv
BY CoreInvInit, CoreInvNext, PTL DEF Spec

\* When every worker comes back in time, the session holds the one that lives.
LEMMA HeldNext ==
    ASSUME MayHang = {}
    PROVE  SafeInv /\ [Next]_vars => SafeInv'
<1>1. SafeInv /\ [Next]_vars => CoreInv' BY CoreInvNext DEF SafeInv
<1>2. CoreInv' => Held' BY DEF CoreInv, LeftBehind, Held
<1>3. QED BY <1>1, <1>2 DEF SafeInv

LEMMA SafeInvHolds ==
  ASSUME MayHang = {}
  PROVE  Spec => []SafeInv
<1>1. Init => SafeInv BY CoreInvInit DEF Init, SafeInv, Held, Live
<1>2. QED BY <1>1, HeldNext, PTL DEF Spec

-----------------------------------------------------------------------------
\* At most one capture thread runs, and it is the one the session holds: the
\* ring's single-producer rule, on a host whose unload does not overtake a worker.
THEOREM OneProducerHolds ==
  ASSUME MayHang = {}
  PROVE  Spec => []OneProducer
<1>1. SafeInv => OneProducer
  BY DEF SafeInv, Held, OneProducer
<1> QED
  BY <1>1, SafeInvHolds, PTL

\* An idle session has no thread, no timer and nothing mixed.
THEOREM IdleIsQuietHolds ==
  ASSUME MayHang = {}
  PROVE  Spec => []IdleIsQuiet
<1>1. SafeInv => IdleIsQuiet
  BY DEF SafeInv, CoreInv, Book, TypeInv, TypeOK, Control, Fresh, Held, Muting, Muted,
     Undoing, IdleIsQuiet, Live, Sessions
<1> QED
  BY <1>1, SafeInvHolds, PTL

\* A stopped capture is not mixed, but for the moment in which engage_capturing
\* undoes its store: the flag and CAPTURING being sequentially consistent, which
\* Session assumes and Engage does without.
THEOREM StoppedMeansMutedHolds ==
  ASSUME MayHang = {}
  PROVE  Spec => []StoppedMeansMuted
<1>1. SafeInv => StoppedMeansMuted
  BY DEF SafeInv, CoreInv, Held, Live, Muting, Muted, Undoing, StoppedMeansMuted
<1> QED
  BY <1>1, SafeInvHolds, PTL

\* Whatever a worker's system calls take, a thread the session has let go of was told
\* to stop.
THEOREM NoneForsakenHolds == Spec => []NoneForsaken
<1>1. CoreInv => NoneForsaken
  BY DEF CoreInv, LeftBehind, NoneForsaken
<1> QED
  BY <1>1, CoreInvHolds, PTL

\* Whatever a worker's system calls take, while nothing is captured or the capture
\* winds down, CAPTURING is set only where some worker takes its store back.
THEOREM UnaskedIsMutedHolds == Spec => []UnaskedIsMuted
<1>1. CoreInv => UnaskedIsMuted
  BY DEF CoreInv, Muting, Muted, UnaskedIsMuted
<1> QED
  BY <1>1, CoreInvHolds, PTL

\* A running capture shows the format that was negotiated.
THEOREM RunningHasFormatHolds == Spec => []RunningHasFormat
<1>1. CoreInv => RunningHasFormat
  BY DEF CoreInv, Book, FormatRead, RunningHasFormat
<1> QED
  BY <1>1, CoreInvHolds, PTL

\* The user hears of one ending per capture.
THEOREM OneEndingHolds == Spec => []OneEnding
<1>1. CoreInv => OneEnding
  BY DEF CoreInv, Book, Reporting
<1> QED
  BY <1>1, CoreInvHolds, PTL

\* An unknown error is reported only of a capture whose target exited.
THEOREM UnknownErrorMeansExitHolds == Spec => []UnknownErrorMeansExit
<1>1. CoreInv => UnknownErrorMeansExit
  BY DEF CoreInv, Book, Caused
<1> QED
  BY <1>1, CoreInvHolds, PTL

\* The panel shows the phase, or stopping for an idle session.
THEOREM StatusAtWorstStoppingHolds == Spec => []StatusAtWorstStopping
<1>1. CoreInv => StatusAtWorstStopping
  BY DEF CoreInv, Book, StatusFollows, StatusAtWorstStopping
<1> QED
  BY <1>1, CoreInvHolds, PTL

-----------------------------------------------------------------------------
\* Reports.  finish is only entered without a report pending, so that no report
\* displaces another.
ReportTold ==
    pending # NoReport /\ pending' # pending =>
        \/ bus \in {"start", "deinit_reap"}
        \/ pending' = NoReport /\ pending \in reported'[cur]

LEMMA ReportToldNext == Book /\ [Next]_vars => ReportTold
<1> SUFFICES ASSUME Book, [Next]_vars, pending # NoReport, pending' # pending
             PROVE  bus \in {"start", "deinit_reap"}
                    \/ (pending' = NoReport /\ pending \in reported'[cur])
  BY DEF ReportTold
<1> USE DEF Book, TypeInv, TypeOK, Control
<1>1. CASE FinishFlag
  BY <1>1 DEF FinishFlag, Reporting
<1>2. CASE FinishReaped
  <2>1. cur \in Sessions
    BY <1>2, MaxSessionsAssumption DEF FinishReaped, Sessions
  <2>2. pending' = NoReport /\ reported' = [reported EXCEPT ![cur] = @ \cup {pending}]
    BY <1>2 DEF FinishReaped, Tell
  <2>3. QED BY <2>1, <2>2
<1>3. CASE StartSpawned \/ DeinitReset
  BY <1>3 DEF StartSpawned, DeinitReset
<1>4. CASE Handler /\ ~FinishFlag /\ ~FinishReaped
  BY <1>4 DEF Handler, session, StopMute, StartRefused, Adopt, TickInterrupted, TickGoesOn,
     ApplyConfig, FinishMute, FinishLater, HotkeyReaped, HotkeyGivesUp, DeinitMute
<1>5. CASE Watchdog \/ TickLost \/ User
  <2>1. CASE TickRunning \/ TickFailed \/ TickTimeout \/ TickWaiting
    BY <2>1 DEF session, TickRunning, TickFailed, TickTimeout, TickWaiting
  <2>2. CASE TickExited \/ TickStopping \/ TickLost
    BY <2>2 DEF session, TickExited, TickStopping, TickLost
  <2>3. CASE User
    BY <2>3 DEF session, User, HotkeyPress, StopFlag, UiApply, ApplyConfig, DeinitFlag
  <2>4. QED BY <1>5, <2>1, <2>2, <2>3 DEF Watchdog
<1>6. CASE HostTick \/ StartTimeoutPasses \/ \E w \in Sessions : TargetExits(w)
  BY <1>6 DEF session, HostTick, StartTimeoutPasses, TargetExits
<1>7. CASE StartSpawnFails \/ PluginInit \/ UNCHANGED vars
  BY <1>7 DEF session, StartSpawnFails, PluginInit, vars
<1>8. ASSUME NEW w \in Sessions, WorkerSteps(w) \/ WorkerNegotiated(w) \/ Drains(w)
      PROVE  UNCHANGED pending
  BY <1>8, WorkerStepMoves DEF ByWorker, session
<1>9. QED
  BY <1>1, <1>2, <1>3, <1>4, <1>5, <1>6, <1>7, <1>8 DEF Next, Silent, Starts, Resets

\* A failure that stopped a capture is told once its worker is reaped, however many
\* ticks that takes: only a restart by the user or an unload discards the report.
THEOREM ReportNotLostHolds == Spec => ReportNotLost
<1>1. CoreInv => Book BY DEF CoreInv
<1>2. CoreInv /\ [Next]_vars => [ReportTold]_vars BY <1>1, ReportToldNext
<1>3. [][ReportTold]_vars <=> ReportNotLost BY PTL DEF ReportTold, ReportNotLost
<1>4. QED BY <1>2, <1>3, CoreInvHolds, PTL DEF Spec

-----------------------------------------------------------------------------
\* The session implements CaptureLife.  Its steps in the terms of that module: some
\* leave threads and reports alone, some only ask the thread held to stop.
Quiet == UNCHANGED <<worker, stop, cur, reported>>
Asks  == SetStop /\ cur # 0 /\ UNCHANGED <<worker, cur, reported>> /\ Insisting' = Insisting

LEMMA LifeCases ==
    ASSUME Book, [Next]_vars
    PROVE  \/ Quiet \/ Asks
           \/ StartSpawned \/ Adopt \/ StopMute \/ FinishReaped \/ HotkeyReaped
           \/ DeinitReset /\ cur # 0
           \/ \E w \in Sessions : WorkerSteps(w) \/ WorkerNegotiated(w) \/ Drains(w)
<1> USE DEF Quiet, session, worker
<1>1. CASE Handler
  <2>1. CASE StartRefused \/ TickInterrupted \/ TickGoesOn \/ FinishMute
    BY <2>1 DEF StartRefused, TickInterrupted, TickGoesOn, ApplyConfig, Conclude, FinishMute
  <2>2. CASE FinishLater \/ HotkeyGivesUp \/ DeinitMute
    BY <2>2 DEF FinishLater, HotkeyGivesUp, DeinitMute
  <2>3. CASE FinishFlag
    BY <2>3 DEF FinishFlag, Asks, Insisting, Book, TypeInv, Control
  <2>4. QED BY <1>1, <2>1, <2>2, <2>3 DEF Handler
<1>2. CASE Watchdog \/ TickLost
  <2>1. CASE TickRunning \/ TickWaiting \/ TickStopping \/ TickLost
    BY <2>1 DEF TickRunning, TickWaiting, TickStopping, TickLost
  <2>2. CASE TickFailed \/ TickExited
    BY <2>2 DEF TickFailed, TickExited
  <2>3. CASE TickTimeout
    BY <2>3 DEF TickTimeout, TickTaken, Conclude, Asks, Insisting, Book, TypeInv, Control
  <2>4. QED BY <1>2, <2>1, <2>2, <2>3 DEF Watchdog
<1>3. CASE User
  <2>1. CASE HotkeyPress \/ UiApply BY <2>1 DEF HotkeyPress, UiApply, ApplyConfig
  <2>2. CASE StopFlag
    BY <2>2 DEF StopFlag, Asks, Insisting, Book, TypeInv, Control
  <2>3. CASE DeinitFlag
    BY <2>3 DEF DeinitFlag, Asks, Insisting
  <2>4. QED BY <1>3, <2>1, <2>2, <2>3 DEF User
<1>4. CASE HostTick \/ StartTimeoutPasses \/ \E w \in Sessions : TargetExits(w)
  BY <1>4 DEF HostTick, StartTimeoutPasses, TargetExits
<1>5. CASE StartSpawnFails \/ PluginInit
  BY <1>5 DEF StartSpawnFails, PluginInit
<1>6. CASE DeinitReset /\ cur = 0
  BY <1>6 DEF DeinitReset
<1>7. CASE UNCHANGED vars BY <1>7 DEF vars
<1>8. QED
  BY <1>1, <1>2, <1>3, <1>4, <1>5, <1>6, <1>7 DEF Next, Silent, Starts, Resets

\* Threads, one of them at a time.
LEMMA ThreadsStay ==
    ASSUME \A w \in Sessions : Thread(w)' = Thread(w)
    PROVE  Threads' = Threads
BY DEF Threads

LEMMA LifeStep == CoreInv /\ [Next]_vars => [Life!Next]_(Life!life_vars)
<1> SUFFICES ASSUME CoreInv, [Next]_vars
             PROVE  Life!Next \/ UNCHANGED <<cur, Threads, reported, Insisting>>
  BY DEF Life!life_vars
<1> Book BY DEF CoreInv
<1> USE DEF Book, TypeInv, TypeOK, Control
<1>0. cur # 0 => cur \in Sessions /\ wpc[cur] # "none" /\ Threads[cur] = Thread(cur)
  BY MaxSessionsAssumption DEF Fresh, Sessions, Threads
<1>1. CASE Quiet
  <2>1. Threads' = Threads BY <1>1, ThreadsStay DEF Quiet, worker, Thread
  <2>2. Insisting' = Insisting \/ Insisting' = ~Insisting BY DEF Insisting
  <2>3. QED BY <1>1, <2>1, <2>2 DEF Quiet, Life!Next, Life!Insist
<1>2. CASE Asks
  <2>1. cur \in Sessions /\ \A v \in Sessions : v # cur => Thread(v)' = Thread(v)
    BY <1>0, <1>2 DEF Asks, SetStop, worker, Thread
  <2>2. stop'[cur] /\ cur' = cur /\ wpc' = wpc BY <1>2, <2>1 DEF Asks, SetStop, worker
  <2>3. CASE Thread(cur) = "up"
    <3>1. Threads' = [Threads EXCEPT ![cur] = "stopping"]
      <4>1. wpc[cur] \notin {"none", "gone"} BY <2>3 DEF Thread
      <4>2. \A v \in Sessions : (IF v = cur THEN "stopping" ELSE Thread(v)) = Thread(v)'
        BY <2>1, <2>2, <4>1 DEF Thread
      <4>3. QED BY <2>1, <4>2 DEF Threads
    <3>2. Life!AskToStop
      BY <1>0, <1>2, <2>3, <3>1 DEF Asks, Life!AskToStop, Life!Becomes
    <3>3. QED BY <3>2 DEF Life!Next
  <2>4. CASE Thread(cur) # "up"
    <3>1. \A v \in Sessions : Thread(v)' = Thread(v)
      BY <2>1, <2>2, <2>4 DEF Thread
    <3>2. Threads' = Threads BY <3>1, ThreadsStay
    <3>3. QED BY <1>2, <3>2 DEF Asks
  <2>5. QED BY <2>3, <2>4
<1>3. CASE StartSpawned
  <2>1. /\ n + 1 \in Sessions /\ cur = 0 /\ cur' = n + 1 /\ stop' = stop /\ reported' = reported
        /\ Insisting' = Insisting
    <3>1. bus = "start" /\ bus' = "ready" /\ n < MaxSessions BY <1>3 DEF StartSpawned
    <3>2. n + 1 \in Sessions BY <3>1, MaxSessionsAssumption DEF Sessions
    <3>3. cur = 0 BY <3>1
    <3>4. Insisting' = Insisting BY <3>1 DEF Insisting
    <3>5. cur' = n + 1 /\ stop' = stop /\ reported' = reported BY <1>3 DEF StartSpawned
    <3>6. QED BY <3>2, <3>3, <3>4, <3>5
  <2>2. \A v \in Sessions : wpc'[v] = IF v = n + 1 THEN "setup" ELSE wpc[v]
    BY <1>3, <2>1 DEF StartSpawned
  <2>3. wpc[n + 1] = "none" /\ ~stop[n + 1] BY <2>1 DEF Fresh
  <2>4. Threads' = [Threads EXCEPT ![n + 1] = "up"]
    <3>1. \A v \in Sessions : Thread(v)' = IF v = n + 1 THEN "up" ELSE Thread(v)
      BY <2>1, <2>2, <2>3 DEF Thread
    <3>2. QED BY <2>1, <3>1 DEF Threads
  <2>5. \A v \in Sessions : Threads[v] \in {"none", "over"}
                            \/ (v \in MayHang /\ Threads[v] = "stopping")
    <3>1. \A v \in Sessions : Live(v) => stop[v] /\ v \in MayHang
      BY <2>1 DEF CoreInv, LeftBehind, Sessions
    <3>2. QED BY <3>1 DEF Threads, Thread, Live
  <2>6. Threads[n + 1] = "none" BY <2>1, <2>3 DEF Threads, Thread
  <2>7. Life!Begin(n + 1) BY <2>1, <2>4, <2>5, <2>6 DEF Life!Begin, Life!Becomes
  <2>8. QED BY <2>1, <2>7 DEF Life!Next
<1>4. CASE Adopt
  <2>1. UNCHANGED <<cur, wpc, stop>> /\ Insisting' = Insisting /\ ~stop[cur]
    BY <1>4 DEF Adopt, worker, Insisting, Caused
  <2>2. cur # 0 /\ reported[cur] = {} BY <1>4 DEF Adopt, Reporting
  <2>3. Threads' = Threads BY <2>1, ThreadsStay DEF Thread
  <2>4. Threads[cur] # "stopping" BY <1>0, <2>1, <2>2 DEF Thread
  <2>5. Life!TellRunning
    BY <1>4, <2>1, <2>2, <2>3, <2>4 DEF Adopt, Tell, Life!TellRunning, Life!Tell
  <2>6. QED BY <2>5 DEF Life!Next
<1>5. CASE StopMute
  <2>1. UNCHANGED <<cur, wpc, stop>> /\ Insisting' = Insisting /\ stop[cur] /\ cur # 0
    BY <1>5 DEF StopMute, worker, Insisting, Told
  <2>2. reported[cur] \subseteq {"running"}
    BY <1>0, <1>5, <2>1 DEF StopMute, Reporting, Untold, Endings, Reports, Failures
  <2>3. Threads' = Threads BY <2>1, ThreadsStay DEF Thread
  <2>4. Threads[cur] # "up" BY <1>0, <2>1 DEF Thread
  <2>5. Life!TellStopped
    BY <1>5, <2>1, <2>2, <2>3, <2>4 DEF StopMute, Tell, Life!TellStopped, Life!Tell
  <2>6. QED BY <2>5 DEF Life!Next
<1>6. CASE FinishReaped
  <2>1. /\ UNCHANGED <<wpc, stop>> /\ Insisting' = Insisting /\ cur # 0 /\ cur' = 0
        /\ wpc[cur] = "gone" /\ phase = "stopping"
    BY <1>6 DEF FinishReaped, Joined, worker, Insisting
  <2>2. Threads' = Threads BY <2>1, ThreadsStay DEF Thread
  <2>3. Threads[cur] = "over" BY <1>0, <2>1 DEF Thread
  <2>4. \/ reported[cur] \cap Life!Endings # {} /\ UNCHANGED reported
        \/ reported[cur] \subseteq {"running"} /\ \E what \in Life!Failed : Life!Tell(what)
    <3>1. CASE pending = NoReport
      <4>1. "stopped" \in reported[cur] /\ UNCHANGED reported
        BY <1>6, <2>1, <3>1 DEF FinishReaped, Reporting
      <4>2. QED BY <4>1 DEF Life!Endings
    <3>2. CASE pending # NoReport
      <4>1. pending \in Life!Failed BY <3>2 DEF Failures, Life!Failed
      <4>2. Life!Tell(pending) BY <1>6, <3>2 DEF FinishReaped, Tell, Life!Tell
      <4>3. reported[cur] \subseteq {"running"}
        BY <1>0, <2>1, <3>2 DEF Reporting, Untold, Endings, Reports, Failures
      <4>4. QED BY <4>1, <4>2, <4>3
    <3>3. QED BY <3>1, <3>2
  <2>5. Life!Conclude BY <2>1, <2>2, <2>3, <2>4 DEF Life!Conclude
  <2>6. QED BY <2>5 DEF Life!Next
<1>7. CASE HotkeyReaped
  <2>1. /\ UNCHANGED <<wpc, stop, reported>> /\ Insisting /\ ~Insisting' /\ cur # 0 /\ cur' = 0
        /\ wpc[cur] = "gone"
    BY <1>7 DEF HotkeyReaped, Joined, worker, Insisting
  <2>2. Threads' = Threads BY <2>1, ThreadsStay DEF Thread
  <2>3. Threads[cur] = "over" BY <1>0, <2>1 DEF Thread
  <2>4. Life!Discard BY <2>1, <2>2, <2>3 DEF Life!Discard
  <2>5. QED BY <2>4 DEF Life!Next
<1>8. CASE DeinitReset /\ cur # 0
  <2>1. /\ UNCHANGED <<wpc, stop, reported>> /\ Insisting /\ ~Insisting' /\ cur # 0 /\ cur' = 0
        /\ wpc[cur] = "gone" \/ cur \in MayHang
        /\ stop[cur]
    BY <1>8 DEF DeinitReset, worker, Insisting, Told
  <2>2. Threads' = Threads BY <2>1, ThreadsStay DEF Thread
  <2>3. Threads[cur] = "over" \/ (cur \in MayHang /\ Threads[cur] = "stopping")
    BY <1>0, <2>1 DEF Thread
  <2>4. Life!Discard BY <2>1, <2>2, <2>3 DEF Life!Discard
  <2>5. QED BY <2>4 DEF Life!Next
<1>9. ASSUME NEW w \in Sessions, WorkerSteps(w) \/ WorkerNegotiated(w) \/ Drains(w)
      PROVE  Life!Next \/ UNCHANGED <<cur, Threads, reported, Insisting>>
  <2>1. ByWorker /\ WorkerMoves(w) /\ OthersStay(w) BY <1>9, WorkerStepMoves
  <2>2. UNCHANGED <<cur, stop, reported, Insisting>> BY <2>1 DEF ByWorker, session, Insisting
  <2>3. \A v \in Sessions : v # w => Thread(v)' = Thread(v)
    BY <2>1, <2>2 DEF OthersStay, Thread
  <2>4. wpc[w] \notin {"none", "gone"} /\ wpc'[w] # "none" BY <2>1 DEF WorkerMoves
  <2>5. CASE wpc'[w] = "gone"
    <3>1. Thread(w)' = "over" BY <2>5 DEF Thread
    <3>2. Threads' = [Threads EXCEPT ![w] = "over"]
      <4>1. \A v \in Sessions : Thread(v)' = IF v = w THEN "over" ELSE Thread(v)
        BY <2>3, <3>1
      <4>2. QED BY <4>1 DEF Threads
    <3>3. Threads[w] = "stopping" \/ (Threads[w] = "up" /\ w = cur)
      BY <2>4 DEF Threads, Thread, CoreInv, LeftBehind, Live
    <3>4. Life!End(w) BY <2>2, <3>2, <3>3 DEF Life!End, Life!Becomes
    <3>5. QED BY <3>4 DEF Life!Next
  <2>6. CASE wpc'[w] # "gone"
    <3>1. Thread(w)' = Thread(w) BY <2>2, <2>4, <2>6 DEF Thread
    <3>2. Threads' = Threads BY <2>3, <3>1, ThreadsStay
    <3>3. QED BY <2>2, <3>2
  <2>7. QED BY <2>5, <2>6
<1>10. QED
  BY <1>1, <1>2, <1>3, <1>4, <1>5, <1>6, <1>7, <1>8, <1>9, LifeCases

\* What the user and the host see of captures is CaptureLife: one at a time, each with
\* a thread that is over, or was asked to stop, when it is let go of, and with one
\* ending told unless the user or the host did not wait for it.
THEOREM CapturesLiveHolds == Spec => CapturesLive
<1>1. Init => Life!Init
  BY DEF Init, Life!Init, Threads, Thread, Insisting
<1>2. QED BY <1>1, LifeStep, CoreInvHolds, PTL DEF Spec, CapturesLive, Life!Spec

-----------------------------------------------------------------------------
\* The workers' side of the contract, also for a worker deinit has forgotten.
Early   == {"none", "setup", "negotiate", "format", "announce"}
Serving == {"engage", "engage_set", "engage_recheck", "engage_undo", "loop", "drain"}

\* How far a worker is, what it shows, and why it is leaving.
WorkerOK(w) ==
    /\ w > n => wpc[w] = "none"
    /\ wpc[w] \in Early => sharedPhase[w] = "starting"
    /\ wpc[w] \in Serving => sharedPhase[w] = "running"
    /\ wpc[w] \in {"close", "finish"} => sharedPhase[w] # "finished"
    /\ wpc[w] \in {"exit", "gone"} => sharedPhase[w] = "finished"
    /\ failed[w] => wpc[w] \in {"finish", "exit", "gone"} /\ ~exited[w]
    /\ exited[w] => wpc[w] \in Ended
    /\ wpc[w] \in Ended => failed[w] \/ exited[w] \/ stop[w]
    /\ wpc[w] = "announce" \/ sharedPhase[w] = "running" => fmtKnown[w]

WorkersInv == TypeInv /\ \A w \in Sessions : WorkerOK(w)

Kept(w) == Contract(w)!Next \/ UNCHANGED Contract(w)!shared

LEMMA WorkersInvInit == Init => WorkersInv
BY TypeInvInit DEF Init, WorkersInv, WorkerOK, Early, Serving, Ended

\* A step of the bus thread or the environment touches a worker's flag at most.
Outside == UNCHANGED <<worker, n>> /\ (stop' = stop \/ SetStop)

LEMMA NextCases ==
    ASSUME [Next]_vars
    PROVE  Outside \/ StartSpawned \/ \E w \in Sessions :
               WorkerSteps(w) \/ WorkerNegotiated(w) \/ Drains(w)
<1> USE DEF Outside, worker
<1>1. CASE Handler
  <2>1. CASE StopMute \/ StartRefused \/ Adopt \/ TickInterrupted \/ TickGoesOn
    BY <2>1 DEF StopMute, StartRefused, Adopt, TickInterrupted, TickGoesOn, ApplyConfig
  <2>2. CASE FinishMute \/ FinishReaped \/ FinishLater
    BY <2>2 DEF FinishMute, FinishReaped, FinishLater
  <2>3. CASE FinishFlag BY <2>3 DEF FinishFlag
  <2>4. CASE HotkeyReaped \/ HotkeyGivesUp \/ DeinitMute
    BY <2>4 DEF HotkeyReaped, HotkeyGivesUp, DeinitMute
  <2>5. QED BY <1>1, <2>1, <2>2, <2>3, <2>4 DEF Handler
<1>2. CASE Watchdog \/ TickLost
  BY <1>2 DEF Watchdog, TickRunning, TickFailed, TickTimeout, TickWaiting, TickExited,
              TickStopping, TickLost
<1>3. CASE User
  <2>1. CASE HotkeyPress \/ UiApply BY <2>1 DEF HotkeyPress, UiApply, ApplyConfig
  <2>2. CASE StopFlag BY <2>2 DEF StopFlag
  <2>3. CASE DeinitFlag BY <2>3 DEF DeinitFlag
  <2>4. QED BY <1>3, <2>1, <2>2, <2>3 DEF User
<1>4. CASE HostTick \/ StartTimeoutPasses \/ \E w \in Sessions : TargetExits(w)
  BY <1>4 DEF HostTick, StartTimeoutPasses, TargetExits
<1>5. CASE StartSpawnFails \/ Resets
  BY <1>5 DEF StartSpawnFails, Resets, DeinitReset, PluginInit
<1>6. CASE UNCHANGED vars BY <1>6 DEF vars
<1>7. QED BY <1>1, <1>2, <1>3, <1>4, <1>5, <1>6 DEF Next, Silent, Starts

\* A worker's step leaves every other worker as it is.
LEMMA OthersUntouched ==
    ASSUME TypeInv, NEW w \in Sessions, NEW v \in Sessions, v # w, WorkerOK(v),
           WorkerSteps(w) \/ WorkerNegotiated(w) \/ Drains(w)
    PROVE  WorkerOK(v)' /\ Kept(v)
<1>1. /\ wpc'[v] = wpc[v] /\ sharedPhase'[v] = sharedPhase[v] /\ failed'[v] = failed[v]
      /\ exited'[v] = exited[v] /\ fmtKnown'[v] = fmtKnown[v] /\ n' = n /\ stop' = stop
  BY WorkerStepMoves DEF OthersStay, ByWorker
<1>2. WorkerOK(v)' BY <1>1 DEF WorkerOK
<1>3. UNCHANGED Contract(v)!shared BY <1>1 DEF Contract!shared
<1>4. QED BY <1>2, <1>3 DEF Kept

\* A worker's own step keeps what is known of it, and the contract.
LEMMA OwnStep ==
    ASSUME TypeInv, NEW w \in Sessions, WorkerOK(w),
           WorkerSteps(w) \/ WorkerNegotiated(w) \/ Drains(w)
    PROVE  WorkerOK(w)' /\ Kept(w)
<1> USE DEF TypeInv, TypeOK, At, ByWorker, shared
<1>1. CASE \/ WorkerSetUp(w) \/ WorkerNegotiated(w) \/ WorkerNegotiationStopped(w)
           \/ EngageCheck(w) \/ EngageSet(w) \/ EngageRecheck(w) \/ EngageUndo(w)
           \/ LoopTest(w) \/ LoopDrain(w) \/ WorkerClose(w) \/ WorkerExit(w)
  <2>1. UNCHANGED <<shared, stop, n>>
    BY <1>1 DEF WorkerSetUp, WorkerNegotiated, WorkerNegotiationStopped, EngageCheck, EngageSet,
                EngageRecheck, EngageUndo, LoopTest, LoopDrain, WorkerClose, WorkerExit
  <2>2. wpc[w] # "none" /\ wpc'[w] # "announce"
    BY <1>1 DEF WorkerSetUp, WorkerNegotiated, WorkerNegotiationStopped, EngageCheck, EngageSet,
                EngageRecheck, EngageUndo, LoopTest, LoopDrain, WorkerClose, WorkerExit
  <2>3. /\ wpc'[w] \in Early => wpc[w] \in Early
        /\ wpc'[w] \in Serving => wpc[w] \in Serving
        /\ wpc'[w] \in Ended => wpc[w] \in Ended \/ stop[w]
        /\ wpc[w] \in Ended => wpc'[w] \in Ended
        /\ wpc'[w] = "close" => wpc[w] \in Early \cup Serving
        /\ wpc'[w] = "finish" => wpc[w] = "close"
        /\ wpc'[w] \in {"exit", "gone"} => wpc[w] = "exit"
        /\ wpc[w] \in {"finish", "exit", "gone"} => wpc'[w] \in {"finish", "exit", "gone"}
    BY <1>1 DEF WorkerSetUp, WorkerNegotiated, WorkerNegotiationStopped, EngageCheck, EngageSet,
                EngageRecheck, EngageUndo, LoopTest, LoopDrain, WorkerClose, WorkerExit, Early,
                Serving, Ended
  <2>4. WorkerOK(w)' BY <2>1, <2>2, <2>3 DEF WorkerOK, Early, Serving
  <2>5. UNCHANGED Contract(w)!shared BY <2>1 DEF Contract!shared
  <2>6. QED BY <2>4, <2>5 DEF Kept
<1>2. CASE WorkerSetupFails(w) \/ WorkerStartFails(w) \/ LoopFails(w)
  <2>1. /\ wpc[w] \in {"setup", "announce", "drain"} /\ wpc'[w] = "finish"
        /\ failed'[w] = TRUE /\ UNCHANGED <<sharedPhase, exited, fmtKnown, stop, n>>
    BY <1>2 DEF WorkerSetupFails, WorkerStartFails, LoopFails, Fails
  <2>2. WorkerOK(w)' BY <2>1 DEF WorkerOK, Early, Serving, Ended
  <2>3. Contract(w)!Fail BY <2>1 DEF WorkerOK, Early, Serving, Ended, Contract!Fail
  <2>4. QED BY <2>2, <2>3 DEF Kept, Contract!Next
<1>3. CASE WorkerFormat(w)
  <2>1. /\ wpc[w] = "format" /\ wpc'[w] = "announce"
        /\ fmtKnown'[w] = TRUE /\ UNCHANGED <<sharedPhase, exited, failed, stop, n>>
    BY <1>3 DEF WorkerFormat
  <2>2. WorkerOK(w)' BY <2>1 DEF WorkerOK, Early, Serving, Ended
  <2>3. Contract(w)!StoreFormat BY <2>1 DEF WorkerOK, Early, Contract!StoreFormat
  <2>4. QED BY <2>2, <2>3 DEF Kept, Contract!Next
<1>4. CASE WorkerAnnounce(w)
  <2>1. /\ wpc[w] = "announce" /\ wpc'[w] = "engage"
        /\ sharedPhase'[w] = "running" /\ UNCHANGED <<exited, failed, fmtKnown, stop, n>>
    BY <1>4 DEF WorkerAnnounce
  <2>2. WorkerOK(w)' BY <2>1 DEF WorkerOK, Early, Serving, Ended
  <2>3. Contract(w)!Announce BY <2>1 DEF WorkerOK, Early, Contract!Announce
  <2>4. QED BY <2>2, <2>3 DEF Kept, Contract!Next
<1>5. CASE LoopTargetExited(w)
  <2>1. /\ wpc[w] = "drain" /\ wpc'[w] = "close"
        /\ exited'[w] = TRUE /\ UNCHANGED <<sharedPhase, failed, fmtKnown, stop, n>>
    BY <1>5 DEF LoopTargetExited
  <2>2. WorkerOK(w)' BY <2>1 DEF WorkerOK, Early, Serving, Ended
  <2>3. Contract(w)!NoteExit BY <2>1 DEF WorkerOK, Serving, Contract!NoteExit
  <2>4. QED BY <2>2, <2>3 DEF Kept, Contract!Next
<1>6. CASE WorkerFinish(w)
  <2>1. /\ wpc[w] = "finish" /\ wpc'[w] = "exit"
        /\ sharedPhase'[w] = "finished" /\ UNCHANGED <<exited, failed, fmtKnown, stop, n>>
    BY <1>6 DEF WorkerFinish
  <2>2. WorkerOK(w)' BY <2>1 DEF WorkerOK, Early, Serving, Ended
  <2>3. Contract(w)!Finish BY <2>1 DEF WorkerOK, Ended, Contract!Finish
  <2>4. QED BY <2>2, <2>3 DEF Kept, Contract!Next
<1>7. QED BY <1>1, <1>2, <1>3, <1>4, <1>5, <1>6 DEF WorkerSteps, Drains

LEMMA WorkersInvNext ==
    WorkersInv /\ [Next]_vars => WorkersInv' /\ \A w \in Sessions : Kept(w)
<1> SUFFICES ASSUME WorkersInv, [Next]_vars
             PROVE  WorkersInv' /\ \A w \in Sessions : Kept(w)
  OBVIOUS
<1>1. TypeInv /\ TypeInv' BY TypeInvNext DEF WorkersInv
<1>2. SUFFICES ASSUME NEW v \in Sessions PROVE WorkerOK(v)' /\ Kept(v)
  BY <1>1 DEF WorkersInv
<1>3. WorkerOK(v) BY DEF WorkersInv
<1>4. CASE Outside
  <2>1. UNCHANGED <<worker, n>> /\ (stop'[v] = stop[v] \/ stop'[v] = TRUE)
    BY <1>1, <1>4 DEF Outside, SetStop, TypeInv, TypeOK
  <2>2. WorkerOK(v)' BY <1>3, <2>1 DEF WorkerOK, worker, shared
  <2>3. CASE stop'[v] = stop[v]
    <3>1. UNCHANGED Contract(v)!shared BY <2>1, <2>3 DEF worker, shared, Contract!shared
    <3>2. QED BY <2>2, <3>1 DEF Kept
  <2>4. CASE stop'[v] = TRUE
    <3>1. Contract(v)!Stop BY <2>1, <2>4 DEF worker, shared, Contract!Stop
    <3>2. QED BY <2>2, <3>1 DEF Kept, Contract!Next
  <2>5. QED BY <2>1, <2>3, <2>4
<1>5. CASE StartSpawned
  <2>1. n' = n + 1 /\ UNCHANGED <<shared, stop>> /\ n \in Nat
    BY <1>1, <1>5 DEF StartSpawned, TypeInv, TypeOK
  <2>2. wpc'[v] = IF v = n + 1 THEN "setup" ELSE wpc[v]
    BY <1>1, <1>5 DEF StartSpawned, TypeInv, TypeOK
  <2>3. v \in Nat BY MaxSessionsAssumption DEF Sessions
  <2>4. WorkerOK(v)'
    <3>1. CASE v = n + 1
      BY <1>3, <2>1, <2>2, <2>3, <3>1 DEF WorkerOK, shared, Early, Serving, Ended
    <3>2. CASE v # n + 1 BY <1>3, <2>1, <2>2, <2>3, <3>2 DEF WorkerOK, shared
    <3>3. QED BY <3>1, <3>2
  <2>5. UNCHANGED Contract(v)!shared BY <2>1 DEF shared, Contract!shared
  <2>6. QED BY <2>4, <2>5 DEF Kept
<1>6. ASSUME NEW w \in Sessions, WorkerSteps(w) \/ WorkerNegotiated(w) \/ Drains(w)
      PROVE  WorkerOK(v)' /\ Kept(v)
  <2>1. CASE v = w BY <1>1, <1>3, <1>6, <2>1, OwnStep
  <2>2. CASE v # w
    <3>1. TypeInv /\ v # w /\ WorkerOK(v) BY <1>1, <1>3, <2>2
    <3>2. QED BY <1>6, <3>1, OthersUntouched
  <2>3. QED BY <2>1, <2>2
<1>7. QED BY <1>4, <1>5, <1>6, NextCases

\* Every worker the session spawns, on every platform and also when deinit's budget
\* runs out, keeps the contract: a format before the announcement, an error before
\* the end, and no end without a cause.
THEOREM WorkersKeepContractHolds == Spec => WorkersKeepContract
<1>1. Init => \A w \in Sessions : Contract(w)!Init BY DEF Init, Contract!Init
<1>2. [\A w \in Sessions : Kept(w)]_vars <=>
          [\A w \in Sessions : Contract(w)!Next \/ UNCHANGED Contract(w)!shared]_vars
  BY DEF Kept
<1>3. QED
  BY <1>1, <1>2, WorkersInvInit, WorkersInvNext, PTL DEF Spec, WorkersKeepContract

-----------------------------------------------------------------------------
\* Mixer.  The session under the mixer is the session of Session.tla: whatever holds of
\* every behaviour of that one holds here.
LEMMA MNextIsNext == [MNext]_mvars => [Next]_vars
<1> SUFFICES ASSUME [MNext]_mvars PROVE Next \/ UNCHANGED vars
  OBVIOUS
<1>1. CASE ClearOnStart BY <1>1 DEF ClearOnStart, Next
<1>2. CASE Settle BY <1>2 DEF Settle, Next
<1>3. CASE Process BY <1>3 DEF Process
<1>4. ASSUME NEW w \in Sessions, Capture(w) PROVE Next BY <1>4 DEF Capture, Next
<1>5. CASE Silent BY <1>5 DEF Next
<1>6. CASE UNCHANGED mvars BY <1>6 DEF mvars
<1>7. QED BY <1>1, <1>2, <1>3, <1>4, <1>5, <1>6 DEF MNext

\* What is mixed is mixed of a session that keeps all its own properties: the audio
\* thread reads CAPTURING and writes nothing of the session's.
THEOREM MixerKeepsSession == MSpec => Spec
<1>1. MInit => Init BY DEF MInit
<1>2. QED BY <1>1, MNextIsNext, PTL DEF MSpec, Spec

-----------------------------------------------------------------------------
\* Where the sample counts of one call lie.
MixerTypes ==
    /\ ring \in Seq(Sessions) /\ Len(ring) <= RingCap
    /\ env \in 0..Fade /\ mixed \subseteq Sessions /\ tail \in Nat

LEMMA DownNat ==
    ASSUME NEW e \in Nat, NEW k \in Nat
    PROVE  /\ Down(e, k) \in Nat /\ Down(e, k) <= e
           /\ Down(e, k) = 0 \/ Down(e, k) = e - k
BY DEF Down

LEMMA LesserNat ==
    ASSUME NEW a \in Nat, NEW b \in Nat
    PROVE  Lesser(a, b) \in Nat /\ Lesser(a, b) <= a /\ Lesser(a, b) <= b
BY DEF Lesser

LEMMA Skips ==
    ASSUME MixerTypes, NEW frames \in Frames,
           NEW skipped, skipped = Down(Len(ring), Backlog),
           NEW take, take = Lesser(Len(ring) - skipped, frames)
    PROVE  /\ frames \in Nat /\ skipped \in Nat /\ take \in Nat /\ Audible(take) \in Nat
           /\ skipped + take <= Len(ring) /\ take <= frames /\ Audible(take) <= take
<1>1. Len(ring) \in Nat /\ frames \in Nat /\ Backlog \in Nat /\ env \in Nat
  BY FramesAssumption, RingCapAssumption, FadeAssumption DEF MixerTypes
<1>2. skipped \in Nat /\ skipped <= Len(ring)
  BY <1>1, DownNat
<1>3. Len(ring) - skipped \in Nat
  BY <1>1, <1>2
<1>4. take \in Nat /\ take <= Len(ring) - skipped /\ take <= frames
  BY <1>1, <1>3, LesserNat
<1>5. Audible(take) \in Nat /\ Audible(take) <= take
  <2>1. Down(env, 1) \in Nat BY <1>1, DownNat
  <2>2. Lesser(take, Down(env, 1)) \in Nat /\ Lesser(take, Down(env, 1)) <= take
    BY <1>4, <2>1, LesserNat
  <2>3. QED BY <1>4, <2>2 DEF Audible
<1>6. QED BY <1>1, <1>2, <1>4, <1>5

\* After a call: what is left in the ring are the youngest samples, and what was
\* audible was in the ring.
LEMMA MixRing ==
    ASSUME MixerTypes, NEW frames \in Frames, Mix(frames)
    PROVE  /\ ring' \in Seq(Sessions) /\ Len(ring') <= Len(ring)
           /\ \A i \in 1..Len(ring') : \E j \in 1..Len(ring) : ring'[i] = ring[j]
           /\ \A c \in mixed' : \E j \in 1..Len(ring) : c = ring[j]
<1> DEFINE skipped == Down(Len(ring), Backlog)
           take == Lesser(Len(ring) - skipped, frames)
<1>1. /\ skipped \in Nat /\ take \in Nat /\ Audible(take) \in Nat
      /\ skipped + take <= Len(ring) /\ Audible(take) <= take
  BY Skips
<1>2. ring \in Seq(Sessions) /\ Len(ring) \in Nat BY DEF MixerTypes
<1>3. ring' = SubSeq(ring, skipped + take + 1, Len(ring)) BY DEF Mix
<1>4. mixed' = {ring[skipped + i] : i \in 1..Audible(take)} BY DEF Mix
<1> HIDE DEF skipped, take
<1>5. /\ ring' \in Seq(Sessions) /\ Len(ring') = Len(ring) - (skipped + take)
      /\ \A i \in 1..Len(ring') : ring'[i] = ring[skipped + take + i]
  BY <1>1, <1>2, <1>3
<1>6. \A i \in 1..Len(ring') : skipped + take + i \in 1..Len(ring)
  BY <1>1, <1>2, <1>5
<1>7. \A i \in 1..Audible(take) : skipped + i \in 1..Len(ring)
  BY <1>1, <1>2
<1>8. QED BY <1>1, <1>2, <1>4, <1>5, <1>6, <1>7

\* What the worker delivers goes to the end of the ring.
LEMMA CaptureRing ==
    ASSUME MixerTypes, NEW w \in Sessions, Capture(w)
    PROVE  /\ ring' \in Seq(Sessions) /\ Len(ring') <= RingCap
           /\ \A i \in 1..Len(ring') : ring'[i] = w \/ \E j \in 1..Len(ring) : ring'[i] = ring[j]
<1>1. PICK len \in Chunks \cup {0} :
        ring' = ring \o [i \in 1..Lesser(len, RingCap - Len(ring)) |-> w]
  BY DEF Capture
<1> DEFINE k == Lesser(len, RingCap - Len(ring))
           new == [i \in 1..k |-> w]
<1>2. ring \in Seq(Sessions) /\ Len(ring) \in Nat /\ RingCap \in Nat /\ Len(ring) <= RingCap
  BY RingCapAssumption DEF MixerTypes
<1>3. len \in Nat /\ RingCap - Len(ring) \in Nat
  BY <1>2, FramesAssumption
<1>4. k \in Nat /\ k <= RingCap - Len(ring)
  BY <1>3, LesserNat
<1> HIDE DEF k
<1>5. new \in Seq(Sessions) /\ Len(new) = k /\ \A i \in 1..k : new[i] = w
  BY <1>4
<1>6. ring' = ring \o new BY <1>1 DEF k
<1> HIDE DEF new
<1>7. /\ ring' \in Seq(Sessions) /\ Len(ring') = Len(ring) + k
      /\ \A i \in 1..Len(ring') : ring'[i] = IF i <= Len(ring) THEN ring[i] ELSE new[i - Len(ring)]
  BY <1>2, <1>4, <1>5, <1>6
<1>8. \A i \in 1..Len(ring') : IF i <= Len(ring) THEN i \in 1..Len(ring) ELSE i - Len(ring) \in 1..k
  BY <1>2, <1>4, <1>7
<1>9. QED BY <1>2, <1>4, <1>5, <1>7, <1>8

\* A call while nothing is captured takes from the envelope at least what it adds to
\* the tail, and with the envelope at one the sample has no coefficient left.
LEMMA FadeTail ==
    ASSUME MixerTypes, StopsWithinFade, NEW frames \in Frames, Mix(frames), capturing \/ env > 0
    PROVE  env' \in 0..Fade /\ tail' \in Nat /\ StopsWithinFade'
<1> DEFINE take == Lesser(Len(ring) - Down(Len(ring), Backlog), frames)
<1>1. frames \in Nat /\ take \in Nat /\ take <= frames /\ Audible(take) \in Nat
  BY Skips
<1>2. /\ tail' = IF capturing THEN 0 ELSE tail + Audible(take)
      /\ env' = IF capturing THEN Up(env, take) ELSE Fallen(take, frames)
  BY DEF Mix
<1> HIDE DEF take
<1>3. env \in Nat /\ Fade \in Nat /\ tail \in Nat /\ env <= Fade /\ 0 < Fade
  BY FadeAssumption DEF MixerTypes
<1>4. CASE capturing
  <2>1. env + take \in Nat BY <1>1, <1>3
  <2>2. Up(env, take) \in Nat /\ Up(env, take) <= Fade BY <2>1, <1>3, LesserNat DEF Up
  <2>3. QED BY <1>2, <1>3, <1>4, <2>2 DEF StopsWithinFade
<1>5. CASE ~capturing
  <2>1. env > 0 BY <1>5
  <2>2. Down(env, 1) = env - 1 BY <1>3, <2>1 DEF Down
  <2>3. Audible(take) <= take /\ Audible(take) <= env - 1
    BY <1>1, <1>3, <1>5, <2>1, <2>2, LesserNat DEF Audible
  <2>4. env' = IF env <= frames THEN 0 ELSE env - frames
    BY <1>2, <1>5 DEF Fallen, Down
  <2>5. tail' = tail + Audible(take) BY <1>2, <1>5
  <2>6. tail + env <= Fade BY DEF StopsWithinFade
  <2> HIDE DEF StopsWithinFade
  <2> DEFINE a == Audible(take)
  <2>7. a \in Nat /\ a <= frames /\ a <= env - 1 /\ tail' = tail + a BY <1>1, <2>3, <2>5
  <2> HIDE DEF a
  <2>8. tail' + env' <= Fade /\ tail' < Fade /\ env' \in 0..Fade /\ tail' \in Nat
    BY <1>1, <1>3, <2>4, <2>6, <2>7
  <2>9. QED BY <2>8 DEF StopsWithinFade
<1>6. QED BY <1>4, <1>5

FadeInv == MixerTypes /\ StopsWithinFade

LEMMA FadeInvInit == MInit => FadeInv
BY FadeAssumption, RingCapAssumption DEF MInit, FadeInv, MixerTypes, StopsWithinFade

LEMMA FadeInvNext == FadeInv /\ [MNext]_mvars => FadeInv'
<1> SUFFICES ASSUME FadeInv, [MNext]_mvars PROVE FadeInv'
  OBVIOUS
<1> USE DEF FadeInv
<1>1. CASE Process
  <2>1. PICK frames \in Frames : Mix(frames) BY <1>1 DEF Process
  <2>2. capturing \/ env > 0 BY <1>1 DEF Process
  <2>3. env' \in 0..Fade /\ tail' \in Nat /\ StopsWithinFade' BY <2>1, <2>2, FadeTail
  <2>4. /\ ring' \in Seq(Sessions) /\ Len(ring') <= Len(ring)
        /\ \A c \in mixed' : \E j \in 1..Len(ring) : c = ring[j]
    BY <2>1, MixRing
  <2>5. Len(ring') <= RingCap
    <3>1. Len(ring) \in Nat /\ Len(ring') \in Nat /\ RingCap \in Nat /\ Len(ring) <= RingCap
      BY <2>4, RingCapAssumption DEF MixerTypes
    <3>2. QED BY <2>4, <3>1
  <2>6. mixed' \subseteq Sessions BY <2>4 DEF MixerTypes
  <2>7. QED BY <2>3, <2>4, <2>5, <2>6 DEF MixerTypes
<1>2. ASSUME NEW w \in Sessions, Capture(w) PROVE FadeInv'
  <2>1. UNCHANGED <<env, mixed, tail>> BY <1>2 DEF Capture
  <2>2. QED BY <1>2, <2>1, CaptureRing DEF MixerTypes, StopsWithinFade
<1>3. CASE ClearOnStart \/ Settle
  <2>1. ring' = << >> /\ env' \in {0, env} /\ UNCHANGED <<mixed, tail>>
    BY <1>3 DEF ClearOnStart, Settle
  <2>2. << >> \in Seq(Sessions) /\ Len(<< >>) = 0 OBVIOUS
  <2>3. MixerTypes'
    BY <2>1, <2>2, FadeAssumption, RingCapAssumption DEF MixerTypes
  <2>4. env \in Nat /\ tail \in Nat /\ Fade \in Nat
    BY FadeAssumption DEF MixerTypes
  <2>5. StopsWithinFade'
    <3>1. CASE env' = 0
      <4>1. tail + 0 <= Fade BY <2>4 DEF StopsWithinFade
      <4>2. QED BY <2>1, <3>1, <4>1 DEF StopsWithinFade
    <3>2. CASE env' = env BY <2>1, <3>2 DEF StopsWithinFade
    <3>3. QED BY <2>1, <3>1, <3>2
  <2>6. QED BY <2>3, <2>5
<1>4. CASE UNCHANGED mixer
  BY <1>4 DEF mixer, MixerTypes, StopsWithinFade
<1>5. QED BY <1>1, <1>2, <1>3, <1>4 DEF MNext, mvars

\* Every variable of the mixer keeps its type: the ring never holds more than its
\* capacity, the envelope stays between silence and full level.
THEOREM MTypeCorrect == MSpec => []MTypeOK
<1>1. FadeInv => MTypeOK BY DEF FadeInv, MixerTypes, MTypeOK
<1> QED
  BY <1>1, FadeInvInit, FadeInvNext, PTL DEF MSpec

\* However full the ring is, whatever a worker winding down still delivers and
\* however the host sizes its calls, a stopped capture is heard for less than a fade.
THEOREM StopsWithinFadeHolds == MSpec => []StopsWithinFade
<1>1. FadeInv => StopsWithinFade BY DEF FadeInv
<1> QED
  BY <1>1, FadeInvInit, FadeInvNext, PTL DEF MSpec

-----------------------------------------------------------------------------
\* The ring holds samples of the newest capture only.
RingIsNewest == \A i \in 1..Len(ring) : ring[i] = n
NewestInv ==
    /\ SafeInv /\ MixerTypes
    /\ cur # 0 => cur = n
    /\ RingIsNewest

\* Only start_capture counts a new one.
LEMMA SilentKeepsN == ASSUME Silent PROVE n' = n
<1>1. CASE Handler
  BY <1>1 DEF Handler, StopMute, StartRefused, Adopt, TickInterrupted, TickGoesOn, ApplyConfig,
     FinishMute, FinishFlag, FinishReaped, FinishLater, HotkeyReaped, HotkeyGivesUp, DeinitMute
<1>2. CASE Watchdog \/ TickLost
  BY <1>2 DEF Watchdog, TickRunning, TickFailed, TickTimeout, TickWaiting, TickExited,
     TickStopping, TickLost
<1>3. CASE User
  BY <1>3 DEF User, HotkeyPress, StopFlag, UiApply, ApplyConfig, DeinitFlag
<1>4. ASSUME NEW w \in Sessions, WorkerSteps(w) PROVE n' = n
  BY <1>4 DEF WorkerSteps, ByWorker, WorkerSetUp, WorkerSetupFails, WorkerNegotiationStopped,
     WorkerFormat, WorkerStartFails, Fails, WorkerAnnounce, EngageCheck, EngageSet,
     EngageRecheck, EngageUndo, LoopTest, WorkerClose, WorkerFinish, WorkerExit
<1>5. ASSUME NEW w \in Sessions, WorkerNegotiated(w) \/ TargetExits(w) PROVE n' = n
  BY <1>5 DEF WorkerNegotiated, ByWorker, TargetExits
<1>6. CASE HostTick \/ StartTimeoutPasses
  BY <1>6 DEF HostTick, StartTimeoutPasses
<1>7. QED BY <1>1, <1>2, <1>3, <1>4, <1>5, <1>6 DEF Silent

\* One step: the session's invariant is kept, and with it the ring's.
LEMMA NewestNext ==
    ASSUME MayHang = {}, NewestInv, FadeInv', [MNext]_mvars
    PROVE  NewestInv' /\ (mixed' # mixed => mixed' \subseteq {n})
<1>1. SafeInv'
  BY HeldNext, MNextIsNext DEF NewestInv
<1>2. MixerTypes' BY DEF FadeInv
<1>3. (cur' # 0 => cur' = n') /\ (n' = n \/ StartSpawned)
  <2>1. Book /\ [Next]_vars /\ TypeInv
    BY MNextIsNext DEF NewestInv, SafeInv, CoreInv, Book
  <2>2. CASE AWorkerMoves BY <2>2 DEF AWorkerMoves, ByWorker, session, NewestInv
  <2>3. CASE StartSpawned BY <2>3 DEF StartSpawned
  <2>4. CASE BusMoves BY <2>4 DEF BusMoves, NewestInv
  <2>5. QED BY <2>1, <2>2, <2>3, <2>4, NextMoves
<1>4. RingIsNewest' /\ (mixed' # mixed => mixed' \subseteq {n})
  <2>1. CASE Process
    <3>1. PICK frames \in Frames : Mix(frames) BY <2>1 DEF Process
    <3>2. n' = n BY <2>1 DEF Process, vars
    <3>3. QED BY <3>1, <3>2, MixRing DEF NewestInv, RingIsNewest
  <2>2. ASSUME NEW w \in Sessions, Capture(w)
        PROVE  RingIsNewest' /\ mixed' = mixed
    <3>1. mixed' = mixed /\ Drains(w) BY <2>2 DEF Capture
    <3>2. wpc[w] = "drain" /\ n' = n
      BY <3>1 DEF Drains, LoopDrain, LoopFails, LoopTargetExited, Fails, At, ByWorker
    <3>3. w = n
      BY <3>2, MaxSessionsAssumption DEF NewestInv, SafeInv, Held, Live, Sessions
    <3>4. QED BY <2>2, <3>1, <3>2, <3>3, CaptureRing DEF NewestInv, RingIsNewest
  <2>3. CASE ClearOnStart \/ Settle
    BY <2>3 DEF ClearOnStart, Settle, RingIsNewest
  <2>4. CASE UNCHANGED mixer /\ n' = n
    BY <2>4 DEF mixer, NewestInv, RingIsNewest
  <2>5. CASE Silent /\ UNCHANGED mixer
    BY <2>4, <2>5, SilentKeepsN
  <2>6. QED BY <2>1, <2>2, <2>3, <2>4, <2>5 DEF MNext, mvars, vars
<1>5. QED BY <1>1, <1>2, <1>3, <1>4 DEF NewestInv

\* Of a restart that overtakes the fade-out of the capture before, nothing older than
\* the new capture is mixed: the ring is cleared after the old worker was joined.
THEOREM OnlyTheNewestHolds ==
  ASSUME MayHang = {}
  PROVE  MSpec => OnlyTheNewest
<1>1. MInit => FadeInv /\ NewestInv
  BY FadeInvInit, CoreInvInit
     DEF MInit, Init, FadeInv, NewestInv, SafeInv, Held, Live, RingIsNewest
<1>2. FadeInv /\ NewestInv /\ [MNext]_mvars =>
          /\ FadeInv' /\ NewestInv'
          /\ [mixed' # mixed => mixed' \subseteq {n}]_mvars
  BY FadeInvNext, NewestNext
<1>3. QED BY <1>1, <1>2, PTL DEF MSpec, OnlyTheNewest
=============================================================================
