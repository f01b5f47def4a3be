------------------------------ MODULE Session ------------------------------
(***************************************************************************)
(* lib.rs, capture.rs and the backends: the capture session's state        *)
(* machine on the host's bus thread, the capture workers it spawns, stops  *)
(* and reaps, and the watchdog timer that polls them.                      *)
(*                                                                         *)
(* The bus thread holds the SESSION lock for a whole handler, so a handler *)
(* is split only where it touches what a worker touches too: the stop      *)
(* flag, CAPTURING, the fields of WorkerShared and the end of the thread.  *)
(* A worker is split at the same places.  bus names the point a handler    *)
(* has reached, "ready" that none is running.                              *)
(*                                                                         *)
(* None of session.stop_flag, .shared and .worker is ever set or cleared   *)
(* without the others: cur, the session they belong to or 0, is all three. *)
(***************************************************************************)
EXTENDS Naturals

CONSTANTS
    Platform,            \* the backend compiled in
    IntervalAvailable,   \* the host's set_interval hands out ids
    MayHang,             \* captures with a system call that may outlast deinit's budget
    MaxSessions          \* bound: captures started in a behaviour

ASSUME PlatformAssumption == Platform \in {"windows", "linux", "macos"}
ASSUME HostAssumption == IntervalAvailable \in BOOLEAN
ASSUME MaxSessionsAssumption == MaxSessions \in Nat

Sessions == 1..MaxSessions

ASSUME MayHangAssumption == MayHang \subseteq Sessions

VARIABLES
    bus,         \* where the bus thread is in a handler
    report,      \* local of finish(): the report it was called with
    phase,       \* session.phase
    cur,         \* the session whose worker handle is held, 0 for none
    interval,    \* session.interval_id
    pending,     \* session.pending_report
    late,        \* started_at lies more than START_TIMEOUT back
    rateKnown,   \* session.rate and .channels are the negotiated ones
    status,      \* the phase in the host's config key fc_status
    capturing,   \* CAPTURING
    n,           \* captures started so far
    wpc,         \* where each worker is, "none" before, "gone" once it can be joined
    stop,        \* each worker's stop flag
    sharedPhase, \* each worker's WorkerShared: its phase,
    exited,      \* target_exited,
    failed,      \* error is not empty,
    fmtKnown,    \* rate and channels are stored
    alive,       \* each session's target process is running
    ticks,       \* intervals with a tick message under way
    reported     \* what the user has been told of each session

session == <<report, phase, cur, interval, pending, rateKnown>>
shared  == <<sharedPhase, exited, failed, fmtKnown>>
worker  == <<wpc, shared>>
vars == <<bus, session, late, status, capturing, n, worker, stop, alive, ticks, reported>>

NoReport == "none"
Failures == {"failed", "interrupted", "timeout", "exited"}
Reports  == Failures \cup {"running", "stopped"}

Init ==
    /\ bus = "ready" /\ report = NoReport
    /\ phase = "idle" /\ cur = 0 /\ interval = 0 /\ pending = NoReport
    /\ late = FALSE /\ rateKnown = FALSE
    /\ status = "idle" /\ capturing = FALSE /\ n = 0
    /\ wpc = [w \in Sessions |-> "none"]
    /\ stop = [w \in Sessions |-> FALSE]
    /\ sharedPhase = [w \in Sessions |-> "starting"]
    /\ exited = [w \in Sessions |-> FALSE]
    /\ failed = [w \in Sessions |-> FALSE]
    /\ fmtKnown = [w \in Sessions |-> FALSE]
    /\ alive = [w \in Sessions |-> TRUE]
    /\ ticks = {}
    /\ reported = [w \in Sessions |-> {}]

Tell(w, what) == reported' = [reported EXCEPT ![w] = @ \cup {what}]
SetStop == stop' = [stop EXCEPT ![cur] = TRUE]

-----------------------------------------------------------------------------
\* Bus thread: hotkey, panel and watchdog handlers.

\* toggle: a press starts a capture, stops the one there is, or, while one
\* winds down, reaps it first.
HotkeyPress ==
    /\ bus = "ready"
    /\ \/ phase = "idle" /\ bus' = "start"
       \/ phase = "stopping" /\ bus' = "reap_hotkey"
    /\ UNCHANGED <<session, late, status, capturing, n, worker, stop, alive, ticks, reported>>

\* request_stop, from the hotkey or from ui:stop: the flag first ...
StopFlag ==
    /\ bus = "ready" /\ phase \in {"starting", "running"}
    /\ SetStop
    /\ bus' = "stop_mute"
    /\ UNCHANGED <<session, late, status, capturing, n, worker, alive, ticks, reported>>

\* mutant: a status of its own for a stopped capture
StopMuteStopped ==
    /\ bus = "stop_mute"
    /\ capturing' = FALSE /\ phase' = "stopping" /\ status' = "stopped"
    /\ Tell(cur, "stopped")
    /\ bus' = "ready"
    /\ UNCHANGED <<report, cur, interval, pending, rateKnown, late, n, worker, stop, alive, ticks>>

\* ... then CAPTURING, the phase, the status and the notification.
StopMute ==
    /\ bus = "stop_mute"
    /\ capturing' = FALSE
    /\ phase' = "stopping"
    /\ status' = "stopping"
    /\ Tell(cur, "stopped")
    /\ bus' = "ready"
    /\ UNCHANGED <<report, cur, interval, pending, rateKnown, late, n, worker, stop, alive, ticks>>

\* start_capture without a foreground process, or with the host's own.
StartRefused ==
    /\ bus = "start"
    /\ bus' = "ready"
    /\ UNCHANGED <<session, late, status, capturing, n, worker, stop, alive, ticks, reported>>

StartSpawnFails ==
    /\ bus = "start"
    /\ status' = phase
    /\ bus' = "ready"
    /\ UNCHANGED <<session, late, capturing, n, worker, stop, alive, ticks, reported>>

\* ensure_watchdog keeps an interval that is still armed.
WatchdogInterval(w) ==
    IF interval # 0 THEN interval ELSE IF IntervalAvailable THEN w ELSE 0

StartSpawned ==
    /\ bus = "start" /\ n < MaxSessions
    /\ n' = n + 1
    /\ cur' = n + 1
    /\ wpc' = [wpc EXCEPT ![n + 1] = "setup"]
    /\ phase' = "starting"
    /\ late' = FALSE /\ rateKnown' = FALSE
    /\ pending' = NoReport
    /\ interval' = WatchdogInterval(n + 1)
    /\ status' = "starting"
    /\ bus' = "ready"
    /\ UNCHANGED <<report, capturing, shared, stop, alive, ticks, reported>>

\* ui:apply, and every fifth tick of a running capture: a hotkey that changed
\* is planned again (Hotkey.tla) and the status written.
ApplyConfig ==
    /\ status' = phase
    /\ UNCHANGED <<session, late, capturing, n, worker, stop, alive, reported>>

UiApply ==
    /\ bus = "ready"
    /\ ApplyConfig
    /\ UNCHANGED <<bus, ticks>>

\* A tick is lost when the host finds the plugin's lock taken, and ignored when
\* it comes from an interval that is not the armed one.
TickLost ==
    /\ \E id \in ticks : ticks' = ticks \ {id}
    /\ UNCHANGED <<bus, session, late, status, capturing, n, worker, stop, alive, reported>>

\* Only the armed interval's tick reaches watchdog.
TickTaken ==
    /\ bus = "ready" /\ interval # 0 /\ interval \in ticks
    /\ ticks' = ticks \ {interval}

\* Starting: adopt what the worker announced.
TickRunning ==
    /\ TickTaken /\ phase = "starting"
    /\ sharedPhase[cur] = "running"
    /\ bus' = "adopt"
    /\ UNCHANGED <<session, late, status, capturing, n, worker, stop, alive, reported>>

\* mutant: no write_status
AdoptSilently ==
    /\ bus = "adopt"
    /\ phase' = "running" /\ rateKnown' = fmtKnown[cur] /\ capturing' = TRUE
    /\ Tell(cur, "running")
    /\ bus' = "ready"
    /\ UNCHANGED <<report, cur, interval, pending, late, status, n, worker, stop, alive, ticks>>

Adopt ==
    /\ bus = "adopt"
    /\ phase' = "running"
    /\ rateKnown' = fmtKnown[cur]
    /\ capturing' = TRUE
    /\ status' = "running"
    /\ Tell(cur, "running")
    /\ bus' = "ready"
    /\ UNCHANGED <<report, cur, interval, pending, late, n, worker, stop, alive, ticks>>

\* Call of finish with a report.
Conclude(what) == report' = what /\ bus' = "finish_mute"

TickFailed ==
    /\ TickTaken /\ phase = "starting"
    /\ sharedPhase[cur] = "finished"
    /\ Conclude("failed")
    /\ UNCHANGED <<phase, cur, interval, pending, rateKnown, late, status, capturing, n,
                   worker, stop, alive, reported>>

\* mutant: waits for as long as it takes
TickTimeoutIgnored ==
    /\ TickTaken /\ phase = "starting"
    /\ sharedPhase[cur] = "starting" /\ late
    /\ UNCHANGED <<bus, session, late, status, capturing, n, worker, stop, alive, reported>>

TickTimeout ==
    /\ TickTaken /\ phase = "starting"
    /\ sharedPhase[cur] = "starting" /\ late
    /\ SetStop
    /\ Conclude("timeout")
    /\ UNCHANGED <<phase, cur, interval, pending, rateKnown, late, status, capturing, n,
                   worker, alive, reported>>

TickWaiting ==
    /\ TickTaken /\ phase = "starting"
    /\ sharedPhase[cur] = "starting" /\ ~late
    /\ UNCHANGED <<bus, session, late, status, capturing, n, worker, stop, alive, reported>>

\* Running: target_exited is loaded first, the worker's phase only after it.
TickExited ==
    /\ TickTaken /\ phase = "running"
    /\ IF exited[cur] THEN Conclude("exited") ELSE bus' = "tick_phase" /\ UNCHANGED report
    /\ UNCHANGED <<phase, cur, interval, pending, rateKnown, late, status, capturing, n,
                   worker, stop, alive, reported>>

TickInterrupted ==
    /\ bus = "tick_phase" /\ sharedPhase[cur] = "finished"
    /\ Conclude("interrupted")
    /\ UNCHANGED <<phase, cur, interval, pending, rateKnown, late, status, capturing, n,
                   worker, stop, alive, ticks, reported>>

TickGoesOn ==
    /\ bus = "tick_phase" /\ sharedPhase[cur] # "finished"
    /\ bus' = "ready"
    /\ UNCHANGED ticks
    /\ \/ ApplyConfig
       \/ UNCHANGED <<session, late, status, capturing, n, worker, stop, alive, reported>>

\* mutant: the stopping phase is left to the hotkey
TickStoppingIgnored ==
    /\ TickTaken /\ phase = "stopping"
    /\ UNCHANGED <<bus, session, late, status, capturing, n, worker, stop, alive, reported>>

\* Stopping: finish without a report.
TickStopping ==
    /\ TickTaken /\ phase = "stopping"
    /\ bus' = "reap"
    /\ UNCHANGED <<session, late, status, capturing, n, worker, stop, alive, reported>>

FinishMute ==
    /\ bus = "finish_mute"
    /\ capturing' = FALSE
    /\ bus' = "finish_flag"
    /\ UNCHANGED <<session, late, status, n, worker, stop, alive, ticks, reported>>

FinishFlag ==
    /\ bus = "finish_flag"
    /\ pending' = report
    /\ report' = NoReport
    /\ SetStop
    /\ phase' = "stopping"
    /\ bus' = "reap"
    /\ UNCHANGED <<cur, interval, rateKnown, late, status, capturing, n, worker, alive, ticks, reported>>

\* mutant: the timer is not cleared
JoinedKeepsTimer ==
    /\ wpc[cur] = "gone"
    /\ cur' = 0 /\ phase' = "idle" /\ capturing' = FALSE
    /\ UNCHANGED interval

\* What reap_worker does once the thread can be joined.
Joined ==
    /\ wpc[cur] = "gone"
    /\ cur' = 0
    /\ phase' = "idle"
    /\ capturing' = FALSE
    /\ interval' = 0

\* finish: the report goes out with the reaped worker ...
FinishReaped ==
    /\ bus = "reap" /\ Joined
    /\ pending' = NoReport
    /\ IF pending # NoReport THEN Tell(cur, pending) ELSE UNCHANGED reported
    /\ status' = "idle"
    /\ bus' = "ready"
    /\ UNCHANGED <<report, rateKnown, late, n, worker, stop, alive, ticks>>

\* mutant: the report is taken before the worker is known to be gone
FinishLaterTakesReport ==
    /\ bus = "reap" /\ wpc[cur] # "gone"
    /\ pending' = NoReport
    /\ status' = phase
    /\ bus' = "ready"
    /\ UNCHANGED <<report, phase, cur, interval, rateKnown, late, capturing, n, worker, stop,
                   alive, ticks, reported>>

\* ... or the next tick tries again.
FinishLater ==
    /\ bus = "reap" /\ wpc[cur] # "gone"
    /\ status' = phase
    /\ bus' = "ready"
    /\ UNCHANGED <<session, late, capturing, n, worker, stop, alive, ticks, reported>>

\* toggle while stopping: a capture starts once the worker is joined.
HotkeyReaped ==
    /\ bus = "reap_hotkey" /\ Joined
    /\ bus' = "start"
    /\ UNCHANGED <<report, pending, rateKnown, late, status, n, worker, stop, alive, ticks, reported>>

\* mutant: starts the next capture without waiting for the worker
HotkeyStartsAnyway ==
    /\ bus = "reap_hotkey" /\ wpc[cur] # "gone"
    /\ bus' = "start"
    /\ UNCHANGED <<session, late, status, capturing, n, worker, stop, alive, ticks, reported>>

HotkeyGivesUp ==
    /\ bus = "reap_hotkey" /\ wpc[cur] # "gone"
    /\ bus' = "ready"
    /\ UNCHANGED <<session, late, status, capturing, n, worker, stop, alive, ticks, reported>>

-----------------------------------------------------------------------------
\* Bus thread: deinit and init.

\* mutant: deinit only mutes
DeinitFlagForgotten ==
    /\ bus = "ready"
    /\ bus' = "deinit_mute"
    /\ UNCHANGED <<session, late, status, capturing, n, worker, stop, alive, ticks, reported>>

DeinitFlag ==
    /\ bus = "ready"
    /\ IF cur # 0 THEN SetStop ELSE UNCHANGED stop
    /\ bus' = "deinit_mute"
    /\ UNCHANGED <<session, late, status, capturing, n, worker, alive, ticks, reported>>

DeinitMute ==
    /\ bus = "deinit_mute"
    /\ capturing' = FALSE
    /\ bus' = "deinit_reap"
    /\ UNCHANGED <<session, late, status, n, worker, stop, alive, ticks, reported>>

\* Session::new(), whatever reap_worker returned: a worker that outlasts the
\* budget is let go of, not waited for.
DeinitReset ==
    /\ bus = "deinit_reap"
    /\ \/ cur = 0 /\ UNCHANGED capturing
       \/ cur # 0 /\ wpc[cur] = "gone" /\ capturing' = FALSE
       \/ cur \in MayHang /\ wpc[cur] # "gone" /\ UNCHANGED capturing
    /\ cur' = 0 /\ phase' = "idle" /\ interval' = 0
    /\ pending' = NoReport /\ rateKnown' = FALSE /\ late' = FALSE
    /\ bus' = "unloaded"
    /\ UNCHANGED <<report, status, n, worker, stop, alive, ticks, reported>>

PluginInit ==
    /\ bus = "unloaded"
    /\ status' = "idle"
    /\ bus' = "ready"
    /\ UNCHANGED <<session, late, capturing, n, worker, stop, alive, ticks, reported>>

-----------------------------------------------------------------------------
\* Workers.

At(w, from, to) == wpc[w] = from /\ wpc' = [wpc EXCEPT ![w] = to]
ByWorker == UNCHANGED <<bus, session, late, status, n, stop, alive, ticks, reported>>

\* Acquiring the platform's capture objects: activation, enumeration, the tap.
\* Only PipeWire still has to wait for the format afterwards.
WorkerSetUp(w) ==
    /\ At(w, "setup", IF Platform = "linux" THEN "negotiate" ELSE "format")
    /\ ByWorker /\ UNCHANGED <<shared, capturing>>

\* mutant: the text of the error is lost
FailsSilently(w, from) ==
    /\ At(w, from, "finish")
    /\ ByWorker /\ UNCHANGED <<shared, capturing>>

\* An error leaves run(); its text is stored before the phase is.
Fails(w, from) ==
    /\ At(w, from, "finish")
    /\ failed' = [failed EXCEPT ![w] = TRUE]
    /\ ByWorker /\ UNCHANGED <<sharedPhase, exited, fmtKnown, capturing>>

WorkerSetupFails(w) == Fails(w, "setup")

WorkerNegotiated(w) ==
    /\ ~stop[w] /\ At(w, "negotiate", "format")
    /\ ByWorker /\ UNCHANGED <<shared, capturing>>

WorkerNegotiationStopped(w) ==
    /\ stop[w] /\ At(w, "negotiate", "close")
    /\ ByWorker /\ UNCHANGED <<shared, capturing>>

\* mutant: the negotiated format is not stored
WorkerFormatNotStored(w) ==
    /\ At(w, "format", "announce")
    /\ ByWorker /\ UNCHANGED <<shared, capturing>>

\* rate and channels are stored before the phase.
WorkerFormat(w) ==
    /\ At(w, "format", "announce")
    /\ fmtKnown' = [fmtKnown EXCEPT ![w] = TRUE]
    /\ ByWorker /\ UNCHANGED <<sharedPhase, exited, failed, capturing>>

\* Between the two WASAPI starts the client, which can fail.
WorkerStartFails(w) == Platform = "windows" /\ Fails(w, "announce")

WorkerAnnounce(w) ==
    /\ At(w, "announce", "engage")
    /\ sharedPhase' = [sharedPhase EXCEPT ![w] = "running"]
    /\ ByWorker /\ UNCHANGED <<exited, failed, fmtKnown, capturing>>

\* engage_capturing: check the flag, set CAPTURING, check the flag again, undo.
EngageCheck(w) ==
    /\ At(w, "engage", IF stop[w] THEN "loop" ELSE "engage_set")
    /\ ByWorker /\ UNCHANGED <<shared, capturing>>

\* mutant: left to the watchdog
EngageSetForgotten(w) ==
    /\ At(w, "engage_set", "engage_recheck")
    /\ ByWorker /\ UNCHANGED <<shared, capturing>>

EngageSet(w) ==
    /\ At(w, "engage_set", "engage_recheck")
    /\ capturing' = TRUE
    /\ ByWorker /\ UNCHANGED shared

\* mutant: the flag is checked only once
EngageRecheckSkipped(w) ==
    /\ At(w, "engage_recheck", "loop")
    /\ ByWorker /\ UNCHANGED <<shared, capturing>>

EngageRecheck(w) ==
    /\ At(w, "engage_recheck", IF stop[w] THEN "engage_undo" ELSE "loop")
    /\ ByWorker /\ UNCHANGED <<shared, capturing>>

EngageUndo(w) ==
    /\ At(w, "engage_undo", "loop")
    /\ capturing' = FALSE
    /\ ByWorker /\ UNCHANGED shared

\* mutant: a wait without packets may end the loop
LoopTestGivesUp(w) ==
    /\ \E to \in {"close", "drain"} : At(w, "loop", IF stop[w] THEN "close" ELSE to)
    /\ ByWorker /\ UNCHANGED <<shared, capturing>>

\* The capture loop: test the flag, move what arrived into the ring.
LoopTest(w) ==
    /\ At(w, "loop", IF stop[w] THEN "close" ELSE "drain")
    /\ ByWorker /\ UNCHANGED <<shared, capturing>>

LoopDrain(w) ==
    /\ At(w, "drain", "loop")
    /\ Platform = "windows" => alive[w]
    /\ ByWorker /\ UNCHANGED <<shared, capturing>>

LoopFails(w) == Platform = "windows" /\ Fails(w, "drain")

\* mutant: the process handle is not looked at
LoopTargetIgnored(w) ==
    /\ Platform = "windows" /\ ~alive[w]
    /\ At(w, "drain", "loop")
    /\ ByWorker /\ UNCHANGED <<shared, capturing>>

\* Only the WASAPI loop looks at the target's process handle.
LoopTargetExited(w) ==
    /\ Platform = "windows" /\ ~alive[w]
    /\ At(w, "drain", "close")
    /\ exited' = [exited EXCEPT ![w] = TRUE]
    /\ ByWorker /\ UNCHANGED <<sharedPhase, failed, fmtKnown, capturing>>

WorkerClose(w) ==
    /\ At(w, "close", "finish")
    /\ ByWorker /\ UNCHANGED <<shared, capturing>>

\* The thread's last store, and its end.
WorkerFinish(w) ==
    /\ At(w, "finish", "exit")
    /\ sharedPhase' = [sharedPhase EXCEPT ![w] = "finished"]
    /\ ByWorker /\ UNCHANGED <<exited, failed, fmtKnown, capturing>>

WorkerExit(w) ==
    /\ At(w, "exit", "gone")
    /\ ByWorker /\ UNCHANGED <<shared, capturing>>

-----------------------------------------------------------------------------
\* Environment: the host's timer, the clock, the target process.

HostTick ==
    /\ bus # "unloaded" /\ interval # 0
    /\ ticks' = ticks \cup {interval}
    /\ UNCHANGED <<bus, session, late, status, capturing, n, worker, stop, alive, reported>>

StartTimeoutPasses ==
    /\ phase = "starting" /\ late' = TRUE
    /\ UNCHANGED <<bus, session, status, capturing, n, worker, stop, alive, ticks, reported>>

TargetExits(w) ==
    /\ w <= n /\ alive' = [alive EXCEPT ![w] = FALSE]
    /\ UNCHANGED <<bus, session, late, status, capturing, n, worker, stop, ticks, reported>>

-----------------------------------------------------------------------------
\* The steps Mixer.tla extends come first: start_capture past its refusals, the
\* resets around the plugin's life, and the capture loop moving audio.
Starts == StartSpawnFails \/ StartSpawned
Resets == DeinitReset \/ PluginInit
Drains(w) == LoopDrain(w) \/ LoopFails(w) \/ LoopTargetExited(w)

Handler == \/ StopMute \/ StartRefused \/ Adopt
           \/ TickInterrupted \/ TickGoesOn \/ FinishMute \/ FinishFlag
           \/ FinishReaped \/ FinishLater \/ HotkeyReaped \/ HotkeyGivesUp
           \/ DeinitMute

Watchdog == \/ TickRunning \/ TickFailed \/ TickTimeout \/ TickWaiting
            \/ TickExited \/ TickStopping

User == HotkeyPress \/ StopFlag \/ UiApply \/ DeinitFlag

\* What a worker does without waiting for anything that may never come.
WorkerSteps(w) ==
    \/ WorkerSetUp(w) \/ WorkerSetupFails(w) \/ WorkerNegotiationStopped(w)
    \/ WorkerFormat(w) \/ WorkerStartFails(w) \/ WorkerAnnounce(w)
    \/ EngageCheck(w) \/ EngageSet(w) \/ EngageRecheck(w) \/ EngageUndo(w)
    \/ LoopTest(w) \/ WorkerClose(w) \/ WorkerFinish(w) \/ WorkerExit(w)

Silent ==
    \/ Handler \/ Watchdog \/ TickLost \/ User
    \/ \E w \in Sessions : WorkerSteps(w) \/ WorkerNegotiated(w) \/ TargetExits(w)
    \/ HostTick \/ StartTimeoutPasses

Next == Silent \/ Starts \/ Resets \/ \E w \in Sessions : Drains(w)

Spec == Init /\ [][Next]_vars

\* A handler that was entered returns, a worker whose calls return runs on, the
\* host's timer keeps firing and its ticks are not all lost to a busy plugin,
\* time passes.
Fairness ==
    /\ WF_vars(Handler \/ Starts \/ DeinitReset) /\ SF_vars(Watchdog) /\ WF_vars(HostTick)
    /\ WF_vars(StartTimeoutPasses)
    /\ \A w \in Sessions : WF_vars(WorkerSteps(w) \/ Drains(w))

LiveSpec == Spec /\ Fairness

-----------------------------------------------------------------------------
\* Properties.

BusSteps == {"ready", "start", "stop_mute", "adopt", "tick_phase", "finish_mute",
             "finish_flag", "reap", "reap_hotkey", "deinit_mute", "deinit_reap", "unloaded"}
WorkerPoints == {"none", "setup", "negotiate", "format", "announce", "engage", "engage_set",
                 "engage_recheck", "engage_undo", "loop", "drain", "close", "finish", "exit",
                 "gone"}
Phases == {"idle", "starting", "running", "stopping"}

\* Every variable has its type.
FlagsOK == late \in BOOLEAN /\ rateKnown \in BOOLEAN /\ capturing \in BOOLEAN
TypeOK ==
    /\ FlagsOK
    /\ bus \in BusSteps /\ report \in Failures \cup {NoReport}
    /\ phase \in Phases /\ status \in Phases
    /\ n \in 0..MaxSessions /\ cur \in 0..n /\ interval \in 0..n
    /\ pending \in Failures \cup {NoReport}
    /\ wpc \in [Sessions -> WorkerPoints]
    /\ stop \in [Sessions -> BOOLEAN]
    /\ sharedPhase \in [Sessions -> {"starting", "running", "finished"}]
    /\ exited \in [Sessions -> BOOLEAN] /\ failed \in [Sessions -> BOOLEAN]
    /\ fmtKnown \in [Sessions -> BOOLEAN]
    /\ alive \in [Sessions -> BOOLEAN]
    /\ ticks \in SUBSET (1..n)
    /\ reported \in [Sessions -> SUBSET Reports]

Live(w) == wpc[w] \notin {"none", "gone"}

\* No two capture threads ever run at once, so the ring has a single producer,
\* and the one that runs is the one the session can stop and join: however the
\* hotkey, the watchdog, a failure and a reload follow on each other.
OneProducer == \A w \in Sessions : Live(w) => w = cur

\* Between handlers an idle session has no thread, no armed timer and nothing
\* mixed into the microphone.
IdleIsQuiet ==
    bus = "ready" /\ phase = "idle" =>
        /\ cur = 0 /\ interval = 0 /\ ~capturing
        /\ \A w \in Sessions : ~Live(w)

\* A capture thread the session has let go of was told to stop before: when deinit's
\* budget runs out the worker left behind still ends by itself, and no thread is
\* ever left that can neither be stopped nor has been.
NoneForsaken == \A w \in Sessions : Live(w) => w = cur \/ stop[w]

\* While nothing is captured or the capture winds down, CAPTURING is only ever set
\* by a worker that is about to take its store back, also by one deinit has left
\* behind: nothing is mixed into the microphone that nobody asked for.
Undoing(w) == wpc[w] \in {"engage_recheck", "engage_undo"}
UnaskedIsMuted ==
    bus = "ready" /\ phase \in {"idle", "stopping"} /\ capturing =>
        \E w \in Sessions : Undoing(w)

\* A capture that was told to stop is mixed no more, whatever the worker was
\* about to do, but for the moment in which engage_capturing takes its own
\* store back.
StoppedMeansMuted ==
    bus = "ready" /\ phase = "stopping" /\ capturing =>
        wpc[cur] \in {"engage_recheck", "engage_undo"}

\* The user hears of one ending of a capture: that it was stopped, or one
\* failure, never both and never another capture's.
Endings == Failures \cup {"stopped"}
OneEnding ==
    \A w \in Sessions : \A a, b \in reported[w] \cap Endings : a = b

\* A failure without a text (worker_error's "unknown error") is only ever shown
\* for a capture whose target exited: a worker ends by itself for no other
\* unexplained reason.
UnknownErrorMeansExit ==
    \A w \in Sessions :
        reported[w] \cap {"failed", "interrupted"} # {} /\ ~failed[w] => exited[w]

\* A failure that stopped a capture is told: the report waits for the worker to
\* be reaped, through as many ticks as that takes, and only the user's own
\* restart, or deinit, discards it.
ReportNotLost ==
    [][pending # NoReport /\ pending' # pending =>
         \/ bus \in {"start", "deinit_reap"}
         \/ pending' = NoReport /\ pending \in reported'[cur]]_vars

\* A capture shown as running shows the negotiated format: the two relaxed loads
\* follow the Acquire load of the phase.
RunningHasFormat == phase = "running" => rateKnown

\* Every worker keeps the contract the backends are shown to keep: it announces
\* itself with a format, and ends only when stopped, with its target, or with an
\* error it has stored before.  Here a push into the ring is one step.
Contract(w) == INSTANCE WorkerContract WITH
    phase <- sharedPhase[w], error <- failed[w], exited <- exited[w],
    fmt <- fmtKnown[w], stop <- stop[w], pushing <- FALSE
WorkersKeepContract ==
    /\ \A w \in Sessions : Contract(w)!Init
    /\ [][\A w \in Sessions : Contract(w)!Next \/ UNCHANGED Contract(w)!shared]_vars

\* The life of a capture as the user and the host see it: one at a time, each
\* concluded only after its thread and never without an ending told, unless the user
\* or the host insists on going on at once (CaptureLife).
Thread(w) ==
    CASE wpc[w] = "none" -> "none" [] wpc[w] = "gone" -> "over"
      [] OTHER -> IF stop[w] THEN "stopping" ELSE "up"
Threads == [w \in Sessions |-> Thread(w)]
Insisting == bus \in {"reap_hotkey", "deinit_reap"}
Life == INSTANCE CaptureLife WITH
    Captures <- Sessions, held <- cur, life <- Threads, told <- reported,
    insisting <- Insisting
CapturesLive == Life!Spec

\* The panel's status is the phase, but for an idle session it may still call
\* stopping.
StatusAtWorstStopping ==
    bus = "ready" => status = phase \/ (phase = "idle" /\ status = "stopping")

\* A capture told to stop gets back to idle (watchdog and reap_worker).
StoppingEnds == phase = "stopping" ~> phase = "idle"

\* A start is decided: the worker announces itself, fails, or the watchdog's
\* eight seconds are up.
StartingEnds == phase = "starting" ~> phase # "starting"

\* "Stops by itself when the target exits" (README.md:46): a running capture
\* whose target is gone does not go on running.
TargetExitEndsCapture ==
    (phase = "running" /\ cur # 0 /\ ~alive[cur]) ~> phase # "running"

\* Without a host timer the worker's own engage_capturing gets the capture
\* mixed: a worker that announced itself is heard unless it is stopped first.
EngagesByItself ==
    \A w \in Sessions : (wpc[w] = "engage" /\ cur = w) ~> (capturing \/ stop[w])

-----------------------------------------------------------------------------
\* What comments and documents say and the code does not do.

\* TECHNICAL.md:342, a target's exit is reported as such.  While starting,
\* watchdog does not look at target_exited; while running it looks too early.
ExitReportedAsExit ==
    \A w \in Sessions : exited[w] => reported[w] \cap {"failed", "interrupted"} = {}
=============================================================================
