----------------------------- MODULE MCBackends -----------------------------
(***************************************************************************)
(* What differs between the platforms, for TLC: one behaviour is about one *)
(* part, chosen at the start as a build chooses its backend.  The workers  *)
(* of the three platforms share the variables of WorkerContract; the       *)
(* resampler is the module this one extends; "pod", "chunk", "io_proc" and *)
(* "shortcut" are algorithms, checked on every input of a set.             *)
(***************************************************************************)
EXTENDS Resampler, Integers, Sequences

CONSTANTS
    Parts,         \* the parts checked
    MaxPackets,    \* see WasapiWorker
    Clients,       \* see PipeWireWorker
    MaxNodes,
    MaxSessions    \* see Engage

VARIABLES
    part, input,
    pc, held, failed, phase, error, exited, fmt, stop, pushing,
    engine, event, packets,
    clients, nodes, target, late, negotiated, quit,
    hal,
    mem, buffer, session, wpc, announced, n

worker    == <<pc, held, failed, phase, error, exited, fmt, stop, pushing>>
windows   == <<engine, event, packets>>
linux     == <<clients, nodes, target, late, negotiated, quit>>
race      == <<mem, buffer, session, wpc, announced, n>>
resampler == vars
all       == <<part, input, worker, windows, linux, hal, race, resampler>>

Windows  == INSTANCE WasapiWorker
Linux    == INSTANCE PipeWireWorker
MacOS    == INSTANCE TapWorker
Contract == INSTANCE WorkerContract
Race     == INSTANCE Engage WITH phase <- session
Format   == INSTANCE SampleFormat
Shortcut == INSTANCE HotkeyParse

-----------------------------------------------------------------------------
\* Where a part's variables stand while another one is checked.
WorkerUnused ==
    /\ pc = "unused" /\ held = {} /\ failed = FALSE
    /\ Contract!Init
WindowsUnused == engine = "none" /\ event = "none" /\ packets = 0
LinuxUnused ==
    /\ clients = << >> /\ nodes = << >> /\ target = 0 /\ late = FALSE
    /\ negotiated = FALSE /\ quit = FALSE
MacOSUnused == hal = "out"
RaceUnused ==
    /\ mem = << >> /\ buffer = << >> /\ session = "idle" /\ wpc = "gone"
    /\ announced = FALSE /\ n = 0
ResamplerUnused ==
    /\ from = (CHOOSE r \in Rates : TRUE) /\ len = Half /\ center = Half /\ frac = 0 /\ pre_cnt = 0
    /\ at = "process" /\ fed = 0 /\ made = 0 /\ base = 0

\* Pods: an extra property before, between or after the others, cut short or not.
PodInputs == Format!Candidates \X (1..6) \X {0, 4, 8, 12, 20} \X {0, 3, 4, 5, 8, 24}
\* Chunks: mapping, offset, size, format and channels.
ChunkInputs == {0, 1, 7, 16, 31} \X {0, 2, 8, 15, 16, 17, 40} \X {0, 1, 6, 16, 33} \X Format!Kinds \X (1..3)
IoInputs == BOOLEAN \X (1..3) \X {<<a, b>> : a, b \in {0, 3, 4, 8, 23, 24}}
\* Shortcuts: every text of up to three of these tokens.
Tokens == {"", "ctrl", "control", "shift", "a", "7", "f8", "space", "x1", "nonsense"}
ShortcutInputs == UNION {[1..k -> Tokens] : k \in 0..3}

Nothing == << >>

MCInit ==
    /\ part \in Parts
    /\ input \in CASE part = "pod" -> PodInputs [] part = "chunk" -> ChunkInputs
                   [] part = "io_proc" -> IoInputs [] part = "shortcut" -> ShortcutInputs
                   [] OTHER -> {Nothing}
    /\ CASE part = "windows" -> Windows!Init [] part = "linux" -> Linux!Init
         [] part = "macos" -> MacOS!Init [] OTHER -> WorkerUnused
    /\ part # "windows" => WindowsUnused
    /\ part # "linux" => LinuxUnused
    /\ part # "macos" => MacOSUnused
    /\ IF part = "engage" THEN Race!Init ELSE RaceUnused
    /\ IF part = "resampler" THEN Init ELSE ResamplerUnused

WindowsNext == part = "windows" /\ Windows!Next /\ UNCHANGED <<part, input, linux, hal, race, resampler>>
LinuxNext == part = "linux" /\ Linux!Next /\ UNCHANGED <<part, input, windows, hal, race, resampler>>
MacOSNext == part = "macos" /\ MacOS!Next /\ UNCHANGED <<part, input, windows, linux, race, resampler>>
RaceNext == part = "engage" /\ Race!Next /\ UNCHANGED <<part, input, worker, windows, linux, hal, resampler>>
ResamplerNext == part = "resampler" /\ Next /\ UNCHANGED <<part, input, worker, windows, linux, hal, race>>

MCNext == WindowsNext \/ LinuxNext \/ MacOSNext \/ RaceNext \/ ResamplerNext

\* The fairness of the workers' own specifications.
MCSpec ==
    /\ MCInit /\ [][MCNext]_all
    /\ WF_all(part = "windows" /\ Windows!Worker /\ UNCHANGED <<part, input, linux, hal, race, resampler>>)
    /\ WF_all(part = "linux" /\ Linux!Runs /\ UNCHANGED <<part, input, windows, hal, race, resampler>>)
    /\ WF_all(part = "linux" /\ Linux!DeadlinePasses /\ UNCHANGED <<part, input, windows, hal, race, resampler>>)
    /\ WF_all(part = "macos" /\ MacOS!Worker /\ UNCHANGED <<part, input, windows, linux, race, resampler>>)
    /\ WF_all(part = "macos" /\ MacOS!IoProcReturns /\ UNCHANGED <<part, input, windows, linux, race, resampler>>)

-----------------------------------------------------------------------------
\* No worker releases a platform object before what depends on it, whichever call
\* failed (backend_windows.rs:186-225, backend_macos.rs:461-492,
\* backend_linux.rs:516-519).
HeldInOrder ==
    /\ part = "windows" => Windows!HeldInOrder
    /\ part = "linux" => Linux!HeldInOrder
    /\ part = "macos" => MacOS!HeldInOrder

\* What a thread of the platform calls back into is still there: the activation
\* event for a completion after the worker's timeout (backend_windows.rs:148-150),
\* MacState for an io_proc under way at the stop (backend_macos.rs:214-216).
CallbackFindsItsState ==
    /\ part = "windows" => Windows!CallbackFindsItsState
    /\ part = "macos" => MacOS!CallbackFindsItsState

\* A worker that shows PHASE_FINISHED holds nothing any more, on every path out of
\* its setup and its loop (backend_windows.rs:176-177, backend_macos.rs:461-473),
\* but for the description of a tap whose number or array could not be made, which
\* the macOS worker never releases (backend_macos.rs:359-368).
ReleasedWhenFinished ==
    /\ part = "windows" => Windows!ReleasedWhenFinished
    /\ part = "linux" => Linux!ReleasedWhenFinished
    /\ part = "macos" => MacOS!ReleasedWhenFinished

\* Every platform's worker implements WorkerContract: format before announcement,
\* no audio after the end, an end only with a cause (capture.rs:8-37).
KeepsContract == Contract!Spec

\* A worker that is asked to stop finishes, wherever the request finds it: in a
\* setup call that waits, in its loop, or with a callback under way.
StopEnds == stop ~> phase = "finished"

\* PipeWire: a listing that ran out of time leaves no stream behind that is the
\* target's, wherever in a turn its time ran out and in whichever order a stream
\* and its client were announced (backend_linux.rs:304-321).
GivesUpInVainOnly == part = "linux" => Linux!GivesUpInVainOnly

\* PipeWire: the stream picked is the target's on the best grounds any stream has
\* (backend_linux.rs:236).
MostTrustworthyFirst == part = "linux" => Linux!MostTrustworthyFirst

\* A format pod the builder wrote, read back by the parser (backend_linux.rs:125-205).
PodsReadBack ==
    part = "pod" => Format!PodReadBack(input[1], input[2], input[3], input[4])

\* The bytes a callback reads of what the platform hands it (backend_linux.rs:385-407,
\* backend_macos.rs:245-295): none outside, and of a chunk no whole frame left out.
ReadsWholeBuffers ==
    /\ part = "chunk" => Format!ReadsWholeChunk(input[1], input[2], input[3], input[4], input[5])
    /\ part = "io_proc" => Format!IoProcStaysInside(input[1], input[2], input[3])

\* The key combination of a shortcut text (hotkey.rs:44-67).
ShortcutsMeanTheirKeys == part = "shortcut" => Shortcut!MeansItsKeys(input)

\* Engage's property, once the worker was joined (lib.rs:662-672).
MutedAfterReap == part = "engage" => Race!MutedAfterReap
=============================================================================
