# FocusCapture in TLA+

FocusCapture is a MicYou plugin: a hotkey captures the sound of the foreground
application and mixes it into the microphone stream. The program is small and
concurrent. A state machine runs on the host's bus thread, a capture thread is
spawned and joined for every capture, the host's real-time audio thread consumes
what the capture thread produces, and host messages (hotkeys, timer ticks) arrive
late, arrive twice, or are dropped. This directory holds its specifications, the
TLC configurations that check them and the proofs.

`docs/TECHNICAL.md` below is `src/docs/TECHNICAL.md`; line numbers are those of
the files under `src/src/`.

## The system

| Part | State | Operations | Interacts with |
|---|---|---|---|
| Session machine, `lib.rs` 102-689 | `SESSION` (phase, worker handle, stop flag, shared block, interval, pending report), `fc_status` in the host's config | `toggle`, `start_capture`, `request_stop`, `watchdog`, `finish`, `reap_worker`, `init`, `deinit` | host messages; the worker through `stop`, `CAPTURING`, `WorkerShared` and the join |
| Workers, `backend_*.rs` | thread, platform objects, what the platform's callbacks point at | `spawn_worker`, `run_capture` / `run`, the callbacks | session (above), ring (push), the platform's threads |
| `WorkerShared`, `engage_capturing`, `capture.rs` | phase, target_exited, error, rate, channels | stores by the worker, loads by the watchdog | both |
| Ring, `ring.rs` | `write`, `read`, slots | `push`, `mix_mono_into`, `clear` | worker, audio thread, bus thread |
| Mixing, `micyou_plugin_process` | the envelope | one call per audio block | ring, `CAPTURING` |
| Resampler, `resample.rs` | sliding buffer, read position, unfinished group | `process` per packet | called by the worker before `push` |
| Sample conversion, format pods | none | `convert_interleaved_to_mono`, `build_format_pod`, `parse_format_pod` | called by the worker's callbacks |
| Hotkey planning, `lib.rs` 371-381, 701-776 | hotkey text, id, registered text, active | `plan_hotkey`, `apply_config`, the filter by id | host registrations, config |
| Hotkey parser, `hotkey.rs` | none | `parse`, `key_to_vk` | hotkey planning |
| Host bridge, `abi.rs` | the host table | marshalling | host |
| `trace.rs`, `panel.html` | none that the rest reads | | |

What is hard: the stop flag and `CAPTURING` raced by three threads; ticks of
timers already cleared; a start timeout racing the worker's announcement; a
restart while the last worker winds down and its fade-out is still going; a ring
whose two sides work from stale counters; platform objects that have to be
released in order on some thirty ways out of a worker, while threads of the platform
still call back; a target that exits at any moment; a host with no timer;
registrations that can never be released. `PROJECT.json` lists each hazard at its
line with the properties that cover it, and says of the others why none does.

What makes each part correct: the ring never has both sides on a slot and
delivers samples in order; the session has one worker at most, always one it can
stop, is silent when idle, and tells the user of one ending per capture; a start
is decided and a stop completes; a worker, on whichever platform, shows a format
before it announces itself, ends only with a cause, and by then holds nothing (but
for one description on macOS, see below) and pushes nothing; the resampler's output does not depend on how its input was cut, and
its buffer does not grow; mixing stops within a fade and never plays an old
capture in a new one; the shortcut the panel shows as working is the one that
works, and no other.

## Modules

| Module | Models | Notes |
|---|---|---|
| `SampleQueue` | what the ring promises | a bounded lossy queue of sample indices: no slots, threads or counters |
| `Ring`, `MCRing`, `RingProofs` | `ring.rs` | push and mix_mono_into in three steps (load, copy, publish), clear in two |
| `WorkerContract` | the "threading contract" of `capture.rs` | what `lib.rs` may rely on of a worker, on any platform |
| `WasapiWorker`, `WasapiProofs` | `backend_windows.rs` | every call of `run_capture`, the activation callback, the packet loop, the drops |
| `PipeWireWorker`, `PipeWireProofs` | `backend_linux.rs` | listing, attribution, the stream's callbacks, the drops |
| `TapWorker`, `TapProofs` | `backend_macos.rs` | what `run` creates and releases by hand, and CoreAudio's thread |
| `CaptureLife` | what the session promises of captures | no handlers, timers, phases or worker steps |
| `Session`, `SessionProofs` | `lib.rs`, `capture.rs`, the workers as `lib.rs` sees them | the core |
| `Mixer`, `MCMixer` | `micyou_plugin_process` and the ring as a queue | EXTENDS `Session`: every session step is a step of `Mixer`; its proofs are the last part of `SessionProofs` |
| `ShownShortcut` | what the hotkey promises the user | one shortcut shown as working, or none; no texts, ids, registrations or messages |
| `Hotkey`, `MCHotkey`, `HotkeyProofs` | `plan_hotkey`, its callers, the message filter | EXTENDS `HotkeyParse` |
| `HotkeyParse` | `hotkey.rs` | functions, no state |
| `Engage` | flag and `CAPTURING` with store buffers | |
| `Resampler` | `resample.rs` | counts of samples and the read position |
| `SampleFormat` | format pods, which bytes of a buffer are converted | functions, no state |
| `ParseProofs` | | what `HotkeyParse` and `SampleFormat` make of every text and every pod |
| `MCBackends`, `BackendProofs` | instance of all that differs per platform | `part` chooses what a behaviour is about; the proofs of the parts that have none of their own |

    SampleQueue     WorkerContract                        CaptureLife
        ^ implements     ^ implements      ^ implements        ^ implements
       Ring         WasapiWorker,     each worker of  ...   Session  <--EXTENDS--  Mixer
        :           PipeWireWorker,      Session                                     :
        :           TapWorker                                                        :
        :................................. as a queue ...............................:

    ShownShortcut
        ^ implements
      Hotkey  --EXTENDS-->  HotkeyParse

`Ring` implements `SampleQueue` (`QueueSpec`), and `Mixer` uses the ring as the queue it
implements. `WorkerContract` joins two levels in the same way: the three platform
modules, with all their calls and objects, implement it (`KeepsContract`), and so do the
short workers in `Session` (`WorkersKeepContract`), so that what `Session` lets a worker
show to the bus thread and what the platforms' workers show is the same promise.
`Session` as a whole implements `CaptureLife` (`CapturesLive`), the side of it that the
user and the host see, and `Hotkey` implements `ShownShortcut` (`ShownShortcutKept`), the
side of it that a user sees who knows of one shortcut. `Hotkey` and `Session` are independent: a hotkey message that
passes the filter is `Session`'s `HotkeyPress` or `StopFlag`.

Operators whose comment begins with "mutant:" are faulty variants of the operator
that follows them. No specification uses them; substituting one for the correct
operator makes the property named for it in `PROJECT.json` fail.

### Ring

A step is one access to what the other side sees. The counters are words modulo
`Word`; `written` and `retired` are the same positions without wrapping and occur
only as ghosts. An Acquire load may return any value the counter has had since
that side last looked (`loaded \in seenRead..retired`), so nothing relies on a
load returning the newest value. The buffer holds indices of captured samples, so
that order, repetition and loss show. The consumer's operations share a program
counter because the host's instance lock serialises `process` with the bus
handlers (docs/TECHNICAL.md section 2.3). `dropped` and `underruns` are left out.

### Session

`bus` is how far a handler has got and `"ready"` when none runs. The bus thread
holds the `SESSION` lock for a whole handler, so a handler is cut only where it
touches what a worker touches: the flag, `CAPTURING`, a field of `WorkerShared`,
the end of the thread. Writes to session fields and to the config in between are
part of the neighbouring step. `cur` is the session whose worker handle, flag and
shared block are held, since the code sets and clears the three together. The
worker's points follow the code's order of stores: format, phase, the three
accesses of `engage_capturing`, the loop, the error text, `PHASE_FINISHED`, the end
of the thread. `Platform` selects what differs: only WASAPI can fail between the
format and the announcement, fail in the loop and notice the target's exit; only
PipeWire has to wait for a format.

`reported` is what the user was told of each capture, `ticks` the intervals whose
messages are under way (cleared intervals included), `late` that the eight seconds
of `START_TIMEOUT` are over. `reap_worker` with a budget is a choice between the
worker being gone in time and not; `MayHang` is the set of captures for which that is
possible in the six seconds of `deinit`. `Contract(w)` is `WorkerContract` for one
worker; a push into the ring is one step here, so its `pushing` is FALSE.

`Life` is `CaptureLife` for the session: the capture held is `cur`, a capture's thread
is up, stopping or over as its point and its flag say, what was told is `reported`, and
who insists is a handler of a second hotkey press or of `deinit` that waits for the
reap. There a capture begins beside no other thread, but for one that outlasted
`deinit` and was asked to stop; the user hears that a capture runs before anyone asked
it to stop and of an ending only after; and a capture is let go of once its thread is
over, with an ending told, unless somebody insists.

### Mixer

A sample is the capture it comes from. `env` counts fade steps, one per sample as
in the callback of `mix_mono_into`; `Mix` is the backlog skip, the taking, the
envelope and the additional decay of a dry ring. A `process` call is one step
because the host's lock keeps handlers out, and the worker's pushes commute with
it by the refinement above; `CAPTURING` is read once per call.

### The platforms' workers

`pc` is the call the worker makes next, `held` what it has acquired and not yet given
back; `Calls` is the sequence of calls, with what each one takes. A call that fails
leaves at once to `"unwind"`, where `Release` gives back what is held in the order of
`Unwinding`: Rust's drop order, `Cleanup` and the explicit releases. `Needs` says
which object has to outlive which; it says nothing of the registry and the core, of
which `run` itself drops the core first. `RequestStop` may come at any moment. The six
variables of `WorkerContract` are what the bus thread and the ring see.

`WasapiWorker`: the engine's thread holds a reference to the completion handler and
may call it after the worker gave up waiting, or ended; the event it signals is closed
with the last reference. `drain_packets` does not look at the stop flag.

`PipeWireWorker`: one thread runs the loop and its callbacks. The listing is a loop of
its own: the clock (`late`, set by `DeadlinePasses` at any moment) is read before a turn
and nowhere else, a turn brings clients and streams, and all that was announced so far is
looked through after it (`ListOn`, `Iterated`, then `Pick` or `LookInVain`). The registry announces
clients and streams in any order; a turn may bring a format, audio, both or neither,
so that audio may enter the ring before the announcement. Renegotiating a format
changes nothing the worker shows.

`TapWorker`: `hal` is CoreAudio's thread in or out of `io_proc`. That
`AudioDeviceDestroyIOProcID` waits for an `io_proc` under way, and `AudioDeviceStop`
does not, is the one assumption about CoreAudio. A description whose number or array
could not be made is never released (359-368): `ReleasedWhenFinished` admits that one
object, after an error and alone, and nothing else (`ForgetsDescription`).

### Resampler, SampleFormat, HotkeyParse

`Resampler` keeps the read position exactly, as `center + frac/Den`, and counts
samples; `base`, `fed` and `made` are ghosts. `Passthrough` is the case where the
pre-decimation alone reaches the target rate. `SampleFormat` has pods as sequences
of words with a number of bytes, so that a pod may end anywhere; a property is
laid out value first, as `build_format_pod` writes and `parse_format_pod` reads it, so
that `PodsReadBack` is about the two agreeing with each other. That the daemon lays its
pods out in the same way is not claimed: of the two comments one has the value last
(121-123) and one first (145-146), as docs/TECHNICAL.md 394 has it last. In `HotkeyParse` a text is
the sequence of its tokens. The loops of the two parsers are recursive functions of the
round (`Rounds`, `Walk`), so that they can be reasoned about; `KeyToVk` joins the tables of
`key_to_vk`, which share no name.

### Hotkey

`hotkey_id`, `host_hotkey_sc`, `host_hotkey_active`, `hotkey_ok` and
`hotkey_text` are the session's fields. Two spellings of a combination are two
texts, as for the comparison in `plan_hotkey` (711); `Parse` says what each means.
The host keeps every registration until `deinit`; whether it hands out a second
registration for a combination the plugin already holds is not known, so both
outcomes happen. A press sends one message per registration of its combination.
Messages may be lost, delayed over a replanning or over a reload. The host is assumed
not to hand out an id again after a reload (`lastId` survives `PluginDeinit`): no line
under `src/` shows it, and `ShownShortcutKept` needs it, since a message of an old
registration could otherwise bear the id of a new one.

`User` is `ShownShortcut` for these variables. What is shown is the combination of
`hotkey_text` while `hotkey_ok`; what is offered, those the host holds; a press is waiting
while a message of it is on its way to a registration the host still holds and none of its
messages has toggled; the toggles are counted, so that a second one of a press is not
a step of `ShownShortcut`. There a press toggles only while its combination is shown, a
reload ends every press under way, and nothing is taken from other programs that was
not shown. A press is lost there only with the last of its messages that
could still toggle.

### Engage

The same race as in `Session`, on a machine that executes Release stores through a
store buffer, as x86-64 does. It exists because `Session` treats the flag and
`CAPTURING` as sequentially consistent and the code's orderings do not promise it.

## Runs

| Run | Instance | Shows |
|---|---|---|
| `ring` | 4 slots, words modulo 8, blocks of 1 and 3, backlog 2, 10 samples | types, disjoint slots, counters, order, bounded latency as long as nothing was dropped, and that `Ring` implements `SampleQueue` |
| `session_windows` | WASAPI, timer available, 2 captures | the session's safety properties, that a report is not lost, that its workers keep the contract, and that the target's exit ends a running capture |
| `session_linux` | PipeWire, timer available, 2 captures, the second may outlast deinit's budget | a start is decided, a stop completes; the session implements `CaptureLife`, also for a capture left behind; nothing is mixed that nobody asked for, but while a worker takes its own store of `CAPTURING` back |
| `mixer` | WASAPI, no timer, fade of 3, ring of 3, backlog 2, packets of 2, calls of 1 or 2 frames | fade-out bounded, no old capture in a new one, the envelope settles, and a worker gets its capture heard without the watchdog |
| `hotkey` | 2 combinations, one in 2 spellings, 1 invalid text, 3 registrations, 2 presses | the shown shortcut works and is the only one that toggles; `Hotkey` implements `ShownShortcut`: once per press, never across a reload, and nothing else is taken |
| `backends` | each platform's worker, 3 packets, 2 clients, 2 streams; resampler, store buffers, pods, chunks, shortcuts | what is held is released in order and, but for one description on macOS, entirely, callbacks find their state, a listing that ran out of time leaves no stream of the target's behind, a stop ends every worker, all three implement `WorkerContract`; the resampler neither loses samples nor grows; pods are read back, chunks read whole and shortcuts mean their keys, on every input of a set; muted after the join |
| `ring_latency`, `session_exit_report`, `session_linux_exit`, `hotkey_return`, `engage_converges`, `linux_attribution` | as above | the code disagrees with a comment or document (see below) |

Why the bounds are enough. Ten samples take the four slots around more than twice
and the word around once; blocks of three wrap inside a copy; with a capacity of
four both a full and a partly accepted push occur. Two captures are what a restart
needs: every property relates a session to itself or to its predecessor, and an
older one is already joined when its successor is spawned (`OneProducer`). In
`session_linux` it is the last capture that `deinit` may leave behind; that a further one
then begins beside it multiplies the states beyond a run, and is covered by the theorems,
which hold for every `MayHang`. A fade
of three steps is longer than a call, so that it spans calls, and a packet of two
overfills the ring with one sample waiting. Two combinations and three
registrations give A, B, A. The mixer runs without a timer because there the
worker alone sets `CAPTURING` and the hotkey alone ends a capture: the restarts that
put pressure on the ring remain and the state space is small enough for the
liveness properties.

Three packets allow a drain of several and one of none. Two
clients and two streams are what it takes for a stream to be announced before its
client and for one stream to shadow another. With a target rate of 4 the twelve
rates are below it, at it, above it by less than two, at two and three times it, and
in between, so that a step is whole, a fraction, or a pre-decimated either; packets of
up to 5 cut a group and a window at every place, and 40 samples drain the buffer many
times over. A pod has the unknown property at each of its six places with sizes
on both sides of the padding, and is cut within and between words; chunks begin
before, at and past the end of the mapping, with sizes that are no whole frames;
shortcuts are all texts of up to three tokens, with two modifiers, a letter, a digit,
a function key, a named key, a mouse button and an unknown word.

`CHECK_DEADLOCK FALSE` in `backends`, `linux_attribution` and `engage_converges`: a
worker ends, and after a bounded number of captures or samples there is nothing to
do. Every other system goes on, with the user, the host or the clock.

## Fairness

`Session`: a handler that was entered returns (weak fairness of `Handler`,
`Starts`, `DeinitReset`; the code has only bounded waits); a worker whose calls
return runs on (weak fairness per worker, but none of `WorkerNegotiated`, because
PipeWire may never answer); the host's timer fires while an interval is armed
(weak fairness of `HostTick`); time passes. The watchdog gets strong fairness: the
host drops a tick that finds the plugin busy (docs/TECHNICAL.md section 2.3), and
without the assumption that not every tick is dropped nothing would ever be
concluded. No fairness for the user, a reload, or the target's exit. A worker that
never returns from a system call is outside the liveness properties.

The platforms' workers: each call returns (weak fairness of `Worker` or `Runs`), so
does `io_proc`, and the two seconds of PipeWire's listing pass (weak fairness
of `DeadlinePasses`). Nothing is assumed of the engine's completion, of announcements, of a
format or of audio: a stop ends a worker (`StopEnds`) without any of them. A drain
ends because `MaxPackets` bounds what the engine delivers; the code relies on
draining faster than the engine fills.

`Mixer`: the same for handlers and workers, and strong fairness of `Process`,
because the audio thread takes the instance lock by a blocking `lock()` while the
dispatcher only tries it. `FadeSettles` therefore speaks of a host that streams.
`EngagesByItself` needs the worker's fairness alone.

## Theorems

`RingProofs`, for every capacity, every word size that is a multiple of it and at
least twice as large, every backlog below the capacity and all block lengths:
`TypeCorrect`, `CountersAgreeHolds`, `NoSlotConflictHolds`, `HeardInOrderHolds`,
`LatencyBoundedWithoutLossHolds`, and `ImplementsQueue`: everything the run `ring`
checks. None of it is inductive. `RingInv` adds to the types

- `Sync`: the counters are the unwrapped positions modulo `Word`;
- `Ordered`: seenRead <= retired <= seenWrite <= written <= seenRead + Cap, that is,
  stale loads err on the safe side;
- `PushFits` and `MixFits`: what a push accepted, or a mix or clear is about to
  retire, lies within what that side last saw.

The first part of the module is arithmetic of `%`: positions less than `Cap` apart
have different slots, and wrapping subtraction gives the distance. `ContentInv` is
about the samples: `Unrolled` gives each position what its slot holds, and from read
to write these samples ascend (`Ascending`), were captured before the block being
pushed (`Captured`), and from the front on are younger than what was mixed last
(`HeardBefore`); `Copied` and `Takes` say how far a push and a mix are. Two positions
of the ring share no slot, so a copy changes none of them (`CopyKeeps`). `Lossless`
(while nothing was dropped, a position's sample is the position) bounds the latency.
For `ImplementsQueue` the queue is a window of `Unrolled`, from the front to write:
publishing a push extends it (`WindowExtended`), a mix takes its middle and keeps the
rest (`WindowMiddle`, `WindowRest`), and every other step leaves it alone.

`SessionProofs`, for every platform, host and number of captures, and whichever
workers outlast `deinit`: `TypeCorrect`, `NoneForsakenHolds`, `UnaskedIsMutedHolds`,
`RunningHasFormatHolds`, `OneEndingHolds`, `UnknownErrorMeansExitHolds`,
`StatusAtWorstStoppingHolds`, `ReportNotLostHolds`, `CapturesLiveHolds` and
`WorkersKeepContractHolds`; and, if no worker outlasts it (`MayHang = {}`),
`OneProducerHolds`, `IdleIsQuietHolds` and `StoppedMeansMutedHolds`. Without the
assumption these three are false: `deinit` forgets a worker that still runs, and
an earlier worker may be at work on `CAPTURING` beside the next. No run checks
`NoneForsaken`, `OneEnding` and `StoppedMeansMuted` by name, because `CapturesLive`
implies the first two and `UnaskedIsMuted`, with one producer, the third.

`Control` ties the point in a handler to the phase and makes the types inductive
(`wpc[cur]` has a type only if `cur` is a session). `Book` adds what the bus thread
keeps: that captures not started are untouched (`Fresh`), how far a worker is that has
published something (`Published`), that a stopping worker has been told (`Told`), and
what may be pending, reported or unexplained (`FormatRead`, `Reporting`, `Caused`,
`StatusFollows`). `CoreInv` is `Book` with `LeftBehind`, who holds which worker (one
that nobody holds was told to stop and is among `MayHang`), and `Muted`, where
`CAPTURING` can survive a stop: only while some worker is between its store and taking
it back. `SafeInv` adds `Held`, that there is no worker but the one held; with
`MayHang = {}` it follows from `LeftBehind`. `ReportNotLost` is an action property: a
step that drops what is pending also tells it, or starts anew, or unloads.

For `CapturesLiveHolds`, `LifeCases` sorts the session's steps into those that leave
threads and reports alone, those that only set the flag of the capture held, and the
rest, each a step of `CaptureLife` in `LifeStep`. What the mapping needs and the
session's own properties do not: that a running capture has not been asked to stop when
it is told to run (`Caused`), that a stopping session with no report pending has told
the stop (`Reporting`), and that a thread nobody holds was asked to stop (`LeftBehind`).
`WorkersKeepContractHolds` needs no invariant but each worker's own, and the other
threads' steps that concern a worker only set its flag.

The last part of `SessionProofs` is about `Mixer`, for every fade, ring, backlog, packet and block length:
`MixerKeepsSession` (every step of `Mixer` is one of `Session` or leaves it alone, so
that its theorems hold here too), `MTypeCorrect`, `StopsWithinFadeHolds` and, if no
worker outlasts `deinit`, `OnlyTheNewestHolds`. `FadeInv` says that what was heard since
`CAPTURING` fell and what is left of the envelope come to one fade at most; a call that
finds the ring dry, full or shorter than its block takes away from the envelope at least
what it mixes. `NewestInv` is `SafeInv` with `RingIsNewest`: the ring holds samples of
the newest capture alone. It rests on there being one producer, which is why it needs
the assumption: a worker left behind by `deinit` pushes into the next capture's ring
until it sees its flag.

`WasapiProofs`, `PipeWireProofs` and `TapProofs`, for any number of packets, clients
and streams: `ReleasesInOrder`, `ReleasesAll`, and that the module implements
`WorkerContract`; for WASAPI `CompletionFindsItsEvent`, for CoreAudio
`IoProcFindsItsState`, for PipeWire `GivesUpInVain`. The invariants say which objects
are held at which call (each call acquires what the later ones need) and that while
unwinding what is left is closed under `Needs`; for WASAPI that the event is open for
as long as either side holds the handler; for CoreAudio that `io_proc` runs only while
the IOProc is installed, and that only an error before there is a tap leaves its
description; for PipeWire that between two turns of the listing nothing seen so far is
the target's, so that the end of its time, which is looked at only there, finds it so
(`Listed`).

`BackendProofs` carries these over to `MCBackends`, that is, to the properties the run
checks (`EveryBackendKeepsContract`, `ReleasesInOrder`, `ReleasesAll`,
`CallbacksFindTheirState`, `GivesUpInVain`), each part by the invariant of its own
module (`PartInv`), and proves the rest of the run:

- `PromiseKept`: what follows from `WorkerContract` for whoever reads `WorkerShared`.
- `RaceIsPutRight`, for any number of captures: whatever the store buffers held back,
  `CAPTURING` is false once the worker is joined and the stores have arrived. `RaceInv`
  says that of an idle session the last word on `CAPTURING`, in the bus thread's buffer
  or in memory, is false, and that the worker's buffer is empty (`LastIsMuted`): the
  join drains it, and `reap_worker` stores after the join.
- `ChunkReadWhole` and `IoProcReadsInside`, for every length, offset, size, format and
  number of channels, and every list of CoreAudio buffers: what is converted lies inside
  what was given, and less than one frame of it is left out. `ReadsInside` is their use
  for the inputs the run takes.
- `WindowsFit`, `NoSampleLost`, `ResamplerTypes`, for all rates, packet sizes, numbers
  of taps and lengths of a capture. The invariant is `(base + center) * Den + frac =
  Half * Den + made * from`, the read position after `made` outputs, with the balance of
  what was fed (`Supply`) and that the last window fitted (`LastFitted`).
- `PodsHold` and `ShortcutsHold`, by the theorems of `ParseProofs` for the inputs of
  the run.

`ParseProofs` is about the two parsers, for every input: `TextsMeanTheirKeys` (a text, of
any number of tokens, is accepted if and only if it names one known key, with a modifier where
users type that key, and then means that key and those modifiers) and `OwnPodsReadBack`
(what `build_format_pod` writes, with an unknown property of any size at any place in
the same layout, `parse_format_pod` reads back; a pod cut before its last key is refused). Both
parsers are loops, and the provers cannot instantiate the library's induction theorem.
`Induction` has a set of numbers in its place and rests on the least number missing
in the set, since `<` on the naturals is well-founded. With it `Iterated` shows that a
recursive function on `0..n` satisfies its equation, from finite pieces of it (`Follows`,
`OneStepMore`), so that the value `CHOOSE` picks need not be computed. For a text the
induction is over the tokens read: `ReadTo` says that, unless an error was met, the
modifiers and the key are those of the tokens so far. For a pod it is over its
properties: `Knows` says that the walk stands at the beginning of the next one and has
what those before it told, and `Ended` that a walk past the end stays there.

`HotkeyProofs`, for all texts and any number of registrations and presses:
`TypeCorrect`, `ShownHotkeyWorksHolds`, `OnlyTheShownTogglesHolds`,
`OneTogglePerPressHolds`. The invariant adds that the registration remembered is the
newest and made for the text remembered with it (`Remembered`), that an id stands
for one combination (`OneCombo`), and that what is left of a press that toggled
comes from older registrations (`Spent`). There `Parse` may be any function;
`ShownKeysRegisteredHolds` and `NamedKeysToggleHolds` add by `TextsMeanTheirKeys` what it
means for keys: what the host holds for a shown shortcut, and whatever toggles, are
exactly the key and the modifiers the text names. `ShownShortcutKeptHolds`: every step is
one of `ShownShortcut` or none. Besides the invariant it needs that the messages of a
press are all of one combination (`SamePress`), which makes them one press, and that
finitely many have toggled, as they are counted. A message toggles only if its id is the
newest, so by `Spent` no other message of its press has toggled before. `OneTogglePerPress`
is not in a run, since `ShownShortcutKept` says it there.

The assumptions of all these theorems are those the modules state of their constants,
and `MayHang = {}` where it is named.

Only model-checked: liveness (`StartingEnds`, `StoppingEnds`, `TargetExitEndsCapture`,
`EngagesByItself`, `FadeSettles`, `StopEnds`), since fairness and ENABLED are out of the
prover's reach. Every other property a passing run checks is a theorem.

## Where the code and its documents differ

Each is a run that TLC refutes.

1. `ring_latency`. `ring.rs` 110-112 and docs/TECHNICAL.md 278 promise recent
   sound after any pause. `push` drops the newest samples when the ring is full, so
   after a pause longer than the ring (1.37 s) the first block is from the
   beginning of the pause. While nothing has been dropped the promise holds
   (`LatencyBoundedWithoutLoss`).
2. `session_exit_report`. docs/TECHNICAL.md 342 promises a message of its own for
   the target's exit. The watchdog reads `target_exited` before the phase, and
   while starting not at all; a worker that finishes in between is reported as an
   interruption or failure with an unknown error. `UnknownErrorMeansExit` is the
   consolation: that text means nothing else.
3. `session_linux_exit`. README.md 46 promises that a capture stops when its target
   exits. Only the WASAPI loop looks at the target.
4. `hotkey_return`. `lib.rs` 708-710 and docs/TECHNICAL.md 223 promise that A, B, A
   reuses A's registration. Only the newest registration is remembered, so the host is
   asked for A again, and registers it twice or refuses it. (The run is about texts that
   are the only spelling of their combination. A respelled A is asked for again without
   any B in between; no document promises otherwise.)
5. `engage_converges`. `capture.rs` 166-168 says that a racing start always
   converges to stopped. Release and Acquire do not order a store before a later
   load of another variable, and the worker's `CAPTURING = true` can arrive last. It
   lasts until the reap (`MutedAfterReap`).
6. `linux_attribution`. `backend_linux.rs` 236 says "most trustworthy first", with the
   daemon's own `pipewire.sec.pid` before what a client says of itself. `pick` tries the
   three grounds stream by stream, so a stream that merely bears the target's name
   is taken before a later one that the daemon attributes to the target. The shortest
   trace, which TLC shows, has the name taken before an `application.process.id` that is
   the target's; one client more in it, and it is taken before a `pipewire.sec.pid`.

Smaller remarks, without a run: a hotkey that reaps a stopping worker and is then
refused leaves `fc_status` at stopping (`StatusAtWorstStopping` says it gets no worse),
and a restart by hotkey drops the report of the failure that preceded it (486);
`CAPTURING` is also written outside the `SESSION` lock (`capture.rs` 172 against
`lib.rs` 74); the envelope need not be settled when `start_capture` clears the ring
(463-465), which `OnlyTheNewest` shows to be harmless; a text that does not parse is
not offered to the host (`Reject`, 723-726), although docs/TECHNICAL.md 221 has it
offered once in case the host knows more names; without a timer a
capture is adopted and reaped by no other message (685 speaks of a delay); the
comment above `apply_config` (756-757) predates live replanning; `resample.rs` 15
has 256 phases in 8 KiB where 29 has 512 in 16; `backend_linux.rs` 121-123 lays a pod's
property out with the value last, as docs/TECHNICAL.md 394 does, and 145-146, like the
code, with the value first;
docs/TECHNICAL.md 403 destroys the tap before the state, `backend_macos.rs` 491-492
the other way round; `capture.rs` 29-30 keeps the error empty when the user stopped, but
a setup that fails after the stop stores it; `backend_macos.rs` 359-368 leaves the
description unreleased and releases the number that an array without callbacks
still points at; a format renegotiated while running is not shown.

## Not modelled

- `deinit` running out of its budget unmaps code under a live thread: undefined
  from there on. `MayHang` only lets the session forget the worker, which was then told
  to stop (`NoneForsakenHolds`), keeps its contract (`WorkersKeepContractHolds`) and
  takes back what it does to `CAPTURING` (`UnaskedIsMutedHolds`).
- A worker that panics ends without `PHASE_FINISHED`. Nothing in the workers panics by
  design, and what such a thread leaves behind is up to the unwinder.
- In `Session` and `Mixer` it is the worker's thread that pushes, after its
  announcement. PipeWire may push before it, and on CoreAudio another thread pushes:
  both are in the platform modules, where `WorkerContract` says that no push outlasts
  the worker, so that `OneProducer` is about the ring's producer on all three.
- Floating-point work: coefficients, conversion, gain, the rounding of the read
  position. The looks at the foreground application, which are plain queries.
- Marshalling (`abi.rs`), tracing, the panel, texts. Splitting a shortcut at `+`,
  trimming and lower case, and leading zeros of a function key's number.
- Two host processes sharing one config file: the last writer wins, as
  docs/TECHNICAL.md section 2.6 accepts.

## Plan

Done, in this order: ring, session, their proofs, mixer, hotkey, engage; the worker
contract and the three platforms' workers with their proofs, resampler, sample
format, hotkey parser, the hotkey proofs; what holds when a worker outlasts `deinit`,
`CaptureLife`, the proofs of the mixer and of what `MCBackends` instantiates, those of
the two parsers, and `ShownShortcut` with the proof that `Hotkey` implements it. Next:

1. `Hotkey` composed with `Session`: a reload between a press and its message.
2. An abstract specification of what `Mixer` delivers, and that `Mixer` implements it.
3. A panic step of a worker, with what `finish` and `reap_worker` make of it.
