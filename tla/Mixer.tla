------------------------------- MODULE Mixer -------------------------------
(***************************************************************************)
(* lib.rs, micyou_plugin_process: the audio thread mixing what the capture *)
(* of Session.tla delivers, with the envelope that fades it in and out.    *)
(*                                                                         *)
(* The ring is what SampleQueue.tla says it is, one lossy queue; a sample  *)
(* is the capture it comes from.  The host's instance lock keeps process   *)
(* and the bus thread's handlers apart (TECHNICAL.md 2.3), so process is   *)
(* one step between handlers; workers run at any time.                     *)
(***************************************************************************)
EXTENDS Session, Sequences

CONSTANTS
    Fade,        \* FADE_SAMPLES: steps of the envelope between 0 and full
    RingCap,     \* samples the ring holds
    Backlog,     \* BACKLOG_SAMPLES
    Chunks,      \* samples one turn of a capture loop delivers
    Frames       \* frames the host asks for in one call

ASSUME FadeAssumption == Fade \in Nat \ {0}
ASSUME RingCapAssumption == RingCap \in Nat /\ Backlog \in 1..(RingCap - 1)
ASSUME FramesAssumption == Chunks \subseteq Nat \ {0} /\ Frames \subseteq Nat \ {0}

VARIABLES
    ring,        \* the samples waiting, oldest first
    env,         \* MIX.env, in steps of 1/Fade
    mixed,       \* ghost: the captures audible in the block last mixed
    tail         \* ghost: samples heard since CAPTURING was last seen set

mixer == <<ring, env, mixed, tail>>
mvars == <<vars, mixer>>

Lesser(a, b) == IF a <= b THEN a ELSE b
\* mutant: no ceiling
UpUnbounded(e, k) == e + k
\* env moves by one step per sample, between 0 and 1.
Up(e, k) == Lesser(e + k, Fade)
Down(e, k) == IF e <= k THEN 0 ELSE e - k

MInit == Init /\ ring = << >> /\ env = 0 /\ mixed = {} /\ tail = 0

\* mutant: start_capture leaves the ring as it is
KeepOnStart == Starts /\ UNCHANGED mixer

\* start_capture clears the ring before it spawns the worker.
ClearOnStart ==
    /\ Starts
    /\ ring' = << >>
    /\ UNCHANGED <<env, mixed, tail>>

\* init and deinit clear the ring and settle the envelope.
Settle ==
    /\ Resets
    /\ ring' = << >> /\ env' = 0
    /\ UNCHANGED <<mixed, tail>>

\* A turn of the capture loop, whether it then goes on, fails or finds the target
\* gone: what arrived is pushed, the newest is dropped when the ring is full.
Capture(w) ==
    /\ Drains(w)
    /\ \E len \in Chunks \cup {0} :
         ring' = ring \o [i \in 1..Lesser(len, RingCap - Len(ring)) |-> w]
    /\ UNCHANGED <<env, mixed, tail>>

\* mutant: mixed at full level until the envelope has settled
AudibleAll(take) == take
\* How many of the samples taken have a coefficient above 0: while capturing the
\* envelope rises before each sample, otherwise it falls.
Audible(take) == IF capturing THEN take ELSE Lesser(take, Down(env, 1))

\* mutant: falls only with the samples that are there
FallenWithSamples(take, frames) == Down(env, take)
\* A fade-out goes on for the whole call also when the ring runs dry in it.
Fallen(take, frames) == Down(env, frames)

\* What process does with the ring and the envelope; skipped samples lie beyond
\* the backlog.
Mix(frames) ==
    LET skipped == Down(Len(ring), Backlog)
        take == Lesser(Len(ring) - skipped, frames)
    IN  /\ mixed' = {ring[skipped + i] : i \in 1..Audible(take)}
        /\ tail' = IF capturing THEN 0 ELSE tail + Audible(take)
        /\ ring' = SubSeq(ring, skipped + take + 1, Len(ring))
        /\ env' = IF capturing THEN Up(env, take) ELSE Fallen(take, frames)

\* A call that is not bypassed.  Nothing is captured and the envelope has settled
\* otherwise, and the call leaves everything as it is.
Process ==
    /\ bus = "ready" /\ (capturing \/ env > 0)
    /\ \E frames \in Frames : Mix(frames)
    /\ UNCHANGED vars

MNext ==
    \/ Silent /\ UNCHANGED mixer
    \/ ClearOnStart \/ Settle \/ Process
    \/ \E w \in Sessions : Capture(w)

MSpec == MInit /\ [][MNext]_mvars

\* Handlers return, workers run on, and the host, while it streams, gets its turn
\* at the plugin's lock between the handlers.
MFairness ==
    /\ WF_mvars((Handler /\ UNCHANGED mixer) \/ ClearOnStart)
    /\ WF_mvars(Settle /\ bus = "deinit_reap")
    /\ \A w \in Sessions : WF_mvars((WorkerSteps(w) /\ UNCHANGED mixer) \/ Capture(w))
    /\ SF_mvars(Process)

MLiveSpec == MSpec /\ MFairness

-----------------------------------------------------------------------------
MTypeOK ==
    /\ ring \in Seq(Sessions) /\ Len(ring) <= RingCap
    /\ env \in 0..Fade /\ mixed \subseteq Sessions /\ tail \in Nat

\* Nothing of an earlier capture is mixed once a new one has started, although
\* the old one's fade-out may not be over: the ring is cleared after the old
\* worker was joined and before the new one exists.
OnlyTheNewest == [][mixed' # mixed => mixed' \subseteq {n}]_mvars

\* A capture that was stopped is heard for less than one fade, whatever is still
\* in the ring or arrives there from a worker winding down.
StopsWithinFade == tail + env <= Fade /\ tail < Fade

\* A stopped capture's envelope settles, so that process returns to its bypass,
\* also when the ring runs dry half-way through the fade.
FadeSettles == (~capturing /\ env > 0) ~> (capturing \/ env = 0)
=============================================================================
