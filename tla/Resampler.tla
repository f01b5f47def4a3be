----------------------------- MODULE Resampler -----------------------------
(***************************************************************************)
(* resample.rs: the sample-rate converter a capture worker feeds packet by *)
(* packet.  The model counts samples and keeps the read position exactly;  *)
(* the filter's coefficients and the samples' values are left out, and so  *)
(* is the rounding of the position, an f64 in the code and here the        *)
(* rational center + frac/Den.                                             *)
(***************************************************************************)
EXTENDS Naturals

CONSTANTS
    To,        \* the target rate
    Half,      \* half the number of taps
    Rates,     \* the rates a worker may ask to convert from
    Chunks,    \* bound: samples handed to process at a time
    MaxFed     \* bound: samples of a behaviour

ASSUME RatesAssumption == To \in Nat \ {0} /\ Half \in Nat \ {0} /\ Rates \subseteq Nat \ {0}
ASSUME BoundsAssumption == Chunks \subseteq Nat /\ MaxFed \in Nat

VARIABLES
    from,      \* the rate the converter was made for
    len,       \* samples in buf
    center,    \* pos, relative to buf[0]: its floor
    frac,      \* and the rest of it, in parts of Den
    pre_cnt,   \* samples of the unfinished pre-decimation group
    at,        \* "process" between calls, "run_sinc" inside its loop
    fed, made, \* ghost: samples in and samples out
    base       \* ghost: samples dropped from the front of buf

vars == <<from, len, center, frac, pre_cnt, at, fed, made, base>>

\* new: the pre-decimation factor, and the step in parts of Den.
Pre   == IF from >= To THEN from \div To ELSE 1
Den   == Pre * To
Whole == from \div Den
Rest  == from % Den

Init ==
    /\ from \in Rates
    /\ len = Half /\ center = Half /\ frac = 0
    /\ pre_cnt = 0
    /\ at = "process" /\ fed = 0 /\ made = 0 /\ base = 0

\* is_passthrough_post behind a pre-decimation: what process does no more with.
Passthrough == Pre > 1 /\ from = Den

\* mutant: an unfinished group is dropped at the end of the packet
GroupDropped(k) ==
    /\ at = "process" /\ fed + k <= MaxFed
    /\ fed' = fed + k
    /\ pre_cnt' = 0
    /\ IF Passthrough THEN made' = made + (pre_cnt + k) \div Pre /\ UNCHANGED <<len, at>>
       ELSE len' = len + (pre_cnt + k) \div Pre /\ at' = "run_sinc" /\ UNCHANGED made
    /\ UNCHANGED <<from, center, frac, base>>

\* process of k samples: whole groups become one sample each, the rest waits.
Process(k) ==
    /\ at = "process" /\ fed + k <= MaxFed
    /\ fed' = fed + k
    /\ pre_cnt' = (pre_cnt + k) % Pre
    /\ IF Passthrough THEN made' = made + (pre_cnt + k) \div Pre /\ UNCHANGED <<len, at>>
       ELSE len' = len + (pre_cnt + k) \div Pre /\ at' = "run_sinc" /\ UNCHANGED made
    /\ UNCHANGED <<from, center, frac, base>>

\* pos += step.
Advance ==
    IF frac + Rest < Den THEN center' = center + Whole /\ frac' = frac + Rest
    ELSE center' = center + Whole + 1 /\ frac' = frac + Rest - Den

\* One output while the window center-(Half-1) .. center+Half lies in buf.  The
\* branch for a negative center is left out: WindowInBuffer says it is dead.
Emit ==
    /\ at = "run_sinc" /\ center + Half < len
    /\ made' = made + 1
    /\ Advance
    /\ UNCHANGED <<from, len, pre_cnt, at, fed, base>>

\* How much of buf no window reaches any more.
KeepFrom ==
    LET used == IF center >= Half - 1 THEN center - (Half - 1) ELSE 0
    IN  IF used < len THEN used ELSE len

\* mutant: drops up to the center, and with it the next window's left side
DrainToCenter ==
    /\ at = "run_sinc" /\ center + Half >= len
    /\ LET keep == IF center < len THEN center ELSE len IN
         len' = len - keep /\ center' = center - keep /\ base' = base + keep
    /\ at' = "process"
    /\ UNCHANGED <<from, frac, pre_cnt, fed, made>>

Drain ==
    /\ at = "run_sinc" /\ center + Half >= len
    /\ len' = len - KeepFrom /\ center' = center - KeepFrom /\ base' = base + KeepFrom
    /\ at' = "process"
    /\ UNCHANGED <<from, frac, pre_cnt, fed, made>>

Next == (\E k \in Chunks : Process(k)) \/ Emit \/ Drain

Spec == Init /\ [][Next]_vars

-----------------------------------------------------------------------------
\* Every variable has its type.
TypeOK ==
    /\ from \in Rates
    /\ len \in Nat /\ center \in Nat /\ frac \in Nat /\ pre_cnt \in Nat
    /\ at \in {"process", "run_sinc"}
    /\ fed \in Nat /\ made \in Nat /\ base \in Nat

\* The window never starts before buf (the index c - (HALF - 1) of run_sinc would
\* wrap around), and between calls buf holds less than one window, however long
\* the capture and whatever the packets' sizes: "keep the buffer tiny".
WindowInBuffer ==
    /\ center >= Half - 1
    /\ at = "process" => len < 2 * Half

\* Output i is the window around input i * from/Den, pre-decimated; it can be
\* made once that window's right side has come in.
Ready(i) == Half + (i * from) \div Den < fed \div Pre

\* How many samples have come out depends on how many went in alone, not on how
\* they were cut into packets: nothing is lost, repeated or held back at a
\* packet's end (resample.rs:20-22).
PacketsInvisible ==
    at = "process" =>
        IF Passthrough THEN made = fed \div Pre
        ELSE ~Ready(made) /\ (made > 0 => Ready(made - 1))
=============================================================================
