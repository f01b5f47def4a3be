---------------------------- MODULE SampleQueue ----------------------------
(***************************************************************************)
(* What the audio ring promises, without slots, counters or threads: a    *)
(* bounded queue of captured samples that loses samples at both ends and   *)
(* never reorders, repeats or invents one.  A sample is the index at which *)
(* it was captured.  Ring.tla implements this specification.               *)
(***************************************************************************)
EXTENDS Naturals, Sequences

CONSTANTS
    Cap,         \* samples the ring can hold
    Backlog,     \* samples the consumer never throws away
    Chunks,      \* lengths of the blocks the producer offers
    Frames,      \* lengths of the blocks the consumer asks for
    MaxOffered   \* bound: samples captured in a behaviour

VARIABLES
    offered,     \* samples captured so far; the next one has this index
    queue,       \* samples accepted and neither mixed nor discarded
    heard        \* the block last mixed into the host's audio

vars == <<offered, queue, heard>>

Init ==
    /\ offered = 0
    /\ queue = << >>
    /\ heard = << >>

\* The producer offers m samples; the queue keeps the first n of them.
Enqueue ==
    \E m \in Chunks : \E n \in 0..m :
        /\ offered + m <= MaxOffered
        /\ Len(queue) + n <= Cap
        /\ queue' = queue \o [i \in 1..n |-> offered + i - 1]
        /\ offered' = offered + m
        /\ UNCHANGED heard

\* The consumer skips d samples, only from beyond the newest Backlog ones,
\* and mixes the k after them.
Deliver ==
    \E d, k \in 0..Len(queue) :
        /\ d + k <= Len(queue)
        /\ d > 0 => d + Backlog <= Len(queue)
        /\ \E f \in Frames : k <= f
        /\ heard' = IF k = 0 THEN heard ELSE SubSeq(queue, d + 1, d + k)
        /\ queue' = SubSeq(queue, d + k + 1, Len(queue))
        /\ UNCHANGED offered

\* A new capture throws away what is left of the previous one.
Discard ==
    \E d \in 1..Len(queue) :
        /\ queue' = SubSeq(queue, d + 1, Len(queue))
        /\ UNCHANGED <<offered, heard>>

Next == Enqueue \/ Deliver \/ Discard

Spec == Init /\ [][Next]_vars
=============================================================================
