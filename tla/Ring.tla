------------------------------- MODULE Ring -------------------------------
(***************************************************************************)
(* ring.rs: the lock-free single-producer / single-consumer ring between   *)
(* the capture worker (push) and the host's audio thread (mix_mono_into),  *)
(* with the bus thread borrowing the consumer's role for clear.            *)
(*                                                                         *)
(* Each call is split at its accesses to memory the other side sees: load  *)
(* the counters, touch the slots, store the own counter.  The counters are *)
(* machine words that wrap; written and retired are the same positions     *)
(* without wrapping and exist only in the specification.  An Acquire load  *)
(* may return any value the counter has had since the loading side last    *)
(* looked at it: nothing in the memory model makes it the newest.          *)
(***************************************************************************)
EXTENDS Naturals, Integers, Sequences

CONSTANTS
    Cap,         \* slots, a power of two in the code
    Word,        \* the counters count modulo this: 2^64 in the code
    Backlog,     \* BACKLOG_SAMPLES, less than the capacity
    Chunks,      \* block lengths handed to push
    Frames,      \* block lengths asked of mix_mono_into
    MaxOffered   \* bound: samples captured in a behaviour

ASSUME CapAssumption == Cap \in Nat \ {0}
ASSUME WordAssumption == Word \in Nat /\ \E k \in 2..Word : Word = Cap * k
ASSUME BacklogAssumption == Backlog \in 1..(Cap - 1)
ASSUME BlocksAssumption == Chunks \subseteq Nat \ {0} /\ Frames \subseteq Nat \ {0}
ASSUME MaxOfferedAssumption == MaxOffered \in Nat

VARIABLES
    write, read,       \* the atomics
    buf,               \* slot -> index of the captured sample it holds
    ppc, chunk, pn,    \* push: where it is, data.len(), samples accepted
    cpc, cr, cn,       \* consumer: where it is, its local r, take
    offered,           \* ghost: samples handed to the calls of push so far
    written, retired,  \* ghost: write and read without wrapping
    seenRead,          \* ghost: the retired position push last loaded
    seenWrite,         \* ghost: the written position the consumer last loaded
    heard              \* ghost: the block last mixed

producer == <<write, ppc, chunk, pn, offered, written, seenRead>>
consumer == <<read, cpc, cr, cn, retired, seenWrite, heard>>
vars == <<producer, consumer, buf>>

Positions == 0..(Word - 1)
Slots == 0..(Cap - 1)
\* mutant: a counter that is added to without wrapping
WrapAddUnwrapped(a, b) == a + b
WrapAdd(a, b) == (a + b) % Word
WrapSub(a, b) == (a - b) % Word
Slot(pos) == pos % Cap
\* mutant: the whole block, whether it fits or not
LeastIsFirst(a, b) == a
Least(a, b) == IF a <= b THEN a ELSE b
\* mutant: one slot more than there is
SatSubOneMore(a, b) == IF a <= b THEN 0 ELSE a - b + 1
SatSub(a, b) == IF a <= b THEN 0 ELSE a - b

\* The slot of the i-th sample from position pos on (i from 0): the code copies
\* up to the end of the buffer first and the rest at its beginning.
SlotAt(pos, i) ==
    LET start == Slot(pos)
    IN  IF i < Cap - start THEN start + i ELSE i - (Cap - start)

Touched(pos, n) == {SlotAt(pos, i) : i \in 0..(n - 1)}

Init ==
    /\ write = 0 /\ read = 0
    /\ buf = [s \in Slots |-> 0]
    /\ ppc = "idle" /\ chunk = 0 /\ pn = 0
    /\ cpc = "idle" /\ cr = 0 /\ cn = 0
    /\ offered = 0 /\ written = 0 /\ retired = 0
    /\ seenRead = 0 /\ seenWrite = 0
    /\ heard = << >>

-----------------------------------------------------------------------------
\* Producer.

\* push loads both counters and decides how many samples fit; the newest that
\* do not fit are lost, and a push that accepts none returns here.
PushBegin ==
    /\ ppc = "idle"
    /\ \E len \in Chunks, loaded \in seenRead..retired :
         LET free == SatSub(Cap, WrapSub(write, loaded % Word))
             n == Least(len, free)
         IN  /\ offered + len <= MaxOffered
             /\ seenRead' = loaded
             /\ pn' = n
             /\ chunk' = len
             /\ IF n = 0
                THEN ppc' = "idle" /\ offered' = offered + len
                ELSE ppc' = "copy" /\ UNCHANGED offered
    /\ UNCHANGED <<write, written, consumer, buf>>

\* copy_from_slice into one or two segments.
PushCopy ==
    /\ ppc = "copy"
    /\ buf' = [s \in Slots |->
                 IF s \in Touched(write, pn)
                 THEN offered + (CHOOSE i \in 0..(pn - 1) : SlotAt(write, i) = s)
                 ELSE buf[s]]
    /\ ppc' = "publish"
    /\ UNCHANGED <<write, chunk, pn, offered, written, seenRead, consumer>>

\* mutant: counts the samples that were dropped as written
PushPublishWhole ==
    /\ ppc = "publish"
    /\ write' = WrapAdd(write, chunk) /\ written' = written + chunk
    /\ offered' = offered + chunk
    /\ ppc' = "idle"
    /\ UNCHANGED <<chunk, pn, seenRead, consumer, buf>>

\* The Release store of write.
PushPublish ==
    /\ ppc = "publish"
    /\ write' = WrapAdd(write, pn)
    /\ written' = written + pn
    /\ offered' = offered + chunk
    /\ ppc' = "idle"
    /\ UNCHANGED <<chunk, pn, seenRead, consumer, buf>>

-----------------------------------------------------------------------------
\* Consumer.  The host's instance lock keeps mix_mono_into (process) and clear
\* (init, deinit, start_capture) apart, so they share one program counter.

\* mutant: nothing is skipped
MixFromRead(w) == read
\* Where mixing starts: what exceeds the backlog is skipped.
MixFrom(w) ==
    LET avail0 == WrapSub(w, read)
    IN  IF avail0 > Backlog THEN WrapAdd(read, avail0 - Backlog) ELSE read

\* mix_mono_into loads write once and takes at most one block; with nothing to
\* take only read is stored.
MixBegin ==
    /\ cpc = "idle"
    /\ \E frames \in Frames, loaded \in seenWrite..written :
         LET w == loaded % Word
             r == MixFrom(w)
             take == Least(WrapSub(w, r), frames)
         IN  /\ seenWrite' = loaded
             /\ cr' = r
             /\ cn' = take
             /\ cpc' = IF take = 0 THEN "publish" ELSE "copy"
    /\ UNCHANGED <<read, retired, heard, producer, buf>>

\* The two mix_segment calls: the samples reach the host's block in order.
MixCopy ==
    /\ cpc = "copy"
    /\ heard' = [i \in 1..cn |-> buf[SlotAt(cr, i - 1)]]
    /\ cpc' = "publish"
    /\ UNCHANGED <<read, cr, cn, retired, seenWrite, producer, buf>>

\* mutant: does not move past the block it mixed
MixPublishStays ==
    /\ cpc = "publish"
    /\ read' = cr /\ retired' = retired + WrapSub(cr, read)
    /\ cpc' = "idle"
    /\ UNCHANGED <<cr, cn, seenWrite, heard, producer, buf>>

\* The Release store of read.
MixPublish ==
    /\ cpc = "publish"
    /\ read' = WrapAdd(cr, cn)
    /\ retired' = retired + WrapSub(WrapAdd(cr, cn), read)
    /\ cpc' = "idle"
    /\ UNCHANGED <<cr, cn, seenWrite, heard, producer, buf>>

\* clear: load write, then make it the read position.
ClearLoad ==
    /\ cpc = "idle"
    /\ \E loaded \in seenWrite..written :
         /\ seenWrite' = loaded
         /\ cr' = loaded % Word
    /\ cpc' = "clear"
    /\ UNCHANGED <<read, cn, retired, heard, producer, buf>>

ClearStore ==
    /\ cpc = "clear"
    /\ read' = cr
    /\ retired' = retired + WrapSub(cr, read)
    /\ cpc' = "idle"
    /\ UNCHANGED <<cr, cn, seenWrite, heard, producer, buf>>

Produce == PushBegin \/ PushCopy \/ PushPublish
Consume == MixBegin \/ MixCopy \/ MixPublish \/ ClearLoad \/ ClearStore
Next == Produce \/ Consume

Spec == Init /\ [][Next]_vars

-----------------------------------------------------------------------------
\* Properties.

\* Every variable has its type: counters are words, slots hold sample indices.
TypeOK ==
    /\ write \in Positions /\ read \in Positions /\ cr \in Positions
    /\ buf \in [Slots -> Nat]
    /\ ppc \in {"idle", "copy", "publish"}
    /\ cpc \in {"idle", "copy", "publish", "clear"}
    /\ chunk \in Nat /\ pn \in Nat /\ cn \in Nat
    /\ offered \in Nat /\ written \in Nat /\ retired \in Nat
    /\ seenRead \in Nat /\ seenWrite \in Nat
    /\ heard \in Seq(Nat)

\* The producer's slots and the consumer's are disjoint while both are being
\* accessed: the claim the unsafe Send and Sync of AudioRing rest on.
NoSlotConflict ==
    ppc = "copy" /\ cpc = "copy" => Touched(write, pn) \cap Touched(cr, cn) = {}

\* Wrapping subtraction of the counters is the number of samples in the ring,
\* across the wrap and whatever stale values the two sides work from, and that
\* number never exceeds the capacity: read never passes write, write never laps
\* read.
CountersAgree ==
    /\ written - retired \in 0..Cap
    /\ WrapSub(write, read) = written - retired

\* A block reaches the host with its samples in capture order, after every
\* sample of the blocks before it: none is repeated or taken from a slot the
\* producer has since reused.
InOrder(block) == \A i \in 1..(Len(block) - 1) : block[i] < block[i + 1]
HeardInOrder ==
    [][heard' # heard =>
         InOrder(heard') /\ (heard # << >> => heard[Len(heard)] < heard'[1])]_vars

\* The age, in captured samples, of the first sample of a block whose load of
\* write was current.
StartsBlock == cpc = "idle" /\ cpc' = "copy" /\ seenWrite' = written
AgeOfFirst == offered - buf[Slot(cr')]

\* While push has never had to drop a sample, nothing older than the backlog is
\* mixed, however long the consumer had paused.
LatencyBoundedWithoutLoss ==
    [][StartsBlock /\ offered = written => AgeOfFirst <= Backlog]_vars

\* The comment on mix_mono_into (ring.rs:110-112): a paused consumer never
\* injects seconds-old sound on resume, without any condition on the pause.
\* Not what the code does: push drops the newest samples once the ring is full,
\* so after a pause longer than the ring the oldest audio is what is left.
LatencyBounded ==
    [][StartsBlock => AgeOfFirst <= Backlog]_vars

\* The ring implements the lossy queue.  The block leaves the queue when it is
\* copied; a block being published is already gone.
Front == IF cpc = "publish"
         THEN retired + WrapSub(WrapAdd(cr, cn), read)
         ELSE retired
Waiting == [i \in 1..(written - Front) |-> buf[SlotAt(Front % Word, i - 1)]]
Queue == INSTANCE SampleQueue WITH queue <- Waiting
QueueSpec == Queue!Spec
=============================================================================
