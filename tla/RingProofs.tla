----------------------------- MODULE RingProofs -----------------------------
(***************************************************************************)
(* Theorems about Ring for every capacity, word size, backlog and set of   *)
(* block lengths: the counters stay in step across the wrap, the two sides *)
(* never touch the same slot, what is mixed is in capture order, and the   *)
(* ring implements the queue of SampleQueue.                               *)
(***************************************************************************)
EXTENDS Ring, SequenceTheorems, TLAPS

-----------------------------------------------------------------------------
\* Arithmetic of wrapping positions.

\* m is what is left of a after q times M.  Kept closed, so that the provers see
\* the product only where a step opens it.
Remainder(M, a, q, m) == q \in Int /\ m \in 0..(M - 1) /\ a = M * q + m

LEMMA Distribute ==
  ASSUME NEW M \in Nat, NEW p \in Int, NEW q \in Int
  PROVE  /\ M * (p + q) = M * p + M * q
         /\ M * (p - q) = M * p - M * q
         /\ M * p \in Int
OBVIOUS

LEMMA DivMod ==
  ASSUME NEW M \in Nat \ {0}, NEW a \in Int
  PROVE  a % M \in Int /\ \E q \in Int : Remainder(M, a, q, a % M)
<1>1. a % M \in 0..(M - 1) /\ a = M * (a \div M) + (a % M) /\ a \div M \in Int
  OBVIOUS
<1>2. Remainder(M, a, a \div M, a % M)
  BY <1>1 DEF Remainder
<1> QED
  BY <1>1, <1>2

LEMMA NoMultipleInside ==
  ASSUME NEW M \in Nat \ {0}, NEW k \in Int, M * k > 0
  PROVE  M * k >= M
<1>1. CASE k <= 0
  <2>1. M * k <= 0
    BY <1>1
  <2> QED
    BY <2>1
<1>2. CASE k >= 1
  BY <1>2
<1> QED
  BY <1>1, <1>2

\* Two numbers less than M apart that leave the same remainder are the same.
LEMMA SameRemainder ==
  ASSUME NEW M \in Nat \ {0}, NEW a \in Int, NEW b \in Int, NEW p, NEW q, NEW m,
         Remainder(M, a, p, m), Remainder(M, b, q, m)
  PROVE  ~(a < b /\ b - a < M)
<1>1. p \in Int /\ q \in Int /\ m \in Int /\ a = M * p + m /\ b = M * q + m
  BY DEF Remainder
<1>2. M * (q - p) = b - a
  BY <1>1, Distribute
<1> QED
  BY <1>1, <1>2, NoMultipleInside

LEMMA ModUnique ==
  ASSUME NEW M \in Nat \ {0}, NEW a \in Int, NEW q, NEW m, Remainder(M, a, q, m)
  PROVE  a % M = m
<1>1. PICK p \in Int : Remainder(M, a, p, a % M)
  BY DivMod
<1>2. q \in Int /\ m \in 0..(M - 1) /\ a = M * q + m /\ a % M \in 0..(M - 1) /\ a = M * p + (a % M)
  BY <1>1 DEF Remainder
<1>3. M * q \in Int /\ M * p \in Int /\ M * (q - p) = M * q - M * p /\ M * (p - q) = M * p - M * q
  BY <1>2, Distribute
<1>4. PICK r \in 0..(M - 1) : r = a % M
  BY <1>2
<1>5. PICK x \in Int, y \in Int : x = M * q /\ y = M * p
  BY <1>3
<1>6. M * (q - p) = r - m /\ M * (p - q) = m - r
  <2>1. a = x + m /\ a = y + r
    BY <1>2, <1>4, <1>5
  <2> QED
    BY <1>2, <1>3, <1>4, <1>5, <2>1
<1>7. ~(M * (q - p) > 0) /\ ~(M * (p - q) > 0)
  BY <1>2, <1>6, NoMultipleInside
<1> QED
  BY <1>2, <1>4, <1>6, <1>7

LEMMA ModDistinct ==
  ASSUME NEW M \in Nat \ {0}, NEW a \in Int, NEW b \in Int, a < b, b - a < M
  PROVE  a % M # b % M
<1>1. PICK p \in Int : Remainder(M, a, p, a % M)
  BY DivMod
<1>2. PICK q \in Int : Remainder(M, b, q, b % M)
  BY DivMod
<1> QED
  BY <1>1, <1>2, SameRemainder

LEMMA WordMultiple ==
  /\ Word \in Nat \ {0} /\ Word > Cap /\ Cap \in Nat \ {0}
  /\ \E k \in Nat \ {0} : Word = Cap * k
<1>1. PICK k \in 2..Word : Word = Cap * k
  BY WordAssumption
<1>2. Cap * k >= Cap * 2
  BY <1>1, CapAssumption, WordAssumption
<1> QED
  BY <1>1, <1>2, CapAssumption, WordAssumption

LEMMA PositionsAreWords ==
  ASSUME NEW a \in Int
  PROVE  a % Word \in Positions
<1>1. PICK p \in Int : Remainder(Word, a, p, a % Word)
  BY DivMod, WordMultiple
<1> QED
  BY <1>1 DEF Remainder, Positions

LEMMA WrapAddPosition ==
  ASSUME NEW a \in Nat, NEW m \in Nat
  PROVE  WrapAdd(a % Word, m) = (a + m) % Word
<1>1. PICK p \in Int : Remainder(Word, a, p, a % Word)
  BY DivMod, WordMultiple
<1>2. PICK x \in Int : x = a % Word
  BY DivMod, WordMultiple
<1>3. PICK q \in Int : Remainder(Word, x + m, q, (x + m) % Word)
  BY DivMod, WordMultiple
<1>4. Remainder(Word, a + m, p + q, (x + m) % Word)
  BY <1>1, <1>2, <1>3, Distribute, WordMultiple DEF Remainder
<1>5. (a + m) % Word = (x + m) % Word
  BY <1>4, ModUnique, WordMultiple
<1> QED
  BY <1>2, <1>5 DEF WrapAdd

LEMMA WrapSubPosition ==
  ASSUME NEW a \in Nat, NEW b \in Nat, b <= a, a - b < Word
  PROVE  WrapSub(a % Word, b % Word) = a - b
<1>1. PICK p \in Int : Remainder(Word, a, p, a % Word)
  BY DivMod, WordMultiple
<1>2. PICK q \in Int : Remainder(Word, b, q, b % Word)
  BY DivMod, WordMultiple
<1>3. PICK x \in Int : x = (a % Word) - (b % Word)
  <2>1. a % Word \in Int
    BY DivMod, WordMultiple
  <2>2. b % Word \in Int
    BY DivMod, WordMultiple
  <2> QED
    BY <2>1, <2>2
<1>4. Word * (q - p) = Word * q - Word * p /\ Word * q \in Int /\ Word * p \in Int
  BY Distribute, WordMultiple
<1>5. Remainder(Word, x, q - p, a - b)
  BY <1>1, <1>2, <1>3, <1>4, WordMultiple DEF Remainder
<1>6. x % Word = a - b
  BY <1>5, ModUnique, WordMultiple
<1> QED
  BY <1>3, <1>6 DEF WrapSub

LEMMA SlotPosition ==
  ASSUME NEW a \in Nat
  PROVE  Slot(a % Word) = a % Cap
<1>1. PICK k \in Nat \ {0} : Word = Cap * k
  BY WordMultiple
<1>2. PICK p \in Int : Remainder(Word, a, p, a % Word)
  BY DivMod, WordMultiple
<1>3. PICK x \in Int : x = a % Word
  BY DivMod, WordMultiple
<1>4. PICK q \in Int : Remainder(Cap, x, q, x % Cap)
  BY DivMod, WordMultiple
<1>5. PICK t \in Int : t = k * p
  BY <1>1
<1>6. Word * p = Cap * t
  BY <1>1, <1>5, WordMultiple
<1>7. a = Cap * t + x
  BY <1>2, <1>3, <1>6 DEF Remainder
<1>8. Cap * (t + q) = Cap * t + Cap * q /\ Cap * t \in Int /\ Cap * q \in Int
  BY Distribute, WordMultiple
<1>9. Remainder(Cap, a, t + q, x % Cap)
  <2>1. t + q \in Int /\ x % Cap \in 0..(Cap - 1) /\ x = Cap * q + (x % Cap)
    BY <1>4 DEF Remainder
  <2>2. PICK y \in Int, z \in Int, r \in Int : y = Cap * t /\ z = Cap * q /\ r = x % Cap
    BY <1>8, <2>1
  <2>3. a = (y + z) + r
    BY <1>7, <2>1, <2>2
  <2>4. a = Cap * (t + q) + (x % Cap)
    BY <1>8, <2>2, <2>3
  <2> QED
    BY <2>1, <2>4 DEF Remainder
<1>10. a % Cap = x % Cap
  BY <1>9, ModUnique, WordMultiple
<1> QED
  BY <1>3, <1>10 DEF Slot

LEMMA CapRemainder ==
  ASSUME NEW a \in Nat
  PROVE  \E p \in Int : Remainder(Cap, a, p, a % Cap)
<1>1. a \in Int
  OBVIOUS
<1> QED
  BY <1>1, DivMod, WordMultiple

\* Both segments of a block hit the slot of the position they stand for.
LEMMA SlotAtPosition ==
  ASSUME NEW a \in Nat, NEW i \in 0..(Cap - 1)
  PROVE  SlotAt(a % Word, i) = (a + i) % Cap
<1>1. PICK p \in Int : Remainder(Cap, a, p, a % Cap)
  BY CapRemainder
<1>2. PICK st \in 0..(Cap - 1) : st = a % Cap
  BY <1>1 DEF Remainder
<1>3. SlotAt(a % Word, i) = IF i < Cap - st THEN st + i ELSE i - (Cap - st)
  BY <1>2, SlotPosition DEF SlotAt
<1>4. CASE i < Cap - st
  <2>1. Remainder(Cap, a + i, p, st + i)
    BY <1>1, <1>2, <1>4, WordMultiple DEF Remainder
  <2>2. (a + i) % Cap = st + i
    BY <2>1, ModUnique, WordMultiple
  <2> QED
    BY <1>3, <1>4, <2>2
<1>5. CASE i >= Cap - st
  <2>1. Cap * (p + 1) = Cap * p + Cap /\ Cap * p \in Int
    BY Distribute, WordMultiple
  <2>2. Remainder(Cap, a + i, p + 1, i - (Cap - st))
    BY <1>1, <1>2, <1>5, <2>1, WordMultiple DEF Remainder
  <2>3. (a + i) % Cap = i - (Cap - st)
    BY <2>2, ModUnique, WordMultiple
  <2> QED
    BY <1>2, <1>3, <1>5, <2>3, WordMultiple
<1> QED
  BY <1>2, <1>4, <1>5, WordMultiple

\* Different positions of a stretch no longer than the ring have different slots.
LEMMA SlotsDistinct ==
  ASSUME NEW a \in Int, NEW b \in Int, a < b, b - a < Cap
  PROVE  a % Cap # b % Cap
BY ModDistinct, WordMultiple

-----------------------------------------------------------------------------
\* The inductive invariant.

\* The atomics are the positions, wrapped.
Sync == write = written % Word /\ read = retired % Word

\* However stale what each side last saw of the other is, it errs on the safe
\* side, and the ring is never more than full.
Ordered ==
    /\ seenRead <= retired /\ retired <= seenWrite
    /\ seenWrite <= written /\ written <= seenRead + Cap

\* What push accepted fits behind the slots it last knew to be in use.
PushFits == ppc # "idle" => pn \in 1..Cap /\ written + pn <= seenRead + Cap

\* The consumer's r is ahead of read by k samples, and what it takes from there
\* had been published when it loaded write.
TakenAt(k) ==
    /\ cr = (retired + k) % Word
    /\ retired + k + (IF cpc = "clear" THEN 0 ELSE cn) <= seenWrite
MixFits == cpc # "idle" => \E k \in 0..Cap : TakenAt(k)

RingInv == TypeOK /\ Sync /\ Ordered /\ PushFits /\ MixFits

LEMMA SlotAtType ==
  ASSUME NEW pos \in Positions, NEW i \in 0..(Cap - 1)
  PROVE  SlotAt(pos, i) \in Slots
<1>1. Slot(pos) \in 0..(Cap - 1)
  <2>1. pos \in Nat
    BY WordMultiple DEF Positions
  <2>2. PICK q \in Int : Remainder(Cap, pos, q, pos % Cap)
    BY <2>1, CapRemainder
  <2> QED
    BY <2>2 DEF Remainder, Slot
<1> QED
  BY <1>1, WordMultiple DEF SlotAt, Slots

\* What the counters' distances are while the invariant holds.
LEMMA Distances ==
  ASSUME TypeOK, Sync, Ordered, NEW a \in Nat, NEW b \in Nat, a <= b, b - a <= Cap
  PROVE  WrapSub(b % Word, a % Word) = b - a
<1>1. b - a < Word
  BY WordMultiple
<1> QED
  BY <1>1, WrapSubPosition

LEMMA RingInvInit == Init => RingInv
<1> SUFFICES ASSUME Init PROVE RingInv
  OBVIOUS
<1>1. 0 \in Positions /\ 0 \in Nat
  BY WordMultiple DEF Positions
<1>2. TypeOK
  BY <1>1 DEF Init, TypeOK
<1>3. 0 % Word = 0
  <2>1. Remainder(Word, 0, 0, 0)
    BY WordMultiple DEF Remainder
  <2> QED
    BY <2>1, ModUnique, WordMultiple
<1>4. Sync
  BY <1>3 DEF Init, Sync
<1>5. Ordered /\ PushFits /\ MixFits
  BY WordMultiple DEF Init, Ordered, PushFits, MixFits
<1> QED
  BY <1>2, <1>4, <1>5 DEF RingInv

\* One lemma per action of which the distances matter: what it does, without
\* the wrapping.
LEMMA PushBeginStep ==
  ASSUME RingInv, PushBegin
  PROVE  /\ seenRead' \in seenRead..retired
         /\ pn' \in 0..Cap /\ chunk' \in Nat /\ offered' \in Nat
         /\ ppc' \in {"idle", "copy"}
         /\ ppc' = "copy" => pn' # 0
         /\ written + pn' <= seenRead' + Cap
         /\ UNCHANGED <<write, written, consumer, buf>>
<1>1. PICK len \in Chunks, loaded \in seenRead..retired :
        LET free == SatSub(Cap, WrapSub(write, loaded % Word))
            m == Least(len, free)
        IN  /\ offered + len <= MaxOffered
            /\ seenRead' = loaded
            /\ pn' = m
            /\ chunk' = len
            /\ IF m = 0
               THEN ppc' = "idle" /\ offered' = offered + len
               ELSE ppc' = "copy" /\ UNCHANGED offered
  BY DEF PushBegin
<1>2. seenRead \in Nat /\ retired \in Nat /\ written \in Nat /\ offered \in Nat /\ len \in Nat
  BY BlocksAssumption DEF RingInv, TypeOK
<1>3. loaded \in Nat /\ loaded <= written /\ written - loaded <= Cap
  BY <1>1, <1>2, CapAssumption DEF RingInv, TypeOK, Ordered
<1>4. WrapSub(write, loaded % Word) = written - loaded
  BY <1>2, <1>3, Distances DEF RingInv, Sync
<1>5. SatSub(Cap, written - loaded) = Cap - (written - loaded)
  BY <1>2, <1>3, CapAssumption DEF SatSub
<1>6. pn' = Least(len, Cap - (written - loaded))
  BY <1>1, <1>4, <1>5
<1>7. pn' \in 0..Cap /\ pn' <= Cap - (written - loaded)
  BY <1>2, <1>3, <1>6, CapAssumption DEF Least
<1>8. seenRead' = loaded /\ chunk' = len /\ offered' \in Nat /\ ppc' \in {"idle", "copy"}
      /\ (ppc' = "copy" => pn' # 0)
  <2>1. IF pn' = 0 THEN ppc' = "idle" /\ offered' = offered + len
                   ELSE ppc' = "copy" /\ offered' = offered
    BY <1>1
  <2>2. offered' \in Nat
    BY <1>2, <2>1
  <2>3. ppc' \in {"idle", "copy"} /\ (ppc' = "copy" => pn' # 0)
    BY <2>1
  <2> QED
    BY <1>1, <2>2, <2>3
<1>9. written + pn' <= seenRead' + Cap
  <2>1. PICK m \in Nat : m = pn'
    BY <1>7
  <2>2. written + m <= loaded + Cap
    <3>1. m <= Cap - (written - loaded) /\ Cap \in Nat
      BY <1>7, <2>1, CapAssumption
    <3> QED
      BY <1>2, <1>3, <3>1
  <2> QED
    BY <1>8, <2>1, <2>2
<1> QED
  BY <1>1, <1>2, <1>7, <1>8, <1>9 DEF PushBegin

LEMMA MixBeginStep ==
  ASSUME RingInv, MixBegin
  PROVE  \E k \in 0..Cap :
           /\ seenWrite' \in seenWrite..written
           /\ cr' = (retired + k) % Word
           /\ cn' \in 0..Cap
           /\ retired + k + cn' <= seenWrite'
           /\ cpc' \in {"publish", "copy"}
           /\ cpc' = "publish" => k = 0 /\ cn' = 0
           /\ cpc' = "copy" => cn' > 0 /\ \E f \in Frames : cn' <= f
           /\ k > 0 => retired + k + Backlog <= seenWrite'
           /\ seenWrite' <= retired + k + Backlog
           /\ UNCHANGED <<read, retired, heard, producer, buf>>
<1>1. PICK frames \in Frames, loaded \in seenWrite..written :
        LET w == loaded % Word
            r == MixFrom(w)
            take == Least(WrapSub(w, r), frames)
        IN  /\ seenWrite' = loaded
            /\ cr' = r
            /\ cn' = take
            /\ cpc' = IF take = 0 THEN "publish" ELSE "copy"
  BY DEF MixBegin
<1>2. seenWrite \in Nat /\ retired \in Nat /\ written \in Nat /\ frames \in Nat /\ Backlog \in Nat
  BY BlocksAssumption, BacklogAssumption, CapAssumption DEF RingInv, TypeOK
<1>3. loaded \in Nat /\ retired <= loaded /\ loaded - retired <= Cap
  BY <1>1, <1>2, CapAssumption DEF RingInv, TypeOK, Ordered
<1>4. WrapSub(loaded % Word, read) = loaded - retired
  BY <1>2, <1>3, Distances DEF RingInv, Sync
<1> DEFINE k == IF loaded - retired > Backlog THEN (loaded - retired) - Backlog ELSE 0
<1>5. k \in Nat /\ k <= loaded - retired
  BY <1>2, <1>3
<1>6. (k > 0 => retired + k + Backlog = loaded) /\ loaded <= retired + k + Backlog
  BY <1>2, <1>3
<1> HIDE DEF k
<1>7. (IF loaded - retired > Backlog THEN WrapAdd(read, (loaded - retired) - Backlog) ELSE read)
        = (retired + k) % Word
  <2>1. CASE loaded - retired > Backlog
    <3>1. k = (loaded - retired) - Backlog /\ WrapAdd(retired % Word, k) = (retired + k) % Word
      BY <1>2, <1>5, <2>1, WrapAddPosition DEF k
    <3>2. read = retired % Word
      BY DEF RingInv, Sync
    <3> QED
      BY <2>1, <3>1, <3>2
  <2>2. CASE ~(loaded - retired > Backlog)
    <3>1. k = 0 /\ retired + k = retired
      BY <1>2, <2>2 DEF k
    <3>2. read = retired % Word
      BY DEF RingInv, Sync
    <3> QED
      BY <2>2, <3>1, <3>2
  <2> QED
    BY <2>1, <2>2
<1>8. cr' = (retired + k) % Word
  <2>1. MixFrom(loaded % Word) = (retired + k) % Word
    BY <1>4, <1>7 DEF MixFrom
  <2> QED
    BY <1>1, <2>1
<1>9. WrapSub(loaded % Word, (retired + k) % Word) = loaded - (retired + k)
  <2>1. retired + k \in Nat /\ retired + k <= loaded /\ loaded - (retired + k) <= Cap
    BY <1>2, <1>3, <1>5, CapAssumption
  <2> QED
    BY <1>3, <2>1, Distances DEF RingInv
<1>10. cn' = Least(WrapSub(loaded % Word, cr'), frames)
  BY <1>1
<1>11. cn' = Least(loaded - (retired + k), frames)
  BY <1>8, <1>9, <1>10
<1>12. cn' \in 0..Cap /\ retired + k + cn' <= loaded
  BY <1>2, <1>3, <1>5, <1>11, CapAssumption DEF Least
<1>13. k \in 0..Cap
  BY <1>2, <1>3, <1>5, CapAssumption
<1>14. seenWrite' = loaded /\ cpc' = IF cn' = 0 THEN "publish" ELSE "copy"
  BY <1>1
<1>15. cn' = 0 => k = 0
  <2>1. frames > 0 /\ Backlog > 0
    BY BlocksAssumption, BacklogAssumption, CapAssumption
  <2>2. cn' = 0 => retired + k = loaded
    BY <1>2, <1>3, <1>5, <1>11, <2>1 DEF Least
  <2> QED
    BY <1>2, <1>3, <1>5, <1>6, <2>1, <2>2
<1>16. cn' <= frames
  BY <1>2, <1>3, <1>5, <1>11 DEF Least
<1>17. (k > 0 => retired + k + Backlog <= seenWrite') /\ seenWrite' <= retired + k + Backlog
  BY <1>2, <1>3, <1>14, <1>6
<1>18. UNCHANGED <<read, retired, heard, producer, buf>>
  BY DEF MixBegin
<1>19. (cpc' = "publish" => cn' = 0) /\ (cpc' = "copy" => cn' > 0)
  BY <1>12, <1>14, CapAssumption
<1> QED
  BY <1>1, <1>8, <1>12, <1>13, <1>14, <1>15, <1>16, <1>17, <1>18, <1>19

LEMMA MixPublishStep ==
  ASSUME RingInv, MixPublish
  PROVE  /\ read' = retired' % Word
         /\ retired' \in retired..seenWrite
<1>1. PICK k \in 0..Cap : TakenAt(k)
  BY DEF MixPublish, RingInv, MixFits
<1>2. cn \in Nat /\ retired \in Nat /\ seenWrite \in Nat /\ written \in Nat /\ seenRead \in Nat
  BY DEF RingInv, TypeOK
<1>3. cr = (retired + k) % Word /\ retired + k + cn <= seenWrite
  BY <1>1 DEF TakenAt, MixPublish
<1>4. retired + k \in Nat /\ retired + k + cn \in Nat /\ k \in Nat
  BY <1>2, CapAssumption
<1>5. WrapAdd(cr, cn) = (retired + k + cn) % Word
  BY <1>2, <1>3, <1>4, WrapAddPosition
<1>6. retired <= retired + k + cn /\ (retired + k + cn) - retired <= Cap
  BY <1>2, <1>3, <1>4, CapAssumption DEF RingInv, Ordered
<1>7. WrapSub(WrapAdd(cr, cn), read) = (retired + k + cn) - retired
  BY <1>2, <1>4, <1>5, <1>6, Distances DEF RingInv, Sync
<1>8. retired' = retired + ((retired + k + cn) - retired)
  BY <1>7 DEF MixPublish
<1>9. retired' = retired + k + cn
  BY <1>2, <1>4, <1>8
<1> QED
  BY <1>2, <1>3, <1>4, <1>5, <1>6, <1>9 DEF MixPublish

LEMMA ClearStoreStep ==
  ASSUME RingInv, ClearStore
  PROVE  /\ read' = retired' % Word
         /\ retired' \in retired..seenWrite
<1>1. PICK k \in 0..Cap : TakenAt(k)
  BY DEF ClearStore, RingInv, MixFits
<1>2. retired \in Nat /\ seenWrite \in Nat /\ written \in Nat /\ seenRead \in Nat /\ k \in Nat
  BY CapAssumption DEF RingInv, TypeOK
<1>3. cr = (retired + k) % Word /\ retired + k <= seenWrite
  BY <1>1, <1>2 DEF TakenAt, ClearStore
<1>4. retired + k \in Nat /\ retired <= retired + k /\ (retired + k) - retired <= Cap
  BY <1>2, CapAssumption
<1>5. WrapSub(cr, read) = (retired + k) - retired
  BY <1>2, <1>3, <1>4, Distances DEF RingInv, Sync
<1>6. retired' = retired + ((retired + k) - retired)
  BY <1>5 DEF ClearStore
<1>7. retired' = retired + k
  BY <1>2, <1>6
<1> QED
  BY <1>2, <1>3, <1>4, <1>7 DEF ClearStore

LEMMA RingInvNext == RingInv /\ [Next]_vars => RingInv'
<1> SUFFICES ASSUME RingInv, [Next]_vars PROVE RingInv'
  OBVIOUS
<1>1. write \in Positions /\ read \in Positions /\ cr \in Positions
      /\ buf \in [Slots -> Nat] /\ heard \in Seq(Nat)
      /\ ppc \in {"idle", "copy", "publish"} /\ cpc \in {"idle", "copy", "publish", "clear"}
      /\ chunk \in Nat /\ pn \in Nat /\ cn \in Nat
  BY DEF RingInv, TypeOK
<1>2. offered \in Nat /\ written \in Nat /\ retired \in Nat /\ seenRead \in Nat /\ seenWrite \in Nat
  BY DEF RingInv, TypeOK
<1>3. Sync /\ Ordered /\ PushFits /\ MixFits
  BY DEF RingInv
<1>4. Cap \in Nat \ {0}
  BY CapAssumption
<1>5. ASSUME PushBegin PROVE RingInv'
  <2>1. /\ seenRead' \in seenRead..retired
        /\ pn' \in 0..Cap /\ chunk' \in Nat /\ offered' \in Nat
        /\ ppc' \in {"idle", "copy"}
        /\ ppc' = "copy" => pn' # 0
        /\ written + pn' <= seenRead' + Cap
        /\ UNCHANGED <<write, written, consumer, buf>>
    BY <1>5, PushBeginStep
  <2>2. TypeOK'
    BY <1>1, <1>2, <1>4, <2>1 DEF TypeOK, consumer
  <2>3. Sync' /\ MixFits'
    BY <1>3, <2>1 DEF Sync, MixFits, TakenAt, consumer
  <2>4. Ordered'
    <3>1. retired' = retired /\ seenWrite' = seenWrite /\ written' = written
      BY <2>1 DEF consumer
    <3>2. seenRead' <= retired /\ retired <= seenWrite /\ seenWrite <= written
      BY <1>2, <1>3, <2>1 DEF Ordered
    <3>3. written <= seenRead' + Cap
      <4>1. PICK s \in Nat, m \in Nat : s = seenRead' /\ m = pn'
        BY <1>2, <2>1
      <4>2. written + m <= s + Cap
        BY <2>1, <4>1
      <4>3. written <= s + Cap
        BY <1>2, <1>4, <4>2
      <4> QED
        BY <4>1, <4>3
    <3> QED
      BY <3>1, <3>2, <3>3 DEF Ordered
  <2>5. PushFits'
    <3> SUFFICES ASSUME ppc' # "idle" PROVE pn' \in 1..Cap /\ written' + pn' <= seenRead' + Cap
      BY DEF PushFits
    <3>1. ppc' = "copy" /\ pn' # 0
      BY <2>1
    <3>2. pn' \in 1..Cap
      BY <1>4, <2>1, <3>1
    <3> QED
      BY <2>1, <3>2
  <2> QED
    BY <2>2, <2>3, <2>4, <2>5 DEF RingInv
<1>6. ASSUME PushCopy PROVE RingInv'
  <2>1. buf' \in [Slots -> Nat]
    <3> SUFFICES ASSUME NEW s \in Slots, s \in Touched(write, pn)
                 PROVE  offered + (CHOOSE i \in 0..(pn - 1) : SlotAt(write, i) = s) \in Nat
      BY <1>1, <1>6 DEF PushCopy
    <3>1. \E i \in 0..(pn - 1) : SlotAt(write, i) = s
      BY DEF Touched
    <3>2. (CHOOSE i \in 0..(pn - 1) : SlotAt(write, i) = s) \in 0..(pn - 1)
      BY <3>1
    <3> QED
      BY <1>1, <1>2, <3>2
  <2>2. TypeOK'
    BY <1>1, <1>2, <1>6, <2>1 DEF TypeOK, PushCopy, consumer
  <2>3. Sync' /\ MixFits'
    BY <1>3, <1>6 DEF Sync, MixFits, TakenAt, PushCopy, consumer
  <2>4. Ordered' /\ PushFits'
    BY <1>3, <1>6 DEF Ordered, PushFits, PushCopy, consumer
  <2> QED
    BY <2>2, <2>3, <2>4 DEF RingInv
<1>7. ASSUME PushPublish PROVE RingInv'
  <2>1. written + pn \in Nat /\ offered + chunk \in Nat /\ (written + pn) % Word \in Positions
    BY <1>1, <1>2, PositionsAreWords
  <2>2. write' = (written + pn) % Word
    BY <1>1, <1>2, <1>3, <1>7, WrapAddPosition DEF Sync, PushPublish
  <2>3. written' = written + pn
    BY <1>7 DEF PushPublish
  <2>4. TypeOK'
    BY <1>1, <1>2, <1>7, <2>1, <2>2 DEF TypeOK, PushPublish, consumer
  <2>5. Sync' /\ MixFits'
    BY <1>3, <1>7, <2>2, <2>3 DEF Sync, MixFits, TakenAt, PushPublish, consumer
  <2>6. Ordered' /\ PushFits'
    BY <1>1, <1>2, <1>3, <1>4, <1>7, <2>3 DEF Ordered, PushFits, PushPublish, consumer
  <2> QED
    BY <2>4, <2>5, <2>6 DEF RingInv
<1>8. ASSUME MixBegin PROVE RingInv'
  <2>1. PICK k \in 0..Cap :
          /\ seenWrite' \in seenWrite..written
          /\ cr' = (retired + k) % Word
          /\ cn' \in 0..Cap
          /\ retired + k + cn' <= seenWrite'
          /\ cpc' \in {"publish", "copy"}
          /\ UNCHANGED <<read, retired, heard, producer, buf>>
    BY <1>8, MixBeginStep
  <2>2. cr' \in Positions
    BY <1>2, <1>4, <2>1, PositionsAreWords
  <2>3. TypeOK'
    BY <1>1, <1>2, <1>4, <2>1, <2>2 DEF TypeOK, producer
  <2>4. MixFits'
    BY <2>1 DEF MixFits, TakenAt
  <2>5. Sync' /\ PushFits'
    BY <1>3, <2>1 DEF Sync, PushFits, producer
  <2>6. Ordered'
    BY <1>2, <1>3, <1>4, <2>1 DEF Ordered, producer
  <2> QED
    BY <2>3, <2>4, <2>5, <2>6 DEF RingInv
<1>9. ASSUME MixCopy PROVE RingInv'
  <2>1. PICK k \in 0..Cap : TakenAt(k)
    BY <1>3, <1>9 DEF MixCopy, MixFits
  <2>2. cn <= Cap
    BY <1>1, <1>2, <1>3, <1>4, <1>9, <2>1 DEF Ordered, TakenAt, MixCopy
  <2>3. heard' \in Seq(Nat)
    <3>1. \A i \in 1..cn : buf[SlotAt(cr, i - 1)] \in Nat
      <4> SUFFICES ASSUME NEW i \in 1..cn PROVE buf[SlotAt(cr, i - 1)] \in Nat
        OBVIOUS
      <4>1. i - 1 \in 0..(Cap - 1)
        BY <1>1, <1>4, <2>2
      <4>2. SlotAt(cr, i - 1) \in Slots
        BY <1>1, <4>1, SlotAtType
      <4> QED
        BY <1>1, <4>2
    <3> QED
      BY <1>1, <1>9, <3>1 DEF MixCopy
  <2>4. TypeOK'
    BY <1>1, <1>2, <1>9, <2>3 DEF TypeOK, MixCopy, producer
  <2>5. Sync' /\ Ordered' /\ PushFits'
    BY <1>3, <1>9 DEF Sync, Ordered, PushFits, MixCopy, producer
  <2>6. MixFits'
    <3>1. cpc # "idle" /\ cpc # "clear" /\ cpc' # "clear"
      BY <1>9 DEF MixCopy
    <3>2. \A k1 : TakenAt(k1) => TakenAt(k1)'
      BY <1>9, <3>1 DEF TakenAt, MixCopy
    <3> QED
      BY <2>1, <3>2 DEF MixFits
  <2> QED
    BY <2>4, <2>5, <2>6 DEF RingInv
<1>10. ASSUME MixPublish PROVE RingInv'
  <2>1. read' = retired' % Word /\ retired' \in retired..seenWrite
    BY <1>10, MixPublishStep
  <2>2. retired' \in Nat /\ retired' % Word \in Positions
    BY <1>2, <2>1, PositionsAreWords
  <2>3. TypeOK'
    BY <1>1, <1>2, <1>10, <2>1, <2>2 DEF TypeOK, MixPublish, producer
  <2>4. Sync' /\ PushFits' /\ MixFits'
    BY <1>3, <1>10, <2>1 DEF Sync, PushFits, MixFits, MixPublish, producer
  <2>5. Ordered'
    BY <1>2, <1>3, <1>4, <1>10, <2>1 DEF Ordered, MixPublish, producer
  <2> QED
    BY <2>3, <2>4, <2>5 DEF RingInv
<1>11. ASSUME ClearLoad PROVE RingInv'
  <2>1. PICK loaded \in seenWrite..written : seenWrite' = loaded /\ cr' = loaded % Word
    BY <1>11 DEF ClearLoad
  <2>2. loaded \in Nat /\ loaded % Word \in Positions
    BY <1>2, <2>1, PositionsAreWords
  <2>3. TypeOK'
    BY <1>1, <1>2, <1>11, <2>1, <2>2 DEF TypeOK, ClearLoad, producer
  <2>4. Sync' /\ PushFits'
    BY <1>3, <1>11 DEF Sync, PushFits, ClearLoad, producer
  <2>5. Ordered'
    BY <1>2, <1>3, <1>4, <1>11, <2>1 DEF Ordered, ClearLoad, producer
  <2>6. MixFits'
    <3>1. PICK k \in Int : k = loaded - retired
      BY <1>2, <2>2
    <3>2. k \in 0..Cap /\ retired + k = loaded
      BY <1>2, <1>3, <1>4, <2>1, <2>2, <3>1 DEF Ordered
    <3>3. cr' = (retired' + k) % Word
      BY <1>11, <2>1, <3>2 DEF ClearLoad
    <3>4. retired' + k + 0 <= seenWrite'
      BY <1>2, <1>11, <2>1, <2>2, <3>2 DEF ClearLoad
    <3>5. TakenAt(k)'
      BY <1>11, <3>3, <3>4 DEF TakenAt, ClearLoad
    <3> QED
      BY <3>2, <3>5 DEF MixFits
  <2> QED
    BY <2>3, <2>4, <2>5, <2>6 DEF RingInv
<1>12. ASSUME ClearStore PROVE RingInv'
  <2>1. read' = retired' % Word /\ retired' \in retired..seenWrite
    BY <1>12, ClearStoreStep
  <2>2. retired' \in Nat /\ retired' % Word \in Positions
    BY <1>2, <2>1, PositionsAreWords
  <2>3. TypeOK'
    BY <1>1, <1>2, <1>12, <2>1, <2>2 DEF TypeOK, ClearStore, producer
  <2>4. Sync' /\ PushFits' /\ MixFits'
    BY <1>3, <1>12, <2>1 DEF Sync, PushFits, MixFits, ClearStore, producer
  <2>5. Ordered'
    BY <1>2, <1>3, <1>4, <1>12, <2>1 DEF Ordered, ClearStore, producer
  <2> QED
    BY <2>3, <2>4, <2>5 DEF RingInv
<1>13. ASSUME UNCHANGED vars PROVE RingInv'
  BY <1>13 DEF RingInv, TypeOK, Sync, Ordered, PushFits, MixFits, TakenAt, vars, producer, consumer
<1> QED
  BY <1>5, <1>6, <1>7, <1>8, <1>9, <1>10, <1>11, <1>12, <1>13 DEF Next, Produce, Consume

LEMMA RingInvAlways == Spec => []RingInv
BY RingInvInit, RingInvNext, PTL DEF Spec

-----------------------------------------------------------------------------
\* Samples by position, and the blocks taken from them.

\* A sample for each position.
Stream(s) == s \in [Nat -> Nat]

\* The samples s has at the positions from f up to w.
Window(s, f, w) == [i \in 1..(w - f) |-> s[f + i - 1]]

\* What is left of q after d elements, and c of these.
Part(q, d, c) == SubSeq(q, d + 1, d + c)
Rest(q, d) == SubSeq(q, d + 1, Len(q))

\* The first m samples captured from index o on.
Run(o, m) == [i \in 1..m |-> o + i - 1]
RunAt(s, w, o, m) == \A i \in 0..(m - 1) : s[w + i] = o + i

\* A window is a sequence as long as the distance it spans.
LEMMA WindowIsSeq ==
  ASSUME NEW s, Stream(s), NEW f \in Nat, NEW w \in Nat, f <= w
  PROVE  Window(s, f, w) \in Seq(Nat) /\ Len(Window(s, f, w)) = w - f
BY DEF Window, Stream

\* Two streams that agree on a window's positions have the same window.
LEMMA WindowSame ==
  ASSUME NEW s, Stream(s), NEW t, Stream(t), NEW f \in Nat, NEW w \in Nat,
         \A p \in f..(w - 1) : t[p] = s[p]
  PROVE  Window(t, f, w) = Window(s, f, w)
BY DEF Window, Stream

\* A part of a window is a window.
LEMMA WindowMiddle ==
  ASSUME NEW s, Stream(s), NEW f \in Nat, NEW w \in Nat, NEW d \in Nat, NEW c \in Nat,
         f + d + c <= w
  PROVE  Part(Window(s, f, w), d, c) = Window(s, f + d, f + d + c)
<1> DEFINE q == Window(s, f, w)
           r == Window(s, f + d, f + d + c)
           u == SubSeq(q, d + 1, d + c)
<1>1. f <= w /\ d + c <= w - f OBVIOUS
<1>2. q \in Seq(Nat) /\ Len(q) = w - f BY <1>1, WindowIsSeq
<1>3. \A i \in 1..(w - f) : q[i] = s[f + i - 1] BY DEF Window
<1> HIDE DEF q
<1>4. \A i \in (d + 1)..(d + c) : q[i] \in Nat BY <1>1, <1>3 DEF Stream
<1>5. /\ u \in Seq(Nat)
      /\ Len(u) = IF d + 1 <= d + c THEN d + c - (d + 1) + 1 ELSE 0
      /\ \A i \in 1..(d + c - (d + 1) + 1) : u[i] = q[d + 1 + i - 1]
  BY <1>4, SubSeqProperties
<1> HIDE DEF u
<1>6. Len(u) = c
  <2>1. d + c - (d + 1) + 1 = c /\ (d + 1 <= d + c <=> c > 0) OBVIOUS
  <2>2. QED BY <1>5, <2>1
<1>7. \A i \in 1..c : u[i] = s[f + d + i - 1]
  <2> SUFFICES ASSUME NEW i \in 1..c PROVE u[i] = s[f + d + i - 1]
    OBVIOUS
  <2>1. u[i] = q[d + i] BY <1>5
  <2>2. q[d + i] = s[f + (d + i) - 1] BY <1>1, <1>3
  <2>3. QED BY <2>1, <2>2
<1>8. r \in Seq(Nat) /\ Len(r) = c /\ \A i \in 1..c : r[i] = s[f + d + i - 1]
  <2>1. PICK g \in Nat, v \in Nat : g = f + d /\ v = f + d + c OBVIOUS
  <2>2. g <= v /\ v - g = c BY <2>1
  <2>3. Window(s, g, v) \in Seq(Nat) /\ Len(Window(s, g, v)) = c BY <2>2, WindowIsSeq
  <2>4. \A i \in 1..c : Window(s, g, v)[i] = s[g + i - 1] BY <2>2 DEF Window
  <2>5. QED BY <2>1, <2>3, <2>4
<1> HIDE DEF r
<1>9. u = r BY <1>5, <1>6, <1>7, <1>8, SeqEqual
<1>10. QED BY <1>9 DEF Part, u, q, r

\* What is left of a window after its first samples is a window.
LEMMA WindowRest ==
  ASSUME NEW s, Stream(s), NEW f \in Nat, NEW w \in Nat, NEW d \in Nat, f + d <= w
  PROVE  Rest(Window(s, f, w), d) = Window(s, f + d, w)
<1>1. PICK c \in Nat : c = w - (f + d) OBVIOUS
<1>2. f <= w /\ d + c = w - f /\ f + d + c = w BY <1>1
<1>3. Len(Window(s, f, w)) = d + c BY <1>2, WindowIsSeq
<1>4. Part(Window(s, f, w), d, c) = Window(s, f + d, f + d + c)
  <2>1. f + d + c <= w BY <1>2
  <2>2. QED BY <1>1, <2>1, WindowMiddle
<1>5. QED BY <1>2, <1>3, <1>4 DEF Part, Rest

\* A window grows by the run of samples that follows it.
LEMMA WindowExtended ==
  ASSUME NEW s, Stream(s), NEW f \in Nat, NEW w \in Nat, f <= w,
         NEW m \in Nat, NEW o \in Nat, RunAt(s, w, o, m)
  PROVE  Window(s, f, w + m) = Window(s, f, w) \o Run(o, m)
<1> DEFINE q == Window(s, f, w)
           r == [i \in 1..m |-> o + i - 1]
           x == Window(s, f, w + m)
           y == q \o r
<1>1. q \in Seq(Nat) /\ Len(q) = w - f BY WindowIsSeq
<1>2. r \in Seq(Nat) /\ Len(r) = m /\ \A j \in 1..m : r[j] = o + j - 1 OBVIOUS
<1>3. x \in Seq(Nat) /\ Len(x) = (w - f) + m
  <2>1. w + m \in Nat /\ f <= w + m /\ (w + m) - f = (w - f) + m OBVIOUS
  <2>2. QED BY <2>1, WindowIsSeq
<1>4. \A i \in 1..((w - f) + m) : x[i] = s[f + i - 1] BY DEF Window
<1>5. \A i \in 1..(w - f) : q[i] = s[f + i - 1] BY DEF Window
<1> HIDE DEF q, r, x
<1>6. /\ y \in Seq(Nat) /\ Len(y) = (w - f) + m
      /\ \A i \in 1..((w - f) + m) : y[i] = IF i <= w - f THEN q[i] ELSE r[i - (w - f)]
  <2>1. /\ y \in Seq(Nat) /\ Len(y) = Len(q) + Len(r)
        /\ \A i \in 1..(Len(q) + Len(r)) : y[i] = IF i <= Len(q) THEN q[i] ELSE r[i - Len(q)]
    BY <1>1, <1>2, ConcatProperties
  <2> HIDE DEF y
  <2>2. QED BY <1>1, <1>2, <2>1
<1> HIDE DEF y
<1>7. ASSUME NEW i \in 1..((w - f) + m) PROVE x[i] = y[i]
  <2>1. CASE i <= w - f BY <1>4, <1>5, <1>6, <2>1
  <2>2. CASE i > w - f
    <3>1. PICK j \in 1..m : j = i - (w - f) BY <2>2
    <3>2. y[i] = o + j - 1 BY <1>2, <1>6, <2>2, <3>1
    <3>3. j - 1 \in 0..(m - 1) /\ f + i - 1 = w + (j - 1) BY <3>1
    <3>4. s[w + (j - 1)] = o + (j - 1) BY <3>3 DEF RunAt
    <3>5. QED BY <1>4, <3>2, <3>3, <3>4
  <2>3. QED BY <2>1, <2>2
<1>8. x = y BY <1>3, <1>6, <1>7, SeqEqual
<1>9. QED BY <1>8 DEF x, y, q, r, Run

-----------------------------------------------------------------------------
\* What lies in the ring: samples in capture order.

\* The slots, unrolled: what a position's slot holds.
Unrolled == [p \in Nat |-> buf[p % Cap]]

\* What push has accepted, of the block it was called with.
Accepted ==
    ppc # "idle" => chunk \in Chunks /\ pn <= chunk /\ offered + chunk <= MaxOffered

\* What it has copied but not published.
Copied == ppc = "publish" => \A i \in 0..(pn - 1) : Unrolled[written + i] = offered + i

\* The samples in the ring are in capture order, and all captured before the block
\* that is being pushed.
Ascending == \A p, q \in retired..(written - 1) : p < q => Unrolled[p] < Unrolled[q]
Captured == \A p \in retired..(written - 1) : Unrolled[p] < offered

\* What mix_mono_into is about to take: one block, after skipping only what lay
\* beyond the backlog.
Takes ==
    cpc = "copy" =>
        /\ cn > 0 /\ \E f \in Frames : cn <= f
        /\ \E k \in 0..Cap : TakenAt(k) /\ (k > 0 => retired + k + Backlog <= seenWrite)

\* What was mixed last came before all that is left.
HeardBefore ==
    heard # << >> =>
        /\ heard[Len(heard)] < offered
        /\ \A p \in Front..(written - 1) : heard[Len(heard)] < Unrolled[p]

ContentInv == Accepted /\ Copied /\ Ascending /\ Captured /\ Takes /\ HeardBefore

\* The numbers of a state, and how they lie.
LEMMA Numbers ==
  ASSUME RingInv
  PROVE  /\ retired \in Nat /\ written \in Nat /\ seenRead \in Nat /\ seenWrite \in Nat
         /\ offered \in Nat /\ chunk \in Nat /\ pn \in Nat /\ cn \in Nat /\ Cap \in Nat \ {0}
         /\ seenRead <= retired /\ retired <= seenWrite /\ seenWrite <= written
         /\ written <= seenRead + Cap
BY CapAssumption DEF RingInv, TypeOK, Ordered

\* Every position has a slot.
LEMMA PositionSlot ==
  ASSUME NEW p \in Nat
  PROVE  p % Cap \in Slots
<1>1. PICK q \in Int : Remainder(Cap, p, q, p % Cap) BY CapRemainder
<1>2. QED BY <1>1 DEF Remainder, Slots

\* The slots hold a sample for each position.
LEMMA UnrolledStream == RingInv => Stream(Unrolled)
<1> SUFFICES ASSUME RingInv PROVE Stream(Unrolled) OBVIOUS
<1>1. buf \in [Slots -> Nat] BY DEF RingInv, TypeOK
<1>2. ASSUME NEW p \in Nat PROVE buf[p % Cap] \in Nat BY <1>1, PositionSlot
<1>3. QED BY <1>2 DEF Stream, Unrolled

\* The position a block being published ends at.
LEMMA FrontArithmetic ==
  ASSUME NEW r \in Nat, NEW k \in Nat, NEW c \in Nat, k + c <= Cap
  PROVE  r + WrapSub(WrapAdd((r + k) % Word, c), r % Word) = r + k + c
<1>1. PICK a \in Nat, b \in Nat : a = r + k /\ b = r + k + c OBVIOUS
<1>2. WrapAdd(a % Word, c) = b % Word
  <2>1. a + c = b BY <1>1
  <2>2. QED BY <2>1, WrapAddPosition
<1>3. WrapSub(b % Word, r % Word) = b - r
  <2>1. r <= b /\ b - r < Word BY <1>1, WordMultiple
  <2>2. QED BY <2>1, WrapSubPosition
<1>4. r + (b - r) = b BY <1>1
<1>5. QED BY <1>1, <1>2, <1>3, <1>4

\* While a block is being published, the front lies behind it.
LEMMA FrontTaken ==
  ASSUME RingInv, cpc = "publish", NEW k \in 0..Cap, TakenAt(k)
  PROVE  Front = retired + k + cn /\ retired + k + cn <= seenWrite
<1>1. cr = (retired + k) % Word /\ read = retired % Word /\ retired + k + cn <= seenWrite
  BY DEF TakenAt, RingInv, Sync
<1>2. k \in Nat /\ k + cn <= Cap BY <1>1, Numbers
<1>3. retired + WrapSub(WrapAdd((retired + k) % Word, cn), retired % Word) = retired + k + cn
  BY <1>2, Numbers, FrontArithmetic
<1>4. QED BY <1>1, <1>3 DEF Front

\* The front lies between read and the write the consumer loaded.
LEMMA FrontBounds ==
  ASSUME RingInv
  PROVE  Front \in Nat /\ retired <= Front /\ Front <= seenWrite
<1>1. CASE cpc = "publish"
  <2>1. PICK k \in 0..Cap : TakenAt(k) BY <1>1 DEF RingInv, MixFits
  <2>2. Front = retired + k + cn /\ retired + k + cn <= seenWrite BY <1>1, <2>1, FrontTaken
  <2>3. QED BY <2>1, <2>2, Numbers
<1>2. CASE cpc # "publish" BY <1>2, Numbers DEF Front
<1>3. QED BY <1>1, <1>2

\* The copy reaches the positions after the ones in the ring, and no other.
LEMMA CopyHits ==
  ASSUME RingInv, ppc = "copy", NEW i \in 0..(pn - 1)
  PROVE  /\ SlotAt(write, i) = (written + i) % Cap
         /\ \A p \in retired..(written + pn - 1) : p # written + i => p % Cap # (written + i) % Cap
<1>1. pn \in 1..Cap /\ written + pn <= seenRead + Cap BY DEF RingInv, PushFits
<1>2. i \in 0..(Cap - 1) /\ written \in Nat BY <1>1, Numbers
<1>3. SlotAt(written % Word, i) = (written + i) % Cap BY <1>2, SlotAtPosition
<1>4. write = written % Word BY DEF RingInv, Sync
<1>5. ASSUME NEW p \in retired..(written + pn - 1), p # written + i
      PROVE  p % Cap # (written + i) % Cap
  <2>1. PICK b \in Int : b = written + i BY <1>2
  <2>2. CASE p < b
    <3>1. p \in Int /\ b - p < Cap BY <1>1, <2>1, Numbers
    <3>2. QED BY <2>1, <2>2, <3>1, SlotsDistinct
  <2>3. CASE b < p
    <3>1. p \in Int /\ p - b < Cap BY <1>1, <1>2, <2>1, Numbers
    <3>2. QED BY <2>1, <2>3, <3>1, SlotsDistinct
  <2>4. p < b \/ b < p BY <1>5, <2>1, Numbers
  <2>5. QED BY <2>2, <2>3, <2>4
<1>6. QED BY <1>3, <1>4, <1>5

\* The copy leaves the samples in the ring alone.
LEMMA CopyKeeps ==
  ASSUME RingInv, PushCopy, NEW p \in retired..(written - 1)
  PROVE  Unrolled'[p] = Unrolled[p]
<1>1. p \in Nat /\ p % Cap \in Slots BY Numbers, PositionSlot
<1>2. p % Cap \notin Touched(write, pn)
  <2> SUFFICES ASSUME NEW i \in 0..(pn - 1) PROVE SlotAt(write, i) # p % Cap
    BY DEF Touched
  <2>1. p \in retired..(written + pn - 1) /\ p # written + i BY Numbers
  <2>2. ppc = "copy" BY DEF PushCopy
  <2>3. QED BY <2>1, <2>2, CopyHits
<1>3. buf'[p % Cap] = buf[p % Cap] BY <1>1, <1>2 DEF PushCopy
<1>4. QED BY <1>1, <1>3 DEF Unrolled

\* The copy puts the block's samples at the positions from write on.
LEMMA CopyFills ==
  ASSUME RingInv, PushCopy, NEW i \in 0..(pn - 1)
  PROVE  Unrolled'[written + i] = offered + i
<1>1. written + i \in Nat BY Numbers
<1>2. (written + i) % Cap \in Slots BY <1>1, PositionSlot
<1>3. ppc = "copy" BY DEF PushCopy
<1>4. SlotAt(write, i) = (written + i) % Cap BY <1>3, CopyHits
<1> DEFINE j == CHOOSE l \in 0..(pn - 1) : SlotAt(write, l) = (written + i) % Cap
<1>5. j \in 0..(pn - 1) /\ SlotAt(write, j) = (written + i) % Cap BY <1>4
<1> HIDE DEF j
<1>6. j = i
  <2>1. (written + j) % Cap = (written + i) % Cap BY <1>3, <1>5, CopyHits
  <2>2. written + j \in retired..(written + pn - 1) BY <1>5, Numbers
  <2>3. written + j = written + i BY <1>3, <2>1, <2>2, CopyHits
  <2>4. QED BY <1>5, <2>3, Numbers
<1>7. (written + i) % Cap \in Touched(write, pn) BY <1>4 DEF Touched
<1>8. buf'[(written + i) % Cap] = offered + j BY <1>2, <1>7 DEF PushCopy, j
<1>9. QED BY <1>1, <1>6, <1>8 DEF Unrolled

\* At first the ring is empty.
LEMMA InitContent == Init => ContentInv
<1> SUFFICES ASSUME Init PROVE ContentInv OBVIOUS
<1>1. retired..(written - 1) = {} BY DEF Init
<1>2. QED BY <1>1 DEF Init, ContentInv, Accepted, Copied, Ascending, Captured, Takes, HeardBefore

\* What push decides: how much of its block it accepts.
LEMMA PushBeginAccepts ==
  ASSUME RingInv, PushBegin
  PROVE  \E len \in Chunks :
            /\ offered + len <= MaxOffered /\ chunk' = len /\ pn' <= len
            /\ \/ pn' = 0 /\ ppc' = "idle" /\ offered' = offered + len
               \/ ppc' = "copy" /\ offered' = offered
<1>1. PICK len \in Chunks, loaded \in seenRead..retired :
        LET free == SatSub(Cap, WrapSub(write, loaded % Word))
            n == Least(len, free)
        IN  /\ offered + len <= MaxOffered /\ chunk' = len /\ pn' = n
            /\ IF n = 0 THEN ppc' = "idle" /\ offered' = offered + len
               ELSE ppc' = "copy" /\ UNCHANGED offered
  BY DEF PushBegin
<1>2. pn' \in 0..Cap BY PushBeginStep
<1> DEFINE free == SatSub(Cap, WrapSub(write, loaded % Word))
<1>3. pn' <= len
  <2>1. pn' = Least(len, free) BY <1>1
  <2> HIDE DEF free
  <2>2. pn' = len \/ (pn' = free /\ ~(len <= free)) BY <2>1 DEF Least
  <2>3. len \in Nat /\ pn' \in Nat BY <1>2, BlocksAssumption, CapAssumption
  <2>4. QED BY <2>2, <2>3
<1>4. QED BY <1>1, <1>3

\* Nothing that ContentInv speaks of but the shrinking of the ring's front changes.
LEMMA FrontMovesOn ==
  ASSUME RingInv, ContentInv, UNCHANGED <<ppc, chunk, pn, offered, written, buf, heard>>,
         retired' \in Nat, retired <= retired', Front' \in Nat, Front <= Front', Takes'
  PROVE  ContentInv'
<1> USE DEF ContentInv
<1>1. Unrolled' = Unrolled BY DEF Unrolled
<1>2. \A p \in retired'..(written' - 1) : p \in retired..(written - 1) BY Numbers
<1>3. \A p \in Front'..(written' - 1) : p \in Front..(written - 1) BY Numbers, FrontBounds
<1>4. Accepted' /\ Copied' BY <1>1 DEF Accepted, Copied
<1>5. Ascending' /\ Captured' BY <1>1, <1>2 DEF Ascending, Captured
<1>6. HeardBefore' BY <1>1, <1>3 DEF HeardBefore
<1>7. QED BY <1>4, <1>5, <1>6

\* The decision of a push changes only what is announced.
LEMMA PushBeginContent ==
  ASSUME RingInv, ContentInv, PushBegin
  PROVE  ContentInv'
<1> USE DEF ContentInv
<1>1. PICK len \in Chunks :
        /\ offered + len <= MaxOffered /\ chunk' = len /\ pn' <= len
        /\ \/ pn' = 0 /\ ppc' = "idle" /\ offered' = offered + len
           \/ ppc' = "copy" /\ offered' = offered
  BY PushBeginAccepts
<1>2. UNCHANGED <<written, consumer, buf>> BY DEF PushBegin
<1>3. offered' \in Nat /\ offered <= offered' BY <1>1, BlocksAssumption, Numbers
<1>4. Unrolled' = Unrolled /\ Front' = Front BY <1>2 DEF Unrolled, Front, consumer
<1>5. Accepted' /\ Copied' BY <1>1 DEF Accepted, Copied
<1>6. Ascending' BY <1>2, <1>4 DEF Ascending, consumer
<1>7. Captured'
  <2>1. ASSUME NEW p \in retired..(written - 1) PROVE Unrolled[p] < offered'
    <3>1. Unrolled[p] \in Nat /\ Unrolled[p] < offered
      BY Numbers, UnrolledStream DEF Captured, Stream
    <3>2. QED BY <1>3, <3>1, Numbers
  <2>2. QED BY <1>2, <1>4, <2>1 DEF Captured, consumer
<1>8. Takes' BY <1>2 DEF Takes, TakenAt, consumer
<1>9. HeardBefore'
  <2> SUFFICES ASSUME heard # << >>
               PROVE  /\ heard[Len(heard)] < offered'
                      /\ \A p \in Front..(written - 1) : heard[Len(heard)] < Unrolled[p]
    BY <1>2, <1>4 DEF HeardBefore, consumer
  <2>1. heard \in Seq(Nat) BY DEF RingInv, TypeOK
  <2>2. heard[Len(heard)] \in Nat BY <2>1
  <2>3. QED BY <1>3, <2>2, Numbers DEF HeardBefore
<1>10. QED BY <1>5, <1>6, <1>7, <1>8, <1>9

\* The copy prepares what the publication of write will add.
LEMMA PushCopyContent ==
  ASSUME RingInv, ContentInv, PushCopy
  PROVE  ContentInv'
<1> USE DEF ContentInv
<1>1. UNCHANGED <<chunk, pn, offered, written, consumer>> /\ ppc = "copy" /\ ppc' = "publish"
  BY DEF PushCopy
<1>2. Front' = Front BY <1>1 DEF Front, consumer
<1>3. Accepted' BY <1>1 DEF Accepted
<1>4. Copied' BY <1>1, CopyFills DEF Copied
<1>5. Ascending' /\ Captured' BY <1>1, CopyKeeps DEF Ascending, Captured, consumer
<1>6. Takes' BY <1>1 DEF Takes, TakenAt, consumer
<1>7. HeardBefore'
  <2>1. \A p \in Front..(written - 1) : p \in retired..(written - 1) BY Numbers, FrontBounds
  <2>2. QED BY <1>1, <1>2, <2>1, CopyKeeps DEF HeardBefore, consumer
<1>8. QED BY <1>3, <1>4, <1>5, <1>6, <1>7

\* The samples that become visible follow all that is there.
LEMMA PushPublishContent ==
  ASSUME RingInv, ContentInv, PushPublish
  PROVE  ContentInv'
<1> USE DEF ContentInv
<1>1. /\ UNCHANGED <<pn, consumer, buf>> /\ ppc = "publish" /\ ppc' = "idle"
      /\ written' = written + pn /\ offered' = offered + chunk
  BY DEF PushPublish
<1>2. Unrolled' = Unrolled /\ Front' = Front BY <1>1 DEF Unrolled, Front, consumer
<1>3. pn <= chunk /\ \A i \in 0..(pn - 1) : Unrolled[written + i] = offered + i
  BY <1>1 DEF Accepted, Copied
<1>4. ASSUME NEW p \in retired..(written + pn - 1), ~(p \in retired..(written - 1))
      PROVE  p >= written /\ Unrolled[p] = offered + (p - written) /\ p - written < chunk
  <2>1. PICK i \in 0..(pn - 1) : i = p - written /\ p = written + i BY <1>4, Numbers
  <2>2. QED BY <1>3, <2>1, Numbers
<1>5. ASSUME NEW p \in retired..(written - 1)
      PROVE  Unrolled[p] \in Nat /\ Unrolled[p] < offered
  BY Numbers, UnrolledStream DEF Captured, Stream
<1>6. Accepted' /\ Copied' BY <1>1 DEF Accepted, Copied
<1>7. Ascending'
  <2> SUFFICES ASSUME NEW p \in retired..(written + pn - 1), NEW q \in retired..(written + pn - 1),
                      p < q
               PROVE  Unrolled[p] < Unrolled[q]
    BY <1>1, <1>2, Numbers DEF Ascending, consumer
  <2>1. CASE q \in retired..(written - 1)
    <3>1. p \in retired..(written - 1) BY <2>1, Numbers
    <3>2. QED BY <2>1, <3>1 DEF Ascending
  <2>2. CASE ~(q \in retired..(written - 1))
    <3>1. q >= written /\ Unrolled[q] = offered + (q - written) BY <1>4, <2>2
    <3>2. CASE p \in retired..(written - 1) BY <1>5, <3>1, <3>2, Numbers
    <3>3. CASE ~(p \in retired..(written - 1))
      <4>1. Unrolled[p] = offered + (p - written) BY <1>4, <3>3
      <4>2. QED BY <3>1, <4>1, Numbers
    <3>4. QED BY <3>2, <3>3
  <2>3. QED BY <2>1, <2>2
<1>8. Captured'
  <2> SUFFICES ASSUME NEW p \in retired..(written + pn - 1) PROVE Unrolled[p] < offered + chunk
    BY <1>1, <1>2, Numbers DEF Captured, consumer
  <2>1. CASE p \in retired..(written - 1) BY <1>5, <2>1, Numbers
  <2>2. CASE ~(p \in retired..(written - 1)) BY <1>4, <2>2, Numbers
  <2>3. QED BY <2>1, <2>2
<1>9. Takes' BY <1>1 DEF Takes, TakenAt, consumer
<1>10. HeardBefore'
  <2> SUFFICES ASSUME heard # << >>
               PROVE  /\ heard[Len(heard)] < offered + chunk
                      /\ \A p \in Front..(written + pn - 1) : heard[Len(heard)] < Unrolled[p]
    BY <1>1, <1>2, Numbers DEF HeardBefore, consumer
  <2>1. heard \in Seq(Nat) BY DEF RingInv, TypeOK
  <2>2. PICK h \in Nat : h = heard[Len(heard)] BY <2>1
  <2>3. h < offered /\ \A p \in Front..(written - 1) : h < Unrolled[p] BY <2>2 DEF HeardBefore
  <2>4. ASSUME NEW p \in Front..(written + pn - 1) PROVE h < Unrolled[p]
    <3>1. p \in retired..(written + pn - 1) BY FrontBounds, Numbers
    <3>2. CASE p \in retired..(written - 1)
      <4>1. p \in Front..(written - 1) BY <3>2, FrontBounds, Numbers
      <4>2. QED BY <2>3, <4>1
    <3>3. CASE ~(p \in retired..(written - 1))
      <4>1. p >= written /\ Unrolled[p] = offered + (p - written) BY <1>4, <3>1, <3>3
      <4>2. QED BY <2>3, <4>1, Numbers
    <3>4. QED BY <3>2, <3>3
  <2>5. QED BY <2>2, <2>3, <2>4, Numbers
<1>11. QED BY <1>6, <1>7, <1>8, <1>9, <1>10

\* The block mix_segment copies: the samples at the positions from r on.
LEMMA BlockTaken ==
  ASSUME RingInv, cpc = "copy", NEW k \in 0..Cap, TakenAt(k), NEW i \in 1..cn
  PROVE  /\ buf[SlotAt(cr, i - 1)] = Unrolled[retired + k + i - 1]
         /\ retired + k + i - 1 \in retired..(written - 1)
<1>1. cr = (retired + k) % Word /\ retired + k + cn <= seenWrite BY DEF TakenAt
<1>2. PICK a \in Nat, j \in Nat : a = retired + k /\ j = i - 1 BY Numbers
<1>3. j \in 0..(Cap - 1) /\ a + j \in Nat /\ a + j = retired + k + i - 1 BY <1>1, <1>2, Numbers
<1>4. SlotAt(a % Word, j) = (a + j) % Cap BY <1>2, <1>3, SlotAtPosition
<1>5. buf[SlotAt(cr, i - 1)] = Unrolled[a + j] BY <1>1, <1>2, <1>3, <1>4 DEF Unrolled
<1>6. retired + k + i - 1 \in retired..(written - 1) BY <1>1, Numbers
<1>7. QED BY <1>3, <1>5, <1>6

\* The block the host gets: the samples from the front on, after what is skipped.
LEMMA MixCopyHears ==
  ASSUME RingInv, ContentInv, MixCopy
  PROVE  \E k \in 0..Cap :
           /\ TakenAt(k) /\ (k > 0 => retired + k + Backlog <= seenWrite)
           /\ cn > 0 /\ \E f \in Frames : cn <= f
           /\ heard' \in Seq(Nat) /\ Len(heard') = cn
           /\ \A i \in 1..cn : heard'[i] = Unrolled[retired + k + i - 1]
           /\ Front = retired /\ Front' = retired + k + cn
           /\ retired + k + cn <= seenWrite
           /\ UNCHANGED <<producer, buf, retired>>
<1>1. cpc = "copy" /\ cpc' = "publish" /\ UNCHANGED <<read, cr, cn, retired, seenWrite, producer, buf>>
  BY DEF MixCopy
<1>2. PICK k \in 0..Cap : TakenAt(k) /\ (k > 0 => retired + k + Backlog <= seenWrite)
  BY <1>1 DEF ContentInv, Takes
<1>3. cn > 0 /\ \E f \in Frames : cn <= f BY <1>1 DEF ContentInv, Takes
<1>4. ASSUME NEW i \in 1..cn
      PROVE  buf[SlotAt(cr, i - 1)] = Unrolled[retired + k + i - 1]
             /\ buf[SlotAt(cr, i - 1)] \in Nat
  <2>1. buf[SlotAt(cr, i - 1)] = Unrolled[retired + k + i - 1]
        /\ retired + k + i - 1 \in retired..(written - 1)
    BY <1>1, <1>2, BlockTaken
  <2>2. QED BY <2>1, Numbers, UnrolledStream DEF Stream
<1>5. heard' = [i \in 1..cn |-> buf[SlotAt(cr, i - 1)]] BY DEF MixCopy
<1>6. heard' \in Seq(Nat) /\ Len(heard') = cn
      /\ \A i \in 1..cn : heard'[i] = Unrolled[retired + k + i - 1]
  <2> DEFINE e(i) == buf[SlotAt(cr, i - 1)]
  <2>1. \A i \in 1..cn : e(i) \in Nat /\ e(i) = Unrolled[retired + k + i - 1] BY <1>4
  <2>2. heard' = [i \in 1..cn |-> e(i)] /\ cn \in Nat BY <1>5, Numbers
  <2> HIDE DEF e
  <2>3. heard' \in Seq(Nat) /\ Len(heard') = cn /\ \A i \in 1..cn : heard'[i] = e(i)
    BY <2>1, <2>2
  <2>4. QED BY <2>1, <2>3
<1>7. cr = (retired + k) % Word /\ retired + k + cn <= seenWrite BY <1>1, <1>2 DEF TakenAt
<1>8. Front' = retired + k + cn
  <2>1. k \in Nat /\ k + cn <= Cap BY <1>7, Numbers
  <2>2. retired + WrapSub(WrapAdd((retired + k) % Word, cn), retired % Word) = retired + k + cn
    BY <2>1, Numbers, FrontArithmetic
  <2>3. read = retired % Word BY DEF RingInv, Sync
  <2>4. QED BY <1>1, <1>7, <2>2, <2>3 DEF Front
<1>9. Front = retired BY <1>1 DEF Front
<1>10. QED BY <1>1, <1>2, <1>3, <1>6, <1>7, <1>8, <1>9

\* What a mix decides to take begins and ends within the ring.
LEMMA MixBeginContent ==
  ASSUME RingInv, ContentInv, MixBegin
  PROVE  ContentInv' /\ Front' = Front
<1>1. PICK k \in 0..Cap :
        /\ seenWrite' \in seenWrite..written
        /\ cr' = (retired + k) % Word /\ cn' \in 0..Cap /\ retired + k + cn' <= seenWrite'
        /\ cpc' \in {"publish", "copy"}
        /\ cpc' = "publish" => k = 0 /\ cn' = 0
        /\ cpc' = "copy" => cn' > 0 /\ \E f \in Frames : cn' <= f
        /\ k > 0 => retired + k + Backlog <= seenWrite'
        /\ UNCHANGED <<read, retired, heard, producer, buf>>
  BY MixBeginStep
<1>2. Front = retired /\ retired \in Nat BY Numbers DEF MixBegin, Front
<1>3. Front' = retired
  <2>1. CASE cpc' = "publish"
    <3>1. retired + WrapSub(WrapAdd((retired + 0) % Word, 0), retired % Word) = retired + 0 + 0
      BY <1>2, CapAssumption, FrontArithmetic
    <3>2. read' = retired % Word /\ retired + 0 = retired BY <1>1, <1>2 DEF RingInv, Sync
    <3>3. QED BY <1>1, <1>2, <2>1, <3>1, <3>2 DEF Front
  <2>2. CASE cpc' # "publish" BY <1>1, <2>2 DEF Front
  <2>3. QED BY <2>1, <2>2
<1>4. Takes'
  <2> SUFFICES ASSUME cpc' = "copy" PROVE Takes' BY DEF Takes
  <2>1. TakenAt(k)' BY <1>1 DEF TakenAt
  <2>2. QED BY <1>1, <2>1 DEF Takes
<1>5. QED BY <1>1, <1>2, <1>3, <1>4, FrontMovesOn DEF producer

\* What was just mixed came before all that is left.
LEMMA MixCopyContent ==
  ASSUME RingInv, ContentInv, MixCopy
  PROVE  ContentInv'
<1>1. PICK k \in 0..Cap :
        /\ cn > 0 /\ heard' \in Seq(Nat) /\ Len(heard') = cn
        /\ \A i \in 1..cn : heard'[i] = Unrolled[retired + k + i - 1]
        /\ Front' = retired + k + cn /\ retired + k + cn <= seenWrite
        /\ UNCHANGED <<producer, buf, retired>>
  BY MixCopyHears
<1>2. Unrolled' = Unrolled BY <1>1 DEF Unrolled
<1>3. Accepted' /\ Copied' BY <1>1, <1>2 DEF ContentInv, Accepted, Copied, producer
<1>4. Ascending' /\ Captured' BY <1>1, <1>2 DEF ContentInv, Ascending, Captured, producer
<1>5. Takes' BY DEF MixCopy, Takes
<1>6. HeardBefore'
  <2>0. /\ k \in Nat /\ cn \in Nat /\ cn > 0 /\ retired \in Nat /\ written \in Nat /\ seenWrite \in Nat
        /\ retired + k + cn <= seenWrite /\ seenWrite <= written /\ Front' = retired + k + cn
    <3>1. Cap \in Nat BY Numbers
    <3>2. k \in Nat BY <3>1
    <3>3. QED BY <1>1, <3>2, Numbers
  <2>1. PICK l \in retired..(written - 1) : l = retired + k + cn - 1
    <3>1. retired + k + cn - 1 \in retired..(written - 1) BY <2>0
    <3>2. QED BY <3>1
  <2>2. heard'[Len(heard')] = Unrolled[l]
    <3>1. cn \in 1..cn BY <1>1, Numbers
    <3>2. QED BY <1>1, <2>1, <3>1
  <2>3. Unrolled[l] < offered BY DEF ContentInv, Captured
  <2>4. ASSUME NEW p \in Front'..(written - 1) PROVE Unrolled[l] < Unrolled[p]
    <3>1. p \in retired..(written - 1) /\ l < p
      <4>1. Front' = l + 1 /\ l \in Int /\ retired <= l BY <2>0, <2>1
      <4>2. QED BY <2>0, <4>1
    <3>2. QED BY <3>1 DEF ContentInv, Ascending
  <2>5. QED BY <1>1, <1>2, <2>2, <2>3, <2>4 DEF HeardBefore, producer
<1>7. QED BY <1>3, <1>4, <1>5, <1>6 DEF ContentInv

\* The store of read leaves the front where the copy put it.
LEMMA MixPublishContent ==
  ASSUME RingInv, ContentInv, MixPublish
  PROVE  ContentInv' /\ Front' = Front
<1>1. retired' = Front /\ Front' = retired' BY DEF MixPublish, Front
<1>2. Front \in Nat /\ retired <= Front BY FrontBounds
<1>3. Takes' BY DEF MixPublish, Takes
<1>4. QED BY <1>1, <1>2, <1>3, FrontMovesOn DEF MixPublish, producer

\* clear has decided, and discarded nothing yet.
LEMMA ClearLoadContent ==
  ASSUME RingInv, ContentInv, ClearLoad
  PROVE  ContentInv' /\ Front' = Front
<1>1. Front = retired /\ Front' = retired /\ retired \in Nat /\ retired' = retired
  BY Numbers DEF ClearLoad, Front
<1>2. Takes' BY DEF ClearLoad, Takes
<1>3. QED BY <1>1, <1>2, FrontMovesOn DEF ClearLoad, producer

\* What clear discards is at the front.
LEMMA ClearStoreContent ==
  ASSUME RingInv, ContentInv, ClearStore
  PROVE  ContentInv' /\ Front = retired /\ Front' = retired' /\ retired' \in retired..seenWrite
<1>1. Front = retired /\ Front' = retired' BY DEF ClearStore, Front
<1>2. retired' \in retired..seenWrite BY ClearStoreStep
<1>3. retired' \in Nat /\ retired <= retired' BY <1>2, Numbers
<1>4. Takes' BY DEF ClearStore, Takes
<1>5. QED BY <1>1, <1>2, <1>3, <1>4, FrontMovesOn DEF ClearStore, producer

LEMMA ContentStep == RingInv /\ ContentInv /\ [Next]_vars => ContentInv'
<1> SUFFICES ASSUME RingInv, ContentInv, [Next]_vars PROVE ContentInv' OBVIOUS
<1>1. CASE PushBegin BY <1>1, PushBeginContent
<1>2. CASE PushCopy BY <1>2, PushCopyContent
<1>3. CASE PushPublish BY <1>3, PushPublishContent
<1>4. CASE MixBegin BY <1>4, MixBeginContent
<1>5. CASE MixCopy BY <1>5, MixCopyContent
<1>6. CASE MixPublish BY <1>6, MixPublishContent
<1>7. CASE ClearLoad BY <1>7, ClearLoadContent
<1>8. CASE ClearStore BY <1>8, ClearStoreContent
<1>9. CASE UNCHANGED vars
  BY <1>9 DEF vars, producer, consumer, ContentInv, Accepted, Copied, Ascending, Captured, Takes,
              TakenAt, HeardBefore, Front, Unrolled
<1>10. QED BY <1>1, <1>2, <1>3, <1>4, <1>5, <1>6, <1>7, <1>8, <1>9 DEF Next, Produce, Consume

LEMMA ContentAlways == Spec => [](RingInv /\ ContentInv)
<1>1. Init => ContentInv BY InitContent
<1>2. RingInv /\ ContentInv /\ [Next]_vars => ContentInv' BY ContentStep
<1>3. Spec => []RingInv BY RingInvAlways
<1>4. QED BY <1>1, <1>2, <1>3, PTL DEF Spec

\* Only the copy changes what was mixed last.
LEMMA OthersKeepHeard ==
  ASSUME [Next]_vars, heard' # heard
  PROVE  MixCopy
BY DEF Next, Produce, Consume, PushBegin, PushCopy, PushPublish, MixBegin, MixPublish, ClearLoad,
       ClearStore, vars, producer, consumer

\* The block is in capture order and younger than the one before.
LEMMA MixCopyInOrder ==
  ASSUME RingInv, ContentInv, MixCopy
  PROVE  InOrder(heard') /\ (heard # << >> => heard[Len(heard)] < heard'[1])
<1>1. PICK k \in 0..Cap :
        /\ cn > 0 /\ heard' \in Seq(Nat) /\ Len(heard') = cn
        /\ \A i \in 1..cn : heard'[i] = Unrolled[retired + k + i - 1]
        /\ Front = retired /\ retired + k + cn <= seenWrite
  BY MixCopyHears
<1>2. /\ k \in Nat /\ cn \in Nat /\ cn > 0 /\ retired \in Nat /\ written \in Nat
      /\ seenWrite \in Nat /\ retired + k + cn <= seenWrite /\ seenWrite <= written
  <2>1. Cap \in Nat BY Numbers
  <2>2. k \in Nat BY <2>1
  <2>3. QED BY <1>1, <2>2, Numbers
<1>3. ASSUME NEW i \in 1..cn
      PROVE  retired + k + i - 1 \in retired..(written - 1)
  BY <1>2
<1>4. ASSUME NEW i \in 1..(Len(heard') - 1) PROVE heard'[i] < heard'[i + 1]
  <2>1. i \in 1..cn /\ i + 1 \in 1..cn BY <1>1, <1>2
  <2>2. retired + k + i - 1 < retired + k + (i + 1) - 1 BY <1>2, <2>1
  <2>3. Unrolled[retired + k + i - 1] < Unrolled[retired + k + (i + 1) - 1]
    BY <1>3, <2>1, <2>2 DEF ContentInv, Ascending
  <2>4. QED BY <1>1, <2>1, <2>3
<1>5. ASSUME heard # << >> PROVE heard[Len(heard)] < heard'[1]
  <2>1. 1 \in 1..cn BY <1>2
  <2>2. retired + k + 1 - 1 \in Front..(written - 1) BY <1>1, <1>3, <2>1
  <2>3. heard'[1] = Unrolled[retired + k + 1 - 1] BY <1>1, <2>1
  <2>4. QED BY <1>5, <2>2, <2>3 DEF ContentInv, HeardBefore
<1>6. QED BY <1>4, <1>5 DEF InOrder

-----------------------------------------------------------------------------
\* How old what is mixed can be.

\* While nothing has been dropped, each position holds the sample of its own index.
Lossless ==
    /\ written <= offered
    /\ offered = written => \A p \in retired..(written - 1) : Unrolled[p] = p

LEMMA LosslessInit == Init => Lossless
<1> SUFFICES ASSUME Init PROVE Lossless OBVIOUS
<1>1. retired..(written - 1) = {} BY DEF Init
<1>2. QED BY <1>1 DEF Init, Lossless

\* A step that only shrinks the ring, if anything.
LEMMA LosslessShrinks ==
  ASSUME RingInv, Lossless, UNCHANGED <<offered, written, buf>>,
         retired' \in Nat, retired <= retired'
  PROVE  Lossless'
<1>1. \A p \in retired'..(written - 1) : p \in retired..(written - 1) BY Numbers
<1>2. Unrolled' = Unrolled BY DEF Unrolled
<1>3. QED BY <1>1, <1>2 DEF Lossless

\* A push that accepts nothing has dropped something.
LEMMA PushBeginLossless ==
  ASSUME RingInv, Lossless, PushBegin
  PROVE  Lossless'
<1>1. PICK len \in Chunks : \/ offered' = offered + len
                           \/ offered' = offered
  BY PushBeginAccepts
<1>2. UNCHANGED <<written, consumer, buf>> BY DEF PushBegin
<1>3. Unrolled' = Unrolled /\ retired' = retired BY <1>2 DEF Unrolled, consumer
<1>4. written <= offered' /\ (offered' = written => offered = written)
  <2>1. len \in Nat /\ len > 0 BY BlocksAssumption
  <2>2. QED BY <1>1, <2>1, Numbers DEF Lossless
<1>5. QED BY <1>2, <1>3, <1>4 DEF Lossless

\* A block accepted entirely keeps the positions and the indices in step.
LEMMA PushPublishLossless ==
  ASSUME RingInv, ContentInv, Lossless, PushPublish
  PROVE  Lossless'
<1>1. /\ UNCHANGED <<consumer, buf>> /\ ppc = "publish"
      /\ written' = written + pn /\ offered' = offered + chunk
  BY DEF PushPublish
<1>2. Unrolled' = Unrolled /\ retired' = retired BY <1>1 DEF Unrolled, consumer
<1>3. pn <= chunk /\ \A i \in 0..(pn - 1) : Unrolled[written + i] = offered + i
  BY <1>1 DEF ContentInv, Accepted, Copied
<1>4. written' <= offered' BY <1>1, <1>3, Numbers DEF Lossless
<1>5. ASSUME offered' = written', NEW p \in retired..(written + pn - 1)
      PROVE  Unrolled[p] = p
  <2>1. offered = written BY <1>1, <1>3, <1>5, Numbers DEF Lossless
  <2>2. CASE p < written
    <3>1. p \in retired..(written - 1) BY <2>2, Numbers
    <3>2. QED BY <2>1, <3>1 DEF Lossless
  <2>3. CASE ~(p < written)
    <3>1. PICK i \in 0..(pn - 1) : i = p - written /\ written + i = p BY <2>3, Numbers
    <3>2. QED BY <1>3, <2>1, <3>1
  <2>4. QED BY <2>2, <2>3
<1>6. ASSUME offered' = written'
      PROVE  \A p \in retired'..(written' - 1) : Unrolled'[p] = p
  <2>1. \A p \in retired..(written + pn - 1) : Unrolled[p] = p BY <1>5, <1>6
  <2>2. retired' = retired /\ Unrolled' = Unrolled /\ written' = written + pn BY <1>1, <1>2
  <2>3. QED BY <2>1, <2>2, Numbers
<1>7. QED BY <1>4, <1>6 DEF Lossless

LEMMA LosslessStep == RingInv /\ ContentInv /\ Lossless /\ [Next]_vars => Lossless'
<1> SUFFICES ASSUME RingInv, ContentInv, Lossless, [Next]_vars PROVE Lossless' OBVIOUS
<1> USE Numbers
<1>1. CASE PushBegin BY <1>1, PushBeginLossless
<1>2. CASE PushCopy
  <2>1. UNCHANGED <<offered, written, consumer>> BY <1>2 DEF PushCopy
  <2>2. retired' = retired BY <2>1 DEF consumer
  <2>3. QED BY <1>2, <2>1, <2>2, CopyKeeps DEF Lossless
<1>3. CASE PushPublish BY <1>3, PushPublishLossless
<1>4. CASE MixBegin BY <1>4, LosslessShrinks DEF MixBegin, producer
<1>5. CASE MixCopy BY <1>5, LosslessShrinks DEF MixCopy, producer
<1>6. CASE MixPublish
  <2>1. retired' = Front BY <1>6 DEF MixPublish, Front
  <2>2. QED BY <1>6, <2>1, FrontBounds, LosslessShrinks DEF MixPublish, producer
<1>7. CASE ClearLoad BY <1>7, LosslessShrinks DEF ClearLoad, producer
<1>8. CASE ClearStore
  <2>1. retired' \in retired..seenWrite BY <1>8, ClearStoreStep
  <2>2. retired' \in Nat /\ retired <= retired' BY <2>1
  <2>3. QED BY <1>8, <2>2, LosslessShrinks DEF ClearStore, producer
<1>9. CASE UNCHANGED vars
  <2>1. UNCHANGED <<offered, written, buf>> /\ retired' = retired
    BY <1>9 DEF vars, producer, consumer
  <2>2. QED BY <2>1, LosslessShrinks
<1>10. QED BY <1>1, <1>2, <1>3, <1>4, <1>5, <1>6, <1>7, <1>8, <1>9 DEF Next, Produce, Consume

\* A block starts in mix_mono_into's loads and nowhere else.
LEMMA OnlyMixBeginStarts == [Next]_vars /\ StartsBlock => MixBegin
BY DEF StartsBlock, Next, Produce, Consume, PushBegin, PushCopy, PushPublish, MixCopy, MixPublish,
       ClearLoad, ClearStore, vars, producer, consumer

\* A block that is about to be mixed begins within the backlog.
LEMMA StartsWithinBacklog ==
  ASSUME RingInv, Lossless, MixBegin, StartsBlock, offered = written
  PROVE  AgeOfFirst <= Backlog
<1>1. PICK k \in 0..Cap :
        /\ cr' = (retired + k) % Word /\ retired + k + cn' <= seenWrite'
        /\ cpc' = "copy" => cn' > 0
        /\ cn' \in 0..Cap
        /\ seenWrite' <= retired + k + Backlog
  BY MixBeginStep
<1>2. cpc' = "copy" /\ seenWrite' = written BY DEF StartsBlock
<1>3. /\ k \in Nat /\ cn' \in Nat /\ retired \in Nat /\ written \in Nat /\ Backlog \in Nat
      /\ cn' > 0 /\ retired + k + cn' <= written /\ written <= retired + k + Backlog
  <2>1. Cap \in Nat BY Numbers
  <2>2. k \in Nat /\ cn' \in Nat /\ Backlog \in Nat BY <1>1, <2>1, BacklogAssumption
  <2>3. QED BY <1>1, <1>2, <2>2, Numbers
<1>4. PICK p \in retired..(written - 1) : p = retired + k
  <2>1. PICK c \in Nat : c = cn' BY <1>3
  <2>2. c > 0 /\ retired + k + c <= written BY <1>3, <2>1
  <2>3. retired + k \in retired..(written - 1) BY <1>3, <2>2
  <2>4. QED BY <2>3
<1>5. p \in Nat BY <1>3
<1>6. Slot(p % Word) = p % Cap BY <1>5, SlotPosition
<1>7. Unrolled[p] = p BY DEF Lossless
<1>8. buf[Slot(cr')] = p BY <1>1, <1>4, <1>5, <1>6, <1>7 DEF Unrolled
<1>9. written - p <= Backlog BY <1>3, <1>4
<1>10. QED BY <1>8, <1>9 DEF AgeOfFirst

-----------------------------------------------------------------------------
\* The queue the ring implements.

\* What the queue holds: the samples between the front and write.
LEMMA WaitingIs == RingInv => Waiting = Window(Unrolled, Front, written)
<1> SUFFICES ASSUME RingInv PROVE Waiting = Window(Unrolled, Front, written) OBVIOUS
<1>1. Front \in Nat /\ retired <= Front /\ Front <= written /\ written - Front <= Cap
  BY FrontBounds, Numbers
<1>2. ASSUME NEW i \in 1..(written - Front)
      PROVE  buf[SlotAt(Front % Word, i - 1)] = Unrolled[Front + i - 1]
  <2>1. PICK j \in 0..(Cap - 1) : j = i - 1 BY <1>1, <1>2, Numbers
  <2>2. Front + j \in Nat /\ Front + j = Front + i - 1 BY <1>1, <2>1
  <2>3. SlotAt(Front % Word, j) = (Front + j) % Cap BY <1>1, SlotAtPosition
  <2>4. QED BY <2>1, <2>2, <2>3 DEF Unrolled
<1> DEFINE e(i) == buf[SlotAt(Front % Word, i - 1)]
           g(i) == Unrolled[Front + i - 1]
<1>3. \A i \in 1..(written - Front) : e(i) = g(i) BY <1>2
<1>4. Waiting = [i \in 1..(written - Front) |-> e(i)] BY DEF Waiting
<1>5. Window(Unrolled, Front, written) = [i \in 1..(written - Front) |-> g(i)] BY DEF Window
<1> HIDE DEF e, g
<1>6. QED BY <1>3, <1>4, <1>5

\* The same after a step.
LEMMA WaitingNext == RingInv' => Waiting' = Window(Unrolled', Front', written')
<1>1. (RingInv => Waiting = Window(Unrolled, Front, written))' BY WaitingIs, PTL
<1>2. QED BY <1>1 DEF Window

\* How much the queue holds.
LEMMA WaitingLength ==
  ASSUME RingInv
  PROVE  Waiting \in Seq(Nat) /\ Len(Waiting) = written - Front
<1>1. Front \in Nat /\ written \in Nat /\ Front <= written BY FrontBounds, Numbers
<1>2. QED BY <1>1, UnrolledStream, WaitingIs, WindowIsSeq

\* A step that leaves the samples between the front and write where they are.
LEMMA WaitingStays ==
  ASSUME RingInv, RingInv', Front' = Front, written' = written,
         \A p \in retired..(written - 1) : Unrolled'[p] = Unrolled[p]
  PROVE  Waiting' = Waiting
<1>1. Front \in Nat /\ written \in Nat BY FrontBounds, Numbers
<1>2. \A p \in Front..(written - 1) : Unrolled'[p] = Unrolled[p] BY FrontBounds, Numbers
<1>3. Stream(Unrolled) BY UnrolledStream
<1>4. Stream(Unrolled')
  <2>1. (RingInv => Stream(Unrolled))' BY UnrolledStream, PTL
  <2>2. QED BY <2>1 DEF Stream
<1>5. Window(Unrolled', Front, written) = Window(Unrolled, Front, written)
  BY <1>1, <1>2, <1>3, <1>4, WindowSame
<1>6. QED BY <1>5, WaitingIs, WaitingNext

\* push's decision: a push that accepts nothing is an Enqueue of nothing.
LEMMA PushBeginQueues ==
  ASSUME RingInv, RingInv', PushBegin
  PROVE  Queue!Next \/ UNCHANGED Queue!vars
<1>1. PICK len \in Chunks :
        /\ offered + len <= MaxOffered
        /\ \/ pn' = 0 /\ ppc' = "idle" /\ offered' = offered + len
           \/ ppc' = "copy" /\ offered' = offered
  BY PushBeginAccepts
<1>2. UNCHANGED <<written, consumer, buf>> BY DEF PushBegin
<1>3. Front' = Front /\ Unrolled' = Unrolled BY <1>2 DEF Front, Unrolled, consumer
<1>4. Waiting' = Waiting BY <1>2, <1>3, WaitingStays
<1>5. heard' = heard BY <1>2 DEF consumer
<1>6. CASE offered' = offered + len
  <2>1. Waiting \in Seq(Nat) /\ Len(Waiting) + 0 <= Cap
    BY WaitingLength, FrontBounds, Numbers
  <2>2. [i \in 1..0 |-> offered + i - 1] = << >> OBVIOUS
  <2>3. Waiting' = Waiting \o [i \in 1..0 |-> offered + i - 1] BY <1>4, <2>1, <2>2
  <2>4. 0 \in 0..len BY BlocksAssumption
  <2>5. Queue!Enqueue BY <1>1, <1>5, <1>6, <2>1, <2>3, <2>4 DEF Queue!Enqueue
  <2>6. QED BY <2>5 DEF Queue!Next
<1>7. CASE offered' = offered BY <1>4, <1>5, <1>7 DEF Queue!vars
<1>8. QED BY <1>1, <1>6, <1>7

\* The copy into the slots is invisible: the queue has not changed.
LEMMA PushCopyQueues ==
  ASSUME RingInv, RingInv', PushCopy
  PROVE  UNCHANGED Queue!vars
<1>1. UNCHANGED <<offered, written, consumer>> BY DEF PushCopy
<1>2. Front' = Front BY <1>1 DEF Front, consumer
<1>3. Waiting' = Waiting BY <1>1, <1>2, CopyKeeps, WaitingStays
<1>4. QED BY <1>1, <1>3 DEF Queue!vars, consumer

\* The store of write makes the accepted samples the queue's newest.
LEMMA PushPublishQueues ==
  ASSUME RingInv, RingInv', ContentInv, PushPublish
  PROVE  Queue!Next
<1>1. /\ UNCHANGED <<pn, consumer, buf>> /\ ppc = "publish"
      /\ written' = written + pn /\ offered' = offered + chunk
  BY DEF PushPublish
<1>2. Front' = Front /\ Unrolled' = Unrolled BY <1>1 DEF Front, Unrolled, consumer
<1>3. chunk \in Chunks /\ pn <= chunk /\ offered + chunk <= MaxOffered
      /\ \A i \in 0..(pn - 1) : Unrolled[written + i] = offered + i
  BY <1>1 DEF ContentInv, Accepted, Copied
<1>4. Front \in Nat /\ Front <= written BY FrontBounds, Numbers
<1>5. Window(Unrolled, Front, written + pn)
        = Window(Unrolled, Front, written) \o Run(offered, pn)
  <2>1. Stream(Unrolled) BY UnrolledStream
  <2>2. written \in Nat /\ pn \in Nat /\ offered \in Nat BY Numbers
  <2>3. RunAt(Unrolled, written, offered, pn) BY <1>3 DEF RunAt
  <2>4. QED BY <1>4, <2>1, <2>2, <2>3, WindowExtended
<1>6. Waiting' = Waiting \o [i \in 1..pn |-> offered + i - 1]
  BY <1>1, <1>2, <1>5, WaitingIs, WaitingNext DEF Run
<1>7. Len(Waiting) + pn <= Cap
  <2>1. written + pn <= seenRead + Cap BY <1>1 DEF RingInv, PushFits
  <2>2. QED BY <2>1, WaitingLength, FrontBounds, Numbers
<1>8. pn \in 0..chunk BY <1>3, Numbers
<1>9. heard' = heard BY <1>1 DEF consumer
<1>10. Queue!Enqueue BY <1>1, <1>3, <1>6, <1>7, <1>8, <1>9 DEF Queue!Enqueue
<1>11. QED BY <1>10 DEF Queue!Next

\* The steps that leave the front, the slots and the producer alone.
LEMMA OthersKeepQueue ==
  ASSUME RingInv, RingInv', Front' = Front, UNCHANGED <<heard, producer, buf>>
  PROVE  UNCHANGED Queue!vars
<1>1. Unrolled' = Unrolled /\ written' = written /\ offered' = offered BY DEF Unrolled, producer
<1>2. Waiting' = Waiting BY <1>1, WaitingStays
<1>3. QED BY <1>1, <1>2 DEF Queue!vars

\* The front moves on over d samples.
LEMMA FrontAdvances ==
  ASSUME RingInv, RingInv', UNCHANGED <<producer, buf>>, NEW d \in Nat,
         Front' = Front + d, Front + d <= written
  PROVE  d <= Len(Waiting) /\ Waiting' = Rest(Waiting, d)
<1>1. Unrolled' = Unrolled /\ written' = written BY DEF Unrolled, producer
<1>2. Front \in Nat /\ written \in Nat BY FrontBounds, Numbers
<1>3. Rest(Window(Unrolled, Front, written), d) = Window(Unrolled, Front + d, written)
  BY <1>2, UnrolledStream, WindowRest
<1>4. d <= Len(Waiting) BY <1>2, WaitingLength
<1>5. QED BY <1>1, <1>3, <1>4, WaitingIs, WaitingNext

\* The copy is the delivery: it takes the queue's samples from the k-th on.
LEMMA MixCopyQueues ==
  ASSUME RingInv, RingInv', ContentInv, MixCopy
  PROVE  Queue!Next
<1>1. PICK k \in 0..Cap :
        /\ k > 0 => retired + k + Backlog <= seenWrite
        /\ cn > 0 /\ \E f \in Frames : cn <= f
        /\ heard' \in Seq(Nat) /\ Len(heard') = cn
        /\ \A i \in 1..cn : heard'[i] = Unrolled[retired + k + i - 1]
        /\ Front = retired /\ Front' = retired + k + cn
        /\ retired + k + cn <= seenWrite
        /\ UNCHANGED <<producer, buf, retired>>
  BY MixCopyHears
<1>2. /\ k \in Nat /\ cn \in Nat /\ cn > 0 /\ retired \in Nat /\ written \in Nat
      /\ seenWrite \in Nat /\ retired + k + cn <= seenWrite /\ seenWrite <= written
      /\ Backlog \in Nat
  <2>1. Cap \in Nat BY Numbers
  <2>2. k \in Nat BY <2>1
  <2>3. Backlog \in Nat BY <2>1, BacklogAssumption
  <2>4. QED BY <1>1, <2>2, <2>3, Numbers
<1>3. Waiting \in Seq(Nat) /\ Len(Waiting) = written - retired BY <1>1, WaitingLength
<1>4. heard' = Part(Waiting, k, cn)
  <2>1. PICK a \in Nat, b \in Nat : a = retired + k /\ b = retired + k + cn BY <1>2
  <2>2. a <= b /\ b - a = cn BY <1>2, <2>1
  <2>3. Window(Unrolled, a, b) \in Seq(Nat) /\ Len(Window(Unrolled, a, b)) = cn
    BY <2>2, UnrolledStream, WindowIsSeq
  <2>4. \A i \in 1..cn : Window(Unrolled, a, b)[i] = Unrolled[a + i - 1] BY <2>2 DEF Window
  <2>5. heard' = Window(Unrolled, a, b) BY <1>1, <2>1, <2>3, <2>4, SeqEqual
  <2>6. Part(Window(Unrolled, retired, written), k, cn) = Window(Unrolled, retired + k, retired + k + cn)
    BY <1>2, UnrolledStream, WindowMiddle
  <2>7. QED BY <1>1, <2>1, <2>5, <2>6, WaitingIs
<1>5. Waiting' = Rest(Waiting, k + cn)
  <2>1. k + cn \in Nat /\ Front' = Front + (k + cn) /\ Front + (k + cn) <= written
    BY <1>1, <1>2
  <2>2. QED BY <1>1, <2>1, FrontAdvances
<1>6. k \in 0..Len(Waiting) /\ cn \in 0..Len(Waiting) /\ k + cn <= Len(Waiting)
      /\ (k > 0 => k + Backlog <= Len(Waiting))
  BY <1>1, <1>2, <1>3
<1>7. heard' = IF cn = 0 THEN heard ELSE SubSeq(Waiting, k + 1, k + cn)
  BY <1>2, <1>4 DEF Part
<1>8. Waiting' = SubSeq(Waiting, k + cn + 1, Len(Waiting)) BY <1>5 DEF Rest
<1>9. offered' = offered BY <1>1 DEF producer
<1>10. Queue!Deliver BY <1>1, <1>6, <1>7, <1>8, <1>9 DEF Queue!Deliver
<1>11. QED BY <1>10 DEF Queue!Next

\* clear discards what it found, if anything.
LEMMA ClearStoreQueues ==
  ASSUME RingInv, RingInv', ContentInv, ClearStore
  PROVE  Queue!Next \/ UNCHANGED Queue!vars
<1>1. Front = retired /\ Front' = retired' /\ retired' \in retired..seenWrite
  BY ClearStoreContent
<1>2. UNCHANGED <<heard, producer, buf>> BY DEF ClearStore
<1>3. PICK d \in Nat : d = retired' - retired BY <1>1, Numbers
<1>4. Front' = Front + d /\ Front + d <= written BY <1>1, <1>3, Numbers
<1>5. d <= Len(Waiting) /\ Waiting' = Rest(Waiting, d) BY <1>2, <1>4, FrontAdvances
<1>6. CASE d = 0
  <2>1. Front' = Front BY <1>1, <1>4, <1>6, Numbers
  <2>2. QED BY <1>2, <2>1, OthersKeepQueue
<1>7. CASE d > 0
  <2>1. d \in 1..Len(Waiting) BY <1>5, <1>7, WaitingLength, FrontBounds, Numbers
  <2>2. Queue!Discard BY <1>2, <1>5, <2>1 DEF Queue!Discard, Rest, producer
  <2>3. QED BY <2>2 DEF Queue!Next
<1>8. QED BY <1>6, <1>7

\* Every step of the ring is one of the queue's, or none.
LEMMA RingQueues ==
  RingInv /\ RingInv' /\ ContentInv /\ [Next]_vars => [Queue!Next]_Queue!vars
<1> SUFFICES ASSUME RingInv, RingInv', ContentInv, [Next]_vars
             PROVE  Queue!Next \/ UNCHANGED Queue!vars
  OBVIOUS
<1>1. CASE PushBegin BY <1>1, PushBeginQueues
<1>2. CASE PushCopy BY <1>2, PushCopyQueues
<1>3. CASE PushPublish BY <1>3, PushPublishQueues
<1>4. CASE MixBegin
  <2>1. UNCHANGED <<heard, producer, buf>> BY <1>4 DEF MixBegin
  <2>2. QED BY <1>4, <2>1, MixBeginContent, OthersKeepQueue
<1>5. CASE MixCopy BY <1>5, MixCopyQueues
<1>6. CASE MixPublish
  <2>1. UNCHANGED <<heard, producer, buf>> BY <1>6 DEF MixPublish
  <2>2. QED BY <1>6, <2>1, MixPublishContent, OthersKeepQueue
<1>7. CASE ClearLoad
  <2>1. UNCHANGED <<heard, producer, buf>> BY <1>7 DEF ClearLoad
  <2>2. QED BY <1>7, <2>1, ClearLoadContent, OthersKeepQueue
<1>8. CASE ClearStore BY <1>8, ClearStoreQueues
<1>9. CASE UNCHANGED vars
  <2>1. Front' = Front BY <1>9 DEF vars, consumer, Front
  <2>2. QED BY <1>9, <2>1, OthersKeepQueue DEF vars, consumer
<1>10. QED BY <1>1, <1>2, <1>3, <1>4, <1>5, <1>6, <1>7, <1>8, <1>9 DEF Next, Produce, Consume

-----------------------------------------------------------------------------
\* Theorems.

\* Every variable has its type: the counters stay words, the slots hold indices
\* of captured samples, for every block push and mix_mono_into are called with.
THEOREM TypeCorrect == Spec => []TypeOK
<1>1. RingInv => TypeOK
  BY DEF RingInv
<1> QED
  BY <1>1, RingInvAlways, PTL

\* The wrapping difference of push's and mix_mono_into's counters is the number of
\* samples in the ring, never more than its capacity, whatever stale values the
\* two sides loaded.
THEOREM CountersAgreeHolds == Spec => []CountersAgree
<1>1. RingInv => CountersAgree
  <2> SUFFICES ASSUME RingInv PROVE CountersAgree
    OBVIOUS
  <2>1. retired \in Nat /\ written \in Nat /\ seenRead \in Nat /\ seenWrite \in Nat
    BY DEF RingInv, TypeOK
  <2>2. retired <= written /\ written - retired <= Cap
    BY <2>1, CapAssumption DEF RingInv, Ordered
  <2>3. WrapSub(write, read) = written - retired
    BY <2>1, <2>2, Distances DEF RingInv, Sync
  <2> QED
    BY <2>1, <2>2, <2>3, CapAssumption DEF CountersAgree
<1> QED
  BY <1>1, RingInvAlways, PTL

\* What the unsafe Send and Sync of AudioRing claim: the slots push writes and the
\* slots mix_mono_into reads meanwhile are different ones.
THEOREM NoSlotConflictHolds == Spec => []NoSlotConflict
<1>1. RingInv => NoSlotConflict
  <2> SUFFICES ASSUME RingInv, ppc = "copy", cpc = "copy",
                      NEW i \in 0..(pn - 1), NEW j \in 0..(cn - 1)
               PROVE  SlotAt(write, i) # SlotAt(cr, j)
    BY DEF NoSlotConflict, Touched
  <2>1. retired \in Nat /\ written \in Nat /\ seenRead \in Nat /\ seenWrite \in Nat
        /\ pn \in Nat /\ cn \in Nat /\ Cap \in Nat
    BY CapAssumption DEF RingInv, TypeOK
  <2>2. PICK k \in 0..Cap : cr = (retired + k) % Word /\ retired + k + cn <= seenWrite
    BY DEF RingInv, MixFits, TakenAt
  <2>3. written + pn <= seenRead + Cap
    BY DEF RingInv, PushFits
  <2>4. seenRead <= retired /\ seenWrite <= written /\ written <= seenRead + Cap
    BY DEF RingInv, Ordered
  <2>5. i \in 0..(Cap - 1) /\ j \in 0..(Cap - 1)
    BY <2>1, <2>2, <2>3, <2>4
  <2>6. SlotAt(write, i) = (written + i) % Cap
    BY <2>1, <2>5, SlotAtPosition DEF RingInv, Sync
  <2>7. retired + k \in Nat
    BY <2>1
  <2>8. SlotAt(cr, j) = (retired + k + j) % Cap
    BY <2>2, <2>5, <2>7, SlotAtPosition
  <2>9. retired + k + j \in Int /\ written + i \in Int
        /\ retired + k + j < written + i /\ (written + i) - (retired + k + j) < Cap
    BY <2>1, <2>2, <2>3, <2>4
  <2>10. (retired + k + j) % Cap # (written + i) % Cap
    BY <2>9, SlotsDistinct
  <2> QED
    BY <2>6, <2>8, <2>10
<1> QED
  BY <1>1, RingInvAlways, PTL

\* Every block mix_mono_into hands to the host holds its samples in capture order,
\* all of them younger than the block before: push never overwrites a slot whose
\* sample is still to be taken, however the counters wrap and however stale the
\* values the two sides loaded.
THEOREM HeardInOrderHolds == Spec => HeardInOrder
<1>1. RingInv /\ ContentInv /\ [Next]_vars
        => [heard' # heard
              => InOrder(heard') /\ (heard # << >> => heard[Len(heard)] < heard'[1])]_vars
  BY MixCopyInOrder, OthersKeepHeard
<1>2. Spec => [](RingInv /\ ContentInv) BY ContentAlways
<1>3. QED BY <1>1, <1>2, PTL DEF Spec, HeardInOrder

\* What is left of the latency that the comment on mix_mono_into promises: as long
\* as push has dropped nothing, a block mixed after any pause starts no further back
\* than BACKLOG_SAMPLES.
THEOREM LatencyBoundedWithoutLossHolds == Spec => LatencyBoundedWithoutLoss
<1>1. Init => Lossless BY LosslessInit
<1>2. RingInv /\ ContentInv /\ Lossless /\ [Next]_vars => Lossless' BY LosslessStep
<1>3. RingInv /\ Lossless /\ [Next]_vars
        => [StartsBlock /\ offered = written => AgeOfFirst <= Backlog]_vars
  BY OnlyMixBeginStarts, StartsWithinBacklog
<1>4. Spec => [](RingInv /\ ContentInv) BY ContentAlways
<1>5. QED BY <1>1, <1>2, <1>3, <1>4, PTL DEF Spec, LatencyBoundedWithoutLoss

\* push, mix_mono_into and clear, split at their accesses to shared memory,
\* implement the lossy queue: what is lost is lost at the ends, nothing is
\* reordered, repeated or invented.  The store of write is the Enqueue, the copy to
\* the host's block the Deliver, the store of clear the Discard.
THEOREM ImplementsQueue == Spec => QueueSpec
<1>1. Init => Queue!Init
  <2> SUFFICES ASSUME Init PROVE Queue!Init OBVIOUS
  <2>1. Front = 0 /\ written = 0 BY DEF Init, Front
  <2>2. Waiting = << >> BY <2>1 DEF Waiting
  <2>3. QED BY <2>2 DEF Init, Queue!Init
<1>2. RingInv /\ RingInv' /\ ContentInv /\ [Next]_vars => [Queue!Next]_Queue!vars BY RingQueues
<1>3. Spec => [](RingInv /\ ContentInv) BY ContentAlways
<1>4. QED BY <1>1, <1>2, <1>3, PTL DEF Spec, QueueSpec, Queue!Spec
=============================================================================
